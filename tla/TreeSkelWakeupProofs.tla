-------------------------- MODULE TreeSkelWakeupProofs --------------------------
(***************************************************************************)
(* Proofs about who sleeps and who is woken in the server skeleton, about  *)
(* the slots of in_progress, and about what verify() tells when there is   *)
(* one secondary thread.  They rest on IInv of TreeSkelProofs.             *)
(***************************************************************************)
EXTENDS TreeSkelProofs

ThreadStates == {"get", "asleep", "guard", "blocked", "write", "record",
                 "leave", "crashed"}

Getters == {t \in Threads : pc[t] = "get"}
Blocked == {t \in Threads : pc[t] = "blocked"}

-----------------------------------------------------------------------------
(* What each kind of step does to the threads. *)

\* Everything the main thread does but queueing a request leaves the queue and
\* the guard alone; the threads stay where they are, or all die.
LEMMA MainStepPool ==
  ASSUME Invoke, ~QueueRequest
  PROVE  /\ UNCHANGED <<queue, counter, req, done, max_proc>>
         /\ UNCHANGED pc \/ pc' = [t \in Threads |-> "crashed"]
BY DEF Invoke, Sweep, FinishInvokeWrite, AssignSlot, InvokeOther, StartRead,
       StartList, StartTreeCall, FinishRead, FinishSize, Sized, FinishList,
       ListOf, ListFails, FinishTreeCall, TornReadCrashes, Crash, Send, poolVars

\* So does a write that dies.
LEMMA WriteCrashesPool ==
  ASSUME NEW t \in Threads, WriteCrashes(t)
  PROVE  /\ UNCHANGED <<queue, counter>>
         /\ pc' = [u \in Threads |-> "crashed"]
BY DEF WriteCrashes, Crash

LEMMA ReceivePool ==
  ASSUME NEW m \in Messages, Receive(m)
  PROVE  UNCHANGED <<queue, counter, pc, req, done, max_proc>>
BY DEF Receive, poolVars

\* The set of threads is finite, and so is every part of it.
LEMMA ThreadsFinite ==
  /\ IsFiniteSet(Threads)
  /\ Cardinality(Threads) = NThreads
  /\ \A S \in SUBSET Threads : IsFiniteSet(S) /\ Cardinality(S) \in Nat
<1>1. NThreads \in Nat
  BY SkelAssumption DEF SkelAssumption
<1>2. IsFiniteSet(Threads) /\ Cardinality(Threads) = NThreads
  BY <1>1, FS_Interval DEF Threads
<1>3. QED
  BY <1>2, FS_Subset, FS_CardinalityType

-----------------------------------------------------------------------------
(* The guard. *)

\* A thread that goes to sleep on process_cond has seen counter at 0 under
\* the mutex, and whoever raises counter wakes all.
LEMMA BlockedStep ==
  ASSUME IInv, GuardNotSlept, [Next]_vars
  PROVE  GuardNotSlept'
<1>1. CASE UNCHANGED <<pc, counter>>
  BY <1>1 DEF GuardNotSlept
<1>2. CASE Invoke /\ ~QueueRequest
  BY <1>1, <1>2, MainStepPool DEF GuardNotSlept
<1>3. ASSUME NEW m \in Messages, Receive(m)
      PROVE  GuardNotSlept'
  BY <1>1, <1>3, ReceivePool
<1>4. CASE QueueRequest
  <2>1. UNCHANGED counter /\ Signal
    BY <1>4 DEF QueueRequest, QueueWrite
  <2>2. \A t \in Threads : pc'[t] = "blocked" => pc[t] = "blocked"
    BY <2>1 DEF Signal, Asleep, IInv, TypeOK
  <2>3. QED
    BY <2>1, <2>2 DEF GuardNotSlept
<1>5. ASSUME NEW t \in Threads,
             process_request(t) \/ SpuriousWakeup(t) \/ WriteCrashes(t)
      PROVE  GuardNotSlept'
  <2>1. CASE GuardWait(t)
    BY <2>1 DEF GuardWait, GuardNotSlept
  <2>2. CASE GuardStart(t)
    <3>1. counter = 1 /\ counter' = 0
      BY <2>2 DEF GuardStart, Enter, IInv, TypeOK
    <3>2. QED
      BY <3>1 DEF GuardNotSlept
  <2>3. CASE GuardEnd(t)
    BY <2>3 DEF GuardEnd, Leave, GuardNotSlept
  <2>4. CASE QueueWait(t) \/ QueueGet(t) \/ FinishWrite(t) \/ Record(t)
             \/ SpuriousWakeup(t)
    <3>1. UNCHANGED counter
      BY <2>4 DEF QueueWait, QueueGet, Take, FinishWrite, Record, RecordAs,
           SpuriousWakeup
    <3>2. \E to \in ThreadStates \ {"blocked"} : pc' = [pc EXCEPT ![t] = to]
      BY <2>4 DEF QueueWait, QueueGet, Take, FinishWrite, Record, RecordAs,
           SpuriousWakeup, Step, ThreadStates
    <3>3. QED
      BY <3>1, <3>2 DEF GuardNotSlept, IInv, TypeOK
  <2>5. CASE WriteCrashes(t)
    BY <2>5, WriteCrashesPool DEF GuardNotSlept
  <2>6. QED
    BY <1>5, <2>1, <2>2, <2>3, <2>4, <2>5 DEF process_request
<1>6. QED
  BY <1>1, <1>2, <1>3, <1>4, <1>5 DEF Next, vars

\* guard_start and guard_end (tree_skel.c:30-54) leave nobody asleep in front
\* of a free guard.
THEOREM GuardIsNotSlept == Spec => []GuardNotSlept
<1>1. Init => GuardNotSlept
  BY DEF Init, GuardNotSlept
<1>2. IInv /\ GuardNotSlept /\ [Next]_vars => GuardNotSlept'
  BY BlockedStep
<1>3. QED
  BY <1>1, <1>2, Invariance, PTL DEF Spec

-----------------------------------------------------------------------------
(* The queue. *)

\* One thread more, or less, is about to take a request.
LEMMA GetterJoins ==
  ASSUME NEW t \in Threads, pc[t] # "get",
         Getters' = Getters \cup {t}
  PROVE  /\ Cardinality(Getters') = Cardinality(Getters) + 1
         /\ Cardinality(Getters) \in Nat
<1>1. IsFiniteSet(Getters) /\ Cardinality(Getters) \in Nat
  BY ThreadsFinite DEF Getters
<1>2. t \notin Getters
  BY DEF Getters
<1>3. QED
  BY <1>1, <1>2, FS_AddElement

LEMMA GetterLeaves ==
  ASSUME NEW t \in Threads, pc[t] = "get",
         Getters' = Getters \ {t}
  PROVE  /\ Cardinality(Getters') = Cardinality(Getters) - 1
         /\ Cardinality(Getters) \in Nat
<1>1. IsFiniteSet(Getters) /\ Cardinality(Getters) \in Nat
  BY ThreadsFinite DEF Getters
<1>2. t \in Getters
  BY DEF Getters
<1>3. QED
  BY <1>1, <1>2, FS_RemoveElement

\* A signal is never lost on a thread that does not sleep, as long as a
\* thread sleeps only when the queue was empty: the requests in the queue
\* never outnumber the threads on their way to take one.
LEMMA WakeupStep ==
  ASSUME IInv, NoLostWakeup, [Next]_vars
  PROVE  NoLostWakeup'
<1> USE DEF Getters
<1>1. /\ queue \in Seq(Request) /\ Len(queue) \in Nat
      /\ pc \in [Threads -> ThreadStates]
  BY LenProperties DEF IInv, TypeOK, ThreadStates
<1>2. CASE UNCHANGED <<queue, pc>>
  BY <1>2 DEF NoLostWakeup, Asleep
<1>3. CASE Invoke /\ ~QueueRequest
  <2>1. CASE UNCHANGED pc
    BY <1>2, <1>3, <2>1, MainStepPool
  <2>2. CASE pc' = [t \in Threads |-> "crashed"]
    <3>1. Asleep' = {}
      BY <2>2 DEF Asleep
    <3>2. QED
      BY <3>1 DEF NoLostWakeup
  <2>3. QED
    BY <1>3, <2>1, <2>2, MainStepPool
<1>4. ASSUME NEW m \in Messages, Receive(m)
      PROVE  NoLostWakeup'
  BY <1>2, <1>4, ReceivePool
<1>5. CASE QueueRequest
  <2>1. queue' = Append(queue, create_request(msg)) /\ Signal
    BY <1>5 DEF QueueRequest, QueueWrite
  <2>2. CASE Asleep = {}
    <3>1. Asleep' = {}
      BY <2>1, <2>2 DEF Signal, Asleep
    <3>2. QED
      BY <3>1 DEF NoLostWakeup
  <2>3. CASE Asleep # {}
    <3>1. PICK t \in Asleep : pc' = [pc EXCEPT ![t] = "get"]
      BY <2>1, <2>3 DEF Signal
    <3>2. t \in Threads /\ pc[t] # "get" /\ Getters' = Getters \cup {t}
      BY <1>1, <3>1 DEF Asleep
    <3>3. Cardinality(Getters') = Cardinality(Getters) + 1
          /\ Cardinality(Getters) \in Nat
      BY <3>2, GetterJoins
    <3>4. Len(queue') = Len(queue) + 1
      <4>1. create_request(msg) \in Request
        BY SkelAssumption, RequestTypes DEF IInv, TypeOK
      <4>2. QED
        BY <1>1, <2>1, <4>1, AppendProperties
    <3>5. Len(queue) <= Cardinality(Getters)
      BY <2>3 DEF NoLostWakeup
    <3>6. QED
      BY <1>1, <3>3, <3>4, <3>5 DEF NoLostWakeup
  <2>4. QED
    BY <2>2, <2>3
<1>6. ASSUME NEW t \in Threads,
             process_request(t) \/ SpuriousWakeup(t) \/ WriteCrashes(t)
      PROVE  NoLostWakeup'
  <2>1. CASE QueueWait(t)
    <3>1. Len(queue') = 0
      BY <2>1 DEF QueueWait
    <3>2. Cardinality(Getters') \in Nat
      <4>1. Getters' \in SUBSET Threads
        OBVIOUS
      <4>2. QED
        BY <4>1, ThreadsFinite
    <3>3. QED
      BY <3>1, <3>2 DEF NoLostWakeup
  <2>2. CASE QueueGet(t)
    <3>1. /\ pc[t] = "get" /\ pc' = [pc EXCEPT ![t] = "guard"]
          /\ queue # <<>> /\ queue' = Tail(queue)
      BY <2>2 DEF QueueGet, Take, Step
    <3>2. Getters' = Getters \ {t} /\ Asleep' = Asleep
      BY <1>1, <3>1 DEF Asleep
    <3>3. Cardinality(Getters') = Cardinality(Getters) - 1
          /\ Cardinality(Getters) \in Nat
      BY <3>1, <3>2, GetterLeaves
    <3>4. Len(queue') = Len(queue) - 1
      BY <1>1, <3>1, HeadTailProperties
    <3>5. QED
      BY <1>1, <3>2, <3>3, <3>4 DEF NoLostWakeup
  <2>3. CASE SpuriousWakeup(t)
    <3>1. /\ UNCHANGED queue
          /\ \/ pc[t] = "asleep" /\ pc' = [pc EXCEPT ![t] = "get"]
             \/ pc[t] = "blocked" /\ pc' = [pc EXCEPT ![t] = "guard"]
      BY <2>3 DEF SpuriousWakeup, Step
    <3>2. CASE pc[t] = "asleep" /\ pc' = [pc EXCEPT ![t] = "get"]
      <4>1. Getters' = Getters \cup {t} /\ Asleep' \subseteq Asleep
        BY <1>1, <3>2 DEF Asleep
      <4>2. Cardinality(Getters') = Cardinality(Getters) + 1
            /\ Cardinality(Getters) \in Nat
        BY <3>2, <4>1, GetterJoins
      <4>3. QED
        BY <1>1, <3>1, <4>1, <4>2 DEF NoLostWakeup
    <3>3. CASE pc[t] = "blocked" /\ pc' = [pc EXCEPT ![t] = "guard"]
      <4>1. Getters' = Getters /\ Asleep' = Asleep
        BY <1>1, <3>3 DEF Asleep
      <4>2. QED
        BY <3>1, <4>1 DEF NoLostWakeup
    <3>4. QED
      BY <3>1, <3>2, <3>3
  <2>4. CASE GuardWait(t) \/ GuardStart(t) \/ FinishWrite(t) \/ Record(t)
    <3>1. /\ UNCHANGED queue
          /\ pc[t] \notin {"get", "asleep"}
          /\ \E to \in ThreadStates \ {"get", "asleep"} : pc' = [pc EXCEPT ![t] = to]
      BY <2>4 DEF GuardWait, GuardStart, Enter, FinishWrite, Record, RecordAs,
           Step, ThreadStates
    <3>2. Getters' = Getters /\ Asleep' = Asleep
      BY <1>1, <3>1 DEF Asleep
    <3>3. QED
      BY <3>1, <3>2 DEF NoLostWakeup
  <2>5. CASE GuardEnd(t)
    <3>1. /\ UNCHANGED queue
          /\ pc[t] = "leave"
          /\ pc' = [u \in Threads |-> IF u = t THEN "get"
                                      ELSE IF u \in Blocked THEN "guard" ELSE pc[u]]
      BY <2>5 DEF GuardEnd, Leave, Blocked
    <3>2. Getters' = Getters \cup {t} /\ Asleep' = Asleep
      BY <1>1, <3>1 DEF Asleep, Blocked
    <3>3. Cardinality(Getters') = Cardinality(Getters) + 1
          /\ Cardinality(Getters) \in Nat
      BY <3>1, <3>2, GetterJoins
    <3>4. QED
      BY <1>1, <3>1, <3>2, <3>3 DEF NoLostWakeup
  <2>6. CASE WriteCrashes(t)
    <3>1. Asleep' = {}
      BY <2>6, WriteCrashesPool DEF Asleep
    <3>2. QED
      BY <3>1 DEF NoLostWakeup
  <2>7. QED
    BY <1>6, <2>1, <2>2, <2>3, <2>4, <2>5, <2>6 DEF process_request
<1>7. QED
  BY <1>2, <1>3, <1>4, <1>5, <1>6 DEF Next, vars

\* While a thread sleeps on queue_not_empty, every request in the queue has a
\* thread awake to take it (tree_skel.c, queue_add_request and
\* queue_get_request).
THEOREM NoWakeupIsLost == Spec => []NoLostWakeup
<1>1. Init => NoLostWakeup
  BY DEF Init, NoLostWakeup, Asleep
<1>2. IInv /\ NoLostWakeup /\ [Next]_vars => NoLostWakeup'
  BY WakeupStep
<1>3. QED
  BY <1>1, <1>2, Invariance, PTL DEF Spec

-----------------------------------------------------------------------------
(* The slots of in_progress. *)

\* The slots name numbers that invoke() has given out, each once; the number
\* of a write on its way to its slot is not among them.
SlotInv ==
  /\ \A i \in Slots : in_progress[i] < last_assigned
  /\ \A i, j \in Slots :
       in_progress[i] # 0 /\ in_progress[i] = in_progress[j] => i = j

\* Only invoke() touches the slots, when it sweeps and when it notes a write.
LEMMA SlotsUntouched ==
  ASSUME [Next]_vars, ~Sweep, ~FinishInvokeWrite
  PROVE  UNCHANGED <<in_progress, last_assigned>>
BY DEF Next, vars, Receive, Invoke, QueueRequest, QueueWrite, InvokeOther,
       StartRead, StartList, StartTreeCall, FinishRead, FinishSize, Sized,
       FinishList, ListOf, ListFails, FinishTreeCall, TornReadCrashes, Crash,
       Send, WriteCrashes, process_request, QueueWait, QueueGet, Take, GuardWait, GuardStart, Enter,
       FinishWrite, Record, RecordAs, GuardEnd, Leave, SpuriousWakeup

\* FirstFree is one free slot, or none.
LEMMA FirstFreeIsOne ==
  /\ \A i \in FirstFree : i \in Slots /\ in_progress[i] = 0
  /\ \A i, j \in FirstFree : i = j
<1>1. \A i \in FirstFree : i \in Slots /\ in_progress[i] = 0
  BY DEF FirstFree
<1>2. SUFFICES ASSUME NEW i \in FirstFree, NEW j \in FirstFree, i < j
               PROVE  FALSE
  BY <1>1, SkelAssumption DEF Slots, SkelAssumption
<1>3. i \in 1 .. j - 1
  BY <1>1, <1>2, SkelAssumption DEF Slots, SkelAssumption
<1>4. QED
  BY <1>1, <1>3 DEF FirstFree

LEMMA SlotStep ==
  ASSUME IInv, SlotInv, [Next]_vars
  PROVE  SlotInv'
<1>1. in_progress \in [Slots -> Nat] /\ last_assigned \in Nat \ {0}
  BY SkelAssumption DEF IInv, TypeOK, SkelAssumption
<1>2. CASE UNCHANGED <<in_progress, last_assigned>>
  BY <1>2 DEF SlotInv
<1>3. CASE Sweep
  <2>1. \A i \in Slots : in_progress'[i] \in {0, in_progress[i]}
    BY <1>3 DEF Sweep
  <2>2. UNCHANGED last_assigned
    BY <1>3 DEF Sweep
  <2>3. QED
    BY <1>1, <2>1, <2>2 DEF SlotInv
<1>4. CASE FinishInvokeWrite
  <2>1. /\ in_progress' = [i \in Slots |->
             IF i \in FirstFree THEN last_assigned ELSE in_progress[i]]
        /\ last_assigned' = last_assigned + 1
    BY <1>4 DEF FinishInvokeWrite, AssignSlot
  <2>2. QED
    BY <1>1, <2>1, FirstFreeIsOne DEF SlotInv
<1>5. QED
  BY <1>2, <1>3, <1>4, SlotsUntouched

\* in_progress never holds a number twice, nor one that was not handed out.
THEOREM SlotsAreDistinct == Spec => []SlotsDistinct
<1>1. Init => SlotInv
  BY DEF Init, SlotInv
<1>2. IInv /\ SlotInv /\ [Next]_vars => SlotInv'
  BY SlotStep
<1>3. IInv /\ SlotInv => SlotsDistinct
  <2>1. SUFFICES ASSUME IInv, SlotInv
                 PROVE  SlotsDistinct
    OBVIOUS
  <2>2. /\ in_progress \in [Slots -> Nat] /\ last_assigned \in Nat
        /\ last_assigned - 1 <= Created
    BY <2>1, SkelAssumption DEF IInv, TypeOK, SkelAssumption, Created
  <2>3. \A i \in Slots : in_progress[i] <= Created
    <3>1. Created \in Int
      BY <2>2 DEF Created
    <3>2. QED
      BY <2>1, <2>2, <3>1 DEF SlotInv
  <2>4. QED
    BY <2>1, <2>3 DEF SlotsDistinct, SlotInv
<1>4. QED
  BY <1>1, <1>2, <1>3, Invariance, PTL DEF Spec

-----------------------------------------------------------------------------
(* What the client is told. *)

\* A verdict that is on its way is still right about max_proc.
ReplyInv ==
  /\ mpc \in {"size", "sized", "list"} => msg.opcode \in {"GETKEYS", "GETVALUES"}
  /\ mpc = "send" /\ msg.opcode = "VERIFY" /\ msg.n > 0 /\ reply.n = 1 =>
       max_proc >= msg.n

LEMMA ReplyStep ==
  ASSUME IInv, ReplyInv, [Next]_vars
  PROVE  ReplyInv'
<1>1. msg \in Message /\ msg.n \in Int /\ max_proc \in Nat
  BY DEF IInv, TypeOK, Message
<1>2. max_proc' \in Nat /\ max_proc' >= max_proc
  BY MaxProcGrows
<1>3. CASE UNCHANGED <<mpc, msg, reply>>
  BY <1>1, <1>2, <1>3 DEF ReplyInv
<1>4. CASE mpc' \in {"poll", "sweep", "dispatch", "slot", "read", "crashed", "crashed_slot"}
  BY <1>4 DEF ReplyInv
<1>5. CASE InvokeOther
  <2>1. /\ mpc' = "send" /\ UNCHANGED <<msg, max_proc>>
        /\ msg.opcode = "VERIFY" => reply' = Result(verify(msg.n))
    BY <1>5 DEF InvokeOther, Goto
  <2>2. msg.opcode = "VERIFY" => reply'.n = verify(msg.n)
    BY <2>1 DEF Result, NoReply
  <2>3. QED
    BY <1>1, <2>1, <2>2 DEF ReplyInv, verify
<1>6. CASE FinishInvokeWrite
  <2>1. mpc = "slot" /\ mpc' = "send" /\ UNCHANGED msg
    BY <1>6 DEF FinishInvokeWrite, AssignSlot, Goto
  <2>2. msg.opcode # "VERIFY"
    BY <2>1 DEF IInv, BoundInv, IsWrite
  <2>3. QED
    BY <2>1, <2>2 DEF ReplyInv
<1>7. CASE StartRead \/ StartList
  BY <1>7 DEF StartRead, StartList, StartTreeCall, Goto, ReplyInv
<1>8. CASE FinishRead
  <2>1. mpc' = "send" /\ UNCHANGED msg /\ msg.opcode # "VERIFY"
    BY <1>8 DEF FinishRead, FinishTreeCall, Goto
  <2>2. QED
    BY <2>1 DEF ReplyInv
<1>9. CASE FinishSize
  <2>1. /\ mpc = "size" /\ mpc' \in {"send", "sized"} /\ UNCHANGED msg
    BY <1>9 DEF FinishSize, Sized, FinishTreeCall, Goto
  <2>2. QED
    BY <2>1 DEF ReplyInv
<1>10. CASE FinishList
  <2>1. mpc = "list" /\ mpc' \in {"send", "crashed"} /\ UNCHANGED msg
    BY <1>10 DEF FinishList, ListOf, ListFails, FinishTreeCall, Crash, Goto
  <2>2. QED
    BY <2>1 DEF ReplyInv
<1>11. CASE Sweep \/ QueueRequest \/ TornReadCrashes \/ Send
  BY <1>4, <1>11 DEF Sweep, QueueRequest, QueueWrite, TornReadCrashes, Crash,
       Send, Goto
<1>12. ASSUME NEW m \in Messages, Receive(m)
       PROVE  ReplyInv'
  BY <1>4, <1>12 DEF Receive, Goto
<1>13. ASSUME NEW t \in Threads, process_request(t) \/ SpuriousWakeup(t)
       PROVE  ReplyInv'
  BY <1>3, <1>13 DEF process_request, SpuriousWakeup, QueueWait, QueueGet, Take,
       GuardWait, GuardStart, Enter, FinishWrite, Record, RecordAs, GuardEnd,
       Leave, mainVars
<1>14. ASSUME NEW t \in Threads, WriteCrashes(t)
       PROVE  ReplyInv'
  BY <1>4, <1>14 DEF WriteCrashes, Crash, Goto
<1>15. QED
  BY <1>3, <1>5, <1>6, <1>7, <1>8, <1>9, <1>10, <1>11, <1>12, <1>13, <1>14
     DEF Next, Invoke, vars

\* What AsyncWrites proves of its certificate.
Writes == INSTANCE AsyncWritesProofs
            WITH Width <- NThreads, MaxIssued <- MaxWrites,
                 issued <- Created, executed <- done, certified <- max_proc

\* The writes that verify() calls executed and that are not.
Overclaimed == {n \in 1 .. max_proc : n \notin done}

\* verify() is wrong about fewer writes than there are secondary threads.
THEOREM OverclaimsAreFew ==
  ASSUME NThreads # 0
  PROVE  Spec => [](Cardinality(Overclaimed) < NThreads)
<1>1. Writes!Spec => []Writes!OverclaimBounded
  <2>1. NThreads \in Nat \ {0} /\ MaxWrites \in Nat
    BY SkelAssumption DEF SkelAssumption
  <2>2. QED
    BY <2>1, Writes!OverclaimIsBounded DEF Writes!WidthAssumption
<1>2. Writes!Init <=> Abs!Init
  BY DEF Writes!Init, Abs!Init
<1>3. [Writes!Next]_(Writes!writeVars) <=> [Abs!Next]_(Abs!writeVars)
  BY DEF Writes!Next, Abs!Next, Writes!writeVars, Abs!writeVars, Writes!Issue,
       Abs!Issue, Writes!Execute, Abs!Execute, Writes!Certify, Abs!Certify,
       Writes!Overtaken, Abs!Overtaken, Writes!Cardinality, Abs!Cardinality
<1>4. Writes!OverclaimBounded <=> Cardinality(Overclaimed) < NThreads
  BY DEF Writes!OverclaimBounded, Overclaimed, Writes!Cardinality, Cardinality
<1>5. QED
  BY <1>1, <1>2, <1>3, <1>4, Implements, PTL
     DEF WriteContract, Writes!Spec, Abs!Spec

\* With one secondary thread verify() tells the truth, as tree_skel.h says;
\* with two it does not (the run verify_overclaims).
THEOREM OneThreadTellsTruth ==
  ASSUME NThreads = 1
  PROVE  Spec => []VerifyTellsTruth
<1>1. Init => ReplyInv
  BY DEF Init, ReplyInv
<1>2. IInv /\ ReplyInv /\ [Next]_vars => ReplyInv'
  BY ReplyStep
<1>3. IInv /\ ReplyInv /\ Cardinality(Overclaimed) < NThreads => VerifyTellsTruth
  <2>1. SUFFICES ASSUME IInv, ReplyInv, Cardinality(Overclaimed) < NThreads,
                        mpc = "send", msg.opcode = "VERIFY", msg.n > 0, reply.n = 1
                 PROVE  msg.n \in done
    BY DEF VerifyTellsTruth
  <2>2. max_proc \in Nat /\ msg.n \in 1 .. max_proc
    BY <2>1 DEF IInv, TypeOK, Message, ReplyInv
  <2>3. IsFiniteSet(1 .. max_proc)
    BY <2>2, FS_Interval
  <2>4. IsFiniteSet(Overclaimed)
    BY <2>3, FS_Subset DEF Overclaimed
  <2>5. Overclaimed = {}
    BY <2>1, <2>4, FS_CardinalityType, FS_EmptySet
  <2>6. QED
    BY <2>2, <2>5 DEF Overclaimed
<1>4. Spec => [](Cardinality(Overclaimed) < NThreads)
  BY OverclaimsAreFew
<1>5. QED
  BY <1>1, <1>2, <1>3, <1>4, Invariance, PTL DEF Spec

=============================================================================
