---------------------------- MODULE TreeSkelProofs ----------------------------
(***************************************************************************)
(* Proofs about the server skeleton, for any number of threads and writes, *)
(* any keys and values and any set of requests.                            *)
(***************************************************************************)
EXTENDS TreeSkel, FiniteSetTheorems, SequenceTheorems, TLAPS

\* The numbers 1..Taken have left the queue; op_n of a thread is 0 when it
\* holds no request.
Taken   == Created - Len(queue)
OpOf(t) == req[t].op_n

\* The next number exists while a write is on its way to the queue.
BoundInv ==
  /\ mpc = "slot" => IsWrite(msg)
  /\ mpc \in {"sweep", "dispatch", "slot"} /\ IsWrite(msg) =>
       last_assigned <= MaxWrites

\* A GET names a key.
ReadInv == msg.opcode = "GET" => msg.key \in Keys

\* The queue holds the numbers after Taken, in order.
QueueInv ==
  /\ Taken \in Nat
  /\ \A i \in 1 .. Len(queue) : queue[i].op_n = Taken + i

\* Every number up to Taken is held or executed, and no two threads hold the
\* same.
HeldInv ==
  /\ \A t \in Threads : OpOf(t) \in 0 .. Taken
  /\ \A t, u \in Threads : OpOf(t) = OpOf(u) /\ OpOf(t) # 0 => t = u
  /\ done \subseteq 1 .. Taken
  /\ \A n \in 1 .. Taken : n \in done \/ \E t \in Threads : OpOf(t) = n

\* What the control state of a thread says about the request it holds.
ThreadInv ==
  \A t \in Threads :
    /\ pc[t] \in {"get", "asleep"} => OpOf(t) = 0
    /\ pc[t] \in {"guard", "blocked", "write"} => OpOf(t) > 0 /\ OpOf(t) \notin done
    /\ pc[t] \in {"record", "leave"} => OpOf(t) \in done
    /\ pc[t] = "leave" => OpOf(t) <= max_proc

\* max_proc is the number of an executed write, and only a thread that still
\* holds its request can have executed a write with a larger number.
CertInv ==
  /\ max_proc \in {0} \cup done
  /\ \A n \in done : n <= max_proc \/ \E t \in Threads : OpOf(t) = n

\* counter counts the free places of the guard.
GuardInv ==
  ~Crashed =>
    \/ counter = 1 /\ \A t \in Threads : t \notin Inside
    \/ counter = 0 /\ \E t \in Threads : Inside = {t}

\* A crash ends every thread.
CrashInv ==
  /\ Crashed => \A t \in Threads : pc[t] = "crashed"
  /\ ~Crashed => \A t \in Threads : pc[t] # "crashed"

IInv ==
  /\ TypeOK
  /\ BoundInv
  /\ ReadInv
  /\ QueueInv
  /\ HeldInv
  /\ ThreadInv
  /\ CertInv
  /\ GuardInv
  /\ CrashInv

\* The proofs look at the control states behind Crashed everywhere.
USE DEF Crashed

-----------------------------------------------------------------------------
(* Facts about the data. *)

\* NoRequest and what create_request builds are requests.
LEMMA RequestTypes ==
  ASSUME SkelAssumption
  PROVE  /\ NoRequest \in Request
         /\ \A m \in Message : last_assigned \in Nat => create_request(m) \in Request
  BY DEF SkelAssumption, NoRequest, Request, create_request, Message

\* NoMessage is a message, NoReply and Result(n) are responses.
LEMMA MessageTypes ==
  ASSUME SkelAssumption
  PROVE  /\ NoMessage \in Message
         /\ NoReply \in Reply
         /\ \A n \in Nat : Result(n) \in Reply
<1>1. NoMessage \in Message
  BY DEF SkelAssumption, NoMessage, Message
<1>2. {} \in SUBSET (AnyKey \cup AnyKey \X (AnyValue \cup {None}))
  OBVIOUS
<1>3. NoReply \in Reply
  BY <1>2 DEF NoReply, Reply
<1>4. \A n \in Nat : Result(n) \in Reply
  BY <1>2 DEF NoReply, Reply, Result
<1>5. QED
  BY <1>1, <1>3, <1>4

\* The tree is finite, so its size is a number.
LEMMA SizeType ==
  ASSUME SkelAssumption
  PROVE  /\ IsFiniteSet(AnyKey)
         /\ Cardinality(AnyKey) \in Nat
         /\ \A S \in SUBSET AnyKey : IsFiniteSet(S) /\ Cardinality(S) \in Nat
         /\ tree_size \in Nat
<1>1. IsFiniteSet(AnyKey)
  <2>1. IsFiniteSet(Keys) BY DEF SkelAssumption
  <2>2. QED BY <2>1, FS_AddElement DEF AnyKey
<1>2. \A S \in SUBSET AnyKey : IsFiniteSet(S) /\ Cardinality(S) \in Nat
  BY <1>1, FS_Subset, FS_CardinalityType
<1>3. Present \in SUBSET AnyKey
  BY DEF Present
<1>4. QED
  BY <1>1, <1>2, <1>3 DEF tree_size

\* What SomeSize offers are numbers.
LEMMA SomeSizeType ==
  ASSUME SkelAssumption
  PROVE  SomeSize \subseteq Nat
<1>1. Cardinality(AnyKey) \in Nat /\ tree_size \in Nat
  BY SizeType
<1>2. QED
  BY <1>1 DEF SomeSize

-----------------------------------------------------------------------------
(* Every step keeps IInv: first the steps that only move the main thread,  *)
(* then the queue, then the secondary threads.                             *)

LEMMA InitInv ==
  ASSUME SkelAssumption, Init
  PROVE  IInv
<1>1. TypeOK
  <2>1. NoRequest \in Request /\ NoMessage \in Message /\ NoReply \in Reply
    BY RequestTypes, MessageTypes
  <2>2. <<>> \in Seq(Request)
    OBVIOUS
  <2>3. last_assigned \in 1 .. MaxWrites + 1
    BY DEF SkelAssumption, Init
  <2>4. tree \in [AnyKey -> AnyValue \cup {None}]
    BY DEF Init
  <2>5. QED
    BY <2>1, <2>2, <2>3, <2>4 DEF Init, TypeOK
<1>2. Len(queue) = 0 /\ Created = 0 /\ Taken = 0
  <2>1. Len(<<>>) = 0
    OBVIOUS
  <2>2. Created = 0
    BY DEF Init, Created
  <2>3. Len(queue) = 0
    BY <2>1, Zenon DEF Init
  <2>4. QED
    BY <2>2, <2>3 DEF Taken
<1>3. \A t \in Threads : OpOf(t) = 0 /\ pc[t] = "get"
  BY DEF Init, OpOf, NoRequest
<1>4. BoundInv /\ ReadInv /\ QueueInv /\ CrashInv
  BY <1>2, <1>3 DEF Init, BoundInv, ReadInv, QueueInv, CrashInv, NoMessage, IsWrite
<1>5. HeldInv /\ ThreadInv /\ CertInv
  BY <1>2, <1>3 DEF Init, HeldInv, ThreadInv, CertInv
<1>6. GuardInv
  BY <1>3 DEF Init, GuardInv, Inside
<1>7. QED
  BY <1>1, <1>4, <1>5, <1>6 DEF IInv

\* What the parts of IInv about the writes depend on.
LEMMA Frame ==
  ASSUME QueueInv, HeldInv, ThreadInv, CertInv, GuardInv, CrashInv,
         UNCHANGED <<queue, counter, pc, req, done, max_proc>>,
         Created' = Created, ~Crashed, ~Crashed'
  PROVE  (QueueInv /\ HeldInv /\ ThreadInv /\ CertInv /\ GuardInv /\ CrashInv)'
<1>1. Taken' = Taken /\ \A t : OpOf(t)' = OpOf(t)
  BY DEF Taken, OpOf
<1>2. QueueInv'
  BY <1>1 DEF QueueInv
<1>3. HeldInv'
  BY <1>1 DEF HeldInv
<1>4. ThreadInv' /\ CertInv'
  BY <1>1 DEF ThreadInv, CertInv
<1>5. Inside' = Inside
  BY DEF Inside
<1>6. GuardInv' /\ CrashInv'
  BY <1>5 DEF GuardInv, CrashInv
<1>7. QED
  BY <1>2, <1>3, <1>4, <1>6

\* A step of the main thread that leaves the pool and the numbers alone keeps
\* IInv if it keeps the types and the bound.
LEMMA QuietMain ==
  ASSUME SkelAssumption, IInv,
         UNCHANGED <<queue, counter, tree, pc, req, done, last_assigned, max_proc>>,
         mpc \notin {"slot", "crashed", "crashed_slot"},
         mpc' \in {"poll", "sweep", "dispatch", "read", "size", "sized", "list", "send"},
         in_progress' \in [Slots -> Nat],
         msg' \in Messages \cup {msg, NoMessage}, reply' \in Reply,
         torn' \subseteq {"read", "size", "list"},
         BoundInv'
  PROVE  IInv'
<1>1. msg' \in Message /\ ReadInv'
  BY MessageTypes DEF SkelAssumption, IInv, TypeOK, ReadInv, NoMessage
<1>2. TypeOK'
  BY <1>1 DEF IInv, TypeOK
<1>3. Created' = Created
  BY DEF Created
<1>4. QED
  BY <1>1, <1>2, <1>3, Frame DEF IInv

LEMMA ReceiveInv ==
  ASSUME SkelAssumption, IInv, NEW m \in Messages, Receive(m)
  PROVE  IInv'
<1>1. BoundInv'
  BY DEF Receive, Goto, BoundInv, IsWrite
<1>2. reply \in Reply /\ torn \subseteq {"read", "size", "list"} /\ in_progress \in [Slots -> Nat]
  BY DEF IInv, TypeOK
<1>3. QED
  BY <1>1, <1>2, QuietMain DEF Receive, Goto, poolVars

LEMMA SweepInv ==
  ASSUME SkelAssumption, IInv, Sweep
  PROVE  IInv'
<1>1. reply \in Reply /\ torn \subseteq {"read", "size", "list"}
  BY DEF IInv, TypeOK
<1>2. in_progress' \in [Slots -> Nat]
  BY DEF Sweep, IInv, TypeOK
<1>3. BoundInv'
  BY DEF Sweep, Goto, BoundInv, IsWrite, IInv
<1>4. QED
  BY <1>1, <1>2, <1>3, QuietMain DEF Sweep, Goto, poolVars

\* Nothing but a write that is about to be queued depends on BoundInv.
LEMMA BoundFree ==
  ASSUME mpc' \notin {"sweep", "dispatch", "slot"}
  PROVE  BoundInv'
  BY DEF BoundInv

LEMMA InvokeOtherInv ==
  ASSUME SkelAssumption, IInv, InvokeOther
  PROVE  IInv'
<1>1. \A n : verify(n) \in Nat
  BY DEF verify
<1>2. reply' \in Reply
  <2>1. \A n \in Nat : Result(n) \in Reply
    BY MessageTypes
  <2>2. [NoReply EXCEPT !.c_type = "BAD"] \in Reply
    BY MessageTypes DEF Reply
  <2>3. QED
    BY <1>1, <2>1, <2>2, MessageTypes DEF InvokeOther
<1>3. torn \subseteq {"read", "size", "list"} /\ in_progress \in [Slots -> Nat]
  BY DEF IInv, TypeOK
<1>4. QED
  BY <1>2, <1>3, BoundFree, QuietMain DEF InvokeOther, Goto, poolVars

LEMMA StartReadInv ==
  ASSUME SkelAssumption, IInv, StartRead \/ StartList
  PROVE  IInv'
<1>1. /\ mpc \in {"dispatch", "sized"}
      /\ mpc' \in {"read", "size", "list"}
      /\ torn' \subseteq torn \cup {"read", "size", "list"}
      /\ UNCHANGED <<poolVars, last_assigned, max_proc, in_progress, msg, reply>>
  BY DEF StartRead, StartList, StartTreeCall, Goto
<1>2. reply \in Reply /\ in_progress \in [Slots -> Nat]
      /\ torn \subseteq {"read", "size", "list"}
  BY DEF IInv, TypeOK
<1>3. QED
  BY <1>1, <1>2, BoundFree, QuietMain DEF poolVars

\* A tree call that ends with a well-formed answer keeps IInv.
LEMMA FinishTreeCallInv ==
  ASSUME SkelAssumption, IInv, mpc \in {"read", "size", "list"},
         NEW answer \in Reply, NEW step \in {"send", "sized"},
         FinishTreeCall(answer, step)
  PROVE  IInv'
<1>1. torn \subseteq {"read", "size", "list"}
      /\ in_progress \in [Slots -> Nat]
  BY DEF IInv, TypeOK
<1>2. QED
  BY <1>1, BoundFree, QuietMain DEF FinishTreeCall, Goto, poolVars

\* A crash leaves the data as it is and no thread in a state that speaks of it.
LEMMA CrashStep ==
  ASSUME SkelAssumption, IInv, ~Crashed, Crash
  PROVE  IInv'
<1>1. /\ \A t \in Threads : pc'[t] = "crashed"
      /\ mpc' = IF mpc = "slot" THEN "crashed_slot" ELSE "crashed"
      /\ UNCHANGED <<queue, last_assigned, max_proc, in_progress, counter, tree,
                     req, msg, reply, torn, done>>
  BY DEF Crash, Goto
<1>2. TypeOK'
  BY DEF IInv, TypeOK, Crash, Goto
<1>3. BoundInv' /\ ReadInv'
  BY <1>1, BoundFree DEF IInv, ReadInv
<1>4. Taken' = Taken /\ \A t : OpOf(t)' = OpOf(t)
  <2>1. Created' = Created
    BY <1>1 DEF Created
  <2>2. QED
    BY <1>1, <2>1 DEF Taken, OpOf
<1>5. QueueInv' /\ HeldInv' /\ CertInv'
  BY <1>1, <1>4 DEF IInv, QueueInv, HeldInv, CertInv
<1>6. ThreadInv' /\ GuardInv' /\ CrashInv'
  BY <1>1 DEF ThreadInv, GuardInv, CrashInv
<1>7. QED
  BY <1>2, <1>3, <1>5, <1>6 DEF IInv

LEMMA FinishReadInv ==
  ASSUME SkelAssumption, IInv, FinishRead
  PROVE  IInv'
<1>1. mpc \in {"read", "size", "list"}
  BY DEF FinishRead
<1>2. CASE msg.opcode = "GET"
  <2>1. PICK d \in IF mpc \in torn THEN AnyValue \cup {None} ELSE {tree[msg.key]} :
          FinishTreeCall([NoReply EXCEPT !.c_type = "VALUE", !.data = d], "send")
    BY <1>2 DEF FinishRead
  <2>2. tree[msg.key] \in AnyValue \cup {None}
    <3>1. msg.key \in AnyKey
      BY <1>1, <1>2 DEF IInv, ReadInv, AnyKey
    <3>2. QED
      BY <3>1 DEF IInv, TypeOK
  <2>3. [NoReply EXCEPT !.c_type = "VALUE", !.data = d] \in Reply
    BY <2>1, <2>2, MessageTypes DEF Reply
  <2>4. QED
    BY <1>1, <2>1, <2>3, FinishTreeCallInv
<1>3. CASE msg.opcode \in {"SIZE", "HEIGHT"}
  <2>1. PICK n \in IF msg.opcode = "HEIGHT" /\ mpc \notin torn THEN tree_height
                   ELSE SomeSize : FinishTreeCall(Result(n), "send")
    BY <1>3 DEF FinishRead
  <2>2. tree_height \subseteq Nat
    BY SizeType DEF tree_height
  <2>3. n \in Nat
    BY <2>1, <2>2, SomeSizeType
  <2>4. QED
    BY <1>1, <2>1, <2>3, MessageTypes, FinishTreeCallInv
<1>4. QED
  BY <1>2, <1>3 DEF FinishRead

LEMMA FinishSizeInv ==
  ASSUME SkelAssumption, IInv, FinishSize
  PROVE  IInv'
<1>1. PICK s \in SomeSize : Sized(s)
  BY DEF FinishSize
<1> DEFINE answer == [NoReply EXCEPT !.n = s,
                        !.c_type = IF msg.opcode = "GETKEYS" THEN "KEYS" ELSE "VALUES"]
           step   == IF s = 0 /\ msg.opcode = "GETKEYS" THEN "send" ELSE "sized"
<1>2. s \in Nat
  BY <1>1, SomeSizeType
<1>3. answer \in Reply
  BY <1>2, MessageTypes DEF Reply
<1>4. step \in {"send", "sized"}
  OBVIOUS
<1>5. mpc = "size" /\ FinishTreeCall(answer, step)
  BY <1>1 DEF Sized
<1> HIDE DEF answer, step
<1>6. QED
  BY <1>3, <1>4, <1>5, FinishTreeCallInv

LEMMA ListOfInv ==
  ASSUME SkelAssumption, IInv, mpc = "list", ListOf
  PROVE  IInv'
<1>1. mpc = "list"
  OBVIOUS
<1>2. PICK ks \in IF "list" \in torn THEN SUBSET AnyKey ELSE {Present} :
        IF Cardinality(ks) < reply.n /\ msg.opcode = "GETVALUES"
        THEN Crash
        ELSE \E first \in SUBSET ks :
               /\ Cardinality(first) = IF Cardinality(ks) < reply.n
                                       THEN Cardinality(ks) ELSE reply.n
               /\ FinishTreeCall([reply EXCEPT !.list = {Entry(k) : k \in first}],
                                 "send")
  BY DEF ListOf
<1>3. CASE Cardinality(ks) < reply.n /\ msg.opcode = "GETVALUES"
  BY <1>1, <1>2, <1>3, CrashStep
<1>4. CASE ~(Cardinality(ks) < reply.n /\ msg.opcode = "GETVALUES")
  <2>1. PICK first \in SUBSET ks :
          FinishTreeCall([reply EXCEPT !.list = {Entry(k) : k \in first}], "send")
    BY <1>2, <1>4
  <2>2. first \subseteq AnyKey
    BY <1>2, <2>1 DEF Present
  <2>3. \A k \in AnyKey : Entry(k) \in AnyKey \cup AnyKey \X (AnyValue \cup {None})
    <3>1. \A k \in AnyKey : WireValue(tree[k]) \in AnyValue \cup {None}
      BY DEF IInv, TypeOK, WireValue, AnyValue
    <3>2. QED
      BY <3>1 DEF Entry
  <2>4. {Entry(k) : k \in first} \in SUBSET (AnyKey \cup AnyKey \X (AnyValue \cup {None}))
    BY <2>2, <2>3
  <2>5. [reply EXCEPT !.list = {Entry(k) : k \in first}] \in Reply
    BY <2>4 DEF IInv, TypeOK, Reply
  <2>6. QED
    BY <1>1, <2>1, <2>5, FinishTreeCallInv
<1>5. QED
  BY <1>3, <1>4

LEMMA FinishListInv ==
  ASSUME SkelAssumption, IInv, FinishList
  PROVE  IInv'
<1>1. CASE ListOf
  BY <1>1, ListOfInv DEF FinishList
<1>2. CASE ListFails
  <2>1. mpc = "list" /\ FinishTreeCall(NoReply, "send")
    BY <1>2 DEF FinishList, ListFails
  <2>2. QED
    BY <2>1, MessageTypes, FinishTreeCallInv
<1>3. QED
  BY <1>1, <1>2 DEF FinishList

LEMMA TornReadCrashesInv ==
  ASSUME SkelAssumption, IInv, TornReadCrashes
  PROVE  IInv'
  BY CrashStep DEF TornReadCrashes, Reading

LEMMA SendInv ==
  ASSUME SkelAssumption, IInv, Send
  PROVE  IInv'
<1>1. mpc = "send"
  BY DEF Send
<1>2. CASE Crash
  BY <1>1, <1>2, CrashStep
<1>3. CASE ~Crash
  <2>1. in_progress \in [Slots -> Nat]
    BY DEF IInv, TypeOK
  <2>2. /\ mpc' = "poll" /\ msg' = NoMessage /\ reply' = NoReply /\ torn' = {}
        /\ UNCHANGED <<poolVars, last_assigned, max_proc, in_progress>>
    BY <1>3 DEF Send, Goto
  <2>3. QED
    BY <1>1, <2>1, <2>2, MessageTypes, BoundFree, QuietMain DEF poolVars
<1>4. QED
  BY <1>2, <1>3

\* Steps of threads that stay outside the guard do not disturb GuardInv.
LEMMA OutsideGuard ==
  ASSUME GuardInv, ~Crashed, counter' = counter,
         \A t \in Threads : t \in Inside <=> pc'[t] \in {"write", "record", "leave"}
  PROVE  GuardInv'
<1>1. Inside' = Inside
  BY DEF Inside
<1>2. QED
  BY <1>1 DEF GuardInv

LEMMA QueueRequestInv ==
  ASSUME SkelAssumption, IInv, QueueRequest
  PROVE  IInv'
<1> DEFINE r == create_request(msg)
<1>1. /\ mpc = "dispatch" /\ mpc' = "slot" /\ IsWrite(msg)
      /\ queue' = Append(queue, r)
      /\ Signal
      /\ UNCHANGED <<last_assigned, max_proc, in_progress, counter, tree, req,
                     msg, reply, torn, done>>
  BY DEF QueueRequest, QueueWrite, Goto
<1>2. r \in Request /\ r.op_n = last_assigned
  BY RequestTypes DEF IInv, TypeOK, create_request
<1>3. queue \in Seq(Request) /\ last_assigned \in Nat
  BY DEF IInv, TypeOK
<1> HIDE DEF r
<1>4. /\ queue' \in Seq(Request)
      /\ Len(queue') = Len(queue) + 1
      /\ \A i \in 1 .. Len(queue) : queue'[i] = queue[i]
      /\ queue'[Len(queue) + 1] = r
  BY <1>1, <1>2, <1>3, AppendProperties
<1>5. /\ pc' \in [Threads -> {"get", "asleep", "guard", "blocked", "write",
                              "record", "leave", "crashed"}]
      /\ \A t \in Threads : pc'[t] = pc[t] \/ (pc[t] = "asleep" /\ pc'[t] = "get")
  <2>1. pc \in [Threads -> {"get", "asleep", "guard", "blocked", "write",
                            "record", "leave", "crashed"}]
    BY DEF IInv, TypeOK
  <2>2. CASE Asleep = {}
    <3>1. pc' = pc
      BY <1>1, <2>2 DEF Signal
    <3>2. QED
      BY <2>1, <3>1
  <2>3. CASE Asleep # {}
    <3>1. PICK u \in Asleep : pc' = [pc EXCEPT ![u] = "get"]
      BY <1>1, <2>3 DEF Signal
    <3>2. u \in Threads /\ pc[u] = "asleep"
      BY DEF Asleep
    <3>3. \A t \in Threads : pc'[t] = IF t = u THEN "get" ELSE pc[t]
      BY <2>1, <3>1
    <3>4. pc' \in [Threads -> {"get", "asleep", "guard", "blocked", "write",
                               "record", "leave", "crashed"}]
      BY <2>1, <3>1
    <3>5. QED
      BY <3>2, <3>3, <3>4
  <2>4. QED
    BY <2>2, <2>3
<1>6. Len(queue) \in Nat
  BY <1>3, LenProperties
<1>7. Created = last_assigned - 1 /\ Created' = last_assigned /\ Taken' = Taken
  <2>1. Created = last_assigned - 1 /\ Created' = last_assigned
    BY <1>1, <1>3 DEF Created
  <2>2. QED
    BY <1>3, <1>4, <1>6, <2>1 DEF Taken
<1>8. TypeOK'
  BY <1>1, <1>4, <1>5 DEF IInv, TypeOK
<1>9. BoundInv' /\ ReadInv'
  BY <1>1 DEF IInv, BoundInv, ReadInv, IsWrite
<1>10. QueueInv'
  <2>1. Taken + Len(queue) + 1 = last_assigned
    BY <1>3, <1>6, <1>7 DEF Taken
  <2>2. Taken' \in Nat
    BY <1>7 DEF IInv, QueueInv
  <2>3. \A i \in 1 .. Len(queue) + 1 : queue'[i].op_n = Taken + i
    <3>1. \A i \in 1 .. Len(queue) : queue'[i].op_n = Taken + i
      BY <1>4 DEF IInv, QueueInv
    <3>2. queue'[Len(queue) + 1].op_n = Taken + (Len(queue) + 1)
      BY <1>2, <1>4, <1>6, <1>7, <2>1, <2>2
    <3>3. QED
      BY <1>6, <3>1, <3>2
  <2>4. QED
    BY <1>4, <1>7, <2>2, <2>3 DEF QueueInv
<1>11. \A t : OpOf(t)' = OpOf(t)
  BY <1>1 DEF OpOf
<1>12. HeldInv' /\ CertInv'
  BY <1>1, <1>7, <1>11 DEF IInv, HeldInv, CertInv
<1>13. ThreadInv'
  BY <1>1, <1>5, <1>11 DEF IInv, ThreadInv
<1>14. GuardInv'
  BY <1>1, <1>5, OutsideGuard DEF IInv, Inside
<1>15. CrashInv'
  BY <1>1, <1>5 DEF IInv, CrashInv
<1>16. QED
  BY <1>8, <1>9, <1>10, <1>12, <1>13, <1>14, <1>15 DEF IInv

\* The number noted while mpc is "slot" is the number of the write already in
\* the queue, so Created stays.
LEMMA FinishInvokeWriteInv ==
  ASSUME SkelAssumption, IInv, FinishInvokeWrite
  PROVE  IInv'
<1>1. /\ mpc = "slot" /\ mpc' = "send"
      /\ last_assigned' = last_assigned + 1
      /\ reply' = Result(last_assigned)
      /\ in_progress' = [i \in Slots |->
           IF i \in FirstFree THEN last_assigned ELSE in_progress[i]]
      /\ UNCHANGED <<queue, counter, tree, pc, req, done, max_proc, msg, torn>>
  BY DEF FinishInvokeWrite, AssignSlot, Goto, poolVars
<1>2. last_assigned \in Nat /\ last_assigned \in 1 .. MaxWrites
  BY <1>1 DEF IInv, BoundInv, TypeOK, SkelAssumption
<1>3. TypeOK'
  <2>1. reply' \in Reply
    BY <1>1, <1>2, MessageTypes
  <2>2. in_progress' \in [Slots -> Nat]
    BY <1>1, <1>2 DEF IInv, TypeOK
  <2>3. last_assigned' \in 1 .. MaxWrites + 1
    BY <1>1, <1>2 DEF SkelAssumption
  <2>4. QED
    BY <1>1, <2>1, <2>2, <2>3 DEF IInv, TypeOK
<1>4. BoundInv' /\ ReadInv'
  BY <1>1, BoundFree DEF IInv, ReadInv
<1>5. Created' = Created
  BY <1>1, <1>2 DEF Created
<1>6. QED
  BY <1>1, <1>3, <1>4, <1>5, Frame DEF IInv

\* What a thread step that changes one control state does to pc.
LEMMA StepOf ==
  ASSUME IInv, NEW t \in Threads, NEW from, NEW to, Step(t, from, to),
         to \in {"get", "asleep", "guard", "blocked", "write", "record", "leave"}
  PROVE  /\ pc[t] = from /\ pc'[t] = to
         /\ \A u \in Threads \ {t} : pc'[u] = pc[u]
         /\ pc' \in [Threads -> {"get", "asleep", "guard", "blocked", "write",
                                 "record", "leave", "crashed"}]
  BY DEF Step, IInv, TypeOK

\* No thread takes a step after a crash.
LEMMA Alive ==
  ASSUME IInv, NEW t \in Threads, pc[t] # "crashed"
  PROVE  ~Crashed
  BY DEF IInv, CrashInv

\* Waiting and waking up move a thread that stays outside the guard and keeps
\* its request.
LEMMA WaitingInv ==
  ASSUME SkelAssumption, IInv, NEW t \in Threads,
         QueueWait(t) \/ GuardWait(t) \/ SpuriousWakeup(t)
  PROVE  IInv'
<1>1. UNCHANGED <<queue, last_assigned, max_proc, in_progress, counter, tree,
                  req, mpc, msg, reply, torn, done>>
  BY DEF QueueWait, GuardWait, SpuriousWakeup, mainVars
<1>2. \/ Step(t, "get", "asleep") \/ Step(t, "guard", "blocked")
      \/ Step(t, "asleep", "get") \/ Step(t, "blocked", "guard")
  BY DEF QueueWait, GuardWait, SpuriousWakeup
<1>3. /\ \/ pc[t] \in {"get", "asleep"} /\ pc'[t] \in {"get", "asleep"}
         \/ pc[t] \in {"guard", "blocked"} /\ pc'[t] \in {"guard", "blocked"}
      /\ \A u \in Threads \ {t} : pc'[u] = pc[u]
      /\ pc' \in [Threads -> {"get", "asleep", "guard", "blocked", "write",
                              "record", "leave", "crashed"}]
  BY <1>2, StepOf
<1>4. ~Crashed
  BY <1>3, Alive
<1>5. TypeOK' /\ BoundInv' /\ ReadInv'
  BY <1>1, <1>3 DEF IInv, TypeOK, BoundInv, ReadInv, IsWrite
<1>6. Taken' = Taken /\ \A u : OpOf(u)' = OpOf(u)
  BY <1>1 DEF Taken, Created, OpOf
<1>7. QueueInv' /\ HeldInv' /\ CertInv'
  BY <1>1, <1>6 DEF IInv, QueueInv, HeldInv, CertInv
<1>8. ThreadInv'
  BY <1>1, <1>3, <1>6 DEF IInv, ThreadInv
<1>9. GuardInv'
  BY <1>1, <1>3, <1>4, OutsideGuard DEF IInv, Inside
<1>10. CrashInv'
  BY <1>1, <1>3, <1>4 DEF IInv, CrashInv
<1>11. QED
  BY <1>5, <1>7, <1>8, <1>9, <1>10 DEF IInv

\* The thread that takes the head of the queue takes number Taken + 1, which
\* nobody holds and which is not executed.
LEMMA QueueGetInv ==
  ASSUME SkelAssumption, IInv, NEW t \in Threads, QueueGet(t)
  PROVE  IInv'
<1>1. /\ Step(t, "get", "guard")
      /\ queue # <<>>
      /\ queue' = Tail(queue)
      /\ req' = [req EXCEPT ![t] = Head(queue)]
      /\ UNCHANGED <<last_assigned, max_proc, in_progress, counter, tree,
                     mpc, msg, reply, torn, done>>
  BY DEF QueueGet, Take, mainVars
<1>2. /\ pc[t] = "get" /\ pc'[t] = "guard"
      /\ \A u \in Threads \ {t} : pc'[u] = pc[u]
      /\ pc' \in [Threads -> {"get", "asleep", "guard", "blocked", "write",
                              "record", "leave", "crashed"}]
  BY <1>1, StepOf
<1>3. ~Crashed
  BY <1>2, Alive
<1>4. queue \in Seq(Request) /\ last_assigned \in Nat /\ req \in [Threads -> Request]
  BY DEF IInv, TypeOK
<1>5. /\ Head(queue) \in Request /\ Head(queue) = queue[1]
      /\ queue' \in Seq(Request)
      /\ Len(queue) \in Nat \ {0}
      /\ Len(queue') = Len(queue) - 1
      /\ \A i \in 1 .. Len(queue') : queue'[i] = queue[i + 1]
  <2>1. Len(queue) \in Nat \ {0}
    BY <1>1, <1>4, EmptySeq, LenProperties
  <2>2. Head(queue) \in Request /\ Head(queue) = queue[1]
    BY <1>1, <1>4, <2>1, HeadTailProperties
  <2>3. queue' \in Seq(Request) /\ Len(queue') = Len(queue) - 1
    BY <1>1, <1>4, HeadTailProperties
  <2>4. \A i \in 1 .. Len(queue') : queue'[i] = queue[i + 1]
    BY <1>1, <1>4, HeadTailProperties
  <2>5. QED
    BY <2>1, <2>2, <2>3, <2>4
<1>6. Created \in Int /\ Created' = Created /\ Taken \in Nat
  BY <1>1, <1>4 DEF Created, IInv, QueueInv
<1>7. Taken' = Taken + 1
  BY <1>5, <1>6 DEF Taken
<1>8. /\ OpOf(t)' = Taken + 1
      /\ OpOf(t) = 0
      /\ \A u \in Threads \ {t} : OpOf(u)' = OpOf(u)
  <2>1. queue[1].op_n = Taken + 1
    BY <1>5 DEF IInv, QueueInv
  <2>2. OpOf(t)' = Taken + 1
    BY <1>1, <1>4, <1>5, <2>1 DEF OpOf
  <2>3. OpOf(t) = 0
    BY <1>2 DEF IInv, ThreadInv
  <2>4. \A u \in Threads \ {t} : OpOf(u)' = OpOf(u)
    BY <1>1, <1>4 DEF OpOf
  <2>5. QED
    BY <2>2, <2>3, <2>4
<1>9. TypeOK' /\ BoundInv' /\ ReadInv'
  <2>1. req' \in [Threads -> Request]
    BY <1>1, <1>4, <1>5
  <2>2. TypeOK'
    BY <1>1, <1>2, <1>5, <2>1 DEF IInv, TypeOK
  <2>3. QED
    BY <1>1, <2>2 DEF IInv, BoundInv, ReadInv, IsWrite
<1>10. QueueInv'
  <2>1. \A i \in 1 .. Len(queue) - 1 : queue[i + 1].op_n = Taken + (i + 1)
    BY <1>5 DEF IInv, QueueInv
  <2>2. \A i \in 1 .. Len(queue') : queue'[i].op_n = Taken' + i
    BY <1>5, <1>6, <1>7, <2>1
  <2>3. QED
    BY <1>6, <1>7, <2>2 DEF QueueInv
<1>11. HeldInv'
  <2>1. \A u \in Threads : OpOf(u)' \in 0 .. Taken'
    BY <1>6, <1>7, <1>8 DEF IInv, HeldInv
  <2>2. \A u, v \in Threads : OpOf(u)' = OpOf(v)' /\ OpOf(u)' # 0 => u = v
    BY <1>6, <1>8 DEF IInv, HeldInv
  <2>3. done' \subseteq 1 .. Taken'
    BY <1>1, <1>6, <1>7 DEF IInv, HeldInv
  <2>4. \A n \in 1 .. Taken' : n \in done' \/ \E u \in Threads : OpOf(u)' = n
    <3>1. SUFFICES ASSUME NEW n \in 1 .. Taken', n \notin done'
                   PROVE  \E u \in Threads : OpOf(u)' = n
      OBVIOUS
    <3>2. CASE n = Taken + 1
      BY <1>8, <3>2
    <3>3. CASE n # Taken + 1
      <4>1. n \in 1 .. Taken
        BY <1>6, <1>7, <3>3
      <4>2. PICK u \in Threads : OpOf(u) = n
        BY <1>1, <3>1, <4>1 DEF IInv, HeldInv
      <4>3. QED
        BY <1>8, <4>1, <4>2
    <3>4. QED
      BY <3>2, <3>3
  <2>5. QED
    BY <2>1, <2>2, <2>3, <2>4 DEF HeldInv
<1>12. ThreadInv'
  <2>1. Taken + 1 \notin done
    BY <1>6 DEF IInv, HeldInv
  <2>2. QED
    BY <1>1, <1>2, <1>6, <1>8, <2>1 DEF IInv, ThreadInv
<1>13. CertInv'
  <2>1. \A n \in done : n # 0
    BY <1>6 DEF IInv, HeldInv
  <2>2. QED
    BY <1>1, <1>8, <2>1 DEF IInv, CertInv
<1>14. GuardInv'
  BY <1>1, <1>2, <1>3, OutsideGuard DEF IInv, Inside
<1>15. CrashInv'
  BY <1>1, <1>2, <1>3 DEF IInv, CrashInv
<1>16. QED
  BY <1>9, <1>10, <1>11, <1>12, <1>13, <1>14, <1>15 DEF IInv

\* guard_start lets a thread in only when nobody is inside.
LEMMA GuardStartInv ==
  ASSUME SkelAssumption, IInv, NEW t \in Threads, GuardStart(t)
  PROVE  IInv'
<1>1. /\ Step(t, "guard", "write")
      /\ counter # 0 /\ counter' = counter - 1
      /\ torn' = IF Reading THEN torn \cup {mpc} ELSE torn
      /\ UNCHANGED <<queue, last_assigned, max_proc, in_progress, tree, req,
                     mpc, msg, reply, done>>
  BY DEF GuardStart, Enter
<1>2. /\ pc[t] = "guard" /\ pc'[t] = "write"
      /\ \A u \in Threads \ {t} : pc'[u] = pc[u]
      /\ pc' \in [Threads -> {"get", "asleep", "guard", "blocked", "write",
                              "record", "leave", "crashed"}]
  BY <1>1, StepOf
<1>3. ~Crashed
  BY <1>2, Alive
<1>4. counter = 1 /\ counter' = 0
  BY <1>1 DEF IInv, TypeOK
<1>5. TypeOK' /\ BoundInv' /\ ReadInv'
  <2>1. torn' \subseteq {"read", "size", "list"}
    BY <1>1 DEF IInv, TypeOK, Reading
  <2>2. QED
    BY <1>1, <1>2, <1>4, <2>1 DEF IInv, TypeOK, BoundInv, ReadInv, IsWrite
<1>6. Taken' = Taken /\ \A u : OpOf(u)' = OpOf(u)
  BY <1>1 DEF Taken, Created, OpOf
<1>7. QueueInv' /\ HeldInv' /\ CertInv'
  BY <1>1, <1>6 DEF IInv, QueueInv, HeldInv, CertInv
<1>8. ThreadInv'
  BY <1>1, <1>2, <1>6 DEF IInv, ThreadInv
<1>9. GuardInv'
  <2>1. \A u \in Threads : u \notin Inside
    BY <1>3, <1>4 DEF IInv, GuardInv
  <2>2. Inside' = {t}
    BY <1>2, <2>1 DEF Inside
  <2>3. QED
    BY <1>4, <2>2 DEF GuardInv
<1>10. CrashInv'
  BY <1>1, <1>2, <1>3 DEF IInv, CrashInv
<1>11. QED
  BY <1>5, <1>7, <1>8, <1>9, <1>10 DEF IInv

\* A write that ends becomes executed; the tree gets some key and some data.
LEMMA FinishWriteInv ==
  ASSUME SkelAssumption, IInv, NEW t \in Threads, FinishWrite(t)
  PROVE  IInv'
<1>1. /\ Step(t, "write", "record")
      /\ done' = done \cup {OpOf(t)}
      /\ UNCHANGED <<queue, last_assigned, max_proc, in_progress, counter, req,
                     mpc, msg, reply, torn>>
  BY DEF FinishWrite, mainVars, OpOf
<1>2. /\ pc[t] = "write" /\ pc'[t] = "record"
      /\ \A u \in Threads \ {t} : pc'[u] = pc[u]
      /\ pc' \in [Threads -> {"get", "asleep", "guard", "blocked", "write",
                              "record", "leave", "crashed"}]
  BY <1>1, StepOf
<1>3. ~Crashed
  BY <1>2, Alive
<1>4. Created \in Int /\ Created <= MaxWrites /\ Taken \in Nat /\ Taken <= Created
  <2>1. last_assigned \in 1 .. MaxWrites + 1 /\ MaxWrites \in Nat
    BY DEF IInv, TypeOK, SkelAssumption
  <2>2. mpc \in {"slot", "crashed_slot"} => last_assigned <= MaxWrites
    BY <1>3 DEF IInv, BoundInv
  <2>3. Created \in Int /\ Created <= MaxWrites
    BY <2>1, <2>2 DEF Created
  <2>4. queue \in Seq(Request)
    BY DEF IInv, TypeOK
  <2>5. Len(queue) \in Nat
    BY <2>4, LenProperties
  <2>6. QED
    BY <2>3, <2>5 DEF IInv, QueueInv, Taken
<1>5. OpOf(t) \in 1 .. Taken /\ OpOf(t) \notin done
  BY <1>2, <1>4 DEF IInv, HeldInv, ThreadInv
<1>6. tree' \in [AnyKey -> AnyValue \cup {None}]
  <2>1. PICK k \in Deref(t, req[t].key, AnyKey), d \in Deref(t, req[t].data, AnyValue) :
          tree' = [tree EXCEPT ![k] = d]
    BY DEF FinishWrite
  <2>2. req[t].data \in AnyValue \cup {None}
    BY DEF IInv, TypeOK, Request, AnyValue
  <2>3. d \in AnyValue \cup {None}
    BY <2>1, <2>2 DEF Deref
  <2>4. QED
    BY <2>1, <2>3 DEF IInv, TypeOK
<1>7. TypeOK' /\ BoundInv' /\ ReadInv'
  <2>1. done' \subseteq 1 .. MaxWrites
    <3>1. OpOf(t) \in 1 .. MaxWrites
      BY <1>4, <1>5 DEF SkelAssumption
    <3>2. QED
      BY <1>1, <3>1 DEF IInv, TypeOK
  <2>2. QED
    BY <1>1, <1>2, <1>6, <2>1 DEF IInv, TypeOK, BoundInv, ReadInv, IsWrite
<1>8. Taken' = Taken /\ \A u : OpOf(u)' = OpOf(u)
  BY <1>1 DEF Taken, Created, OpOf
<1>9. QueueInv' /\ HeldInv'
  BY <1>1, <1>5, <1>8 DEF IInv, QueueInv, HeldInv
<1>10. ThreadInv'
  <2>1. \A u \in Threads \ {t} : OpOf(u) # OpOf(t)
    BY <1>4, <1>5 DEF IInv, HeldInv
  <2>2. QED
    BY <1>1, <1>2, <1>8, <2>1 DEF IInv, ThreadInv
<1>11. CertInv'
  BY <1>1, <1>8 DEF IInv, CertInv
<1>12. GuardInv'
  BY <1>1, <1>2, <1>3, OutsideGuard DEF IInv, Inside
<1>13. CrashInv'
  BY <1>1, <1>2, <1>3 DEF IInv, CrashInv
<1>14. QED
  BY <1>7, <1>9, <1>10, <1>11, <1>12, <1>13 DEF IInv

\* max_proc becomes the number of the write just executed, if it is larger.
LEMMA RecordInv ==
  ASSUME SkelAssumption, IInv, NEW t \in Threads, Record(t)
  PROVE  IInv'
<1>1. /\ Step(t, "record", "leave")
      /\ max_proc' = IF max_proc < OpOf(t) THEN OpOf(t) ELSE max_proc
      /\ UNCHANGED <<queue, last_assigned, in_progress, counter, tree, req,
                     mpc, msg, reply, torn, done>>
  BY DEF Record, RecordAs, mainVars, OpOf
<1>2. /\ pc[t] = "record" /\ pc'[t] = "leave"
      /\ \A u \in Threads \ {t} : pc'[u] = pc[u]
      /\ pc' \in [Threads -> {"get", "asleep", "guard", "blocked", "write",
                              "record", "leave", "crashed"}]
  BY <1>1, StepOf
<1>3. ~Crashed
  BY <1>2, Alive
<1>4. /\ max_proc \in Nat /\ OpOf(t) \in Nat /\ OpOf(t) \in done
      /\ done \subseteq Nat
  BY <1>2 DEF IInv, TypeOK, ThreadInv, Request, OpOf
<1>5. max_proc' \in Nat /\ max_proc' >= max_proc /\ max_proc' >= OpOf(t)
  BY <1>1, <1>4
<1>6. TypeOK' /\ BoundInv' /\ ReadInv'
  BY <1>1, <1>2, <1>5 DEF IInv, TypeOK, BoundInv, ReadInv, IsWrite
<1>7. Taken' = Taken /\ \A u : OpOf(u)' = OpOf(u)
  BY <1>1 DEF Taken, Created, OpOf
<1>8. QueueInv' /\ HeldInv'
  BY <1>1, <1>7 DEF IInv, QueueInv, HeldInv
<1>9. ThreadInv'
  <2>1. \A u \in Threads : OpOf(u) \in Nat
    BY DEF IInv, TypeOK, Request, OpOf
  <2>2. QED
    BY <1>1, <1>2, <1>4, <1>5, <1>7, <2>1 DEF IInv, ThreadInv
<1>10. CertInv'
  <2>1. max_proc' \in {0} \cup done
    BY <1>1, <1>4 DEF IInv, CertInv
  <2>2. \A n \in done : n <= max_proc' \/ \E u \in Threads : OpOf(u) = n
    BY <1>4, <1>5 DEF IInv, CertInv
  <2>3. QED
    BY <1>1, <1>7, <2>1, <2>2 DEF CertInv
<1>11. GuardInv'
  BY <1>1, <1>2, <1>3, OutsideGuard DEF IInv, Inside
<1>12. CrashInv'
  BY <1>1, <1>2, <1>3 DEF IInv, CrashInv
<1>13. QED
  BY <1>6, <1>8, <1>9, <1>10, <1>11, <1>12 DEF IInv

\* The thread that leaves the guard was the only one inside; its write is
\* executed and covered by max_proc.
LEMMA GuardEndInv ==
  ASSUME SkelAssumption, IInv, NEW t \in Threads, GuardEnd(t)
  PROVE  IInv'
<1>1. /\ pc[t] = "leave"
      /\ counter' = counter + 1
      /\ pc' = [u \in Threads |->
           IF u = t THEN "get"
           ELSE IF u \in {v \in Threads : pc[v] = "blocked"} THEN "guard" ELSE pc[u]]
      /\ req' = [req EXCEPT ![t] = NoRequest]
      /\ UNCHANGED <<queue, last_assigned, max_proc, in_progress, tree,
                     mpc, msg, reply, torn, done>>
  BY DEF GuardEnd, Leave, mainVars
<1>2. /\ pc'[t] = "get"
      /\ \A u \in Threads \ {t} :
           pc'[u] = IF pc[u] = "blocked" THEN "guard" ELSE pc[u]
  BY <1>1
<1>3. pc' \in [Threads -> {"get", "asleep", "guard", "blocked", "write",
                           "record", "leave", "crashed"}]
  <2>1. \A u \in Threads : pc[u] \in {"get", "asleep", "guard", "blocked",
                                      "write", "record", "leave", "crashed"}
    BY DEF IInv, TypeOK
  <2>2. QED
    BY <1>1, <2>1
<1>4. ~Crashed
  BY <1>1, Alive
<1>5. counter = 0 /\ Inside = {t}
  <2>1. t \in Inside
    BY <1>1 DEF Inside
  <2>2. QED
    BY <1>4, <2>1 DEF IInv, GuardInv
<1>6. OpOf(t)' = 0 /\ \A u \in Threads \ {t} : OpOf(u)' = OpOf(u)
  <2>1. req \in [Threads -> Request]
    BY DEF IInv, TypeOK
  <2>2. QED
    BY <1>1, <2>1 DEF OpOf, NoRequest
<1>7. TypeOK' /\ BoundInv' /\ ReadInv'
  <2>1. req' \in [Threads -> Request]
    BY <1>1, RequestTypes DEF IInv, TypeOK
  <2>2. counter' \in {0, 1}
    BY <1>1, <1>5
  <2>3. QED
    BY <1>1, <1>3, <2>1, <2>2 DEF IInv, TypeOK, BoundInv, ReadInv, IsWrite
<1>8. Taken' = Taken /\ Taken \in Nat
  BY <1>1 DEF Taken, Created, IInv, QueueInv
<1>9. QueueInv'
  BY <1>1, <1>8 DEF IInv, QueueInv
<1>10. OpOf(t) \in done /\ OpOf(t) <= max_proc
  BY <1>1 DEF IInv, ThreadInv
<1>11. HeldInv'
  <2>1. \A u \in Threads : OpOf(u)' \in 0 .. Taken'
    BY <1>6, <1>8 DEF IInv, HeldInv
  <2>2. \A u, v \in Threads : OpOf(u)' = OpOf(v)' /\ OpOf(u)' # 0 => u = v
    BY <1>6 DEF IInv, HeldInv
  <2>3. done' \subseteq 1 .. Taken'
    BY <1>1, <1>8 DEF IInv, HeldInv
  <2>4. \A n \in 1 .. Taken' : n \in done' \/ \E u \in Threads : OpOf(u)' = n
    BY <1>1, <1>6, <1>8, <1>10 DEF IInv, HeldInv
  <2>5. QED
    BY <2>1, <2>2, <2>3, <2>4 DEF HeldInv
<1>12. ThreadInv'
  BY <1>1, <1>2, <1>6 DEF IInv, ThreadInv
<1>13. CertInv'
  BY <1>1, <1>6, <1>10 DEF IInv, CertInv
<1>14. GuardInv'
  <2>1. \A u \in Threads \ {t} : pc[u] \notin {"write", "record", "leave"}
    BY <1>5 DEF Inside
  <2>2. \A u \in Threads : u \notin Inside'
    BY <1>2, <2>1 DEF Inside
  <2>3. counter' = 1
    BY <1>1, <1>5
  <2>4. QED
    BY <2>2, <2>3 DEF GuardInv
<1>15. CrashInv'
  BY <1>1, <1>2, <1>4 DEF IInv, CrashInv
<1>16. QED
  BY <1>7, <1>9, <1>11, <1>12, <1>13, <1>14, <1>15 DEF IInv

LEMMA WriteCrashesInv ==
  ASSUME SkelAssumption, IInv, NEW t \in Threads, WriteCrashes(t)
  PROVE  IInv'
<1>1. pc[t] # "crashed" /\ Crash
  BY DEF WriteCrashes
<1>2. QED
  BY <1>1, Alive, CrashStep

-----------------------------------------------------------------------------
(* IInv is an invariant. *)

LEMMA StepInv ==
  ASSUME SkelAssumption, IInv, [Next]_vars
  PROVE  IInv'
<1>1. CASE UNCHANGED vars
  <2>1. UNCHANGED <<queue, last_assigned, max_proc, in_progress, counter, tree,
                    pc, req, mpc, msg, reply, torn, done>>
    BY <1>1 DEF vars
  <2>2. TypeOK' /\ BoundInv' /\ ReadInv' /\ CrashInv'
    BY <2>1 DEF IInv, TypeOK, BoundInv, ReadInv, CrashInv, IsWrite
  <2>3. Taken' = Taken /\ \A u : OpOf(u)' = OpOf(u)
    BY <2>1 DEF Taken, Created, OpOf
  <2>4. QueueInv' /\ HeldInv' /\ CertInv'
    BY <2>1, <2>3 DEF IInv, QueueInv, HeldInv, CertInv
  <2>5. ThreadInv'
    BY <2>1, <2>3 DEF IInv, ThreadInv
  <2>6. GuardInv'
    BY <2>1 DEF IInv, GuardInv, Inside
  <2>7. QED
    BY <2>2, <2>4, <2>5, <2>6 DEF IInv
<1>2. ASSUME NEW m \in Messages, Receive(m)
      PROVE  IInv'
  BY <1>2, ReceiveInv
<1>3. CASE Invoke
  <2>1. CASE Sweep
    BY <2>1, SweepInv
  <2>2. CASE QueueRequest
    BY <2>2, QueueRequestInv
  <2>3. CASE FinishInvokeWrite
    BY <2>3, FinishInvokeWriteInv
  <2>4. CASE InvokeOther
    BY <2>4, InvokeOtherInv
  <2>5. CASE StartRead \/ StartList
    BY <2>5, StartReadInv
  <2>6. CASE FinishRead
    BY <2>6, FinishReadInv
  <2>7. CASE FinishSize
    BY <2>7, FinishSizeInv
  <2>8. CASE FinishList
    BY <2>8, FinishListInv
  <2>9. CASE TornReadCrashes
    BY <2>9, TornReadCrashesInv
  <2>10. CASE Send
    BY <2>10, SendInv
  <2>11. QED
    BY <1>3, <2>1, <2>2, <2>3, <2>4, <2>5, <2>6, <2>7, <2>8, <2>9, <2>10 DEF Invoke
<1>4. ASSUME NEW t \in Threads,
             process_request(t) \/ SpuriousWakeup(t) \/ WriteCrashes(t)
      PROVE  IInv'
  <2>1. CASE QueueWait(t) \/ GuardWait(t) \/ SpuriousWakeup(t)
    BY <2>1, WaitingInv
  <2>2. CASE QueueGet(t)
    BY <2>2, QueueGetInv
  <2>3. CASE GuardStart(t)
    BY <2>3, GuardStartInv
  <2>4. CASE FinishWrite(t)
    BY <2>4, FinishWriteInv
  <2>5. CASE Record(t)
    BY <2>5, RecordInv
  <2>6. CASE GuardEnd(t)
    BY <2>6, GuardEndInv
  <2>7. CASE WriteCrashes(t)
    BY <2>7, WriteCrashesInv
  <2>8. QED
    BY <1>4, <2>1, <2>2, <2>3, <2>4, <2>5, <2>6, <2>7 DEF process_request
<1>5. QED
  BY <1>1, <1>2, <1>3, <1>4 DEF Next

\* The inductive invariant holds in every state of the skeleton.
THEOREM Invariance == Spec => []IInv
<1>1. Init => IInv
  BY SkelAssumption, InitInv
<1>2. IInv /\ [Next]_vars => IInv'
  BY SkelAssumption, StepInv
<1>3. QED
  BY <1>1, <1>2, PTL DEF Spec

-----------------------------------------------------------------------------
(* What follows from it. *)

\* The state of tree_skel.c keeps its types; in particular the numbers handed
\* out and executed stay within the bound.
THEOREM TypeCorrect == Spec => []TypeOK
<1>1. IInv => TypeOK
  BY DEF IInv
<1>2. QED
  BY <1>1, Invariance, PTL

\* guard_start and guard_end (tree_skel.c:32-54) keep all but one thread out,
\* however many there are.
THEOREM GuardIsExclusive == Spec => []GuardExclusive
<1>1. IInv => GuardExclusive
  <2>1. SUFFICES ASSUME IInv, ~Crashed
                 PROVE  counter = 1 - Cardinality(Inside)
    BY DEF GuardExclusive
  <2>2. CASE counter = 1 /\ \A t \in Threads : t \notin Inside
    <3>1. Inside = {}
      BY <2>2 DEF Inside
    <3>2. QED
      BY <2>2, <3>1, FS_EmptySet
  <2>3. CASE counter = 0 /\ \E t \in Threads : Inside = {t}
    <3>1. Cardinality(Inside) = 1
      BY <2>3, FS_Singleton
    <3>2. QED
      BY <2>3, <3>1
  <2>4. QED
    BY <2>1, <2>2, <2>3 DEF IInv, GuardInv
<1>2. QED
  BY <1>1, Invariance, PTL

\* No write that was given a number is lost, held by two threads or executed
\* twice (queue_add_request, queue_get_request, process_request).
THEOREM WritesHappenOnce == Spec => []EveryWriteOnce
<1>1. IInv => EveryWriteOnce
  <2>1. SUFFICES ASSUME IInv PROVE EveryWriteOnce
    OBVIOUS
  <2>2. Taken \in Nat /\ Len(queue) \in Nat /\ Created = Taken + Len(queue)
    <3>1. queue \in Seq(Request) /\ last_assigned \in Nat
      BY <2>1 DEF IInv, TypeOK
    <3>2. Len(queue) \in Nat /\ Created \in Int
      BY <3>1, LenProperties DEF Created
    <3>3. QED
      BY <2>1, <3>2 DEF IInv, QueueInv, Taken
  <2>3. \A n \in Nat \ {0} : \A t \in Threads : Holds(t, n) <=> OpOf(t) = n
    BY DEF Holds, OpOf, NoRequest
  <2>4. \A n : Queued(n) => n \in Taken + 1 .. Created
    BY <2>1, <2>2 DEF Queued, IInv, QueueInv
  <2>5. \A n \in Taken + 1 .. Created : Queued(n)
    <3>1. SUFFICES ASSUME NEW n \in Taken + 1 .. Created PROVE Queued(n)
      OBVIOUS
    <3>2. n - Taken \in 1 .. Len(queue) /\ Taken + (n - Taken) = n
      BY <2>2
    <3>3. queue[n - Taken].op_n = n
      BY <2>1, <3>2 DEF IInv, QueueInv
    <3>4. QED
      BY <3>2, <3>3 DEF Queued
  <2>6. \A i, j \in 1 .. Len(queue) : i # j => queue[i].op_n # queue[j].op_n
    BY <2>1, <2>2 DEF IInv, QueueInv
  <2>7. \A t, u \in Threads : \A n \in 1 .. Created :
          Holds(t, n) /\ Holds(u, n) => t = u
    BY <2>1, <2>2, <2>3 DEF IInv, HeldInv
  <2>8. \A n \in 1 .. Created : Queued(n) \/ n \in done \/ \E t \in Threads : Holds(t, n)
    <3>1. SUFFICES ASSUME NEW n \in 1 .. Created, ~Queued(n)
                   PROVE  n \in done \/ \E t \in Threads : Holds(t, n)
      OBVIOUS
    <3>2. n \in 1 .. Taken
      BY <2>2, <2>5, <3>1
    <3>3. QED
      BY <2>1, <2>3, <3>2 DEF IInv, HeldInv
  <2>9. \A n \in 1 .. Created :
          Queued(n) => n \notin done /\ \A t \in Threads : ~Holds(t, n)
    BY <2>1, <2>2, <2>3, <2>4 DEF IInv, HeldInv
  <2>10. \A t \in Threads : pc[t] \in {"guard", "blocked", "write"} =>
           req[t].op_n \notin done
    BY <2>1 DEF IInv, ThreadInv, OpOf
  <2>11. QED
    BY <2>6, <2>7, <2>8, <2>9, <2>10 DEF EveryWriteOnce
<1>2. QED
  BY <1>1, Invariance, PTL

\* verify() (tree_skel.c:409) vouches for no write that is still queued.
THEOREM OverclaimIsHeld == Spec => []OverclaimHeld
<1>1. IInv => OverclaimHeld
  <2>1. SUFFICES ASSUME IInv, NEW n \in 1 .. max_proc, n \notin done
                 PROVE  \E t \in Threads : Holds(t, n)
    BY DEF OverclaimHeld
  <2>2. max_proc \in 0 .. Taken /\ Taken \in Nat
    <3>1. max_proc \in {0} \cup done /\ done \subseteq 1 .. Taken /\ Taken \in Nat
      BY <2>1 DEF IInv, CertInv, HeldInv, QueueInv
    <3>2. QED
      BY <3>1
  <2>3. PICK t \in Threads : OpOf(t) = n
    BY <2>1, <2>2 DEF IInv, HeldInv
  <2>4. QED
    BY <2>1, <2>2, <2>3 DEF Holds, OpOf, NoRequest
<1>2. QED
  BY <1>1, Invariance, PTL

\* An executed write is reported as executed, except while its thread is
\* between tree_put or tree_del and the update of max_proc.
THEOREM ExecutedIsReported == Spec => []ExecutedIsCertified
<1>1. IInv => ExecutedIsCertified
  <2>1. SUFFICES ASSUME IInv, ~Crashed, NEW n \in done, ~(n <= max_proc)
                 PROVE  \E t \in Threads : Holds(t, n) /\ pc[t] = "record"
    BY DEF ExecutedIsCertified
  <2>2. PICK t \in Threads : OpOf(t) = n
    BY <2>1 DEF IInv, CertInv
  <2>3. n \in Nat /\ n # 0
    BY <2>1 DEF IInv, TypeOK
  <2>4. pc[t] \in {"get", "asleep", "guard", "blocked", "write", "record",
                   "leave", "crashed"}
    BY <2>1 DEF IInv, TypeOK
  <2>5. pc[t] = "record"
    BY <2>1, <2>2, <2>3, <2>4 DEF IInv, ThreadInv, CrashInv
  <2>6. QED
    BY <2>2, <2>3, <2>5 DEF Holds, OpOf, NoRequest
<1>2. QED
  BY <1>1, Invariance, PTL

\* max_proc only grows: of all the steps, only Record changes it.
LEMMA MaxProcGrows ==
  ASSUME IInv, [Next]_vars
  PROVE  max_proc \in Nat /\ max_proc' \in Nat /\ max_proc' >= max_proc
<1>1. max_proc \in Nat
  BY DEF IInv, TypeOK
<1>2. CASE UNCHANGED max_proc
  BY <1>1, <1>2
<1>3. ASSUME NEW t \in Threads, Record(t)
      PROVE  max_proc' \in Nat /\ max_proc' >= max_proc
  <2>1. req[t].op_n \in Nat
    BY DEF IInv, TypeOK, Request
  <2>2. QED
    BY <1>1, <1>3, <2>1 DEF Record, RecordAs
<1>4. CASE Invoke
  BY <1>2, <1>4 DEF Invoke, Sweep, QueueRequest, QueueWrite, FinishInvokeWrite,
       AssignSlot, InvokeOther, StartRead, StartList, StartTreeCall, FinishRead,
       FinishSize, Sized, FinishList, ListOf, ListFails, FinishTreeCall,
       TornReadCrashes, Crash, Send
<1>5. ASSUME NEW t \in Threads,
             process_request(t) \/ SpuriousWakeup(t) \/ WriteCrashes(t), ~Record(t)
      PROVE  UNCHANGED max_proc
  BY <1>5 DEF process_request, SpuriousWakeup, QueueWait, QueueGet, Take, GuardWait,
       GuardStart, Enter, FinishWrite, GuardEnd, Leave, WriteCrashes, Crash
<1>6. ASSUME NEW m \in Messages, Receive(m)
      PROVE  UNCHANGED max_proc
  BY <1>6 DEF Receive
<1>7. QED
  BY <1>1, <1>2, <1>3, <1>4, <1>5, <1>6 DEF Next, vars

\* verify() never goes back on an operation that it reported as executed.
THEOREM VerdictIsStable == Spec => VerdictStable
<1>1. IInv /\ [Next]_vars =>
        [\A n \in 0 .. MaxWrites : verify(n) = 1 => verify(n)' = 1]_vars
  <2>1. SUFFICES ASSUME IInv, [Next]_vars, NEW n \in 0 .. MaxWrites, verify(n) = 1
                 PROVE  verify(n)' = 1
    OBVIOUS
  <2>2. n \in Nat /\ max_proc >= n
    BY <2>1, SkelAssumption DEF verify, SkelAssumption
  <2>3. max_proc \in Nat /\ max_proc' \in Nat /\ max_proc' >= max_proc
    BY <2>1, MaxProcGrows
  <2>4. QED
    BY <2>2, <2>3 DEF verify
<1>2. QED
  BY <1>1, Invariance, PTL DEF Spec, VerdictStable

-----------------------------------------------------------------------------
(* The skeleton implements AsyncWrites. *)

\* The instance of AsyncWrites has its own name for the same function.
LEMMA AbsCardinality ==
  ASSUME NEW S
  PROVE  Abs!Cardinality(S) = Cardinality(S)
  BY Zenon DEF Cardinality, Abs!Cardinality

LEMMA AbsInit ==
  ASSUME Init
  PROVE  Abs!Init
  BY DEF Init, Created, Abs!Init

\* A number that has left the queue was handed out.
LEMMA TakenBelow ==
  ASSUME IInv
  PROVE  Created \in Int /\ Taken <= Created
<1>1. queue \in Seq(Request) /\ last_assigned \in Nat
  BY DEF IInv, TypeOK
<1>2. Len(queue) \in Nat /\ Created \in Int
  BY <1>1, LenProperties DEF Created
<1>3. QED
  BY <1>2 DEF Taken

\* The writes that operation n overtakes are in the hands of other threads, one
\* each, so there are fewer of them than threads.
LEMMA FewOvertaken ==
  ASSUME IInv, NEW t \in Threads, pc[t] = "write"
  PROVE  Cardinality(Abs!Overtaken(OpOf(t))) < NThreads
<1> DEFINE S == {m \in 1 .. OpOf(t) - 1 : m \notin done}
           U == Threads \ {t}
           f == [m \in S |-> CHOOSE u \in U : OpOf(u) = m]
<1>1. OpOf(t) \in 0 .. Taken /\ Taken \in Nat
  BY DEF IInv, HeldInv, QueueInv
<1>2. \A m \in S : \E u \in U : OpOf(u) = m
  BY <1>1 DEF IInv, HeldInv
<1>3. \A m \in S : f[m] \in U /\ OpOf(f[m]) = m
  BY <1>2
<1>4. f \in Injection(S, U)
  BY <1>3 DEF Injection, IsInjective
<1>5. IsFiniteSet(U) /\ Cardinality(U) = NThreads - 1
  <2>1. NThreads \in Nat /\ Threads = 1 .. NThreads
    BY SkelAssumption DEF SkelAssumption, Threads
  <2>2. IsFiniteSet(Threads) /\ Cardinality(Threads) = NThreads
    BY <2>1, FS_Interval
  <2>3. QED
    BY <2>2, FS_RemoveElement
<1>6. Cardinality(S) <= Cardinality(U) /\ IsFiniteSet(S)
  BY <1>4, <1>5, FS_Injection
<1>7. Cardinality(S) \in Nat
  BY <1>6, FS_CardinalityType
<1>8. Abs!Overtaken(OpOf(t)) = S
  BY DEF Abs!Overtaken
<1>9. NThreads \in Nat
  BY SkelAssumption DEF SkelAssumption
<1> HIDE DEF S, U, f
<1>10. QED
  BY <1>5, <1>6, <1>7, <1>8, <1>9

\* Queueing a request issues its number, the end of a tree call executes the
\* write, raising max_proc certifies it; every other step changes nothing.
LEMMA AbsStep ==
  ASSUME IInv, [Next]_vars
  PROVE  [Abs!Next]_(Abs!writeVars)
<1>1. last_assigned \in Nat /\ MaxWrites \in Nat
  BY SkelAssumption DEF IInv, TypeOK, SkelAssumption
<1>2. CASE UNCHANGED <<last_assigned, mpc, done, max_proc>>
  BY <1>2 DEF Created, Abs!writeVars
<1>3. CASE /\ (mpc \in {"slot", "crashed_slot"}) = (mpc' \in {"slot", "crashed_slot"})
           /\ UNCHANGED <<last_assigned, done, max_proc>>
  BY <1>3 DEF Created, Abs!writeVars
<1>4. CASE QueueRequest
  <2>1. /\ mpc = "dispatch" /\ mpc' = "slot" /\ IsWrite(msg)
        /\ UNCHANGED <<last_assigned, done, max_proc>>
    BY <1>4 DEF QueueRequest, QueueWrite, Goto
  <2>2. last_assigned <= MaxWrites
    BY <2>1 DEF IInv, BoundInv
  <2>3. Created < MaxWrites /\ Created' = Created + 1
    BY <1>1, <2>1, <2>2 DEF Created
  <2>4. Abs!Issue
    BY <2>1, <2>3 DEF Abs!Issue
  <2>5. QED
    BY <2>4 DEF Abs!Next
<1>5. CASE FinishInvokeWrite
  <2>1. /\ mpc = "slot" /\ mpc' = "send"
        /\ last_assigned' = last_assigned + 1
        /\ UNCHANGED <<done, max_proc>>
    BY <1>5 DEF FinishInvokeWrite, AssignSlot, Goto, poolVars
  <2>2. Created' = Created
    BY <1>1, <2>1 DEF Created
  <2>3. QED
    BY <2>1, <2>2 DEF Abs!writeVars
<1>6. ASSUME NEW t \in Threads, FinishWrite(t)
      PROVE  Abs!Next
  <2>1. /\ pc[t] = "write"
        /\ done' = done \cup {OpOf(t)}
        /\ UNCHANGED <<last_assigned, mpc, max_proc>>
    BY <1>6 DEF FinishWrite, Step, mainVars, OpOf
  <2>2. Created' = Created
    BY <2>1 DEF Created
  <2>3. OpOf(t) \in 1 .. Taken /\ OpOf(t) \notin done /\ Taken \in Nat
    BY <2>1 DEF IInv, ThreadInv, HeldInv, QueueInv
  <2>4. OpOf(t) \in 1 .. Created
    BY <2>3, TakenBelow
  <2>5. Cardinality(Abs!Overtaken(OpOf(t))) < NThreads
    BY <2>1, FewOvertaken
  <2>6. Abs!Execute(OpOf(t))
    BY <2>1, <2>2, <2>3, <2>4, <2>5, AbsCardinality, Zenon DEF Abs!Execute
  <2>7. QED
    BY <2>4, <2>6 DEF Abs!Next
<1>7. ASSUME NEW t \in Threads, Record(t)
      PROVE  [Abs!Next]_(Abs!writeVars)
  <2>1. /\ pc[t] = "record"
        /\ max_proc' = IF max_proc < OpOf(t) THEN OpOf(t) ELSE max_proc
        /\ UNCHANGED <<last_assigned, mpc, done>>
    BY <1>7 DEF Record, RecordAs, Step, mainVars, OpOf
  <2>2. Created' = Created
    BY <2>1 DEF Created
  <2>3. OpOf(t) \in done /\ done \subseteq 1 .. Taken /\ Taken \in Nat
    BY <2>1 DEF IInv, ThreadInv, HeldInv, QueueInv
  <2>4. OpOf(t) \in 1 .. Created
    <3>1. OpOf(t) \in 1 .. Taken
      BY <2>3
    <3>2. QED
      BY <2>3, <3>1, TakenBelow
  <2>5. CASE max_proc < OpOf(t)
    <3>1. Abs!Certify(OpOf(t))
      BY <2>1, <2>2, <2>3, <2>5 DEF Abs!Certify
    <3>2. QED
      BY <2>4, <3>1 DEF Abs!Next
  <2>6. CASE ~(max_proc < OpOf(t))
    BY <2>1, <2>2, <2>6 DEF Abs!writeVars
  <2>7. QED
    BY <2>5, <2>6
<1>8. CASE Invoke /\ ~QueueRequest /\ ~FinishInvokeWrite
  <2>1. /\ mpc \notin {"slot", "crashed_slot"} /\ mpc' \notin {"slot", "crashed_slot"}
        /\ UNCHANGED <<last_assigned, done, max_proc>>
    BY <1>8 DEF Invoke, Sweep, InvokeOther, StartRead, StartList, StartTreeCall,
         FinishRead, FinishSize, Sized, FinishList, ListOf, ListFails, FinishTreeCall,
         TornReadCrashes, Reading, Crash, Send, Goto, poolVars
  <2>2. QED
    BY <1>3, <2>1
<1>9. ASSUME NEW m \in Messages, Receive(m)
      PROVE  [Abs!Next]_(Abs!writeVars)
  <2>1. /\ mpc \notin {"slot", "crashed_slot"} /\ mpc' \notin {"slot", "crashed_slot"}
        /\ UNCHANGED <<last_assigned, done, max_proc>>
    BY <1>9 DEF Receive, Goto, poolVars
  <2>2. QED
    BY <1>3, <2>1
<1>10. ASSUME NEW t \in Threads, process_request(t) \/ SpuriousWakeup(t),
              ~FinishWrite(t), ~Record(t)
       PROVE  [Abs!Next]_(Abs!writeVars)
  <2>1. UNCHANGED <<last_assigned, mpc, done, max_proc>>
    BY <1>10 DEF process_request, SpuriousWakeup, QueueWait, QueueGet, Take,
         GuardWait, GuardStart, Enter, GuardEnd, Leave, mainVars
  <2>2. QED
    BY <1>2, <2>1
<1>11. ASSUME NEW t \in Threads, WriteCrashes(t)
       PROVE  [Abs!Next]_(Abs!writeVars)
  <2>1. ~Crashed
    BY <1>11, Alive DEF WriteCrashes
  <2>2. /\ (mpc \in {"slot", "crashed_slot"}) = (mpc' \in {"slot", "crashed_slot"})
        /\ UNCHANGED <<last_assigned, done, max_proc>>
    BY <1>11, <2>1 DEF WriteCrashes, Crash, Goto
  <2>3. QED
    BY <1>3, <2>2
<1>12. CASE UNCHANGED vars
  BY <1>2, <1>12 DEF vars
<1>13. QED
  BY <1>4, <1>5, <1>6, <1>7, <1>8, <1>9, <1>10, <1>11, <1>12 DEF Next

\* The queue, the threads, the guard and the counters keep the promise of
\* AsyncWrites, for any number of threads.
THEOREM Implements == Spec => WriteContract
<1>1. Init => Abs!Init
  BY AbsInit
<1>2. IInv /\ [Next]_vars => [Abs!Next]_(Abs!writeVars)
  BY AbsStep
<1>3. QED
  BY <1>1, <1>2, Invariance, PTL DEF Spec, WriteContract, Abs!Spec

=============================================================================
