------------------------------- MODULE TreeSkel -------------------------------
(***************************************************************************)
(* The server skeleton, source/tree_skel.c: the main thread runs invoke()  *)
(* for one request after the other, queues the writes and answers at once; *)
(* NThreads secondary threads run process_request(), which executes the    *)
(* queued writes on the tree inside a guard.                               *)
(*                                                                         *)
(* A body that runs from lock to unlock of one mutex is one action: all it *)
(* reads and writes is only touched under that mutex (the exceptions, the  *)
(* unlocked reads of max_proc and of the tree, are actions of their own).  *)
(* A thread in pthread_cond_wait is in a control state of its own.         *)
(***************************************************************************)
EXTENDS Integers, Sequences, FiniteSets

CONSTANTS
  NThreads,      \* n_threads, the secondary threads
  Keys, Values,  \* the keys and data blocks clients use
  LongValues,    \* the values longer than a pointer (8 bytes)
  None,          \* NULL
  Junk,          \* what memory that was freed, or torn, may hold
  Messages,      \* the requests clients send
  MaxWrites      \* bound: the largest operation number handed out

Threads  == 1 .. NThreads
Slots    == 1 .. NThreads          \* indices of ops_info->in_progress
AnyKey   == Keys \cup {Junk}
AnyValue == Values \cup {Junk}

WriteOps == {"PUT", "DEL"}
ReadOps  == {"GET", "SIZE", "HEIGHT", "GETKEYS", "GETVALUES"}
Message  == [opcode : WriteOps \cup ReadOps \cup {"VERIFY", "OTHER"},
             key : Keys \cup {None}, data : Values \cup {None}, n : Int]

ASSUME SkelAssumption ==
  /\ NThreads \in Nat
  /\ MaxWrites \in Nat
  /\ IsFiniteSet(Keys)
  /\ LongValues \subseteq Values
  /\ Junk \notin Keys \cup Values
  /\ None \notin AnyKey \cup AnyValue
  /\ Messages \subseteq Message
  /\ \A m \in Messages : /\ m.opcode \in {"GET", "DEL"} => m.key \in Keys
                         /\ m.opcode = "PUT" => m.key = None \/ m.data \in Values

Request   == [op_n : Nat, op : {0, 1}, key : Keys \cup {None},
              data : Values \cup {None}]
NoRequest == [op_n |-> 0, op |-> 0, key |-> None, data |-> None]

NoMessage == [opcode |-> "OTHER", key |-> None, data |-> None, n |-> 0]

\* A response: its c_type, datalength (or n_keys, n_values), data and list.
Reply   == [c_type : {"NONE", "RESULT", "BAD", "VALUE", "KEYS", "VALUES"},
            n : Nat, data : AnyValue \cup {None},
            list : SUBSET (AnyKey \cup AnyKey \X (AnyValue \cup {None}))]
NoReply == [c_type |-> "NONE", n |-> 0, data |-> None, list |-> {}]
Result(n) == [NoReply EXCEPT !.c_type = "RESULT", !.n = n]

VARIABLES
  queue,         \* queue_head: the requests waiting, first to last
  last_assigned, \* the next operation number
  max_proc,      \* ops_info->max_proc
  in_progress,   \* ops_info->in_progress
  counter,       \* how many threads may enter the guard
  tree,          \* server_side_tree: data of each key, None if absent
  pc,            \* where each secondary thread is
  req,           \* its req
  mpc,           \* where the main thread is
  msg,           \* the message main is serving
  reply,         \* the response it is building in that message
  torn,          \* its tree reads that overlapped with a tree write
  done           \* history: the operation numbers executed on the tree

poolVars == <<queue, counter, tree, pc, req, done>>
mainVars == <<mpc, msg, reply, torn>>
vars     == <<queue, last_assigned, max_proc, in_progress, counter, tree,
              pc, req, mpc, msg, reply, torn, done>>

Init ==
  /\ queue = <<>>
  /\ last_assigned = 1
  /\ max_proc = 0
  /\ in_progress = [i \in Slots |-> 0]
  /\ counter = 1
  /\ tree = [k \in AnyKey |-> None]
  /\ pc = [t \in Threads |-> "get"]
  /\ req = [t \in Threads |-> NoRequest]
  /\ mpc = "poll"
  /\ msg = NoMessage
  /\ reply = NoReply
  /\ torn = {}
  /\ done = {}

-----------------------------------------------------------------------------
(* The tree, object/tree.o, as a dictionary. *)

Present     == {k \in AnyKey : tree[k] # None}
tree_size   == Cardinality(Present)

\* A search tree of tree_size nodes, counted in levels.
tree_height == {h \in 0 .. tree_size : tree_size < 2 ^ h}

\* The tree is being changed, respectively read, at this very moment.
Writers == {t \in Threads : pc[t] = "write"}
Reading == mpc \in {"read", "size", "list"}

-----------------------------------------------------------------------------
(* The main thread. *)

\* A write that has its entry (create_request follows message->entry).
IsWrite(m) == m.opcode = "DEL" \/ (m.opcode = "PUT" /\ m.key # None)

Goto(step) == mpc' = step

\* network_main_loop hands a received message to invoke().
Receive(m) ==
  /\ mpc = "poll"
  /\ IsWrite(m) => last_assigned <= MaxWrites
  /\ msg' = m
  /\ Goto("sweep")
  /\ UNCHANGED <<poolVars, last_assigned, max_proc, in_progress, reply, torn>>

VerifyOffByOne(n) == IF n < 0 THEN 2 ELSE IF max_proc + 1 >= n THEN 1 ELSE 0

verify(n) == IF n < 0 THEN 2 ELSE IF max_proc >= n THEN 1 ELSE 0

\* invoke() first frees the slots whose operation is reported executed.
Sweep ==
  /\ mpc = "sweep"
  /\ in_progress' = [i \in Slots |->
       IF verify(in_progress[i]) = 1 THEN 0 ELSE in_progress[i]]
  /\ Goto("dispatch")
  /\ UNCHANGED <<poolVars, last_assigned, max_proc, msg, reply, torn>>

create_request(m) ==
  [op_n |-> last_assigned, op |-> IF m.opcode = "PUT" THEN 1 ELSE 0,
   key |-> m.key, data |-> IF m.opcode = "PUT" THEN m.data ELSE None]

\* pthread_cond_signal(&queue_not_empty): wakes one sleeping thread, if any.
Asleep == {t \in Threads : pc[t] = "asleep"}
Signal ==
  IF Asleep = {} THEN UNCHANGED pc
  ELSE \E t \in Asleep : pc' = [pc EXCEPT ![t] = "get"]

QueueWrite(q, signal) ==
  /\ mpc = "dispatch"
  /\ IsWrite(msg)
  /\ queue' = q
  /\ signal
  /\ Goto("slot")
  /\ UNCHANGED <<last_assigned, max_proc, in_progress, counter, tree, req,
                 msg, reply, torn, done>>

QueueNoSignal    == QueueWrite(Append(queue, create_request(msg)), UNCHANGED pc)
QueueSignalEmpty == QueueWrite(Append(queue, create_request(msg)),
                               IF queue = <<>> THEN Signal ELSE UNCHANGED pc)
QueueAtHead      == QueueWrite(<<create_request(msg)>> \o queue, Signal)

\* create_request and queue_add_request.
QueueRequest == QueueWrite(Append(queue, create_request(msg)), Signal)

\* The first slot that is free; none when every slot is taken.
FirstFree == {i \in Slots : /\ in_progress[i] = 0
                            /\ \A j \in 1 .. i - 1 : in_progress[j] # 0}

AssignSlot(slots, step) ==
  /\ mpc = "slot"
  /\ in_progress' = [i \in Slots |->
       IF i \in slots THEN last_assigned ELSE in_progress[i]]
  /\ reply' = Result(last_assigned)
  /\ last_assigned' = last_assigned + step
  /\ Goto("send")
  /\ UNCHANGED <<poolVars, max_proc, msg, torn>>

FreeSlots         == {i \in Slots : in_progress[i] = 0}
FinishEverySlot   == AssignSlot(FreeSlots, 1)
FinishWaitsSlot   == FreeSlots # {} /\ AssignSlot(FirstFree, 1)
FinishSameNumber  == AssignSlot(FirstFree, IF msg.opcode = "DEL" THEN 0 ELSE 1)

\* The rest of the PUT and DEL branches: note the write in a slot, answer
\* with its number, take the next number.
FinishInvokeWrite == AssignSlot(FirstFree, 1)

\* The branches of invoke() that need no tree: VERIFY, a PUT with no entry
\* (invoke returns -1, network_main_loop answers OP_ERROR), and OP_BAD.
InvokeOther ==
  /\ mpc = "dispatch"
  /\ \/ /\ msg.opcode = "VERIFY"
        /\ reply' = Result(verify(msg.n))
     \/ /\ msg.opcode = "PUT" /\ ~IsWrite(msg)
        /\ reply' = NoReply
     \/ /\ msg.opcode = "OTHER"
        /\ reply' = [NoReply EXCEPT !.c_type = "BAD"]
  /\ Goto("send")
  /\ UNCHANGED <<poolVars, last_assigned, max_proc, in_progress, msg, torn>>

(* Reads of the tree take time and no lock: a read is a start and an end, *)
(* and if a write overlaps with it anything may be read, or the process   *)
(* dies of a pointer to a node that is half made or already freed.        *)

\* SIGSEGV ends every thread; one control state remembers that the request
\* just queued was not counted in last_assigned yet.
Crash ==
  /\ Goto(IF mpc = "slot" THEN "crashed_slot" ELSE "crashed")
  /\ pc' = [t \in Threads |-> "crashed"]
  /\ UNCHANGED <<queue, last_assigned, max_proc, in_progress, counter, tree,
                 req, msg, reply, torn, done>>

StartTreeCall(step) ==
  /\ Goto(step)
  /\ torn' = IF Writers = {} THEN torn ELSE torn \cup {step}
  /\ UNCHANGED <<poolVars, last_assigned, max_proc, in_progress, msg, reply>>

StartRead ==
  /\ mpc = "dispatch"
  /\ msg.opcode \in ReadOps
  /\ StartTreeCall(IF msg.opcode \in {"GETKEYS", "GETVALUES"} THEN "size"
                   ELSE "read")

FinishTreeCall(answer, step) ==
  /\ reply' = answer
  /\ Goto(step)
  /\ UNCHANGED <<poolVars, last_assigned, max_proc, in_progress, msg, torn>>

\* What tree_size returns: anything, if the tree changes meanwhile.
SomeSize == IF mpc \in torn THEN 0 .. Cardinality(AnyKey) ELSE {tree_size}

\* GET, SIZE and HEIGHT: one call of the tree.
FinishRead ==
  /\ mpc = "read"
  /\ \/ /\ msg.opcode = "GET"
        /\ \E d \in IF mpc \in torn THEN AnyValue \cup {None} ELSE {tree[msg.key]} :
             FinishTreeCall([NoReply EXCEPT !.c_type = "VALUE", !.data = d], "send")
     \/ /\ msg.opcode \in {"SIZE", "HEIGHT"}
        /\ \E n \in IF msg.opcode = "HEIGHT" /\ mpc \notin torn THEN tree_height
                    ELSE SomeSize :
             FinishTreeCall(Result(n), "send")

Sized(s) ==
  /\ mpc = "size"
  /\ FinishTreeCall([NoReply EXCEPT !.n = s,
                       !.c_type = IF msg.opcode = "GETKEYS" THEN "KEYS" ELSE "VALUES"],
                    IF s = 0 /\ msg.opcode = "GETKEYS" THEN "send" ELSE "sized")

SizeCountsNull == \E s \in SomeSize : Sized(s + 1)

\* GETKEYS and GETVALUES ask for the size first; GETKEYS stops at zero.
FinishSize == \E s \in SomeSize : Sized(s)

StartList == mpc = "sized" /\ StartTreeCall("list")

\* Only the first 8 bytes of a value are copied into the response.
WireValue(v) == IF v \in LongValues THEN Junk ELSE v

\* The first n entries of the array the tree returned, in key order.
Entry(k) == IF msg.opcode = "GETKEYS" THEN k ELSE <<k, WireValue(tree[k])>>
ListOf ==
  \E ks \in IF "list" \in torn THEN SUBSET AnyKey ELSE {Present} :
    IF Cardinality(ks) < reply.n /\ msg.opcode = "GETVALUES"
    THEN Crash                           \* values[i]->data with values[i] NULL
    ELSE \E first \in SUBSET ks :
           /\ Cardinality(first) = IF Cardinality(ks) < reply.n
                                   THEN Cardinality(ks) ELSE reply.n
           /\ FinishTreeCall([reply EXCEPT !.list = {Entry(k) : k \in first}],
                             "send")

\* The tree has no memory for the array and returns NULL: invoke returns -1
\* and network_main_loop answers OP_ERROR, unless the size was 0.
ListFails == reply.n # 0 /\ FinishTreeCall(NoReply, "send")

FinishList == mpc = "list" /\ (ListOf \/ ListFails)

TornReadCrashes == mpc \in torn /\ Reading /\ Crash

\* network_send: the response goes out and the message is freed, and with it
\* the key and the data that a queued request points to.
Send ==
  /\ mpc = "send"
  /\ IF reply.c_type = "KEYS" /\ Cardinality(reply.list) < reply.n
     THEN Crash                          \* strlen of a NULL key
     ELSE /\ Goto("poll")
          /\ msg' = NoMessage
          /\ reply' = NoReply
          /\ torn' = {}
          /\ UNCHANGED <<poolVars, last_assigned, max_proc, in_progress>>

-----------------------------------------------------------------------------
(* The secondary threads: process_request. *)

Step(t, from, to) == pc[t] = from /\ pc' = [pc EXCEPT ![t] = to]

\* queue_get_request finds the queue empty and waits for a signal.
QueueWait(t) ==
  /\ queue = <<>>
  /\ Step(t, "get", "asleep")
  /\ UNCHANGED <<queue, last_assigned, max_proc, in_progress, counter, tree,
                 req, mainVars, done>>

Take(t, rest) ==
  /\ queue # <<>>
  /\ Step(t, "get", "guard")
  /\ req' = [req EXCEPT ![t] = Head(queue)]
  /\ queue' = rest
  /\ UNCHANGED <<last_assigned, max_proc, in_progress, counter, tree,
                 mainVars, done>>

QueueGetKeepsHead(t) == Take(t, queue)

\* queue_get_request takes the first request.
QueueGet(t) == Take(t, Tail(queue))

\* guard_start waits while another thread is inside.
GuardWait(t) ==
  /\ counter = 0
  /\ Step(t, "guard", "blocked")
  /\ UNCHANGED <<queue, last_assigned, max_proc, in_progress, counter, tree,
                 req, mainVars, done>>

\* pthread_cond_wait may return without a signal; both loops test again.
SpuriousWakeup(t) ==
  /\ Step(t, "asleep", "get") \/ Step(t, "blocked", "guard")
  /\ UNCHANGED <<queue, last_assigned, max_proc, in_progress, counter, tree,
                 req, mainVars, done>>

Enter(t, free) ==
  /\ Step(t, "guard", "write")
  /\ counter' = counter - free
  /\ torn' = IF Reading THEN torn \cup {mpc} ELSE torn
  /\ UNCHANGED <<queue, last_assigned, max_proc, in_progress, tree, req, mpc,
                 msg, reply, done>>

GuardIgnored(t)   == Enter(t, IF counter = 0 THEN 0 ELSE 1)
GuardNotClosed(t) == counter # 0 /\ Enter(t, 0)

\* guard_start lets the thread in, and tree_put or tree_del begins.
GuardStart(t) == counter # 0 /\ Enter(t, 1)

\* The message that carries operation n has not been freed by network_send.
BufferLive(n) ==
  \/ mpc = "slot" /\ n = last_assigned
  \/ mpc = "send" /\ IsWrite(msg) /\ n = last_assigned - 1

\* What a pointer into the message of t's request leads to.
Deref(t, p, any) == IF p = None \/ BufferLive(req[t].op_n) THEN {p} ELSE any

\* tree_put or tree_del returns.
FinishWrite(t) ==
  /\ Step(t, "write", "record")
  /\ \E k \in Deref(t, req[t].key, AnyKey), d \in Deref(t, req[t].data, AnyValue) :
       tree' = [tree EXCEPT ![k] = d]
  /\ done' = done \cup {req[t].op_n}
  /\ UNCHANGED <<queue, last_assigned, max_proc, in_progress, counter, req,
                 mainVars>>

\* It may also die of a pointer into memory that was freed.
WriteCrashes(t) == pc[t] = "write" /\ ~BufferLive(req[t].op_n) /\ Crash

RecordAs(t, n) ==
  /\ Step(t, "record", "leave")
  /\ max_proc' = n
  /\ UNCHANGED <<queue, last_assigned, in_progress, counter, tree, req,
                 mainVars, done>>

RecordLatest(t) == RecordAs(t, req[t].op_n)

\* max_proc is raised to the number of the write just executed.
Record(t) == RecordAs(t, IF max_proc < req[t].op_n THEN req[t].op_n ELSE max_proc)

Leave(t, woken) ==
  /\ pc[t] = "leave"
  /\ counter' = counter + 1
  /\ pc' = [u \in Threads |-> IF u = t THEN "get"
                              ELSE IF u \in woken THEN "guard" ELSE pc[u]]
  /\ req' = [req EXCEPT ![t] = NoRequest]
  /\ UNCHANGED <<queue, last_assigned, max_proc, in_progress, tree,
                 mainVars, done>>

GuardEndSilent(t) == Leave(t, {})

\* guard_end frees the guard and wakes every thread waiting for it.
GuardEnd(t) == Leave(t, {u \in Threads : pc[u] = "blocked"})

-----------------------------------------------------------------------------

Invoke ==
  \/ Sweep \/ QueueRequest \/ FinishInvokeWrite \/ InvokeOther
  \/ StartRead \/ FinishRead \/ FinishSize \/ StartList \/ FinishList
  \/ TornReadCrashes \/ Send

process_request(t) ==
  \/ QueueWait(t) \/ QueueGet(t) \/ GuardWait(t) \/ GuardStart(t)
  \/ FinishWrite(t) \/ Record(t) \/ GuardEnd(t)

Next ==
  \/ \E m \in Messages : Receive(m)
  \/ Invoke
  \/ \E t \in Threads :
       process_request(t) \/ SpuriousWakeup(t) \/ WriteCrashes(t)

Spec == Init /\ [][Next]_vars

\* Every thread that can run is scheduled again; nobody has to send requests.
Fairness == WF_vars(Invoke) /\ \A t \in Threads : WF_vars(process_request(t))

FairSpec == Spec /\ Fairness

-----------------------------------------------------------------------------
(* What the skeleton keeps true. *)

\* The numbers handed out so far are 1..Created; invoke() queues a request
\* before it takes the next number.
Created == last_assigned - 1 + IF mpc \in {"slot", "crashed_slot"} THEN 1 ELSE 0

Crashed == mpc \in {"crashed", "crashed_slot"}

Holds(t, n) == req[t] # NoRequest /\ req[t].op_n = n
Queued(n)   == \E i \in 1 .. Len(queue) : queue[i].op_n = n
Inside      == {t \in Threads : pc[t] \in {"write", "record", "leave"}}

\* Every variable holds a value of its type: the queue holds requests, a
\* control state is one the code has, the slots hold numbers handed out.
TypeOK ==
  /\ queue \in Seq(Request)
  /\ last_assigned \in 1 .. MaxWrites + 1
  /\ max_proc \in Nat
  /\ in_progress \in [Slots -> Nat]
  /\ counter \in {0, 1}
  /\ tree \in [AnyKey -> AnyValue \cup {None}]
  /\ pc \in [Threads -> {"get", "asleep", "guard", "blocked", "write",
                         "record", "leave", "crashed"}]
  /\ req \in [Threads -> Request]
  /\ mpc \in {"poll", "sweep", "dispatch", "slot", "read", "size", "sized",
              "list", "send", "crashed", "crashed_slot"}
  /\ msg \in Message
  /\ reply \in Reply
  /\ torn \subseteq {"read", "size", "list"}
  /\ done \subseteq 1 .. MaxWrites

\* The guard of tree_skel.c:30-54 does what its comment says for writers: one
\* thread at most is between guard_start and guard_end, and counter says
\* whether there is one.
GuardExclusive ==
  ~Crashed => counter = 1 - Cardinality(Inside)

\* No write is lost and none is executed twice, whatever the threads do: an
\* operation number handed out is waiting in the queue once, or in the hands
\* of one thread, or executed.
EveryWriteOnce ==
  /\ \A i, j \in 1 .. Len(queue) : i # j => queue[i].op_n # queue[j].op_n
  /\ \A t, u \in Threads : \A n \in 1 .. Created :
       Holds(t, n) /\ Holds(u, n) => t = u
  /\ \A n \in 1 .. Created :
       /\ Queued(n) \/ n \in done \/ \E t \in Threads : Holds(t, n)
       /\ Queued(n) => n \notin done /\ \A t \in Threads : ~Holds(t, n)
  /\ \A t \in Threads : pc[t] \in {"guard", "blocked", "write"} =>
       req[t].op_n \notin done

\* How wrong verify() can be: a number it reports as executed is executed, or
\* is in the hands of a secondary thread, never still in the queue.
OverclaimHeld ==
  \A n \in 1 .. max_proc : n \in done \/ \E t \in Threads : Holds(t, n)

\* The other side: an executed write is reported as executed, except between
\* the end of tree_put or tree_del and the update of max_proc.
ExecutedIsCertified ==
  ~Crashed =>
    \A n \in done : n <= max_proc \/ \E t \in Threads : Holds(t, n) /\ pc[t] = "record"

\* A client never sees an operation go from executed back to not executed.
VerdictStable ==
  [][\A n \in 0 .. MaxWrites : verify(n) = 1 => verify(n)' = 1]_vars

\* queue_add_request signals once per request and queue_get_request waits in
\* a loop: while a thread sleeps, each request in the queue has a thread that
\* is awake and about to take it.
NoLostWakeup ==
  Asleep # {} => Len(queue) <= Cardinality({t \in Threads : pc[t] = "get"})

\* Nobody sleeps on process_cond when the guard is free.
GuardNotSlept ==
  (\E t \in Threads : pc[t] = "blocked") => counter = 0

\* in_progress names each write at most once, and only writes handed out.
SlotsDistinct ==
  \A i, j \in Slots : in_progress[i] # 0 =>
    /\ in_progress[i] <= Created
    /\ in_progress[i] = in_progress[j] => i = j

Abs == INSTANCE AsyncWrites
         WITH Width <- NThreads, MaxIssued <- MaxWrites,
              issued <- Created, executed <- done, certified <- max_proc

\* Queue, threads, guard and counters implement the promise of AsyncWrites:
\* numbers are issued in order, each write is executed once and overtakes
\* fewer than NThreads others, the certificate is an executed write and grows.
WriteContract == Abs!Spec

\* tree_skel.h, "Verifica se a operação identificada por op_n foi executada":
\* when the client is told that a write was executed, it was.
VerifyTellsTruth ==
  mpc = "send" /\ msg.opcode = "VERIFY" /\ msg.n > 0 /\ reply.n = 1 =>
    msg.n \in done

\* Every write that a client was given a number for is eventually reported as
\* executed, unless the process dies, of a read that meets a write or of a
\* request whose message was freed.
EveryWriteCertified ==
  \A n \in 1 .. MaxWrites : n < last_assigned ~> max_proc >= n \/ Crashed

\* The main thread never gets stuck in a request, whatever the threads hold:
\* it is back in poll() after each one, unless the process dies.
NeverStuck == mpc # "poll" ~> mpc = "poll" \/ Crashed

\* The main thread alone can queue writes, so a read that starts when all are
\* executed meets no writer, and it is answered (GETKEYS and GETVALUES read
\* the tree twice, and the second must fit the first).
QuietReadsAnswered ==
  mpc = "sweep" /\ done = 1 .. last_assigned - 1 /\ ~IsWrite(msg) ~> mpc = "poll"

-----------------------------------------------------------------------------
(* What a comment of the code says and the code does not do: a run finds   *)
(* it violated.                                                            *)

\* server_structs-private.h:12 says the key of a request is the key to remove
\* or to add: no other key of the tree changes.
WritesItsKey ==
  [][\A t \in Threads : pc[t] = "write" /\ pc'[t] = "record" =>
       \A k \in AnyKey \ {req[t].key} : tree'[k] = tree[k]]_vars

=============================================================================
