--------------------------- MODULE RemoteTreeProofs ---------------------------
(***************************************************************************)
(* Proofs about the whole system, for any number of clients, any           *)
(* MAX_SOCKETS and any Width and number of writes.  What is proved of      *)
(* NetworkServer and of AsyncWrites is used here, not proved again.        *)
(***************************************************************************)
EXTENDS RemoteTree, AsyncWritesProofs

\* What is proved of the connections.
Loop == INSTANCE NetworkServerProofs WITH Failing <- {}

Items == [op : {"none", "write", "read", "verify", "number", "executed",
                "pending", "found"},
          n : 0 .. MaxIssued]

CallTypeOK ==
  /\ ask \in [Clients -> Items]
  /\ response \in Items
  /\ told \in [Clients -> Items]
  /\ writer \in [Numbers -> Clients \cup {None}]
  /\ mine \in [Clients -> SUBSET Numbers]
  /\ sure \subseteq Numbers
  /\ floor \in [Clients -> SUBSET Numbers]

\* A number that was not handed out has no writer, and what anybody was told is
\* executed has been certified.
HistoryInv ==
  /\ \A n \in Numbers : n > issued => writer[n] = None
  /\ \A n \in sure : n <= certified
  /\ \A c \in Clients : \A n \in floor[c] : n <= certified

\* An answer that client c may be given.
Rightful(c, answer) ==
  /\ answer.op = "number" => answer.n \in Numbers /\ writer[answer.n] = c
  /\ answer.op = "executed" => answer.n <= certified
  /\ answer.op = "pending" => answer.n \notin floor[c]

\* The answers under way are rightful, and on their way to clients that wait.
AnswerInv ==
  /\ \A c \in Clients : Rightful(c, told[c])
  /\ pc = "send" => Rightful(msg, response)
  /\ \A c \in Clients : told[c] # Nothing => client[c] = "waiting"

\* The writes of a client whose number it does not know.
Doubt(c) == {n \in Numbers : writer[n] = c /\ n \notin mine[c]}

\* There is none while the client is not waiting or its request has not been
\* served; else its number is under way to it, or it will never be told.
DoubtInv(c) ==
  /\ ask[c] # Nothing \/ client[c] \in {"new", "idle", "length"} => Doubt(c) = {}
  /\ client[c] = "waiting" /\ answers[c] > 0 =>
       \A n \in Doubt(c) : told[c] = Number(n)
  /\ client[c] = "waiting" /\ pc = "send" /\ msg = c =>
       \A n \in Doubt(c) : response = Number(n)
  /\ \A m, n \in Doubt(c) : m = n

CallsInv ==
  /\ CallTypeOK /\ HistoryInv /\ AnswerInv /\ OwnNumbers
  /\ \A c \in Clients : DoubtInv(c)

SystemInv ==
  /\ Loop!IInv /\ Loop!CallsInv
  /\ TypeOK /\ OvertakingInv
  /\ CallsInv

-----------------------------------------------------------------------------
(* The parts: every step is one of the connections and one of the writes. *)

LEMMA Constants ==
  /\ Loop!NetAssumption
  /\ None \notin Clients /\ Width \in Nat \ {0} /\ MaxIssued \in Nat
BY RemoteAssumption, WidthAssumption
   DEF RemoteAssumption, WidthAssumption, Loop!NetAssumption

LEMMA NetStep ==
  ASSUME [SystemNext]_systemVars
  PROVE  [Loop!Next]_(Loop!vars)
<1>1. CASE UNCHANGED systemVars
  BY <1>1 DEF systemVars, netVars, Loop!vars
<1>2. ASSUME NEW c \in Clients, ClientStep(c)
      PROVE  Loop!Next
  <2>1. Loop!ClientStep(c)
    BY <1>2 DEF ClientStep, Connect, Ask, SendBody, Learn, ReadReply, Leave,
         Loop!ClientStep, Net!Connect, Loop!Connect, Net!SendLength,
         Loop!SendLength, Net!SendBody, Loop!SendBody, Net!Emit, Loop!Emit,
         Net!ReadAnswer, Loop!ReadAnswer, Net!Leave, Loop!Leave,
         Net!ClientGoes, Loop!ClientGoes, Net!serverVars, Loop!serverVars
  <2>2. QED
    BY <2>1 DEF Loop!Next
<1>3. CASE Serve \/ Send
  <2>1. Loop!Invoke \/ Loop!Send
    BY <1>3 DEF Serve, Send, Net!Invoke, Loop!Invoke, Net!Send, Loop!Send,
         Net!SendMany, Loop!SendMany, Net!clientVars, Loop!clientVars,
         Net!Peer, Loop!Peer, Net!Fds, Loop!Fds
  <2>2. QED
    BY <2>1 DEF Loop!Next, Loop!network_main_loop
<1>4. CASE MainLoopStep
  <2>1. /\ Net!Poll => Loop!Poll
        /\ Net!NoAccept => Loop!NoAccept
        /\ Net!NextSlot => Loop!NextSlot
    BY DEF Net!Poll, Loop!Poll, Net!NoAccept, Loop!NoAccept, Net!NextSlot,
         Loop!NextSlot, Net!Ready, Loop!Ready, Net!Lowest, Loop!Lowest,
         Net!Room, Loop!Room, Net!FreeFds, Loop!FreeFds, Net!Fds, Loop!Fds,
         Net!NoFd, Loop!NoFd, Net!clientVars, Loop!clientVars, Net!Readable,
         Loop!Readable, Net!HasInput, Loop!HasInput, Net!AtEnd, Loop!AtEnd,
         Net!Peer, Loop!Peer, Net!Polled, Loop!Polled
  <2>2. (\E i \in Net!Slots : Net!Accept(i)) => \E i \in Loop!Slots : Loop!Accept(i)
    BY DEF Net!Accept, Loop!Accept, Net!AcceptInto, Loop!AcceptInto, Net!Slots,
         Loop!Slots, Net!Lowest, Loop!Lowest, Net!FreeSlots, Loop!FreeSlots,
         Net!FreeFds, Loop!FreeFds, Net!Fds, Loop!Fds, Net!NoFd, Loop!NoFd,
         Net!Room, Loop!Room, Net!clientVars, Loop!clientVars
  <2>3. /\ Net!ReceiveLength => Loop!ReceiveLength
        /\ Net!ReceiveBody => Loop!ReceiveBody
        /\ Net!Drop => Loop!Drop
    BY DEF Net!ReceiveLength, Loop!ReceiveLength, Net!ReceiveBody,
         Loop!ReceiveBody, Net!Read, Loop!Read, Net!Drop, Loop!Drop,
         Net!DropAs, Loop!DropAs, Net!HasInput, Loop!HasInput, Net!AtEnd,
         Loop!AtEnd, Net!Peer, Loop!Peer, Net!Fds, Loop!Fds, Net!NoFd,
         Loop!NoFd, Net!clientVars, Loop!clientVars
  <2>4. QED
    BY <1>4, <2>1, <2>2, <2>3 DEF MainLoopStep, Loop!Next, Loop!network_main_loop
<1>5. CASE Exit
  BY <1>5 DEF Exit, Net!Exit, Loop!Next, Loop!Exit, Net!Fds, Loop!Fds,
       Net!clientVars, Loop!clientVars
<1>6. ASSUME NEW n \in 1 .. issued, PoolExecutes(n) \/ PoolCertifies(n)
      PROVE  UNCHANGED Loop!vars
  BY <1>6 DEF PoolExecutes, PoolCertifies, PoolStep, netVars, Loop!vars
<1>7. QED
  BY <1>1, <1>2, <1>3, <1>4, <1>5, <1>6 DEF SystemNext

LEMMA WriteStep ==
  ASSUME [SystemNext]_systemVars
  PROVE  [Next]_writeVars
<1>1. CASE UNCHANGED systemVars
  BY <1>1 DEF systemVars, callVars
<1>2. ASSUME NEW c \in Clients, ClientStep(c)
      PROVE  UNCHANGED writeVars
  BY <1>2 DEF ClientStep, Connect, Ask, SendBody, Learn, ReadReply, Leave, callVars
<1>3. CASE Serve
  BY <1>3 DEF Serve, ServeWrite, NumberedWrite, ServeVerify, ServeRead, Next
<1>4. CASE Send \/ MainLoopStep \/ Exit
  BY <1>4 DEF Send, MainLoopStep, Exit, callVars
<1>5. ASSUME NEW n \in 1 .. issued, PoolExecutes(n) \/ PoolCertifies(n)
      PROVE  Next
  BY <1>5 DEF PoolExecutes, PoolCertifies, PoolStep, Next
<1>6. QED
  BY <1>1, <1>2, <1>3, <1>4, <1>5 DEF SystemNext

\* The request being served is that of the client behind the slot, who waits
\* for the answer or has left.
LEMMA ServedClient ==
  ASSUME SystemInv, pc \in {"invoke", "send"}
  PROVE  /\ msg \in Clients /\ msg = Net!Peer(fd[slot])
         /\ client[msg] \in {"waiting", "left"}
<1>1. Loop!Peer(fd[slot]) \in Clients
  BY Constants, Loop!ServedPeer DEF SystemInv
<1>2. msg = Loop!Peer(fd[slot])
  BY DEF SystemInv, Loop!CallsInv, Loop!MsgInv, Loop!Running
<1>3. client[msg] \notin {"new", "idle", "length"}
  BY <1>1, <1>2 DEF SystemInv, Loop!CallsInv, Loop!CallInv
<1>4. QED
  BY <1>1, <1>2, <1>3
     DEF SystemInv, Loop!IInv, Loop!TypeOK, Loop!Peer, Net!Peer, Loop!Fds, Net!Fds

-----------------------------------------------------------------------------

LEMMA ItemTypes ==
  /\ Nothing \in Items /\ Write \in Items /\ Read \in Items /\ Found \in Items
  /\ \A n \in Numbers : Verify(n) \in Items
  /\ \A n \in Numbers : Number(n) \in Items
  /\ \A n \in 0 .. MaxIssued, v \in {0, 1} : Verdict(v, n) \in Items
  /\ \A answer \in Items : answer.n \in Nat
<1>1. Numbers \subseteq 0 .. MaxIssued /\ 0 \in 0 .. MaxIssued
  BY Constants DEF Numbers
<1>2. ASSUME NEW op \in {"none", "write", "read", "verify", "number", "executed",
                        "pending", "found"},
             NEW n \in 0 .. MaxIssued
      PROVE  Item(op, n) \in Items
  BY DEF Item, Items
<1>3. \A answer \in Items : answer.n \in Nat
  BY Constants DEF Items
<1>4. \A n \in 0 .. MaxIssued, v \in {0, 1} : Verdict(v, n) \in Items
  BY <1>1, <1>2 DEF Verdict
<1>5. QED
  BY <1>1, <1>2, <1>3, <1>4 DEF Nothing, Write, Read, Found, Verify, Number

LEMMA InitSystem ==
  ASSUME SystemInit
  PROVE  SystemInv
<1>1. Loop!Init
  BY DEF SystemInit, Net!Init, Loop!Init, Net!Slots, Loop!Slots, Net!Polled,
       Loop!Polled, Net!Fds, Loop!Fds, Net!NoFd, Loop!NoFd
<1>2. Loop!IInv /\ Loop!CallsInv
  BY <1>1, Constants, Loop!InitIInv, Loop!InitCalls
<1>3. TypeOK /\ OvertakingInv
  BY InitInv DEF SystemInit
<1>4. CallTypeOK
  BY Constants DEF SystemInit, CallTypeOK, Items, Item, Nothing, Numbers
<1>5. HistoryInv /\ OwnNumbers
  BY Constants DEF SystemInit, HistoryInv, OwnNumbers, Numbers
<1>6. AnswerInv
  BY <1>1 DEF SystemInit, AnswerInv, Rightful, Nothing, Item, Loop!Init
<1>7. ASSUME NEW c \in Clients
      PROVE  DoubtInv(c)
  <2>1. Doubt(c) = {}
    BY Constants, <1>7 DEF SystemInit, Doubt
  <2>2. QED
    BY <2>1 DEF DoubtInv
<1>8. QED
  BY <1>2, <1>3, <1>4, <1>5, <1>6, <1>7 DEF SystemInv, CallsInv

-----------------------------------------------------------------------------
(* Steps that hand over no request and no answer. *)

\* What a client state may become while its call stays as it is.
Onward(c) ==
  \/ client'[c] = client[c]
  \/ client[c] = "new" /\ client'[c] = "idle"
  \/ client[c] = "length" /\ client'[c] = "waiting"

LEMMA CallsFrame ==
  ASSUME SystemInv,
         UNCHANGED <<issued, answers, ask, response, told, writer, mine, sure, floor>>,
         certified' \in Nat, certified <= certified',
         \A c \in Clients : Onward(c),
         pc' = "send" => pc = "send" /\ msg' = msg
  PROVE  CallsInv'
<1>1. CallTypeOK' /\ OwnNumbers'
  BY DEF SystemInv, CallsInv, CallTypeOK, OwnNumbers
<1>2. certified \in Nat /\ Numbers \subseteq Nat /\ (0 .. MaxIssued) \subseteq Nat
  BY Constants DEF SystemInv, TypeOK, Numbers
<1>3. HistoryInv'
  BY <1>2 DEF SystemInv, CallsInv, CallTypeOK, HistoryInv
<1>4. ASSUME NEW c \in Clients, NEW answer \in Items, Rightful(c, answer)
      PROVE  Rightful(c, answer)'
  <2>1. answer.n \in Nat
    BY ItemTypes
  <2>2. QED
    BY <1>2, <1>4, <2>1 DEF Rightful
<1>5. AnswerInv'
  <2>1. ASSUME NEW c \in Clients
        PROVE  (Rightful(c, told[c]) /\ (told[c] # Nothing => client[c] = "waiting"))'
    BY <1>4 DEF SystemInv, CallsInv, CallTypeOK, AnswerInv, Onward
  <2>2. (pc = "send" => Rightful(msg, response))'
    BY <1>4, ServedClient DEF SystemInv, CallsInv, CallTypeOK, AnswerInv
  <2>3. QED
    BY <2>1, <2>2 DEF AnswerInv
<1>6. ASSUME NEW c \in Clients
      PROVE  DoubtInv(c)'
  <2>1. DoubtInv(c) /\ Doubt(c)' = Doubt(c) /\ Onward(c)
    BY DEF SystemInv, CallsInv, Doubt
  <2>2. QED
    BY <2>1 DEF DoubtInv, Onward, Number, Item, Nothing
<1>7. QED
  BY <1>1, <1>3, <1>5, <1>6 DEF CallsInv

LEMMA QuietSteps ==
  ASSUME SystemInv,
         \/ UNCHANGED systemVars
         \/ \E c \in Clients : Connect(c) \/ SendBody(c)
         \/ MainLoopStep \/ Exit
         \/ \E n \in 1 .. issued : PoolExecutes(n) \/ PoolCertifies(n)
  PROVE  CallsInv'
<1>1. certified \in Nat /\ issued \in Nat /\ DOMAIN client = Clients
  BY Constants DEF SystemInv, TypeOK, Loop!IInv, Loop!TypeOK
<1>2. CASE UNCHANGED systemVars
  BY <1>1, <1>2, CallsFrame DEF systemVars, netVars, callVars, writeVars, Onward
<1>3. ASSUME NEW c \in Clients, Connect(c) \/ SendBody(c)
      PROVE  CallsInv'
  <2>1. \A d \in Clients : Onward(d)
    BY <1>1, <1>3 DEF Connect, SendBody, Net!Connect, Net!SendBody, Net!Emit,
         Net!ClientGoes, Onward
  <2>2. QED
    BY <1>1, <1>3, <2>1, CallsFrame
       DEF Connect, SendBody, Net!Connect, Net!SendBody, Net!Emit,
           Net!serverVars, callVars, writeVars
<1>4. CASE MainLoopStep
  <2>1. pc' # "send" /\ UNCHANGED <<client, answers>>
    BY <1>4 DEF MainLoopStep, Net!Poll, Net!NoAccept, Net!Accept,
         Net!AcceptInto, Net!NextSlot, Net!ReceiveLength, Net!ReceiveBody,
         Net!Read, Net!Drop, Net!DropAs, Net!clientVars
  <2>2. QED
    BY <1>1, <1>4, <2>1, CallsFrame DEF MainLoopStep, callVars, writeVars, Onward
<1>5. CASE Exit
  BY <1>1, <1>5, CallsFrame
     DEF Exit, Net!Exit, Net!clientVars, callVars, writeVars, Onward
<1>6. ASSUME NEW n \in 1 .. issued, PoolExecutes(n) \/ PoolCertifies(n)
      PROVE  CallsInv'
  <2>1. certified' \in Nat /\ certified <= certified' /\ issued' = issued
    BY <1>1, <1>6 DEF PoolExecutes, PoolCertifies, PoolStep, Execute, Certify
  <2>2. QED
    BY <1>1, <1>6, <2>1, CallsFrame
       DEF PoolExecutes, PoolCertifies, PoolStep, netVars, Onward
<1>7. QED
  BY <1>2, <1>3, <1>4, <1>5, <1>6

-----------------------------------------------------------------------------
(* Calls begin and end. *)

LEMMA AskCalls ==
  ASSUME SystemInv, NEW c \in Clients, Ask(c)
  PROVE  CallsInv'
<1>1. PICK request \in {Write, Read} \cup {Verify(n) : n \in Numbers} :
        /\ ask' = [ask EXCEPT ![c] = request]
        /\ floor' = [floor EXCEPT ![c] = {n \in sure : request = Verify(n)}]
  BY DEF Ask
<1>2. /\ client[c] = "idle" /\ client' = [client EXCEPT ![c] = "length"]
      /\ UNCHANGED <<pc, msg, answers, issued, certified, response, told, writer,
                     mine, sure>>
  BY DEF Ask, Net!SendLength, Net!Emit, Net!ClientGoes, Net!serverVars, writeVars
<1>3. request \in Items
  BY <1>1, ItemTypes
<1>4. msg # c /\ answers[c] = 0
  BY <1>2 DEF SystemInv, Loop!CallsInv, Loop!CallInv
<1>5. \A d \in Clients : client'[d] = IF d = c THEN "length" ELSE client[d]
  BY <1>2 DEF SystemInv, Loop!IInv, Loop!TypeOK
<1>6. \A d \in Clients :
        /\ ask'[d] = IF d = c THEN request ELSE ask[d]
        /\ d # c => floor'[d] = floor[d]
        /\ floor'[d] \subseteq Numbers
        /\ \A n \in floor'[d] : n <= certified
  BY <1>1 DEF SystemInv, CallsInv, CallTypeOK, HistoryInv
<1>7. CallTypeOK' /\ HistoryInv' /\ OwnNumbers'
  BY <1>1, <1>2, <1>3, <1>6 DEF SystemInv, CallsInv, CallTypeOK, HistoryInv, OwnNumbers
<1>8. AnswerInv'
  <2>1. told[c] = Nothing
    BY <1>2 DEF SystemInv, CallsInv, AnswerInv
  <2>2. ASSUME NEW d \in Clients
        PROVE  (Rightful(d, told[d]) /\ (told[d] # Nothing => client[d] = "waiting"))'
    BY <1>2, <1>5, <1>6, <2>1
       DEF SystemInv, CallsInv, AnswerInv, Rightful, Nothing, Item
  <2>3. (pc = "send" => Rightful(msg, response))'
    BY <1>2, <1>4, <1>6, ServedClient DEF SystemInv, CallsInv, AnswerInv, Rightful
  <2>4. QED
    BY <2>2, <2>3 DEF AnswerInv
<1>9. ASSUME NEW d \in Clients
      PROVE  DoubtInv(d)'
  <2>1. DoubtInv(d) /\ Doubt(d)' = Doubt(d)
    BY <1>2 DEF SystemInv, CallsInv, Doubt
  <2>2. QED
    BY <1>2, <1>5, <1>6, <2>1 DEF DoubtInv, Number, Item, Nothing
<1>10. QED
  BY <1>7, <1>8, <1>9 DEF CallsInv

LEMMA ReplyCalls ==
  ASSUME SystemInv, NEW c \in Clients, ReadReply(c)
  PROVE  CallsInv'
<1> DEFINE news == {n \in Numbers : n = told[c].n}
<1>1. /\ client[c] = "waiting" /\ client' = [client EXCEPT ![c] = "idle"]
      /\ answers[c] > 0 /\ answers' = [answers EXCEPT ![c] = @ - 1]
      /\ UNCHANGED <<pc, msg, issued, certified, ask, response, writer>>
  BY DEF ReadReply, Net!ReadAnswer, Net!ClientGoes, Net!serverVars, writeVars
<1>2. /\ mine' = [mine EXCEPT ![c] = IF told[c].op = "number" THEN @ \cup news ELSE @]
      /\ sure' = IF told[c].op = "executed" THEN sure \cup news ELSE sure
      /\ told' = [told EXCEPT ![c] = Nothing]
      /\ floor' = [floor EXCEPT ![c] = {}]
  BY DEF ReadReply
<1>3. /\ told[c] \in Items /\ Rightful(c, told[c]) /\ DoubtInv(c)
      /\ certified \in Nat /\ Width \in Nat \ {0}
  BY Constants DEF SystemInv, CallsInv, CallTypeOK, AnswerInv, TypeOK
<1>4. answers[c] = 1 /\ msg # c
  BY <1>1 DEF SystemInv, Loop!CallsInv, Loop!CallInv
<1>5. \A d \in Clients :
        /\ client'[d] = IF d = c THEN "idle" ELSE client[d]
        /\ answers'[d] = IF d = c THEN 0 ELSE answers[d]
        /\ told'[d] = IF d = c THEN Nothing ELSE told[d]
        /\ floor'[d] = IF d = c THEN {} ELSE floor[d]
        /\ d # c => mine'[d] = mine[d]
        /\ mine'[c] = IF told[c].op = "number" THEN mine[c] \cup news ELSE mine[c]
  BY <1>1, <1>2, <1>4
     DEF SystemInv, CallsInv, CallTypeOK, Loop!IInv, Loop!TypeOK
<1>6. CallTypeOK'
  BY <1>1, <1>2, ItemTypes DEF SystemInv, CallsInv, CallTypeOK
<1>7. OwnNumbers'
  <2>1. SUFFICES ASSUME NEW d \in Clients, NEW n \in mine'[d]
                 PROVE  writer[n] = d
    BY <1>1 DEF OwnNumbers
  <2>2. CASE n \in mine[d]
    BY <2>2 DEF SystemInv, CallsInv, OwnNumbers
  <2>3. CASE n \notin mine[d]
    <3>1. d = c /\ told[c].op = "number" /\ n \in news
      BY <1>5, <2>1, <2>3
    <3>2. QED
      BY <1>3, <3>1 DEF Rightful
  <2>4. QED
    BY <2>2, <2>3
<1>8. HistoryInv'
  BY <1>1, <1>2, <1>3, <1>5 DEF SystemInv, CallsInv, HistoryInv, Rightful
<1>9. AnswerInv'
  <2>1. ASSUME NEW d \in Clients
        PROVE  (Rightful(d, told[d]) /\ (told[d] # Nothing => client[d] = "waiting"))'
    <3>1. Rightful(d, told[d]) /\ (told[d] # Nothing => client[d] = "waiting")
      BY DEF SystemInv, CallsInv, AnswerInv
    <3>2. CASE d = c
      <4>1. told'[d] = Nothing
        BY <1>5, <3>2
      <4>2. Nothing.op = "none"
        BY DEF Nothing, Item
      <4>3. QED
        BY <4>1, <4>2 DEF Rightful
    <3>3. CASE d # c
      BY <1>1, <1>5, <3>1, <3>3, ItemTypes DEF Rightful
    <3>4. QED
      BY <3>2, <3>3
  <2>2. (pc = "send" => Rightful(msg, response))'
    BY <1>1, <1>4, <1>5, ServedClient DEF SystemInv, CallsInv, AnswerInv, Rightful
  <2>3. QED
    BY <2>1, <2>2 DEF AnswerInv
<1>10. ASSUME NEW d \in Clients
       PROVE  DoubtInv(d)'
  <2>1. CASE d # c
    <3>1. DoubtInv(d) /\ Doubt(d)' = Doubt(d)
      BY <1>1, <1>5, <2>1 DEF SystemInv, CallsInv, Doubt
    <3>2. QED
      BY <1>1, <1>5, <2>1, <3>1 DEF DoubtInv, Number, Item, Nothing
  <2>2. CASE d = c
    <3>1. \A n \in Doubt(c) : told[c].op = "number" /\ told[c].n = n
      <4>1. SUFFICES ASSUME NEW n \in Doubt(c)
                     PROVE  told[c].op = "number" /\ told[c].n = n
        OBVIOUS
      <4>2. told[c] = Number(n)
        BY <1>1, <1>3, <1>4 DEF DoubtInv
      <4>3. QED
        BY <4>2 DEF Number, Item
    <3>2. Doubt(c)' = {}
      BY <1>1, <1>5, <3>1 DEF Doubt
    <3>3. QED
      BY <2>2, <3>2 DEF DoubtInv
  <2>3. QED
    BY <2>1, <2>2
<1>11. QED
  BY <1>6, <1>7, <1>8, <1>9, <1>10 DEF CallsInv

LEMMA LeaveCalls ==
  ASSUME SystemInv, NEW c \in Clients, Leave(c)
  PROVE  CallsInv'
<1>1. /\ client' = [client EXCEPT ![c] = "left"]
      /\ told' = [told EXCEPT ![c] = Nothing]
      /\ floor' = [floor EXCEPT ![c] = {}]
      /\ UNCHANGED <<pc, msg, answers, issued, certified, response, writer, mine, sure>>
  BY DEF Leave, Net!Leave, Net!serverVars, writeVars
<1>2. \A d \in Clients :
        /\ client'[d] = IF d = c THEN "left" ELSE client[d]
        /\ told'[d] = IF d = c THEN Nothing ELSE told[d]
        /\ floor'[d] = IF d = c THEN {} ELSE floor[d]
        /\ ask'[d] \in {ask[d], Nothing}
        /\ d # c => ask'[d] = ask[d]
  BY <1>1 DEF Leave, SystemInv, CallsInv, CallTypeOK, Loop!IInv, Loop!TypeOK
<1>3. CallTypeOK'
  <2>1. ask' \in [Clients -> Items]
    BY ItemTypes DEF Leave, SystemInv, CallsInv, CallTypeOK
  <2>2. QED
    BY <1>1, <2>1, ItemTypes DEF SystemInv, CallsInv, CallTypeOK
<1>4. HistoryInv' /\ OwnNumbers'
  BY <1>1, <1>2 DEF SystemInv, CallsInv, HistoryInv, OwnNumbers
<1>5. ASSUME NEW d \in Clients, NEW answer, Rightful(d, answer)
      PROVE  Rightful(d, answer)'
  <2>2. CASE d = c
    <3>1. floor'[d] = {} /\ certified' = certified /\ writer' = writer
      BY <1>1, <1>2, <2>2
    <3>2. QED
      BY <1>5, <3>1 DEF Rightful
  <2>3. CASE d # c
    <3>1. floor'[d] = floor[d] /\ certified' = certified /\ writer' = writer
      BY <1>1, <1>2, <2>3
    <3>2. QED
      BY <1>5, <3>1 DEF Rightful
  <2>4. QED
    BY <2>2, <2>3
<1>6. AnswerInv'
  <2>1. ASSUME NEW d \in Clients
        PROVE  (Rightful(d, told[d]) /\ (told[d] # Nothing => client[d] = "waiting"))'
    <3>1. Rightful(d, told[d]) /\ Rightful(d, Nothing)
      BY DEF SystemInv, CallsInv, AnswerInv, Rightful, Nothing, Item
    <3>2. QED
      BY <1>2, <1>5, <3>1 DEF SystemInv, CallsInv, AnswerInv
  <2>2. (pc = "send" => Rightful(msg, response))'
    BY <1>1, <1>5, ServedClient DEF SystemInv, CallsInv, AnswerInv
  <2>3. QED
    BY <2>1, <2>2 DEF AnswerInv
<1>7. ASSUME NEW d \in Clients
      PROVE  DoubtInv(d)'
  <2>1. DoubtInv(d) /\ Doubt(d)' = Doubt(d)
    BY <1>1 DEF SystemInv, CallsInv, Doubt
  <2>2. QED
    BY <1>1, <1>2, <2>1, ItemTypes DEF DoubtInv
<1>8. QED
  BY <1>3, <1>4, <1>6, <1>7 DEF CallsInv

-----------------------------------------------------------------------------
(* A request is served, and its answer sent. *)

\* What serving needs of the answer: that it is rightful, and that it tells
\* the client the number of the only write it does not know.
LEMMA AnswerMade ==
  ASSUME SystemInv,
         pc = "invoke", pc' = "send",
         UNCHANGED <<msg, client, answers, certified, told, mine, sure, floor>>,
         ask[msg] # Nothing, ask' = [ask EXCEPT ![msg] = Nothing],
         response' \in Items, Rightful(msg, response)',
         writer' \in [Numbers -> Clients \cup {None}], OwnNumbers',
         \A n \in Numbers : n > issued' => writer'[n] = None,
         \A c \in Clients : Rightful(c, told[c])',
         \A c \in Clients : c # msg => Doubt(c)' = Doubt(c),
         \A n \in Doubt(msg)' : response' = Number(n),
         \A m, n \in Doubt(msg)' : m = n
  PROVE  CallsInv'
<1>1. msg \in Clients /\ client[msg] \in {"waiting", "left"}
  BY ServedClient
<1>2. CallTypeOK'
  BY <1>1, ItemTypes DEF SystemInv, CallsInv, CallTypeOK
<1>3. HistoryInv' /\ AnswerInv'
  BY DEF SystemInv, CallsInv, HistoryInv, AnswerInv
<1>4. ASSUME NEW c \in Clients
      PROVE  DoubtInv(c)'
  <2>1. DoubtInv(c) /\ Loop!CallInv(c)
    BY DEF SystemInv, CallsInv, Loop!CallsInv
  <2>2. CASE c = msg
    <3>1. ask'[c] = Nothing /\ (client[c] = "waiting" => answers[c] = 0)
      BY <1>1, <2>1, <2>2 DEF Loop!CallInv, SystemInv, CallsInv, CallTypeOK
    <3>2. QED
      BY <1>1, <2>2, <3>1 DEF DoubtInv
  <2>3. CASE c # msg
    <3>1. ask'[c] = ask[c] /\ Doubt(c)' = Doubt(c)
      BY <2>3 DEF SystemInv, CallsInv, CallTypeOK
    <3>2. QED
      BY <2>1, <2>3, <3>1 DEF DoubtInv
  <2>4. QED
    BY <2>2, <2>3
<1>5. QED
  BY <1>2, <1>3, <1>4 DEF CallsInv

LEMMA ServeCalls ==
  ASSUME SystemInv, Serve
  PROVE  CallsInv'
<1>1. /\ pc = "invoke" /\ pc' = "send"
      /\ UNCHANGED <<msg, client, answers, told, mine, sure, floor>>
      /\ ask' = [ask EXCEPT ![msg] = Nothing]
  BY DEF Serve, Net!Invoke, Net!clientVars
<1>2. PICK c \in Clients : c = msg
  BY <1>1, ServedClient
<1>3. /\ ask[c] \in Items /\ c # None
      /\ \A d \in Clients : Rightful(d, told[d])
      /\ issued \in Nat /\ certified \in Nat /\ certified <= MaxIssued
      /\ MaxIssued \in Nat /\ Width \in Nat
  BY Constants DEF SystemInv, CallsInv, CallTypeOK, AnswerInv, TypeOK
<1>4. ask[c] # Nothing => Doubt(c) = {}
  BY DEF SystemInv, CallsInv, DoubtInv
<1>5. Nothing.op = "none" /\ Write.op = "write" /\ Read.op = "read"
  BY DEF Nothing, Write, Read, Item
<1>6. CASE ServeWrite(msg)
  <2> DEFINE w == issued + 1
  <2>1. /\ ask[c] # Nothing /\ issued < MaxIssued /\ issued' = w
        /\ UNCHANGED certified
        /\ response' = Number(w) /\ writer' = [writer EXCEPT ![w] = c]
    BY <1>2, <1>5, <1>6 DEF ServeWrite, NumberedWrite, Issue
  <2>2. w \in Numbers /\ writer[w] = None
    BY <1>3, <2>1 DEF Numbers, SystemInv, CallsInv, HistoryInv
  <2> HIDE DEF w
  <2>3. \A n \in Numbers : writer'[n] = IF n = w THEN c ELSE writer[n]
    BY <2>1 DEF SystemInv, CallsInv, CallTypeOK
  <2>4. writer' \in [Numbers -> Clients \cup {None}]
    BY <2>1 DEF SystemInv, CallsInv, CallTypeOK
  <2>5. OwnNumbers'
    <3>1. SUFFICES ASSUME NEW d \in Clients, NEW n \in mine[d]
                   PROVE  writer'[n] = d
      BY <1>1 DEF OwnNumbers
    <3>2. n \in Numbers /\ writer[n] = d /\ n # w
      BY <2>2, <3>1, Constants DEF SystemInv, CallsInv, CallTypeOK, OwnNumbers
    <3>3. QED
      BY <2>3, <3>2
  <2>6. \A n \in Numbers : n > issued' => writer'[n] = None
    <3>1. SUFFICES ASSUME NEW n \in Numbers, n > issued'
                   PROVE  writer'[n] = None
      OBVIOUS
    <3>2. n > issued /\ n # w
      BY <1>3, <2>1, <3>1 DEF w, Numbers
    <3>3. QED
      BY <2>3, <3>2 DEF SystemInv, CallsInv, HistoryInv
  <2>7. ASSUME NEW d \in Clients
        PROVE  Rightful(d, told[d])'
    <3>1. told[d].op = "number" => told[d].n \in Numbers /\ writer'[told[d].n] = d
      BY <1>3, <2>2, <2>3, Constants DEF Rightful
    <3>2. QED
      BY <1>1, <1>3, <2>1, <3>1 DEF Rightful
  <2>8. Number(w) \in Items /\ Number(w).op = "number" /\ Number(w).n = w
    BY <2>2, ItemTypes DEF Number, Item
  <2>9. Rightful(msg, response)'
    BY <1>1, <1>2, <2>1, <2>2, <2>3, <2>8 DEF Rightful
  <2>10. ASSUME NEW d \in Clients, d # msg
         PROVE  Doubt(d)' = Doubt(d)
    BY <1>1, <1>2, <2>2, <2>3, <2>10, Constants DEF Doubt
  <2>11. Doubt(msg)' \subseteq {w}
    BY <1>1, <1>2, <1>4, <2>1, <2>3 DEF Doubt
  <2>12. QED
    BY <1>1, <1>2, <2>1, <2>4, <2>5, <2>6, <2>7, <2>8, <2>9, <2>10, <2>11, AnswerMade
<1>7. CASE ServeVerify(msg) \/ ServeRead(msg)
  <2>1. UNCHANGED <<issued, certified, writer>> /\ ask[c] # Nothing
    BY <1>2, <1>5, <1>7 DEF ServeVerify, ServeRead, writeVars
  <2>2. response' \in Items /\ Rightful(c, response')
    <3>1. \A n \in floor[c] : n \in Nat /\ n <= certified
      BY <1>3 DEF SystemInv, CallsInv, CallTypeOK, HistoryInv, Numbers
    <3>2. CASE ServeVerify(msg)
      <4> DEFINE n == ask[c].n
                 v == verify(n)
      <4>1. n \in 0 .. MaxIssued /\ v \in {0, 1} /\ (v = 1 <=> certified >= n)
        BY <1>3 DEF Items, verify
      <4>2. response' = Verdict(v, n)
        BY <1>2, <3>2 DEF ServeVerify
      <4>3. /\ Verdict(v, n) \in Items /\ Verdict(v, n).n = n
            /\ Verdict(v, n).op = IF v = 1 THEN "executed" ELSE "pending"
        BY <4>1, ItemTypes DEF Verdict, Item
      <4> HIDE DEF n, v
      <4>4. v # 1 => n \notin floor[c]
        BY <1>3, <3>1, <4>1
      <4>5. v = 1 => n <= certified
        BY <1>3, <4>1
      <4>6. QED
        BY <4>2, <4>3, <4>4, <4>5 DEF Rightful
    <3>3. CASE ServeRead(msg)
      <4>1. Found \in Items /\ Found.op = "found"
        BY ItemTypes DEF Found, Item
      <4>2. QED
        BY <3>3, <4>1 DEF ServeRead, Rightful
    <3>4. QED
      BY <1>7, <3>2, <3>3
  <2>3. \A d \in Clients : Doubt(d)' = Doubt(d) /\ Rightful(d, told[d])'
    BY <1>1, <1>3, <2>1 DEF Doubt, Rightful
  <2>4. Rightful(msg, response)'
    BY <1>1, <1>2, <2>1, <2>2 DEF Rightful
  <2>5. /\ writer' \in [Numbers -> Clients \cup {None}] /\ OwnNumbers'
        /\ \A n \in Numbers : n > issued' => writer'[n] = None
    BY <1>1, <2>1 DEF SystemInv, CallsInv, CallTypeOK, HistoryInv, OwnNumbers
  <2>6. Doubt(msg)' = {}
    BY <1>1, <1>2, <1>4, <2>1 DEF Doubt
  <2>7. QED
    BY <1>1, <1>2, <2>1, <2>2, <2>3, <2>4, <2>5, <2>6, AnswerMade
<1>8. QED
  BY <1>6, <1>7 DEF Serve

\* The answer goes to the client whose request it answers.
LEMMA SendAnswer ==
  ASSUME SystemInv, Send
  PROVE  CallsInv'
<1>1. PICK c \in Clients : c = msg /\ c = Net!Peer(fd[slot]) /\ pc = "send"
  BY ServedClient DEF Send, Net!Send, Net!SendMany
<1>2. /\ pc' = "serve" /\ msg' = None
      /\ UNCHANGED <<client, issued, certified, ask, writer, mine, sure, floor>>
      /\ response' = Nothing
      /\ told' = IF client[c] # "left" THEN [told EXCEPT ![c] = response] ELSE told
      /\ answers' = [a \in Clients |->
            IF a = c /\ client[a] # "left" THEN answers[a] + 1 ELSE answers[a]]
  BY <1>1, Constants DEF Send, Net!Send, Net!SendMany, writeVars
<1>3. /\ client[c] \in {"waiting", "left"}
      /\ Rightful(c, response) /\ response \in Items /\ told \in [Clients -> Items]
  BY <1>1, ServedClient DEF SystemInv, CallsInv, CallTypeOK, AnswerInv
<1>4. \A d \in Clients :
        told'[d] = IF d = c /\ client[c] # "left" THEN response ELSE told[d]
  BY <1>2, <1>3
<1>5. CallTypeOK'
  BY <1>2, <1>3, ItemTypes DEF SystemInv, CallsInv, CallTypeOK
<1>6. HistoryInv' /\ OwnNumbers'
  BY <1>2 DEF SystemInv, CallsInv, HistoryInv, OwnNumbers
<1>7. AnswerInv'
  <2>1. ASSUME NEW d \in Clients
        PROVE  (Rightful(d, told[d]) /\ (told[d] # Nothing => client[d] = "waiting"))'
    <3>1. Rightful(d, told[d]) /\ (told[d] # Nothing => client[d] = "waiting")
      BY DEF SystemInv, CallsInv, AnswerInv
    <3>2. Rightful(d, told'[d]) /\ (told'[d] # Nothing => client[d] = "waiting")
      BY <1>3, <1>4, <3>1
    <3>3. QED
      BY <1>2, <3>2, ItemTypes DEF Rightful
  <2>2. QED
    BY <1>2, <2>1 DEF AnswerInv
<1>8. ASSUME NEW d \in Clients
      PROVE  DoubtInv(d)'
  <2>1. DoubtInv(d) /\ Doubt(d)' = Doubt(d)
    BY <1>2 DEF SystemInv, CallsInv, Doubt
  <2>2. CASE d = c
    BY <1>1, <1>2, <1>3, <1>4, <2>1, <2>2 DEF DoubtInv
  <2>3. CASE d # c
    <3>1. told'[d] = told[d] /\ answers'[d] = answers[d]
      BY <1>2, <1>4, <2>3
    <3>2. QED
      BY <1>2, <2>1, <3>1 DEF DoubtInv
  <2>4. QED
    BY <2>2, <2>3
<1>9. QED
  BY <1>5, <1>6, <1>7, <1>8 DEF CallsInv

LEMMA StepSystem ==
  ASSUME SystemInv, [SystemNext]_systemVars
  PROVE  SystemInv'
<1>1. Loop!IInv' /\ Loop!CallsInv'
  BY NetStep, Constants, Loop!NextInv, Loop!NextCalls DEF SystemInv
<1>2. TypeOK' /\ OvertakingInv'
  BY WriteStep, StepInv DEF SystemInv
<1>3. CallsInv'
  BY QuietSteps, AskCalls, ReplyCalls, LeaveCalls, ServeCalls, SendAnswer
     DEF SystemNext, ClientStep, Learn
<1>4. QED
  BY <1>1, <1>2, <1>3 DEF SystemInv

\* The whole system does nothing that its parts, each on its own, do not allow:
\* what is proved of the connections and of the writes holds in it.
THEOREM PartsAreKept == SystemSpec => Loop!Spec /\ Spec
<1>1. SystemInit => Loop!Init /\ Init
  BY DEF SystemInit, Net!Init, Loop!Init, Net!Slots, Loop!Slots, Net!Polled,
       Loop!Polled, Net!Fds, Loop!Fds, Net!NoFd, Loop!NoFd
<1>2. [SystemNext]_systemVars => [Loop!Next]_(Loop!vars) /\ [Next]_writeVars
  BY NetStep, WriteStep
<1>3. QED
  BY <1>1, <1>2, PTL DEF SystemSpec, Loop!Spec, Spec

\* What is on its way between clients, the loop and the pool agrees with who
\* wrote what and with what was executed.
THEOREM SystemInvariance == SystemSpec => []SystemInv
<1>1. SystemInit => SystemInv
  BY InitSystem
<1>2. SystemInv /\ [SystemNext]_systemVars => SystemInv'
  BY StepSystem
<1>3. QED
  BY <1>1, <1>2, PTL DEF SystemSpec

-----------------------------------------------------------------------------

\* The number a client is given is that of its own write: the answer sent to
\* a slot is that to the request received from it (network_server.c:121-147).
THEOREM NumbersAreOwn == SystemSpec => []OwnNumbers
<1>1. SystemInv => OwnNumbers
  BY DEF SystemInv, CallsInv
<1>2. QED
  BY <1>1, SystemInvariance, PTL

\* A client is in doubt about one write at most, and about none when its call
\* has returned, however many clients there are and whoever leaves when.
THEOREM OneInDoubt == SystemSpec => []OneWriteInDoubt
<1>1. SystemInv => OneWriteInDoubt
  <2>1. SUFFICES ASSUME SystemInv, NEW c \in Clients
                 PROVE  /\ Cardinality(Doubt(c)) <= 1
                        /\ client[c] = "idle" => Doubt(c) = {}
    BY DEF OneWriteInDoubt, Doubt
  <2>2. DoubtInv(c)
    BY <2>1 DEF SystemInv, CallsInv
  <2>3. Doubt(c) = {} \/ \E n \in Doubt(c) : Doubt(c) = {n}
    BY <2>2 DEF DoubtInv
  <2>4. Cardinality(Doubt(c)) <= 1
    <3>1. CASE Doubt(c) = {}
      BY <3>1, FS_EmptySet
    <3>2. ASSUME NEW n \in Doubt(c), Doubt(c) = {n}
          PROVE  Cardinality(Doubt(c)) <= 1
      BY <3>2, FS_Singleton
    <3>3. QED
      BY <2>3, <3>1, <3>2
  <2>5. QED
    BY <2>2, <2>4 DEF DoubtInv
<1>2. QED
  BY <1>1, SystemInvariance, PTL

\* Nobody who asks after somebody was told that a write is executed is told
\* that it is not: the certificate never goes down (tree_skel.c:271-280).
THEOREM VerdictsDoAgree == SystemSpec => []VerdictsAgree
<1>1. SystemInv => VerdictsAgree
  BY DEF SystemInv, CallsInv, AnswerInv, Rightful, VerdictsAgree
<1>2. QED
  BY <1>1, SystemInvariance, PTL

\* Of all the writes that anybody was told are executed, fewer than there are
\* secondary threads are not: the bound on the certificate (tree_skel.c:407,
\* :438) survives the way to the clients.
THEOREM FewAreToldWrong == SystemSpec => []FewToldWrong
<1>1. SystemInv => FewToldWrong
  <2> SUFFICES ASSUME SystemInv PROVE FewToldWrong
    OBVIOUS
  <2> DEFINE Missing == {m \in 1 .. certified : m \notin executed}
             Wrong == sure \ executed
  <2>1. certified \in Nat /\ Width \in Nat
    BY Constants DEF SystemInv, TypeOK
  <2>2. IsFiniteSet(1 .. certified)
    BY <2>1, FS_Interval
  <2>3. IsFiniteSet(Missing)
    BY <2>2, FS_Subset
  <2>4. Wrong \subseteq Missing
    <3>1. \A n \in sure : n \in Nat \ {0} /\ n <= certified
      BY DEF SystemInv, CallsInv, CallTypeOK, HistoryInv, Numbers
    <3>2. QED
      BY <2>1, <3>1
  <2>5. Cardinality(Missing) < Width
    BY FewOverclaimed DEF SystemInv, OverclaimBounded
  <2> HIDE DEF Missing
  <2>6. IsFiniteSet(Wrong) /\ Cardinality(Wrong) <= Cardinality(Missing)
    BY <2>3, <2>4, FS_Subset
  <2>7. Cardinality(Wrong) \in Nat /\ Cardinality(Missing) \in Nat
    BY <2>3, <2>6, FS_CardinalityType
  <2>8. Cardinality(Wrong) < Width
    BY <2>1, <2>5, <2>6, <2>7
  <2>9. QED
    BY <2>8 DEF FewToldWrong
<1>2. QED
  BY <1>1, SystemInvariance, PTL

=============================================================================
