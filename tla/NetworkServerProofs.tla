------------------------- MODULE NetworkServerProofs -------------------------
(***************************************************************************)
(* What is proved about NetworkServer, for any number of clients and any   *)
(* MAX_SOCKETS.                                                            *)
(***************************************************************************)
EXTENDS NetworkServer, SequenceTheorems, FiniteSetTheorems, TLAPS

\* Slots that are in use.
Used(i) == fd[i] # NoFd

\* At most one client waits to be accepted, and poll() has seen it when
\* accept() is about to be called, so that accept() does not block.
BacklogInv ==
  /\ backlog = <<>> \/ \E c \in Clients : backlog = <<c>>
  /\ pc = "accept" /\ revents[0] => backlog # <<>>

\* A client is behind one descriptor at most, and waits before it is there.
OwnerInv ==
  /\ \A f, g \in Fds : socket[f] # None /\ socket[f] = socket[g] => f = g
  /\ \A f \in Fds : socket[f] # None =>
       client[socket[f]] # "new" /\ backlog # <<socket[f]>>
  /\ \A c \in Clients : backlog = <<c>> => client[c] # "new"

\* While a slot is served it is in use.
SlotInv ==
  pc \in {"length", "body", "invoke", "send"} => slot \in Slots /\ Used(slot)

\* The slots this round has yet to come to.
Due(i) ==
  \/ pc = "accept"
  \/ pc \in {"serve", "length"} /\ slot <= i
  \/ pc \in {"body", "invoke", "send"} /\ slot < i

\* An entry of revents means what poll() said: no entry is set beyond those
\* that were polled, and those still to be served have something to read.
ReventsInv ==
  /\ \A i \in Slots : Used(i) /\ revents[i] => i < nfds
  /\ \A i \in Slots : Used(i) /\ revents[i] /\ Due(i) => Readable(fd[i])
  /\ pc = "length" => revents[slot]

\* The inductive invariant.
IInv == TypeOK /\ SlotsOpen /\ BacklogInv /\ OwnerInv /\ SlotInv /\ ReventsInv

-----------------------------------------------------------------------------

LEMMA InitIInv == Init => IInv
BY NetAssumption DEF Init, IInv, TypeOK, SlotsOpen, BacklogInv, OwnerInv,
   SlotInv, ReventsInv, Used, Due, Readable, HasInput, AtEnd, Peer, Slots,
   Polled, Fds, NoFd, Running

(* Steps of the clients. *)

LEMMA ConnectInv ==
  ASSUME IInv, NEW c \in Clients, Connect(c)
  PROVE  IInv'
BY NetAssumption DEF Connect, ClientGoes, serverVars, IInv, TypeOK, SlotsOpen,
   BacklogInv, OwnerInv, SlotInv, ReventsInv, Used, Due, Readable, HasInput,
   AtEnd, Peer, Slots, Polled, Fds, NoFd, Running

LEMMA EmitInv ==
  ASSUME IInv, NEW c \in Clients, SendLength(c) \/ SendBody(c)
  PROVE  IInv'
<1>1. PICK piece \in {"length", "body"}, to \in {"length", "waiting"} :
        /\ client[c] # "new"
        /\ client' = [client EXCEPT ![c] = to]
        /\ input' = [input EXCEPT ![c] = Append(@, piece)]
        /\ UNCHANGED <<serverVars, socket, backlog, answers>>
  BY DEF SendLength, SendBody, Emit, ClientGoes, IInv, TypeOK
<1>2. /\ input[c] \in Seq({"length", "body"})
      /\ Append(input[c], piece) \in Seq({"length", "body"})
      /\ Append(input[c], piece) # <<>>
  <2>1. input[c] \in Seq({"length", "body"})
    BY DEF IInv, TypeOK
  <2>2. QED
    BY <2>1, AppendProperties
<1>3. TypeOK'
  BY <1>1, <1>2 DEF IInv, TypeOK, serverVars
<1>4. \A f : Readable(f) => Readable(f)'
  BY <1>1, <1>2, NetAssumption
     DEF IInv, TypeOK, Readable, HasInput, AtEnd, Peer, SendLength, SendBody,
         Emit, ClientGoes
<1>5. SlotsOpen' /\ BacklogInv' /\ OwnerInv' /\ SlotInv'
  BY <1>1, NetAssumption
     DEF IInv, TypeOK, SlotsOpen, BacklogInv, OwnerInv, SlotInv, Used, Running,
         serverVars, Slots, Fds, NoFd
<1>6. ReventsInv'
  BY <1>1, <1>4 DEF IInv, ReventsInv, Used, Due, serverVars
<1>7. QED
  BY <1>3, <1>5, <1>6 DEF IInv

LEMMA ReadAnswerInv ==
  ASSUME IInv, NEW c \in Clients, ReadAnswer(c)
  PROVE  IInv'
BY NetAssumption, SMTT(30) DEF ReadAnswer, ClientGoes, serverVars, IInv, TypeOK,
   SlotsOpen, BacklogInv, OwnerInv, SlotInv, ReventsInv, Used, Due, Readable,
   HasInput, AtEnd, Peer, Slots, Polled, Fds, NoFd, Running

LEMMA LeaveInv ==
  ASSUME IInv, NEW c \in Clients, Leave(c)
  PROVE  IInv'
<1>1. TypeOK'
  <2>1. input[c] \in Seq({"length", "body"}) /\ <<>> \in Seq({"length", "body"})
    BY DEF IInv, TypeOK
  <2>2. input' \in [Clients -> Seq({"length", "body"})]
    BY <2>1 DEF Leave, IInv, TypeOK
  <2>3. QED
    BY <2>2 DEF Leave, IInv, TypeOK, serverVars
<1>2. \A f : Readable(f) => Readable(f)'
  <2>1. SUFFICES ASSUME NEW f, Readable(f)
                 PROVE  Readable(f)'
    OBVIOUS
  <2>2. CASE Peer(f) = c
    BY <2>1, <2>2, NetAssumption
       DEF Leave, IInv, TypeOK, Readable, HasInput, AtEnd, Peer
  <2>3. CASE Peer(f) # c
    BY <2>1, <2>3, NetAssumption
       DEF Leave, IInv, TypeOK, Readable, HasInput, AtEnd, Peer
  <2>4. QED
    BY <2>2, <2>3
<1>3. SlotsOpen' /\ BacklogInv' /\ OwnerInv' /\ SlotInv'
  BY NetAssumption
     DEF Leave, IInv, TypeOK, SlotsOpen, BacklogInv, OwnerInv, SlotInv, Used,
         Running, serverVars, Slots, Fds, NoFd
<1>4. ReventsInv'
  BY <1>2 DEF Leave, IInv, ReventsInv, Used, Due, serverVars
<1>5. QED
  BY <1>1, <1>3, <1>4 DEF IInv

(* Steps of the server. *)

LEMMA PollInv ==
  ASSUME IInv, Poll
  PROVE  IInv'
<1>1. /\ revents' \in [Polled -> BOOLEAN]
      /\ revents'[0] => backlog # <<>>
      /\ \A i \in Slots : revents'[i] = IF i < nfds THEN Readable(fd[i])
                                        ELSE revents[i]
  <2>1. 0 \in Polled /\ \A i \in Slots : i \in Polled /\ i # 0
    BY NetAssumption DEF Polled, Slots
  <2>2. \A f : Readable(f) \in BOOLEAN
    BY DEF Readable, HasInput, AtEnd
  <2>3. \A i \in Polled : revents[i] \in BOOLEAN
    BY DEF IInv, TypeOK
  <2>4. revents' = [i \in Polled |->
          IF i = 0 THEN backlog # <<>>
          ELSE IF i < nfds THEN Readable(fd[i]) ELSE revents[i]]
    BY DEF Poll
  <2>5. revents' \in [Polled -> BOOLEAN]
    BY <2>2, <2>3, <2>4, Zenon
  <2>6. QED
    BY <2>1, <2>4, <2>5, Zenon
<1>2. TypeOK'
  BY <1>1 DEF Poll, IInv, TypeOK, clientVars
<1>3. \A f : Readable(f)' = Readable(f)
  BY DEF Poll, Readable, HasInput, AtEnd, Peer, clientVars
<1>4. SlotsOpen' /\ BacklogInv' /\ OwnerInv' /\ SlotInv'
  BY <1>1
     DEF Poll, IInv, SlotsOpen, BacklogInv, OwnerInv, SlotInv, Used, Running,
         clientVars
<1>5. ReventsInv'
  <2>1. ASSUME NEW i \in Slots, Used(i), revents'[i]
        PROVE  i < nfds /\ Readable(fd[i])
    BY <1>1, <2>1 DEF IInv, ReventsInv, TypeOK, Slots
  <2>2. QED
    BY <2>1, <1>3 DEF Poll, ReventsInv, Used
<1>6. QED
  BY <1>2, <1>4, <1>5 DEF IInv

LEMMA PollFailsInv ==
  ASSUME IInv, PollFails
  PROVE  IInv'
BY NetAssumption DEF PollFails, clientVars, IInv, TypeOK, SlotsOpen,
   BacklogInv, OwnerInv, SlotInv, ReventsInv, Used, Due, Readable, HasInput,
   AtEnd, Peer, Slots, Polled, Fds, NoFd, Running

LEMMA AcceptInv ==
  ASSUME IInv, NEW i \in Slots, Accept(i)
  PROVE  IInv'
<1>1. PICK c \in Clients, f \in Fds :
        /\ backlog = <<c>>
        /\ socket[f] = None
        /\ fd' = [fd EXCEPT ![i] = f]
        /\ socket' = [socket EXCEPT ![f] = c]
        /\ backlog' = <<>>
  <2>1. PICK c \in Clients : backlog = <<c>>
    BY DEF Accept, AcceptInto, IInv, BacklogInv
  <2>2. Head(backlog) = c /\ Tail(backlog) = <<>>
    BY <2>1
  <2>3. QED
    BY <2>1, <2>2 DEF Accept, AcceptInto, FreeFds
<1>2. /\ fd[i] = NoFd /\ pc = "accept" /\ pc' = "serve"
      /\ revents' = [revents EXCEPT ![i] = FALSE]
      /\ nfds < MaxSockets /\ nfds' = nfds + 1 /\ slot' = 1
      /\ UNCHANGED <<msg, input, client, answers>>
  BY DEF Accept, AcceptInto, Lowest, FreeSlots, Room, clientVars
<1>3. TypeOK'
  BY <1>1, <1>2, NetAssumption
     DEF IInv, TypeOK, Slots, Polled, Fds, NoFd
<1>4. SlotsOpen'
  BY <1>1, <1>2, NetAssumption
     DEF IInv, TypeOK, SlotsOpen, Running, Fds, NoFd
<1>5. BacklogInv' /\ SlotInv'
  BY <1>1, <1>2 DEF BacklogInv, SlotInv
<1>6. OwnerInv'
  BY <1>1, <1>2, NetAssumption DEF IInv, TypeOK, OwnerInv
<1>7. ASSUME NEW g \in Fds, g # f, Readable(g)
      PROVE  Readable(g)'
  BY <1>1, <1>2, <1>7 DEF IInv, TypeOK, Readable, HasInput, AtEnd, Peer
<1>8. ReventsInv'
  <2>1. ASSUME NEW j \in Slots, Used(j)', revents'[j]
        PROVE  j # i /\ Used(j) /\ revents[j] /\ fd'[j] = fd[j] /\ fd[j] # f
    BY <2>1, <1>1, <1>2, NetAssumption
       DEF IInv, TypeOK, SlotsOpen, Running, Used, Slots, Polled
  <2>2. QED
    BY <2>1, <1>1, <1>2, <1>7
       DEF IInv, TypeOK, ReventsInv, Due, Used, Slots, NoFd
<1>9. QED
  BY <1>3, <1>4, <1>5, <1>6, <1>8 DEF IInv

LEMMA NoAcceptInv ==
  ASSUME IInv, NoAccept
  PROVE  IInv'
BY NetAssumption DEF NoAccept, clientVars, IInv, TypeOK, SlotsOpen, BacklogInv,
   OwnerInv, SlotInv, ReventsInv, Used, Due, Readable, HasInput, AtEnd, Peer,
   Slots, Polled, Fds, NoFd, Running

LEMMA NextSlotInv ==
  ASSUME IInv, NextSlot
  PROVE  IInv'
BY NetAssumption DEF NextSlot, Ready, Lowest, clientVars, IInv, TypeOK,
   SlotsOpen, BacklogInv, OwnerInv, SlotInv, ReventsInv, Used, Due, Readable,
   HasInput, AtEnd, Peer, Slots, Polled, Fds, NoFd, Running

LEMMA ReceiveInv ==
  ASSUME IInv, ReceiveLength \/ ReceiveBody
  PROVE  IInv'
<1>1. /\ slot \in Slots /\ fd[slot] \in Fds
      /\ Peer(fd[slot]) \in Clients /\ Peer(fd[slot]) = socket[fd[slot]]
      /\ input[Peer(fd[slot])] # <<>>
  BY DEF ReceiveLength, ReceiveBody, Read, IInv, TypeOK, SlotInv, Used,
         HasInput, Peer
<1>2. /\ input' = [input EXCEPT ![Peer(fd[slot])] = Tail(@)]
      /\ (pc = "length" /\ pc' = "body") \/ (pc = "body" /\ pc' = "invoke")
      /\ msg' \in Clients \cup {None}
      /\ UNCHANGED <<fd, revents, nfds, slot, socket, backlog, client, answers>>
  BY <1>1 DEF ReceiveLength, ReceiveBody, Read, clientVars
<1>3. Tail(input[Peer(fd[slot])]) \in Seq({"length", "body"})
  BY <1>1 DEF IInv, TypeOK
<1>4. TypeOK'
  BY <1>1, <1>2, <1>3 DEF IInv, TypeOK
<1>5. SlotsOpen' /\ BacklogInv' /\ OwnerInv' /\ SlotInv'
  BY <1>1, <1>2
     DEF IInv, SlotsOpen, BacklogInv, OwnerInv, SlotInv, Used, Running
<1>6. ASSUME NEW f \in Fds, f # fd[slot], Readable(f)
      PROVE  Readable(f)'
  BY <1>1, <1>2, <1>6, NetAssumption
     DEF IInv, TypeOK, OwnerInv, Readable, HasInput, AtEnd, Peer
<1>7. ReventsInv'
  <2>1. ASSUME NEW i \in Slots, Used(i)', revents'[i], Due(i)'
        PROVE  /\ Used(i) /\ revents[i] /\ Due(i)
               /\ fd[i] \in Fds /\ fd[i] # fd[slot] /\ fd'[i] = fd[i]
    <3>1. slot < i
      BY <2>1, <1>2 DEF Due
    <3>2. Due(i) /\ i # slot
      BY <3>1, <1>1, <1>2 DEF Due, Slots
    <3>3. Used(i) /\ revents[i] /\ fd'[i] = fd[i]
      BY <2>1, <1>2 DEF Used
    <3>4. QED
      BY <3>2, <3>3, <1>1, <1>2 DEF IInv, TypeOK, SlotsOpen, Running, Used
  <2>2. QED
    BY <2>1, <1>2, <1>6 DEF IInv, ReventsInv, Used
<1>8. QED
  BY <1>4, <1>5, <1>7 DEF IInv

LEMMA DropInv ==
  ASSUME IInv, Drop
  PROVE  IInv'
<1>1. /\ slot \in Slots /\ fd[slot] \in Fds
      /\ pc \in {"length", "body"} /\ pc' = "serve" /\ slot' = slot + 1
      /\ socket' = [f \in Fds |-> IF f = fd[slot] THEN None ELSE socket[f]]
      /\ fd' = [fd EXCEPT ![slot] = NoFd]
      /\ UNCHANGED <<revents, nfds, msg, backlog, input, client, answers>>
  BY DEF Drop, DropAs, clientVars, IInv, TypeOK, SlotInv, Used
<1>2. TypeOK'
  BY <1>1, NetAssumption DEF IInv, TypeOK, Slots
<1>3. SlotsOpen' /\ BacklogInv' /\ OwnerInv' /\ SlotInv'
  BY <1>1
     DEF IInv, TypeOK, SlotsOpen, BacklogInv, OwnerInv, SlotInv, Used, Running
<1>4. ASSUME NEW f \in Fds, f # fd[slot], Readable(f)
      PROVE  Readable(f)'
  BY <1>1, <1>4 DEF Readable, HasInput, AtEnd, Peer
<1>5. ReventsInv'
  <2>1. ASSUME NEW i \in Slots, Used(i)', revents'[i]
        PROVE  /\ Used(i) /\ revents[i] /\ i # slot
               /\ fd[i] \in Fds /\ fd[i] # fd[slot] /\ fd'[i] = fd[i]
    BY <2>1, <1>1 DEF IInv, TypeOK, SlotsOpen, Running, Used
  <2>2. ASSUME NEW i \in Slots, i # slot, Due(i)'
        PROVE  Due(i)
    BY <2>2, <1>1 DEF IInv, TypeOK, Due, Slots
  <2>3. QED
    BY <2>1, <2>2, <1>1, <1>4 DEF IInv, ReventsInv
<1>6. QED
  BY <1>2, <1>3, <1>5 DEF IInv

LEMMA InvokeInv ==
  ASSUME IInv, Invoke
  PROVE  IInv'
BY NetAssumption DEF Invoke, clientVars, IInv, TypeOK, SlotsOpen, BacklogInv,
   OwnerInv, SlotInv, ReventsInv, Used, Due, Readable, HasInput, AtEnd, Peer,
   Slots, Polled, Fds, NoFd, Running

LEMMA SendInv ==
  ASSUME IInv, Send
  PROVE  IInv'
BY NetAssumption, SMTT(30) DEF Send, SendMany, IInv, TypeOK, SlotsOpen, BacklogInv,
   OwnerInv, SlotInv, ReventsInv, Used, Due, Readable, HasInput, AtEnd, Peer,
   Slots, Polled, Fds, NoFd, Running

LEMMA ExitInv ==
  ASSUME IInv, Exit
  PROVE  IInv'
BY NetAssumption, SMTT(30) DEF Exit, clientVars, IInv, TypeOK, SlotsOpen, BacklogInv,
   OwnerInv, SlotInv, ReventsInv, Used, Due, Readable, HasInput, AtEnd, Peer,
   Slots, Polled, Fds, NoFd, Running

LEMMA NextInv == IInv /\ [Next]_vars => IInv'
<1>1. SUFFICES ASSUME IInv, [Next]_vars
               PROVE  IInv'
  OBVIOUS
<1>2. CASE UNCHANGED vars
  BY <1>1, <1>2
     DEF vars, IInv, TypeOK, SlotsOpen, BacklogInv, OwnerInv, SlotInv,
         ReventsInv, Used, Due, Readable, HasInput, AtEnd, Peer, Running
<1>3. ASSUME NEW c \in Clients, ClientStep(c)
      PROVE  IInv'
  BY <1>1, <1>3, ConnectInv, EmitInv, ReadAnswerInv, LeaveInv DEF ClientStep
<1>4. CASE network_main_loop
  BY <1>1, <1>4, PollInv, NoAcceptInv, AcceptInv, NextSlotInv, ReceiveInv,
     DropInv, InvokeInv, SendInv DEF network_main_loop
<1>5. QED
  BY <1>1, <1>2, <1>3, <1>4, PollFailsInv, ExitInv DEF Next

\* The inductive invariant holds whatever the clients do and whichever calls
\* of network_main_loop fail.
THEOREM Invariance == Spec => []IInv
BY InitIInv, NextInv, PTL DEF Spec

\* Every variable of the network loop keeps its type; nfds stays within
\* desc_set and the loop variable within its bounds.
THEOREM TypeCorrect == Spec => []TypeOK
<1>1. IInv => TypeOK
  BY DEF IInv
<1>2. QED
  BY <1>1, Invariance, PTL

\* No slot of desc_set names a closed descriptor, and no two the same.
THEOREM SlotsStayOpen == Spec => []SlotsOpen
<1>1. IInv => SlotsOpen
  BY DEF IInv
<1>2. QED
  BY <1>1, Invariance, PTL

\* The loop never starts to read from a client that has sent nothing.
THEOREM ReadsNeverBlind == Spec => []ReadsReady
<1>1. IInv => ReadsReady
  BY DEF IInv, TypeOK, SlotInv, ReventsInv, Due, ReadsReady, Slots
<1>2. QED
  BY <1>1, Invariance, PTL

-----------------------------------------------------------------------------

\* nfds counts accepts and not slots, but accept() fills the first free slot:
\* if that were beyond nfds, the slot at nfds itself would be in use and not
\* polled.
LEMMA AcceptPolled ==
  ASSUME Failing = {}, IInv, EveryClientPolled, NEW i \in Slots, Accept(i)
  PROVE  EveryClientPolled'
<1>1. /\ fd[i] = NoFd /\ (\A j \in Slots : fd[j] = NoFd => i <= j)
      /\ pc = "accept" /\ nfds < MaxSockets /\ nfds' = nfds + 1
  BY DEF Accept, AcceptInto, Lowest, FreeSlots, Room
<1>2. PICK f \in Fds : /\ socket[f] = None
                       /\ fd' = [fd EXCEPT ![i] = f]
                       /\ socket' = [socket EXCEPT ![f] = Head(backlog)]
  BY DEF Accept, AcceptInto, FreeFds
<1>3. i <= nfds
  <2>1. SUFFICES ASSUME i > nfds
                 PROVE  FALSE
    BY DEF IInv, TypeOK, Slots
  <2>2. nfds \in Slots /\ fd[nfds] # NoFd
    BY <2>1, <1>1, NetAssumption DEF IInv, TypeOK, Slots
  <2>3. fd[nfds] \in Fds /\ socket[fd[nfds]] # None
    BY <2>2, <1>1 DEF IInv, TypeOK, SlotsOpen, Running
  <2>4. PICK j \in Slots : fd[j] = fd[nfds] /\ j < nfds
    BY <2>3, <1>1 DEF EveryClientPolled, Running
  <2>5. j = nfds
    BY <2>2, <2>4, <1>1 DEF IInv, SlotsOpen, Running
  <2>6. QED
    BY <2>4, <2>5 DEF Slots
<1>4. ASSUME NEW g \in Fds, socket'[g] # None
      PROVE  \E j \in Slots : fd'[j] = g /\ j < nfds'
  <2>1. CASE g = f
    BY <2>1, <1>1, <1>2, <1>3 DEF IInv, TypeOK, Slots
  <2>2. CASE g # f
    <3>1. PICK j \in Slots : fd[j] = g /\ j < nfds
      BY <2>2, <1>1, <1>2, <1>4 DEF IInv, TypeOK, EveryClientPolled, Running
    <3>2. fd'[j] = g /\ j < nfds'
      BY <3>1, <1>1, <1>2 DEF IInv, TypeOK, Slots, Fds, NoFd
    <3>3. QED
      BY <3>2
  <2>3. QED
    BY <2>1, <2>2
<1>5. QED
  BY <1>4 DEF EveryClientPolled

LEMMA DropPolled ==
  ASSUME IInv, EveryClientPolled, Drop
  PROVE  EveryClientPolled'
<1>1. SUFFICES ASSUME NEW f \in Fds, socket'[f] # None
               PROVE  \E i \in Slots : fd'[i] = f /\ i < nfds'
  BY DEF EveryClientPolled
<1>2. f # fd[slot] /\ socket[f] # None
  BY <1>1 DEF Drop, DropAs
<1>3. PICK i \in Slots : fd[i] = f /\ i < nfds
  BY <1>2 DEF EveryClientPolled, Running, Drop, DropAs
<1>4. fd'[i] = f /\ i < nfds'
  BY <1>2, <1>3 DEF Drop, DropAs, IInv, TypeOK
<1>5. QED
  BY <1>4

\* As long as accept() and poll() do not fail, every open connection is in a
\* slot that poll() and the loop look at, although nfds is never lowered.
THEOREM ClientsArePolled ==
  ASSUME Failing = {}
  PROVE  Spec => []EveryClientPolled
<1>1. Init => EveryClientPolled
  BY DEF Init, EveryClientPolled
<1>2. IInv /\ EveryClientPolled /\ [Next]_vars => EveryClientPolled'
  <2>1. SUFFICES ASSUME IInv, EveryClientPolled, [Next]_vars
                 PROVE  EveryClientPolled'
    OBVIOUS
  <2>2. CASE Exit
    BY <2>2 DEF Exit, EveryClientPolled, Running
  <2>3. CASE PollFails
    BY <2>3 DEF PollFails
  <2>4. CASE UNCHANGED <<fd, nfds, socket>> /\ (pc = "exited" => pc' = "exited")
    BY <2>1, <2>4 DEF EveryClientPolled, Running
  <2>5. CASE network_main_loop
    <3>1. CASE Drop
      BY <2>1, <3>1, DropPolled
    <3>2. CASE \E i \in Slots : Accept(i)
      BY <2>1, <3>2, AcceptPolled
    <3>3. CASE Poll \/ NoAccept \/ NextSlot \/ ReceiveLength \/ ReceiveBody
                 \/ Invoke \/ Send
      BY <2>4, <3>3
         DEF Poll, NoAccept, NextSlot, ReceiveLength, ReceiveBody, Read,
             Invoke, Send, SendMany
    <3>4. QED
      BY <2>5, <3>1, <3>2, <3>3 DEF network_main_loop
  <2>6. ASSUME NEW c \in Clients, ClientStep(c)
        PROVE  EveryClientPolled'
    BY <2>4, <2>6
       DEF ClientStep, Connect, SendLength, SendBody, Emit, ReadAnswer, Leave,
           serverVars
  <2>7. CASE UNCHANGED vars
    BY <2>4, <2>7 DEF vars
  <2>8. QED
    BY <2>1, <2>2, <2>3, <2>5, <2>6, <2>7 DEF Next
<1>3. QED
  BY <1>1, <1>2, Invariance, PTL DEF Spec

-----------------------------------------------------------------------------
(* One answer to each request. *)

\* The length of the client's request has been read and its body has not.
Halfway(c) == pc = "body" /\ Peer(fd[slot]) = c

\* The places of a request that has been sent: in the socket, whole or without
\* its length, in the hands of the server, or answered.
Unread(c)   == input[c] = <<"length", "body">> /\ ~Halfway(c)
                 /\ msg # c /\ answers[c] = 0
HalfRead(c) == input[c] = <<"body">> /\ Halfway(c) /\ msg # c /\ answers[c] = 0
Served(c)   == input[c] = <<>> /\ ~Halfway(c) /\ msg = c /\ answers[c] = 0
Answered(c) == input[c] = <<>> /\ ~Halfway(c) /\ msg # c /\ answers[c] = 1

\* What the state of a client says of its request.
CallInv(c) ==
  /\ client[c] \in {"new", "idle"} =>
       /\ msg # c /\ answers[c] = 0
       /\ Running => input[c] = <<>> /\ ~Halfway(c)
  /\ client[c] = "length" =>
       /\ msg # c /\ answers[c] = 0
       /\ Running => input[c] = IF Halfway(c) THEN <<>> ELSE <<"length">>
  /\ client[c] = "waiting" =>
       /\ answers[c] = 1 => msg # c
       /\ Running => Unread(c) \/ HalfRead(c) \/ Served(c) \/ Answered(c)
  /\ answers[c] \in {0, 1}

\* The server holds the request of the client it is serving, and only then.
MsgInv ==
  Running => IF pc \in {"invoke", "send"} THEN msg = Peer(fd[slot])
             ELSE msg = None

CallsInv == MsgInv /\ \A c \in Clients : CallInv(c)

LEMMA InitCalls == Init => CallsInv
BY NetAssumption DEF Init, CallsInv, MsgInv, CallInv, Running, Halfway

\* The slot being served leads to a client.
LEMMA ServedPeer ==
  ASSUME IInv, pc \in {"length", "body", "invoke", "send"}
  PROVE  Peer(fd[slot]) \in Clients /\ fd[slot] \in Fds /\ slot \in Slots
BY DEF IInv, TypeOK, SlotInv, SlotsOpen, Used, Running, Peer

\* Where requests are does not depend on the slots while none is served.
LEMMA CallFrame ==
  ASSUME CallsInv, UNCHANGED <<msg, input, client, answers>>,
         pc # "exited", pc' # "exited",
         \A c \in Clients : ~Halfway(c)' /\ ~Halfway(c),
         MsgInv'
  PROVE  CallsInv'
BY DEF CallsInv, CallInv, Unread, HalfRead, Served, Answered, Running

\* A body after a length.
LEMMA PieceAppended ==
  /\ Append(<<>>, "body") = <<"body">>
  /\ Append(<<"length">>, "body") = <<"length", "body">>
<1>1. Append(<<>>, "body") = <<"body">>
  OBVIOUS
<1> DEFINE p == <<"length">>
           q == Append(p, "body")
<1>2. p \in Seq({"length", "body"}) /\ Len(p) = 1
  OBVIOUS
<1>3. q \in Seq({"length", "body"}) /\ Len(q) = 2 /\ q[1] = "length" /\ q[2] = "body"
  BY <1>2, AppendProperties
<1>4. \A i \in 1 .. Len(q) : q[i] = <<"length", "body">>[i]
  BY <1>3
<1>5. q = <<"length", "body">>
  <2>1. /\ <<"length", "body">> \in Seq({"length", "body"})
        /\ Len(<<"length", "body">>) = 2
    OBVIOUS
  <2> HIDE DEF p, q
  <2>2. QED
    BY <1>3, <1>4, <2>1, SeqEqual
<1>6. QED
  BY <1>1, <1>5

LEMMA ClientCalls ==
  ASSUME IInv, CallsInv, NEW d \in Clients, ClientStep(d)
  PROVE  CallsInv'
<1>1. UNCHANGED <<fd, slot, pc, msg, socket>>
  BY DEF ClientStep, Connect, SendLength, SendBody, Emit, ReadAnswer, Leave,
       serverVars
<1>2. /\ \A f : Peer(f)' = Peer(f)
      /\ \A c : Halfway(c)' = Halfway(c)
      /\ Running' = Running
      /\ MsgInv'
  BY <1>1 DEF CallsInv, MsgInv, Peer, Halfway, Running
<1>3. ASSUME NEW c \in Clients, c # d
      PROVE  CallInv(c)'
  <2>1. UNCHANGED <<input[c], client[c], answers[c]>>
    BY <1>3 DEF ClientStep, Connect, SendLength, SendBody, Emit, ReadAnswer,
         Leave, ClientGoes, IInv, TypeOK
  <2>2. QED
    BY <1>1, <1>2, <2>1
       DEF CallsInv, CallInv, Unread, HalfRead, Served, Answered
<1>4. CallInv(d)'
  <2>1. CallInv(d) /\ input[d] \in Seq({"length", "body"})
    BY DEF CallsInv, IInv, TypeOK
  <2>2. CASE Connect(d)
    BY <1>1, <1>2, <2>1, <2>2 DEF CallInv, Connect, ClientGoes, IInv, TypeOK
  <2>3. CASE SendLength(d)
    <3>1. /\ client[d] = "idle" /\ client'[d] = "length"
          /\ input'[d] = Append(input[d], "length") /\ UNCHANGED answers
      BY <2>3 DEF SendLength, Emit, ClientGoes, IInv, TypeOK
    <3>2. input[d] = <<>> => input'[d] = <<"length">>
      BY <3>1
    <3>3. QED
      BY <1>1, <1>2, <2>1, <3>1, <3>2 DEF CallInv
  <2>4. CASE SendBody(d)
    <3>1. /\ client[d] = "length" /\ client'[d] = "waiting"
          /\ input'[d] = Append(input[d], "body") /\ UNCHANGED answers
      BY <2>4 DEF SendBody, Emit, ClientGoes, IInv, TypeOK
    <3>2. /\ Append(<<>>, "body") = <<"body">>
          /\ Append(<<"length">>, "body") = <<"length", "body">>
      BY PieceAppended
    <3>3. QED
      BY <1>1, <1>2, <2>1, <3>1, <3>2 DEF CallInv, Unread, HalfRead
  <2>5. CASE ReadAnswer(d)
    <3>1. /\ client[d] = "waiting" /\ client'[d] = "idle"
          /\ answers[d] > 0 /\ answers'[d] = answers[d] - 1 /\ UNCHANGED input
      BY <2>5 DEF ReadAnswer, ClientGoes, IInv, TypeOK
    <3>2. answers[d] = 1 /\ answers'[d] = 0
      BY <2>1, <3>1 DEF CallInv
    <3>3. QED
      BY <1>1, <1>2, <2>1, <3>1, <3>2
         DEF CallInv, Unread, HalfRead, Served, Answered
  <2>6. CASE Leave(d)
    BY <2>1, <2>6 DEF CallInv, Leave, IInv, TypeOK
  <2>7. QED
    BY <2>2, <2>3, <2>4, <2>5, <2>6 DEF ClientStep
<1>5. QED
  BY <1>2, <1>3, <1>4 DEF CallsInv

\* Receiving moves the request of the client in the slot by one place.
LEMMA ReceiveCalls ==
  ASSUME IInv, CallsInv, ReceiveLength \/ ReceiveBody
  PROVE  CallsInv'
<1>0. pc \in {"length", "body"}
  BY DEF ReceiveLength, ReceiveBody, Read
<1>1. PICK d \in Clients : d = Peer(fd[slot])
  BY <1>0, ServedPeer
<1>2. /\ input[d] # <<>> /\ input' = [input EXCEPT ![d] = Tail(@)]
      /\ UNCHANGED <<fd, slot, socket, client, answers>>
      /\ \A f : Peer(f)' = Peer(f)
  BY <1>1 DEF ReceiveLength, ReceiveBody, Read, HasInput, clientVars, Peer
<1>3. /\ pc = "length" => pc' = "body" /\ msg' = None
      /\ pc = "body" => pc' = "invoke" /\ msg' = d
  BY <1>1 DEF ReceiveLength, ReceiveBody, Read
<1>4. msg = None /\ Running /\ Running' /\ MsgInv'
  BY <1>0, <1>1, <1>2, <1>3 DEF CallsInv, MsgInv, Running
<1>5. ASSUME NEW c \in Clients, c # d
      PROVE  CallInv(c)'
  <2>1. ~Halfway(c) /\ ~Halfway(c)' /\ input'[c] = input[c] /\ msg' # c
    BY <1>0, <1>1, <1>2, <1>3, <1>5, NetAssumption DEF Halfway, IInv, TypeOK
  <2>2. QED
    BY <1>2, <1>4, <1>5, <2>1, NetAssumption
       DEF CallsInv, CallInv, Unread, HalfRead, Served, Answered
<1>6. CallInv(d)'
  <2>1. CallInv(d) /\ d # None /\ input'[d] = Tail(input[d])
    BY <1>1, <1>2, NetAssumption DEF CallsInv, IInv, TypeOK
  <2>2. CASE pc = "length"
    <3>1. ~Halfway(d) /\ Halfway(d)' /\ msg' # d
      BY <1>1, <1>2, <1>3, <2>1, <2>2 DEF Halfway
    <3>2. /\ Tail(<<"length">>) = <<>>
          /\ Tail(<<"length", "body">>) = <<"body">>
      OBVIOUS
    <3>3. QED
      BY <1>2, <1>4, <2>1, <3>1, <3>2
         DEF CallInv, Unread, HalfRead, Served, Answered
  <2>3. CASE pc = "body"
    <3>1. Halfway(d) /\ ~Halfway(d)' /\ msg' = d
      BY <1>1, <1>2, <1>3, <2>3 DEF Halfway
    <3>2. client[d] = "waiting" => HalfRead(d)
      BY <1>4, <2>1, <3>1 DEF CallInv, Unread, Served, Answered
    <3>3. client[d] \notin {"new", "idle", "length"}
      BY <1>2, <1>4, <2>1, <3>1 DEF CallInv
    <3>4. client[d] = "waiting" => Served(d)'
      <4>1. Tail(<<"body">>) = <<>>
        OBVIOUS
      <4>2. QED
        BY <1>2, <2>1, <3>1, <3>2, <4>1 DEF HalfRead, Served
    <3>5. QED
      BY <1>2, <2>1, <3>3, <3>4 DEF CallInv, Served
  <2>4. QED
    BY <1>0, <2>2, <2>3
<1>7. QED
  BY <1>4, <1>5, <1>6 DEF CallsInv

\* The answer goes to the client whose request the server holds.
LEMMA SendCalls ==
  ASSUME IInv, CallsInv, Send
  PROVE  CallsInv'
<1>0. PICK d \in Clients : d = Peer(fd[slot])
  BY ServedPeer DEF Send, SendMany
<1>1. /\ pc = "send" /\ pc' = "serve" /\ msg' = None
      /\ answers' = [a \in Clients |->
            IF a = d /\ client[a] # "left" THEN answers[a] + 1 ELSE answers[a]]
      /\ UNCHANGED <<input, client>>
  BY <1>0 DEF Send, SendMany
<1>2. msg = d /\ MsgInv' /\ Running /\ Running'
  BY <1>0, <1>1 DEF CallsInv, MsgInv, Running
<1>3. ASSUME NEW c \in Clients
      PROVE  CallInv(c)'
  <2>1. ~Halfway(c) /\ ~Halfway(c)' /\ msg' # c /\ CallInv(c)
    BY <1>1, NetAssumption DEF Halfway, CallsInv
  <2>2. CASE c # d
    <3>1. answers'[c] = answers[c] /\ msg # c
      BY <1>1, <1>2, <2>2
    <3>2. QED
      BY <1>1, <1>2, <2>1, <3>1 DEF CallInv, Unread, HalfRead, Served, Answered
  <2>3. CASE c = d /\ client[c] = "left"
    BY <1>1, <2>1, <2>3 DEF CallInv
  <2>4. CASE c = d /\ client[c] # "left"
    <3>1. client[c] = "waiting" /\ Served(c)
      BY <1>2, <2>1, <2>4
         DEF CallInv, IInv, TypeOK, Unread, HalfRead, Served, Answered
    <3>2. answers'[c] = 1
      BY <1>1, <2>4, <3>1 DEF Served
    <3>3. QED
      BY <1>1, <2>1, <3>1, <3>2 DEF CallInv, Served, Answered
  <2>5. QED
    BY <2>2, <2>3, <2>4
<1>4. QED
  BY <1>2, <1>3 DEF CallsInv

\* A connection that is dropped is that of a client that left.
LEMMA DropCalls ==
  ASSUME IInv, CallsInv, Drop
  PROVE  CallsInv'
<1>1. /\ pc \in {"length", "body"} /\ pc' = "serve"
      /\ UNCHANGED <<msg, input, client, answers>>
  BY DEF Drop, DropAs, clientVars
<1>2. PICK d \in Clients : d = Peer(fd[slot]) /\ client[d] = "left"
  BY <1>1, ServedPeer, NetAssumption DEF Drop, DropAs, AtEnd
<1>3. MsgInv' /\ Running /\ Running'
  BY <1>1 DEF CallsInv, MsgInv, Running
<1>4. ASSUME NEW c \in Clients
      PROVE  CallInv(c)'
  <2>1. ~Halfway(c)' /\ CallInv(c)
    BY <1>1 DEF Halfway, CallsInv
  <2>2. c # d => ~Halfway(c)
    BY <1>2 DEF Halfway
  <2>3. QED
    BY <1>1, <1>2, <1>3, <2>1, <2>2
       DEF CallInv, Unread, HalfRead, Served, Answered
<1>5. QED
  BY <1>3, <1>4 DEF CallsInv

LEMMA NextCalls ==
  ASSUME IInv, CallsInv, [Next]_vars
  PROVE  CallsInv'
<1>1. CASE Poll \/ NoAccept \/ NextSlot \/ Invoke \/ PollFails
  <2>1. /\ pc \in {"poll", "accept", "serve", "invoke"}
        /\ pc' \in {"poll", "accept", "serve", "length", "send"}
        /\ pc = "invoke" => pc' = "send" /\ UNCHANGED <<fd, slot>>
        /\ pc # "invoke" => pc' # "send"
        /\ UNCHANGED <<msg, socket, input, client, answers>>
    BY <1>1 DEF Poll, NoAccept, NextSlot, Invoke, PollFails, clientVars
  <2>2. QED
    BY <2>1, CallFrame DEF Halfway, CallsInv, MsgInv, Running, Peer
<1>2. ASSUME NEW i \in Slots, Accept(i)
      PROVE  CallsInv'
  <2>1. pc = "accept" /\ pc' = "serve" /\ UNCHANGED <<msg, input, client, answers>>
    BY <1>2 DEF Accept, AcceptInto, clientVars
  <2>2. QED
    BY <2>1, CallFrame DEF Halfway, CallsInv, MsgInv, Running
<1>3. CASE Exit
  <2>1. ~Running' /\ UNCHANGED <<msg, input, client, answers>>
    BY <1>3 DEF Exit, Running, clientVars
  <2>2. QED
    BY <2>1 DEF CallsInv, MsgInv, CallInv
<1>4. CASE UNCHANGED vars
  BY <1>4 DEF vars, CallsInv, MsgInv, CallInv, Unread, HalfRead, Served,
       Answered, Halfway, Running, Peer
<1>5. QED
  BY <1>1, <1>2, <1>3, <1>4, ClientCalls, ReceiveCalls, SendCalls, DropCalls
     DEF Next, network_main_loop

\* A request is unread, being served or answered, and only one of them, and no
\* client gets two answers (network_server.c:121-147).
THEOREM EachIsAnsweredOnce == Spec => []OneAnswerEach
<1>1. CallsInv => OneAnswerEach
  <2>1. SUFFICES ASSUME CallsInv, NEW c \in Clients
                 PROVE  OneAnswerEach!(c)
    BY DEF OneAnswerEach
  <2>2. CallInv(c)
    BY <2>1 DEF CallsInv
  <2> DEFINE At == {p \in {"unread", "served", "answered"} :
                      \/ p = "unread" /\ input[c] # <<>>
                      \/ p = "served" /\ msg = c
                      \/ p = "answered" /\ answers[c] > 0}
  <2>3. ASSUME Running, client[c] = "waiting"
        PROVE  Cardinality(At) = 1
    <3>1. At = {"unread"} \/ At = {"served"} \/ At = {"answered"}
      BY <2>2, <2>3 DEF CallInv, Unread, HalfRead, Served, Answered
    <3>2. QED
      BY <3>1, FS_Singleton
  <2>4. QED
    BY <2>2, <2>3 DEF CallInv
<1>2. IInv /\ CallsInv /\ [Next]_vars => CallsInv'
  BY NextCalls
<1>3. QED
  BY <1>1, <1>2, InitCalls, Invariance, PTL DEF Spec

=============================================================================
