---------------------------- MODULE NetworkServer ----------------------------
(***************************************************************************)
(* The main thread of the server in source/network_server.c: one loop that *)
(* polls the sockets, accepts clients, receives a request with blocking    *)
(* reads, has it served and sends the answer; and the clients, as          *)
(* source/network_client.c makes them use a connection: one request at a   *)
(* time, its length first, then its body.                                  *)
(*                                                                         *)
(* What invoke() does with a request is in TreeSkel; here it comes back    *)
(* with an answer, or the process dies.  A client of the model is one      *)
(* connection: a program that is started again is another client.          *)
(***************************************************************************)
EXTENDS Integers, Sequences, FiniteSets

CONSTANTS
  Clients,      \* the connections clients ask for
  None,         \* no client
  MaxSockets,   \* MAX_SOCKETS, the length of desc_set
  MaxFd,        \* bound: how many descriptors clients may occupy
  Failing       \* the system calls that may fail: "accept", "poll"

ASSUME NetAssumption ==
  /\ None \notin Clients
  /\ MaxSockets \in Nat \ {0} /\ MaxFd \in Nat
  /\ Failing \subseteq {"accept", "poll"}

Slots  == 1 .. MaxSockets - 1     \* desc_set[0] is the listening socket
Polled == 0 .. MaxSockets - 1
Fds    == 1 .. MaxFd
NoFd   == -1

VARIABLES
  fd,        \* desc_set[i].fd of the clients' slots
  revents,   \* POLLIN in desc_set[i].revents
  nfds,      \* how many entries of desc_set are polled
  pc,        \* where the main thread is
  slot,      \* its loop variable i
  msg,       \* the client whose request it has received
  socket,    \* kernel: the client behind each descriptor of the server
  backlog,   \* kernel: clients connected and not yet accepted
  input,     \* kernel: what the server has yet to read from each client
  client,    \* what each client is doing
  answers    \* answers sent to each client and not yet read

serverVars == <<fd, revents, nfds, pc, slot, msg>>
clientVars == <<client, answers>>
vars == <<fd, revents, nfds, pc, slot, msg, socket, backlog, input,
          client, answers>>

\* desc_set is on the stack: revents starts as whatever is there.
Init ==
  /\ fd = [i \in Slots |-> NoFd]
  /\ revents \in [Polled -> BOOLEAN]
  /\ nfds = 1
  /\ pc = "poll"
  /\ slot = 1
  /\ msg = None
  /\ socket = [f \in Fds |-> None]
  /\ backlog = <<>>
  /\ input = [c \in Clients |-> <<>>]
  /\ client = [c \in Clients |-> "new"]
  /\ answers = [c \in Clients |-> 0]

-----------------------------------------------------------------------------
(* The clients. *)

ClientGoes(c, from, to) == client[c] = from /\ client' = [client EXCEPT ![c] = to]

\* connect() succeeds once there is room in the queue of listen(sockfd, 0).
Connect(c) ==
  /\ pc # "exited"
  /\ backlog = <<>>
  /\ ClientGoes(c, "new", "idle")
  /\ backlog' = <<c>>
  /\ UNCHANGED <<serverVars, socket, input, answers>>

\* network_send_receive sends the length of the request, then its body.
Emit(c, from, piece, to) ==
  /\ ClientGoes(c, from, to)
  /\ input' = [input EXCEPT ![c] = Append(@, piece)]
  /\ UNCHANGED <<serverVars, socket, backlog, answers>>

SendLength(c) == Emit(c, "idle", "length", "length")
SendBody(c)   == Emit(c, "length", "body", "waiting")

\* It blocks until it has read one answer.
ReadAnswer(c) ==
  /\ answers[c] > 0
  /\ ClientGoes(c, "waiting", "idle")
  /\ answers' = [answers EXCEPT ![c] = @ - 1]
  /\ UNCHANGED <<serverVars, socket, backlog, input>>

\* The program ends, at any point: quit, SIGINT, a crash, an error on its
\* socket.  What it sent last may be lost if the connection is reset.
Leave(c) ==
  /\ client[c] \notin {"new", "left"}
  /\ client' = [client EXCEPT ![c] = "left"]
  /\ \E rest \in {input[c], <<>>} : input' = [input EXCEPT ![c] = rest]
  /\ UNCHANGED <<serverVars, socket, backlog, answers>>

-----------------------------------------------------------------------------
(* The server. *)

Peer(f)     == IF f \in Fds THEN socket[f] ELSE None
HasInput(f) == Peer(f) # None /\ input[Peer(f)] # <<>>
AtEnd(f)    == Peer(f) # None /\ client[Peer(f)] = "left"
Readable(f) == HasInput(f) \/ AtEnd(f)

\* poll() returns with some descriptor ready; when it times out with none
\* the loop does nothing.
Poll ==
  /\ pc = "poll"
  /\ revents' = [i \in Polled |->
       IF i = 0 THEN backlog # <<>>
       ELSE IF i < nfds THEN Readable(fd[i]) ELSE revents[i]]
  /\ \E i \in 0 .. nfds - 1 : revents'[i]
  /\ pc' = "accept"
  /\ UNCHANGED <<fd, nfds, slot, msg, socket, backlog, input, clientVars>>

\* poll() fails: network_main_loop returns 0 and main() calls it again, with
\* a desc_set that knows none of the clients.
PollFails ==
  /\ "poll" \in Failing
  /\ pc = "poll"
  /\ fd' = [i \in Slots |-> NoFd]
  /\ revents' \in [Polled -> BOOLEAN]
  /\ nfds' = 1
  /\ UNCHANGED <<pc, slot, msg, socket, backlog, input, clientVars>>

FreeSlots == {i \in Slots : fd[i] = NoFd}
FreeFds   == {f \in Fds : socket[f] = None}
Lowest(i, S) == i \in S /\ \A j \in S : i <= j

RoomTooMuch   == nfds <= MaxSockets

\* accept() is only tried while nfds says that there is room.
Room == nfds < MaxSockets

AcceptInto(i, ready) ==
  /\ pc = "accept"
  /\ revents[0] /\ Room
  /\ \E f \in FreeFds :
       /\ Lowest(f, FreeFds)
       /\ fd' = [fd EXCEPT ![i] = f]
       /\ socket' = [socket EXCEPT ![f] = Head(backlog)]
  /\ backlog' = Tail(backlog)
  /\ revents' = [revents EXCEPT ![i] = ready]
  /\ nfds' = nfds + 1
  /\ pc' = "serve"
  /\ slot' = 1
  /\ UNCHANGED <<msg, input, clientVars>>

AcceptKeepsRevents(i) == i \in FreeSlots /\ AcceptInto(i, revents[i])

\* accept() is tried once per free slot until it succeeds: the client goes
\* into the first one, or after failures into a later one.
Accept(i) ==
  /\ Lowest(i, FreeSlots) \/ (i \in FreeSlots /\ "accept" \in Failing)
  /\ AcceptInto(i, FALSE)

\* Nobody to accept, no room by nfds, or every attempt failed.
NoAccept ==
  /\ pc = "accept"
  /\ \/ ~(revents[0] /\ Room)
     \/ "accept" \in Failing
     \/ FreeFds = {}
  /\ pc' = "serve"
  /\ slot' = 1
  /\ UNCHANGED <<fd, revents, nfds, msg, socket, backlog, input, clientVars>>

\* The slots the for loop has yet to serve.
Ready == {i \in slot .. nfds - 1 : fd[i] # NoFd /\ revents[i]}

\* The next slot with something to read; poll() again when there is none.
NextSlot ==
  /\ pc = "serve"
  /\ \/ Ready = {} /\ pc' = "poll" /\ UNCHANGED slot
     \/ \E i \in Ready : Lowest(i, Ready) /\ slot' = i /\ pc' = "length"
  /\ UNCHANGED <<fd, revents, nfds, msg, socket, backlog, input, clientVars>>

\* recv_all has read the length, respectively the body: it blocks until then.
Read(from, to, sender) ==
  /\ pc = from
  /\ HasInput(fd[slot])
  /\ input' = [input EXCEPT ![Peer(fd[slot])] = Tail(@)]
  /\ pc' = to
  /\ msg' = sender
  /\ UNCHANGED <<fd, revents, nfds, slot, socket, backlog, clientVars>>

ReceiveLength == Read("length", "body", None)
ReceiveBody   == Read("body", "invoke", Peer(fd[slot]))

DropAs(kept, closed) ==
  /\ pc \in {"length", "body"}
  /\ ~HasInput(fd[slot])
  /\ AtEnd(fd[slot]) \/ Peer(fd[slot]) = None
  /\ socket' = [f \in Fds |-> IF f = fd[slot] /\ closed THEN None ELSE socket[f]]
  /\ fd' = [fd EXCEPT ![slot] = kept]
  /\ pc' = "serve"
  /\ slot' = slot + 1
  /\ UNCHANGED <<revents, msg, backlog, input, clientVars>>

DropKeepsSlot   == DropAs(fd[slot], TRUE) /\ UNCHANGED nfds
DropLeaks       == DropAs(NoFd, pc = "length") /\ UNCHANGED nfds
DropLowersNfds  == DropAs(NoFd, TRUE) /\ nfds' = nfds - 1

\* network_receive fails at the end of the stream, in the length or in the
\* body: the socket is closed (after a missing length, twice) and its slot is
\* free, but nfds stays.
Drop == DropAs(NoFd, TRUE) /\ UNCHANGED nfds

\* invoke() comes back; whether it fails or not an answer follows.
Invoke ==
  /\ pc = "invoke"
  /\ pc' = "send"
  /\ UNCHANGED <<fd, revents, nfds, slot, msg, socket, backlog, input, clientVars>>

SendMany(n, next) ==
  /\ pc = "send"
  /\ LET c == Peer(fd[slot]) IN
       answers' = [a \in Clients |->
         IF a = c /\ client[a] # "left" THEN answers[a] + n ELSE answers[a]]
  /\ msg' = None
  /\ pc' = next
  /\ slot' = slot + 1
  /\ UNCHANGED <<fd, revents, nfds, socket, backlog, input, client>>

SendTwice     == \E n \in {1, 2} : SendMany(n, "serve")
SendThenPolls == SendMany(1, "poll")

\* network_send; an error of it is ignored, and the socket stays open.
Send == SendMany(1, "serve")

\* SIGINT makes network_server_close end the process, and so may invoke():
\* the kernel closes every socket.
Exit ==
  /\ pc # "exited"
  /\ pc' = "exited"
  /\ socket' = [f \in Fds |-> None]
  /\ backlog' = <<>>
  /\ UNCHANGED <<fd, revents, nfds, slot, msg, input, clientVars>>

-----------------------------------------------------------------------------

network_main_loop ==
  \/ Poll \/ NoAccept \/ (\E i \in Slots : Accept(i))
  \/ NextSlot \/ ReceiveLength \/ ReceiveBody \/ Drop \/ Invoke \/ Send

ClientStep(c) ==
  Connect(c) \/ SendLength(c) \/ SendBody(c) \/ ReadAnswer(c) \/ Leave(c)

Next ==
  \/ network_main_loop \/ PollFails \/ Exit
  \/ \E c \in Clients : ClientStep(c)

Spec == Init /\ [][Next]_vars

\* The main thread is scheduled; a client that has sent the length of a
\* request goes on to send the body, its next statement.
Fairness ==
  /\ WF_vars(network_main_loop)
  /\ \A c \in Clients : WF_vars(SendBody(c))

FairSpec == Spec /\ Fairness

-----------------------------------------------------------------------------
(* What the loop keeps true. *)

Accepted(c) == \E f \in Fds : socket[f] = c
Running     == pc # "exited"

\* Every variable holds a value of its type.
TypeOK ==
  /\ fd \in [Slots -> Fds \cup {NoFd}]
  /\ revents \in [Polled -> BOOLEAN]
  /\ nfds \in 1 .. MaxSockets
  /\ pc \in {"poll", "accept", "serve", "length", "body", "invoke", "send",
             "exited"}
  /\ slot \in 1 .. MaxSockets
  /\ msg \in Clients \cup {None}
  /\ socket \in [Fds -> Clients \cup {None}]
  /\ backlog \in Seq(Clients)
  /\ input \in [Clients -> Seq({"length", "body"})]
  /\ client \in [Clients -> {"new", "idle", "length", "waiting", "left"}]
  /\ answers \in [Clients -> Nat]

\* desc_set never names a descriptor that was closed, nor one twice: close()
\* and accept() would otherwise make two slots serve the same client.
SlotsOpen ==
  Running => \A i, j \in Slots : fd[i] # NoFd =>
               /\ socket[fd[i]] # None
               /\ fd[i] = fd[j] => i = j

\* The for loop and poll() only look at entries below nfds, which counts
\* accepted clients and not slots: even so every open connection is there.
EveryClientPolled ==
  Running => \A f \in Fds : socket[f] # None =>
               \E i \in Slots : fd[i] = f /\ i < nfds

\* network_receive blocks, so the loop must not start it on a socket with
\* nothing to read, whatever stood in revents before.
ReadsReady == pc = "length" => Readable(fd[slot])

\* A request is in one place: unread, being served, or answered; and there is
\* no answer but to a request.  (network_send is called in two branches, and
\* both the error and the normal answer may be sent.)
OneAnswerEach ==
  \A c \in Clients :
    /\ client[c] \in {"new", "idle", "length"} => msg # c /\ answers[c] = 0
    /\ Running /\ client[c] = "waiting" =>
         Cardinality({p \in {"unread", "served", "answered"} :
           \/ p = "unread" /\ input[c] # <<>>
           \/ p = "served" /\ msg = c
           \/ p = "answered" /\ answers[c] > 0}) = 1
    /\ answers[c] <= 1

\* Every request of an accepted client is answered, whatever the other
\* clients do, as long as they finish the requests they begin
\* (network_server.h:12-17: accept, receive, serve, answer).
AskedIsAnswered ==
  \A c \in Clients :
    Accepted(c) /\ client[c] = "waiting" ~>
      answers[c] > 0 \/ client[c] # "waiting" \/ ~Running

\* The socket of a client that is gone is closed.
LeaverReleased ==
  \A c \in Clients : Accepted(c) /\ client[c] = "left" ~> ~Accepted(c)

\* README.md:12-14: the server takes MAX_SOCKETS - 1 clients at a time, so one
\* that has connected gets in as long as fewer are connected.
RoomIsUsed ==
  \A c \in Clients :
    backlog = <<c>> ~> \/ backlog # <<c>>
                       \/ Cardinality({d \in Clients : Accepted(d)}) = MaxSockets - 1

=============================================================================
