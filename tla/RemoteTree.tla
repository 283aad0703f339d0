----------------------------- MODULE RemoteTree -----------------------------
(***************************************************************************)
(* The whole system as its users see it: clients that write, ask whether a *)
(* write has been executed and read, over the connections of               *)
(* NetworkServer, served one request at a time by invoke() of tree_skel.c  *)
(* while the secondary threads execute the writes.                         *)
(*                                                                         *)
(* The skeleton appears as AsyncWrites, which it implements (TreeSkel's    *)
(* WriteContract).  Numbers and verdicts are all that is promised of a     *)
(* write here: what a read of the tree answers is in TreeSkel, where an    *)
(* executed write may have landed on another key and a read may meet a     *)
(* writer, so the answer to a read says nothing in this module.            *)
(***************************************************************************)
EXTENDS AsyncWrites

CONSTANTS Clients, None, MaxSockets, MaxFd     \* as in NetworkServer

ASSUME RemoteAssumption ==
  None \notin Clients /\ MaxSockets \in Nat \ {0} /\ MaxFd \in Nat

VARIABLES fd, revents, nfds, pc, slot, msg, socket, backlog, input, client,
          answers                              \* as in NetworkServer

VARIABLES
  ask,        \* the request each client has sent and invoke() has not seen
  response,   \* the answer between invoke() and network_send
  told,       \* the answer on its way to each client
  writer,     \* history: the client whose write each number stands for
  mine,       \* history: the numbers each client was given
  sure,       \* history: the numbers some client was told are executed
  floor       \* history: what of sure a client's rtree_verify is about, when it begins

Net == INSTANCE NetworkServer WITH Failing <- {}

netVars == <<fd, revents, nfds, pc, slot, msg, socket, backlog, input, client,
             answers>>
callVars == <<writeVars, ask, response, told, writer, mine, sure, floor>>
systemVars == <<netVars, callVars>>

Numbers == 1 .. MaxIssued

\* Requests and answers.
Item(op, n) == [op |-> op, n |-> n]
Nothing == Item("none", 0)
Write == Item("write", 0)
Read == Item("read", 0)
Verify(n) == Item("verify", n)
Number(n) == Item("number", n)
Verdict(v, n) == Item(IF v = 1 THEN "executed" ELSE "pending", n)
Found == Item("found", 0)

SystemInit ==
  /\ Net!Init
  /\ Init
  /\ ask = [c \in Clients |-> Nothing]
  /\ response = Nothing
  /\ told = [c \in Clients |-> Nothing]
  /\ writer = [n \in Numbers |-> None]
  /\ mine = [c \in Clients |-> {}]
  /\ sure = {}
  /\ floor = [c \in Clients |-> {}]

-----------------------------------------------------------------------------
(* The clients. *)

Connect(c) == Net!Connect(c) /\ UNCHANGED callVars
SendBody(c) == Net!SendBody(c) /\ UNCHANGED callVars

\* Bound: no more than MaxIssued writes are asked for.
MayWrite ==
  issued + Cardinality({c \in Clients : ask[c] = Write}) < MaxIssued

Ask(c) ==
  /\ Net!SendLength(c)
  /\ \E request \in {Write, Read} \cup {Verify(n) : n \in Numbers} :
       /\ request = Write => MayWrite
       /\ ask' = [ask EXCEPT ![c] = request]
       /\ floor' = [floor EXCEPT ![c] = {n \in sure : request = Verify(n)}]
  /\ UNCHANGED <<writeVars, response, told, writer, mine, sure>>

\* rtree_put and rtree_del give the user a number, rtree_verify a verdict.
ReadReply(c) ==
  /\ Net!ReadAnswer(c)
  /\ LET news == {n \in Numbers : n = told[c].n} IN
       /\ mine' = [mine EXCEPT ![c] = IF told[c].op = "number" THEN @ \cup news ELSE @]
       /\ sure' = IF told[c].op = "executed" THEN sure \cup news ELSE sure
  /\ told' = [told EXCEPT ![c] = Nothing]
  /\ floor' = [floor EXCEPT ![c] = {}]
  /\ UNCHANGED <<writeVars, ask, response, writer>>

GivesUp(c) ==
  /\ Net!ClientGoes(c, "waiting", "idle")
  /\ UNCHANGED <<fd, revents, nfds, pc, slot, msg, socket, backlog, input, answers,
                 callVars>>

LearnOrGiveUp(c) == ReadReply(c) \/ GivesUp(c)

Learn(c) == ReadReply(c)

\* A request that was not read may be lost with the connection.
Leave(c) ==
  /\ Net!Leave(c)
  /\ told' = [told EXCEPT ![c] = Nothing]
  /\ ask' = [ask EXCEPT ![c] =
       IF msg # c /\ (input'[c] = <<>> \/ client[c] = "length") THEN Nothing ELSE @]
  /\ floor' = [floor EXCEPT ![c] = {}]
  /\ UNCHANGED <<writeVars, response, writer, mine, sure>>

ClientStep(c) ==
  Connect(c) \/ Ask(c) \/ SendBody(c) \/ Learn(c) \/ Leave(c)

-----------------------------------------------------------------------------
(* The server. *)

NumberedWrite(c, n) ==
  /\ ask[c] = Write
  /\ Issue
  /\ response' = Number(n)
  /\ writer' = [writer EXCEPT ![issued + 1] = c]

ServeWriteLastNumber(c) == NumberedWrite(c, issued)

ServeWrite(c) == NumberedWrite(c, issued + 1)

VerifyIssued(n) == IF issued >= n THEN 1 ELSE 0
VerifyLast(n) == IF certified = n THEN 1 ELSE 0

\* The number is compared with the certificate.
verify(n) == IF certified >= n THEN 1 ELSE 0

ServeVerify(c) ==
  /\ ask[c].op = "verify"
  /\ response' = Verdict(verify(ask[c].n), ask[c].n)
  /\ UNCHANGED <<writeVars, writer>>

ServeRead(c) ==
  /\ ask[c] = Read
  /\ response' = Found
  /\ UNCHANGED <<writeVars, writer>>

Serve ==
  /\ Net!Invoke
  /\ ServeWrite(msg) \/ ServeVerify(msg) \/ ServeRead(msg)
  /\ ask' = [ask EXCEPT ![msg] = Nothing]
  /\ UNCHANGED <<told, mine, sure, floor>>

\* network_send writes to the descriptor of the slot being served.
Send ==
  /\ Net!Send
  /\ LET c == Net!Peer(fd[slot]) IN
       told' = IF c # None /\ client[c] # "left"
               THEN [told EXCEPT ![c] = response] ELSE told
  /\ response' = Nothing
  /\ UNCHANGED <<writeVars, ask, writer, mine, sure, floor>>

MainLoopStep ==
  /\ \/ Net!Poll \/ Net!NoAccept \/ (\E i \in Net!Slots : Net!Accept(i))
     \/ Net!NextSlot \/ Net!ReceiveLength \/ Net!ReceiveBody \/ Net!Drop
  /\ UNCHANGED callVars

Exit == Net!Exit /\ UNCHANGED callVars

\* The secondary threads, as long as the process lives.
PoolStep(step) ==
  /\ Net!Running
  /\ step
  /\ UNCHANGED <<netVars, ask, response, told, writer, mine, sure, floor>>

PoolExecutes(n) == PoolStep(Execute(n))
PoolCertifies(n) == PoolStep(Certify(n))

SystemNext ==
  \/ \E c \in Clients : ClientStep(c)
  \/ Serve \/ Send \/ MainLoopStep \/ Exit
  \/ \E n \in 1 .. issued : PoolExecutes(n) \/ PoolCertifies(n)

SystemSpec == SystemInit /\ [][SystemNext]_systemVars

-----------------------------------------------------------------------------
(* What users may rely on. *)

\* The number a client is given is that of its own write, although requests
\* and answers of all clients pass through the same variables of the server
\* (network_server.c:121-147, last_assigned in tree_skel.c:253).
OwnNumbers ==
  \A c \in Clients : \A n \in mine[c] : writer[n] = c

\* A client has at most one write whose number it does not know, and then
\* only while it waits or after it left: a lost connection leaves one write
\* in doubt, never two, and none once the call has returned.
OneWriteInDoubt ==
  \A c \in Clients :
    LET doubt == {n \in Numbers : writer[n] = c /\ n \notin mine[c]} IN
      /\ Cardinality(doubt) <= 1
      /\ client[c] = "idle" => doubt = {}

\* Once anybody has been told that a write is executed, nobody who asks
\* afterwards is told that it is not (tree_client.c:200, :203).
VerdictsAgree ==
  \A c \in Clients : told[c].op = "pending" => told[c].n \notin floor[c]

\* rtree_verify misleads its users (tree_skel.c:407 and :438), but not about
\* many writes: of all the numbers that some client was ever told are executed,
\* fewer than Width are not, whoever asked, and however old the answer is.
FewToldWrong == Cardinality(sure \ executed) < Width

=============================================================================
