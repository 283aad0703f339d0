--------------------------- MODULE TreeClientProofs ---------------------------
(***************************************************************************)
(* Proofs about the interactive client, whatever the user types, and       *)
(* whenever the connection breaks or SIGINT comes.                         *)
(***************************************************************************)
EXTENDS TreeClient, TLAPS

\* Where the client is says what it has in its hands.
PlaceInv ==
  /\ pc = "start" => rtree = "NULL" /\ linha = "NULL" /\ sock = "unset" /\ wire = "none"
  /\ pc = "connect" => rtree = "NULL" /\ linha = "live" /\ sock = "unset" /\ wire = "none"
  /\ pc \in {"prompt", "send", "await"} => rtree \in {"NULL", "live"} /\ linha = "live"
  /\ pc \in {"send", "await"} => rtree = "live" /\ line \in Commands
  /\ pc = "quit1" => rtree = "live" /\ linha = "live"
  /\ pc = "quit2" => rtree = "live" /\ linha = "freed"
  /\ pc = "quit3" => rtree = "freed" /\ linha = "freed"

\* Between commands an open connection is empty, and during one it carries that
\* command's request or its answer, on a socket that is not closed.
WireInv ==
  /\ pc \in {"prompt", "send"} /\ sock = "open" => wire = "none"
  /\ pc = "await" => sock = "open"
  /\ sock = "unset" => wire = "none"

IInv == TypeOK /\ PlaceInv /\ WireInv /\ NoUseAfterFree

LEMMA InitInv == Init => IInv
BY DEF Init, IInv, TypeOK, PlaceInv, WireInv, NoUseAfterFree, Lines

-----------------------------------------------------------------------------

LEMMA ConnectionInv ==
  ASSUME IInv, StartWithoutAddress \/ Start \/ Connected \/ ConnectFails \/ BadAddress
  PROVE  IInv'
BY DEF StartWithoutAddress, Start, Connected, ConnectFails, ConnectFailsWith,
   AfterFreeIp, BadAddress, memory, world, IInv, TypeOK, PlaceInv, WireInv, NoUseAfterFree,
   Lines

\* A stub that returns leaves the client alive in the loop, or dead.
LEMMA Returned ==
  ASSUME NEW cmd, NEW response, Return(cmd, response)
  PROVE  pc' \in {"prompt", "crashed"}
BY DEF Return

LEMMA CommandInv ==
  ASSUME IInv, EndOfInput \/ Command \/ NoCommand
  PROVE  IInv'
<1>1. CASE EndOfInput
  BY <1>1 DEF EndOfInput, memory, world, IInv, TypeOK, PlaceInv, WireInv,
     NoUseAfterFree
<1>2. CASE Command
  <2>1. PICK cmd \in Commands :
          /\ pc = "prompt" /\ stdin = "lines" /\ line' = cmd
          /\ \/ rtree = "live" /\ pc' = "send"
             \/ rtree = "NULL" /\ pc' \in {"prompt", "crashed"}
          /\ UNCHANGED <<argv, rtree, linha, sock, stdin, server, wire>>
    BY <1>2, Returned DEF Command, Typed, memory, world
  <2>2. QED
    BY <2>1 DEF IInv, TypeOK, PlaceInv, WireInv, NoUseAfterFree, Lines
<1>3. CASE NoCommand
  BY <1>3 DEF NoCommand, Typed, memory, world, IInv, TypeOK, PlaceInv, WireInv,
     NoUseAfterFree, Lines
<1>4. QED
  BY <1>1, <1>2, <1>3

LEMMA CallInv ==
  ASSUME IInv, network_send_receive
  PROVE  IInv'
<1>1. CASE Sent
  BY <1>1 DEF Sent, memory, IInv, TypeOK, PlaceInv, WireInv, NoUseAfterFree
<1>2. CASE SendFails \/ AnswerFails
  <2>1. /\ pc \in {"send", "await"} /\ sock' = "closed"
        /\ Return(line, "NULL")
        /\ UNCHANGED <<argv, line, rtree, linha, stdin, server, wire>>
    BY <1>2 DEF SendFails, AnswerFails, AnswerFailsIf, memory, world
  <2>2. pc' \in {"prompt", "crashed"}
    BY <2>1, Returned
  <2>3. QED
    BY <2>1, <2>2
       DEF IInv, TypeOK, PlaceInv, WireInv, NoUseAfterFree, Lines
<1>3. CASE AnswerRead
  <2>1. /\ pc = "await" /\ wire' = "none"
        /\ pc' \in {"prompt", "crashed"}
        /\ UNCHANGED <<argv, line, rtree, linha, sock, stdin, server>>
    BY <1>3, Returned DEF AnswerRead, memory
  <2>2. QED
    BY <2>1
       DEF IInv, TypeOK, PlaceInv, WireInv, NoUseAfterFree
<1>4. QED
  BY <1>1, <1>2, <1>3 DEF network_send_receive

LEMMA QuitInv ==
  ASSUME IInv, QuitClose \/ QuitFree \/ QuitDisconnect \/ QuitReturn \/ sig_handler
  PROVE  IInv'
<1>1. CASE QuitClose
  BY <1>1 DEF QuitClose, Typed, memory, world, IInv, TypeOK, PlaceInv, WireInv,
     NoUseAfterFree, Lines
<1>2. CASE QuitFree \/ QuitDisconnect \/ QuitReturn
  BY <1>2 DEF QuitFree, QuitDisconnect, AfterFreeIp, QuitReturn, memory, world, IInv,
     TypeOK, PlaceInv, WireInv, NoUseAfterFree
<1>3. CASE sig_handler
  BY <1>3 DEF sig_handler, AfterFreeIp, memory, world, IInv, TypeOK, PlaceInv,
     WireInv, NoUseAfterFree
<1>4. QED
  BY <1>1, <1>2, <1>3

LEMMA ServerInv ==
  ASSUME IInv, ServerAnswers \/ ServerLost
  PROVE  IInv'
BY DEF ServerAnswers, ServerLost, Answers, memory, IInv, TypeOK, PlaceInv,
   WireInv, NoUseAfterFree

LEMMA NextInv == IInv /\ [Next]_vars => IInv'
<1>1. IInv /\ UNCHANGED vars => IInv'
  BY DEF vars, memory, world, IInv, TypeOK, PlaceInv, WireInv, NoUseAfterFree
<1>2. QED
  BY <1>1, ConnectionInv, CommandInv, CallInv, QuitInv, ServerInv DEF Next

\* Wherever the client is, its pointers, its socket and the connection are what
\* its next statement takes them for.
THEOREM Invariance == Spec => []IInv
BY InitInv, NextInv, PTL DEF Spec

\* Every variable holds a value of its type, and a live handle has a descriptor.
THEOREM TypeCorrect == Spec => []TypeOK
<1>1. IInv => TypeOK
  BY DEF IInv
<1>2. QED
  BY <1>1, Invariance, PTL

\* No call can read the answer of an earlier one (network_client.c closes the
\* socket after every failure).
THEOREM CallsStayInStep == Spec => []InStep
<1>1. IInv => InStep
  BY DEF IInv, WireInv, InStep
<1>2. QED
  BY <1>1, Invariance, PTL

\* The handle and the buffer are not used once they are freed, though SIGINT
\* may free them at any step.
THEOREM NothingFreedIsUsed == Spec => []NoUseAfterFree
<1>1. IInv => NoUseAfterFree
  BY DEF IInv
<1>2. QED
  BY <1>1, Invariance, PTL

=============================================================================
