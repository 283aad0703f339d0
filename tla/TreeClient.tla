------------------------------ MODULE TreeClient ------------------------------
(***************************************************************************)
(* The interactive client: the command loop of source/tree_client.c, the   *)
(* stub functions of source/client_stub.c and the connection of            *)
(* source/network_client.c, up to what can go wrong with them: the         *)
(* connection may fail at any step, SIGINT may come at any step, and a     *)
(* pointer that is NULL or freed may be used.                              *)
(*                                                                         *)
(* The text of a line, a key, a value or an answer does not matter here;   *)
(* what a request does on the server is in TreeSkel.                       *)
(***************************************************************************)
Lists    == {"getkeys", "getvalues"}
Commands == {"put", "get", "del", "size", "height", "verify"} \cup Lists
\* What the user may type; "usage" is a command without its arguments.
Lines    == Commands \cup {"quit", "usage", "unknown", "blank"}

\* What argv[1] may be like: missing, or with any of these defects.
Addresses == {{"missing"}} \cup SUBSET {"long", "colon", "portless"}

VARIABLES
  argv,     \* the defects of argv[1], the address
  pc,       \* where main is
  line,     \* linha: the line being executed
  rtree,    \* the handle of the connection
  linha,    \* the buffer of the line
  sock,     \* rtree->sockfd
  stdin,    \* what fgets has: more lines, the end of the file, no descriptor
  server,   \* whether the server's end of the connection lives
  wire      \* what travels on the connection

memory == <<argv, rtree, linha>>
world  == <<server, wire>>
vars   == <<argv, pc, line, rtree, linha, sock, stdin, server, wire>>

Init ==
  /\ argv \in Addresses
  /\ pc = "start"
  /\ line = "none"
  /\ rtree = "NULL"
  /\ linha = "NULL"
  /\ sock = "unset"
  /\ stdin = "lines"
  /\ server \in {"up", "down"}
  /\ wire = "none"

-----------------------------------------------------------------------------
(* Start and connection. *)

\* Without an argument main prints how it is called, and goes on to copy it.
StartWithoutAddress ==
  /\ pc = "start"
  /\ "missing" \in argv
  /\ pc' = "crashed"
  /\ UNCHANGED <<line, memory, sock, stdin, world>>

\* The address is copied into 50 bytes; the process may die of a longer one,
\* when linha is allocated behind it.
Start ==
  /\ pc = "start"
  /\ "missing" \notin argv
  /\ \/ linha' = "live" /\ pc' = "connect"
     \/ "long" \in argv /\ pc' = "crashed" /\ UNCHANGED linha
  /\ UNCHANGED <<argv, line, rtree, sock, stdin, world>>

Connected ==
  /\ pc = "connect"
  /\ "portless" \notin argv
  /\ server = "up"
  /\ rtree' = "live"
  /\ sock' = "open"
  /\ pc' = "prompt"
  /\ UNCHANGED <<argv, line, linha, stdin, world>>

\* rtree_disconnect frees rtree->ip, which is what strtok made of the address:
\* behind a leading ":" that is no pointer of malloc, and the process aborts.
AfterFreeIp(step) == pc' = IF "colon" \in argv THEN "crashed" ELSE step

ConnectFailsWith(handle) ==
  /\ pc = "connect"
  /\ "portless" \notin argv
  /\ rtree' = handle
  /\ stdin' \in {"lines", "closed"}
  /\ AfterFreeIp("prompt")
  /\ UNCHANGED <<argv, line, linha, sock, world>>

ConnectKeepsHandle   == ConnectFailsWith("freed")
ConnectIgnoresResult == ConnectFailsWith("live")

\* connect() fails: rtree_connect calls rtree_disconnect, which closes the
\* descriptor number that happens to be in rtree->sockfd (standard input, if
\* it is 0), frees rtree, and NULL is returned.
ConnectFails == ConnectFailsWith("NULL")

\* The address has no port: rtree_connect returns NULL at once.
BadAddress ==
  /\ pc = "connect"
  /\ "portless" \in argv
  /\ pc' = "prompt"
  /\ UNCHANGED <<line, memory, sock, stdin, world>>

-----------------------------------------------------------------------------
(* The stub. What each function comes to when it has no handle, when       *)
(* network_send_receive returns NULL, when the answer is of another kind   *)
(* (or cannot be unpacked), and when it is the answer it asked for.        *)

rtree_put        == [no_tree |-> "error", NULL |-> "crash",
                     other |-> "error", answer |-> "value"]
rtree_get        == [no_tree |-> "error", NULL |-> "crash",
                     other |-> "error", answer |-> "value"]
rtree_del        == [no_tree |-> "error", NULL |-> "error",
                     other |-> "error", answer |-> "value"]
rtree_size       == [no_tree |-> "error", NULL |-> "crash",
                     other |-> "error", answer |-> "value"]
rtree_height     == [no_tree |-> "error", NULL |-> "crash",
                     other |-> "error", answer |-> "value"]
rtree_get_keys   == [no_tree |-> "error", NULL |-> "error",
                     other |-> "error", answer |-> "value"]
rtree_get_values == [no_tree |-> "error", NULL |-> "crash",
                     other |-> "error", answer |-> "value"]
rtree_verify     == [no_tree |-> "error", NULL |-> "crash",
                     other |-> "error", answer |-> "value"]

Stub(cmd) ==
  [put |-> rtree_put, get |-> rtree_get, del |-> rtree_del,
   size |-> rtree_size, height |-> rtree_height, verify |-> rtree_verify,
   getkeys |-> rtree_get_keys, getvalues |-> rtree_get_values][cmd]

\* The stub comes back from a command and main prints what it returns, or that
\* there was an error; for the lists it looks into the array without a test
\* for NULL.
Return(cmd, response) ==
  LET v == Stub(cmd)[response] IN
  pc' = IF v = "crash" \/ (v = "error" /\ cmd \in Lists) THEN "crashed"
        ELSE "prompt"

-----------------------------------------------------------------------------
(* The command loop. At the end of the input it prints its prompt for ever *)
(* and reads nothing: no step.                                             *)

EndOfInput ==
  /\ pc = "prompt"
  /\ stdin = "lines"
  /\ stdin' = "end"
  /\ UNCHANGED <<pc, line, memory, sock, world>>

Typed(l) == pc = "prompt" /\ stdin = "lines" /\ line' = l

\* A line with a command: the stub begins.
Command ==
  /\ \E cmd \in Commands :
       /\ Typed(cmd)
       /\ \/ rtree = "live" /\ pc' = "send"
          \/ rtree = "NULL" /\ Return(cmd, "no_tree")
  /\ UNCHANGED <<memory, sock, stdin, world>>

\* A line that is no command; on a blank one strcmp is given NULL.
NoCommand ==
  /\ \E l \in {"usage", "unknown", "blank"} :
       /\ Typed(l)
       /\ pc' = IF l = "blank" THEN "crashed" ELSE "prompt"
  /\ UNCHANGED <<memory, sock, stdin, world>>

(* network_send_receive *)

Sent ==
  /\ pc = "send"
  /\ sock = "open"
  /\ wire' = IF server = "up" THEN "request" ELSE wire
  /\ pc' = "await"
  /\ UNCHANGED <<line, memory, sock, stdin, server>>

\* A send fails, at once or because the server is gone: the socket is closed
\* (whether it is still open or not) and NULL returned.
SendFails ==
  /\ pc = "send"
  /\ sock = "closed" \/ server = "down"
  /\ sock' = "closed"
  /\ Return(line, "NULL")
  /\ UNCHANGED <<line, memory, stdin, world>>

Answers == {"answer", "long", "error"}

\* An answer is read into 2048 bytes; a longer one runs over the end of the
\* buffer, and the process may die of it.
AnswerRead ==
  /\ pc = "await"
  /\ wire \in Answers
  /\ wire' = "none"
  /\ \/ Return(line, IF wire = "error" THEN "other" ELSE "answer")
     \/ wire = "long" /\ pc' = "crashed"
  /\ UNCHANGED <<line, memory, sock, stdin, server>>

AnswerFailsIf(lost, closed) ==
  /\ pc = "await"
  /\ lost
  /\ sock' = IF closed THEN "closed" ELSE sock
  /\ Return(line, "NULL")
  /\ UNCHANGED <<line, memory, stdin, world>>

NoAnswer           == server = "down" /\ wire \notin Answers
AnswerWaitsForever == AnswerFailsIf(FALSE, TRUE)
AnswerTimesOut     == AnswerFailsIf(NoAnswer \/ wire = "request", NoAnswer)

\* The stream ends, or fails, before the answer: the socket is closed.
AnswerFails == AnswerFailsIf(NoAnswer, TRUE)

(* quit *)

QuitClose ==
  /\ Typed("quit")
  /\ IF rtree = "live" THEN sock' = "closed" /\ pc' = "quit1"
     ELSE pc' = "crashed" /\ UNCHANGED sock
  /\ UNCHANGED <<memory, stdin, world>>

QuitFree ==
  /\ pc = "quit1"
  /\ linha' = "freed"
  /\ pc' = "quit2"
  /\ UNCHANGED <<argv, line, rtree, sock, stdin, world>>

\* rtree_disconnect closes again, to no effect, and frees the handle.
QuitDisconnect ==
  /\ pc = "quit2"
  /\ sock' = "closed"
  /\ rtree' = "freed"
  /\ AfterFreeIp("quit3")
  /\ UNCHANGED <<argv, line, linha, stdin, world>>

QuitReturn ==
  /\ pc = "quit3"
  /\ pc' = "ended"
  /\ UNCHANGED <<line, memory, sock, stdin, world>>

\* sig_handler disconnects and frees the buffer, whatever main is doing;
\* what is freed already is freed a second time, and the process aborts.
sig_handler ==
  /\ pc \notin {"start", "ended", "crashed"}
  /\ IF rtree = "freed" \/ linha = "freed" THEN pc' = "crashed"
     ELSE IF rtree = "live" THEN AfterFreeIp("ended") ELSE pc' = "ended"
  /\ UNCHANGED <<line, memory, sock, stdin, world>>

-----------------------------------------------------------------------------
(* The server, as the client sees it. *)

\* Only lists grow beyond the client's buffer (a line has 1000 characters), and
\* only a list may be answered with OP_ERROR (TreeSkel's ListFails).
ServerAnswers ==
  /\ server = "up"
  /\ wire = "request"
  /\ wire' \in IF line \in Lists THEN Answers ELSE {"answer"}
  /\ UNCHANGED <<pc, line, memory, sock, stdin, server>>

\* The server ends or the connection breaks; what was on its way may be lost.
ServerLost ==
  /\ server = "up"
  /\ server' = "down"
  /\ wire' \in {wire, "none"}
  /\ UNCHANGED <<pc, line, memory, sock, stdin>>

-----------------------------------------------------------------------------

network_send_receive == Sent \/ SendFails \/ AnswerRead \/ AnswerFails

Next ==
  \/ StartWithoutAddress \/ Start \/ Connected \/ ConnectFails \/ BadAddress
  \/ EndOfInput \/ Command \/ NoCommand \/ network_send_receive
  \/ QuitClose \/ QuitFree \/ QuitDisconnect \/ QuitReturn \/ sig_handler
  \/ ServerAnswers \/ ServerLost

Spec == Init /\ [][Next]_vars

\* The client is scheduled.  Nothing is asked of the server: one that lives may
\* never accept the client (clients_refused, a run of NetworkServer).
FairSpec == Spec /\ WF_vars(network_send_receive)

-----------------------------------------------------------------------------
(* What the client keeps true. *)

\* Every variable holds a value of its type, and a handle that commands use
\* has its descriptor.
TypeOK ==
  /\ argv \in Addresses
  /\ pc \in {"start", "connect", "prompt", "send", "await", "quit1", "quit2",
             "quit3", "ended", "crashed"}
  /\ line \in Lines \cup {"none"}
  /\ rtree \in {"NULL", "live", "freed"} /\ linha \in {"NULL", "live", "freed"}
  /\ sock \in {"unset", "open", "closed"}
  /\ rtree = "live" => sock # "unset"
  /\ stdin \in {"lines", "end", "closed"}
  /\ server \in {"up", "down"}
  /\ wire \in {"none", "request"} \cup Answers

\* The calls and answers stay in step: nothing is on the connection when a
\* command begins, so that no call reads the answer of an earlier one.  The
\* code owes it to closing the socket after every failure.
InStep == pc = "send" /\ sock = "open" => wire = "none"

\* A freed handle or buffer is never used by the command loop, after a
\* connection that failed or in quit.
NoUseAfterFree ==
  /\ rtree = "freed" => pc \in {"quit3", "ended", "crashed"}
  /\ linha = "freed" => pc \in {"quit2", "quit3", "ended", "crashed"}

\* No call outlives its answer or its connection: once the answer is there, or
\* the server's end is gone, before or after the request was sent, the stub
\* returns or dies.  (With neither it waits, there is no timeout.)
CallReturns ==
  pc \in {"send", "await"} /\ (server = "down" \/ wire \in Answers) ~>
    pc \notin {"send", "await"}

=============================================================================
