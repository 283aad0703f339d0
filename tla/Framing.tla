------------------------------- MODULE Framing -------------------------------
(***************************************************************************)
(* How requests and answers cross one connection: recv_all and send_all of *)
(* source/message-private.c, called by network_send_receive at the client  *)
(* and by network_receive and network_send at the server.  A message is    *)
(* its length, as an integer of LenBytes bytes, then its bytes.  read()    *)
(* and write() move as many bytes as they like, at least one, and write()  *)
(* waits while the kernel's buffer is full.                                *)
(*                                                                         *)
(* NetworkServer and TreeClient take a whole message for one step.         *)
(***************************************************************************)
EXTENDS Integers, SequencesExt

CONSTANTS
  Lengths,   \* the lengths of the packed messages; a message is its length
  LenBytes,  \* sizeof(unsigned)
  Cap,       \* how many bytes the kernel keeps for each direction
  Nothing    \* no message

ASSUME FramingAssumption ==
  /\ Lengths \subseteq Nat \ {0}
  /\ {LenBytes, Cap} \subseteq Nat \ {0}
  /\ Nothing \notin Lengths

Ends == {"client", "server"}
Other(e) == IF e = "client" THEN "server" ELSE "client"

VARIABLES
  pc,     \* where each end is
  len,    \* len of the recv_all or send_all under way: the bytes missing
  buf,    \* what the recv_all under way has read
  size,   \* the length that was read before the body
  said,   \* the message each end sends, or sent last
  got,    \* the message each end unpacked last
  open,   \* the ends whose socket is open
  wire,   \* kernel: the bytes of each end the other has not read
  stage   \* history: how far the call is

vars == <<pc, len, buf, size, said, got, open, wire, stage>>

\* The bytes of the length and of the body of message m, each a distinct one.
PieceSize(part, m) == IF part = "length" THEN LenBytes ELSE m
Bytes(part, m) == [i \in 1 .. PieceSize(part, m) |-> <<part, m, i>>]

\* ntohl and message_t__unpack on what was read; bytes that are not the piece
\* the other end packed may be taken for anything.
Exact(part, b) == {m \in Lengths : b = Bytes(part, m)}

Decoded(part, b) ==
  IF Exact(part, b) # {} THEN Exact(part, b) ELSE Lengths \cup {Nothing}

Init ==
  /\ pc = [e \in Ends |-> IF e = "client" THEN "idle" ELSE "poll"]
  /\ len = [e \in Ends |-> 0]
  /\ buf = [e \in Ends |-> <<>>]
  /\ size = [e \in Ends |-> Nothing]
  /\ said = [e \in Ends |-> Nothing]
  /\ got = [e \in Ends |-> Nothing]
  /\ open = Ends
  /\ wire = [e \in Ends |-> <<>>]
  /\ stage = "idle"

-----------------------------------------------------------------------------
(* send_all. *)

\* A message is packed and its length goes first: the client calls, the
\* server answers the request it was serving.
StartSend(e, from, to) ==
  /\ e \in open /\ pc[e] = from
  /\ \E m \in Lengths : said' = [said EXCEPT ![e] = m]
  /\ pc' = [pc EXCEPT ![e] = "send_length"]
  /\ len' = [len EXCEPT ![e] = LenBytes]
  /\ stage' = to
  /\ UNCHANGED <<buf, size, got, open, wire>>

Call == StartSend("client", "idle", "asked")
Answer == StartSend("server", "invoke", "answered")

Written(e, part, n) ==
  SubSeq(Bytes(part, said[e]), PieceSize(part, said[e]) - len[e] + 1,
         PieceSize(part, said[e]) - len[e] + n)

\* The client then reads the answer, the server polls.
AfterSend(e) == IF e = "client" THEN "length" ELSE "poll"

\* One write() of n bytes; what is written to a closed connection is lost.
WriteThen(e, part, n, left) ==
  /\ e \in open /\ pc[e] = IF part = "length" THEN "send_length" ELSE "send_body"
  /\ n \in 1 .. len[e]
  /\ Len(wire[e]) + n <= Cap
  /\ wire' = [wire EXCEPT ![e] =
       IF Other(e) \in open THEN @ \o Written(e, part, n) ELSE @]
  /\ \/ /\ left > 0
        /\ len' = [len EXCEPT ![e] = left]
        /\ UNCHANGED pc
     \/ /\ left = 0 /\ part = "length"
        /\ pc' = [pc EXCEPT ![e] = "send_body"]
        /\ len' = [len EXCEPT ![e] = said[e]]
     \/ /\ left = 0 /\ part = "body"
        /\ pc' = [pc EXCEPT ![e] = AfterSend(e)]
        /\ len' = [len EXCEPT ![e] = IF e = "client" THEN LenBytes ELSE 0]
  /\ UNCHANGED <<buf, size, said, got, open, stage>>

WriteOnce(e, part, n) == WriteThen(e, part, n, 0)

Write(e, part, n) == WriteThen(e, part, n, len[e] - n)

-----------------------------------------------------------------------------
(* recv_all. *)

\* poll() has seen bytes, or the end of the stream.
Poll ==
  /\ "server" \in open /\ pc["server"] = "poll"
  /\ wire["client"] # <<>> \/ "client" \notin open
  /\ pc' = [pc EXCEPT !["server"] = "length"]
  /\ len' = [len EXCEPT !["server"] = LenBytes]
  /\ UNCHANGED <<buf, size, said, got, open, wire, stage>>

\* The piece is complete: the length says how many bytes to read for the body,
\* the body is unpacked.
Complete(e, part, piece) ==
  \E m \in Decoded(part, piece) :
    /\ buf' = [buf EXCEPT ![e] = <<>>]
    /\ \/ /\ part = "length"
          /\ pc' = [pc EXCEPT ![e] = "body"]
          /\ size' = [size EXCEPT ![e] = m]
          /\ len' = [len EXCEPT ![e] = IF m = Nothing THEN 1 ELSE m]
          /\ UNCHANGED <<got, stage>>
       \/ /\ part = "body"
          /\ pc' = [pc EXCEPT ![e] = IF e = "client" THEN "idle" ELSE "invoke"]
          /\ got' = [got EXCEPT ![e] = m]
          /\ len' = [len EXCEPT ![e] = 0]
          /\ stage' = IF e = "client" THEN "idle" ELSE "served"
          /\ UNCHANGED size

\* One read() of n bytes, of at most limit.
ReadUpTo(e, part, n, limit, left) ==
  /\ e \in open /\ pc[e] = part
  /\ n \in 1 .. limit
  /\ n <= Len(wire[Other(e)])
  /\ wire' = [wire EXCEPT ![Other(e)] = SubSeq(@, n + 1, Len(@))]
  /\ LET piece == buf[e] \o SubSeq(wire[Other(e)], 1, n) IN
       \/ /\ left > 0
          /\ buf' = [buf EXCEPT ![e] = piece]
          /\ len' = [len EXCEPT ![e] = left]
          /\ UNCHANGED <<pc, size, got, stage>>
       \/ left = 0 /\ Complete(e, part, piece)
  /\ UNCHANGED <<said, open>>

ReadOnce(e, part, n) == ReadUpTo(e, part, n, len[e], 0)

ReadWholeBuffer(e, part, n) ==
  ReadUpTo(e, part, n, len[e] + Len(buf[e]), IF n >= len[e] THEN 0 ELSE len[e] - n)

Read(e, part, n) == ReadUpTo(e, part, n, len[e], len[e] - n)

-----------------------------------------------------------------------------
(* What can fail. *)

\* An end closes its socket, or its process ends.  Of what it sent the other
\* end may still read some.
CloseKeeping(e, n) ==
  /\ open' = open \ {e}
  /\ wire' = [wire EXCEPT ![e] = SubSeq(@, 1, n), ![Other(e)] = <<>>]
  /\ UNCHANGED <<pc, len, buf, size, said, got, stage>>

Close(e) == e \in open /\ \E n \in 0 .. Len(wire[e]) : CloseKeeping(e, n)

AtEnd(e) == Other(e) \notin open /\ wire[Other(e)] = <<>>

\* read() answers 0 or an error: both ends then close.
ReadFails(e) ==
  /\ e \in open /\ pc[e] \in {"length", "body"} /\ AtEnd(e)
  /\ CloseKeeping(e, 0)

\* write() answers an error: the client closes, the server goes on to poll().
WriteFails(e) ==
  /\ e \in open /\ pc[e] \in {"send_length", "send_body"} /\ Other(e) \notin open
  /\ \/ e = "client" /\ CloseKeeping(e, 0)
     \/ /\ e = "server"
        /\ pc' = [pc EXCEPT ![e] = "poll"]
        /\ len' = [len EXCEPT ![e] = 0]
        /\ UNCHANGED <<buf, size, said, got, open, wire, stage>>

-----------------------------------------------------------------------------

\* What an end does by itself once a call has begun.
Goes(e) ==
  \/ \E part \in {"length", "body"} :
       \E n \in 1 .. Cap : Write(e, part, n) \/ Read(e, part, n)
  \/ ReadFails(e) \/ WriteFails(e)

Next ==
  \/ Call \/ Answer \/ Poll
  \/ \E e \in Ends : Goes(e) \/ Close(e)

Spec == Init /\ [][Next]_vars

\* Both programs are scheduled, and invoke() returns.
FairSpec ==
  /\ Spec
  /\ WF_vars(Goes("client"))
  /\ WF_vars(Goes("server"))
  /\ WF_vars(Poll)
  /\ WF_vars(Answer)

-----------------------------------------------------------------------------
(* What the two ends may rely on. *)

\* Whatever read() and write() move at a time, what an end has read of a
\* message and what it has yet to read is a part of the message the other end
\* sent, from its first byte on: recv_all never eats into the next piece, and
\* no byte of an earlier call is left (message-private.c:21, :45).
NothingSkipped ==
  \A e \in Ends :
    LET whole == Bytes("length", said[Other(e)]) \o Bytes("body", said[Other(e)])
        read  == IF pc[e] = "body" THEN Bytes("length", size[e]) \o buf[e]
                 ELSE buf[e]
    IN  e \in open /\ pc[e] \in {"length", "body"} /\ wire[Other(e)] # <<>> =>
          IsPrefix(read \o wire[Other(e)], whole)

\* There are never bytes under way in both directions, so the two ends cannot
\* wait for each other with both buffers full (neither sets a socket to
\* non-blocking, nor reads while it writes).
HalfDuplex ==
  open = Ends => wire["client"] = <<>> \/ wire["server"] = <<>>

\* A call of the client comes to its end although messages are larger than the
\* kernel's buffers: with the answer, or with the connection closed.
CallEnds ==
  pc["client"] # "idle" ~> pc["client"] = "idle" \/ "client" \notin open

\* A whole message, once, in each direction: Exchange.
Abstract == INSTANCE Exchange WITH Payloads <- Lengths, up <- open
WholeMessages == Abstract!Spec

=============================================================================
