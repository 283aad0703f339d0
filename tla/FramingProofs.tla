---------------------------- MODULE FramingProofs ----------------------------
(***************************************************************************)
(* Proofs about Framing, for any messages, any size of the length, and     *)
(* kernel buffers of any size: the bytes an end has read of a message,     *)
(* those under way and those still to be written are always that message,  *)
(* in order; bytes are under way in one direction only; and the two loops  *)
(* implement Exchange.                                                     *)
(***************************************************************************)
EXTENDS Framing, TLAPS

-----------------------------------------------------------------------------
(* The inductive invariant. *)

Sending == {"send_length", "send_body"}
Reading == {"length", "body"}

ByteSet == Reading \X Lengths \X Nat

TypeInv ==
  /\ pc \in [Ends -> Sending \cup Reading \cup {"idle", "poll", "invoke"}]
  /\ len \in [Ends -> Nat]
  /\ buf \in [Ends -> Seq(ByteSet)]
  /\ size \in [Ends -> Lengths \cup {Nothing}]
  /\ said \in [Ends -> Lengths \cup {Nothing}]
  /\ got \in [Ends -> Lengths \cup {Nothing}]
  /\ open \subseteq Ends
  /\ wire \in [Ends -> Seq(ByteSet)]

\* The k-th byte of message m, and: s holds the bytes of m after the first k.
Byte(m, k) == IF k <= LenBytes THEN <<"length", m, k>>
              ELSE <<"body", m, k - LenBytes>>

Carries(s, m, k) == \A i \in 1 .. Len(s) : s[i] = Byte(m, k + i)

\* How many bytes of its message e has written, and how many of the message
\* of the other end r has read; and those before the piece it reads.
Given(e) == IF pc[e] = "send_length" THEN LenBytes - len[e]
            ELSE IF pc[e] = "send_body" THEN LenBytes + said[e] - len[e]
            ELSE LenBytes + said[e]

Before(part) == IF part = "body" THEN LenBytes ELSE 0

Taken(r) == IF pc[r] \in Reading THEN Before(pc[r]) + Len(buf[r]) ELSE 0

\* The message of e goes to r: what r has read of the piece, and the wire.
PieceInv(e, r) ==
  /\ IF pc[r] \in Reading
     THEN len[r] > 0 /\ len[r] + Len(buf[r]) = PieceSize(pc[r], said[e])
     ELSE buf[r] = <<>>
  /\ Carries(buf[r], said[e], Before(pc[r]))
  /\ pc[r] = "body" => size[r] = said[e]

WireInv(e, r) ==
  /\ Carries(wire[e], said[e], Taken(r))
  /\ Len(wire[e]) <= Given(e) - Taken(r)
  /\ open = Ends => Len(wire[e]) = Given(e) - Taken(r)
  /\ r \notin open => wire[e] = <<>>

FlowInv(e, r) ==
  /\ said[e] \in Lengths
  /\ pc[e] = "send_length" => len[e] \in 1 .. LenBytes
  /\ pc[e] = "send_body" => len[e] \in 1 .. said[e]
  /\ PieceInv(e, r)
  /\ WireInv(e, r)

\* Nothing goes from e to r.
Quiet(e, r) == wire[e] = <<>> /\ buf[r] = <<>>

\* An end that starts to read; the server does so outside a request only when
\* it has seen the end of the stream.
AtStart(r) == pc[r] = "length" => len[r] = LenBytes

Drained == AtStart("server") /\ (pc["server"] = "length" => "client" \notin open)

StageInv ==
  \/ /\ stage = "idle"
     /\ pc["client"] = "idle" /\ pc["server"] \in {"poll", "length"}
     /\ Drained
     /\ Quiet("client", "server") /\ Quiet("server", "client")
  \/ /\ stage = "asked"
     /\ pc["client"] \in Sending \cup {"length"} /\ pc["server"] \in Reading \cup {"poll"}
     /\ AtStart("client")
     /\ FlowInv("client", "server") /\ Quiet("server", "client")
  \/ /\ stage = "served"
     /\ pc["client"] = "length" /\ pc["server"] = "invoke"
     /\ AtStart("client")
     /\ Quiet("client", "server") /\ Quiet("server", "client")
  \/ /\ stage = "answered"
     /\ pc["client"] \in Reading /\ pc["server"] \in Sending \cup {"poll", "length"}
     /\ Drained
     /\ FlowInv("server", "client") /\ Quiet("client", "server")

IInv == TypeInv /\ StageInv

-----------------------------------------------------------------------------
(* Sequences of bytes. *)

\* The other end of each, and what lengths and sizes are.
LEMMA EndsFacts ==
  /\ Other("client") = "server" /\ Other("server") = "client"
  /\ \A e \in Ends : Other(e) \in Ends /\ Other(e) # e /\ Other(Other(e)) = e
                     /\ Ends = {e, Other(e)}
  /\ \A m \in Lengths : m \in Nat /\ m > 0 /\ m # Nothing
  /\ LenBytes \in Nat /\ LenBytes > 0
  /\ \A part : Before(part) \in Nat
  /\ \A m \in Lengths, part \in Reading : PieceSize(part, m) \in Nat \ {0}
BY FramingAssumption DEF Ends, Other, PieceSize, Before, Reading

\* n elements of a sequence, from one in the middle on.
LEMMA Middle ==
  ASSUME NEW S, NEW s \in Seq(S), NEW a \in Nat, NEW n \in Nat, a + n <= Len(s)
  PROVE  /\ SubSeq(s, a + 1, a + n) \in Seq(S)
         /\ Len(SubSeq(s, a + 1, a + n)) = n
         /\ \A i \in 1 .. n : SubSeq(s, a + 1, a + n)[i] = s[a + i]
<1>1. Len(s) \in Nat
  OBVIOUS
<1>2. Len(SubSeq(s, a + 1, a + n)) = n
  BY <1>1
<1>3. \A i \in 1 .. n : SubSeq(s, a + 1, a + n)[i] = s[a + i]
  BY <1>1
<1>4. \A i \in 1 .. n : SubSeq(s, a + 1, a + n)[i] \in S
  BY <1>1, <1>3
<1>5. SubSeq(s, a + 1, a + n) = [i \in 1 .. n |-> SubSeq(s, a + 1, a + n)[i]]
  BY <1>1, <1>2
<1>6. SubSeq(s, a + 1, a + n) \in Seq(S)
  BY <1>4, <1>5
<1>7. QED
  BY <1>2, <1>3, <1>6

\* The bytes written last, after those before them.
LEMMA CarriesBoth ==
  ASSUME NEW s \in Seq(ByteSet), NEW t \in Seq(ByteSet), NEW m, NEW k \in Nat,
         Carries(s, m, k), Carries(t, m, k + Len(s))
  PROVE  /\ s \o t \in Seq(ByteSet)
         /\ Len(s \o t) = Len(s) + Len(t)
         /\ Carries(s \o t, m, k)
<1>1. s \o t \in Seq(ByteSet) /\ Len(s \o t) = Len(s) + Len(t)
  OBVIOUS
<1>2. ASSUME NEW i \in 1 .. Len(s \o t)
      PROVE  (s \o t)[i] = Byte(m, k + i)
  <2>1. CASE i <= Len(s)
    <3>1. (s \o t)[i] = s[i] /\ i \in 1 .. Len(s)
      BY <1>1, <2>1
    <3>2. QED
      BY <3>1 DEF Carries
  <2>2. CASE i > Len(s)
    <3>1. (s \o t)[i] = t[i - Len(s)] /\ i - Len(s) \in 1 .. Len(t)
      BY <1>1, <2>2
    <3>2. t[i - Len(s)] = Byte(m, (k + Len(s)) + (i - Len(s)))
      BY <3>1 DEF Carries
    <3>3. (k + Len(s)) + (i - Len(s)) = k + i
      BY <1>1
    <3>4. QED
      BY <3>1, <3>2, <3>3
  <2>3. QED
    BY <2>1, <2>2, <1>1
<1>3. QED
  BY <1>1, <1>2 DEF Carries

\* The bytes read first, and those that are left.
LEMMA CarriesParts ==
  ASSUME NEW s \in Seq(ByteSet), NEW m, NEW k \in Nat, NEW n \in 0 .. Len(s),
         Carries(s, m, k)
  PROVE  /\ SubSeq(s, 1, n) \in Seq(ByteSet)
         /\ Len(SubSeq(s, 1, n)) = n
         /\ Carries(SubSeq(s, 1, n), m, k)
         /\ SubSeq(s, n + 1, Len(s)) \in Seq(ByteSet)
         /\ Len(SubSeq(s, n + 1, Len(s))) = Len(s) - n
         /\ Carries(SubSeq(s, n + 1, Len(s)), m, k + n)
<1> DEFINE first == SubSeq(s, 1, n)
           rest  == SubSeq(s, n + 1, Len(s))
<1>1. first \in Seq(ByteSet) /\ Len(first) = n /\ \A i \in 1 .. n : first[i] = s[i]
  OBVIOUS
<1>2. /\ rest \in Seq(ByteSet) /\ Len(rest) = Len(s) - n
      /\ \A i \in 1 .. Len(s) - n : rest[i] = s[n + i]
  OBVIOUS
<1>3. Carries(first, m, k)
  BY <1>1 DEF Carries
<1>4. ASSUME NEW i \in 1 .. Len(rest)
      PROVE  rest[i] = Byte(m, (k + n) + i)
  <2>1. n + i \in 1 .. Len(s) /\ rest[i] = s[n + i] /\ k + (n + i) = (k + n) + i
    BY <1>2
  <2>2. s[n + i] = Byte(m, k + (n + i))
    BY <2>1 DEF Carries
  <2>3. QED
    BY <2>1, <2>2
<1>5. QED
  BY <1>1, <1>2, <1>3, <1>4 DEF Carries

\* A piece packed: its bytes follow those of the piece before.
LEMMA BytesCarry ==
  ASSUME NEW m \in Lengths, NEW part \in Reading
  PROVE  /\ Bytes(part, m) \in Seq(ByteSet)
         /\ Len(Bytes(part, m)) = PieceSize(part, m)
         /\ Carries(Bytes(part, m), m, Before(part))
<1>1. PieceSize(part, m) \in Nat
  BY EndsFacts
<1>2. \A i \in 1 .. PieceSize(part, m) : <<part, m, i>> \in ByteSet
  BY DEF ByteSet
<1>3. Bytes(part, m) \in Seq(ByteSet) /\ Len(Bytes(part, m)) = PieceSize(part, m)
  BY <1>1, <1>2 DEF Bytes
<1>4. ASSUME NEW i \in 1 .. PieceSize(part, m)
      PROVE  Bytes(part, m)[i] = Byte(m, Before(part) + i)
  BY <1>1, EndsFacts DEF Bytes, Byte, Before, PieceSize, Reading
<1>5. QED
  BY <1>3, <1>4 DEF Carries

\* Whoever has read a whole piece has read the piece that was packed, and no
\* other message has it.
LEMMA WholePiece ==
  ASSUME NEW m \in Lengths, NEW part \in Reading, NEW s \in Seq(ByteSet),
         Len(s) = PieceSize(part, m), Carries(s, m, Before(part))
  PROVE  Decoded(part, s) = {m}
<1>1. /\ Bytes(part, m) \in Seq(ByteSet)
      /\ Len(Bytes(part, m)) = PieceSize(part, m)
      /\ Carries(Bytes(part, m), m, Before(part))
  BY BytesCarry
<1>2. s = Bytes(part, m)
  <2>1. \A i \in 1 .. Len(s) : s[i] = Bytes(part, m)[i]
    BY <1>1 DEF Carries
  <2>2. QED
    BY <2>1, <1>1
<1>3. ASSUME NEW o \in Lengths, s = Bytes(part, o)
      PROVE  o = m
  <2>1. 1 \in 1 .. PieceSize(part, m) /\ 1 \in 1 .. PieceSize(part, o)
    BY EndsFacts
  <2>2. Bytes(part, m)[1] = <<part, m, 1>> /\ Bytes(part, o)[1] = <<part, o, 1>>
    BY <2>1 DEF Bytes
  <2>3. <<part, m, 1>> = <<part, o, 1>>
    BY <2>2, <1>2, <1>3
  <2>4. QED
    BY <2>3
<1>4. Exact(part, s) = {m}
  BY <1>2, <1>3 DEF Exact
<1>5. QED
  BY <1>4 DEF Decoded

-----------------------------------------------------------------------------
(* A write() and a read() of the message that goes from e to r. *)

\* What write() hands the kernel continues the message.
LEMMA WrittenCarries ==
  ASSUME NEW e \in Ends, NEW part \in Reading, said[e] \in Lengths,
         len[e] \in 1 .. PieceSize(part, said[e]), NEW n \in 1 .. len[e]
  PROVE  /\ Written(e, part, n) \in Seq(ByteSet)
         /\ Len(Written(e, part, n)) = n
         /\ Carries(Written(e, part, n), said[e],
                    Before(part) + PieceSize(part, said[e]) - len[e])
<1> DEFINE m == said[e]
           p == PieceSize(part, m)
           b == Bytes(part, m)
           w == SubSeq(b, p - len[e] + 1, p - len[e] + n)
<1>1. p \in Nat /\ len[e] \in Nat /\ n \in Nat /\ n <= len[e] /\ len[e] <= p
  BY EndsFacts
<1>2. b \in Seq(ByteSet) /\ Len(b) = p /\ Carries(b, m, Before(part))
  BY BytesCarry
<1> HIDE DEF b, p
<1>3. /\ w \in Seq(ByteSet) /\ Len(w) = n
      /\ \A i \in 1 .. n : w[i] = b[p - len[e] + i]
  <2>1. PICK a \in Nat : a = p - len[e] /\ a + n <= Len(b)
    BY <1>1, <1>2
  <2>2. /\ SubSeq(b, a + 1, a + n) \in Seq(ByteSet)
        /\ Len(SubSeq(b, a + 1, a + n)) = n
        /\ \A i \in 1 .. n : SubSeq(b, a + 1, a + n)[i] = b[a + i]
    <3>1. b \in Seq(ByteSet) /\ a \in Nat /\ n \in Nat /\ a + n <= Len(b)
      BY <1>1, <1>2, <2>1
    <3>2. QED
      BY <3>1, Middle
  <2>3. QED
    BY <2>1, <2>2
<1>4. Before(part) \in Nat
  BY EndsFacts DEF Before
<1>5. ASSUME NEW i \in 1 .. n
      PROVE  w[i] = Byte(m, Before(part) + p - len[e] + i)
  <2>1. p - len[e] + i \in 1 .. Len(b)
    BY <1>1, <1>2 DEF p
  <2>2. b[p - len[e] + i] = Byte(m, Before(part) + (p - len[e] + i))
    BY <1>2, <2>1 DEF Carries
  <2>3. Before(part) + (p - len[e] + i) = Before(part) + p - len[e] + i
    BY <1>1, <1>4
  <2>4. QED
    BY <1>3, <2>2, <2>3
<1>6. Written(e, part, n) = w
  BY DEF Written, b, p
<1>7. QED
  BY <1>3, <1>5, <1>6 DEF Carries, p

\* A write() keeps what is read, under way and unwritten the message.
LEMMA WriteFlow ==
  ASSUME TypeInv, NEW e \in Ends, NEW r, r = Other(e), FlowInv(e, r),
         NEW part \in Reading, NEW n \in Nat, Write(e, part, n)
  PROVE  FlowInv(e, r)' /\ TypeInv'
<1> DEFINE m == said[e]
           p == PieceSize(part, m)
<1>1. /\ m \in Lengths /\ m \in Nat /\ m > 0 /\ LenBytes \in Nat /\ LenBytes > 0
      /\ r \in Ends /\ r # e /\ Other(e) = r
      /\ pc \in [Ends -> Sending \cup Reading \cup {"idle", "poll", "invoke"}]
      /\ len \in [Ends -> Nat] /\ wire \in [Ends -> Seq(ByteSet)]
      /\ buf[r] \in Seq(ByteSet) /\ Len(buf[r]) \in Nat
      /\ open \subseteq Ends /\ Ends = {e, r}
  BY EndsFacts DEF FlowInv, TypeInv
<1>2. /\ pc[e] = IF part = "length" THEN "send_length" ELSE "send_body"
      /\ e \in open /\ n \in 1 .. len[e]
      /\ UNCHANGED <<buf, size, said, got, open, stage>>
      /\ wire' = [wire EXCEPT ![e] =
           IF r \in open THEN @ \o Written(e, part, n) ELSE @]
  BY <1>1 DEF Write, WriteThen
<1>3. len[e] \in 1 .. p
  BY <1>2 DEF FlowInv, PieceSize, Reading
<1>4. Given(e) = Before(part) + p - len[e]
  BY <1>1, <1>2 DEF Given, Before, PieceSize, Reading
<1>5. /\ pc' \in [Ends -> Sending \cup Reading \cup {"idle", "poll", "invoke"}]
      /\ len' \in [Ends -> Nat] /\ pc'[r] = pc[r] /\ len'[r] = len[r]
  <2>1. PICK q \in Sending \cup Reading \cup {"idle", "poll", "invoke"} :
          pc' = [pc EXCEPT ![e] = q]
    <3>1. CASE len[e] - n > 0
      BY <3>1, <1>1, <1>2 DEF Write, WriteThen
    <3>2. CASE len[e] = n /\ part = "length"
      BY <3>2, <1>1, <1>2 DEF Write, WriteThen, Sending
    <3>3. CASE len[e] = n /\ part = "body"
      BY <3>3, <1>1, <1>2 DEF Write, WriteThen, AfterSend, Reading
    <3>4. len[e] - n > 0 \/ (len[e] = n /\ part = "length") \/ (len[e] = n /\ part = "body")
      <4>1. len[e] \in Nat /\ n <= len[e]
        BY <1>1, <1>2
      <4>2. QED
        BY <4>1 DEF Reading
    <3>5. QED
      BY <3>1, <3>2, <3>3, <3>4
  <2>2. PICK l \in Nat : len' = [len EXCEPT ![e] = l]
    BY <1>1, <1>2 DEF Write, WriteThen
  <2>3. QED
    BY <1>1, <2>1, <2>2
<1>6. /\ Given(e)' = Given(e) + n
      /\ pc'[e] = "send_length" => len'[e] \in 1 .. LenBytes
      /\ pc'[e] = "send_body" => len'[e] \in 1 .. m
  <2>1. CASE len[e] - n > 0
    <3>1. pc'[e] = pc[e] /\ len'[e] = len[e] - n /\ said' = said
      BY <2>1, <1>1, <1>2 DEF Write, WriteThen
    <3>2. len[e] \in Nat /\ len[e] - n \in 1 .. len[e] /\ len[e] <= p
      BY <2>1, <1>1, <1>2, <1>3, EndsFacts
    <3>3. p = IF part = "length" THEN LenBytes ELSE m
      BY DEF PieceSize
    <3>4. m \in Nat /\ LenBytes \in Nat
      BY <1>1
    <3>5. pc[e] = IF part = "length" THEN "send_length" ELSE "send_body"
      BY <1>2
    <3> HIDE DEF p
    <3>6. QED
      BY <3>1, <3>2, <3>3, <3>4, <3>5 DEF Given
  <2>2. CASE len[e] = n /\ part = "length"
    <3>1. pc'[e] = "send_body" /\ len'[e] = m
      BY <2>2, <1>1, <1>2 DEF Write, WriteThen
    <3>2. QED
      BY <3>1, <2>2, <1>1, <1>2, <1>3 DEF Given, PieceSize
  <2>3. CASE len[e] = n /\ part = "body"
    <3>1. pc'[e] \in {"length", "poll"}
      BY <2>3, <1>1, <1>2 DEF Write, WriteThen, AfterSend
    <3>2. QED
      BY <3>1, <2>3, <1>1, <1>2, <1>3 DEF Given, PieceSize
  <2>4. QED
    BY <2>1, <2>2, <2>3, <1>1, <1>2 DEF Reading
<1>7. Taken(r)' = Taken(r) /\ Taken(r) \in Nat
  <2>1. buf' = buf /\ pc'[r] = pc[r]
    BY <1>2, <1>5
  <2>2. Before(pc[r]) \in Nat
    BY <1>1 DEF Before
  <2>3. QED
    BY <1>1, <2>1, <2>2 DEF Taken, Before
<1>8. PieceInv(e, r)'
  BY <1>1, <1>2, <1>5 DEF FlowInv, PieceInv, Carries
<1>9. WireInv(e, r)' /\ wire' \in [Ends -> Seq(ByteSet)]
  <2>1. CASE r \notin open
    <3>1. wire' = wire
      BY <2>1, <1>1, <1>2
    <3>2. QED
      BY <3>1, <2>1, <1>1, <1>2, <1>3, <1>4, <1>6, <1>7, EndsFacts
         DEF FlowInv, WireInv, Carries, Before
  <2>2. CASE r \in open
    <3> DEFINE w == Written(e, part, n)
    <3>1. open = Ends
      BY <2>2, <1>1, <1>2
    <3>2. /\ w \in Seq(ByteSet) /\ Len(w) = n
          /\ Carries(w, m, Given(e))
      BY <1>1, <1>2, <1>3, <1>4, WrittenCarries
    <3>3. /\ wire[e] \in Seq(ByteSet) /\ Carries(wire[e], m, Taken(r))
          /\ Len(wire[e]) = Given(e) - Taken(r)
      BY <3>1, <1>1 DEF FlowInv, WireInv
    <3>4. Taken(r) + Len(wire[e]) = Given(e)
      BY <3>3, <1>7, <1>4, <1>1, <1>3, EndsFacts DEF Before
    <3>5. /\ wire[e] \o w \in Seq(ByteSet) /\ Len(wire[e] \o w) = Len(wire[e]) + n
          /\ Carries(wire[e] \o w, m, Taken(r))
      <4> HIDE DEF w, m
      <4>1. Carries(w, m, Taken(r) + Len(wire[e]))
        BY <3>2, <3>4
      <4>2. QED
        BY <4>1, <3>2, <3>3, <1>7, CarriesBoth
    <3>6. wire' = [wire EXCEPT ![e] = wire[e] \o w]
      BY <2>2, <1>2
    <3> HIDE DEF w
    <3>7. wire' \in [Ends -> Seq(ByteSet)] /\ wire'[e] = wire[e] \o w
      BY <3>5, <3>6, <1>1
    <3>8. Carries(wire'[e], said'[e], Taken(r)')
      BY <3>7, <3>5, <1>2, <1>7
    <3>9. Len(wire'[e]) = Given(e)' - Taken(r)'
      <4>1. Len(wire'[e]) = Len(wire[e]) + n
        BY <3>5, <3>7
      <4>2. Given(e) \in Int
        BY <3>4, <3>3, <1>7
      <4>3. QED
        BY <4>1, <4>2, <3>3, <1>6, <1>7
    <3>10. QED
      BY <3>7, <3>8, <3>9, <2>2, <1>2 DEF WireInv, Carries
  <2>3. QED
    BY <2>1, <2>2
<1>10. TypeInv'
  BY <1>2, <1>5, <1>9 DEF TypeInv
<1>11. QED
  BY <1>1, <1>2, <1>6, <1>8, <1>9, <1>10 DEF FlowInv

\* What a read() of n bytes takes continues the piece, what it leaves on the
\* wire continues that, and no byte is read before it is written.
AfterRead(e, r, part, n, piece) ==
  /\ r \in open /\ pc[r] = part /\ n \in 1 .. len[r]
  /\ UNCHANGED <<said, open>>
  /\ piece \in Seq(ByteSet) /\ Len(piece) = Len(buf[r]) + n
  /\ Len(piece) = PieceSize(part, said[e]) - (len[r] - n)
  /\ Carries(piece, said[e], Before(part))
  /\ wire' \in [Ends -> Seq(ByteSet)] /\ wire'[r] = wire[r]
  /\ Carries(wire'[e], said[e], Before(part) + Len(piece))
  /\ Len(wire'[e]) = Len(wire[e]) - n
  /\ Len(wire'[e]) <= Given(e) - (Before(part) + Len(piece))
  /\ open = Ends => Len(wire'[e]) = Given(e) - (Before(part) + Len(piece))
  /\ \/ len[r] - n > 0 /\ UNCHANGED <<pc, size, got, stage>>
        /\ buf' = [buf EXCEPT ![r] = piece]
        /\ len' = [len EXCEPT ![r] = len[r] - n]
     \/ len[r] - n = 0 /\ Complete(r, part, piece)

LEMMA ReadBytes ==
  ASSUME TypeInv, NEW e \in Ends, NEW r, r = Other(e), FlowInv(e, r),
         NEW part \in Reading, NEW n \in Nat, Read(r, part, n)
  PROVE  \E piece : AfterRead(e, r, part, n, piece)
<1> DEFINE m == said[e]
           first == SubSeq(wire[e], 1, n)
           piece == buf[r] \o first
           rest == SubSeq(wire[e], n + 1, Len(wire[e]))
<1>1. /\ r \in Ends /\ r # e /\ Other(r) = e
      /\ wire \in [Ends -> Seq(ByteSet)] /\ buf[r] \in Seq(ByteSet)
      /\ wire[e] \in Seq(ByteSet) /\ Len(wire[e]) \in Nat /\ Len(buf[r]) \in Nat
      /\ len[r] \in Nat /\ m \in Lengths /\ m \in Nat
      /\ PieceSize(part, m) \in Nat /\ LenBytes \in Nat
  BY EndsFacts DEF FlowInv, TypeInv
<1>2. /\ r \in open /\ pc[r] = part /\ n \in 1 .. len[r] /\ n <= Len(wire[e])
      /\ wire' = [wire EXCEPT ![e] = rest]
      /\ UNCHANGED <<said, open>>
      /\ \/ len[r] - n > 0 /\ UNCHANGED <<pc, size, got, stage>>
            /\ buf' = [buf EXCEPT ![r] = piece]
            /\ len' = [len EXCEPT ![r] = len[r] - n]
         \/ len[r] - n = 0 /\ Complete(r, part, piece)
  BY <1>1 DEF Read, ReadUpTo
<1>3. /\ len[r] + Len(buf[r]) = PieceSize(part, m)
      /\ Carries(buf[r], m, Before(part))
      /\ Taken(r) = Before(part) + Len(buf[r])
      /\ Carries(wire[e], m, Taken(r))
      /\ Len(wire[e]) <= Given(e) - Taken(r)
      /\ open = Ends => Len(wire[e]) = Given(e) - Taken(r)
  BY <1>2 DEF FlowInv, PieceInv, WireInv, Taken
<1>4. Before(part) \in Nat /\ Taken(r) \in Nat
  <2>1. Before(part) \in Nat
    BY EndsFacts
  <2>2. Len(buf[r]) \in Nat
    BY <1>1
  <2>3. QED
    BY <2>1, <2>2, <1>3
<1>5. Given(e) \in Int
  BY <1>1, EndsFacts DEF Given, TypeInv
<1>6. /\ first \in Seq(ByteSet) /\ Len(first) = n /\ Carries(first, m, Taken(r))
      /\ rest \in Seq(ByteSet) /\ Len(rest) = Len(wire[e]) - n
      /\ Carries(rest, m, Taken(r) + n)
  <2>1. n \in 0 .. Len(wire[e])
    BY <1>1, <1>2
  <2>2. /\ wire[e] \in Seq(ByteSet) /\ Taken(r) \in Nat
        /\ Carries(wire[e], m, Taken(r))
    BY <1>1, <1>3, <1>4
  <2> HIDE DEF m
  <2>3. QED
    BY <2>1, <2>2, CarriesParts
<1> HIDE DEF m, first, rest, piece
<1>7. /\ piece \in Seq(ByteSet) /\ Len(piece) = Len(buf[r]) + n
      /\ Carries(piece, m, Before(part))
  <2>1. Carries(first, m, Before(part) + Len(buf[r]))
    BY <1>3, <1>6
  <2>2. QED
    <3>1. buf[r] \in Seq(ByteSet) /\ first \in Seq(ByteSet) /\ Before(part) \in Nat
      BY <1>1, <1>4, <1>6
    <3>2. Carries(buf[r], m, Before(part)) /\ Len(first) = n
      BY <1>3, <1>6
    <3>3. QED
      BY <3>1, <3>2, <2>1, CarriesBoth DEF piece
<1>8. /\ wire' \in [Ends -> Seq(ByteSet)] /\ wire'[r] = wire[r] /\ wire'[e] = rest
  BY <1>1, <1>2, <1>6
<1>9. /\ Before(part) + Len(piece) = Taken(r) + n
      /\ Len(piece) = PieceSize(part, m) - (len[r] - n)
  <2>1. /\ Len(piece) = Len(buf[r]) + n /\ len[r] + Len(buf[r]) = PieceSize(part, m)
        /\ Taken(r) = Before(part) + Len(buf[r])
    BY <1>3, <1>7
  <2>2. Len(buf[r]) \in Nat /\ len[r] \in Nat /\ Before(part) \in Nat
    BY <1>1, <1>4
  <2>3. QED
    BY <2>1, <2>2
<1>10. /\ Len(wire'[e]) = Len(wire[e]) - n
       /\ Len(wire'[e]) <= Given(e) - (Before(part) + Len(piece))
       /\ open = Ends => Len(wire'[e]) = Given(e) - (Before(part) + Len(piece))
  <2>1. Len(wire'[e]) = Len(wire[e]) - n
    BY <1>6, <1>8
  <2>2. Given(e) - (Taken(r) + n) = Given(e) - Taken(r) - n
    BY <1>4, <1>5
  <2>3. Len(wire[e]) \in Nat /\ Given(e) - Taken(r) \in Int
    BY <1>1, <1>4, <1>5
  <2>4. Len(wire[e]) <= Given(e) - Taken(r)
    BY <1>3
  <2>5. open = Ends => Len(wire[e]) = Given(e) - Taken(r)
    BY <1>3
  <2>6. QED
    BY <2>1, <2>2, <2>3, <2>4, <2>5, <1>9
<1>11. Carries(wire'[e], m, Before(part) + Len(piece))
  BY <1>6, <1>8, <1>9
<1>12. AfterRead(e, r, part, n, piece)
  BY <1>2, <1>7, <1>8, <1>9, <1>10, <1>11 DEF m, AfterRead
<1>13. QED
  BY <1>12

\* A read() that does not complete the message keeps what is read, under way
\* and unwritten the message.
LEMMA ReadFlow ==
  ASSUME TypeInv, NEW e \in Ends, NEW r, r = Other(e), FlowInv(e, r),
         NEW part \in Reading, NEW n \in Nat, Read(r, part, n),
         n < len[r] \/ part = "length"
  PROVE  /\ FlowInv(e, r)' /\ TypeInv'
         /\ wire'[r] = wire[r] /\ buf'[e] = buf[e] /\ len'[e] = len[e]
         /\ pc'[e] = pc[e] /\ pc'[r] \in {part, "body"}
         /\ UNCHANGED <<said, got, open, stage>>
<1> DEFINE m == said[e]
<1>1. PICK piece : AfterRead(e, r, part, n, piece)
  BY ReadBytes
<1>2. /\ r \in open /\ pc[r] = part /\ n \in 1 .. len[r]
      /\ UNCHANGED <<said, open>>
      /\ piece \in Seq(ByteSet) /\ Len(piece) = Len(buf[r]) + n
      /\ Len(piece) = PieceSize(part, m) - (len[r] - n)
      /\ Carries(piece, m, Before(part))
      /\ wire' \in [Ends -> Seq(ByteSet)] /\ wire'[r] = wire[r]
      /\ Carries(wire'[e], m, Before(part) + Len(piece))
      /\ Len(wire'[e]) <= Given(e) - (Before(part) + Len(piece))
      /\ open = Ends => Len(wire'[e]) = Given(e) - (Before(part) + Len(piece))
      /\ \/ len[r] - n > 0 /\ UNCHANGED <<pc, size, got, stage>>
            /\ buf' = [buf EXCEPT ![r] = piece]
            /\ len' = [len EXCEPT ![r] = len[r] - n]
         \/ len[r] - n = 0 /\ Complete(r, part, piece)
  BY <1>1 DEF AfterRead
<1>3. /\ r \in Ends /\ r # e /\ Other(r) = e /\ m \in Lengths /\ m \in Nat /\ m > 0
      /\ LenBytes \in Nat /\ PieceSize(part, m) \in Nat /\ len[r] \in Nat
      /\ <<>> \in Seq(ByteSet) /\ Len(<<>>) = 0
      /\ pc \in [Ends -> Sending \cup Reading \cup {"idle", "poll", "invoke"}]
      /\ len \in [Ends -> Nat] /\ buf \in [Ends -> Seq(ByteSet)]
      /\ size \in [Ends -> Lengths \cup {Nothing}]
  BY EndsFacts DEF FlowInv, TypeInv
\* The piece is not complete, or the length is and says how long the body is.
<1>4. /\ pc' = [pc EXCEPT ![r] = pc'[r]] /\ pc'[r] \in {part, "body"}
      /\ len' = [len EXCEPT ![r] = len'[r]]
      /\ len'[r] > 0 /\ len'[r] + Len(buf'[r]) = PieceSize(pc'[r], m)
      /\ len'[r] \in Nat
      /\ buf' = [buf EXCEPT ![r] = buf'[r]] /\ buf'[r] \in Seq(ByteSet)
      /\ Carries(buf'[r], m, Before(pc'[r]))
      /\ Before(pc'[r]) + Len(buf'[r]) = Before(part) + Len(piece)
      /\ size' \in [Ends -> Lengths \cup {Nothing}]
      /\ pc'[r] = "body" => size'[r] = m
      /\ UNCHANGED <<got, stage>>
  <2>1. CASE len[r] - n > 0
    <3>1. /\ pc' = pc /\ buf' = [buf EXCEPT ![r] = piece] /\ size' = size
          /\ len' = [len EXCEPT ![r] = len[r] - n] /\ UNCHANGED <<got, stage>>
      BY <1>2, <2>1
    <3>2. pc'[r] = part /\ buf'[r] = piece /\ len'[r] = len[r] - n
      BY <3>1, <1>2, <1>3
    <3>3. len'[r] + Len(buf'[r]) = PieceSize(part, m) /\ len'[r] \in Nat
      <4>1. Len(piece) = PieceSize(part, m) - (len[r] - n) /\ len[r] - n \in Nat
        BY <1>2, <1>3, <2>1
      <4>2. PieceSize(part, m) \in Nat
        BY <1>3
      <4> HIDE DEF m
      <4>3. QED
        BY <4>1, <4>2, <3>2
    <3>4. pc[r] = "body" => size[r] = m
      BY DEF FlowInv, PieceInv
    <3>5. QED
      BY <3>1, <3>2, <3>3, <3>4, <1>2, <1>3, <2>1
  <2>2. CASE len[r] - n = 0
    <3>1. part = "length" /\ Complete(r, part, piece)
      BY <1>2, <1>3, <2>2
    <3>2. Decoded(part, piece) = {m}
      <4>1. Len(piece) = PieceSize(part, m)
        BY <1>2, <1>3, <2>2
      <4> HIDE DEF m
      <4>2. QED
        BY <4>1, <1>2, <1>3, WholePiece
    <3>3. /\ pc' = [pc EXCEPT ![r] = "body"] /\ size' = [size EXCEPT ![r] = m]
          /\ len' = [len EXCEPT ![r] = m] /\ buf' = [buf EXCEPT ![r] = <<>>]
          /\ UNCHANGED <<got, stage>>
      <4>1. m # Nothing
        BY <1>3, EndsFacts
      <4>2. QED
        BY <3>1, <3>2, <4>1 DEF Complete
    <3>4. pc'[r] = "body" /\ size'[r] = m /\ len'[r] = m /\ buf'[r] = <<>>
      BY <3>3, <1>3
    <3>5. Len(piece) = LenBytes
      <4>1. Len(piece) = PieceSize(part, m) - (len[r] - n) /\ PieceSize(part, m) = LenBytes
        BY <1>2, <3>1 DEF PieceSize
      <4>2. LenBytes \in Nat /\ len[r] - n = 0
        BY <1>3, <2>2
      <4>3. QED
        BY <4>1, <4>2
    <3>6. /\ len'[r] + Len(buf'[r]) = PieceSize("body", m)
          /\ Before("body") + Len(buf'[r]) = Before(part) + Len(piece)
          /\ Carries(buf'[r], m, Before("body"))
      BY <3>1, <3>4, <3>5, <1>3 DEF PieceSize, Before, Carries
    <3>7. QED
      BY <3>3, <3>4, <3>6, <1>3
  <2>3. QED
    BY <2>1, <2>2, <1>2
<1>5. pc'[e] = pc[e] /\ len'[e] = len[e] /\ buf'[e] = buf[e]
  BY <1>3, <1>4
<1>6. pc'[r] \in Reading /\ Taken(r)' = Before(part) + Len(piece)
  BY <1>4 DEF Taken, Reading, Before
<1>7. Given(e)' = Given(e)
  BY <1>2, <1>5 DEF Given
<1>8. PieceInv(e, r)'
  BY <1>2, <1>4, <1>6 DEF PieceInv, Carries
<1>9. WireInv(e, r)'
  BY <1>2, <1>6, <1>7 DEF WireInv, Carries
<1>10. FlowInv(e, r)'
  BY <1>2, <1>3, <1>5, <1>8, <1>9 DEF FlowInv
<1>11. TypeInv'
  <2>1. pc'[r] \in Reading
    BY <1>6
  <2>2. /\ pc' \in [Ends -> Sending \cup Reading \cup {"idle", "poll", "invoke"}]
        /\ len' \in [Ends -> Nat] /\ buf' \in [Ends -> Seq(ByteSet)]
    BY <1>3, <1>4, <2>1
  <2>3. QED
    BY <1>2, <1>4, <2>2 DEF TypeInv
<1>12. QED
  BY <1>2, <1>4, <1>5, <1>10, <1>11

\* A read() that completes the message: it is the message that was sent, all
\* of it was written, and nothing is left on the wire.
LEMMA ReadMessage ==
  ASSUME TypeInv, NEW e \in Ends, NEW r, r = Other(e), FlowInv(e, r),
         NEW n \in Nat, Read(r, "body", n), n >= len[r]
  PROVE  /\ TypeInv'
         /\ r \in open /\ pc[e] \notin Sending
         /\ got' = [got EXCEPT ![r] = said[e]]
         /\ stage' = IF r = "client" THEN "idle" ELSE "served"
         /\ pc' = [pc EXCEPT ![r] = IF r = "client" THEN "idle" ELSE "invoke"]
         /\ len'[e] = len[e]
         /\ wire'[e] = <<>> /\ wire'[r] = wire[r]
         /\ buf'[r] = <<>> /\ buf'[e] = buf[e]
         /\ UNCHANGED <<said, open>>
<1> DEFINE m == said[e]
<1>1. PICK piece : AfterRead(e, r, "body", n, piece)
  BY ReadBytes DEF Reading
<1>2. /\ r \in Ends /\ r # e /\ Other(r) = e /\ m \in Lengths /\ m \in Nat /\ m > 0
      /\ LenBytes \in Nat /\ len[r] \in Nat /\ len[e] \in Nat
      /\ <<>> \in Seq(ByteSet) /\ "body" \in Reading
  BY EndsFacts DEF FlowInv, TypeInv, Reading
<1>3. /\ r \in open /\ pc[r] = "body" /\ n \in 1 .. len[r]
      /\ UNCHANGED <<said, open>>
      /\ piece \in Seq(ByteSet)
      /\ Len(piece) = PieceSize("body", m) - (len[r] - n)
      /\ Carries(piece, m, Before("body"))
      /\ wire' \in [Ends -> Seq(ByteSet)] /\ wire'[r] = wire[r]
      /\ Len(wire'[e]) <= Given(e) - (Before("body") + Len(piece))
      /\ \/ len[r] - n > 0 /\ UNCHANGED <<pc, size, got, stage>>
            /\ buf' = [buf EXCEPT ![r] = piece]
            /\ len' = [len EXCEPT ![r] = len[r] - n]
         \/ len[r] - n = 0 /\ Complete(r, "body", piece)
  BY <1>1 DEF AfterRead
<1>4. n = len[r] /\ Len(piece) = PieceSize("body", m) /\ Complete(r, "body", piece)
  BY <1>2, <1>3, EndsFacts
<1>5. Decoded("body", piece) = {m}
  <2> HIDE DEF m
  <2>1. QED
    BY <1>2, <1>3, <1>4, WholePiece
<1>6. /\ pc' = [pc EXCEPT ![r] = IF r = "client" THEN "idle" ELSE "invoke"]
      /\ got' = [got EXCEPT ![r] = m] /\ size' = size
      /\ len' = [len EXCEPT ![r] = 0] /\ buf' = [buf EXCEPT ![r] = <<>>]
      /\ stage' = IF r = "client" THEN "idle" ELSE "served"
  BY <1>4, <1>5 DEF Complete
<1>7. Before("body") + Len(piece) = LenBytes + m
  BY <1>4 DEF Before, PieceSize
<1>8. wire'[e] \in Seq(ByteSet) /\ Len(wire'[e]) \in Nat
  BY <1>3
<1>9. Given(e) >= LenBytes + m
  <2>1. Given(e) \in Int
    BY <1>2 DEF Given
  <2>2. Len(wire'[e]) <= Given(e) - (LenBytes + m)
    BY <1>3, <1>7
  <2>3. QED
    BY <2>1, <2>2, <1>2, <1>8
<1>10. pc[e] \notin Sending
  BY <1>2, <1>9 DEF Given, FlowInv, Sending
<1>11. wire'[e] = <<>>
  <2>1. Given(e) = LenBytes + m
    BY <1>10 DEF Given, Sending
  <2>2. Len(wire'[e]) = 0
    BY <2>1, <1>2, <1>3, <1>7, <1>8
  <2>3. QED
    BY <2>2, <1>8
<1>12. TypeInv'
  <2>1. m \in Lengths \cup {Nothing}
    BY <1>2
  <2> HIDE DEF m
  <2>2. QED
    BY <2>1, <1>2, <1>3, <1>6 DEF TypeInv
<1>13. QED
  BY <1>2, <1>3, <1>6, <1>10, <1>11, <1>12 DEF TypeInv

-----------------------------------------------------------------------------
(* The invariant is inductive. *)

LEMMA InitInv == Init => IInv
<1> SUFFICES ASSUME Init PROVE IInv
  OBVIOUS
<1>1. Ends = {"client", "server"} /\ <<>> \in Seq(ByteSet)
  BY DEF Ends
<1>2. TypeInv
  BY <1>1 DEF Init, TypeInv
<1>3. StageInv
  BY <1>1 DEF Init, StageInv, Drained, AtStart, Quiet
<1>4. QED
  BY <1>2, <1>3 DEF IInv

\* A stuttering step changes nothing the invariant speaks of.
LEMMA StutterInv == IInv /\ UNCHANGED vars => IInv'
BY DEF IInv, TypeInv, StageInv, Drained, AtStart, Quiet, FlowInv, PieceInv,
       WireInv, Carries, Given, Taken, Before, PieceSize, vars

\* A message that has just been packed: no byte of it is written yet.
LEMMA StartInv ==
  ASSUME IInv, NEW e \in Ends, NEW r, r = Other(e), NEW from, NEW to,
         StartSend(e, from, to), Quiet(e, r), pc[r] \in {"poll", "length"}, r = "client" => pc[r] # "poll",
         AtStart(r)
  PROVE  FlowInv(e, r)' /\ TypeInv' /\ pc'[e] = "send_length"
<1>1. /\ r \in Ends /\ r # e /\ LenBytes \in Nat /\ LenBytes > 0
      /\ \A m \in Lengths : m \in Nat /\ m > 0
  BY EndsFacts
<1>2. PICK m \in Lengths : said' = [said EXCEPT ![e] = m]
  BY DEF StartSend
<1>3. /\ pc' = [pc EXCEPT ![e] = "send_length"]
      /\ len' = [len EXCEPT ![e] = LenBytes]
      /\ UNCHANGED <<buf, size, got, open, wire>>
  BY DEF StartSend
<1>4. TypeInv'
  BY <1>1, <1>2, <1>3 DEF IInv, TypeInv, Sending
<1>5. /\ pc'[e] = "send_length" /\ pc'[r] = pc[r] /\ said'[e] = m
      /\ len'[e] = LenBytes /\ len'[r] = len[r]
      /\ wire'[e] = <<>> /\ buf'[r] = <<>>
  BY <1>1, <1>2, <1>3 DEF IInv, TypeInv, Quiet
<1>6. Given(e)' = 0 /\ Taken(r)' = 0
  BY <1>1, <1>5 DEF Given, Taken, Before, Reading
<1>7. PieceInv(e, r)'
  BY <1>1, <1>5 DEF PieceInv, Carries, Before, PieceSize, Reading, AtStart
<1>8. WireInv(e, r)'
  BY <1>1, <1>5, <1>6 DEF WireInv, Carries
<1>9. QED
  BY <1>1, <1>4, <1>5, <1>7, <1>8 DEF FlowInv

\* The bytes under way are those of the message of the stage.
LEMMA Flows ==
  ASSUME IInv, NEW e \in Ends, NEW r, r = Other(e),
         pc[e] \in Sending \/ (pc[r] \in Reading /\ wire[e] # <<>>)
  PROVE  /\ FlowInv(e, r) /\ Quiet(r, e)
         /\ stage = IF e = "client" THEN "asked" ELSE "answered"
<1>1. CASE e = "client"
  <2>1. r = "server"
    BY <1>1, EndsFacts
  <2>2. QED
    BY <1>1, <2>1 DEF IInv, StageInv, Quiet, Sending, Reading
<1>2. CASE e = "server"
  <2>1. r = "client"
    BY <1>2, EndsFacts
  <2>2. QED
    BY <1>2, <2>1 DEF IInv, StageInv, Quiet, Sending, Reading
<1>3. QED
  BY <1>1, <1>2 DEF Ends

LEMMA CallInv == IInv /\ Call => IInv' /\ stage = "idle"
<1> SUFFICES ASSUME IInv, Call PROVE IInv' /\ stage = "idle"
  OBVIOUS
<1>1. /\ stage = "idle" /\ "client" \in open
      /\ pc["server"] = "poll"
      /\ Quiet("client", "server") /\ Quiet("server", "client")
  BY DEF IInv, StageInv, Call, StartSend, Drained, Sending, Reading
<1>2. FlowInv("client", "server")' /\ TypeInv' /\ pc'["client"] = "send_length"
  <2>1. AtStart("server")
    BY <1>1 DEF AtStart
  <2>2. StartSend("client", "idle", "asked")
    BY DEF Call
  <2>3. QED
    BY <1>1, <2>1, <2>2, StartInv, EndsFacts DEF Ends
<1>3. Quiet("server", "client")' /\ pc'["server"] = "poll" /\ stage' = "asked"
  BY <1>1 DEF IInv, TypeInv, Call, StartSend, Quiet, Ends
<1>4. StageInv'
  BY <1>2, <1>3 DEF StageInv, Sending, AtStart
<1>5. QED
  BY <1>1, <1>2, <1>4 DEF IInv

LEMMA AnswerInv == IInv /\ Answer => IInv' /\ stage = "served"
<1> SUFFICES ASSUME IInv, Answer PROVE IInv' /\ stage = "served"
  OBVIOUS
<1>1. /\ stage = "served" /\ pc["client"] = "length" /\ AtStart("client")
      /\ Quiet("client", "server") /\ Quiet("server", "client")
  BY DEF IInv, StageInv, Answer, StartSend, Sending, Reading
<1>2. FlowInv("server", "client")' /\ TypeInv' /\ pc'["server"] = "send_length"
  <2>1. StartSend("server", "invoke", "answered")
    BY DEF Answer
  <2>2. QED
    BY <1>1, <2>1, StartInv, EndsFacts DEF Ends
<1>3. Quiet("client", "server")' /\ pc'["client"] = "length" /\ stage' = "answered"
  BY <1>1 DEF IInv, TypeInv, Answer, StartSend, Quiet, Ends
<1>4. StageInv'
  BY <1>2, <1>3 DEF StageInv, Sending, Reading, AtStart, Drained
<1>5. QED
  BY <1>1, <1>2, <1>4 DEF IInv

LEMMA PollInv == IInv /\ Poll => IInv'
<1> SUFFICES ASSUME IInv, Poll PROVE IInv'
  OBVIOUS
<1>1. /\ "server" \in Ends /\ "client" \in Ends /\ Other("server") = "client"
      /\ LenBytes \in Nat /\ LenBytes > 0
  BY EndsFacts DEF Ends
<1>2. /\ pc["server"] = "poll"
      /\ wire["client"] # <<>> \/ "client" \notin open
      /\ pc' = [pc EXCEPT !["server"] = "length"]
      /\ len' = [len EXCEPT !["server"] = LenBytes]
      /\ UNCHANGED <<buf, size, said, got, open, wire, stage>>
  BY DEF Poll
<1>3. /\ pc'["server"] = "length" /\ pc'["client"] = pc["client"]
      /\ len'["server"] = LenBytes /\ len'["client"] = len["client"]
  BY <1>1, <1>2 DEF IInv, TypeInv
<1>4. TypeInv'
  BY <1>1, <1>2 DEF IInv, TypeInv, Reading
<1>5. CASE stage = "idle"
  <2>1. "client" \notin open
    BY <1>2, <1>5 DEF IInv, StageInv, Quiet
  <2>2. StageInv'
    BY <1>2, <1>3, <1>5, <2>1 DEF IInv, StageInv, Drained, AtStart, Quiet
  <2>3. QED
    BY <1>4, <2>2 DEF IInv
<1>6. CASE stage = "asked"
  <2>1. FlowInv("client", "server") /\ Quiet("server", "client")
    BY <1>6 DEF IInv, StageInv
  <2>2. buf'["server"] = <<>> /\ Taken("server")' = 0 /\ Taken("server") = 0
    <3>1. buf["server"] = <<>>
      BY <1>2, <2>1 DEF FlowInv, PieceInv, Reading
    <3>2. Taken("server") = 0
      BY <1>2 DEF Taken, Reading
    <3>3. Before("length") = 0 /\ Len(<<>>) = 0
      BY DEF Before
    <3>4. QED
      BY <3>1, <3>2, <3>3, <1>2, <1>3 DEF Taken, Reading
  <2>3. PieceInv("client", "server")'
    BY <1>1, <1>3, <2>2 DEF PieceInv, Carries, PieceSize, Reading
  <2>4. WireInv("client", "server")'
    <3>1. Given("client")' = Given("client")
      BY <1>2, <1>3 DEF Given
    <3>2. QED
      BY <1>2, <2>1, <2>2, <3>1 DEF FlowInv, WireInv, Carries
  <2>5. FlowInv("client", "server")'
    BY <1>2, <1>3, <2>1, <2>3, <2>4 DEF FlowInv
  <2>6. StageInv'
    BY <1>2, <1>3, <1>6, <2>1, <2>5 DEF IInv, StageInv, AtStart, Quiet, Reading
  <2>7. QED
    BY <1>4, <2>6 DEF IInv
<1>7. CASE stage = "answered"
  <2>1. "client" \notin open /\ FlowInv("server", "client") /\ Quiet("client", "server")
    BY <1>2, <1>7 DEF IInv, StageInv, Quiet
  <2>2. FlowInv("server", "client")'
    <3>1. Given("server")' = Given("server")
      BY <1>2, <1>3 DEF Given
    <3>4. Taken("client")' = Taken("client")
      BY <1>2, <1>3 DEF Taken, Before
    <3>2. PieceInv("server", "client")' /\ WireInv("server", "client")'
      BY <1>2, <1>3, <2>1, <3>1, <3>4 DEF FlowInv, PieceInv, WireInv, Carries
    <3>3. QED
      BY <1>2, <1>3, <2>1, <3>2 DEF FlowInv
  <2>3. StageInv'
    BY <1>2, <1>3, <1>7, <2>1, <2>2 DEF IInv, StageInv, Drained, AtStart, Quiet
  <2>4. QED
    BY <1>4, <2>3 DEF IInv
<1>8. stage \in {"idle", "asked", "answered"}
  BY <1>2 DEF IInv, StageInv
<1>9. QED
  BY <1>5, <1>6, <1>7, <1>8

LEMMA WriteInv ==
  ASSUME IInv, NEW e \in Ends, NEW part \in Reading, NEW n \in Nat, Write(e, part, n)
  PROVE  IInv' /\ UNCHANGED <<stage, said, got, open>>
<1> DEFINE r == Other(e)
<1>1. /\ pc[e] = IF part = "length" THEN "send_length" ELSE "send_body"
      /\ n \in 1 .. len[e]
      /\ UNCHANGED <<buf, size, said, got, open, stage>>
  BY DEF Write, WriteThen
<1>2. r \in Ends /\ r # e
  BY EndsFacts
<1>3. /\ FlowInv(e, r) /\ Quiet(r, e)
      /\ stage = IF e = "client" THEN "asked" ELSE "answered"
  BY <1>1, Flows DEF Sending
<1>4. FlowInv(e, r)' /\ TypeInv'
  BY <1>3, WriteFlow DEF IInv
<1>5. Quiet(r, e)'
  BY <1>1, <1>2, <1>3 DEF Write, WriteThen, Quiet, IInv, TypeInv
<1>6. /\ pc'[r] = pc[r] /\ len'[r] = len[r]
      /\ \/ pc'[e] = pc[e]
         \/ pc'[e] = "send_body"
         \/ pc'[e] = AfterSend(e) /\ (e = "client" => len'[e] = LenBytes)
  BY <1>2 DEF Write, WriteThen, IInv, TypeInv
<1>7. pc'[e] \in Sending \cup {AfterSend(e)}
  BY <1>1, <1>6 DEF Sending
<1>8. CASE e = "client"
  <2>1. r = "server"
    BY <1>8, EndsFacts
  <2>2. pc'["client"] \in Sending \cup {"length"} /\ AtStart("client")'
    BY <1>1, <1>6, <1>7, <1>8 DEF AfterSend, AtStart, Sending
  <2>3. stage = "asked" /\ pc["server"] \in Reading \cup {"poll"}
    BY <1>3, <1>8 DEF IInv, StageInv
  <2>4. stage' = "asked" /\ pc'["server"] \in Reading \cup {"poll"}
    BY <1>1, <1>6, <2>1, <2>3
  <2>5. StageInv'
    BY <1>4, <1>5, <1>8, <2>1, <2>2, <2>4 DEF StageInv
  <2>6. QED
    BY <1>1, <1>4, <2>5 DEF IInv
<1>9. CASE e = "server"
  <2>1. r = "client"
    BY <1>9, EndsFacts
  <2>2. pc'["server"] \in Sending \cup {"poll", "length"} /\ Drained'
    BY <1>1, <1>6, <1>7, <1>9 DEF AfterSend, AtStart, Drained, Sending
  <2>3. stage = "answered" /\ pc["client"] \in Reading
    BY <1>3, <1>9 DEF IInv, StageInv
  <2>4. stage' = "answered" /\ pc'["client"] \in Reading
    BY <1>1, <1>6, <2>1, <2>3
  <2>5. StageInv'
    BY <1>4, <1>5, <1>9, <2>1, <2>2, <2>4 DEF StageInv
  <2>6. QED
    BY <1>1, <1>4, <2>5 DEF IInv
<1>10. QED
  BY <1>8, <1>9 DEF Ends

\* A read() completes a message, and then it is the one the other end sent and
\* the stage goes on; or it does not, and the stage stays.
LEMMA ReadInv ==
  ASSUME IInv, NEW r \in Ends, NEW part \in Reading, NEW n \in Nat, Read(r, part, n)
  PROVE  /\ IInv' /\ UNCHANGED <<said, open>>
         /\ \/ UNCHANGED <<stage, got>>
            \/ /\ r \in open
               /\ stage = IF r = "client" THEN "answered" ELSE "asked"
               /\ stage' = IF r = "client" THEN "idle" ELSE "served"
               /\ got' = [got EXCEPT ![r] = said[Other(r)]]
<1> DEFINE e == Other(r)
<1>1. e \in Ends /\ r # e /\ Other(e) = r
  BY EndsFacts
<1>2. /\ pc[r] = part /\ n \in 1 .. len[r] /\ wire[e] # <<>>
  BY <1>1 DEF Read, ReadUpTo, IInv, TypeInv
<1>3. /\ FlowInv(e, r) /\ Quiet(r, e)
      /\ stage = IF e = "client" THEN "asked" ELSE "answered"
  BY <1>1, <1>2, Flows
<1>4. len[r] \in Nat
  BY DEF IInv, TypeInv
<1>5. CASE n < len[r] \/ part = "length"
  <2>1. /\ FlowInv(e, r)' /\ TypeInv'
        /\ wire'[r] = wire[r] /\ buf'[e] = buf[e] /\ len'[e] = len[e]
        /\ pc'[e] = pc[e] /\ pc'[r] \in {part, "body"}
        /\ UNCHANGED <<said, got, open, stage>>
    BY <1>1, <1>3, <1>5, ReadFlow DEF IInv
  <2>2. Quiet(r, e)' /\ pc'[r] \in Reading
    BY <1>3, <2>1 DEF Quiet, Reading
  <2>3. CASE e = "client"
    <3>1. r = "server" /\ stage' = "asked"
      BY <1>1, <1>3, <2>1, <2>3, EndsFacts
    <3>2. pc["client"] \in Sending \cup {"length"} /\ AtStart("client")
      BY <3>1, <2>1 DEF IInv, StageInv
    <3>3. StageInv'
      BY <2>1, <2>2, <2>3, <3>1, <3>2 DEF StageInv, AtStart
    <3>4. QED
      BY <2>1, <3>3 DEF IInv
  <2>4. CASE e = "server"
    <3>1. r = "client" /\ stage' = "answered"
      BY <1>1, <1>3, <2>1, <2>4, EndsFacts
    <3>2. pc["server"] \in Sending \cup {"poll", "length"} /\ Drained
      BY <3>1, <2>1 DEF IInv, StageInv
    <3>3. StageInv'
      BY <2>1, <2>2, <2>4, <3>1, <3>2 DEF StageInv, AtStart, Drained
    <3>4. QED
      BY <2>1, <3>3 DEF IInv
  <2>5. QED
    BY <1>1, <2>3, <2>4 DEF Ends
<1>6. CASE n >= len[r] /\ part = "body"
  <2>1. /\ TypeInv'
        /\ r \in open /\ pc[e] \notin Sending
        /\ got' = [got EXCEPT ![r] = said[e]]
        /\ stage' = IF r = "client" THEN "idle" ELSE "served"
        /\ pc' = [pc EXCEPT ![r] = IF r = "client" THEN "idle" ELSE "invoke"]
        /\ len'[e] = len[e]
        /\ wire'[e] = <<>> /\ wire'[r] = wire[r]
        /\ buf'[r] = <<>> /\ buf'[e] = buf[e]
        /\ UNCHANGED <<said, open>>
    BY <1>1, <1>3, <1>6, ReadMessage DEF IInv
  <2>2. Quiet(r, e)' /\ Quiet(e, r)'
    BY <1>3, <2>1 DEF Quiet
  <2>3. /\ pc'[e] = pc[e]
        /\ pc'[r] = IF r = "client" THEN "idle" ELSE "invoke"
    BY <1>1, <2>1 DEF IInv, TypeInv
  <2>4. CASE e = "client"
    <3>1. r = "server" /\ stage = "asked" /\ stage' = "served"
      BY <1>1, <1>3, <2>1, <2>4, EndsFacts
    <3>2. pc["client"] = "length" /\ AtStart("client")
      BY <3>1, <2>1, <2>4 DEF IInv, StageInv
    <3>3. StageInv'
      BY <2>1, <2>2, <2>3, <2>4, <3>1, <3>2 DEF StageInv, AtStart
    <3>4. QED
      BY <1>3, <2>1, <3>1, <3>3 DEF IInv
  <2>5. CASE e = "server"
    <3>1. r = "client" /\ stage = "answered" /\ stage' = "idle"
      BY <1>1, <1>3, <2>1, <2>5, EndsFacts
    <3>2. pc["server"] \in {"poll", "length"} /\ Drained
      BY <3>1, <2>1, <2>5 DEF IInv, StageInv
    <3>3. StageInv'
      BY <2>1, <2>2, <2>3, <2>5, <3>1, <3>2 DEF StageInv, AtStart, Drained
    <3>4. QED
      BY <1>3, <2>1, <3>1, <3>3 DEF IInv
  <2>6. QED
    BY <1>1, <2>4, <2>5 DEF Ends
<1>7. QED
  BY <1>2, <1>4, <1>5, <1>6 DEF Reading

\* What a broken connection keeps of the wires is the beginning of what was
\* under way.
LEMMA CloseInv ==
  ASSUME IInv, NEW c \in Ends, NEW n \in 0 .. Len(wire[c]), CloseKeeping(c, n)
  PROVE  IInv' /\ UNCHANGED <<stage, said, got>> /\ open' = open \ {c}
<1> DEFINE kept == SubSeq(wire[c], 1, n)
<1>1. /\ Other(c) \in Ends /\ Other(c) # c /\ Other(Other(c)) = c
      /\ <<>> \in Seq(ByteSet) /\ wire[c] \in Seq(ByteSet)
      /\ wire \in [Ends -> Seq(ByteSet)] /\ open \subseteq Ends
  BY EndsFacts DEF IInv, TypeInv
<1>2. /\ open' = open \ {c}
      /\ wire' = [wire EXCEPT ![c] = kept, ![Other(c)] = <<>>]
      /\ UNCHANGED <<pc, len, buf, size, said, got, stage>>
  BY DEF CloseKeeping
<1>3. /\ kept \in Seq(ByteSet) /\ Len(kept) = n /\ Len(kept) <= Len(wire[c])
      /\ wire[c] = <<>> => kept = <<>>
      /\ \A m : \A k \in Nat : Carries(wire[c], m, k) => Carries(kept, m, k)
  <2>1. Len(kept) = n /\ kept \in Seq(ByteSet)
    BY <1>1
  <2>2. wire[c] = <<>> => n = 0
    BY <1>1
  <2>3. n = 0 => kept = <<>>
    BY <2>1
  <2>4. \A m : \A k \in Nat : Carries(wire[c], m, k) => Carries(kept, m, k)
    BY <1>1, CarriesParts
  <2>5. QED
    BY <2>1, <2>2, <2>3, <2>4, <1>1
<1> HIDE DEF kept
<1>4. wire'[c] = kept /\ wire'[Other(c)] = <<>> /\ wire' \in [Ends -> Seq(ByteSet)]
  BY <1>1, <1>2, <1>3
<1>5. TypeInv'
  BY <1>1, <1>2, <1>4 DEF IInv, TypeInv
<1>6. open' # Ends /\ c \notin open'
  BY <1>2
<1>7. ASSUME NEW e \in Ends, NEW r, r = Other(e), FlowInv(e, r)
      PROVE  FlowInv(e, r)'
  <2>1. r \in Ends /\ r # e /\ Ends = {e, r}
    BY <1>7, EndsFacts
  <2>2. Given(e)' = Given(e) /\ Taken(r)' = Taken(r)
    <3>1. Given(e)' = Given(e)
      BY <1>2 DEF Given
    <3>2. Taken(r)' = Taken(r)
      BY <1>2 DEF Taken, Before
    <3>3. QED
      BY <3>1, <3>2
  <2>3. Taken(r) \in Nat
    <3>1. buf[r] \in Seq(ByteSet)
      BY <2>1 DEF IInv, TypeInv
    <3>2. Len(buf[r]) \in Nat
      BY <3>1
    <3>3. Before(pc[r]) \in Nat
      BY EndsFacts
    <3>4. QED
      BY <3>2, <3>3 DEF Taken
  <2>4. PieceInv(e, r)'
    BY <1>2, <1>7 DEF FlowInv, PieceInv, Carries
  <2>5. Carries(wire[e], said[e], Taken(r)) /\ Len(wire[e]) <= Given(e) - Taken(r)
    BY <1>7 DEF FlowInv, WireInv
  <2>6. Given(e) \in Int
    <3>1. said[e] \in Nat /\ LenBytes \in Nat /\ len[e] \in Nat
      BY <1>7, EndsFacts DEF FlowInv, IInv, TypeInv
    <3>2. QED
      BY <3>1 DEF Given
  <2>7. Len(wire[e]) \in Nat
    BY <1>1, <2>1
  <2>8. 0 <= Given(e) - Taken(r)
    BY <2>3, <2>5, <2>6, <2>7
  <2>9. WireInv(e, r)'
    <3>1. CASE e = c
      <4>1. wire'[e] = kept
        BY <3>1, <1>4
      <4>2. Carries(kept, said[e], Taken(r)) /\ Len(kept) <= Given(e) - Taken(r)
        <5>1. Carries(kept, said[e], Taken(r)) /\ Len(kept) <= Len(wire[e])
          BY <3>1, <1>3, <2>3, <2>5
        <5>2. Len(kept) \in Nat
          BY <1>3
        <5>3. QED
          BY <5>1, <5>2, <2>3, <2>5, <2>6, <2>7
      <4>3. r \notin open' => kept = <<>>
        BY <3>1, <1>1, <1>2, <1>3, <1>7, <2>1 DEF FlowInv, WireInv
      <4>4. QED
        BY <4>1, <4>2, <4>3, <1>2, <1>6, <2>2 DEF WireInv, Carries
    <3>2. CASE e # c
      <4>1. wire'[e] = <<>>
        BY <3>2, <1>1, <1>4, <2>1
      <4>2. Len(<<>>) = 0
        OBVIOUS
      <4>3. Len(wire'[e]) <= Given(e)' - Taken(r)' /\ Carries(wire'[e], said'[e], Taken(r)')
        BY <4>1, <4>2, <2>2, <2>8 DEF Carries
      <4>4. QED
        BY <4>1, <4>3, <1>6 DEF WireInv, Carries
    <3>3. QED
      BY <3>1, <3>2
  <2>10. QED
    BY <1>2, <1>7, <2>4, <2>9 DEF FlowInv
<1>8. ASSUME NEW e \in Ends, NEW r, Quiet(e, r)
      PROVE  Quiet(e, r)'
  <2>1. wire'[e] = <<>>
    <3>1. CASE e = c
      BY <1>3, <1>4, <1>8, <3>1 DEF Quiet
    <3>2. CASE e # c
      BY <1>1, <1>4, <3>2 DEF Ends
    <3>3. QED
      BY <3>1, <3>2
  <2>2. QED
    BY <2>1, <1>2, <1>8 DEF Quiet
<1>9. Drained => Drained'
  BY <1>2 DEF Drained, AtStart
<1>10. AtStart("client") => AtStart("client")'
  BY <1>2 DEF AtStart
<1>11. /\ FlowInv("client", "server") => FlowInv("client", "server")'
       /\ FlowInv("server", "client") => FlowInv("server", "client")'
       /\ Quiet("client", "server") => Quiet("client", "server")'
       /\ Quiet("server", "client") => Quiet("server", "client")'
  <2>1. "client" \in Ends /\ "server" \in Ends
    BY DEF Ends
  <2>2. QED
    BY <2>1, <1>7, <1>8, EndsFacts
<1>12. StageInv'
  BY <1>2, <1>9, <1>10, <1>11 DEF IInv, StageInv
<1>13. QED
  BY <1>2, <1>5, <1>12 DEF IInv

\* The server goes on to poll() after an answer it could not write; nobody is
\* there to read the bytes that are missing.
LEMMA WriteFailsInv ==
  ASSUME IInv, NEW e \in Ends, WriteFails(e)
  PROVE  /\ IInv' /\ UNCHANGED <<stage, said, got>>
         /\ open' = open \/ open' = open \ {e}
<1>1. CASE CloseKeeping(e, 0)
  <2>1. 0 \in 0 .. Len(wire[e])
    BY DEF IInv, TypeInv
  <2>2. QED
    BY <1>1, <2>1, CloseInv
<1>2. CASE ~CloseKeeping(e, 0)
  <2>1. /\ e = "server" /\ pc["server"] \in Sending /\ "client" \notin open
        /\ pc' = [pc EXCEPT !["server"] = "poll"]
        /\ len' = [len EXCEPT !["server"] = 0]
        /\ UNCHANGED <<buf, size, said, got, open, wire, stage>>
    BY <1>2, EndsFacts DEF WriteFails, Sending
  <2>2. /\ stage = "answered" /\ pc["client"] \in Reading
        /\ FlowInv("server", "client") /\ Quiet("client", "server")
    BY <2>1 DEF IInv, StageInv, Sending, Reading
  <2>3. /\ pc'["server"] = "poll" /\ pc'["client"] = pc["client"]
        /\ len'["client"] = len["client"]
    BY <2>1 DEF IInv, TypeInv, Ends
  <2>4. TypeInv'
    BY <2>1 DEF IInv, TypeInv
  <2>5. wire["server"] = <<>>
    BY <2>1, <2>2 DEF FlowInv, WireInv
  <2>6. PieceInv("server", "client")'
    BY <2>1, <2>2, <2>3 DEF FlowInv, PieceInv, Carries
  <2>7. WireInv("server", "client")'
    <3> DEFINE m == said["server"]
    <3>1. Given("server")' = LenBytes + m
      BY <2>1, <2>3 DEF Given
    <3>2. /\ m \in Nat /\ LenBytes \in Nat /\ len["client"] \in Nat /\ len["client"] > 0
          /\ buf["client"] \in Seq(ByteSet)
          /\ len["client"] + Len(buf["client"]) = PieceSize(pc["client"], m)
      BY <2>2, EndsFacts DEF FlowInv, PieceInv, IInv, TypeInv, Ends
    <3>3. Len(buf["client"]) \in Nat
      BY <3>2
    <3>4. Taken("client")' = Before(pc["client"]) + Len(buf["client"])
      BY <2>1, <2>2, <2>3 DEF Taken
    <3>5. Before(pc["client"]) + Len(buf["client"]) <= LenBytes + m
      <4>1. CASE pc["client"] = "length"
        BY <3>2, <3>3, <4>1 DEF Before, PieceSize
      <4>2. CASE pc["client"] = "body"
        BY <3>2, <3>3, <4>2 DEF Before, PieceSize
      <4>3. QED
        BY <4>1, <4>2, <2>2 DEF Reading
    <3>6. Before(pc["client"]) \in Nat
      BY EndsFacts
    <3>7. Len(<<>>) = 0 /\ 0 <= (LenBytes + m) - (Before(pc["client"]) + Len(buf["client"]))
      BY <3>2, <3>3, <3>5, <3>6
    <3>8. Len(wire'["server"]) <= Given("server")' - Taken("client")'
      <4>1. wire'["server"] = <<>>
        BY <2>1, <2>5
      <4>2. Len(wire'["server"]) = 0
        BY <4>1, <3>7
      <4>3. QED
        BY <4>2, <3>1, <3>4, <3>7
    <3>9. QED
      BY <2>1, <2>5, <3>8 DEF WireInv, Carries, Ends
  <2>8. FlowInv("server", "client")'
    BY <2>1, <2>2, <2>3, <2>6, <2>7 DEF FlowInv
  <2>9. Quiet("client", "server")'
    BY <2>1, <2>2 DEF Quiet
  <2>10. StageInv'
    BY <2>1, <2>2, <2>3, <2>8, <2>9 DEF StageInv, Drained, AtStart
  <2>11. QED
    BY <2>1, <2>4, <2>10 DEF IInv
<1>3. QED
  BY <1>1, <1>2

-----------------------------------------------------------------------------
(* Every step keeps the invariant and is a step of Exchange. *)

\* What a step is to the two programs: one of Exchange, or none.
Maps ==
  \/ Abstract!HandOver("client", "idle", "asked")
  \/ Abstract!Arrive("server", "asked", "served")
  \/ Abstract!HandOver("server", "served", "answered")
  \/ Abstract!Arrive("client", "answered", "idle")
  \/ \E e \in Ends : Abstract!Break(e)
  \/ UNCHANGED <<stage, said, got, open>>

LEMMA NextInv == IInv /\ [Next]_vars => IInv' /\ Maps
<1> SUFFICES ASSUME IInv, [Next]_vars PROVE IInv' /\ Maps
  OBVIOUS
<1>1. CASE Call
  <2>1. stage = "idle" /\ IInv'
    BY <1>1, CallInv
  <2>2. Abstract!HandOver("client", "idle", "asked")
    BY <1>1, <2>1 DEF Call, StartSend, Abstract!HandOver
  <2>3. QED
    BY <2>1, <2>2 DEF Maps
<1>2. CASE Answer
  <2>1. stage = "served" /\ IInv'
    BY <1>2, AnswerInv
  <2>2. Abstract!HandOver("server", "served", "answered")
    BY <1>2, <2>1 DEF Answer, StartSend, Abstract!HandOver
  <2>3. QED
    BY <2>1, <2>2 DEF Maps
<1>3. CASE Poll
  BY <1>3, PollInv DEF Poll, Maps
<1>4. ASSUME NEW e \in Ends, NEW part \in Reading, NEW n \in Nat, Write(e, part, n)
      PROVE  IInv' /\ Maps
  BY <1>4, WriteInv DEF Maps
<1>5. ASSUME NEW e \in Ends, NEW part \in Reading, NEW n \in Nat, Read(e, part, n)
      PROVE  IInv' /\ Maps
  <2>1. /\ IInv' /\ UNCHANGED <<said, open>>
        /\ \/ UNCHANGED <<stage, got>>
           \/ /\ e \in open
              /\ stage = IF e = "client" THEN "answered" ELSE "asked"
              /\ stage' = IF e = "client" THEN "idle" ELSE "served"
              /\ got' = [got EXCEPT ![e] = said[Other(e)]]
    BY <1>5, ReadInv
  <2>2. CASE UNCHANGED <<stage, got>>
    BY <2>1, <2>2 DEF Maps
  <2>3. CASE ~UNCHANGED <<stage, got>> /\ e = "client"
    <3>1. Abstract!Arrive("client", "answered", "idle")
      BY <2>1, <2>3 DEF Abstract!Arrive, Abstract!Other, Other
    <3>2. QED
      BY <2>1, <3>1 DEF Maps
  <2>4. CASE ~UNCHANGED <<stage, got>> /\ e = "server"
    <3>1. Abstract!Arrive("server", "asked", "served")
      BY <2>1, <2>4 DEF Abstract!Arrive, Abstract!Other, Other
    <3>2. QED
      BY <2>1, <3>1 DEF Maps
  <2>5. QED
    BY <2>2, <2>3, <2>4 DEF Ends
<1>6. ASSUME NEW e \in Ends, NEW n \in 0 .. Len(wire[e]), e \in open, CloseKeeping(e, n)
      PROVE  IInv' /\ Maps
  <2>1. IInv' /\ UNCHANGED <<stage, said, got>> /\ open' = open \ {e}
    BY <1>6, CloseInv
  <2>2. Abstract!Break(e)
    BY <1>6, <2>1 DEF Abstract!Break
  <2>3. QED
    BY <2>1, <2>2 DEF Maps
<1>7. ASSUME NEW e \in Ends, ReadFails(e)
      PROVE  IInv' /\ Maps
  <2>1. 0 \in 0 .. Len(wire[e])
    BY DEF IInv, TypeInv
  <2>2. QED
    BY <1>6, <1>7, <2>1 DEF ReadFails
<1>8. ASSUME NEW e \in Ends, WriteFails(e)
      PROVE  IInv' /\ Maps
  <2>1. /\ IInv' /\ UNCHANGED <<stage, said, got>>
        /\ open' = open \/ open' = open \ {e}
    BY <1>8, WriteFailsInv
  <2>2. open' = open \/ Abstract!Break(e)
    BY <1>8, <2>1 DEF WriteFails, Abstract!Break
  <2>3. QED
    BY <2>1, <2>2 DEF Maps
<1>9. ASSUME NEW e \in Ends, Goes(e)
      PROVE  IInv' /\ Maps
  <2>1. \A n \in 1 .. Cap : n \in Nat
    BY FramingAssumption
  <2>2. QED
    BY <1>4, <1>5, <1>7, <1>8, <1>9, <2>1 DEF Goes, Reading
<1>10. ASSUME NEW e \in Ends, Close(e)
       PROVE  IInv' /\ Maps
  BY <1>6, <1>10 DEF Close
<1>11. CASE UNCHANGED vars
  BY <1>11, StutterInv DEF vars, Maps
<1>12. QED
  BY <1>1, <1>2, <1>3, <1>9, <1>10, <1>11 DEF Next

\* The inductive invariant of the two loops: by stage of the call, one message
\* flows and the other direction is quiet.
THEOREM Invariance == Spec => []IInv
<1>1. Init => IInv
  BY InitInv
<1>2. IInv /\ [Next]_vars => IInv'
  BY NextInv
<1>3. QED
  BY <1>1, <1>2, PTL DEF Spec

\* The two loops of recv_all and send_all deliver whole messages, once, in
\* each direction, in turn: they implement Exchange.
THEOREM DeliversWhole == Spec => WholeMessages
<1>1. Init => Abstract!Init
  BY DEF Init, Abstract!Init, Abstract!Ends, Ends
<1>2. IInv /\ [Next]_vars => [Abstract!Next]_(Abstract!exchangeVars)
  BY NextInv DEF Maps, Abstract!Next, Abstract!Ends, Ends, Abstract!exchangeVars
<1>3. QED
  BY <1>1, <1>2, Invariance, PTL DEF Spec, WholeMessages, Abstract!Spec

\* Bytes are never under way in both directions.
THEOREM NeverBothWays == Spec => []HalfDuplex
<1>1. IInv => HalfDuplex
  BY DEF IInv, StageInv, Quiet, HalfDuplex
<1>2. QED
  BY <1>1, Invariance, PTL

\* Two sequences of bytes of one message that both start with its first one.
LEMMA BothFromFirst ==
  ASSUME NEW m, NEW s \in Seq(ByteSet), NEW t \in Seq(ByteSet),
         Carries(s, m, 0), Carries(t, m, 0), Len(s) <= Len(t)
  PROVE  IsPrefix(s, t)
<1> DEFINE u == SubSeq(s, 1, Len(s))
           v == SubSeq(t, 1, Len(s))
<1>1. Len(s) \in 0 .. Len(s) /\ Len(s) \in 0 .. Len(t)
  OBVIOUS
<1>2. /\ u \in Seq(ByteSet) /\ Len(u) = Len(s) /\ Carries(u, m, 0)
      /\ v \in Seq(ByteSet) /\ Len(v) = Len(s) /\ Carries(v, m, 0)
  BY <1>1, CarriesParts
<1> HIDE DEF u, v
<1>3. \A i \in 1 .. Len(u) : u[i] = v[i]
  BY <1>2 DEF Carries
<1>4. u = v
  BY <1>2, <1>3
<1>5. QED
  BY <1>4 DEF IsPrefix, u, v

\* What an end has read and what it has yet to read is a part of the message
\* the other end sent, from its first byte on.
THEOREM NothingIsSkipped == Spec => []NothingSkipped
<1>1. IInv => NothingSkipped
  <2> SUFFICES ASSUME IInv, NEW e \in Ends,
                      pc[e] \in Reading, wire[Other(e)] # <<>>
               PROVE  IsPrefix((IF pc[e] = "body" THEN Bytes("length", size[e]) \o buf[e]
                                ELSE buf[e]) \o wire[Other(e)],
                               Bytes("length", said[Other(e)])
                                 \o Bytes("body", said[Other(e)]))
    BY DEF NothingSkipped, Reading
  <2> DEFINE o == Other(e)
             m == said[o]
             whole == Bytes("length", m) \o Bytes("body", m)
             read == IF pc[e] = "body" THEN Bytes("length", size[e]) \o buf[e] ELSE buf[e]
  <2>1. FlowInv(o, e) /\ o \in Ends
    BY Flows, EndsFacts
  <2>2. /\ m \in Lengths /\ m \in Nat /\ LenBytes \in Nat /\ m > 0 /\ LenBytes > 0
        /\ buf[e] \in Seq(ByteSet) /\ wire[o] \in Seq(ByteSet)
        /\ len[o] \in Nat
        /\ Carries(buf[e], m, Before(pc[e])) /\ Carries(wire[o], m, Taken(e))
        /\ Len(wire[o]) <= Given(o) - Taken(e)
        /\ pc[e] = "body" => size[e] = m
    BY <2>1, EndsFacts DEF FlowInv, PieceInv, WireInv, IInv, TypeInv
  <2>3. \A part \in Reading :
          /\ Bytes(part, m) \in Seq(ByteSet) /\ Len(Bytes(part, m)) = PieceSize(part, m)
          /\ Carries(Bytes(part, m), m, Before(part))
    BY <2>2, BytesCarry
  <2> HIDE DEF o, m
  <2>4. /\ Bytes("length", m) \in Seq(ByteSet) /\ Len(Bytes("length", m)) = LenBytes
        /\ Carries(Bytes("length", m), m, 0)
        /\ Bytes("body", m) \in Seq(ByteSet) /\ Len(Bytes("body", m)) = m
        /\ Carries(Bytes("body", m), m, LenBytes)
    BY <2>3 DEF Reading, PieceSize, Before
  <2>5. 0 + LenBytes = LenBytes /\ 0 \in Nat
    BY <2>2
  <2>6. whole \in Seq(ByteSet) /\ Len(whole) = LenBytes + m /\ Carries(whole, m, 0)
    BY <2>4, <2>5, CarriesBoth
  <2>7. read \in Seq(ByteSet) /\ Len(read) = Taken(e) /\ Carries(read, m, 0)
    <3>1. CASE pc[e] = "body"
      <4>1. read = Bytes("length", m) \o buf[e]
        BY <2>2, <3>1
      <4>2. Taken(e) = LenBytes + Len(buf[e]) /\ Carries(buf[e], m, LenBytes)
        BY <2>2, <3>1 DEF Taken, Before
      <4> HIDE DEF read
      <4>3. QED
        BY <4>1, <4>2, <2>2, <2>4, <2>5, CarriesBoth
    <3>2. CASE pc[e] = "length"
      <4>1. read = buf[e] /\ Before(pc[e]) = 0
        BY <3>2 DEF Before
      <4>2. Len(buf[e]) \in Nat
        BY <2>2
      <4>3. Taken(e) = Before(pc[e]) + Len(buf[e])
        BY <3>2 DEF Taken, Reading
      <4> HIDE DEF read
      <4>4. QED
        BY <4>1, <4>2, <4>3, <2>2
    <3>3. QED
      BY <3>1, <3>2 DEF Reading
  <2> HIDE DEF whole, read
  <2>8. /\ read \o wire[o] \in Seq(ByteSet) /\ Len(read \o wire[o]) = Len(read) + Len(wire[o])
        /\ Carries(read \o wire[o], m, 0)
    <3>1. Len(read) \in Nat /\ 0 + Len(read) = Taken(e)
      BY <2>7
    <3>2. QED
      BY <3>1, <2>2, <2>5, <2>7, CarriesBoth
  <2>9. Given(o) \in Int /\ Given(o) <= LenBytes + m
    <3>1. Given(o) = IF pc[o] = "send_length" THEN LenBytes - len[o]
                     ELSE IF pc[o] = "send_body" THEN LenBytes + m - len[o]
                     ELSE LenBytes + m
      BY DEF Given, m
    <3>2. QED
      BY <3>1, <2>2
  <2>10. Len(read \o wire[o]) <= Len(whole)
    <3>1. Len(read) \in Nat /\ Len(wire[o]) \in Nat
      BY <2>2, <2>7
    <3>2. QED
      BY <3>1, <2>2, <2>6, <2>7, <2>8, <2>9
  <2>11. IsPrefix(read \o wire[o], whole)
    BY <2>6, <2>8, <2>10, BothFromFirst
  <2>12. QED
    BY <2>11 DEF read, whole, m, o
<1>2. QED
  BY <1>1, Invariance, PTL

=============================================================================
