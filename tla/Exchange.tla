------------------------------- MODULE Exchange -------------------------------
(***************************************************************************)
(* What a connection promises the two programs that use it: a call is a    *)
(* request that arrives whole, once, and an answer that comes back whole,  *)
(* once; or an end of the connection breaks and the call stays where it    *)
(* is.  No bytes and no lengths.                                           *)
(***************************************************************************)
CONSTANTS
  Payloads,  \* the messages
  Nothing    \* no message

VARIABLES
  stage,     \* how far the call is
  said,      \* the message each end last handed over
  got,       \* the message each end last received
  up         \* the ends that still use the connection

exchangeVars == <<stage, said, got, up>>

Ends == {"client", "server"}
Other(e) == IF e = "client" THEN "server" ELSE "client"

Init ==
  /\ stage = "idle"
  /\ said = [e \in Ends |-> Nothing]
  /\ got = [e \in Ends |-> Nothing]
  /\ up = Ends

HandOver(e, from, to) ==
  /\ stage = from /\ e \in up
  /\ \E m \in Payloads : said' = [said EXCEPT ![e] = m]
  /\ stage' = to
  /\ UNCHANGED <<got, up>>

Arrive(e, from, to) ==
  /\ stage = from /\ e \in up
  /\ got' = [got EXCEPT ![e] = said[Other(e)]]
  /\ stage' = to
  /\ UNCHANGED <<said, up>>

Break(e) ==
  /\ e \in up
  /\ up' = up \ {e}
  /\ UNCHANGED <<stage, said, got>>

Next ==
  \/ HandOver("client", "idle", "asked")
  \/ Arrive("server", "asked", "served")
  \/ HandOver("server", "served", "answered")
  \/ Arrive("client", "answered", "idle")
  \/ \E e \in Ends : Break(e)

Spec == Init /\ [][Next]_exchangeVars

=============================================================================
