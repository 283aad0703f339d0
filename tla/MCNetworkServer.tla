--------------------------- MODULE MCNetworkServer ---------------------------
(***************************************************************************)
(* The clients of the runs of NetworkServer.                               *)
(***************************************************************************)
EXTENDS NetworkServer, TLC

CONSTANTS c1, c2, c3

\* No client is treated differently from another.
Interchangeable == Permutations(Clients)

=============================================================================
