---------------------------- MODULE MCRemoteTree ----------------------------
(***************************************************************************)
(* The clients of the run of RemoteTree.                                   *)
(***************************************************************************)
EXTENDS RemoteTree, TLC

CONSTANTS c1, c2

\* No client is treated differently from another.
Interchangeable == Permutations(Clients)

=============================================================================
