--------------------------- MODULE MCSyncService ----------------------------
(***************************************************************************)
(* The instance of SyncService for the safety properties: three clients    *)
(* share two descriptors, so that a number is closed and reused.           *)
(***************************************************************************)
EXTENDS SyncService, TLC

CONSTANTS c1, c2, c3, f1, f2, w1, w2

\* An unknown word and two commands whose handler may throw.
MCCommand == [c \in Conn |-> IF c = c1 THEN "PING" ELSE "CREATE"]
MCMayThrow == {c2, c3}

Symmetry == Permutations({c2, c3}) \cup Permutations({f1, f2})
            \cup Permutations({w1, w2})
=============================================================================
