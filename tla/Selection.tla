------------------------------ MODULE Selection ------------------------------
(***************************************************************************)
(* The elements of a sequence that are in a set, in their order: what the  *)
(* loops over the rows of a table gather, e.g. applyProjection of          *)
(* GetCommandHandler.h.  It is SelectSeq with a set for the test, as a     *)
(* recursive function, which can be reasoned about.                        *)
(***************************************************************************)
EXTENDS Naturals, Sequences

\* Gathered(s, S)[n]: those among the first n.
Gathered(s, S) ==
    LET from[n \in 0..Len(s)] ==
            IF n = 0 THEN <<>>
            ELSE IF s[n] \in S THEN Append(from[n - 1], s[n]) ELSE from[n - 1]
    IN from

Among(s, S) == Gathered(s, S)[Len(s)]
=============================================================================
