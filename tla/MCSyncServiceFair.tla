------------------------- MODULE MCSyncServiceFair --------------------------
(***************************************************************************)
(* The instance of SyncService for the liveness properties and for         *)
(* backpressure: one worker, two clients with a descriptor each, and a     *)
(* threshold of one task, so the queue is long before the worker wakes up. *)
(***************************************************************************)
EXTENDS SyncService

CONSTANTS c1, c2

\* A low priority that can be overtaken, and a high one.
MCCommand == [c \in Conn |-> CASE c = c1 -> "GET"
                              [] OTHER  -> "CREATE"]
=============================================================================
