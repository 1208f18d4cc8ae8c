---------------------------- MODULE MCRoktServer ----------------------------
(***************************************************************************)
(* The smallest instance of RoktServer: one client, one worker.            *)
(***************************************************************************)
EXTENDS RoktServer

CONSTANT c1

MCCommand == [c \in Conn |-> "GET"]
=============================================================================
