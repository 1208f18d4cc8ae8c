---------------------------- MODULE RequestReply ----------------------------
(***************************************************************************)
(* What the network front end promises to the client of one connection,    *)
(* whatever the threads, the queue and the descriptors do in between: one  *)
(* connection carries one request, its handler runs at most once, at most  *)
(* one reply is written, the reply answers the request of that very        *)
(* connection, a refused request (503) is never executed, and nothing      *)
(* happens on a connection once it is closed.                              *)
(*                                                                         *)
(* The connections are those of src/app/lib/SyncService.cpp, whose model   *)
(* SyncService is checked to implement this specification.                 *)
(***************************************************************************)
EXTENDS Naturals, Sequences

CONSTANTS
    Conn,        \* client connections, each of which carries one request
    Known        \* the connections whose request names a registered command

VARIABLES
    conn,        \* conn[c]: "new", "open" or "closed"
    runs,        \* runs[c]: how many times a handler ran the request of c
    replies      \* replies[c]: what the server wrote on c, in order

vars == <<conn, runs, replies>>

Answer(c, code) == [request |-> c, code |-> code]

Init ==
    /\ conn = [c \in Conn |-> "new"]
    /\ runs = [c \in Conn |-> 0]
    /\ replies = [c \in Conn |-> <<>>]

Connect(c) ==
    /\ conn[c] = "new"
    /\ conn' = [conn EXCEPT ![c] = "open"]
    /\ UNCHANGED <<runs, replies>>

Execute(c) ==
    /\ conn[c] = "open" /\ c \in Known
    /\ runs[c] = 0 /\ replies[c] = <<>>
    /\ runs' = [runs EXCEPT ![c] = 1]
    /\ UNCHANGED <<conn, replies>>

\* 0 stands for whatever the handler answered, 504 for an answer that came
\* too late, 1 for a command no handler is registered for.
Reply(c) ==
    /\ conn[c] = "open" /\ replies[c] = <<>>
    /\ \E code \in {0, 1, 504}:
          /\ code = 0 => runs[c] = 1
          /\ code = 1 => c \notin Known
          /\ replies' = [replies EXCEPT ![c] = <<Answer(c, code)>>]
    /\ UNCHANGED <<conn, runs>>

\* A full queue: the refusal and the close are one step, and the request is
\* dropped without having run.
Refuse(c) ==
    /\ conn[c] = "open" /\ runs[c] = 0 /\ replies[c] = <<>>
    /\ replies' = [replies EXCEPT ![c] = <<Answer(c, 503)>>]
    /\ conn' = [conn EXCEPT ![c] = "closed"]
    /\ UNCHANGED runs

Close(c) ==
    /\ conn[c] = "open"
    /\ conn' = [conn EXCEPT ![c] = "closed"]
    /\ UNCHANGED <<runs, replies>>

Next == \E c \in Conn:
            Connect(c) \/ Execute(c) \/ Reply(c) \/ Refuse(c) \/ Close(c)

Spec == Init /\ [][Next]_vars
=============================================================================
