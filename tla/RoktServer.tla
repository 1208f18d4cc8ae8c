----------------------------- MODULE RoktServer -----------------------------
(***************************************************************************)
(* main of src/app/src/main.cpp around SyncService: the main thread itself *)
(* runs the epoll loop inside start(), then waits for keep_running to be   *)
(* cleared by a signal, then calls stop() and returns.                     *)
(***************************************************************************)
EXTENDS SyncService

VARIABLES
    keep_running,    \* cleared by signal_handler
    main             \* where the main thread stands

serverVars == <<vars, keep_running, main>>

ServerInit == Init /\ keep_running = TRUE /\ main = "start"

\* SIGINT or SIGTERM.  The epoll_wait it interrupts is EpollTimeout.
SignalHandler ==
    /\ up /\ keep_running
    /\ keep_running' = FALSE
    /\ UNCHANGED <<vars, main>>

StartReturns ==
    /\ up /\ main = "start" /\ io = "returned"
    /\ main' = "wait"
    /\ UNCHANGED <<vars, keep_running>>

\* stop_condition.wait has found keep_running cleared.
WaitEnds ==
    /\ up /\ main = "wait" /\ ~keep_running
    /\ main' = "stop"
    /\ UNCHANGED <<vars, keep_running>>

CallStop == main = "stop" /\ Stop /\ UNCHANGED <<keep_running, main>>

MainReturns ==
    /\ up /\ main = "stop" /\ stopper = "done"
    /\ main' = "returned"
    /\ UNCHANGED <<vars, keep_running>>

ServerNext ==
    \/ main # "returned" /\ Serve /\ UNCHANGED <<keep_running, main>>
    \/ SignalHandler \/ StartReturns \/ WaitEnds \/ CallStop \/ MainReturns

\* The fairness of the threads of SyncService, and the main thread keeps running.
ServerFairSpec ==
    /\ ServerInit /\ [][ServerNext]_serverVars
    /\ Fairness
    /\ WF_serverVars(StartReturns \/ WaitEnds \/ CallStop \/ MainReturns)

-----------------------------------------------------------------------------
\* signal_handler is there for a clean stop of the server: once a signal has
\* come, main returns.
SignalStopsServer == ~keep_running ~> (main = "returned" \/ ~up)
=============================================================================
