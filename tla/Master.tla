------------------------------- MODULE Master -------------------------------
(***************************************************************************)
(* The process: main (src/main.c) from the PID file to exit, and the        *)
(* gateway threads of src/iec104/iec104.c that iec104_master_run starts and *)
(* joins.  Every thread runs iec104_gateway_run: a session, then a pause    *)
(* that doubles, then the next session, until the stop flag is cleared.     *)
(*                                                                          *)
(* A session is seen from outside, as module SessionCall describes it and   *)
(* module Session implements it: it may reach the confirmed state, may fail *)
(* with -1 at any time, and returns 0 only once it saw the stop flag.       *)
(* While it runs it uses the point store and the log.                       *)
(***************************************************************************)
EXTENDS Integers

CONSTANTS
    GATEWAY_COUNT,          \* config->gateway_count
    reconnect_initial_sec,
    reconnect_max_sec

ASSUME MasterAssumption ==
    /\ GATEWAY_COUNT \in Nat
    /\ reconnect_initial_sec \in Nat \ {0}
    /\ reconnect_max_sec \in Nat /\ reconnect_max_sec >= reconnect_initial_sec

VARIABLES
    main,      \* next statement of main or of iec104_master_run
    running,   \* g_running
    thread,    \* thread[g]: the thread of gateway g and its locals
    started,   \* started_count
    joined,    \* threads already joined
    result,    \* what iec104_master_run returns
    store,     \* the point store: "none", "live" or "destroyed"
    log,       \* the log files: "closed" or "open"
    pidfile,   \* the PID file: "free" or "held"
    exit_code  \* what main returned: -1 before it does

vars == <<main, running, thread, started, joined, result, store, log, pidfile, exit_code>>
resources == <<store, log, pidfile>>

Gateways == 1..GATEWAY_COUNT
EXIT_SUCCESS == 0
EXIT_FAILURE == 1

(***************************************************************************)
(* pc "none" before pthread_create; "head" the test of the while; "session" *)
(* inside session_loop; "check" after it; "sleep" in the pause; "done" when *)
(* the thread returned.  established: the session saw STARTDT_CON.          *)
(***************************************************************************)
Thread == [pc : {"none", "head", "session", "check", "sleep", "done"},
           reconnect_delay : reconnect_initial_sec..reconnect_max_sec,
           slept : 0..reconnect_max_sec, rc : {-1, 0}, established : BOOLEAN]

\* A definition whose name ends in _faulty is its neighbour with a plausible mistake,
\* kept only to check that a property below would notice the mistake.
NextDelay_faulty(d) == 2 * d
NextDelay(d) ==
    IF d >= reconnect_max_sec THEN d
    ELSE IF 2 * d > reconnect_max_sec THEN reconnect_max_sec ELSE 2 * d

Init ==
    /\ main = "acquire" /\ running = TRUE
    /\ thread = [g \in Gateways |->
                    [pc |-> "none", reconnect_delay |-> reconnect_initial_sec,
                     slept |-> 0, rc |-> 0, established |-> FALSE]]
    /\ started = 0 /\ joined = 0 /\ result = 0
    /\ store = "none" /\ log = "closed" /\ pidfile = "free"
    /\ exit_code = -1

(***************************************************************************)
(* main and iec104_master_run.                                              *)
(***************************************************************************)
Exit(code) == main' = "exited" /\ exit_code' = code

AcquirePidfile ==
    /\ main = "acquire"
    /\ \/ main' = "log_init" /\ pidfile' = "held" /\ UNCHANGED exit_code
       \/ Exit(EXIT_FAILURE) /\ UNCHANGED pidfile
    /\ UNCHANGED <<running, thread, started, joined, result, store, log>>

LogInit ==
    /\ main = "log_init"
    /\ \/ main' = "store" /\ log' = "open" /\ UNCHANGED <<pidfile, exit_code>>
       \/ Exit(EXIT_FAILURE) /\ pidfile' = "free" /\ UNCHANGED log
    /\ UNCHANGED <<running, thread, started, joined, result, store>>

CreateStore ==
    /\ main = "store"
    /\ \/ main' = "create" /\ store' = "live" /\ UNCHANGED result
       \/ main' = "cleanup" /\ result' = -1 /\ UNCHANGED store
    /\ UNCHANGED <<running, thread, started, joined, log, pidfile, exit_code>>

\* A failed pthread_create clears *running: the threads already started must stop.
FlagAfterFailure_faulty == running
FlagAfterFailure == FALSE

StartThread ==
    /\ main = "create"
    /\ IF GATEWAY_COUNT = 0
       THEN main' = "cleanup" /\ result' = -1 /\ UNCHANGED <<running, thread, started>>
       ELSE \/ /\ thread' = [thread EXCEPT ![started + 1].pc = "head"]
               /\ started' = started + 1
               /\ main' = IF started' = GATEWAY_COUNT THEN "join" ELSE "create"
               /\ UNCHANGED <<running, result>>
            \/ /\ running' = FlagAfterFailure /\ result' = -1 /\ main' = "join"
               /\ UNCHANGED <<thread, started>>
    /\ UNCHANGED <<joined, resources, exit_code>>

AllJoined_faulty == TRUE
AllJoined == joined = started

JoinThread ==
    /\ main = "join" /\ ~AllJoined
    /\ thread[joined + 1].pc = "done"
    /\ joined' = joined + 1
    /\ UNCHANGED <<main, running, thread, started, result, resources, exit_code>>

MasterReturns ==
    /\ main = "join" /\ AllJoined
    /\ main' = "cleanup"
    /\ UNCHANGED <<running, thread, started, joined, result, resources, exit_code>>

DestroyStore ==
    /\ main = "cleanup"
    /\ main' = "log_close"
    /\ store' = IF store = "live" THEN "destroyed" ELSE store
    /\ UNCHANGED <<running, thread, started, joined, result, log, pidfile, exit_code>>

LogClose ==
    /\ main = "log_close"
    /\ main' = "release" /\ log' = "closed"
    /\ UNCHANGED <<running, thread, started, joined, result, store, pidfile, exit_code>>

ReleasePidfile ==
    /\ main = "release"
    /\ pidfile' = "free"
    /\ Exit(IF result = 0 THEN EXIT_SUCCESS ELSE EXIT_FAILURE)
    /\ UNCHANGED <<running, thread, started, joined, result, store, log>>

Main ==
    \/ AcquirePidfile \/ LogInit \/ CreateStore
    \/ StartThread \/ JoinThread \/ MasterReturns
    \/ DestroyStore \/ LogClose \/ ReleasePidfile

(***************************************************************************)
(* One gateway thread.                                                      *)
(***************************************************************************)
ThreadStep == UNCHANGED <<main, running, started, joined, result, resources, exit_code>>

Head(g) ==
    /\ thread[g].pc = "head"
    /\ thread' = [thread EXCEPT ![g].pc = IF running THEN "session" ELSE "done",
                                ![g].established = FALSE]
    /\ ThreadStep

\* The session's STARTDT was confirmed.
Established(g) ==
    /\ thread[g].pc = "session" /\ ~thread[g].established
    /\ thread' = [thread EXCEPT ![g].established = TRUE]
    /\ ThreadStep

SessionReturns(g) ==
    /\ thread[g].pc = "session"
    /\ \E r \in {-1, 0} :
          /\ r = 0 => ~running
          /\ thread' = [thread EXCEPT ![g].pc = "check", ![g].rc = r]
    /\ ThreadStep

\* What follows a session: leave, start over at once, or pause.
AfterSession_faulty(g) ==
    IF ~running \/ thread[g].rc # 0
    THEN [thread[g] EXCEPT !.pc = "done"]
    ELSE [thread[g] EXCEPT !.pc = "head", !.reconnect_delay = reconnect_initial_sec]
AfterSession(g) ==
    IF ~running THEN [thread[g] EXCEPT !.pc = "done"]
    ELSE IF thread[g].rc = 0
         THEN [thread[g] EXCEPT !.pc = "head", !.reconnect_delay = reconnect_initial_sec]
         ELSE [thread[g] EXCEPT !.pc = "sleep", !.slept = 0]

Check(g) ==
    /\ thread[g].pc = "check"
    /\ thread' = [thread EXCEPT ![g] = AfterSession(g)]
    /\ ThreadStep

\* The condition of the pause's for loop.
SleepsOn(g) == thread[g].slept < thread[g].reconnect_delay /\ running

SleepSecond(g) ==
    /\ thread[g].pc = "sleep" /\ SleepsOn(g)
    /\ thread' = [thread EXCEPT ![g].slept = @ + 1]
    /\ ThreadStep

WakeUp(g) ==
    /\ thread[g].pc = "sleep" /\ ~SleepsOn(g)
    /\ thread' = [thread EXCEPT ![g].pc = "head",
                                ![g].reconnect_delay = NextDelay(@)]
    /\ ThreadStep

Gateway(g) ==
    Head(g) \/ Established(g) \/ SessionReturns(g) \/ Check(g) \/ SleepSecond(g) \/ WakeUp(g)

\* handle_signal
Signal ==
    /\ running /\ main # "exited"
    /\ running' = FALSE
    /\ UNCHANGED <<main, thread, started, joined, result, resources, exit_code>>

Terminated == main = "exited" /\ UNCHANGED vars

Next == Main \/ (\E g \in Gateways : Gateway(g)) \/ Signal \/ Terminated

Spec == Init /\ [][Next]_vars

(***************************************************************************)
(* Threads are scheduled.  A session need not end while the program runs;   *)
(* once the stop flag is cleared it does (StopsAfterSignal of Session).     *)
(***************************************************************************)
Prompt(g) ==
    Head(g) \/ Check(g) \/ SleepSecond(g) \/ WakeUp(g) \/ (~running /\ SessionReturns(g))

FairSpec == Spec /\ WF_vars(Main) /\ \A g \in Gateways : WF_vars(Prompt(g))

(***************************************************************************)
(* Properties.                                                              *)
(***************************************************************************)
\* Types; the pause never passes reconnect_max_sec.
TypeOK ==
    /\ main \in {"acquire", "log_init", "store", "create", "join", "cleanup",
                 "log_close", "release", "exited"}
    /\ running \in BOOLEAN
    /\ thread \in [Gateways -> Thread]
    /\ started \in 0..GATEWAY_COUNT /\ joined \in 0..started
    /\ result \in {-1, 0}
    /\ store \in {"none", "live", "destroyed"}
    /\ log \in {"closed", "open"} /\ pidfile \in {"free", "held"}
    /\ exit_code \in {-1, EXIT_SUCCESS, EXIT_FAILURE}

\* No thread runs without the point store, the log and the PID file it relies on, on
\* any path: normal stop, a thread that could not be created, a stop during start-up.
ResourcesOutliveThreads ==
    \A g \in Gateways :
        thread[g].pc \notin {"none", "done"} =>
            store = "live" /\ log = "open" /\ pidfile = "held"

\* The failures of one gateway never end its thread, let alone another's: a thread ends
\* only after the stop flag was cleared.
ThreadsEndOnlyOnStop ==
    running => \A g \in Gateways : thread[g].pc # "done"

\* EXIT_SUCCESS is returned only if every configured gateway had its thread and every
\* thread has returned, never after a start-up failure.
SuccessMeansAllRan ==
    exit_code = EXIT_SUCCESS =>
        /\ GATEWAY_COUNT > 0
        /\ \A g \in Gateways : thread[g].pc = "done"

\* A stop ends the process, and so does a failed start-up: the threads that were created
\* before a failed pthread_create notice, and main does not wait for them for ever.
StopEndsProcess == (~running \/ result = -1) ~> main = "exited"

\* A gateway whose session was lost is tried again, unless the program stops first.
LostGatewayRetried ==
    \A g \in Gateways : thread[g].pc = "check" ~> (thread[g].pc = "session" \/ ~running)

\* A session that had been confirmed puts the pause back to reconnect_initial_sec, as
\* the reset of iec104.c:146-149 intends: the doubling is for failures in a row.
BackoffRestarts ==
    \A g \in Gateways :
        thread[g].pc = "sleep" /\ thread[g].established =>
            thread[g].reconnect_delay = reconnect_initial_sec
============================================================================
