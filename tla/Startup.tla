------------------------------- MODULE Startup -------------------------------
(***************************************************************************)
(* main (src/main.c) from the command line to the PID file, where module    *)
(* Master takes over: options, config_load as module Config has it, the     *)
(* options that override it, the signal handlers, and process_daemonize     *)
(* (src/process/process.c) with its two forks.                              *)
(*                                                                          *)
(* The program runs in one process at a time; the parents only exit.        *)
(* Whoever launched it sees the first process: its exit status, and what it *)
(* prints on the terminal.                                                  *)
(***************************************************************************)
EXTENDS Config

CONSTANTS Options, None   \* command lines: sets of options; "?" is a bad one

ASSUME StartupAssumption ==
    /\ \A o \in Options : o \subseteq {"d", "f", "v", "h", "?"}
    /\ None \notin 0..2   \* the exit statuses

VARIABLES
    step,       \* next statement of main or process_daemonize
    options,    \* what getopt found
    process,    \* which process runs main: "launched", "child" or "daemon"
    status,     \* exit status of the launched process, or None while it runs
    result,     \* exit status of the process that runs main, or None
    session,    \* its session: "inherited", "leader" or "member" of one without terminal
    cwd, stdio, \* "inherited", or "root" and "null"
    running,    \* g_running
    handlers,   \* SIGINT and SIGTERM are handled
    said        \* history: a failure was explained on the launcher's terminal

main_vars == <<step, options, process, status, result, session, cwd, stdio,
               running, handlers, said>>
vars == <<load_vars, main_vars>>
environment == <<session, cwd, stdio>>

EXIT_SUCCESS == 0
EXIT_FAILURE == 1
KILLED == 2   \* ended by a signal

Init ==
    /\ LoadInit
    /\ options \in Options
    /\ step = "options" /\ process = "launched"
    /\ status = None /\ result = None
    /\ session = "inherited" /\ cwd = "inherited" /\ stdio = "inherited"
    /\ running = TRUE /\ handlers = FALSE /\ said = FALSE

\* The process that runs main ends.
Exit(code) ==
    /\ step' = "ended" /\ result' = code
    /\ status' = IF process = "launched" THEN code ELSE status

Explain == said' = (said \/ stdio = "inherited")

Getopt ==
    /\ step = "options"
    /\ IF options \cap {"h", "?"} = {}
       THEN step' = "load" /\ UNCHANGED <<status, result, said>>
       ELSE Exit(IF "?" \in options THEN EXIT_FAILURE ELSE EXIT_SUCCESS) /\ Explain
    /\ UNCHANGED <<load_vars, options, process, environment, running, handlers>>

\* config_load prints why it refuses a file.
Load ==
    /\ step = "load" /\ LoadNext
    /\ IF load' = "refused" THEN Explain ELSE UNCHANGED said
    /\ UNCHANGED <<step, options, process, status, result, environment, running, handlers>>

LoadReturns_faulty ==
    /\ step = "load" /\ load \in {"accepted", "refused"}
    /\ step' = "override"
    /\ UNCHANGED <<load_vars, options, process, status, result, environment, running, handlers,
                   said>>
LoadReturns ==
    /\ step = "load" /\ load \in {"accepted", "refused"}
    /\ IF load = "accepted"
       THEN step' = "override" /\ UNCHANGED <<status, result>>
       ELSE Exit(EXIT_FAILURE)
    /\ UNCHANGED <<load_vars, options, process, environment, running, handlers, said>>

Daemonize_faulty ==
    IF "d" \in options THEN TRUE ELSE IF "f" \in options THEN FALSE ELSE flag["daemonize"]
Daemonize ==
    IF "f" \in options THEN FALSE ELSE IF "d" \in options THEN TRUE ELSE flag["daemonize"]

Override ==
    /\ step = "override"
    /\ flag' = [flag EXCEPT !["daemonize"] = Daemonize]
    /\ debug_level' = IF "v" \in options THEN "detail" ELSE debug_level
    /\ step' = "signals"
    /\ UNCHANGED <<file, table, setting, threshold, saw, load, indices, options, process,
                   status, result, environment, running, handlers, said>>

\* sigaction may fail.
InstallHandlers ==
    /\ step = "signals"
    /\ \/ /\ handlers' = TRUE
          /\ step' = IF flag["daemonize"] THEN "fork" ELSE "acquire"
          /\ UNCHANGED <<status, result, said>>
       \/ Exit(EXIT_FAILURE) /\ Explain /\ UNCHANGED handlers
    /\ UNCHANGED <<load_vars, options, process, environment, running>>

(***************************************************************************)
(* process_daemonize.  A step that fails makes main explain and exit.       *)
(***************************************************************************)
DaemonizeFails ==
    /\ step \in {"fork", "setsid", "fork again", "chdir", "null"}
    /\ Exit(EXIT_FAILURE) /\ Explain
    /\ UNCHANGED <<load_vars, options, process, environment, running, handlers>>

\* The parent is the launched process, and exits.
Fork ==
    /\ step = "fork"
    /\ process' = "child" /\ status' = EXIT_SUCCESS
    /\ step' = "setsid"
    /\ UNCHANGED <<load_vars, options, result, environment, running, handlers, said>>

Setsid ==
    /\ step = "setsid"
    /\ session' = "leader"
    /\ step' = "fork again"
    /\ UNCHANGED <<load_vars, options, process, status, result, cwd, stdio, running, handlers,
                   said>>

\* A child of the session leader is no leader: it cannot get a terminal again.
ForkAgain ==
    /\ step = "fork again"
    /\ process' = "daemon" /\ session' = "member"
    /\ step' = "chdir"
    /\ UNCHANGED <<load_vars, options, status, result, cwd, stdio, running, handlers, said>>

Chdir ==
    /\ step = "chdir"
    /\ cwd' = "root"
    /\ step' = "null"
    /\ UNCHANGED <<load_vars, options, process, status, result, session, stdio, running,
                   handlers, said>>

DevNull ==
    /\ step = "null"
    /\ stdio' = "null"
    /\ step' = "acquire"
    /\ UNCHANGED <<load_vars, options, process, status, result, session, cwd, running,
                   handlers, said>>

\* SIGTERM or SIGINT: kills the process until the handlers are there.
Signal ==
    /\ step \notin {"acquire", "ended"} /\ running
    /\ IF handlers
       THEN running' = FALSE /\ UNCHANGED <<step, status, result>>
       ELSE Exit(KILLED) /\ UNCHANGED running
    /\ UNCHANGED <<load_vars, options, process, environment, handlers, said>>

\* main goes on in module Master, with process_pidfile_acquire, or has ended.
HandedOver == step \in {"acquire", "ended"} /\ UNCHANGED vars

Main ==
    \/ Getopt \/ Load \/ LoadReturns \/ Override \/ InstallHandlers
    \/ Fork \/ Setsid \/ ForkAgain \/ Chdir \/ DevNull \/ DaemonizeFails

Next == Main \/ Signal \/ HandedOver

\* main is not blocked anywhere before the PID file; files end.
Spec == Init /\ [][Next]_vars
FairSpec == Spec /\ WF_vars(Main) /\ WF_vars(step = "load" /\ EndOfFile /\ UNCHANGED main_vars)

(***************************************************************************)
(* Properties.                                                              *)
(***************************************************************************)
\* Types, those of the configuration included.
TypeOK ==
    /\ LoadTypeOK
    /\ options \in Options
    /\ step \in {"options", "load", "override", "signals", "fork", "setsid", "fork again",
                 "chdir", "null", "acquire", "ended"}
    /\ process \in {"launched", "child", "daemon"}
    /\ status \in {None, EXIT_SUCCESS, EXIT_FAILURE, KILLED}
    /\ result \in {None, EXIT_SUCCESS, EXIT_FAILURE, KILLED}
    /\ session \in {"inherited", "leader", "member"}
    /\ cwd \in {"inherited", "root"} /\ stdio \in {"inherited", "null"}
    /\ running \in BOOLEAN /\ handlers \in BOOLEAN /\ said \in BOOLEAN

\* An error in the command line or in the configuration is always found while the launched
\* process still runs: it ends with EXIT_FAILURE and an explanation on the terminal, never
\* with the success a daemon's parent reports.
ErrorsReported ==
    /\ status = EXIT_SUCCESS => load = "accepted" \/ "h" \in options
    /\ load = "refused" => said /\ status \in {None, EXIT_FAILURE, KILLED}
    /\ result = EXIT_FAILURE => said \/ status = EXIT_SUCCESS
    /\ step = "acquire" => load = "accepted"

\* main goes on where the command line asks it to, or else the file, with -f stronger than
\* -d (the systemd unit passes -f and watches the launched process): either in the launched
\* process, with everything it inherited, or in a process that has left it and its terminal
\* for good.
RunsWhereAsked ==
    step = "acquire" =>
        LET asked == "d" \in options \/ FlagMeant(file, "daemonize")
        IN  IF asked /\ "f" \notin options
            THEN /\ process = "daemon" /\ status = EXIT_SUCCESS
                 /\ session = "member" /\ cwd = "root" /\ stdio = "null"
            ELSE /\ process = "launched" /\ status = None
                 /\ session = "inherited" /\ cwd = "inherited" /\ stdio = "inherited"

\* A start always comes to an end: main goes on with a configuration, or some process has
\* said why not.
StartupEnds == <>(step = "acquire" \/ result # None)
=============================================================================
