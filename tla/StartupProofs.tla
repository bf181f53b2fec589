----------------------------- MODULE StartupProofs -----------------------------
(***************************************************************************)
(* Proofs about Startup, for every set of command lines and every file:     *)
(* errors reach whoever launched the program, what goes on to the PID file  *)
(* has a usable configuration, and it runs in the process and environment   *)
(* that command line and file ask for.                                      *)
(***************************************************************************)
EXTENDS Startup, ConfigProofs

Early == {"options", "load", "override", "signals", "fork"}
Late == {"setsid", "fork again", "chdir", "null"}

Inherited == session = "inherited" /\ cwd = "inherited" /\ stdio = "inherited"

\* Where main runs at each step, and what its launcher has seen.
Place ==
    /\ step \in Early => process = "launched" /\ status = None /\ Inherited
    /\ step \in Late => process # "launched" /\ status = EXIT_SUCCESS /\ stdio = "inherited"
    /\ step = "setsid" => process = "child" /\ Inherited
    /\ step = "chdir" => process = "daemon" /\ session = "member"
    /\ step = "null" => process = "daemon" /\ session = "member" /\ cwd = "root"
    /\ step = "acquire" =>
          IF flag["daemonize"]
          THEN /\ process = "daemon" /\ status = EXIT_SUCCESS
               /\ session = "member" /\ cwd = "root" /\ stdio = "null"
          ELSE process = "launched" /\ status = None /\ Inherited

\* How far the configuration is at each step.
Loaded ==
    /\ step = "options" => load = "read"
    /\ step \in ({"override", "signals", "fork", "acquire"} \cup Late) => load = "accepted"
    /\ load = "refused" => said /\ step \in {"load", "ended"}

\* How the program may have ended.
Ended ==
    /\ result # None => step = "ended"
    /\ step = "ended" =>
          /\ status = EXIT_SUCCESS => load = "accepted" \/ "h" \in options
          /\ load = "refused" => status \in {EXIT_FAILURE, KILLED}
          /\ result = EXIT_FAILURE => said \/ status = EXIT_SUCCESS

\* The flag is that of the last line about it, until Override.
FileAsks == FlagFollows("daemonize")

\* What Override makes of it.
Asked == "f" \notin options /\ ("d" \in options \/ FlagMeant(file, "daemonize"))

Wished ==
    /\ step \in {"options", "load", "override"} /\ load # "refused" => FileAsks
    /\ step \in ({"signals", "fork", "acquire"} \cup Late) => (flag["daemonize"] <=> Asked)
    /\ step \in ({"fork"} \cup Late) => flag["daemonize"]

-----------------------------------------------------------------------------
\* The types of this module's own variables.
MainTypeOK ==
    /\ options \in Options
    /\ step \in {"options", "load", "override", "signals", "fork", "setsid", "fork again",
                 "chdir", "null", "acquire", "ended"}
    /\ process \in {"launched", "child", "daemon"}
    /\ status \in {None, EXIT_SUCCESS, EXIT_FAILURE, KILLED}
    /\ result \in {None, EXIT_SUCCESS, EXIT_FAILURE, KILLED}
    /\ session \in {"inherited", "leader", "member"}
    /\ cwd \in {"inherited", "root"} /\ stdio \in {"inherited", "null"}
    /\ running \in BOOLEAN /\ handlers \in BOOLEAN /\ said \in BOOLEAN

StartInv == LoadInv /\ FileInv /\ MainTypeOK /\ Place /\ Loaded /\ Ended /\ Wished

LEMMA Types == LoadInv => (TypeOK <=> MainTypeOK)
  BY DEF LoadInv, TypeOK, MainTypeOK

LEMMA Statuses == None # EXIT_SUCCESS /\ None # EXIT_FAILURE /\ None # KILLED
                  /\ EXIT_SUCCESS # EXIT_FAILURE /\ EXIT_SUCCESS # KILLED /\ EXIT_FAILURE # KILLED
  BY StartupAssumption DEF EXIT_SUCCESS, EXIT_FAILURE, KILLED

\* A step that leaves the configuration alone leaves all that is said of it alone.
LEMMA LoadKept ==
    ASSUME LoadInv, FileInv, UNCHANGED load_vars, UNCHANGED options
    PROVE  /\ LoadInv' /\ FileInv' /\ (FileAsks' <=> FileAsks) /\ (Asked' <=> Asked)
           /\ UNCHANGED load /\ flag' = flag /\ debug_level' = debug_level
  <1>1. UNCHANGED <<file, gateways, gateway_count, setting, threshold, flag, debug_level,
                    saw_gateway_keys, saw_legacy_gateway_keys, load, read_index, write_index>>
    BY DEF load_vars, table, globals, saw, indices
  <1>2. LoadInv' /\ FileInv'
    BY LoadNextInv, FileStep
  <1>3. FileAsks' <=> FileAsks
    BY <1>1 DEF FileAsks, FlagFollows
  <1>4. Asked' <=> Asked
    BY <1>1 DEF Asked
  <1> QED
    BY <1>1, <1>2, <1>3, <1>4

LEMMA StartInit == Init => StartInv
  <1> SUFFICES ASSUME Init PROVE StartInv
    OBVIOUS
  <1>1. LoadInv /\ load = "read" /\ file = <<>> /\ flag["daemonize"] = FALSE
    BY LoadInitInv DEF Init, LoadInit, BoolKey
  <1>2. MainTypeOK
    BY DEF Init, MainTypeOK
  <1>3. FileAsks
    BY <1>1, EmptyFile DEF FileAsks, FlagFollows, FlagMeant
  <1>4. FileInv
    BY FileStart DEF Init
  <1> QED
    BY <1>1, <1>2, <1>3, <1>4, Statuses
    DEF Init, StartInv, Place, Loaded, Ended, Wished, Early, Late, Inherited

\* A line that is read either sets the flag or is not about it.
LEMMA FlagFollowsFile ==
    ASSUME LoadInv, FileInv, FileAsks, LoadNext, load' # "refused"
    PROVE  FileAsks'
  <1>0. "daemonize" \in BoolKey
    BY DEF BoolKey
  <1>1. ASSUME UNCHANGED <<file, flag>> PROVE FileAsks'
    BY <1>1 DEF FileAsks, FlagFollows
  <1>2. ASSUME NEW l \in Line, GatewayKey(l) \/ LegacyKey(l) \/ Comment(l) \/ UnknownLine(l)
        PROVE  FileAsks'
    <2>1. Reading(l) /\ UNCHANGED flag /\ l.kind # "bool"
      BY <1>2 DEF GatewayKey, LegacyKey, Comment, UnknownLine, globals
    <2>2. l \notin Keyed("bool", "daemonize")
      BY <2>1 DEF Keyed, OfKind
    <2>3. Given(file', Keyed("bool", "daemonize"), "false") =
              Given(file, Keyed("bool", "daemonize"), "false")
      BY <2>1, <2>2, LineAdded
    <2> QED
      BY <2>1, <2>3 DEF FileAsks, FlagFollows, FlagMeant
  <1>3. ASSUME NEW l \in Line, GlobalKey(l) PROVE FileAsks'
    <2>1. GlobalValid(l)
      BY <1>3 DEF GlobalKey, Refuse
    <2> QED
      BY <1>0, <1>3, <2>1, FlagKept DEF FileAsks
  <1>4. ASSUME EndOfFile \/ CompactSlot \/ Compacted \/ CheckNames \/ OpenFails PROVE FileAsks'
    <2>1. UNCHANGED <<file, flag>>
      BY <1>4 DEF EndOfFile, CompactSlot, Compacted, CheckNames, OpenFails, globals
    <2> QED
      BY <1>1, <2>1
  <1> QED
    BY <1>2, <1>3, <1>4 DEF LoadNext

-----------------------------------------------------------------------------
LEMMA StartNext == StartInv /\ [Next]_vars => StartInv'
  <1> SUFFICES ASSUME StartInv, [Next]_vars PROVE StartInv'
    OBVIOUS
  <1>0. /\ LoadInv /\ FileInv /\ MainTypeOK /\ Place /\ Loaded /\ Ended /\ Wished
        /\ flag \in [BoolKey -> BOOLEAN] /\ "daemonize" \in BoolKey
    BY DEF StartInv, LoadInv, LoadTypeOK, BoolKey
  <1> USE DEF Early, Late, Inherited
  <1>1. CASE Getopt
    <2>1. UNCHANGED <<load_vars, options, process, environment, running, handlers>>
          /\ step = "options"
      BY <1>1 DEF Getopt
    <2>2. CASE options \cap {"h", "?"} = {}
      <3>1. step' = "load" /\ UNCHANGED <<status, result, said>>
        BY <1>1, <2>2 DEF Getopt
      <3>2. MainTypeOK' /\ Place' /\ Loaded' /\ Ended' /\ Wished'
        BY <1>0, <2>1, <3>1, LoadKept
        DEF MainTypeOK, Place, Loaded, Ended, Wished, environment
      <3> QED
        BY <1>0, <2>1, <3>2, LoadKept DEF StartInv
    <2>3. CASE options \cap {"h", "?"} # {}
      <3>1. /\ step' = "ended" /\ status' = result' /\ said' = TRUE
            /\ result' \in {EXIT_SUCCESS, EXIT_FAILURE}
            /\ result' = EXIT_SUCCESS => "h" \in options
        BY <1>0, <1>1, <2>1, <2>3, Statuses DEF Getopt, Exit, Explain, Place
      <3>2. load # "refused"
        BY <1>0, <2>1 DEF Loaded
      <3>3. MainTypeOK' /\ Place' /\ Loaded' /\ Ended' /\ Wished'
        BY <1>0, <2>1, <3>1, <3>2, LoadKept, Statuses
        DEF MainTypeOK, Place, Loaded, Ended, Wished, environment
      <3> QED
        BY <1>0, <2>1, <3>3, LoadKept DEF StartInv
    <2> QED
      BY <2>2, <2>3
  <1>2. CASE Load
    <2>1. /\ step = "load" /\ LoadNext
          /\ UNCHANGED <<step, options, process, status, result, environment, running, handlers>>
          /\ said' = (said \/ load' = "refused")
      BY <1>0, <1>2 DEF Load, Explain, Place, MainTypeOK
    <2>2. LoadInv' /\ FileInv'
      BY <1>0, <2>1, LoadNextInv, FileStep
    <2>3. load # "refused" /\ (load' # "refused" => FileAsks')
      <3>1. load # "refused"
        BY <2>1 DEF LoadNext, GatewayKey, LegacyKey, GlobalKey, Comment, UnknownLine, Reading,
                    OpenFails, EndOfFile, CompactSlot, Compacted, CheckNames
      <3> QED
        BY <1>0, <2>1, <3>1, FlagFollowsFile DEF Wished
    <2>4. MainTypeOK' /\ Place' /\ Loaded' /\ Ended' /\ Wished'
      BY <1>0, <2>1, <2>3 DEF MainTypeOK, Place, Loaded, Ended, Wished, environment
    <2> QED
      BY <2>2, <2>4 DEF StartInv
  <1>3. CASE LoadReturns
    <2>1. /\ step = "load" /\ load \in {"accepted", "refused"}
          /\ UNCHANGED <<load_vars, options, process, environment, running, handlers, said>>
          /\ load = "accepted" => step' = "override" /\ UNCHANGED <<status, result>>
          /\ load = "refused" => /\ step' = "ended" /\ result' = EXIT_FAILURE
                                 /\ status' = EXIT_FAILURE
      BY <1>0, <1>3 DEF LoadReturns, Exit, Place
    <2>2. MainTypeOK' /\ Place' /\ Loaded' /\ Ended' /\ Wished'
      BY <1>0, <2>1, LoadKept, Statuses
      DEF MainTypeOK, Place, Loaded, Ended, Wished, environment
    <2> QED
      BY <1>0, <2>1, <2>2, LoadKept DEF StartInv
  <1>4. CASE Override
    <2>1. /\ step = "override" /\ step' = "signals"
          /\ flag' = [flag EXCEPT !["daemonize"] = Daemonize]
          /\ debug_level' \in {"detail", debug_level}
          /\ UNCHANGED <<file, table, setting, threshold, saw, load, indices, options, process,
                         status, result, environment, running, handlers, said>>
      BY <1>4 DEF Override
    <2>2. Daemonize \in BOOLEAN /\ (Daemonize <=> Asked)
      <3>1. flag["daemonize"] <=> FlagMeant(file, "daemonize")
        BY <1>0, <2>1 DEF Wished, Loaded, FileAsks, FlagFollows
      <3> QED
        BY <1>0, <3>1 DEF Daemonize, Asked
    <2>3. flag' \in [BoolKey -> BOOLEAN] /\ (flag'["daemonize"] <=> Asked)
      BY <1>0, <2>1, <2>2
    <2>4. Asked' <=> Asked
      BY <2>1 DEF Asked
    <2>5. LoadInv'
      <3>1. debug_level' \in Level
        BY <1>0, <2>1 DEF LoadInv, LoadTypeOK, Level
      <3>2. LoadTypeOK'
        BY <1>0, <2>1, <2>3, <3>1, Zenon DEF LoadInv, LoadTypeOK, table, saw, indices
      <3> QED
        BY <1>0, <2>1, <3>2
        DEF LoadInv, Compacting, Filled, Ordered, Unique, NamesDiffer, table, indices
    <2>6. MainTypeOK' /\ Place' /\ Loaded' /\ Ended' /\ Wished'
      BY <1>0, <2>1, <2>3, <2>4 DEF MainTypeOK, Place, Loaded, Ended, Wished, environment
    <2>7. FileInv'
      <3>1. load = "accepted" /\ load' = "accepted"
        BY <1>0, <2>1 DEF Loaded
      <3>2. UNCHANGED <<file, gateways, gateway_count, setting, threshold>>
        BY <2>1 DEF table
      <3>3. /\ AllValid(file) /\ Unmixed(file) /\ KeysFollow /\ FileValid(file)
            /\ Ranked(GATEWAY_MAX + 1, gateway_count)
            /\ \A k \in IntKey : setting[k] = SettingMeant(file, k)
        BY <1>0, <3>1 DEF FileInv
      <3>4. \A k \in BoolKey \ {"daemonize"} : flag'[k] = flag[k]
        BY <1>0, <2>1
      <3>5. KeysFollow'
        BY <3>2, <3>3, <3>4 DEF KeysFollow, FlagFollows
      <3>6. Ranked(GATEWAY_MAX + 1, gateway_count)'
        BY <3>2, <3>3 DEF Ranked
      <3> QED
        BY <3>1, <3>2, <3>3, <3>5, <3>6 DEF FileInv
    <2> QED
      BY <2>5, <2>6, <2>7 DEF StartInv
  <1>5. CASE InstallHandlers
    <2>1. step = "signals" /\ UNCHANGED <<load_vars, options, process, environment, running>>
      BY <1>5 DEF InstallHandlers
    <2>2. \/ /\ handlers' = TRUE /\ UNCHANGED <<status, result, said>>
             /\ step' = IF flag["daemonize"] THEN "fork" ELSE "acquire"
          \/ /\ step' = "ended" /\ result' = EXIT_FAILURE /\ status' = EXIT_FAILURE
             /\ said' = TRUE /\ UNCHANGED handlers
      BY <1>0, <1>5, <2>1 DEF InstallHandlers, Exit, Explain, Place
    <2>3. load = "accepted" /\ UNCHANGED <<load, flag>>
      BY <1>0, <2>1, LoadKept DEF Loaded
    <2>4. MainTypeOK' /\ Place' /\ Loaded' /\ Ended' /\ Wished'
      BY <1>0, <2>1, <2>2, <2>3, LoadKept, Statuses
      DEF MainTypeOK, Place, Loaded, Ended, Wished, environment
    <2> QED
      BY <1>0, <2>1, <2>4, LoadKept DEF StartInv
  <1>6. CASE DaemonizeFails
    <2>1. /\ step \in {"fork", "setsid", "fork again", "chdir", "null"}
          /\ UNCHANGED <<load_vars, options, process, environment, running, handlers>>
          /\ step' = "ended" /\ result' = EXIT_FAILURE /\ said' = TRUE
          /\ status' = IF process = "launched" THEN EXIT_FAILURE ELSE status
      BY <1>0, <1>6 DEF DaemonizeFails, Exit, Explain, Place
    <2>2. load = "accepted" /\ status \in {None, EXIT_SUCCESS}
      BY <1>0, <2>1 DEF Loaded, Place
    <2>3. MainTypeOK' /\ Place' /\ Loaded' /\ Ended' /\ Wished'
      BY <1>0, <2>1, <2>2, LoadKept, Statuses
      DEF MainTypeOK, Place, Loaded, Ended, Wished, environment
    <2> QED
      BY <1>0, <2>1, <2>3, LoadKept DEF StartInv
  <1>7. CASE Fork \/ Setsid \/ ForkAgain
    <2>1. /\ UNCHANGED <<load_vars, options, result, cwd, stdio, running, handlers, said>>
          /\ \/ /\ step = "fork" /\ step' = "setsid" /\ UNCHANGED session
                /\ process' = "child" /\ status' = EXIT_SUCCESS
             \/ /\ step = "setsid" /\ step' = "fork again" /\ session' = "leader"
                /\ UNCHANGED <<process, status>>
             \/ /\ step = "fork again" /\ step' = "chdir" /\ session' = "member"
                /\ process' = "daemon" /\ UNCHANGED status
      BY <1>7 DEF Fork, Setsid, ForkAgain, environment
    <2>2. load = "accepted" /\ UNCHANGED <<load, flag>>
      BY <1>0, <2>1, LoadKept DEF Loaded
    <2>3. MainTypeOK' /\ Place' /\ Loaded' /\ Ended' /\ Wished'
      BY <1>0, <2>1, <2>2, LoadKept, Statuses
      DEF MainTypeOK, Place, Loaded, Ended, Wished
    <2> QED
      BY <1>0, <2>1, <2>3, LoadKept DEF StartInv
  <1>8. CASE Chdir \/ DevNull
    <2>1. /\ UNCHANGED <<load_vars, options, process, status, result, session, running,
                         handlers, said>>
          /\ \/ step = "chdir" /\ step' = "null" /\ cwd' = "root" /\ UNCHANGED stdio
             \/ step = "null" /\ step' = "acquire" /\ stdio' = "null" /\ UNCHANGED cwd
      BY <1>8 DEF Chdir, DevNull
    <2>2. load = "accepted" /\ UNCHANGED <<load, flag>> /\ flag["daemonize"]
      BY <1>0, <2>1, LoadKept DEF Loaded, Wished
    <2>3. MainTypeOK' /\ Place' /\ Loaded' /\ Ended' /\ Wished'
      BY <1>0, <2>1, <2>2, LoadKept, Statuses
      DEF MainTypeOK, Place, Loaded, Ended, Wished
    <2> QED
      BY <1>0, <2>1, <2>3, LoadKept DEF StartInv
  <1>9. CASE Signal
    <2>1. step \notin {"acquire", "ended"}
          /\ UNCHANGED <<load_vars, options, process, environment, handlers, said>>
      BY <1>9 DEF Signal
    <2>2. CASE handlers
      <3>1. running' = FALSE /\ UNCHANGED <<step, status, result>>
        BY <1>9, <2>2 DEF Signal
      <3>2. MainTypeOK' /\ Place' /\ Loaded' /\ Ended' /\ Wished'
        BY <1>0, <2>1, <3>1, LoadKept
        DEF MainTypeOK, Place, Loaded, Ended, Wished, environment
      <3> QED
        BY <1>0, <2>1, <3>2, LoadKept DEF StartInv
    <2>3. CASE ~handlers
      <3>1. /\ step' = "ended" /\ result' = KILLED /\ UNCHANGED running
            /\ status' = IF process = "launched" THEN KILLED ELSE status
        BY <1>9, <2>3 DEF Signal, Exit
      <3>2. /\ process # "launched" => load = "accepted" /\ status = EXIT_SUCCESS
            /\ load = "refused" => process = "launched" /\ said
        BY <1>0, <2>1, Zenon DEF MainTypeOK, Place, Loaded
      <3>3. MainTypeOK' /\ Place' /\ Loaded' /\ Ended' /\ Wished'
        BY <1>0, <2>1, <3>1, <3>2, LoadKept, Statuses
        DEF MainTypeOK, Place, Loaded, Ended, Wished, environment
      <3> QED
        BY <1>0, <2>1, <3>3, LoadKept DEF StartInv
    <2> QED
      BY <2>2, <2>3
  <1>10. CASE UNCHANGED vars
    <2>1. UNCHANGED <<load_vars, options, step, process, status, result, session, cwd, stdio,
                      running, handlers, said>>
      BY <1>10 DEF vars, main_vars
    <2>2. /\ LoadInv' /\ FileInv' /\ (FileAsks' <=> FileAsks) /\ (Asked' <=> Asked)
          /\ UNCHANGED load /\ flag' = flag
      BY <1>0, <2>1, LoadKept
    <2>3. MainTypeOK'
      <3>1. running' \in BOOLEAN /\ handlers' \in BOOLEAN /\ said' \in BOOLEAN
        BY <1>0, <2>1, Zenon DEF MainTypeOK
      <3>2. /\ options' = options /\ step' = step /\ process' = process /\ status' = status
            /\ result' = result /\ session' = session /\ cwd' = cwd /\ stdio' = stdio
        BY <2>1
      <3>3. /\ options' \in Options /\ status' \in {None, EXIT_SUCCESS, EXIT_FAILURE, KILLED}
            /\ result' \in {None, EXIT_SUCCESS, EXIT_FAILURE, KILLED}
        BY <1>0, <3>2, Zenon DEF MainTypeOK
      <3>4. /\ step' \in {"options", "load", "override", "signals", "fork", "setsid",
                          "fork again", "chdir", "null", "acquire", "ended"}
            /\ process' \in {"launched", "child", "daemon"}
            /\ session' \in {"inherited", "leader", "member"}
            /\ cwd' \in {"inherited", "root"} /\ stdio' \in {"inherited", "null"}
        BY <1>0, <3>2, Zenon DEF MainTypeOK
      <3> QED
        BY <3>1, <3>3, <3>4, Zenon DEF MainTypeOK
    <2>4. Place'
      <3>1. flag["daemonize"]' = flag["daemonize"]
        BY <2>2
      <3> QED
        BY <1>0, <2>1, <3>1 DEF Place
    <2>5. Loaded' /\ Ended'
      BY <1>0, <2>1, <2>2 DEF Loaded, Ended
    <2>6. Wished'
      BY <1>0, <2>1, <2>2 DEF Wished
    <2> QED
      BY <2>2, <2>3, <2>4, <2>5, <2>6 DEF StartInv
  <1> QED
    BY <1>1, <1>2, <1>3, <1>4, <1>5, <1>6, <1>7, <1>8, <1>9, <1>10
    DEF Next, Main, HandedOver

-----------------------------------------------------------------------------
LEMMA StartInductive == Spec => []StartInv
  BY StartInit, StartNext, PTL DEF Spec

\* For any command lines and files: types and ranges, those of the configuration included.
THEOREM TypeCorrect == Spec => []TypeOK
  <1>1. StartInv => TypeOK
    BY Types DEF StartInv
  <1> QED
    BY <1>1, StartInductive, PTL

\* For any file: what main goes on with is usable, whatever options and signals do.
THEOREM AcceptedIsUsable == Spec => []ConfigUsable
  <1>1. StartInv => ConfigUsable
    BY UsableFromInv DEF StartInv
  <1> QED
    BY <1>1, StartInductive, PTL

\* For any file, command line and signal: main goes on only with a file that is valid as a
\* whole, and with exactly what that file means; a file it refuses is not valid.
THEOREM AcceptedAsMeant == Spec => []LoadFollowsFile
  <1>1. StartInv => LoadFollowsFile
    BY FollowsFromInv DEF StartInv
  <1> QED
    BY <1>1, StartInductive, PTL

LEMMA ReportedFromInv == StartInv => ErrorsReported
  <1> SUFFICES ASSUME StartInv PROVE ErrorsReported
    OBVIOUS
  <1>1. MainTypeOK /\ Place /\ Loaded /\ Ended
    BY DEF StartInv
  <1>2. CASE step \in Early
    BY <1>1, <1>2, Statuses DEF ErrorsReported, MainTypeOK, Place, Loaded, Ended, Early
  <1>3. CASE step \in Late
    BY <1>1, <1>3, Statuses DEF ErrorsReported, MainTypeOK, Place, Loaded, Ended, Late
  <1>4. CASE step = "acquire"
    BY <1>1, <1>4, Statuses DEF ErrorsReported, MainTypeOK, Place, Loaded, Ended
  <1>5. CASE step = "ended"
    BY <1>1, <1>5, Statuses DEF ErrorsReported, MainTypeOK, Loaded, Ended
  <1> QED
    BY <1>1, <1>2, <1>3, <1>4, <1>5 DEF MainTypeOK, Early, Late

\* For any command lines and files: an error reaches whoever launched the program.
THEOREM ErrorsAreReported == Spec => []ErrorsReported
  BY ReportedFromInv, StartInductive, PTL

\* For any command lines and files: main goes on where they ask it to.
THEOREM RunsAsAsked == Spec => []RunsWhereAsked
  <1>1. StartInv => RunsWhereAsked
    BY DEF StartInv, Place, Wished, Asked, RunsWhereAsked, Inherited
  <1> QED
    BY <1>1, StartInductive, PTL
===============================================================================
