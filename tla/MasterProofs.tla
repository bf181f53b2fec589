---------------------------- MODULE MasterProofs ----------------------------
(***************************************************************************)
(* Proofs about Master for every number of gateways and every pair of       *)
(* pauses: types, resources that outlive the threads, threads that end only *)
(* on a stop, and what EXIT_SUCCESS means.                                  *)
(***************************************************************************)
EXTENDS Master, TLAPS

\* Where the start-up and the tear-down stand at each statement of main.
Stages ==
    /\ main \in {"acquire", "log_init", "store"} => started = 0
    /\ main = "create" => started < GATEWAY_COUNT \/ GATEWAY_COUNT = 0
    /\ main \in {"create", "join"} => store = "live"
    /\ main \in {"create", "join"} => log = "open" /\ pidfile = "held"
    /\ main \in {"log_init", "store"} => pidfile = "held"
    /\ main = "store" => log = "open"
    /\ main \in {"cleanup", "log_close", "release", "exited"} => joined = started

\* Threads 1..started exist, and those that were joined have returned.
Started ==
    /\ \A g \in Gateways : thread[g].pc = "none" <=> g > started
    /\ \A g \in Gateways : g <= joined => thread[g].pc = "done"

\* A result of 0 means every gateway was started.
ResultSound ==
    /\ main \in {"join", "cleanup", "log_close", "release"} /\ result = 0 =>
           started = GATEWAY_COUNT /\ GATEWAY_COUNT > 0
    /\ exit_code = EXIT_SUCCESS =>
           main = "exited" /\ started = GATEWAY_COUNT /\ GATEWAY_COUNT > 0
    /\ exit_code = EXIT_FAILURE => main = "exited"

IInv == TypeOK /\ Stages /\ Started /\ ThreadsEndOnlyOnStop /\ ResultSound

-----------------------------------------------------------------------------
LEMMA InitIInv == Init => IInv
  BY MasterAssumption DEF Init, IInv, TypeOK, Thread, Stages, Started,
     ThreadsEndOnlyOnStop, ResultSound, Gateways, EXIT_SUCCESS, EXIT_FAILURE

\* The doubling stays between the two configured pauses.
LEMMA NextDelayRange ==
    ASSUME NEW d \in reconnect_initial_sec..reconnect_max_sec
    PROVE  NextDelay(d) \in reconnect_initial_sec..reconnect_max_sec
  BY MasterAssumption DEF NextDelay

\* A step of gateway g that keeps its thread in existence and ends it only on a stop.
LEMMA ThreadChange ==
    ASSUME IInv, NEW g \in Gateways, NEW t \in Thread, ThreadStep,
           thread' = [thread EXCEPT ![g] = t],
           thread[g].pc \notin {"none", "done"},
           t.pc # "none", running => t.pc # "done"
    PROVE  IInv'
  <1> USE DEF IInv, ThreadStep, resources
  <1>0. thread \in [Gateways -> Thread]
    BY DEF TypeOK
  <1>1. \A h \in Gateways : thread'[h] = IF h = g THEN t ELSE thread[h]
    BY <1>0
  <1>2. TypeOK'
    BY <1>0 DEF TypeOK
  <1>3. Stages' /\ ResultSound'
    BY DEF Stages, ResultSound
  <1>4. Started'
    BY <1>1 DEF Started
  <1>5. ThreadsEndOnlyOnStop'
    BY <1>1 DEF ThreadsEndOnlyOnStop
  <1> QED
    BY <1>2, <1>3, <1>4, <1>5

LEMMA GatewayKeepsIInv ==
    ASSUME IInv, NEW g \in Gateways, Gateway(g)
    PROVE  IInv'
  <1> USE MasterAssumption
  <1>0. thread[g] \in Thread /\ thread \in [Gateways -> Thread]
    BY DEF IInv, TypeOK
  <1>1. CASE Head(g)
    <2> DEFINE t == [thread[g] EXCEPT !.pc = IF running THEN "session" ELSE "done",
                                      !.established = FALSE]
    <2>1. t \in Thread /\ t.pc = IF running THEN "session" ELSE "done"
      BY <1>0 DEF Thread
    <2>2. thread' = [thread EXCEPT ![g] = t]
      BY <1>0, <1>1 DEF Head
    <2> HIDE DEF t
    <2> QED
      BY <1>1, <2>1, <2>2, ThreadChange DEF Head
  <1>2. CASE Established(g)
    <2> DEFINE t == [thread[g] EXCEPT !.established = TRUE]
    <2>1. t \in Thread /\ t.pc = thread[g].pc
      BY <1>0 DEF Thread
    <2>2. thread' = [thread EXCEPT ![g] = t]
      BY <1>0, <1>2 DEF Established
    <2> HIDE DEF t
    <2> QED
      BY <1>2, <2>1, <2>2, ThreadChange DEF Established
  <1>3. CASE SessionReturns(g)
    <2>1. PICK r \in {-1, 0} :
              thread' = [thread EXCEPT ![g].pc = "check", ![g].rc = r]
      BY <1>3 DEF SessionReturns
    <2> DEFINE t == [thread[g] EXCEPT !.pc = "check", !.rc = r]
    <2>2. t \in Thread /\ t.pc = "check"
      BY <1>0 DEF Thread
    <2>3. thread' = [thread EXCEPT ![g] = t]
      BY <1>0, <2>1
    <2> HIDE DEF t
    <2> QED
      BY <1>3, <2>2, <2>3, ThreadChange DEF SessionReturns
  <1>4. CASE Check(g)
    <2>1. /\ AfterSession(g) \in Thread
          /\ AfterSession(g).pc # "none"
          /\ running => AfterSession(g).pc # "done"
      <3>1. [thread[g] EXCEPT !.pc = "done"] \in Thread
        BY <1>0 DEF Thread
      <3>2. ASSUME NEW d \in reconnect_initial_sec..reconnect_max_sec
            PROVE  [thread[g] EXCEPT !.pc = "head", !.reconnect_delay = d] \in Thread
        BY <1>0 DEF Thread
      <3>3. ASSUME NEW n \in 0..reconnect_max_sec
            PROVE  [thread[g] EXCEPT !.pc = "sleep", !.slept = n] \in Thread
        BY <1>0 DEF Thread
      <3>4. /\ reconnect_initial_sec \in reconnect_initial_sec..reconnect_max_sec
            /\ 0 \in 0..reconnect_max_sec
        OBVIOUS
      <3>5. AfterSession(g) \in Thread
        BY <3>1, <3>2, <3>3, <3>4, Zenon DEF AfterSession
      <3> QED
        BY <1>0, <3>5 DEF AfterSession, Thread
    <2> QED
      BY <1>4, <2>1, ThreadChange DEF Check
  <1>5. CASE SleepSecond(g)
    <2> DEFINE t == [thread[g] EXCEPT !.slept = @ + 1]
    <2>1. thread[g].slept + 1 \in 0..reconnect_max_sec
      BY <1>0, <1>5 DEF SleepSecond, SleepsOn, Thread
    <2>2. t \in Thread /\ t.pc = thread[g].pc
      BY <1>0, <2>1 DEF Thread
    <2>3. thread' = [thread EXCEPT ![g] = t]
      BY <1>0, <1>5 DEF SleepSecond
    <2> HIDE DEF t
    <2> QED
      BY <1>5, <2>2, <2>3, ThreadChange DEF SleepSecond
  <1>6. CASE WakeUp(g)
    <2> DEFINE d == NextDelay(thread[g].reconnect_delay)
               t == [thread[g] EXCEPT !.pc = "head", !.reconnect_delay = d]
    <2>1. d \in reconnect_initial_sec..reconnect_max_sec
      BY <1>0, NextDelayRange DEF Thread
    <2>2. thread' = [thread EXCEPT ![g] = t]
      BY <1>0, <1>6, Zenon DEF WakeUp
    <2> HIDE DEF d
    <2>3. t \in Thread /\ t.pc = "head"
      BY <1>0, <2>1 DEF Thread
    <2> HIDE DEF t
    <2> QED
      BY <1>6, <2>2, <2>3, ThreadChange DEF WakeUp
  <1> QED
    BY <1>1, <1>2, <1>3, <1>4, <1>5, <1>6 DEF Gateway

LEMMA MainKeepsIInv ==
    ASSUME IInv, Main
    PROVE  IInv'
  <1> USE MasterAssumption
  <1> USE DEF IInv, EXIT_SUCCESS, EXIT_FAILURE, resources
  <1>1. CASE AcquirePidfile \/ LogInit \/ CreateStore
    BY <1>1 DEF AcquirePidfile, LogInit, CreateStore, Exit, TypeOK, Stages, Started,
       ThreadsEndOnlyOnStop, ResultSound
  <1>2. CASE StartThread
    <2>1. CASE GATEWAY_COUNT = 0
      BY <1>2, <2>1 DEF StartThread, TypeOK, Stages, Started, ThreadsEndOnlyOnStop,
         ResultSound
    <2>2. ASSUME GATEWAY_COUNT # 0, UNCHANGED <<thread, started>>, running' = FALSE,
                 main' = "join", result' = -1
          PROVE  IInv'
      <3>1. main = "create" /\ UNCHANGED <<joined, store, log, pidfile, exit_code>>
        BY <1>2 DEF StartThread
      <3>2. TypeOK'
        BY <2>2, <3>1 DEF TypeOK
      <3>3. Stages' /\ Started' /\ ThreadsEndOnlyOnStop' /\ ResultSound'
        BY <2>2, <3>1 DEF Stages, Started, ThreadsEndOnlyOnStop, ResultSound
      <3> QED
        BY <3>2, <3>3
    <2>3. ASSUME GATEWAY_COUNT # 0,
                 thread' = [thread EXCEPT ![started + 1].pc = "head"],
                 started' = started + 1,
                 main' = IF started' = GATEWAY_COUNT THEN "join" ELSE "create",
                 UNCHANGED <<running, result>>
          PROVE  IInv'
      <3> DEFINE g == started + 1
      <3>1. /\ main = "create" /\ g \in Gateways /\ thread \in [Gateways -> Thread]
            /\ started \in Nat /\ joined \in 0..started
            /\ UNCHANGED <<joined, store, log, pidfile, exit_code>>
        BY <1>2, <2>3 DEF StartThread, TypeOK, Stages, Gateways
      <3>2. [thread[g] EXCEPT !.pc = "head"] \in Thread
        BY <3>1 DEF Thread
      <3>3. thread' \in [Gateways -> Thread]
        BY <2>3, <3>1, <3>2
      <3>4. \A h \in Gateways : thread'[h].pc = IF h = g THEN "head" ELSE thread[h].pc
        BY <2>3, <3>1 DEF Thread
      <3>5. TypeOK'
        BY <2>3, <3>1, <3>3 DEF TypeOK, Gateways
      <3>6. Stages' /\ ResultSound'
        BY <2>3, <3>1 DEF Stages, ResultSound, TypeOK, Gateways
      <3>7. Started'
        BY <2>3, <3>1, <3>4 DEF Started, Gateways
      <3>8. ThreadsEndOnlyOnStop'
        BY <2>3, <3>4 DEF ThreadsEndOnlyOnStop
      <3> QED
        BY <3>5, <3>6, <3>7, <3>8
    <2> QED
      BY <1>2, <2>1, <2>2, <2>3 DEF StartThread, FlagAfterFailure
  <1>3. CASE JoinThread
    BY <1>3 DEF JoinThread, AllJoined, TypeOK, Stages, Started, ThreadsEndOnlyOnStop,
       ResultSound, Gateways
  <1>4. CASE MasterReturns
    BY <1>4 DEF MasterReturns, AllJoined, TypeOK, Stages, Started, ThreadsEndOnlyOnStop,
       ResultSound
  <1>5. CASE DestroyStore \/ LogClose \/ ReleasePidfile
    BY <1>5 DEF DestroyStore, LogClose, ReleasePidfile, Exit, TypeOK, Stages, Started,
       ThreadsEndOnlyOnStop, ResultSound
  <1> QED
    BY <1>1, <1>2, <1>3, <1>4, <1>5 DEF Main

LEMMA NextIInv == IInv /\ [Next]_vars => IInv'
  <1> SUFFICES ASSUME IInv, [Next]_vars PROVE IInv'
    OBVIOUS
  <1>1. CASE Signal
    BY <1>1 DEF Signal, IInv, TypeOK, Stages, Started, ThreadsEndOnlyOnStop, ResultSound,
       resources
  <1>2. CASE UNCHANGED vars
    BY <1>2 DEF vars, IInv, TypeOK, Stages, Started, ThreadsEndOnlyOnStop, ResultSound,
       resources
  <1> QED
    BY <1>1, <1>2, MainKeepsIInv, GatewayKeepsIInv DEF Next, Terminated

LEMMA IInvAlways == Spec => []IInv
  BY InitIInv, NextIInv, PTL DEF Spec

\* Types: in particular the pause before a reconnect stays between the configured bounds.
THEOREM TypeCorrect == Spec => []TypeOK
  <1>1. IInv => TypeOK
    BY DEF IInv
  <1> QED
    BY <1>1, IInvAlways, PTL

\* A gateway thread ends only after the stop flag was cleared.
THEOREM ThreadsEndOnStop == Spec => []ThreadsEndOnlyOnStop
  <1>1. IInv => ThreadsEndOnlyOnStop
    BY DEF IInv
  <1> QED
    BY <1>1, IInvAlways, PTL

\* main frees the store, the log and the PID file only after every thread returned.
THEOREM ResourcesOutlive == Spec => []ResourcesOutliveThreads
  <1>1. IInv => ResourcesOutliveThreads
    <2> SUFFICES ASSUME IInv, NEW g \in Gateways, thread[g].pc \notin {"none", "done"}
                 PROVE  store = "live" /\ log = "open" /\ pidfile = "held"
      BY DEF ResourcesOutliveThreads
    <2>1. g \in Nat /\ g > 0 /\ started \in Nat /\ joined \in Nat
      BY MasterAssumption DEF IInv, TypeOK, Gateways
    <2>2. g <= started /\ ~(g <= joined)
      BY <2>1 DEF IInv, Started
    <2>3. main \in {"create", "join"}
      BY <2>1, <2>2 DEF IInv, TypeOK, Stages
    <2> QED
      BY <2>3 DEF IInv, Stages
  <1> QED
    BY <1>1, IInvAlways, PTL

\* EXIT_SUCCESS is not returned after a failed start-up nor before a thread returned.
THEOREM SuccessIsSound == Spec => []SuccessMeansAllRan
  <1>1. IInv => SuccessMeansAllRan
    <2> SUFFICES ASSUME IInv, exit_code = EXIT_SUCCESS
                 PROVE  GATEWAY_COUNT > 0 /\ \A g \in Gateways : thread[g].pc = "done"
      BY DEF SuccessMeansAllRan
    <2>1. GATEWAY_COUNT > 0 /\ joined = GATEWAY_COUNT
      BY DEF IInv, ResultSound, Stages
    <2> QED
      BY <2>1, MasterAssumption DEF IInv, Started, Gateways
  <1> QED
    BY <1>1, IInvAlways, PTL
=============================================================================
