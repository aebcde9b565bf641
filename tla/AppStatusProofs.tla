--------------------------- MODULE AppStatusProofs ---------------------------
(***************************************************************************)
(* The state of an application in AppLifecycle, and what the RR manager is *)
(* told of it: that an application runs once instantiate() has returned,   *)
(* that the answer to a PUT finds the manager up to date, that SIGINT      *)
(* leaves no application behind there, and that AppService is implemented. *)
(***************************************************************************)
EXTENDS AppDeletionProofs

-----------------------------------------------------------------------------
(* Starting                                                                 *)

BeforeSpawn == {"lock_app", "lock_dukt", "eval_main", "spawn"}
AfterSpawn  == {"describe", "app_exists", "register", "pause", "start",
                "unlock"}

\* The event loop waits with the duktape mutex for the end of instantiate().
Turns == pc["init"] # "ended" => Place("loop") \in {"unborn", "run", "run_lock"}

\* Until then the new thread, and the last call of instantiate(), ask for
\* "running", and nobody else writes the state.
Starts ==
    /\ pc["loop"] \in UpdateLabels /\ frame["loop"].back = "run_lock"
          => frame["loop"].target = "running"
    /\ pc["init"] \in UpdateLabels /\ frame["init"].back = "unlock"
          => frame["init"].target = "running"
    /\ Place("init") \in BeforeSpawn \/ pc["init"] \in ScriptLabels => ~joinable
    /\ Place("init") = "unlock" /\ joinable
       /\ pc["init"] \notin {"set_state", "write_state"}
          => appState = "running"

-----------------------------------------------------------------------------
(* Answering a PUT                                                          *)

\* When no signal arrives the event loop updates the state only as it starts,
\* and no handler is active by then.
Steady ==
    /\ ~interrupted
    /\ Place("loop") \notin {"interrupt_pause", "interrupt_unregister"}
    /\ pc["http"] \notin Idle => ~Starting

\* A handler that updates the state has yet to send it, or has sent it.
Pending == {"set_state", "write_state", "wake", "again", "put_lock",
            "put_decode"}
Reported ==
    /\ pc["http"] \in Pending => frame["http"].owed \in Nat \ {0}
    /\ pc["http"] = "send" => frame["http"].payload = appState
    /\ pc["http"] = "update" /\ frame["http"].owed = 0
          => manager \in {"absent", appState}

-----------------------------------------------------------------------------
(* Being forgotten                                                          *)

\* No script asks for an exit.
NoExits == \A t \in Threads : pc[t] \notin {"request_exit", "exit_notify"}

\* The manager does not list an application that has not been registered yet,
\* is being deleted or has stopped.
Forgotten ==
    /\ Place("init") \in BeforeSpawn \cup {"describe", "app_exists", "register"}
          => manager = "absent"
    /\ Place("init") \in AfterSpawn => joinable
    /\ pc["http"] \in Withdrawn \/ ~inReg \/ exitReq => manager = "absent"
    /\ exitReq => pc["init"] = "ended"
    /\ ~joinable => manager = "absent"
    /\ Place("loop") \in {"loop_pop", "terminate", "terminated"}
          => interrupted \/ manager = "absent"
    /\ Place("loop") \in {"set_ready", "ended"} => manager = "absent"
    /\ proc = "exited" => manager = "absent"

-----------------------------------------------------------------------------
(* What the steps of a thread do to the state and to the manager's list     *)

\* No call returns into another.
LEMMA BackIsOutside ==
    ASSUME Flow, NEW t \in Threads, pc[t] \in CallLabels
    PROVE  frame[t].back \notin CallLabels
BY DEF Flow, HttpFlow, InitFlow, LoopFlow, Threads, CallLabels, UpdateLabels,
       ScriptLabels

\* A call does not move the thread from its place. It writes the state that it
\* was asked for, and tells the manager nothing about an unknown application.
LEMMA CallEffects ==
    ASSUME TypeOK, Flow, NEW t \in Threads, AnyThread(t)
    PROVE  /\ Place(t)' = Place(t)
           /\ UNCHANGED interrupted /\ proc' \in {proc, "aborted"}
           /\ pc[t] \in CallLabels \/ UNCHANGED vars \/ proc' = "aborted"
           /\ appState' = appState
              \/ (pc[t] = "write_state" /\ appState' = frame[t].target)
           /\ manager' = manager \/ (pc[t] = "send" /\ manager # "absent")
           /\ exitReq' = exitReq \/ pc[t] = "request_exit"
           /\ pc'[t] \in UpdateLabels =>
                 /\ pc[t] \in UpdateLabels
                 /\ frame'[t].target = frame[t].target
                 /\ frame'[t].back = frame[t].back
           /\ pc'[t] \in ScriptLabels =>
                 /\ pc[t] \in ScriptLabels
                 /\ pc'[t] \in {"request_exit", "exit_notify"} =>
                       pc[t] \in {"request_exit", "exit_notify"}
<1>1. pc[t] \in CallLabels => frame[t].back \notin CallLabels
  BY BackIsOutside
<1> USE <1>1 DEF TypeOK, Frames, Goto, At, Moves, AppLock, HeapLock, HeapUnlock,
           Return, CanLock, control, flags, life, sync, NoFrame, FrameOf,
           CallLabels, UpdateLabels, ScriptLabels, Place
<1>2. CASE SetAppState(t) BY <1>2 DEF SetAppState
<1>3. CASE WriteState(t) BY <1>3 DEF WriteState
<1>4. CASE Wake(t) BY <1>4 DEF Wake
<1>5. CASE Again(t) BY <1>5 DEF Again
<1>6. CASE UpdateClient(t) BY <1>6 DEF UpdateClient
<1>7. CASE JsonLock(t) BY <1>7 DEF JsonLock
<1>8. CASE Json(t) BY <1>8 DEF Json
<1>9. CASE Send(t) BY <1>9 DEF Send, Remote
<1>10. CASE RequestExit(t) BY <1>10 DEF RequestExit
<1>11. CASE NotifyExit(t) BY <1>11 DEF NotifyExit
<1>12. CASE SetResponse(t) BY <1>12 DEF SetResponse
<1>13. CASE Die(t) BY <1>13 DEF Die, Abort
<1> QED BY <1>2, <1>3, <1>4, <1>5, <1>6, <1>7, <1>8, <1>9, <1>10, <1>11, <1>12,
   <1>13 DEF AnyThread, UpdateAppState

LEMMA LoopEffects ==
    ASSUME TypeOK, Flow, LoopThread
    PROVE  /\ \A u \in {"http", "init"} :
                 pc'[u] = pc[u] /\ frame'[u] = frame[u]
           /\ UNCHANGED <<interrupted, joinable, inReg>>
           /\ proc' \in {proc, "aborted"}
           /\ AnyThread("loop") \/ UNCHANGED appState
           /\ AnyThread("loop") \/ manager' = manager
              \/ (InterruptUnregister /\ Remote("absent"))
           /\ AnyThread("loop") \/ exitReq' \in {exitReq, FALSE}
           /\ pc'["loop"] \in UpdateLabels /\ frame'["loop"].back = "run_lock"
                 => frame'["loop"].target = "running" \/ AnyThread("loop")
           /\ pc'["loop"] \in {"request_exit", "exit_notify"} =>
                 "error" \in Scripts \/ AnyThread("loop")
<1> USE DEF TypeOK, Threads, Goto, At, Moves, AppLock, HeapLock, HeapUnlock,
           Call, CallUnlessIn, Return, CallFromScript, EndIteration, CanLock,
           FrameOf, control, flags, life, sync, UpdateLabels
<1>1. CASE Run BY <1>1 DEF Run
<1>2. CASE RunLock BY <1>2 DEF RunLock
<1>3. CASE LoopEnter BY <1>3 DEF LoopEnter
<1>4. CASE LoopTop BY <1>4 DEF LoopTop
<1>5. CASE ParkedCheck BY <1>5 DEF ParkedCheck
<1>6. CASE ParkedBlock BY <1>6 DEF ParkedBlock
<1>7. CASE ParkedWoken BY <1>7 DEF ParkedWoken
<1>8. CASE ParkedTimeout BY <1>8 DEF ParkedTimeout
<1>9. CASE Dispatch BY <1>9 DEF Dispatch
<1>10. CASE Dispatched BY <1>10 DEF Dispatched
<1>11. CASE WaitCheck BY <1>11 DEF WaitCheck
<1>12. CASE WaitBlock BY <1>12 DEF WaitBlock
<1>13. CASE WaitWoken BY <1>13 DEF WaitWoken
<1>14. CASE WaitTimeout BY <1>14 DEF WaitTimeout
<1>15. CASE LoopPop BY <1>15 DEF LoopPop
<1>16. CASE Terminate BY <1>16 DEF Terminate
<1>17. CASE Terminated BY <1>17 DEF Terminated
<1>18. CASE InterruptPause BY <1>18 DEF InterruptPause
<1>19. CASE InterruptUnregister BY <1>19 DEF InterruptUnregister
<1>20. CASE SetReady BY <1>20 DEF SetReady
<1>21. CASE CrashState BY <1>21 DEF CrashState
<1>22. CASE CrashDestroy BY <1>22 DEF CrashDestroy
<1>23. CASE AnyThread("loop") BY <1>23, CallSteps, CallEffects DEF life
<1> QED BY <1>1, <1>2, <1>3, <1>4, <1>5, <1>6, <1>7, <1>8, <1>9, <1>10, <1>11,
   <1>12, <1>13, <1>14, <1>15, <1>16, <1>17, <1>18, <1>19, <1>20, <1>21, <1>22,
   <1>23 DEF LoopThread

\* Where the event loop thread goes.
LEMMA LoopPlaces ==
    ASSUME TypeOK, Flow, NoCrash, "fatal" \notin Scripts, LoopThread
    PROVE  /\ Place("loop")' \in {"loop_pop", "terminate", "terminated"} =>
                 \/ Place("loop") \in {"loop_pop", "terminate", "terminated"}
                 \/ interrupted \/ exitReq
           /\ Place("loop")' \in {"interrupt_pause", "interrupt_unregister"} =>
                 \/ Place("loop") \in {"interrupt_pause", "interrupt_unregister"}
                 \/ interrupted
           /\ Place("loop")' \in {"set_ready", "ended"} =>
                 \/ Place("loop") \in {"set_ready", "ended"}
                 \/ Place("loop") = "terminated" /\ ~interrupted
                    /\ manager' = manager
                 \/ Remote("absent")
           /\ Starting' => Starting
<1> USE DEF TypeOK, Threads, Goto, At, Moves, AppLock, HeapLock, HeapUnlock,
           Call, CallUnlessIn, Return, CallFromScript, EndIteration, CanLock,
           FrameOf, control, flags, life, sync, CallLabels, Place, NoCrash,
           Starting, StopRequested
<1>1. CASE Run BY <1>1 DEF Run
<1>2. CASE RunLock BY <1>2 DEF RunLock
<1>3. CASE LoopEnter BY <1>3 DEF LoopEnter
<1>4. CASE LoopTop BY <1>4 DEF LoopTop
<1>5. CASE ParkedCheck BY <1>5 DEF ParkedCheck
<1>6. CASE ParkedBlock BY <1>6 DEF ParkedBlock
<1>7. CASE ParkedWoken BY <1>7 DEF ParkedWoken
<1>8. CASE ParkedTimeout BY <1>8 DEF ParkedTimeout
<1>9. CASE Dispatch BY <1>9 DEF Dispatch
<1>10. CASE Dispatched BY <1>10 DEF Dispatched
<1>11. CASE WaitCheck BY <1>11 DEF WaitCheck
<1>12. CASE WaitBlock BY <1>12 DEF WaitBlock
<1>13. CASE WaitWoken BY <1>13 DEF WaitWoken
<1>14. CASE WaitTimeout BY <1>14 DEF WaitTimeout
<1>15. CASE LoopPop BY <1>15 DEF LoopPop
<1>16. CASE Terminate BY <1>16 DEF Terminate
<1>17. CASE Terminated BY <1>17 DEF Terminated
<1>18. CASE InterruptPause BY <1>18 DEF InterruptPause
<1>19. CASE InterruptUnregister BY <1>19 DEF InterruptUnregister
<1>20. CASE SetReady BY <1>20 DEF SetReady
<1>21. CASE CrashState BY <1>21 DEF CrashState
<1>22. CASE CrashDestroy BY <1>22 DEF CrashDestroy
<1>23. CASE AnyThread("loop")
  <2> HIDE DEF Place, Starting
  <2>1. Place("loop")' = Place("loop") BY <1>23, CallEffects
  <2>2. Starting' => Starting
    <3>1. CASE UNCHANGED <<pc, frame>> BY <3>1 DEF Starting
    <3>2. CASE /\ pc["loop"] \in CallLabels
               /\ pc'["loop"] \in CallLabels \cup {frame["loop"].back}
               /\ frame'["loop"].back \in {frame["loop"].back, "none"}
      BY <3>2 DEF Starting, Flow, LoopFlow, UpdateLabels, ScriptLabels
    <3> QED BY <1>23, <3>1, <3>2, CallSteps
  <2> QED BY <2>1, <2>2
<1> QED BY <1>1, <1>2, <1>3, <1>4, <1>5, <1>6, <1>7, <1>8, <1>9, <1>10, <1>11,
   <1>12, <1>13, <1>14, <1>15, <1>16, <1>17, <1>18, <1>19, <1>20, <1>21, <1>22,
   <1>23 DEF LoopThread


LEMMA HttpEffects ==
    ASSUME TypeOK, Flow, HttpThread
    PROVE  /\ \A u \in {"loop", "init"} :
                 pc'[u] = pc[u] /\ frame'[u] = frame[u]
           /\ UNCHANGED interrupted
           /\ AnyThread("http") \/ UNCHANGED appState
           /\ pc["http"] \in Idle =>
                 UNCHANGED <<frame, life, appState, exitReq, manager>>
           /\ AnyThread("http") \/ manager' = manager \/ Remote("absent")
           /\ AnyThread("http") \/ exitReq' = exitReq \/ pc["http"] = "exit_request"
           /\ pc'["http"] \in {"request_exit", "exit_notify"} =>
                 "error" \in Scripts \/ AnyThread("http")
           /\ pc'["http"] \in Withdrawn =>
                 pc["http"] \in Withdrawn \/ Remote("absent")
           /\ joinable' \/ UNCHANGED joinable \/ pc["http"] = "join"
           /\ UNCHANGED inReg \/ pc["http"] = "erase"
           /\ pc'["http"] \in Idle \/ pc["http"] \notin Idle
<1> USE DEF TypeOK, Threads, Goto, At, Moves, AppLock, HeapLock, HeapUnlock,
           Call, CallUnlessIn, Return, CallFromScript, CanLock, control, flags,
           life, sync, UpdateLabels, Withdrawn, Late, Idle
<1>1. CASE GetLock BY <1>1 DEF GetLock
<1>2. CASE GetRead BY <1>2 DEF GetRead
<1>3. CASE PutLock BY <1>3 DEF PutLock
<1>4. CASE PutDecode BY <1>4 DEF PutDecode, Flow, HttpFlow
<1>5. CASE ApiLock BY <1>5 DEF ApiLock
<1>6. CASE ApiEval BY <1>6 DEF ApiEval
<1>7. CASE ApiEnd BY <1>7 DEF ApiEnd
<1>8. CASE DeleteLock BY <1>8 DEF DeleteLock
<1>9. CASE DeletePause BY <1>9 DEF DeletePause
<1>10. CASE DeleteUnregister BY <1>10 DEF DeleteUnregister
<1>11. CASE ShutdownUnregister BY <1>11 DEF ShutdownUnregister
<1>12. CASE ExitLock BY <1>12 DEF ExitLock
<1>13. CASE ExitRequest BY <1>13 DEF ExitRequest
<1>14. CASE ExitNotifyAll BY <1>14 DEF ExitNotifyAll
<1>15. CASE ReadyCheck BY <1>15 DEF ReadyCheck
<1>16. CASE ReadyBlock BY <1>16 DEF ReadyBlock
<1>17. CASE ReadyWoken BY <1>17 DEF ReadyWoken
<1>18. CASE ReadyTimeout BY <1>18 DEF ReadyTimeout
<1>19. CASE Join BY <1>19 DEF Join
<1>20. CASE DeleteLoop BY <1>20 DEF DeleteLoop
<1>21. CASE Erase BY <1>21 DEF Erase
<1>22. CASE DestroyLock BY <1>22 DEF DestroyLock
<1>23. CASE Destroy BY <1>23 DEF Destroy
<1>24. CASE AnswerDeleted BY <1>24 DEF AnswerDeleted
<1>25. CASE ServerStops BY <1>25 DEF ServerStops
<1>26. CASE MainExits BY <1>26 DEF MainExits
<1>27. CASE AnyThread("http")
  <2> HIDE DEF UpdateLabels
  <2>1. "http" \in Threads BY DEF Threads
  <2>2. /\ \A u \in {"loop", "init"} :
              pc'[u] = pc[u] /\ frame'[u] = frame[u]
        /\ UNCHANGED life
    BY <1>27, <2>1, CallSteps DEF Threads
  <2>3. UNCHANGED interrupted BY <1>27, <2>1, CallEffects
  <2>4. pc["http"] \in Idle =>
           UNCHANGED <<frame, life, appState, exitReq, manager>>
    <3>1. CASE pc["http"] \in CallLabels BY <3>1 DEF CallLabels
    <3>2. CASE Die("http") BY <3>2 DEF Die, Abort
    <3> QED BY <1>27, <2>1, <3>1, <3>2, CallSteps
  <2>5. pc'["http"] \in Withdrawn => pc["http"] \in Withdrawn
    <3>1. CASE pc["http"] \in CallLabels
               /\ pc'["http"] \in CallLabels \cup {frame["http"].back}
      BY <3>1 DEF Flow, HttpFlow, CallLabels, UpdateLabels, ScriptLabels
    <3>2. CASE UNCHANGED <<pc, frame>> BY <3>2
    <3> QED BY <1>27, <2>1, <3>1, <3>2, CallSteps
  <2>6. pc'["http"] \in Idle \/ pc["http"] \notin Idle
    <3>1. CASE pc["http"] \in CallLabels BY <3>1 DEF CallLabels
    <3>2. CASE UNCHANGED <<pc, frame>> BY <3>2
    <3> QED BY <1>27, <2>1, <3>1, <3>2, CallSteps
  <2> QED BY <1>27, <2>2, <2>3, <2>4, <2>5, <2>6
<1> QED BY <1>1, <1>2, <1>3, <1>4, <1>5, <1>6, <1>7, <1>8, <1>9, <1>10, <1>11,
   <1>12, <1>13, <1>14, <1>15, <1>16, <1>17, <1>18, <1>19, <1>20, <1>21, <1>22,
   <1>23, <1>24, <1>25, <1>26, <1>27 DEF HttpThread

LEMMA RequestEffects ==
    ASSUME TypeOK, NewRequest
    PROVE  /\ \A u \in {"loop", "init"} :
                 pc'[u] = pc[u] /\ frame'[u] = frame[u]
           /\ UNCHANGED <<interrupted, proc, life, flags, manager>>
           /\ pc'["http"] \notin Withdrawn \cup {"send", "update"}
           /\ pc'["http"] \notin {"request_exit", "exit_notify"}
           /\ pc'["http"] \in Pending => frame'["http"].owed = 1
           /\ Settled => ~Starting /\ pc["init"] = "ended"
<1> USE DEF TypeOK, Threads, Goto, At, Moves, Accept, control, flags, life, sync,
           Withdrawn, Late, Pending, FrameOf
<1>1. CASE Get BY <1>1 DEF Get
<1>2. CASE Put BY <1>2 DEF Put
<1>3. CASE Api BY <1>3 DEF Api
<1>4. CASE Delete BY <1>4 DEF Delete
<1>5. CASE Reload BY <1>5 DEF Reload
<1> QED BY <1>1, <1>2, <1>3, <1>4, <1>5 DEF NewRequest

LEMMA InitEffects ==
    ASSUME TypeOK, Flow, InitThread
    PROVE  /\ pc'["http"] = pc["http"]
           /\ \A u \in {"loop", "http"} : frame'[u] = frame[u]
           /\ UNCHANGED <<interrupted, inReg>>
           /\ proc' \in {proc, "aborted"}
           /\ AnyThread("init") \/ UNCHANGED <<appState, exitReq>>
           /\ AnyThread("init") \/ manager' = manager \/ pc["init"] = "register"
           /\ AnyThread("init") \/ pc["init"] # "ended"
           /\ pc'["init"] \in {"request_exit", "exit_notify"} =>
                 "error" \in Scripts \/ AnyThread("init")
           /\ Place("init")' \in BeforeSpawn \cup {"describe"} =>
                 /\ Place("init") \in BeforeSpawn \cup {"describe"}
                 /\ AnyThread("init") \/ manager' = manager
           /\ Place("init")' \in {"app_exists", "register"} =>
                 /\ Place("init") \in {"describe", "app_exists", "register"}
                 /\ AnyThread("init") \/ manager' = manager
           /\ Place("init")' \in AfterSpawn =>
                 joinable' \/ (Place("init") \in AfterSpawn /\ UNCHANGED joinable)
                 \/ "error" \in Scripts
           /\ joinable' \/ UNCHANGED joinable
<1> USE DEF TypeOK, Threads, Goto, At, Moves, AppLock, HeapLock, HeapUnlock,
           Call, CallUnlessIn, Return, CallFromScript, CanLock, FrameOf, NoFrame,
           control, flags, life, sync, CallLabels, Place, BeforeSpawn, AfterSpawn
<1>1. CASE LockApp BY <1>1 DEF LockApp
<1>2. CASE LockDukt BY <1>2 DEF LockDukt
<1>3. CASE EvalMain BY <1>3 DEF EvalMain
<1>4. CASE Spawn BY <1>4 DEF Spawn
<1>5. CASE Describe BY <1>5 DEF Describe
<1>6. CASE AppExists BY <1>6 DEF AppExists
<1>7. CASE RegisterApp BY <1>7 DEF RegisterApp
<1>8. CASE InstantiatePause BY <1>8 DEF InstantiatePause
<1>9. CASE InstantiateStart BY <1>9 DEF InstantiateStart
<1>10. CASE InstantiateEnd BY <1>10 DEF InstantiateEnd
<1>11. CASE AnyThread("init")
  <2> HIDE DEF Place, BeforeSpawn, AfterSpawn, CallLabels
  <2>1. "init" \in Threads BY DEF Threads
  <2>2. /\ pc'["http"] = pc["http"] /\ UNCHANGED life
        /\ \A u \in {"loop", "http"} : frame'[u] = frame[u]
    BY <1>11, <2>1, CallSteps DEF Threads
  <2>3. /\ Place("init")' = Place("init") /\ UNCHANGED interrupted
        /\ proc' \in {proc, "aborted"}
    BY <1>11, <2>1, CallEffects
  <2> QED BY <1>11, <2>2, <2>3
<1> QED BY <1>1, <1>2, <1>3, <1>4, <1>5, <1>6, <1>7, <1>8, <1>9, <1>10, <1>11
   DEF InitThread

-----------------------------------------------------------------------------
(* Starting                                                                 *)

LEMMA PlaceOf ==
    ASSUME Flow
    PROVE  /\ Place("init") = "ended" <=> pc["init"] = "ended"
           /\ Place("init") \in BeforeSpawn \cup AfterSpawn \cup {"ended"}
           /\ \A t \in Threads : pc[t] \notin CallLabels => Place(t) = pc[t]
BY DEF Place, Flow, InitFlow, CallLabels, UpdateLabels, ScriptLabels,
       StartLabels, BeforeSpawn, AfterSpawn

\* instantiate() holds the duktape mutex until it ends.
LEMMA RunLockLast ==
    ASSUME TypeOK, Flow, Unborn, DuktInv, RunLock
    PROVE  pc["init"] = "ended"
<1>1. pc["loop"] = "run_lock" /\ dukt.owner \in {Nobody, "loop"}
  BY DEF RunLock, HeapLock, At, CanLock
<1>2. dukt.owner # "init" BY <1>1 DEF Nobody
<1>3. Place("init") \notin InitDuktPlaces BY <1>2 DEF DuktInv, DuktInit
<1>4. Place("init") \notin {"lock_app", "lock_dukt", "eval_main", "spawn"}
  BY <1>1 DEF Unborn
<1> QED
  BY <1>3, <1>4, PlaceOf DEF InitDuktPlaces, InitAppPlaces, BeforeSpawn, AfterSpawn

LEMMA TurnsNext ==
    ASSUME TypeOK, Flow, Unborn, DuktInv, Turns, [Next]_vars
    PROVE  Turns'
<1>1. CASE InitThread
  <2>1. frame'["loop"] = frame["loop"] BY <1>1, InitSteps
  <2>2. CASE pc'["loop"] = pc["loop"]
    <3>1. pc'["init"] # "ended" => pc["init"] # "ended" BY <1>1, InitSteps
    <3>2. Place("loop")' = Place("loop") BY <2>1, <2>2 DEF Place
    <3> QED BY <3>1, <3>2 DEF Turns
  <2>3. CASE pc'["loop"] = "run" BY <2>3 DEF Turns, Place, CallLabels
  <2> QED BY <1>1, <2>2, <2>3, InitSteps
<1>2. CASE LoopThread
  <2>1. pc'["init"] = pc["init"] BY <1>2, LoopEffects
  <2>2. CASE pc["init"] = "ended" BY <2>1, <2>2 DEF Turns
  <2>3. CASE pc["init"] # "ended"
    <3>1. Place("loop") \in {"unborn", "run", "run_lock"} BY <2>3 DEF Turns
    <3>2. CASE AnyThread("loop")
      <4>1. Place("loop")' = Place("loop") BY <3>2, CallEffects DEF Threads
      <4> QED BY <3>1, <4>1 DEF Turns
    <3>3. CASE Run
      <4>1. Place("loop")' = "run_lock"
        BY <3>3 DEF Run, Call, Goto, FrameOf, Place, CallLabels, TypeOK, Threads
      <4> QED BY <4>1 DEF Turns
    <3>4. CASE RunLock BY <2>3, <3>4, RunLockLast
    <3>5. CASE ~(AnyThread("loop") \/ Run \/ RunLock)
      <4>1. pc["loop"] \in {"unborn", "run", "run_lock"} \cup CallLabels
        BY <3>1 DEF Place
      <4>2. pc["loop"] \notin {"unborn", "run", "run_lock"} \cup CallLabels
        BY <1>2, <3>5 DEF LoopThread, At, CallLabels, HeapLock, HeapUnlock,
           LoopEnter, LoopTop, ParkedCheck, ParkedBlock, ParkedWoken,
           ParkedTimeout, Dispatch, Dispatched, WaitCheck, WaitBlock, WaitWoken,
           WaitTimeout, LoopPop, Terminate, Terminated, InterruptPause,
           InterruptUnregister, SetReady, CrashState, CrashDestroy
      <4> QED BY <4>1, <4>2
    <3> QED BY <3>2, <3>3, <3>4, <3>5
  <2> QED BY <2>2, <2>3
<1>3. CASE HttpThread BY <1>3, HttpEffects DEF Turns, Place
<1>4. CASE NewRequest BY <1>4, RequestEffects DEF Turns, Place
<1>5. CASE Sigint BY <1>5, SigintSteps DEF Turns, Place
<1>6. CASE UNCHANGED vars BY <1>6 DEF vars, Turns, Place
<1> QED BY <1>1, <1>2, <1>3, <1>4, <1>5, <1>6 DEF Next

LEMMA TurnsInit == Init => Turns
BY DEF Init, Turns, Place, CallLabels

\* instantiate() leaves the application running when its own steps, and those
\* of the calls it makes, are the ones that count.
LEMMA StartsInitThread ==
    ASSUME TypeOK, Flow, Starts, InitThread
    PROVE  Starts'
<1>1. /\ pc["loop"] \in UpdateLabels /\ frame["loop"].back = "run_lock"
            => frame["loop"].target = "running"
      /\ pc["init"] \in UpdateLabels /\ frame["init"].back = "unlock"
            => frame["init"].target = "running"
      /\ Place("init") \in BeforeSpawn \/ pc["init"] \in ScriptLabels => ~joinable
      /\ Place("init") = "unlock" /\ joinable
         /\ pc["init"] \notin {"set_state", "write_state"}
            => appState = "running"
  BY DEF Starts
<1>2. pc'["loop"] \in UpdateLabels /\ frame'["loop"].back = "run_lock"
            => frame'["loop"].target = "running"
  BY <1>1, InitSteps DEF UpdateLabels
<1>3. CASE AnyThread("init")
  <2>1. "init" \in Threads BY DEF Threads
  <2>2. /\ Place("init")' = Place("init") /\ UNCHANGED joinable
        /\ pc'["init"] \in UpdateLabels =>
              /\ pc["init"] \in UpdateLabels
              /\ frame'["init"].target = frame["init"].target
              /\ frame'["init"].back = frame["init"].back
        /\ pc'["init"] \in ScriptLabels => pc["init"] \in ScriptLabels
    BY <1>3, <2>1, CallEffects, CallSteps DEF life
  <2>3. ASSUME Place("init") = "unlock", joinable,
               pc'["init"] \notin {"set_state", "write_state"}
        PROVE  appState' = "running"
    <3>1. pc["init"] \notin ScriptLabels BY <1>1, <2>3
    <3>2. pc["init"] \in UpdateLabels => frame["init"].target = "running"
      BY <1>1, <2>3 DEF Place, UpdateLabels, CallLabels
    <3> USE DEF At, Goto, Return, HeapLock, flags, TypeOK
    <3>3. CASE SetAppState("init") BY <2>3, <3>2, <3>3 DEF SetAppState, UpdateLabels
    <3>4. CASE WriteState("init") BY <3>2, <3>4 DEF WriteState, UpdateLabels
    <3>5. CASE Wake("init") BY <1>1, <2>3, <3>5 DEF Wake
    <3>6. CASE Again("init") BY <1>1, <2>3, <3>6 DEF Again
    <3>7. CASE UpdateClient("init") BY <1>1, <2>3, <3>7 DEF UpdateClient
    <3>8. CASE JsonLock("init") BY <1>1, <2>3, <3>8 DEF JsonLock
    <3>9. CASE Json("init") BY <1>1, <2>3, <3>9 DEF Json
    <3>10. CASE Send("init") BY <1>1, <2>3, <3>10 DEF Send
    <3>11. CASE RequestExit("init") \/ NotifyExit("init") \/ SetResponse("init")
      BY <3>1, <3>11 DEF RequestExit, NotifyExit, SetResponse, ScriptLabels
    <3>12. CASE Die("init") BY <1>1, <2>3, <3>12 DEF Die, Abort
    <3> QED BY <1>3, <3>3, <3>4, <3>5, <3>6, <3>7, <3>8, <3>9, <3>10, <3>11,
               <3>12 DEF AnyThread, UpdateAppState
  <2> QED BY <1>1, <1>2, <2>2, <2>3 DEF Starts
<1>4. ASSUME ~AnyThread("init") PROVE Starts'
  <2> DEFINE Rest ==
        /\ pc'["init"] \in UpdateLabels /\ frame'["init"].back = "unlock"
              => frame'["init"].target = "running"
        /\ Place("init")' \in BeforeSpawn \/ pc'["init"] \in ScriptLabels
              => ~joinable'
        /\ Place("init")' = "unlock" /\ joinable'
           /\ pc'["init"] \notin {"set_state", "write_state"}
              => appState' = "running"
  <2> SUFFICES Rest BY <1>2 DEF Starts
  <2> USE <1>1 DEF At, Goto, Moves, AppLock, HeapLock, Call, CallUnlessIn,
          CallFromScript, FrameOf, flags, life, TypeOK, Threads, Place,
          CallLabels, UpdateLabels, ScriptLabels, BeforeSpawn
  <2>1. CASE LockApp BY <2>1 DEF LockApp
  <2>2. CASE LockDukt BY <2>2 DEF LockDukt
  <2>3. CASE EvalMain BY <2>3 DEF EvalMain
  <2>4. CASE Spawn BY <2>4 DEF Spawn
  <2>5. CASE Describe BY <2>5 DEF Describe
  <2>6. CASE AppExists BY <2>6 DEF AppExists
  <2>7. CASE RegisterApp BY <2>7 DEF RegisterApp
  <2>8. CASE InstantiatePause BY <2>8 DEF InstantiatePause
  <2>9. CASE InstantiateStart BY <2>9 DEF InstantiateStart
  <2>10. CASE InstantiateEnd BY <2>10 DEF InstantiateEnd
  <2> QED
    BY <1>4, <2>1, <2>2, <2>3, <2>4, <2>5, <2>6, <2>7, <2>8, <2>9, <2>10
    DEF InitThread
<1> QED BY <1>3, <1>4

LEMMA StartsNext ==
    ASSUME Settled, TypeOK, Flow, Waits, Turns, Starts, [Next]_vars
    PROVE  Starts'
<1>1. CASE InitThread BY <1>1, StartsInitThread
<1>2. CASE LoopThread
  <2>1. /\ pc'["init"] = pc["init"] /\ frame'["init"] = frame["init"]
        /\ UNCHANGED joinable
    BY <1>2, LoopEffects
  <2>2. Place("init")' = Place("init") BY <2>1 DEF Place
  <2>3. pc'["loop"] \in UpdateLabels /\ frame'["loop"].back = "run_lock"
           => frame'["loop"].target = "running"
    <3>1. CASE AnyThread("loop")
      BY <3>1, CallEffects DEF Starts, Threads
    <3> QED BY <1>2, <3>1, LoopEffects
  <2>4. Place("init") = "unlock" /\ appState = "running" => appState' = "running"
    <3> SUFFICES ASSUME Place("init") = "unlock", appState' # appState
                 PROVE  appState' = "running"
      OBVIOUS
    <3>1. AnyThread("loop") BY <1>2, LoopEffects
    <3>2. pc["loop"] = "write_state" /\ appState' = frame["loop"].target
      BY <3>1, CallEffects DEF Threads
    <3>3. pc["init"] # "ended" BY PlaceOf
    <3>4. frame["loop"].back \in {"unborn", "run", "run_lock"}
      BY <3>2, <3>3 DEF Turns, Place, CallLabels
    <3>5. frame["loop"].back = "run_lock"
      BY <3>2, <3>4 DEF Flow, LoopFlow, UpdateLabels
    <3> QED BY <3>2, <3>5 DEF Starts, UpdateLabels
  <2> QED BY <2>1, <2>2, <2>3, <2>4 DEF Starts
<1>3. CASE HttpThread
  <2>1. \A u \in {"loop", "init"} : pc'[u] = pc[u] /\ frame'[u] = frame[u]
    BY <1>3, HttpEffects
  <2>2. Place("init")' = Place("init") BY <2>1 DEF Place
  <2>3. CASE pc["init"] = "ended"
    <3>1. Place("init")' = "ended" BY <2>2, <2>3, PlaceOf
    <3> QED BY <2>1, <2>3, <3>1
            DEF Starts, UpdateLabels, ScriptLabels, BeforeSpawn
  <2>4. CASE pc["init"] # "ended"
    <3>1. UNCHANGED <<life, appState>> BY <1>3, <2>4, HttpEffects DEF Waits
    <3> QED BY <2>1, <2>2, <3>1 DEF Starts, life
  <2> QED BY <2>3, <2>4
<1>4. CASE NewRequest BY <1>4, RequestEffects DEF Starts, Place, life, flags
<1>5. CASE Sigint BY <1>5 DEF Sigint, Starts, Place, life, flags
<1>6. CASE UNCHANGED vars BY <1>6 DEF vars, Starts, Place, life, flags
<1> QED BY <1>1, <1>2, <1>3, <1>4, <1>5, <1>6 DEF Next

LEMMA StartsInit == Init => Starts
BY DEF Init, Starts, Place, CallLabels, UpdateLabels, ScriptLabels, Threads

\* The step that ends instantiate().
LEMMA LeavesRunning ==
    ASSUME TypeOK, Flow, Starts, [Next]_vars, pc["init"] # "ended",
           pc'["init"] = "ended", joinable'
    PROVE  appState' = "running"
<1>1. InstantiateEnd
  <2>1. InitThread
    BY LoopEffects, HttpEffects, RequestEffects, SigintSteps DEF Next, vars
  <2>2. ~AnyThread("init")
    <3> SUFFICES ASSUME AnyThread("init") PROVE FALSE OBVIOUS
    <3>1. "init" \in Threads BY DEF Threads
    <3>2. pc'["init"] \in CallLabels \cup {frame["init"].back}
          /\ pc["init"] \in CallLabels
      BY <3>1, CallSteps
    <3> QED BY <3>2 DEF Flow, InitFlow, CallLabels, UpdateLabels, ScriptLabels
  <2> QED
    BY <2>1, <2>2 DEF InitThread, LockApp, LockDukt, EvalMain, Spawn, Describe,
       AppExists, RegisterApp, InstantiatePause, InstantiateStart, AppLock,
       HeapLock, Moves, Goto, CallUnlessIn, Call, CallFromScript, TypeOK, Threads
<1>2. pc["init"] = "unlock" /\ UNCHANGED <<joinable, appState>>
  BY <1>1 DEF InstantiateEnd, At, life, flags
<1> QED BY <1>2 DEF Starts, Place, CallLabels

\* When requests wait until the application has started, it is running once
\* instantiate() has returned, whatever its main module does, although two
\* threads write the state, outside each other's locks, in any order
\* (application.cpp:408-429, 551-585, 869-870).
THEOREM StartLeavesRunningAlways ==
    ASSUME Settled
    PROVE  Spec => StartLeavesRunning
<1> DEFINE SInv == LockInv /\ DeletionInv /\ Turns /\ Starts
<1>1. Spec => []LockInv BY LockDiscipline
<1>2. Init => DeletionInv /\ Turns /\ Starts
  BY DeletionInit, TurnsInit, StartsInit
<1>3. LockInv /\ DeletionInv /\ Turns /\ Starts /\ [Next]_vars
         => DeletionInv' /\ Turns' /\ Starts'
  BY DeletionNext, TurnsNext, StartsNext DEF LockInv, DeletionInv
<1>4. LockInv /\ Starts /\ [Next]_vars
         => [pc["init"] # "ended" /\ pc'["init"] = "ended" /\ joinable'
               => appState' = "running"]_vars
  BY LeavesRunning DEF LockInv
<1> QED BY <1>1, <1>2, <1>3, <1>4, PTL DEF Spec, StartLeavesRunning


-----------------------------------------------------------------------------
(* Answering a PUT                                                          *)

LEMMA SteadyInit == Init => Steady
BY DEF Init, Steady, Idle, Place, CallLabels

LEMMA SteadyNext ==
    ASSUME Settled, ~Signals, "fatal" \notin Scripts, TypeOK, Flow, GoneInv,
           Steady, [Next]_vars
    PROVE  Steady'
<1>1. CASE InitThread
  <2>1. frame'["loop"] = frame["loop"] /\ pc'["http"] = pc["http"]
        /\ UNCHANGED interrupted
    BY <1>1, InitSteps, InitEffects
  <2>2. CASE pc'["loop"] = pc["loop"]
    BY <2>1, <2>2 DEF Steady, Place, Starting
  <2>3. CASE pc["init"] = "spawn" /\ pc'["loop"] = "run"
    <3>1. pc["http"] \in Idle
      BY <2>3 DEF GoneInv, DeletionInv, Waits
    <3> QED BY <2>1, <2>3, <3>1 DEF Steady, Place, CallLabels
  <2> QED BY <1>1, <2>2, <2>3, InitSteps
<1>2. CASE LoopThread
  <2>1. NoCrash BY DEF GoneInv
  <2>2. pc'["http"] = pc["http"] /\ UNCHANGED interrupted
    BY <1>2, LoopEffects
  <2> QED BY <1>2, <2>1, <2>2, LoopPlaces DEF Steady
<1>3. CASE HttpThread BY <1>3, HttpEffects DEF Steady, Place, Starting
<1>4. CASE NewRequest BY <1>4, RequestEffects DEF Steady, Place, Starting
<1>5. CASE Sigint BY <1>5 DEF Sigint
<1>6. CASE UNCHANGED vars
  BY <1>6 DEF vars, control, Steady, Place, Starting
<1> QED BY <1>1, <1>2, <1>3, <1>4, <1>5, <1>6 DEF Next

\* While a handler is active only its own thread touches the state.
LEMMA OthersKeep ==
    ASSUME TypeOK, Flow, GoneInv, Steady, pc["http"] \notin Idle,
           InitThread \/ LoopThread
    PROVE  UNCHANGED <<appState, manager>>
<1>1. pc["init"] = "ended" BY DEF GoneInv, DeletionInv, Waits
<1>2. CASE InitThread
  <2>1. CASE AnyThread("init")
    <3>1. "init" \in Threads /\ pc["init"] \notin UpdateLabels
      BY <1>1 DEF Threads, UpdateLabels
    <3> QED BY <2>1, <3>1, CallEffects DEF UpdateLabels
  <2> QED BY <1>1, <1>2, <2>1, InitEffects
<1>3. CASE LoopThread
  <2>1. CASE AnyThread("loop")
    <3>1. "loop" \in Threads BY DEF Threads
    <3>2. pc["loop"] \notin UpdateLabels
      <4> SUFFICES ASSUME pc["loop"] \in UpdateLabels PROVE FALSE OBVIOUS
      <4>1. Place("loop") = frame["loop"].back
        BY DEF Place, UpdateLabels, CallLabels
      <4>2. frame["loop"].back \notin {"run_lock", "crash_destroy"}
        BY DEF Steady, Starting, GoneInv, NoCrash
      <4> QED BY <4>1, <4>2 DEF Steady, Flow, LoopFlow
    <3> QED BY <2>1, <3>1, <3>2, CallEffects DEF UpdateLabels
  <2>2. ~InterruptUnregister
    BY DEF InterruptUnregister, At, Steady, Place, CallLabels
  <2> QED BY <1>3, <2>1, <2>2, LoopEffects
<1> QED BY <1>2, <1>3

LEMMA ReportedInit == Init => Reported
BY DEF Init, Reported, Pending

\* The handler's own steps.
LEMMA ReportedHttp ==
    ASSUME ~LossyRR, TypeOK, Flow, Owes, GoneInv, Reported, HttpThread
    PROVE  Reported'
<1>1. /\ pc["http"] \in Pending => frame["http"].owed \in Nat \ {0}
      /\ pc["http"] = "send" => frame["http"].payload = appState
      /\ pc["http"] = "update" /\ frame["http"].owed = 0
            => manager \in {"absent", appState}
  BY DEF Reported
<1>2. pc["http"] \in {"json_lock", "json", "send"} =>
         frame["http"].owed \in Nat \ {0}
  BY DEF Owes, Threads
<1>3. pc["http"] \in CallLabels => ctx
  BY DEF GoneInv, Dismantled, CallLabels, Idle
<1>4. /\ pc["http"] \in CallLabels =>
            frame["http"].back \in {"idle", "delete_unregister", "api_end"}
      /\ pc["http"] = "put_decode" => frame["http"].back = "idle"
  BY DEF Flow, HttpFlow, CallLabels, UpdateLabels, ScriptLabels
<1> USE <1>1 DEF TypeOK, Threads, Frames, Goto, At, Moves, AppLock, HeapLock,
           HeapUnlock, Call, CallUnlessIn, Return, CallFromScript, FrameOf,
           NoFrame, flags, life, Reported, Pending
<1>5. CASE SetAppState("http") BY <1>5 DEF SetAppState
<1>6. CASE WriteState("http") BY <1>6 DEF WriteState
<1>7. CASE Wake("http") BY <1>7 DEF Wake
<1>8. CASE Again("http") BY <1>8 DEF Again
<1>9. CASE UpdateClient("http") BY <1>3, <1>4, <1>9 DEF UpdateClient, CallLabels
<1>10. CASE JsonLock("http") BY <1>2, <1>10 DEF JsonLock
<1>11. CASE Json("http") BY <1>2, <1>11 DEF Json
<1>12. CASE Send("http")
  <2>1. pc'["http"] = "update" /\ appState' = appState
    BY <1>12 DEF Send
  <2>2. manager' = IF manager = "absent" \/ frame["http"].payload = "none"
                   THEN manager ELSE frame["http"].payload
    BY <1>12 DEF Send, Remote
  <2>3. frame["http"].payload = appState /\ appState # "none"
    BY <1>12 DEF Send, FlagsOK, States
  <2> QED BY <2>1, <2>2, <2>3
<1>13. CASE RequestExit("http") BY <1>13 DEF RequestExit
<1>14. CASE NotifyExit("http") BY <1>4, <1>14 DEF NotifyExit, CallLabels
<1>15. CASE SetResponse("http") BY <1>4, <1>15 DEF SetResponse, CallLabels
<1>16. CASE Die("http") BY <1>16 DEF Die, Abort
<1>17. CASE AnyThread("http")
  BY <1>5, <1>6, <1>7, <1>8, <1>9, <1>10, <1>11, <1>12, <1>13, <1>14, <1>15,
     <1>16, <1>17 DEF AnyThread, UpdateAppState
<1>18. CASE PutDecode BY <1>4, <1>18 DEF PutDecode
<1>19. CASE PutLock BY <1>19 DEF PutLock
<1>20. CASE DeletePause BY <1>20 DEF DeletePause
<1>21. CASE ApiEval BY <1>21 DEF ApiEval
<1>22. ASSUME ~AnyThread("http"), ~PutDecode, ~PutLock, ~DeletePause, ~ApiEval
       PROVE  pc'["http"] \notin Pending \cup {"send", "update"}
  BY <1>22 DEF HttpThread, GetLock, GetRead, ApiLock, ApiEnd, DeleteLock,
     DeleteUnregister, ShutdownUnregister, ExitLock, ExitRequest,
     ExitNotifyAll, ReadyCheck, ReadyBlock, ReadyWoken, ReadyTimeout, Join,
     DeleteLoop, Erase, DestroyLock, Destroy, AnswerDeleted, ServerStops,
     MainExits
<1> QED BY <1>17, <1>18, <1>19, <1>20, <1>21, <1>22

LEMMA ReportedNext ==
    ASSUME ~LossyRR, TypeOK, Flow, Owes, GoneInv, Steady, Reported, [Next]_vars
    PROVE  Reported'
<1>1. CASE InitThread \/ LoopThread
  <2>1. pc'["http"] = pc["http"] /\ frame'["http"] = frame["http"]
    BY <1>1, InitEffects, LoopEffects
  <2>2. CASE pc["http"] \in Idle
    BY <2>1, <2>2 DEF Reported, Pending, Idle
  <2>3. CASE pc["http"] \notin Idle
    BY <1>1, <2>1, <2>3, OthersKeep DEF Reported
  <2> QED BY <2>2, <2>3
<1>2. CASE HttpThread BY <1>2, ReportedHttp
<1>3. CASE NewRequest BY <1>3, RequestEffects DEF Reported
<1>4. CASE Sigint BY <1>4 DEF Sigint, Reported, flags
<1>5. CASE UNCHANGED vars BY <1>5 DEF vars, Reported, flags
<1> QED BY <1>1, <1>2, <1>3, <1>4, <1>5 DEF Next

\* The step that answers.
LEMMA Answered ==
    ASSUME TypeOK, Flow, Reported, [Next]_vars,
           pc["http"] \in {"set_state", "update"}, pc'["http"] = "idle"
    PROVE  manager' \in {"absent", appState'}
<1>1. HttpThread
  <2>1. ~NewRequest
    BY RequestEffects DEF NewRequest, Get, Put, Api, Delete, Reload, Accept, At
  <2> QED
    BY <2>1, InitEffects, LoopEffects, SigintSteps DEF Next, vars
<1>2. AnyThread("http")
  BY <1>1 DEF HttpThread, At, HeapLock, AppLock, HeapUnlock, GetLock, GetRead,
     PutLock, PutDecode, ApiLock, ApiEval, ApiEnd, DeleteLock, DeletePause,
     DeleteUnregister, ShutdownUnregister, ExitLock, ExitRequest,
     ExitNotifyAll, ReadyCheck, ReadyBlock, ReadyWoken, ReadyTimeout, Join,
     DeleteLoop, Erase, DestroyLock, Destroy, AnswerDeleted, ServerStops,
     MainExits
<1>3. UpdateClient("http")
  BY <1>2 DEF AnyThread, UpdateAppState, SetAppState, WriteState, Wake, Again,
     JsonLock, Json, Send, RequestExit, NotifyExit, SetResponse, Die, Abort, At,
     Goto, HeapLock, TypeOK, Threads
<1>4. /\ pc["http"] = "update" /\ frame["http"].owed = 0
      /\ UNCHANGED <<appState, manager>>
  BY <1>3 DEF UpdateClient, At, Goto, TypeOK, Threads, flags
<1> QED BY <1>4 DEF Reported

\* A PUT that comes after the start-up is answered only when the manager, if it
\* lists the application, shows the state the application is in
\* (application.cpp:551-587, 921-929), whatever the event loop and its scripts
\* are doing and whatever the manager showed before. No signal arrives, no error
\* is fatal and no request to the manager is lost.
THEOREM PutReachesManagerAlways ==
    ASSUME Settled, ~Signals, ~LossyRR, "fatal" \notin Scripts
    PROVE  Spec => PutReachesManager
<1>1. Spec => [](LockInv /\ GoneInv) BY LockDiscipline, GoneAlways, PTL
<1>2. Init => Steady /\ Reported BY SteadyInit, ReportedInit
<1>3. LockInv /\ GoneInv /\ Steady /\ Reported /\ [Next]_vars
         => Steady' /\ Reported'
  BY SteadyNext, ReportedNext DEF LockInv
<1>4. LockInv /\ Reported /\ [Next]_vars
         => [pc["http"] \in {"set_state", "update"} /\ pc'["http"] = "idle"
               => manager' \in {"absent", appState'}]_vars
  BY Answered DEF LockInv
<1> QED BY <1>1, <1>2, <1>3, <1>4, PTL DEF Spec, PutReachesManager


-----------------------------------------------------------------------------
(* Being forgotten                                                          *)

LEMMA ForgottenInit == Init => Forgotten /\ NoExits
BY DEF Init, Forgotten, NoExits, Place, CallLabels, Withdrawn, Late, AfterSpawn,
       Threads

LEMMA NoExitsNext ==
    ASSUME "error" \notin Scripts, TypeOK, Flow, NoExits, [Next]_vars
    PROVE  NoExits'
<1>1. ASSUME NEW t \in Threads, AnyThread(t)
      PROVE  NoExits'
  <2>1. pc'[t] \notin {"request_exit", "exit_notify"}
    BY <1>1, CallEffects DEF NoExits, ScriptLabels
  <2>2. \A u \in Threads : u # t => pc'[u] = pc[u] BY <1>1, CallSteps
  <2> QED BY <2>1, <2>2 DEF NoExits
<1>2. CASE InitThread
  <2>1. CASE ~AnyThread("init")
    BY <1>2, <2>1, InitEffects, InitSteps DEF NoExits, Threads
  <2> QED BY <1>1, <2>1 DEF Threads
<1>3. CASE LoopThread
  <2>1. CASE ~AnyThread("loop")
    BY <1>3, <2>1, LoopEffects DEF NoExits, Threads
  <2> QED BY <1>1, <2>1 DEF Threads
<1>4. CASE HttpThread
  <2>1. CASE ~AnyThread("http")
    BY <1>4, <2>1, HttpEffects DEF NoExits, Threads
  <2> QED BY <1>1, <2>1 DEF Threads
<1>5. CASE NewRequest BY <1>5, RequestEffects DEF NoExits, Threads
<1>6. CASE Sigint BY <1>6 DEF Sigint, NoExits
<1>7. CASE UNCHANGED vars BY <1>7 DEF vars, NoExits
<1> QED BY <1>2, <1>3, <1>4, <1>5, <1>6, <1>7 DEF Next

\* Nothing happens in a process that is gone, and only main() leaves it.
LEMMA Exits ==
    ASSUME Next
    PROVE  proc = "up" /\ (proc' = "exited" => MainExits)
<1> USE DEF At, Moves, AppLock, HeapLock, HeapUnlock, control, Abort
<1>1. ASSUME NEW t \in Threads, AnyThread(t)
      PROVE  proc = "up" /\ proc' # "exited"
  BY <1>1 DEF AnyThread, UpdateAppState, SetAppState, WriteState, Wake, Again,
     UpdateClient, JsonLock, Json, Send, RequestExit, NotifyExit, SetResponse,
     Die
<1>2. CASE InitThread
  BY <1>1, <1>2 DEF InitThread, Threads, LockApp, LockDukt, EvalMain, Spawn,
     Describe, AppExists, RegisterApp, InstantiatePause, InstantiateStart,
     InstantiateEnd
<1>3. CASE LoopThread
  BY <1>1, <1>3 DEF LoopThread, Threads, Run, RunLock, LoopEnter, LoopTop,
     ParkedCheck, ParkedBlock, ParkedWoken, ParkedTimeout, Dispatch, Dispatched,
     WaitCheck, WaitBlock, WaitWoken, WaitTimeout, LoopPop, Terminate,
     Terminated, InterruptPause, InterruptUnregister, SetReady, CrashState,
     CrashDestroy
<1>4. CASE HttpThread
  BY <1>1, <1>4 DEF HttpThread, Threads, GetLock, GetRead, PutLock, PutDecode,
     ApiLock, ApiEval, ApiEnd, DeleteLock, DeletePause, DeleteUnregister,
     ShutdownUnregister, ExitLock, ExitRequest, ExitNotifyAll, ReadyCheck,
     ReadyBlock, ReadyWoken, ReadyTimeout, Join, DeleteLoop, Erase, DestroyLock,
     Destroy, AnswerDeleted, ServerStops, MainExits
<1>5. CASE NewRequest
  BY <1>5 DEF NewRequest, Get, Put, Api, Delete, Reload, Accept
<1>6. CASE Sigint BY <1>6 DEF Sigint
<1> QED BY <1>2, <1>3, <1>4, <1>5, <1>6 DEF Next

\* Only instantiate() puts an application on the manager's list.
LEMMA AbsentStays ==
    ASSUME ~LossyRR, TypeOK, Flow, manager = "absent",
           InitThread \/ LoopThread \/ HttpThread, pc["init"] # "register"
    PROVE  manager' = "absent"
<1>1. ASSUME NEW t \in Threads, AnyThread(t) PROVE manager' = "absent"
  BY <1>1, CallEffects
<1>2. Remote("absent") => manager' = "absent" BY DEF Remote
<1> QED BY <1>1, <1>2, InitEffects, LoopEffects, HttpEffects DEF Threads

LEMMA ForgottenInitThread ==
    ASSUME ~LossyRR, "error" \notin Scripts, TypeOK, Flow, GoneInv, Turns,
           NoExits, Forgotten, InitThread
    PROVE  Forgotten'
<1>1. "init" \in Threads BY DEF Threads
<1>2. proc = "up" /\ proc' # "exited"
  BY Exits, InitEffects DEF Next
<1>3. manager = "absent" /\ pc["init"] # "register" => manager' = "absent"
  BY AbsentStays
<1>4. AnyThread("init") => manager' = manager \/ manager # "absent"
  BY <1>1, CallEffects
<1>5. exitReq' = exitReq
  BY <1>1, CallEffects, InitEffects DEF NoExits
<1>6. pc["init"] = "ended" => pc' = pc
  BY InitSteps
<1>7. UNCHANGED <<inReg, interrupted>> /\ pc'["http"] = pc["http"]
  BY InitEffects
<1>8. pc["http"] \in Withdrawn \/ ~inReg \/ exitReq => pc["init"] = "ended"
  BY DEF GoneInv, DeletionInv, Waits, Dismantled, Forgotten, Withdrawn, Late, Idle
<1>9. pc["init"] = "register" => joinable
  BY DEF Forgotten, Place, CallLabels, AfterSpawn
<1>10. Place("loop")' = Place("loop") \/ Place("loop")' = "run"
  BY InitSteps DEF Place, CallLabels
<1>11. Place("loop") \in {"loop_pop", "terminate", "terminated", "set_ready",
                          "ended"} => pc["init"] = "ended"
  BY DEF Turns
<1>12. Place("init")' \in BeforeSpawn \cup {"describe", "app_exists", "register"}
         => manager' = "absent"
  BY <1>4, InitEffects DEF Forgotten
<1>13. Place("init")' \in AfterSpawn => joinable'
  BY InitEffects DEF Forgotten
<1>14. ~joinable' => manager' = "absent"
  BY <1>3, <1>9, InitEffects DEF Forgotten
<1>15. pc'["http"] \in Withdrawn \/ ~inReg' \/ exitReq' => manager' = "absent"
  BY <1>3, <1>5, <1>7, <1>8 DEF Forgotten
<1>16. exitReq' => pc'["init"] = "ended"
  BY <1>5, <1>6, <1>8
<1>17. /\ Place("loop")' \in {"loop_pop", "terminate", "terminated"}
            => interrupted' \/ manager' = "absent"
       /\ Place("loop")' \in {"set_ready", "ended"} => manager' = "absent"
  BY <1>3, <1>7, <1>10, <1>11 DEF Forgotten
<1> QED BY <1>2, <1>12, <1>13, <1>14, <1>15, <1>16, <1>17 DEF Forgotten

LEMMA ForgottenLoopThread ==
    ASSUME ~LossyRR, "fatal" \notin Scripts, TypeOK, Flow, GoneInv, Turns,
           NoExits, Forgotten, LoopThread
    PROVE  Forgotten'
<1>1. "loop" \in Threads /\ NoCrash BY DEF Threads, GoneInv
<1>2. proc = "up" /\ proc' # "exited"
  BY Exits, LoopEffects DEF Next
<1>3. manager = "absent" => manager' = "absent"
  <2>1. AnyThread("loop") => manager' = manager \/ manager # "absent"
    BY <1>1, CallEffects
  <2>2. Remote("absent") => manager' = "absent" BY DEF Remote
  <2> QED BY <2>1, <2>2, LoopEffects
<1>4. Remote("absent") => manager' = "absent" BY DEF Remote
<1>5. /\ \A u \in {"http", "init"} : pc'[u] = pc[u] /\ frame'[u] = frame[u]
      /\ UNCHANGED <<interrupted, joinable, inReg>>
  BY LoopEffects
<1>6. Place("init")' = Place("init") BY <1>5 DEF Place
<1>7. exitReq' => exitReq
  BY <1>1, CallEffects, LoopEffects DEF NoExits
<1>8. Place("loop")' \in {"loop_pop", "terminate", "terminated"}
         => interrupted' \/ manager' = "absent"
  BY <1>1, <1>3, <1>5, LoopPlaces DEF Forgotten
<1>9. Place("loop")' \in {"set_ready", "ended"} => manager' = "absent"
  BY <1>1, <1>3, <1>4, LoopPlaces DEF Forgotten
<1> QED BY <1>2, <1>3, <1>5, <1>6, <1>7, <1>8, <1>9 DEF Forgotten

LEMMA ForgottenHttpThread ==
    ASSUME ~LossyRR, TypeOK, Flow, GoneInv, NoExits, Forgotten, HttpThread
    PROVE  Forgotten'
<1>1. "http" \in Threads BY DEF Threads
<1>2. proc' = "exited" => MainExits BY Exits DEF Next
<1>3. manager = "absent" => manager' = "absent"
  <2>1. AnyThread("http") => manager' = manager \/ manager # "absent"
    BY <1>1, CallEffects
  <2>2. Remote("absent") => manager' = "absent" BY DEF Remote
  <2> QED BY <2>1, <2>2, HttpEffects
<1>4. Remote("absent") => manager' = "absent" BY DEF Remote
<1>5. /\ \A u \in {"loop", "init"} : pc'[u] = pc[u] /\ frame'[u] = frame[u]
      /\ UNCHANGED interrupted
  BY HttpEffects
<1>6. Place("init")' = Place("init") /\ Place("loop")' = Place("loop")
  BY <1>5 DEF Place
<1>7. exitReq' => exitReq \/ pc["http"] = "exit_request"
  BY <1>1, CallEffects, HttpEffects DEF NoExits
<1>8. pc["http"] \in {"join", "erase", "exit_request"} =>
         pc["http"] \in Withdrawn /\ pc["init"] = "ended"
  BY DEF Withdrawn, Late, GoneInv, DeletionInv, Waits, Idle
<1>9. Place("init") \in AfterSpawn => joinable'
  BY <1>8, PlaceOf, HttpEffects DEF Forgotten, AfterSpawn
<1>10. pc'["http"] \in Withdrawn \/ ~inReg' \/ exitReq' => manager' = "absent"
  BY <1>3, <1>4, <1>7, <1>8, HttpEffects DEF Forgotten
<1>11. ~joinable' => manager' = "absent"
  BY <1>3, <1>8, HttpEffects DEF Forgotten
<1>12. proc' = "exited" => manager' = "absent"
  <2> SUFFICES ASSUME MainExits PROVE manager' = "absent" BY <1>2
  <2>1. inReg /\ joinable => Place("loop") = "ended"
    BY DEF MainExits, Place, CallLabels
  <2> QED BY <1>3, <2>1 DEF Forgotten
<1> QED BY <1>3, <1>5, <1>6, <1>7, <1>8, <1>9, <1>10, <1>11, <1>12 DEF Forgotten

LEMMA ForgottenNext ==
    ASSUME ~LossyRR, "error" \notin Scripts, "fatal" \notin Scripts, TypeOK, Flow,
           GoneInv, Turns, NoExits, Forgotten, [Next]_vars
    PROVE  Forgotten'
<1>1. CASE InitThread BY <1>1, ForgottenInitThread
<1>2. CASE LoopThread BY <1>2, ForgottenLoopThread
<1>3. CASE HttpThread BY <1>3, ForgottenHttpThread
<1>4. CASE NewRequest
  BY <1>4, RequestEffects DEF Forgotten, Place, life, flags
<1>5. CASE Sigint BY <1>5 DEF Sigint, Forgotten, Place, life, flags
<1>6. CASE UNCHANGED vars
  BY <1>6 DEF vars, control, Forgotten, Place, life, flags
<1> QED BY <1>1, <1>2, <1>3, <1>4, <1>5, <1>6 DEF Next

\* An application that runs when SIGINT arrives is no longer on the manager's
\* list when the server exits (application.cpp:903-907): whatever it, its
\* timers, its start-up and a deletion are doing when the signal comes. No
\* script fails or asks for an exit, and no request to the manager is lost.
THEOREM ForgottenOnSigintAlways ==
    ASSUME Settled, ~LossyRR, "error" \notin Scripts, "fatal" \notin Scripts
    PROVE  Spec => []ForgottenOnSigint
<1>1. Spec => [](LockInv /\ GoneInv) BY LockDiscipline, GoneAlways, PTL
<1>2. Init => Turns /\ NoExits /\ Forgotten BY TurnsInit, ForgottenInit
<1>3. LockInv /\ GoneInv /\ Turns /\ NoExits /\ Forgotten /\ [Next]_vars
         => Turns' /\ NoExits' /\ Forgotten'
  BY TurnsNext, NoExitsNext, ForgottenNext DEF LockInv
<1>4. Forgotten => ForgottenOnSigint BY DEF Forgotten, ForgottenOnSigint
<1> QED BY <1>1, <1>2, <1>3, <1>4, PTL DEF Spec


-----------------------------------------------------------------------------
(* The application as a service                                             *)

\* During the start-up the application is never shown as crashed, and the
\* thread that runs its event loop is there before anything is told of it.
Fresh ==
    /\ pc["init"] # "ended" => appState # "crashed"
    /\ pc["init"] \in UpdateLabels => frame["init"].target \in {"running", "paused"}
    /\ pc["init"] \in UpdateLabels \cup {"app_exists", "register"}
          => frame["init"].payload # "crashed"
    /\ Place("init") \in AfterSpawn \ {"unlock"} \/ pc["init"] \in UpdateLabels
          => pc["loop"] # "unborn"

\* What the new thread still does when instantiate() has returned changes
\* nothing, and tells the manager nothing new.
Settling ==
    /\ frame["loop"].back = "run_lock" => pc["loop"] \in UpdateLabels
    /\ pc["init"] = "ended" /\ Starting => appState = "running"
    /\ pc["loop"] = "send" => /\ pc["init"] = "ended"
                              /\ frame["loop"].payload = appState

\* A handler that has written the state finds it so until it is done.
Asking ==
    /\ pc["http"] \in {"wake", "again", "update", "json_lock", "json", "send"}
          => appState = frame["http"].target
    /\ pc["http"] = "send" => frame["http"].payload = appState
    /\ pc["http"] \in UpdateLabels /\ frame["http"].back = "delete_unregister"
          => frame["http"].target = "paused"
    /\ pc["http"] = "delete_unregister" => appState = "paused"

LEMMA ServiceInits == Init => Fresh /\ Settling /\ Asking
BY DEF Init, Fresh, Settling, Asking, Place, CallLabels, UpdateLabels,
       AfterSpawn, Starting, NoFrame, FrameOf, Threads

\* The event loop thread never goes back to before its beginning, and runs one
\* call at a time.
LEMMA LoopKeepsOn ==
    ASSUME TypeOK, Flow, LoopThread,
           frame["loop"].back = "run_lock" => pc["loop"] \in UpdateLabels
    PROVE  /\ pc'["loop"] # "unborn"
           /\ frame'["loop"].back = "run_lock" => pc'["loop"] \in UpdateLabels
<1> USE DEF TypeOK, Threads, Goto, At, Moves, AppLock, HeapLock, HeapUnlock,
           Call, CallUnlessIn, Return, CallFromScript, EndIteration, FrameOf,
           NoFrame, UpdateLabels
<1>1. CASE Run BY <1>1 DEF Run
<1>2. CASE RunLock BY <1>2 DEF RunLock
<1>3. CASE LoopEnter BY <1>3 DEF LoopEnter
<1>4. CASE LoopTop BY <1>4 DEF LoopTop
<1>5. CASE ParkedCheck BY <1>5 DEF ParkedCheck
<1>6. CASE ParkedBlock BY <1>6 DEF ParkedBlock
<1>7. CASE ParkedWoken BY <1>7 DEF ParkedWoken
<1>8. CASE ParkedTimeout BY <1>8 DEF ParkedTimeout
<1>9. CASE Dispatch BY <1>9 DEF Dispatch
<1>10. CASE Dispatched BY <1>10 DEF Dispatched
<1>11. CASE WaitCheck BY <1>11 DEF WaitCheck
<1>12. CASE WaitBlock BY <1>12 DEF WaitBlock
<1>13. CASE WaitWoken BY <1>13 DEF WaitWoken
<1>14. CASE WaitTimeout BY <1>14 DEF WaitTimeout
<1>15. CASE LoopPop BY <1>15 DEF LoopPop
<1>16. CASE Terminate BY <1>16 DEF Terminate
<1>17. CASE Terminated BY <1>17 DEF Terminated
<1>18. CASE InterruptPause BY <1>18 DEF InterruptPause
<1>19. CASE InterruptUnregister BY <1>19 DEF InterruptUnregister
<1>20. CASE SetReady BY <1>20 DEF SetReady
<1>21. CASE CrashState BY <1>21 DEF CrashState
<1>22. CASE CrashDestroy BY <1>22 DEF CrashDestroy
<1>23. CASE AnyThread("loop")
  <2>1. pc["loop"] \in CallLabels => frame["loop"].back # "unborn"
    BY DEF Flow, LoopFlow, CallLabels, ScriptLabels
  <2>2. pc'["loop"] # "unborn"
    <3>1. CASE Die("loop") /\ UNCHANGED pc BY <3>1 DEF Die, InHeap, HeapLabels
    <3> QED BY <1>23, <2>1, <3>1, CallSteps DEF CallLabels
  <2>3. frame'["loop"].back = "run_lock" => pc'["loop"] \in UpdateLabels
    <3> USE DEF Frames
    <3>1. CASE SetAppState("loop") BY <3>1 DEF SetAppState
    <3>2. CASE WriteState("loop") BY <3>2 DEF WriteState
    <3>3. CASE Wake("loop") BY <3>3 DEF Wake
    <3>4. CASE Again("loop") BY <3>4 DEF Again
    <3>5. CASE UpdateClient("loop") BY <3>5 DEF UpdateClient
    <3>6. CASE JsonLock("loop") BY <3>6 DEF JsonLock
    <3>7. CASE Json("loop") BY <3>7 DEF Json
    <3>8. CASE Send("loop") BY <3>8 DEF Send
    <3>9. CASE RequestExit("loop") BY <3>9 DEF RequestExit
    <3>10. CASE NotifyExit("loop") BY <3>10 DEF NotifyExit
    <3>11. CASE SetResponse("loop") BY <3>11 DEF SetResponse
    <3>12. CASE Die("loop") BY <3>12 DEF Die, Abort
    <3> QED BY <1>23, <3>1, <3>2, <3>3, <3>4, <3>5, <3>6, <3>7, <3>8, <3>9,
               <3>10, <3>11, <3>12 DEF AnyThread, UpdateAppState
  <2> QED BY <2>2, <2>3
<1> QED BY <1>1, <1>2, <1>3, <1>4, <1>5, <1>6, <1>7, <1>8, <1>9, <1>10, <1>11,
   <1>12, <1>13, <1>14, <1>15, <1>16, <1>17, <1>18, <1>19, <1>20, <1>21, <1>22,
   <1>23 DEF LoopThread

\* Without a signal or a crash the new thread asks for "running" and no more.
LEMMA LoopWrites ==
    ASSUME TypeOK, Flow, NoCrash, Steady, Starts, LoopThread,
           appState' # appState
    PROVE  /\ AnyThread("loop") /\ pc["loop"] = "write_state"
           /\ frame["loop"].back = "run_lock" /\ appState' = "running"
<1>1. AnyThread("loop") BY LoopEffects
<1>2. pc["loop"] = "write_state" /\ appState' = frame["loop"].target
  BY <1>1, CallEffects DEF Threads
<1>3. Place("loop") = frame["loop"].back BY <1>2 DEF Place, CallLabels
<1>4. frame["loop"].back = "run_lock"
  BY <1>2, <1>3 DEF Steady, NoCrash, Flow, LoopFlow, UpdateLabels
<1> QED BY <1>1, <1>2, <1>4 DEF Starts, UpdateLabels

LEMMA FreshInitThread ==
    ASSUME TypeOK, Flow, Turns, Fresh, InitThread
    PROVE  Fresh'
<1>1. /\ pc["init"] # "ended" => appState # "crashed"
      /\ pc["init"] \in UpdateLabels =>
            frame["init"].target \in {"running", "paused"}
      /\ pc["init"] \in UpdateLabels \cup {"app_exists", "register"}
            => frame["init"].payload # "crashed"
      /\ Place("init") \in AfterSpawn \ {"unlock"} \/ pc["init"] \in UpdateLabels
            => pc["loop"] # "unborn"
  BY DEF Fresh
<1>2. pc["init"] \in CallLabels =>
         frame["init"].back \in {"start", "spawn", "unlock"}
  BY DEF Flow, InitFlow, CallLabels, UpdateLabels, ScriptLabels
<1>3. CASE AnyThread("init")
  <2>1. "init" \in Threads BY DEF Threads
  <2>2. Place("init")' = Place("init") /\ pc'["loop"] = pc["loop"]
    BY <1>3, <2>1, CallEffects, CallSteps DEF Threads
  <2>3. /\ pc'["init"] \in UpdateLabels =>
              frame'["init"].target \in {"running", "paused"}
        /\ pc'["init"] \in UpdateLabels => pc["init"] \in UpdateLabels
    BY <1>1, <1>3, <2>1, CallEffects
  <2>5. pc'["init"] # "ended" => appState' # "crashed"
    <3>1. pc["init"] # "ended" \/ pc' = pc
      BY <1>3, <2>1, CallSteps DEF CallLabels
    <3>2. \/ appState' = appState
          \/ pc["init"] = "write_state" /\ appState' = frame["init"].target
      BY <1>3, <2>1, CallEffects
    <3> QED BY <1>1, <3>1, <3>2 DEF UpdateLabels
  <2>4. pc'["init"] \in UpdateLabels \cup {"app_exists", "register"}
            => frame'["init"].payload # "crashed"
    <3> USE <1>1, <1>2 DEF At, Goto, Return, HeapLock, Threads, TypeOK, Frames,
            UpdateLabels, CallLabels, NoFrame, FrameOf, flags
    <3>1. CASE SetAppState("init") BY <3>1 DEF SetAppState
    <3>2. CASE WriteState("init") BY <3>2 DEF WriteState
    <3>3. CASE Wake("init") BY <3>3 DEF Wake
    <3>4. CASE Again("init") BY <3>4 DEF Again
    <3>5. CASE UpdateClient("init") BY <3>5 DEF UpdateClient
    <3>6. CASE JsonLock("init") BY <3>6 DEF JsonLock
    <3>7. CASE Json("init") BY <3>7 DEF Json
    <3>8. CASE Send("init") BY <3>8 DEF Send
    <3>9. CASE RequestExit("init") \/ NotifyExit("init") \/ SetResponse("init")
      BY <3>9 DEF RequestExit, NotifyExit, SetResponse
    <3>10. CASE Die("init") BY <3>10 DEF Die, Abort
    <3> QED BY <1>3, <3>1, <3>2, <3>3, <3>4, <3>5, <3>6, <3>7, <3>8, <3>9, <3>10
            DEF AnyThread, UpdateAppState
  <2> QED BY <1>1, <2>2, <2>3, <2>4, <2>5 DEF Fresh
<1>4. ASSUME ~AnyThread("init") PROVE Fresh'
  <2>1. pc["init"] \notin CallLabels \cup {"ended"}
    BY <1>4 DEF InitThread, At, LockApp, LockDukt, EvalMain, Spawn, Describe,
       AppExists, RegisterApp, InstantiatePause, InstantiateStart,
       InstantiateEnd, AppLock, HeapLock, CallLabels
  <2>2. UNCHANGED appState /\ appState # "crashed"
    BY <1>1, <1>4, <2>1, InitEffects
  <2> DEFINE Rest ==
        /\ pc'["init"] \in UpdateLabels =>
              frame'["init"].target \in {"running", "paused"}
        /\ pc'["init"] \in UpdateLabels \cup {"app_exists", "register"}
              => frame'["init"].payload # "crashed"
        /\ Place("init")' \in AfterSpawn \ {"unlock"}
           \/ pc'["init"] \in UpdateLabels
              => pc'["loop"] # "unborn"
  <2> SUFFICES Rest BY <2>2 DEF Fresh
  <2> USE <1>1, <2>2 DEF At, Goto, Moves, AppLock, HeapLock, Call, CallUnlessIn,
          CallFromScript, FrameOf, TypeOK, Threads, Place, CallLabels,
          UpdateLabels, AfterSpawn
  <2>3. CASE LockApp BY <2>3 DEF LockApp
  <2>4. CASE LockDukt BY <2>4 DEF LockDukt
  <2>5. CASE EvalMain BY <2>5 DEF EvalMain
  <2>6. CASE Spawn BY <2>6 DEF Spawn
  <2>7. CASE Describe BY <2>7 DEF Describe
  <2>8. CASE AppExists BY <2>8 DEF AppExists
  <2>9. CASE RegisterApp BY <2>9 DEF RegisterApp
  <2>10. CASE InstantiatePause BY <2>10 DEF InstantiatePause
  <2>11. CASE InstantiateStart BY <2>11 DEF InstantiateStart
  <2>12. CASE InstantiateEnd BY <2>12 DEF InstantiateEnd
  <2> QED
    BY <1>4, <2>3, <2>4, <2>5, <2>6, <2>7, <2>8, <2>9, <2>10, <2>11, <2>12
    DEF InitThread
<1> QED BY <1>3, <1>4

LEMMA FreshNext ==
    ASSUME Settled, TypeOK, Flow, GoneInv, Steady, Turns, Starts, Fresh,
           Settling, [Next]_vars
    PROVE  Fresh'
<1>1. CASE InitThread BY <1>1, FreshInitThread
<1>2. CASE LoopThread
  <2>1. pc'["init"] = pc["init"] /\ frame'["init"] = frame["init"]
    BY <1>2, LoopEffects
  <2>2. Place("init")' = Place("init") BY <2>1 DEF Place
  <2>3. pc'["loop"] # "unborn" BY <1>2, LoopKeepsOn DEF Settling
  <2>4. appState' \in {appState, "running"} BY <1>2, LoopWrites DEF GoneInv
  <2> QED BY <2>1, <2>2, <2>3, <2>4 DEF Fresh
<1>3. CASE HttpThread
  <2>1. \A u \in {"loop", "init"} : pc'[u] = pc[u] /\ frame'[u] = frame[u]
    BY <1>3, HttpEffects
  <2>2. Place("init")' = Place("init") BY <2>1 DEF Place
  <2>3. pc["init"] # "ended" => UNCHANGED appState
    BY <1>3, HttpEffects DEF GoneInv, DeletionInv, Waits
  <2> QED BY <2>1, <2>2, <2>3 DEF Fresh
<1>4. CASE NewRequest BY <1>4, RequestEffects DEF Fresh, Place, flags
<1>5. CASE Sigint BY <1>5 DEF Sigint, Fresh, Place, flags
<1>6. CASE UNCHANGED vars BY <1>6 DEF vars, Fresh, Place, flags
<1> QED BY <1>1, <1>2, <1>3, <1>4, <1>5, <1>6 DEF Next


\* getAppAsJSON() waits with the duktape mutex for the end of instantiate().
LEMMA JsonLast ==
    ASSUME Flow, Unborn, DuktInv, pc["loop"] = "json"
    PROVE  pc["init"] = "ended"
<1>1. dukt.owner = "loop" BY DEF DuktInv, DuktLoop
<1>2. dukt.owner # "init" BY <1>1
<1>3. Place("init") \notin InitDuktPlaces BY <1>2 DEF DuktInv, DuktInit
<1>4. Place("init") \notin {"lock_app", "lock_dukt", "eval_main", "spawn"}
  BY DEF Unborn
<1> QED
  BY <1>3, <1>4, PlaceOf DEF InitDuktPlaces, InitAppPlaces, BeforeSpawn, AfterSpawn

\* What the event loop thread is about to send.
LEMMA LoopSends ==
    ASSUME TypeOK, Flow, Unborn, DuktInv, Dismantled, Settling, LoopThread,
           pc'["loop"] = "send"
    PROVE  /\ pc["init"] = "ended" /\ UNCHANGED appState
           /\ frame'["loop"].payload = appState
<1>1. pc["loop"] \in CallLabels
  <2> SUFFICES ASSUME pc["loop"] \notin CallLabels PROVE FALSE OBVIOUS
  <2> USE DEF TypeOK, Threads, Goto, At, Moves, HeapLock, HeapUnlock, Call,
              CallUnlessIn, CallFromScript, EndIteration
  <2>1. CASE AnyThread("loop")
    <3>1. CASE Die("loop") /\ UNCHANGED pc BY <3>1 DEF CallLabels
    <3> QED BY <2>1, <3>1, CallSteps
  <2>2. ~AnyThread("loop") => pc'["loop"] # "send"
    BY DEF LoopThread, Run, RunLock, LoopEnter, LoopTop, ParkedCheck,
       ParkedBlock, ParkedWoken, ParkedTimeout, Dispatch, Dispatched, WaitCheck,
       WaitBlock, WaitWoken, WaitTimeout, LoopPop, Terminate, Terminated,
       InterruptPause, InterruptUnregister, SetReady, CrashState, CrashDestroy
  <2> QED BY <2>1, <2>2
<1>2. ctx BY <1>1 DEF Dismantled, Over, CallLabels
<1>3. ~Die("loop") BY NobodyDies DEF Threads
<1>4. AnyThread("loop")
  BY <1>1 DEF LoopThread, At, HeapLock, HeapUnlock, CallLabels, Run, RunLock,
     LoopEnter, LoopTop, ParkedCheck, ParkedBlock, ParkedWoken, ParkedTimeout,
     Dispatch, Dispatched, WaitCheck, WaitBlock, WaitWoken, WaitTimeout, LoopPop,
     Terminate, Terminated, InterruptPause, InterruptUnregister, SetReady,
     CrashState, CrashDestroy
<1>5. Json("loop")
  <2>1. frame["loop"].back # "send"
    BY <1>1 DEF Flow, LoopFlow, CallLabels, UpdateLabels, ScriptLabels
  <2> QED
    BY <1>2, <1>3, <1>4, <2>1 DEF AnyThread, UpdateAppState, SetAppState,
       WriteState, Wake, Again, UpdateClient, JsonLock, Send, RequestExit,
       NotifyExit, SetResponse, At, Goto, Return, HeapLock, TypeOK, Threads
<1>6. pc["loop"] = "json" BY <1>5 DEF Json, At
<1>7. pc["init"] = "ended" BY <1>6, JsonLast
<1> QED BY <1>5, <1>7 DEF Json, flags, TypeOK, Threads, Frames

LEMMA StartingIsAlive ==
    ASSUME Settling, Starting
    PROVE  pc["loop"] \notin Over
BY DEF Settling, Starting, Over, UpdateLabels

LEMMA SettlingNext ==
    ASSUME Settled, "fatal" \notin Scripts, LockInv, GoneInv, Steady, Starts,
           Settling, [Next]_vars
    PROVE  Settling'
<1> USE DEF LockInv
<1>1. /\ frame["loop"].back = "run_lock" => pc["loop"] \in UpdateLabels
      /\ pc["init"] = "ended" /\ Starting => appState = "running"
      /\ pc["loop"] = "send" => /\ pc["init"] = "ended"
                                /\ frame["loop"].payload = appState
  BY DEF Settling
<1>2. pc["loop"] = "send" => Starting
  BY DEF Flow, LoopFlow, UpdateLabels, Starting, GoneInv, NoCrash, Steady, Place,
         CallLabels
<1>3. CASE InitThread
  <2>1. CASE pc["init"] = "ended"
    <3>1. pc' = pc /\ frame'["loop"] = frame["loop"] BY <1>3, <2>1, InitSteps
    <3>2. appState' = appState
      BY <1>3, <2>1, InitEffects, CallEffects DEF Threads
    <3> QED BY <1>1, <3>1, <3>2 DEF Settling, Starting
  <2>2. CASE pc["init"] # "ended"
    <3>1. frame'["loop"] = frame["loop"] BY <1>3, InitSteps
    <3>2. pc["loop"] # "send" BY <1>1, <2>2
    <3>3. pc'["loop"] \in {pc["loop"], "run"} BY <1>3, InitSteps
    <3>4. frame["loop"].back = "run_lock" => pc'["loop"] \in UpdateLabels
      <4> SUFFICES ASSUME frame["loop"].back = "run_lock"
                   PROVE  pc'["loop"] \in UpdateLabels
        OBVIOUS
      <4>1. pc["loop"] \in UpdateLabels BY <1>1
      <4>2. pc["init"] # "spawn"
        BY <4>1 DEF Unborn, Place, CallLabels, UpdateLabels
      <4> QED BY <1>3, <4>1, <4>2, InitSteps
    <3>5. pc'["init"] = "ended" /\ Starting' => appState' = "running"
      <4> SUFFICES ASSUME pc'["init"] = "ended", Starting'
                   PROVE  appState' = "running"
        OBVIOUS
      <4>1. joinable'
        <5>1. CASE pc'["loop"] = pc["loop"] /\ UNCHANGED joinable
          <6>1. Starting BY <3>1, <5>1 DEF Starting
          <6>2. pc["loop"] \notin Over BY <6>1, StartingIsAlive
          <6> QED BY <5>1, <6>2 DEF GoneInv, DeletionInv, Joins
        <5> QED BY <1>3, <5>1, InitSteps
      <4> QED BY <2>2, <4>1, LeavesRunning
    <3> QED BY <3>1, <3>2, <3>3, <3>4, <3>5 DEF Settling
  <2> QED BY <2>1, <2>2
<1>4. CASE LoopThread
  <2>1. /\ frame'["loop"].back = "run_lock" => pc'["loop"] \in UpdateLabels
    BY <1>1, <1>4, LoopKeepsOn
  <2>2. pc'["init"] = pc["init"] BY <1>4, LoopEffects
  <2>3. appState' \in {appState, "running"} BY <1>4, LoopWrites DEF GoneInv
  <2>4. Starting' => Starting BY <1>4, LoopPlaces DEF GoneInv
  <2>5. pc'["loop"] = "send" =>
           pc["init"] = "ended" /\ frame'["loop"].payload = appState'
    BY <1>4, LoopSends DEF GoneInv
  <2> QED BY <1>1, <2>1, <2>2, <2>3, <2>4, <2>5 DEF Settling
<1>5. CASE HttpThread
  <2>1. \A u \in {"loop", "init"} : pc'[u] = pc[u] /\ frame'[u] = frame[u]
    BY <1>5, HttpEffects
  <2>2. Starting' = Starting BY <2>1 DEF Starting
  <2>3. Starting => UNCHANGED appState BY <1>5, HttpEffects DEF Steady
  <2> QED BY <1>1, <1>2, <2>1, <2>2, <2>3 DEF Settling
<1>6. CASE NewRequest BY <1>6, RequestEffects DEF Settling, Starting, flags
<1>7. CASE Sigint BY <1>7 DEF Sigint, Settling, Starting, flags
<1>8. CASE UNCHANGED vars BY <1>8 DEF vars, Settling, Starting, flags
<1> QED BY <1>3, <1>4, <1>5, <1>6, <1>7, <1>8 DEF Next

LEMMA AskingHttp ==
    ASSUME TypeOK, Flow, GoneInv, Asking, HttpThread
    PROVE  Asking'
<1>1. /\ pc["http"] \in {"wake", "again", "update", "json_lock", "json", "send"}
            => appState = frame["http"].target
      /\ pc["http"] = "send" => frame["http"].payload = appState
      /\ pc["http"] \in UpdateLabels /\ frame["http"].back = "delete_unregister"
            => frame["http"].target = "paused"
      /\ pc["http"] = "delete_unregister" => appState = "paused"
  BY DEF Asking
<1>2. pc["http"] \in CallLabels => ctx
  BY DEF GoneInv, Dismantled, CallLabels, Idle
<1>3. /\ pc["http"] \in UpdateLabels =>
            frame["http"].back \in {"idle", "delete_unregister"}
      /\ pc["http"] \in ScriptLabels => frame["http"].back = "api_end"
      /\ pc["http"] \in {"put_lock", "put_decode"} => frame["http"].back = "idle"
  BY DEF Flow, HttpFlow
<1> USE <1>1 DEF TypeOK, Threads, Frames, Goto, At, Moves, AppLock, HeapLock,
           HeapUnlock, Call, CallUnlessIn, Return, CallFromScript, FrameOf,
           NoFrame, flags, life, Asking, UpdateLabels, ScriptLabels
<1>4. CASE SetAppState("http") BY <1>4 DEF SetAppState
<1>5. CASE WriteState("http") BY <1>5 DEF WriteState
<1>6. CASE Wake("http") BY <1>6 DEF Wake
<1>7. CASE Again("http") BY <1>7 DEF Again
<1>8. CASE UpdateClient("http")
  BY <1>2, <1>3, <1>8 DEF UpdateClient, CallLabels
<1>9. CASE JsonLock("http") BY <1>9 DEF JsonLock
<1>10. CASE Json("http") BY <1>10 DEF Json
<1>11. CASE Send("http") BY <1>11 DEF Send
<1>12. CASE RequestExit("http") BY <1>12 DEF RequestExit
<1>13. CASE NotifyExit("http") BY <1>3, <1>13 DEF NotifyExit
<1>14. CASE SetResponse("http") BY <1>3, <1>14 DEF SetResponse
<1>15. CASE Die("http") BY <1>15 DEF Die, Abort
<1>16. CASE AnyThread("http")
  BY <1>4, <1>5, <1>6, <1>7, <1>8, <1>9, <1>10, <1>11, <1>12, <1>13, <1>14,
     <1>15, <1>16 DEF AnyThread, UpdateAppState
<1>17. CASE PutDecode BY <1>3, <1>17 DEF PutDecode
<1>18. CASE PutLock BY <1>18 DEF PutLock
<1>19. CASE DeletePause BY <1>19 DEF DeletePause
<1>20. CASE ApiEval BY <1>20 DEF ApiEval
<1>21. ASSUME ~AnyThread("http"), ~PutDecode, ~PutLock, ~DeletePause, ~ApiEval
       PROVE  pc'["http"] \notin UpdateLabels \cup {"delete_unregister"}
  BY <1>21 DEF HttpThread, GetLock, GetRead, ApiLock, ApiEnd, DeleteLock,
     DeleteUnregister, ShutdownUnregister, ExitLock, ExitRequest,
     ExitNotifyAll, ReadyCheck, ReadyBlock, ReadyWoken, ReadyTimeout, Join,
     DeleteLoop, Erase, DestroyLock, Destroy, AnswerDeleted, ServerStops,
     MainExits
<1> QED BY <1>16, <1>17, <1>18, <1>19, <1>20, <1>21

LEMMA AskingNext ==
    ASSUME TypeOK, Flow, GoneInv, Steady, Asking, [Next]_vars
    PROVE  Asking'
<1>1. CASE InitThread \/ LoopThread
  <2>1. pc'["http"] = pc["http"] /\ frame'["http"] = frame["http"]
    BY <1>1, InitEffects, LoopEffects
  <2>2. CASE pc["http"] \in Idle
    BY <2>1, <2>2 DEF Asking, UpdateLabels, Idle
  <2>3. CASE pc["http"] \notin Idle
    BY <1>1, <2>1, <2>3, OthersKeep DEF Asking
  <2> QED BY <2>2, <2>3
<1>2. CASE HttpThread BY <1>2, AskingHttp
<1>3. CASE NewRequest
  BY <1>3 DEF NewRequest, Get, Put, Api, Delete, Reload, Moves, Goto, FrameOf,
     Asking, UpdateLabels, TypeOK, Threads, Frames
<1>4. CASE Sigint BY <1>4 DEF Sigint, Asking, flags
<1>5. CASE UNCHANGED vars BY <1>5 DEF vars, Asking, flags
<1> QED BY <1>1, <1>2, <1>3, <1>4, <1>5 DEF Next


Serves == /\ LockInv /\ GoneInv /\ Turns /\ Starts /\ Steady
          /\ Fresh /\ Settling /\ Asking
          /\ LossyRR \/ Reported

\* The instance, with its expressions in the place of its variables.
Alive == pc["loop"] \notin Over

LEMMA ServiceStutters ==
    ASSUME Stage' = Stage, Asked' = Asked, UNCHANGED <<appState, manager>>,
           Alive' = Alive
    PROVE  UNCHANGED Service!vars
BY DEF Service!vars, Alive, Over

\* The steps of instantiate() are those of the start-up.
LEMMA ServiceInitThread ==
    ASSUME Serves, InitThread
    PROVE  [Service!Next]_(Service!vars)
<1> USE DEF Serves, LockInv, GoneInv
<1>1. pc["init"] # "ended"
  <2> SUFFICES ASSUME pc["init"] = "ended" PROVE FALSE OBVIOUS
  <2>1. AnyThread("init") BY InitEffects
  <2>2. Die("init") BY <2>1, CallSteps DEF Threads, CallLabels
  <2> QED BY <2>2, NobodyDies DEF Threads
<1>2. pc["http"] \in Idle /\ ctx BY <1>1 DEF DeletionInv, Waits, Dismantled
<1>3. pc'["http"] = pc["http"] /\ frame'["http"] = frame["http"] /\ UNCHANGED ctx
  BY InitEffects, InitSteps
<1>4. Stage = "starting" /\ Asked = "nothing" /\ Asked' = "nothing"
  BY <1>1, <1>2, <1>3 DEF Stage, Asked, Updating, Idle
<1>5. CASE pc'["init"] = "ended"
  <2>1. InstantiateEnd
    <3>1. ~AnyThread("init")
      <4>1. CASE AnyThread("init") /\ pc["init"] \in CallLabels
        BY <1>5, <4>1, CallSteps
           DEF Threads, Flow, InitFlow, CallLabels, UpdateLabels, ScriptLabels
      <4> QED BY <1>1, <1>5, <4>1, CallSteps DEF Threads
    <3> QED
      BY <1>1, <1>5, <3>1 DEF InitThread, LockApp, LockDukt, EvalMain, Spawn,
         Describe, AppExists, RegisterApp, InstantiatePause, InstantiateStart,
         AppLock, HeapLock, Moves, Goto, CallUnlessIn, Call, CallFromScript,
         TypeOK, Threads
  <2>2. UNCHANGED <<appState, manager, joinable>> /\ pc'["loop"] = pc["loop"]
    BY <2>1 DEF InstantiateEnd, Goto, TypeOK, Threads, life, flags
  <2>3. Alive => appState = "running"
    <3>1. Alive => joinable BY DEF DeletionInv, Joins, Alive
    <3> QED BY <1>1, <1>5, <2>2, <3>1, LeavesRunning DEF Next
  <2>4. Stage' = "serving"
    BY <1>2, <1>3, <1>5 DEF Stage, Withdrawn, Leaving, Updating, Idle
  <2>5. Service!Ready BY <1>4, <2>2, <2>3, <2>4 DEF Service!Ready, Alive, Over
  <2> QED BY <2>5 DEF Service!Next
<1>6. CASE pc'["init"] # "ended"
  <2>1. Stage' = "starting" BY <1>6 DEF Stage
  <2>2. pc["loop"] # "ended"
    BY <1>1 DEF Turns, Place, CallLabels
  <2>3. CASE AnyThread("init")
    <3>1. pc'["loop"] = pc["loop"] BY <2>3, CallSteps DEF Threads
    <3>2. CASE appState' = appState /\ manager' = manager
      BY <1>4, <2>1, <3>1, <3>2, ServiceStutters DEF Alive
    <3>3. CASE pc["init"] = "write_state"
      <4>1. /\ appState' = frame["init"].target \/ appState' = appState
            /\ manager' = manager
        BY <2>3, <3>3, CallEffects DEF Threads
      <4>2. Alive /\ frame["init"].target \in {"running", "paused"}
        BY <2>2, <3>3 DEF Fresh, UpdateLabels, Alive, Over
      <4>3. CASE appState' # appState
        <5>1. Service!Begin
          BY <1>4, <2>1, <3>1, <4>1, <4>2, <4>3 DEF Service!Begin, Alive, Over
        <5> QED BY <5>1 DEF Service!Next
      <4> QED BY <1>4, <2>1, <3>1, <4>1, <4>3, ServiceStutters DEF Alive
    <3>4. CASE pc["init"] = "send"
      <4>1. appState' = appState BY <2>3, <3>4, CallEffects DEF Threads
      <4>2. Send("init") \/ Die("init")
        BY <2>3, <3>4 DEF AnyThread, UpdateAppState, SetAppState, WriteState,
           Wake, Again, UpdateClient, JsonLock, Json, RequestExit, NotifyExit,
           SetResponse, HeapLock, At
      <4>3. Send("init") BY <4>2, NobodyDies DEF Threads
      <4>4. manager' = manager
            \/ /\ manager' = frame["init"].payload /\ manager' # "none"
        BY <4>3 DEF Send, Remote
      <4>5. frame["init"].payload \in (States \cup {"none"}) \ {"crashed"}
        BY <3>4 DEF Fresh, UpdateLabels, TypeOK, Frames, Threads
      <4>6. Alive BY <2>2, <3>4 DEF Fresh, UpdateLabels, Alive, Over
      <4>7. CASE manager' # manager
        <5>1. Service!Register
          BY <1>4, <2>1, <3>1, <4>1, <4>4, <4>5, <4>6, <4>7
          DEF Service!Register, Service!States, States, Alive, Over
        <5> QED BY <5>1 DEF Service!Next
      <4> QED BY <1>4, <2>1, <3>1, <4>1, <4>7, ServiceStutters DEF Alive
    <3> QED BY <2>3, <3>2, <3>3, <3>4, CallEffects DEF Threads
  <2>4. CASE RegisterApp
    <3>1. /\ UNCHANGED appState /\ pc["init"] = "register"
          /\ pc'["loop"] = pc["loop"]
          /\ manager' \in {manager, frame["init"].payload}
      BY <2>4 DEF RegisterApp, Remote, At, Goto, flags, TypeOK, Threads
    <3>2. frame["init"].payload \in States \ {"crashed"}
      BY <3>1 DEF Fresh, Flow, InitFlow
    <3>3. Alive
      BY <2>2, <3>1 DEF Fresh, Place, CallLabels, AfterSpawn, Alive, Over
    <3>4. CASE manager' # manager
      <4>1. Service!Register
        BY <1>4, <2>1, <3>1, <3>2, <3>3, <3>4
        DEF Service!Register, Service!States, States, Alive, Over
      <4> QED BY <4>1 DEF Service!Next
    <3> QED BY <1>4, <2>1, <3>1, <3>4, ServiceStutters DEF Alive
  <2>5. CASE Spawn
    <3>1. /\ UNCHANGED <<appState, manager>> /\ pc["init"] = "spawn"
          /\ pc'["loop"] = "run"
      BY <2>5 DEF Spawn, At, flags, TypeOK, Threads
    <3>2. pc["loop"] = "unborn" BY <3>1 DEF Unborn, Place, CallLabels
    <3>3. Service!Create
      BY <1>4, <2>1, <3>1, <3>2 DEF Service!Create
    <3> QED BY <3>3 DEF Service!Next
  <2>6. CASE ~(AnyThread("init") \/ RegisterApp \/ Spawn)
    <3>1. UNCHANGED <<appState, manager>> /\ pc'["loop"] = pc["loop"]
      BY <2>6 DEF InitThread, LockApp, LockDukt, EvalMain, Describe, AppExists,
         InstantiatePause, InstantiateStart, InstantiateEnd, AppLock, HeapLock,
         Moves, Goto, CallUnlessIn, Call, CallFromScript, TypeOK, Threads, flags
    <3> QED BY <1>4, <2>1, <3>1, ServiceStutters DEF Alive
  <2> QED BY <2>3, <2>4, <2>5, <2>6
<1> QED BY <1>5, <1>6

\* The event loop thread sets the state while it starts, may still report it
\* then, and comes to its end.
LEMMA ServiceLoopThread ==
    ASSUME Settled, Serves, LoopThread
    PROVE  [Service!Next]_(Service!vars)
<1> USE DEF Serves, LockInv, GoneInv
<1>1. /\ \A u \in {"http", "init"} : pc'[u] = pc[u] /\ frame'[u] = frame[u]
      /\ UNCHANGED ctx
  BY LoopEffects, LoopSteps DEF NoCrash
<1>2. Stage' = Stage /\ Asked' = Asked
  BY <1>1 DEF Stage, Asked, Updating, Leaving
<1>3. Alive
  <2> SUFFICES ASSUME pc["loop"] \in Over PROVE FALSE BY DEF Alive
  <2>1. CASE AnyThread("loop")
    <3>1. Die("loop") BY <2>1, CallSteps DEF Threads, Over, CallLabels
    <3> QED BY <3>1, NobodyDies DEF Threads
  <2> QED
    BY <2>1 DEF LoopThread, Over, At, HeapLock, HeapUnlock, Run, RunLock,
       LoopEnter, LoopTop, ParkedCheck, ParkedBlock, ParkedWoken, ParkedTimeout,
       Dispatch, Dispatched, WaitCheck, WaitBlock, WaitWoken, WaitTimeout,
       LoopPop, Terminate, Terminated, InterruptPause, InterruptUnregister,
       SetReady, CrashState, CrashDestroy
<1>4. ~InterruptUnregister
  BY DEF InterruptUnregister, At, Steady, Place, CallLabels
<1>5. pc["loop"] \in CallLabels /\ AnyThread("loop") => Alive'
  <2> SUFFICES ASSUME pc["loop"] \in CallLabels, AnyThread("loop")
               PROVE  pc'["loop"] \notin Over
    BY DEF Alive
  <2>1. pc'["loop"] \in CallLabels \cup {frame["loop"].back} \cup {pc["loop"]}
    BY CallSteps DEF Threads
  <2> QED
    BY <2>1 DEF Flow, LoopFlow, CallLabels, UpdateLabels, ScriptLabels, Over
<1>6. CASE appState' # appState
  <2>1. /\ AnyThread("loop") /\ pc["loop"] = "write_state"
        /\ frame["loop"].back = "run_lock" /\ appState' = "running"
    BY <1>6, LoopWrites
  <2>2. manager' = manager BY <2>1, CallEffects DEF Threads
  <2>3. Stage = "starting"
    BY <1>6, <2>1 DEF Settling, Starting, Stage
  <2>4. Alive' BY <1>5, <2>1 DEF CallLabels
  <2>5. Service!Begin
    BY <1>2, <1>3, <2>1, <2>2, <2>3, <2>4 DEF Service!Begin, Alive, Over
  <2> QED BY <2>5 DEF Service!Next
<1>7. CASE manager' # manager
  <2>1. AnyThread("loop") BY <1>4, <1>7, LoopEffects
  <2>2. pc["loop"] = "send" /\ manager # "absent" /\ appState' = appState
    BY <1>7, <2>1, CallEffects DEF Threads
  <2>3. Send("loop")
    <3>1. Send("loop") \/ Die("loop")
      BY <2>1, <2>2 DEF AnyThread, UpdateAppState, SetAppState, WriteState,
         Wake, Again, UpdateClient, JsonLock, Json, RequestExit, NotifyExit,
         SetResponse, HeapLock, At
    <3> QED BY <3>1, NobodyDies DEF Threads
  <2>4. manager' = frame["loop"].payload BY <1>7, <2>3 DEF Send, Remote
  <2>5. pc["init"] = "ended" /\ manager' = appState
    BY <2>2, <2>4 DEF Settling
  <2>6. Stage = "serving"
    <3>1. frame["loop"].back = "run_lock"
      BY <2>2 DEF Flow, LoopFlow, UpdateLabels, NoCrash, Steady, Place, CallLabels
    <3>2. pc["http"] \in Idle BY <3>1 DEF Steady, Starting
    <3>3. ctx BY <2>2 DEF Dismantled, Over
    <3> QED BY <2>5, <3>2, <3>3 DEF Stage, Withdrawn, Leaving, Updating, Idle
  <2>7. Alive' BY <1>5, <2>1, <2>2 DEF CallLabels
  <2>8. Service!Report
    BY <1>2, <1>3, <2>2, <2>5, <2>6, <2>7 DEF Service!Report, Alive, Over
  <2> QED BY <2>8 DEF Service!Next
<1>8. CASE UNCHANGED <<appState, manager>>
  <2>1. CASE Alive' BY <1>2, <1>3, <1>8, <2>1, ServiceStutters
  <2>2. CASE ~Alive'
    <3>1. pc'["loop"] = "ended"
      BY <2>2, LoopKeepsOn DEF Settling, Alive, Over
    <3>2. pc["init"] = "ended"
      <4> SUFFICES ASSUME pc["init"] # "ended" PROVE FALSE OBVIOUS
      <4>1. Place("loop")' \in {"unborn", "run", "run_lock"}
        <5>1. Turns' BY TurnsNext DEF Next
        <5> QED BY <1>1, <5>1 DEF Turns
      <4> QED BY <3>1, <4>1 DEF Place, CallLabels
    <3>3. Stage # "starting" BY <3>2 DEF Stage
    <3>4. Service!Finish
      BY <1>2, <1>3, <1>8, <2>2, <3>3 DEF Service!Finish, Alive, Over
    <3> QED BY <3>4 DEF Service!Next
  <2> QED BY <2>1, <2>2
<1> QED BY <1>6, <1>7, <1>8


\* A handler that updates the state: PUT, or the pause of a DELETE.
LEMMA ServiceUpdates ==
    ASSUME Serves, HttpThread, pc["http"] \in UpdateLabels
    PROVE  [Service!Next]_(Service!vars)
<1> USE DEF Serves, LockInv, GoneInv
<1>1. pc["init"] = "ended" /\ ctx
  BY DEF DeletionInv, Waits, Dismantled, Idle, UpdateLabels
<1>2. frame["http"].back \in {"idle", "delete_unregister"} BY DEF Flow, HttpFlow
<1>3. /\ frame["http"].back = "idle" =>
            Stage = "serving" /\ Asked = frame["http"].target
      /\ frame["http"].back = "delete_unregister" =>
            Stage = "leaving" /\ Asked = "nothing"
  BY <1>1 DEF Stage, Asked, Withdrawn, Leaving, Updating, UpdateLabels
<1>4. frame["http"].target \in States BY DEF TypeOK, Frames, Threads
<1>5. AnyThread("http") /\ ~Die("http")
  <2>1. ~Die("http") BY NobodyDies DEF Threads
  <2> QED
    BY <2>1 DEF HttpThread, At, HeapLock, AppLock, HeapUnlock, UpdateLabels,
       GetLock, GetRead, PutLock, PutDecode, ApiLock, ApiEval, ApiEnd,
       DeleteLock, DeletePause, DeleteUnregister, ShutdownUnregister, ExitLock,
       ExitRequest, ExitNotifyAll, ReadyCheck, ReadyBlock, ReadyWoken,
       ReadyTimeout, Join, DeleteLoop, Erase, DestroyLock, Destroy,
       AnswerDeleted, ServerStops, MainExits
<1>6. /\ pc'["init"] = pc["init"] /\ pc'["loop"] = pc["loop"] /\ UNCHANGED ctx
  BY <1>5, CallSteps DEF Threads, life
<1>7. Alive' = Alive BY <1>6 DEF Alive
<1>8. ASSUME pc'["http"] \in UpdateLabels,
             frame'["http"].back = frame["http"].back,
             frame'["http"].target = frame["http"].target
      PROVE  Stage' = Stage /\ Asked' = Asked
  BY <1>1, <1>2, <1>3, <1>6, <1>8
  DEF Stage, Asked, Withdrawn, Leaving, Updating, UpdateLabels
<1>9. ASSUME pc'["http"] \in UpdateLabels,
             frame'["http"].back = frame["http"].back,
             frame'["http"].target = frame["http"].target,
             UNCHANGED <<appState, manager>>
      PROVE  [Service!Next]_(Service!vars)
  BY <1>7, <1>8, <1>9, ServiceStutters
<1> USE DEF UpdateLabels, At, Goto, HeapLock, flags, TypeOK, Frames, Threads
<1>10. CASE SetAppState("http") BY <1>9, <1>10 DEF SetAppState
<1>11. CASE WriteState("http")
  <2>1. /\ appState' = frame["http"].target /\ manager' = manager
        /\ frame' = frame /\ pc'["http"] \in UpdateLabels
    BY <1>11 DEF WriteState
  <2>2. Stage' = Stage /\ Asked' = Asked BY <1>8, <2>1
  <2>3. CASE frame["http"].back = "idle"
    <3>1. Asked # "nothing" BY <1>3, <1>4, <2>3 DEF States
    <3>2. Service!Set
      BY <1>3, <1>6, <2>1, <2>2, <2>3, <3>1 DEF Service!Set
    <3> QED BY <3>2 DEF Service!Next
  <2>4. CASE frame["http"].back = "delete_unregister"
    <3>1. frame["http"].target = "paused" BY <1>11, <2>4 DEF Asking, WriteState
    <3>2. Service!Pause
      BY <1>3, <1>6, <2>1, <2>2, <2>4, <3>1 DEF Service!Pause
    <3> QED BY <3>2 DEF Service!Next
  <2> QED BY <1>2, <2>3, <2>4
<1>12. CASE Wake("http") BY <1>9, <1>12 DEF Wake
<1>13. CASE Again("http") BY <1>9, <1>13 DEF Again
<1>14. CASE UpdateClient("http")
  <2>1. UNCHANGED <<appState, manager>> /\ pc["http"] = "update"
    BY <1>14 DEF UpdateClient
  <2>2. CASE pc'["http"] \in UpdateLabels /\ frame' = frame
    BY <1>9, <2>1, <2>2
  <2>3. CASE frame["http"].owed = 0 /\ pc'["http"] = frame["http"].back
    <3>1. CASE frame["http"].back = "idle"
      <4>1. Stage' = "serving" /\ Asked' = "nothing"
        BY <1>1, <1>6, <2>3, <3>1 DEF Stage, Asked, Withdrawn, Leaving, Updating
      <4>2. appState = Asked BY <1>3, <2>1, <3>1 DEF Asking
      <4>3. manager \in {"absent", appState} \/ LossyRR
        BY <2>1, <2>3 DEF Reported
      <4>4. Asked # "nothing" BY <1>3, <1>4, <3>1 DEF States
      <4>5. Service!Answer
        BY <1>3, <1>6, <2>1, <3>1, <4>1, <4>2, <4>3, <4>4 DEF Service!Answer
      <4> QED BY <4>5 DEF Service!Next
    <3>2. CASE frame["http"].back = "delete_unregister"
      <4>1. Stage' = "leaving" /\ Asked' = "nothing"
        BY <1>1, <1>6, <2>3, <3>2 DEF Stage, Asked, Withdrawn, Leaving, Updating
      <4> QED BY <1>3, <1>7, <2>1, <3>2, <4>1, ServiceStutters
    <3> QED BY <1>2, <3>1, <3>2
  <2> QED BY <1>14, <2>2, <2>3 DEF UpdateClient, Return
<1>15. CASE JsonLock("http") BY <1>9, <1>15 DEF JsonLock
<1>16. CASE Json("http") BY <1>9, <1>16 DEF Json
<1>17. CASE Send("http")
  <2>1. /\ pc'["http"] = "update" /\ appState' = appState
        /\ frame'["http"].back = frame["http"].back
        /\ frame'["http"].target = frame["http"].target
        /\ frame["http"].payload = appState
    BY <1>17 DEF Send, Asking
  <2>2. manager' = manager \/ (manager # "absent" /\ manager' = appState)
    BY <1>17, <2>1 DEF Send, Remote
  <2>3. Stage' = Stage /\ Asked' = Asked BY <1>8, <2>1
  <2>4. CASE manager' # manager
    <3>1. Service!Report
      BY <1>2, <1>3, <1>6, <2>1, <2>2, <2>3, <2>4 DEF Service!Report
    <3> QED BY <3>1 DEF Service!Next
  <2> QED BY <1>7, <2>1, <2>3, <2>4, ServiceStutters
<1>18. ~(RequestExit("http") \/ NotifyExit("http") \/ SetResponse("http"))
  BY DEF RequestExit, NotifyExit, SetResponse
<1> QED BY <1>5, <1>10, <1>11, <1>12, <1>13, <1>14, <1>15, <1>16, <1>17, <1>18
        DEF AnyThread, UpdateAppState

\* The other steps of the handlers.
LEMMA ServiceHandlers ==
    ASSUME Serves, HttpThread, pc["http"] \notin UpdateLabels
    PROVE  [Service!Next]_(Service!vars)
<1> USE DEF Serves, LockInv, GoneInv
<1>1. pc["http"] \notin Idle => pc["init"] = "ended"
  BY DEF DeletionInv, Waits
<1>2. pc["http"] \notin Idle \cup {"deleted"} => ctx
  BY DEF Dismantled
<1>3. pc'["init"] = pc["init"] /\ pc'["loop"] = pc["loop"] /\ Alive' = Alive
  BY HttpSteps DEF Alive
<1>4. Asked = "nothing" BY DEF Asked, Updating, UpdateLabels
<1>5. ~Die("http") BY NobodyDies DEF Threads
<1>6. ASSUME Stage' = Stage, Asked' = "nothing", UNCHANGED <<appState, manager>>
      PROVE  [Service!Next]_(Service!vars)
  BY <1>3, <1>4, <1>6, ServiceStutters
<1> DEFINE Outer == {"get_lock", "get_read", "put_lock", "put_decode", "api_lock",
                     "api_eval", "api_end", "shutdown_unregister", "idle"}
                    \cup ScriptLabels
<1> DEFINE Before == {"delete_lock", "delete_pause", "delete_unregister"}
<1>7. ASSUME pc["http"] \in Outer \ {"idle"}, pc'["http"] \in Outer, ctx' = ctx,
             UNCHANGED <<appState, manager>>
      PROVE  [Service!Next]_(Service!vars)
  <2>1. Stage = "serving" /\ Stage' = "serving" /\ Asked' = "nothing"
    BY <1>1, <1>2, <1>3, <1>7 DEF Stage, Asked, Withdrawn, Leaving, Updating, Idle,
       ScriptLabels
  <2> QED BY <1>6, <1>7, <2>1
<1>8. ASSUME pc["http"] \in Withdrawn \ {"deleted"}, ctx' = ctx,
             pc'["http"] \in Withdrawn, UNCHANGED <<appState, manager>>
      PROVE  [Service!Next]_(Service!vars)
  <2>1. Stage = "withdrawn" /\ Stage' = "withdrawn" /\ Asked' = "nothing"
    BY <1>1, <1>2, <1>3, <1>8 DEF Stage, Asked, Withdrawn, Updating, Idle
  <2> QED BY <1>6, <1>8, <2>1
<1>9. CASE pc["http"] \in Idle
  <2>1. UNCHANGED <<frame, life, appState, manager>> /\ pc'["http"] \in Idle
    <3>1. UNCHANGED <<frame, life, appState, manager>> BY <1>9, HttpEffects
    <3>2. CASE AnyThread("http")
      BY <1>5, <1>9, <3>2, CallSteps DEF Threads, Idle, CallLabels
    <3>3. CASE ServerStops
      BY <3>1, <3>3 DEF ServerStops, Moves, Goto, TypeOK, Threads, Idle
    <3>4. CASE MainExits BY <1>9, <3>1, <3>4 DEF MainExits
    <3> QED
      BY <1>9, <3>1, <3>2, <3>3, <3>4 DEF HttpThread, At, HeapLock, AppLock,
         Idle, GetLock, GetRead, PutLock, PutDecode, ApiLock, ApiEval, ApiEnd,
         DeleteLock, DeletePause, DeleteUnregister, ShutdownUnregister, ExitLock,
         ExitRequest, ExitNotifyAll, ReadyCheck, ReadyBlock, ReadyWoken,
         ReadyTimeout, Join, DeleteLoop, Erase, DestroyLock, Destroy,
         AnswerDeleted
  <2>2. Stage' = Stage /\ Asked' = "nothing"
    BY <1>3, <1>9, <2>1 DEF Stage, Asked, Withdrawn, Leaving, Updating, Idle, life
  <2> QED BY <1>6, <2>1, <2>2
<1> HIDE DEF Serves, LockInv, GoneInv
<1> USE DEF At, Goto, Moves, AppLock, HeapLock, HeapUnlock, flags, life
<1>t. TypeOK BY DEF Serves, LockInv
<1> USE <1>t DEF TypeOK, Threads
<1>10. CASE GetLock BY <1>7, <1>10 DEF GetLock
<1>11. CASE GetRead BY <1>7, <1>11 DEF GetRead
<1>12. CASE PutLock BY <1>7, <1>12 DEF PutLock
<1>13. CASE PutDecode
  <2>1. /\ UNCHANGED <<appState, manager, ctx>> /\ pc["http"] = "put_decode"
        /\ frame["http"].back = "idle" /\ frame["http"].target \in States
    BY <1>13 DEF PutDecode, Serves, LockInv, Flow, HttpFlow, Frames
  <2>2. Stage = "serving"
    BY <1>1, <1>2, <2>1 DEF Stage, Withdrawn, Leaving, Updating, Idle
  <2>3. CASE pc'["http"] = "set_state" /\ frame' = frame
    <3>1. Stage' = "serving" /\ Asked' = frame["http"].target
      BY <1>1, <1>2, <1>3, <2>1, <2>3
      DEF Stage, Asked, Withdrawn, Leaving, Updating, Idle
    <3>2. Service!Ask(frame["http"].target)
      BY <1>3, <1>4, <2>1, <2>2, <3>1 DEF Service!Ask
    <3> QED BY <2>1, <3>2 DEF Service!Next, Service!States, States
  <2>4. CASE pc'["http"] = "idle" BY <1>7, <2>1, <2>4
  <2> QED BY <1>13, <2>1, <2>3, <2>4 DEF PutDecode, Return
<1>14. CASE ApiLock BY <1>7, <1>14 DEF ApiLock
<1>15. CASE ApiEval BY <1>7, <1>15 DEF ApiEval, CallFromScript, ScriptLabels
<1>16. CASE ApiEnd BY <1>7, <1>16 DEF ApiEnd
<1>17. CASE AnyThread("http")
  <2>1. pc["http"] \in ScriptLabels /\ frame["http"].back = "api_end"
    BY <1>5, <1>17, CallSteps
       DEF CallLabels, UpdateLabels, ScriptLabels, Serves, LockInv, Flow, HttpFlow
  <2>2. RequestExit("http") \/ NotifyExit("http") \/ SetResponse("http")
    BY <1>5, <1>17, <2>1 DEF AnyThread, UpdateAppState, SetAppState, WriteState,
       Wake, Again, UpdateClient, JsonLock, Json, Send, ScriptLabels
  <2>3. /\ pc'["http"] \in Outer /\ UNCHANGED <<appState, manager, ctx>>
    BY <2>1, <2>2 DEF RequestExit, NotifyExit, SetResponse, Return, ScriptLabels
  <2> QED BY <1>7, <2>1, <2>3 DEF ScriptLabels
<1>18. CASE DeleteLock \/ DeletePause
  <2>1. /\ UNCHANGED <<appState, manager, ctx>> /\ pc["http"] \in Before
        /\ pc'["http"] \in Before
           \/ (pc'["http"] = "set_state" /\ frame'["http"].back = "delete_unregister")
    BY <1>18 DEF DeleteLock, DeletePause, CallUnlessIn, Call, FrameOf
  <2>2. Stage = "leaving" /\ Stage' = "leaving" /\ Asked' = "nothing"
    BY <1>1, <1>2, <1>3, <2>1 DEF Stage, Asked, Withdrawn, Leaving, Updating, Idle
  <2> QED BY <1>6, <2>1, <2>2
<1>19. CASE DeleteUnregister
  <2>1. /\ UNCHANGED <<appState, ctx>> /\ pc["http"] = "delete_unregister"
        /\ pc'["http"] = "exit_lock"
        /\ manager' = "absent" \/ (LossyRR /\ UNCHANGED manager)
    BY <1>19 DEF DeleteUnregister, Remote
  <2>2. Stage = "leaving" /\ Stage' = "withdrawn" /\ Asked' = "nothing"
    BY <1>1, <1>2, <1>3, <2>1 DEF Stage, Asked, Withdrawn, Leaving, Updating, Idle
  <2>3. appState = "paused" BY <2>1 DEF Serves, Asking
  <2>4. Service!Withdraw
    BY <1>3, <1>4, <2>1, <2>2, <2>3 DEF Service!Withdraw
  <2> QED BY <2>4 DEF Service!Next
<1>20. CASE ShutdownUnregister
  <2>1. /\ UNCHANGED <<appState, ctx>> /\ pc["http"] = "shutdown_unregister"
        /\ pc'["http"] = "exit_lock"
        /\ manager' = "absent" \/ (LossyRR /\ UNCHANGED manager)
    BY <1>20 DEF ShutdownUnregister, Remote
  <2>2. Stage = "serving" /\ Stage' = "withdrawn" /\ Asked' = "nothing"
    BY <1>1, <1>2, <1>3, <2>1 DEF Stage, Asked, Withdrawn, Leaving, Updating, Idle
  <2>3. Service!Withdraw
    BY <1>3, <1>4, <2>1, <2>2 DEF Service!Withdraw
  <2> QED BY <2>3 DEF Service!Next
<1>21. CASE ExitLock BY <1>8, <1>21 DEF ExitLock, Withdrawn
<1>22. CASE ExitRequest BY <1>8, <1>22 DEF ExitRequest, Withdrawn
<1>23. CASE ExitNotifyAll BY <1>8, <1>23 DEF ExitNotifyAll, Withdrawn
<1>24. CASE ReadyCheck BY <1>8, <1>24 DEF ReadyCheck, Withdrawn
<1>25. CASE ReadyBlock BY <1>8, <1>25 DEF ReadyBlock, Withdrawn
<1>26. CASE ReadyWoken BY <1>8, <1>26 DEF ReadyWoken, Withdrawn
<1>27. CASE ReadyTimeout BY <1>8, <1>27 DEF ReadyTimeout, Withdrawn
<1>28. CASE Join BY <1>8, <1>28 DEF Join, Withdrawn
<1>29. CASE DeleteLoop BY <1>8, <1>29 DEF DeleteLoop, Withdrawn
<1>30. CASE Erase BY <1>8, <1>30 DEF Erase, Withdrawn
<1>31. CASE DestroyLock BY <1>8, <1>31 DEF DestroyLock, Withdrawn
<1>32. CASE Destroy
  <2>1. /\ UNCHANGED <<appState, manager>> /\ pc["http"] = "destroy" /\ ~ctx'
        /\ pc'["http"] = "deleted"
    BY <1>32 DEF Destroy
  <2>2. Stage = "withdrawn" /\ Stage' = "gone" /\ Asked' = "nothing"
    BY <1>1, <1>2, <1>3, <2>1 DEF Stage, Asked, Withdrawn, Updating, Idle
  <2>3. ~Alive
    BY <2>1 DEF Serves, GoneInv, DeletionInv, Joins, Late, Alive
  <2>4. Service!Vanish
    BY <1>3, <1>4, <2>1, <2>2, <2>3 DEF Service!Vanish, Alive, Over
  <2> QED BY <2>4 DEF Service!Next
<1>33. CASE AnswerDeleted
  <2>1. /\ UNCHANGED <<appState, manager, ctx>> /\ pc["http"] = "deleted"
        /\ pc'["http"] = "idle"
    BY <1>33 DEF AnswerDeleted
  <2>2. ~ctx BY <2>1 DEF Serves, GoneInv, Dismantled
  <2>3. Stage = "gone" /\ Stage' = "gone" /\ Asked' = "nothing"
    BY <1>1, <1>3, <2>1, <2>2 DEF Stage, Asked, Updating, Idle
  <2> QED BY <1>6, <2>1, <2>3
<1>34. CASE ServerStops \/ MainExits
  BY <1>9, <1>34 DEF ServerStops, MainExits, Idle
<1> QED BY <1>10, <1>11, <1>12, <1>13, <1>14, <1>15, <1>16, <1>17, <1>18, <1>19,
   <1>20, <1>21, <1>22, <1>23, <1>24, <1>25, <1>26, <1>27, <1>28, <1>29, <1>30,
   <1>31, <1>32, <1>33, <1>34 DEF HttpThread

\* A request comes only to an application that serves.
LEMMA ServiceRequest ==
    ASSUME Settled, Serves, NewRequest
    PROVE  [Service!Next]_(Service!vars)
<1>1. TypeOK /\ GoneInv BY DEF Serves, LockInv
<1>2. /\ pc["http"] = "idle" /\ pc["init"] = "ended" /\ inReg
      /\ pc'["init"] = pc["init"] /\ pc'["loop"] = pc["loop"] /\ UNCHANGED life
  BY <1>1, RequestSteps
<1>3. ctx /\ ctx' BY <1>1, <1>2 DEF GoneInv, Dismantled, life
<1>4. UNCHANGED <<appState, manager>> BY <1>1, RequestEffects DEF flags
<1>5. Stage = "serving" /\ Asked = "nothing" /\ Alive' = Alive
  BY <1>2, <1>3 DEF Stage, Asked, Withdrawn, Leaving, Updating, Alive
<1>6. CASE pc'["http"] \in {"get_lock", "put_lock", "api_lock",
                            "shutdown_unregister"}
  <2>1. Stage' = "serving" /\ Asked' = "nothing"
    BY <1>2, <1>3, <1>6 DEF Stage, Asked, Withdrawn, Leaving, Updating
  <2> QED BY <1>4, <1>5, <2>1, ServiceStutters
<1>7. ASSUME NEW s \in States, pc'["http"] = "set_state",
             frame'["http"].target = s, frame'["http"].back = "idle"
      PROVE  [Service!Next]_(Service!vars)
  <2>1. Stage' = "serving" /\ Asked' = s
    BY <1>2, <1>3, <1>7 DEF Stage, Asked, Withdrawn, Leaving, Updating
  <2>2. Service!Ask(s) BY <1>2, <1>4, <1>5, <2>1 DEF Service!Ask
  <2> QED BY <2>2 DEF Service!Next, Service!States, States
<1>8. CASE pc'["http"] = "delete_lock"
  <2>1. Stage' = "leaving" /\ Asked' = "nothing"
    BY <1>2, <1>3, <1>8 DEF Stage, Asked, Withdrawn, Leaving, Updating
  <2>2. Service!Leave BY <1>2, <1>4, <1>5, <2>1 DEF Service!Leave
  <2> QED BY <2>2 DEF Service!Next
<1> USE <1>1 DEF TypeOK, Threads, Moves, Goto, FrameOf
<1>9. CASE Put
  <2>1. PICK s \in States :
              frame' = [frame EXCEPT !["http"] = FrameOf(s, 1, "idle")]
    BY <1>9 DEF Put
  <2>2. frame'["http"].target = s /\ frame'["http"].back = "idle" BY <2>1
  <2> QED BY <1>6, <1>7, <1>9, <2>2 DEF Put
<1>10. CASE Get \/ Api \/ Reload BY <1>6, <1>10 DEF Get, Api, Reload
<1>11. CASE Delete BY <1>8, <1>11 DEF Delete
<1> QED BY <1>9, <1>10, <1>11 DEF NewRequest

LEMMA ServiceStarts == Init => Service!Init
BY DEF Init, Service!Init, Stage, Asked, Updating

LEMMA ServiceSteps ==
    ASSUME Settled, ~Signals, Serves, [Next]_vars
    PROVE  [Service!Next]_(Service!vars)
<1>1. CASE InitThread BY <1>1, ServiceInitThread
<1>2. CASE LoopThread BY <1>2, ServiceLoopThread
<1>3. CASE HttpThread BY <1>3, ServiceUpdates, ServiceHandlers
<1>4. CASE NewRequest BY <1>4, ServiceRequest
<1>5. CASE Sigint BY <1>5 DEF Sigint
<1>6. CASE UNCHANGED vars
  BY <1>6, ServiceStutters DEF vars, control, flags, life, Stage, Asked, Updating,
     Leaving, Alive
<1> QED BY <1>1, <1>2, <1>3, <1>4, <1>5, <1>6 DEF Next

\* The application implements AppService: the handlers, instantiate() and the
\* event loop thread, which write the state and tell the manager of it each for
\* itself and partly without a lock (application.cpp:408-429, 551-587, 677-735),
\* act after the start-up like one register that a PUT or a DELETE writes, and a
\* DELETE takes the application away in its order. No signal arrives and no
\* script fails outside a protected call; requests to the manager may get lost.
THEOREM ApplicationImplementsService ==
    ASSUME Settled, ~Signals, "fatal" \notin Scripts
    PROVE  Spec => ImplementsAppService
<1> DEFINE Rest == /\ Turns /\ Starts /\ Steady /\ Fresh /\ Settling /\ Asking
                   /\ LossyRR \/ Reported
<1>1. Spec => [](LockInv /\ GoneInv) BY LockDiscipline, GoneAlways, PTL
<1>2. Init => Rest
  BY TurnsInit, StartsInit, SteadyInit, ReportedInit, ServiceInits
<1>3. LockInv /\ GoneInv /\ Rest /\ [Next]_vars => Rest'
  <2> SUFFICES ASSUME LockInv, GoneInv, Rest, [Next]_vars PROVE Rest' OBVIOUS
  <2>1. Turns' /\ Starts' /\ Steady'
    BY TurnsNext, StartsNext, SteadyNext DEF LockInv, GoneInv, DeletionInv
  <2>2. Fresh' /\ Settling' /\ Asking'
    BY FreshNext, SettlingNext, AskingNext DEF LockInv
  <2>3. (LossyRR \/ Reported)' BY ReportedNext DEF LockInv
  <2> QED BY <2>1, <2>2, <2>3
<1>4. LockInv /\ GoneInv /\ Rest /\ [Next]_vars => [Service!Next]_(Service!vars)
  BY ServiceSteps DEF Serves
<1>5. Init => Service!Init BY ServiceStarts
<1> QED BY <1>1, <1>2, <1>3, <1>4, <1>5, PTL
          DEF Spec, ImplementsAppService, Service!Spec
=============================================================================
