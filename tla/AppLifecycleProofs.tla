------------------------ MODULE AppLifecycleProofs -------------------------
(***************************************************************************)
(* Proofs about AppLifecycle, for every value of its constants: the types, *)
(* and the discipline of the three mutexes that survives the unlock()      *)
(* calls the code makes beside its lock_guards.                            *)
(***************************************************************************)
EXTENDS AppLifecycle, TLAPS

UpdateLabels == {"set_state", "write_state", "wake", "again", "update",
                 "json_lock", "json", "send"}
ScriptLabels == {"request_exit", "exit_notify", "set_response"}

\* Where a thread is in its own code: a call counts as the place it returns to.
Place(t) == IF pc[t] \in CallLabels THEN frame[t].back ELSE pc[t]

\* Each thread runs its own code, and calls return to it.
HttpFlow ==
    /\ pc["http"] \in HttpLabels \cup CallLabels
    /\ pc["http"] \in UpdateLabels =>
          frame["http"].back \in {"idle", "delete_unregister"}
    /\ pc["http"] \in ScriptLabels => frame["http"].back = "api_end"
    /\ pc["http"] \in {"put_lock", "put_decode"} => frame["http"].back = "idle"
InitFlow ==
    /\ pc["init"] \in StartLabels \cup CallLabels
    /\ pc["init"] \in UpdateLabels => frame["init"].back \in {"start", "unlock"}
    /\ pc["init"] \in ScriptLabels => frame["init"].back \in {"spawn", "unlock"}
    /\ pc["init"] \in {"app_exists", "register"} =>
          frame["init"].payload \in States
LoopFlow ==
    /\ pc["loop"] \in RunLabels \cup CallLabels
    /\ pc["loop"] \in UpdateLabels =>
          frame["loop"].back \in
             {"run_lock", "interrupt_unregister", "crash_destroy"}
    /\ pc["loop"] \in ScriptLabels =>
          frame["loop"].back \in {"dispatched", "terminated"}
Flow == HttpFlow /\ InitFlow /\ LoopFlow

\* The event loop thread does not exist before instantiate() creates it.
Unborn == Place("init") \in {"lock_app", "lock_dukt", "eval_main", "spawn"}
             => pc["loop"] = "unborn"

\* A thread on its way to send an update owes one.
Owes == \A t \in Threads :
           pc[t] \in {"json_lock", "json", "send"} => frame[t].owed \in Nat \ {0}

\* The app mutex is never held twice, never by the loop, and by the others
\* only in the blocks their lock_guards open.
InitAppPlaces == {"lock_dukt", "eval_main", "spawn", "describe", "app_exists",
                  "register", "pause", "start", "unlock"}
HttpAppPlaces == {"delete_pause", "delete_unregister", "exit_request",
                  "exit_notify_all", "ready_check", "ready_block",
                  "ready_wait", "join"}
AppInv ==
    /\ app = Free \/ (app.owner \in {"http", "init"} /\ app.count = 1)
    /\ app.owner = "init" => Place("init") \in InitAppPlaces
    /\ app.owner = "http" => Place("http") \in HttpAppPlaces

\* The duktape mutex: instantiate() holds it from its second lock_guard to its
\* end, a handler around its use of the heap.
InitDuktPlaces == InitAppPlaces \ {"lock_dukt"}
HttpDuktLabels == {"get_read", "put_decode", "api_eval", "api_end", "destroy",
                   "json"} \cup ScriptLabels
Json1(t) == IF pc[t] = "json" THEN 1 ELSE 0
DuktInit ==
    /\ Place("init") \in InitDuktPlaces =>
          dukt = [owner |-> "init", count |-> 1 + Json1("init")]
    /\ dukt.owner = "init" => Place("init") \in InitDuktPlaces
DuktHttp ==
    /\ pc["http"] \in HttpDuktLabels => dukt = [owner |-> "http", count |-> 1]
    /\ dukt.owner = "http" => pc["http"] \in HttpDuktLabels

\* The event loop certainly holds it where it calls into the scripts, and at
\* most as many levels as its open lock_guards explain: fewer after the
\* explicit unlock() has taken one of them away.
LoopMustPlaces == {"loop_enter", "dispatch", "dispatched"}
LoopOncePlaces == {"loop_enter", "loop_top", "parked_check", "parked_block",
                   "parked_wait", "wait_check", "wait_block", "wait",
                   "loop_pop", "terminate", "terminated", "crash_state",
                   "crash_destroy"}
LoopTwicePlaces == {"dispatch", "dispatched"}
LoopMost == IF Place("loop") \in LoopTwicePlaces THEN 2
            ELSE IF Place("loop") \in LoopOncePlaces THEN 1 ELSE 0
Leaks == /\ "skipped" \in Unwinding
         /\ \/ Place("loop") \in {"crash_state", "crash_destroy"}
            \/ Place("loop") = "ended" /\ ~ctx
DuktLoop ==
    /\ Place("loop") \in LoopMustPlaces \/ pc["loop"] = "json"
          => dukt.owner = "loop"
    /\ dukt.owner = "loop" =>
          \/ dukt.count <= LoopMost + Json1("loop")
          \/ Leaks
DuktInv ==
    /\ dukt.owner = Nobody <=> dukt.count = 0
    /\ DuktInit /\ DuktHttp /\ DuktLoop

\* The cv mutex is only held across a step by a thread about to sleep.
CvInv == \A t \in Threads :
            cv = t => pc[t] \in {"parked_block", "wait_block", "ready_block"}

LockInv == TypeOK /\ Flow /\ Unborn /\ Owes /\ AppInv /\ DuktInv /\ CvInv
-----------------------------------------------------------------------------
(* The steps of the code, one conjunct of the invariant at a time           *)

\* The labels that calls return to are labels.
LEMMA BackLabels ==
  {"idle", "api_end", "delete_unregister", "spawn", "start", "unlock",
   "run_lock", "dispatched", "terminated", "interrupt_unregister",
   "crash_destroy"} \subseteq Labels
BY DEF Labels, HttpLabels, StartLabels, RunLabels, LoopLabels

LEMMA BackIsLabel ==
  ASSUME Flow, NEW t \in Threads, pc[t] \in CallLabels
  PROVE  frame[t].back \in Labels
BY BackLabels DEF Flow, HttpFlow, InitFlow, LoopFlow, Threads, CallLabels,
                  UpdateLabels, ScriptLabels

\* The plain variables keep their types.
LEMMA FlagsStep ==
  ASSUME TypeOK, Flow, Next
  PROVE  FlagsOK'
<1> USE DEF TypeOK, FlagsOK, Flow, InitFlow, Frames, States, Goto, At, Moves,
           AppLock, HeapLock, HeapUnlock, Call, CallUnlessIn, Return,
           CallFromScript, Abort, NotifyAll, NotifyOne, Remote, EndIteration,
           Accept, CanLock, control, flags, life, sync
<1>1. ASSUME NEW t \in Threads, AnyThread(t)
     PROVE  FlagsOK'
  <2>1. CASE SetAppState(t)  BY <2>1 DEF SetAppState
  <2>2. CASE WriteState(t)  BY <2>2 DEF WriteState
  <2>3. CASE Wake(t)  BY <2>3 DEF Wake
  <2>4. CASE Again(t)  BY <2>4 DEF Again
  <2>5. CASE UpdateClient(t)  BY <2>5 DEF UpdateClient
  <2>6. CASE JsonLock(t)  BY <2>6 DEF JsonLock
  <2>7. CASE Json(t)  BY <2>7 DEF Json
  <2>8. CASE Send(t)  BY <2>8 DEF Send
  <2>9. CASE RequestExit(t)  BY <2>9 DEF RequestExit
  <2>10. CASE NotifyExit(t)  BY <2>10 DEF NotifyExit
  <2>11. CASE SetResponse(t)  BY <2>11 DEF SetResponse
  <2>12. CASE Die(t)
    <3>1. Abort  BY <2>12 DEF Die
    <3> QED  BY <3>1
  <2> QED  BY <1>1, <2>1, <2>2, <2>3, <2>4, <2>5, <2>6, <2>7, <2>8, <2>9,
           <2>10, <2>11, <2>12
           DEF AnyThread, UpdateAppState
<1>2. CASE InitThread
  <2>1. CASE LockApp  BY <2>1 DEF LockApp
  <2>2. CASE LockDukt  BY <2>2 DEF LockDukt
  <2>3. CASE EvalMain  BY <2>3 DEF EvalMain
  <2>4. CASE Spawn  BY <2>4 DEF Spawn
  <2>5. CASE Describe  BY <2>5 DEF Describe
  <2>6. CASE AppExists  BY <2>6 DEF AppExists
  <2>7. CASE RegisterApp  BY <2>7 DEF RegisterApp
  <2>8. CASE InstantiatePause  BY <2>8 DEF InstantiatePause
  <2>9. CASE InstantiateStart  BY <2>9 DEF InstantiateStart
  <2>10. CASE InstantiateEnd  BY <2>10 DEF InstantiateEnd
  <2> QED  BY <1>2, <1>1, <2>1, <2>2, <2>3, <2>4, <2>5, <2>6, <2>7, <2>8, <2>9,
           <2>10
           DEF InitThread, Threads
<1>3. CASE LoopThread
  <2>1. CASE Run  BY <2>1 DEF Run
  <2>2. CASE RunLock  BY <2>2 DEF RunLock
  <2>3. CASE LoopEnter  BY <2>3 DEF LoopEnter
  <2>4. CASE LoopTop  BY <2>4 DEF LoopTop, StopRequested
  <2>5. CASE ParkedCheck  BY <2>5 DEF ParkedCheck, StopRequested, Unpark
  <2>6. CASE ParkedBlock  BY <2>6 DEF ParkedBlock
  <2>7. CASE ParkedWoken  BY <2>7 DEF ParkedWoken
  <2>8. CASE ParkedTimeout  BY <2>8 DEF ParkedTimeout
  <2>9. CASE Dispatch  BY <2>9 DEF Dispatch
  <2>10. CASE Dispatched  BY <2>10 DEF Dispatched
  <2>11. CASE WaitCheck  BY <2>11 DEF WaitCheck, StopRequested
  <2>12. CASE WaitBlock  BY <2>12 DEF WaitBlock
  <2>13. CASE WaitWoken  BY <2>13 DEF WaitWoken
  <2>14. CASE WaitTimeout  BY <2>14 DEF WaitTimeout, StopRequested
  <2>15. CASE LoopPop  BY <2>15 DEF LoopPop
  <2>16. CASE Terminate  BY <2>16 DEF Terminate
  <2>17. CASE Terminated  BY <2>17 DEF Terminated
  <2>18. CASE InterruptPause  BY <2>18 DEF InterruptPause
  <2>19. CASE InterruptUnregister  BY <2>19 DEF InterruptUnregister
  <2>20. CASE SetReady  BY <2>20 DEF SetReady
  <2>21. CASE CrashState  BY <2>21 DEF CrashState
  <2>22. CASE CrashDestroy  BY <2>22 DEF CrashDestroy
  <2> QED  BY <1>3, <1>1, <2>1, <2>2, <2>3, <2>4, <2>5, <2>6, <2>7, <2>8, <2>9,
           <2>10, <2>11, <2>12, <2>13, <2>14, <2>15, <2>16, <2>17, <2>18,
           <2>19, <2>20, <2>21, <2>22
           DEF LoopThread, Threads
<1>4. CASE HttpThread
  <2>1. CASE GetLock  BY <2>1 DEF GetLock
  <2>2. CASE GetRead  BY <2>2 DEF GetRead
  <2>3. CASE PutLock  BY <2>3 DEF PutLock
  <2>4. CASE PutDecode  BY <2>4 DEF PutDecode
  <2>5. CASE ApiLock  BY <2>5 DEF ApiLock
  <2>6. CASE ApiEval  BY <2>6 DEF ApiEval
  <2>7. CASE ApiEnd  BY <2>7 DEF ApiEnd
  <2>8. CASE DeleteLock  BY <2>8 DEF DeleteLock
  <2>9. CASE DeletePause  BY <2>9 DEF DeletePause
  <2>10. CASE DeleteUnregister  BY <2>10 DEF DeleteUnregister
  <2>11. CASE ShutdownUnregister  BY <2>11 DEF ShutdownUnregister
  <2>12. CASE ExitLock  BY <2>12 DEF ExitLock
  <2>13. CASE ExitRequest  BY <2>13 DEF ExitRequest
  <2>14. CASE ExitNotifyAll  BY <2>14 DEF ExitNotifyAll
  <2>15. CASE ReadyCheck  BY <2>15 DEF ReadyCheck
  <2>16. CASE ReadyBlock  BY <2>16 DEF ReadyBlock
  <2>17. CASE ReadyWoken  BY <2>17 DEF ReadyWoken
  <2>18. CASE ReadyTimeout  BY <2>18 DEF ReadyTimeout
  <2>19. CASE Join  BY <2>19 DEF Join
  <2>20. CASE DeleteLoop  BY <2>20 DEF DeleteLoop
  <2>21. CASE Erase  BY <2>21 DEF Erase
  <2>22. CASE DestroyLock  BY <2>22 DEF DestroyLock
  <2>23. CASE Destroy  BY <2>23 DEF Destroy
  <2>24. CASE AnswerDeleted  BY <2>24 DEF AnswerDeleted
  <2>25. CASE ServerStops  BY <2>25 DEF ServerStops
  <2>26. CASE MainExits  BY <2>26 DEF MainExits
  <2> QED  BY <1>4, <1>1, <2>1, <2>2, <2>3, <2>4, <2>5, <2>6, <2>7, <2>8, <2>9,
           <2>10, <2>11, <2>12, <2>13, <2>14, <2>15, <2>16, <2>17, <2>18,
           <2>19, <2>20, <2>21, <2>22, <2>23, <2>24, <2>25, <2>26
           DEF HttpThread, Threads
<1>5. CASE NewRequest
  <2>1. CASE Get  BY <2>1 DEF Get
  <2>2. CASE Put  BY <2>2 DEF Put
  <2>3. CASE Api  BY <2>3 DEF Api
  <2>4. CASE Delete  BY <2>4 DEF Delete
  <2>5. CASE Reload  BY <2>5 DEF Reload
  <2> QED  BY <1>5, <2>1, <2>2, <2>3, <2>4, <2>5
           DEF NewRequest
<1>6. CASE Sigint  BY <1>6 DEF Sigint
<1> QED  BY <1>1, <1>2, <1>3, <1>4, <1>5, <1>6 DEF Next

\* Every way of locking and unlocking yields a mutex.
LEMMA SyncStep ==
  ASSUME TypeOK, Next
  PROVE  SyncOK'
<1> USE DEF TypeOK, SyncOK, Threads, Unlocked, Locked, Leaked, Free, Nobody,
           RecursiveMutex, Goto, At, Moves, AppLock, HeapLock, HeapUnlock,
           Call, CallUnlessIn, Return, CallFromScript, Abort, NotifyAll,
           NotifyOne, Remote, EndIteration, Accept, CanLock, control, flags,
           life, sync
<1>1. ASSUME NEW t \in Threads, AnyThread(t)
     PROVE  SyncOK'
  <2>1. CASE SetAppState(t)  BY <2>1 DEF SetAppState
  <2>2. CASE WriteState(t)  BY <2>2 DEF WriteState
  <2>3. CASE Wake(t)  BY <2>3 DEF Wake
  <2>4. CASE Again(t)  BY <2>4 DEF Again
  <2>5. CASE UpdateClient(t)  BY <2>5 DEF UpdateClient
  <2>6. CASE JsonLock(t)  BY <2>6 DEF JsonLock
  <2>7. CASE Json(t)  BY <2>7 DEF Json
  <2>8. CASE Send(t)  BY <2>8 DEF Send
  <2>9. CASE RequestExit(t)  BY <2>9 DEF RequestExit
  <2>10. CASE NotifyExit(t)  BY <2>10 DEF NotifyExit
  <2>11. CASE SetResponse(t)  BY <2>11 DEF SetResponse
  <2>12. CASE Die(t)
    <3>1. Abort  BY <2>12 DEF Die
    <3> QED  BY <3>1
  <2> QED  BY <1>1, <2>1, <2>2, <2>3, <2>4, <2>5, <2>6, <2>7, <2>8, <2>9,
           <2>10, <2>11, <2>12
           DEF AnyThread, UpdateAppState
<1>2. CASE InitThread
  <2>1. CASE LockApp  BY <2>1 DEF LockApp
  <2>2. CASE LockDukt  BY <2>2 DEF LockDukt
  <2>3. CASE EvalMain  BY <2>3 DEF EvalMain
  <2>4. CASE Spawn  BY <2>4 DEF Spawn
  <2>5. CASE Describe  BY <2>5 DEF Describe
  <2>6. CASE AppExists  BY <2>6 DEF AppExists
  <2>7. CASE RegisterApp  BY <2>7 DEF RegisterApp
  <2>8. CASE InstantiatePause  BY <2>8 DEF InstantiatePause
  <2>9. CASE InstantiateStart  BY <2>9 DEF InstantiateStart
  <2>10. CASE InstantiateEnd  BY <2>10 DEF InstantiateEnd
  <2> QED  BY <1>2, <1>1, <2>1, <2>2, <2>3, <2>4, <2>5, <2>6, <2>7, <2>8, <2>9,
           <2>10
           DEF InitThread, Threads
<1>3. CASE LoopThread
  <2>1. CASE Run  BY <2>1 DEF Run
  <2>2. CASE RunLock  BY <2>2 DEF RunLock
  <2>3. CASE LoopEnter  BY <2>3 DEF LoopEnter
  <2>4. CASE LoopTop  BY <2>4 DEF LoopTop, StopRequested
  <2>5. CASE ParkedCheck  BY <2>5 DEF ParkedCheck, StopRequested, Unpark
  <2>6. CASE ParkedBlock  BY <2>6 DEF ParkedBlock
  <2>7. CASE ParkedWoken  BY <2>7 DEF ParkedWoken
  <2>8. CASE ParkedTimeout  BY <2>8 DEF ParkedTimeout
  <2>9. CASE Dispatch  BY <2>9 DEF Dispatch
  <2>10. CASE Dispatched  BY <2>10 DEF Dispatched
  <2>11. CASE WaitCheck  BY <2>11 DEF WaitCheck, StopRequested
  <2>12. CASE WaitBlock  BY <2>12 DEF WaitBlock
  <2>13. CASE WaitWoken  BY <2>13 DEF WaitWoken
  <2>14. CASE WaitTimeout  BY <2>14 DEF WaitTimeout, StopRequested
  <2>15. CASE LoopPop  BY <2>15 DEF LoopPop
  <2>16. CASE Terminate  BY <2>16 DEF Terminate
  <2>17. CASE Terminated  BY <2>17 DEF Terminated
  <2>18. CASE InterruptPause  BY <2>18 DEF InterruptPause
  <2>19. CASE InterruptUnregister  BY <2>19 DEF InterruptUnregister
  <2>20. CASE SetReady
    <3>1. sleepers' \subseteq Threads  BY <2>20 DEF SetReady
    <3>2. /\ app' = Unlocked(app, "loop") /\ dukt' = Unlocked(dukt, "loop")
          /\ cv' = Nobody
      BY <2>20 DEF SetReady
    <3> QED  BY <3>1, <3>2
  <2>21. CASE CrashState  BY <2>21 DEF CrashState
  <2>22. CASE CrashDestroy  BY <2>22 DEF CrashDestroy
  <2> QED  BY <1>3, <1>1, <2>1, <2>2, <2>3, <2>4, <2>5, <2>6, <2>7, <2>8, <2>9,
           <2>10, <2>11, <2>12, <2>13, <2>14, <2>15, <2>16, <2>17, <2>18,
           <2>19, <2>20, <2>21, <2>22
           DEF LoopThread, Threads
<1>4. CASE HttpThread
  <2>1. CASE GetLock  BY <2>1 DEF GetLock
  <2>2. CASE GetRead  BY <2>2 DEF GetRead
  <2>3. CASE PutLock  BY <2>3 DEF PutLock
  <2>4. CASE PutDecode  BY <2>4 DEF PutDecode
  <2>5. CASE ApiLock  BY <2>5 DEF ApiLock
  <2>6. CASE ApiEval  BY <2>6 DEF ApiEval
  <2>7. CASE ApiEnd  BY <2>7 DEF ApiEnd
  <2>8. CASE DeleteLock  BY <2>8 DEF DeleteLock
  <2>9. CASE DeletePause  BY <2>9 DEF DeletePause
  <2>10. CASE DeleteUnregister  BY <2>10 DEF DeleteUnregister
  <2>11. CASE ShutdownUnregister  BY <2>11 DEF ShutdownUnregister
  <2>12. CASE ExitLock  BY <2>12 DEF ExitLock
  <2>13. CASE ExitRequest  BY <2>13 DEF ExitRequest
  <2>14. CASE ExitNotifyAll  BY <2>14 DEF ExitNotifyAll
  <2>15. CASE ReadyCheck  BY <2>15 DEF ReadyCheck
  <2>16. CASE ReadyBlock  BY <2>16 DEF ReadyBlock
  <2>17. CASE ReadyWoken  BY <2>17 DEF ReadyWoken
  <2>18. CASE ReadyTimeout  BY <2>18 DEF ReadyTimeout
  <2>19. CASE Join  BY <2>19 DEF Join
  <2>20. CASE DeleteLoop  BY <2>20 DEF DeleteLoop
  <2>21. CASE Erase  BY <2>21 DEF Erase
  <2>22. CASE DestroyLock  BY <2>22 DEF DestroyLock
  <2>23. CASE Destroy  BY <2>23 DEF Destroy
  <2>24. CASE AnswerDeleted  BY <2>24 DEF AnswerDeleted
  <2>25. CASE ServerStops  BY <2>25 DEF ServerStops
  <2>26. CASE MainExits  BY <2>26 DEF MainExits
  <2> QED  BY <1>4, <1>1, <2>1, <2>2, <2>3, <2>4, <2>5, <2>6, <2>7, <2>8, <2>9,
           <2>10, <2>11, <2>12, <2>13, <2>14, <2>15, <2>16, <2>17, <2>18,
           <2>19, <2>20, <2>21, <2>22, <2>23, <2>24, <2>25, <2>26
           DEF HttpThread, Threads
<1>5. CASE NewRequest
  <2>1. CASE Get  BY <2>1 DEF Get
  <2>2. CASE Put  BY <2>2 DEF Put
  <2>3. CASE Api  BY <2>3 DEF Api
  <2>4. CASE Delete  BY <2>4 DEF Delete
  <2>5. CASE Reload  BY <2>5 DEF Reload
  <2> QED  BY <1>5, <2>1, <2>2, <2>3, <2>4, <2>5
           DEF NewRequest
<1>6. CASE Sigint  BY <1>6 DEF Sigint
<1> QED  BY <1>1, <1>2, <1>3, <1>4, <1>5, <1>6 DEF Next

\* Every label a thread goes to, or returns to, is one.
LEMMA PcStep ==
  ASSUME TypeOK, Flow, Next
  PROVE  pc' \in [Threads -> Labels \cup CallLabels]
<1> USE DEF TypeOK, Threads, Labels, HttpLabels, StartLabels, RunLabels,
           LoopLabels, CallLabels, Goto, At, Moves, AppLock, HeapLock,
           HeapUnlock, Call, CallUnlessIn, Return, CallFromScript, Abort,
           NotifyAll, NotifyOne, Remote, EndIteration, Accept, CanLock,
           control, flags, life, sync
<1>1. ASSUME NEW t \in Threads, AnyThread(t)
     PROVE  pc' \in [Threads -> Labels \cup CallLabels]
  <2>1. CASE SetAppState(t)  BY <2>1 DEF SetAppState
  <2>2. CASE WriteState(t)  BY <2>2 DEF WriteState
  <2>3. CASE Wake(t)  BY <2>3 DEF Wake
  <2>4. CASE Again(t)  BY <2>4 DEF Again
  <2>5. CASE UpdateClient(t)
    <3> HIDE DEF Labels, CallLabels, Threads
    <3>1. frame[t].back \in Labels
      BY <2>5, BackIsLabel DEF UpdateClient, CallLabels
    <3>2. {"json_lock", "send"} \subseteq CallLabels  BY DEF CallLabels
    <3> QED  BY <2>5, <3>1, <3>2 DEF UpdateClient
  <2>6. CASE JsonLock(t)  BY <2>6 DEF JsonLock
  <2>7. CASE Json(t)  BY <2>7 DEF Json
  <2>8. CASE Send(t)  BY <2>8 DEF Send
  <2>9. CASE RequestExit(t)  BY <2>9 DEF RequestExit
  <2>10. CASE NotifyExit(t)
    <3> HIDE DEF Labels, CallLabels, Threads
    <3>1. frame[t].back \in Labels
      BY <2>10, BackIsLabel DEF NotifyExit, CallLabels
    <3> QED  BY <2>10, <3>1 DEF NotifyExit
  <2>11. CASE SetResponse(t)
    <3> HIDE DEF Labels, CallLabels, Threads
    <3>1. pc[t] = "set_response" /\ Return(t)  BY <2>11 DEF SetResponse
    <3>2. frame[t].back \in Labels  BY <3>1, BackIsLabel DEF CallLabels
    <3> QED  BY <3>1, <3>2
  <2>12. CASE Die(t)
    <3>1. Abort  BY <2>12 DEF Die
    <3> QED  BY <3>1
  <2> QED  BY <1>1, <2>1, <2>2, <2>3, <2>4, <2>5, <2>6, <2>7, <2>8, <2>9,
           <2>10, <2>11, <2>12
           DEF AnyThread, UpdateAppState
<1>2. CASE InitThread
  <2>1. CASE LockApp  BY <2>1 DEF LockApp
  <2>2. CASE LockDukt  BY <2>2 DEF LockDukt
  <2>3. CASE EvalMain  BY <2>3 DEF EvalMain
  <2>4. CASE Spawn  BY <2>4 DEF Spawn
  <2>5. CASE Describe  BY <2>5 DEF Describe
  <2>6. CASE AppExists  BY <2>6 DEF AppExists
  <2>7. CASE RegisterApp  BY <2>7 DEF RegisterApp
  <2>8. CASE InstantiatePause  BY <2>8 DEF InstantiatePause
  <2>9. CASE InstantiateStart  BY <2>9 DEF InstantiateStart
  <2>10. CASE InstantiateEnd  BY <2>10 DEF InstantiateEnd
  <2> QED  BY <1>2, <1>1, <2>1, <2>2, <2>3, <2>4, <2>5, <2>6, <2>7, <2>8, <2>9,
           <2>10
           DEF InitThread, Threads
<1>3. CASE LoopThread
  <2>1. CASE Run  BY <2>1 DEF Run
  <2>2. CASE RunLock  BY <2>2 DEF RunLock
  <2>3. CASE LoopEnter  BY <2>3 DEF LoopEnter
  <2>4. CASE LoopTop  BY <2>4 DEF LoopTop, StopRequested
  <2>5. CASE ParkedCheck  BY <2>5 DEF ParkedCheck, StopRequested, Unpark
  <2>6. CASE ParkedBlock  BY <2>6 DEF ParkedBlock
  <2>7. CASE ParkedWoken  BY <2>7 DEF ParkedWoken
  <2>8. CASE ParkedTimeout  BY <2>8 DEF ParkedTimeout
  <2>9. CASE Dispatch  BY <2>9 DEF Dispatch
  <2>10. CASE Dispatched  BY <2>10 DEF Dispatched
  <2>11. CASE WaitCheck  BY <2>11 DEF WaitCheck, StopRequested
  <2>12. CASE WaitBlock  BY <2>12 DEF WaitBlock
  <2>13. CASE WaitWoken  BY <2>13 DEF WaitWoken
  <2>14. CASE WaitTimeout  BY <2>14 DEF WaitTimeout, StopRequested
  <2>15. CASE LoopPop  BY <2>15 DEF LoopPop
  <2>16. CASE Terminate  BY <2>16 DEF Terminate
  <2>17. CASE Terminated  BY <2>17 DEF Terminated
  <2>18. CASE InterruptPause  BY <2>18 DEF InterruptPause
  <2>19. CASE InterruptUnregister  BY <2>19 DEF InterruptUnregister
  <2>20. CASE SetReady  BY <2>20 DEF SetReady
  <2>21. CASE CrashState  BY <2>21 DEF CrashState
  <2>22. CASE CrashDestroy  BY <2>22 DEF CrashDestroy
  <2> QED  BY <1>3, <1>1, <2>1, <2>2, <2>3, <2>4, <2>5, <2>6, <2>7, <2>8, <2>9,
           <2>10, <2>11, <2>12, <2>13, <2>14, <2>15, <2>16, <2>17, <2>18,
           <2>19, <2>20, <2>21, <2>22
           DEF LoopThread, Threads
<1>4. CASE HttpThread
  <2>1. CASE GetLock  BY <2>1 DEF GetLock
  <2>2. CASE GetRead  BY <2>2 DEF GetRead
  <2>3. CASE PutLock  BY <2>3 DEF PutLock
  <2>4. CASE PutDecode
    <3> HIDE DEF Labels, CallLabels, Threads
    <3>1. frame["http"].back \in Labels
      BY <2>4, BackLabels DEF PutDecode, Flow, HttpFlow
    <3>2. "set_state" \in CallLabels  BY DEF CallLabels
    <3> QED  BY <2>4, <3>1, <3>2 DEF PutDecode
  <2>5. CASE ApiLock  BY <2>5 DEF ApiLock
  <2>6. CASE ApiEval  BY <2>6 DEF ApiEval
  <2>7. CASE ApiEnd  BY <2>7 DEF ApiEnd
  <2>8. CASE DeleteLock  BY <2>8 DEF DeleteLock
  <2>9. CASE DeletePause  BY <2>9 DEF DeletePause
  <2>10. CASE DeleteUnregister  BY <2>10 DEF DeleteUnregister
  <2>11. CASE ShutdownUnregister  BY <2>11 DEF ShutdownUnregister
  <2>12. CASE ExitLock  BY <2>12 DEF ExitLock
  <2>13. CASE ExitRequest  BY <2>13 DEF ExitRequest
  <2>14. CASE ExitNotifyAll  BY <2>14 DEF ExitNotifyAll
  <2>15. CASE ReadyCheck  BY <2>15 DEF ReadyCheck
  <2>16. CASE ReadyBlock  BY <2>16 DEF ReadyBlock
  <2>17. CASE ReadyWoken  BY <2>17 DEF ReadyWoken
  <2>18. CASE ReadyTimeout  BY <2>18 DEF ReadyTimeout
  <2>19. CASE Join  BY <2>19 DEF Join
  <2>20. CASE DeleteLoop  BY <2>20 DEF DeleteLoop
  <2>21. CASE Erase  BY <2>21 DEF Erase
  <2>22. CASE DestroyLock  BY <2>22 DEF DestroyLock
  <2>23. CASE Destroy  BY <2>23 DEF Destroy
  <2>24. CASE AnswerDeleted  BY <2>24 DEF AnswerDeleted
  <2>25. CASE ServerStops  BY <2>25 DEF ServerStops
  <2>26. CASE MainExits  BY <2>26 DEF MainExits
  <2> QED  BY <1>4, <1>1, <2>1, <2>2, <2>3, <2>4, <2>5, <2>6, <2>7, <2>8, <2>9,
           <2>10, <2>11, <2>12, <2>13, <2>14, <2>15, <2>16, <2>17, <2>18,
           <2>19, <2>20, <2>21, <2>22, <2>23, <2>24, <2>25, <2>26
           DEF HttpThread, Threads
<1>5. CASE NewRequest
  <2>1. CASE Get  BY <2>1 DEF Get
  <2>2. CASE Put  BY <2>2 DEF Put
  <2>3. CASE Api  BY <2>3 DEF Api
  <2>4. CASE Delete  BY <2>4 DEF Delete
  <2>5. CASE Reload  BY <2>5 DEF Reload
  <2> QED  BY <1>5, <2>1, <2>2, <2>3, <2>4, <2>5
           DEF NewRequest
<1>6. CASE Sigint  BY <1>6 DEF Sigint
<1> QED  BY <1>1, <1>2, <1>3, <1>4, <1>5, <1>6 DEF Next

\* What the calls and returns do to the frames.
LEMMA FrameMade ==
  ASSUME NEW s \in States, NEW n \in {0, 1}, NEW b \in Labels \cup {"none"}
  PROVE  FrameOf(s, n, b) \in Frames
BY MaxNestAssumption DEF FrameOf, Frames

LEMMA FrameSet ==
  ASSUME TypeOK, NEW t \in Threads, NEW f \in Frames,
         frame' = [frame EXCEPT ![t] = f]
  PROVE  frame' \in [Threads -> Frames]
BY DEF TypeOK

LEMMA CallFrame ==
  ASSUME TypeOK, NEW t \in Threads, NEW s \in States, NEW n \in {0, 1},
         NEW b \in Labels, Call(t, s, n, b)
  PROVE  frame' \in [Threads -> Frames]
BY FrameMade, FrameSet DEF Call

LEMMA CallUnlessInFrame ==
  ASSUME TypeOK, NEW t \in Threads, NEW s \in States, NEW b \in Labels,
         CallUnlessIn(t, s, b)
  PROVE  frame' \in [Threads -> Frames]
BY CallFrame DEF CallUnlessIn, TypeOK

LEMMA ScriptFrame ==
  ASSUME TypeOK, NEW t \in Threads, NEW l, NEW b \in Labels,
         CallFromScript(t, l, b)
  PROVE  frame' \in [Threads -> Frames]
<1>1. "initializing" \in States  BY DEF States
<1> QED  BY <1>1, FrameMade, FrameSet DEF CallFromScript

LEMMA ReturnFrame ==
  ASSUME TypeOK, NEW t \in Threads, Return(t)
  PROVE  frame' \in [Threads -> Frames]
<1>1. NoFrame \in Frames  BY FrameMade DEF NoFrame, States
<1> QED  BY <1>1, FrameSet DEF Return

\* Calls and updates of a frame keep its type.
LEMMA FrameStep ==
  ASSUME TypeOK, Owes, Next
  PROVE  frame' \in [Threads -> Frames]
<1> USE DEF TypeOK, FlagsOK, Owes, Threads, States, Goto, At, Moves, AppLock,
           HeapLock, HeapUnlock, Accept, EndIteration
<1>1. ASSUME NEW t \in Threads, AnyThread(t)
     PROVE  frame' \in [Threads -> Frames]
  <2>1. CASE SetAppState(t)
    <3>1. CASE frame[t].target = appState  BY <2>1, <3>1 DEF SetAppState
    <3>2. CASE frame[t].target # appState
      <4> DEFINE b == {frame[t].target, appState} = {"running", "paused"}
      <4>1. b \in BOOLEAN  OBVIOUS
      <4>2. [frame[t] EXCEPT !.tail = b] \in Frames  BY <4>1 DEF Frames
      <4> QED  BY <2>1, <3>2, <4>2 DEF SetAppState
    <3> QED  BY <3>1, <3>2
  <2>2. CASE WriteState(t)  BY <2>2 DEF WriteState
  <2>3. CASE Wake(t)  BY <2>3 DEF Wake
  <2>4. CASE Again(t)
    <3>1. CASE UNCHANGED frame  BY <3>1
    <3>2. CASE /\ frame[t].owed < MaxNest
               /\ frame' = [frame EXCEPT ![t].owed = @ + 1]
      <4>1. [frame[t] EXCEPT !.owed = frame[t].owed + 1] \in Frames
        BY <3>2, MaxNestAssumption DEF Frames
      <4> QED  BY <3>2, <4>1
    <3> QED  BY <2>4, <3>1, <3>2 DEF Again
  <2>5. CASE UpdateClient(t)
    BY <2>5, ReturnFrame DEF UpdateClient, TypeOK, Threads
  <2>6. CASE JsonLock(t)  BY <2>6 DEF JsonLock
  <2>7. CASE Json(t)
    <3>1. [frame[t] EXCEPT !.payload = appState] \in Frames
      BY DEF Frames
    <3> QED  BY <2>7, <3>1, FrameSet DEF Json
  <2>8. CASE Send(t)
    <3>1. frame[t].owed \in 1..MaxNest
      BY <2>8, MaxNestAssumption DEF Send, Frames
    <3>2. [frame[t] EXCEPT !.owed = frame[t].owed - 1] \in Frames
      BY <3>1, MaxNestAssumption DEF Frames
    <3> QED  BY <2>8, <3>2, FrameSet DEF Send, Frames
  <2>9. CASE RequestExit(t)  BY <2>9 DEF RequestExit
  <2>10. CASE NotifyExit(t)
    BY <2>10, ReturnFrame DEF NotifyExit, TypeOK, Threads
  <2>11. CASE SetResponse(t)
    BY <2>11, ReturnFrame DEF SetResponse, TypeOK, Threads
  <2>12. CASE Die(t)
    BY <2>12 DEF Die, Abort
  <2> QED  BY <1>1, <2>1, <2>2, <2>3, <2>4, <2>5, <2>6, <2>7, <2>8, <2>9,
           <2>10, <2>11, <2>12
           DEF AnyThread, UpdateAppState
<1>2. CASE InitThread
  <2>1. CASE LockApp  BY <2>1 DEF LockApp
  <2>2. CASE LockDukt  BY <2>2 DEF LockDukt
  <2>3. CASE EvalMain
    BY <2>3, ScriptFrame, BackLabels DEF EvalMain, TypeOK, Threads, States
  <2>4. CASE Spawn  BY <2>4 DEF Spawn
  <2>5. CASE Describe
    <3>1. [frame["init"] EXCEPT !.payload = appState] \in Frames
      BY DEF Frames
    <3> QED  BY <2>5, <3>1 DEF Describe
  <2>6. CASE AppExists  BY <2>6 DEF AppExists
  <2>7. CASE RegisterApp  BY <2>7 DEF RegisterApp
  <2>8. CASE InstantiatePause
    BY <2>8, CallUnlessInFrame, BackLabels DEF InstantiatePause, Threads, States
  <2>9. CASE InstantiateStart
    BY <2>9, CallUnlessInFrame, BackLabels DEF InstantiateStart, Threads, States
  <2>10. CASE InstantiateEnd
    <3>1. NoFrame \in Frames  BY FrameMade DEF NoFrame
    <3> QED  BY <2>10, <3>1 DEF InstantiateEnd
  <2> QED  BY <1>2, <1>1, <2>1, <2>2, <2>3, <2>4, <2>5, <2>6, <2>7, <2>8, <2>9,
           <2>10
           DEF InitThread, Threads
<1>3. CASE LoopThread
  <2>1. CASE Run
    BY <2>1, CallFrame, BackLabels DEF Run, TypeOK, Threads, States
  <2>2. CASE RunLock  BY <2>2 DEF RunLock
  <2>3. CASE LoopEnter  BY <2>3 DEF LoopEnter
  <2>4. CASE LoopTop  BY <2>4 DEF LoopTop, StopRequested
  <2>5. CASE ParkedCheck  BY <2>5 DEF ParkedCheck, StopRequested, Unpark
  <2>6. CASE ParkedBlock  BY <2>6 DEF ParkedBlock
  <2>7. CASE ParkedWoken  BY <2>7 DEF ParkedWoken
  <2>8. CASE ParkedTimeout  BY <2>8 DEF ParkedTimeout
  <2>9. CASE Dispatch
    BY <2>9, ScriptFrame, BackLabels DEF Dispatch, TypeOK, Threads, States
  <2>10. CASE Dispatched  BY <2>10 DEF Dispatched
  <2>11. CASE WaitCheck  BY <2>11 DEF WaitCheck, StopRequested
  <2>12. CASE WaitBlock  BY <2>12 DEF WaitBlock
  <2>13. CASE WaitWoken  BY <2>13 DEF WaitWoken
  <2>14. CASE WaitTimeout  BY <2>14 DEF WaitTimeout, StopRequested
  <2>15. CASE LoopPop  BY <2>15 DEF LoopPop
  <2>16. CASE Terminate
    BY <2>16, ScriptFrame, BackLabels DEF Terminate, TypeOK, Threads, States
  <2>17. CASE Terminated  BY <2>17 DEF Terminated
  <2>18. CASE InterruptPause
    BY <2>18, CallUnlessInFrame, BackLabels DEF InterruptPause, Threads, States
  <2>19. CASE InterruptUnregister  BY <2>19 DEF InterruptUnregister
  <2>20. CASE SetReady  BY <2>20 DEF SetReady
  <2>21. CASE CrashState
    BY <2>21, CallFrame, BackLabels DEF CrashState, TypeOK, Threads, States
  <2>22. CASE CrashDestroy  BY <2>22 DEF CrashDestroy
  <2> QED  BY <1>3, <1>1, <2>1, <2>2, <2>3, <2>4, <2>5, <2>6, <2>7, <2>8, <2>9,
           <2>10, <2>11, <2>12, <2>13, <2>14, <2>15, <2>16, <2>17, <2>18,
           <2>19, <2>20, <2>21, <2>22
           DEF LoopThread, Threads
<1>4. CASE HttpThread
  <2>1. CASE GetLock  BY <2>1 DEF GetLock
  <2>2. CASE GetRead  BY <2>2 DEF GetRead
  <2>3. CASE PutLock  BY <2>3 DEF PutLock
  <2>4. CASE PutDecode
    BY <2>4, ReturnFrame DEF PutDecode, TypeOK, Threads
  <2>5. CASE ApiLock  BY <2>5 DEF ApiLock
  <2>6. CASE ApiEval
    BY <2>6, ScriptFrame, BackLabels DEF ApiEval, TypeOK, Threads, States
  <2>7. CASE ApiEnd  BY <2>7 DEF ApiEnd
  <2>8. CASE DeleteLock  BY <2>8 DEF DeleteLock
  <2>9. CASE DeletePause
    BY <2>9, CallUnlessInFrame, BackLabels DEF DeletePause, Threads, States
  <2>10. CASE DeleteUnregister  BY <2>10 DEF DeleteUnregister
  <2>11. CASE ShutdownUnregister  BY <2>11 DEF ShutdownUnregister
  <2>12. CASE ExitLock  BY <2>12 DEF ExitLock
  <2>13. CASE ExitRequest  BY <2>13 DEF ExitRequest
  <2>14. CASE ExitNotifyAll  BY <2>14 DEF ExitNotifyAll
  <2>15. CASE ReadyCheck  BY <2>15 DEF ReadyCheck
  <2>16. CASE ReadyBlock  BY <2>16 DEF ReadyBlock
  <2>17. CASE ReadyWoken  BY <2>17 DEF ReadyWoken
  <2>18. CASE ReadyTimeout  BY <2>18 DEF ReadyTimeout
  <2>19. CASE Join  BY <2>19 DEF Join
  <2>20. CASE DeleteLoop  BY <2>20 DEF DeleteLoop
  <2>21. CASE Erase  BY <2>21 DEF Erase
  <2>22. CASE DestroyLock  BY <2>22 DEF DestroyLock
  <2>23. CASE Destroy  BY <2>23 DEF Destroy
  <2>24. CASE AnswerDeleted  BY <2>24 DEF AnswerDeleted
  <2>25. CASE ServerStops  BY <2>25 DEF ServerStops
  <2>26. CASE MainExits  BY <2>26 DEF MainExits
  <2> QED  BY <1>4, <1>1, <2>1, <2>2, <2>3, <2>4, <2>5, <2>6, <2>7, <2>8, <2>9,
           <2>10, <2>11, <2>12, <2>13, <2>14, <2>15, <2>16, <2>17, <2>18,
           <2>19, <2>20, <2>21, <2>22, <2>23, <2>24, <2>25, <2>26
           DEF HttpThread, Threads
<1>5. CASE NewRequest
  <2>1. CASE Get  BY <2>1 DEF Get
  <2>2. CASE Put
    <3>1. PICK s \in States : frame' = [frame EXCEPT !["http"] =
                                                 FrameOf(s, 1, "idle")]
      BY <2>2 DEF Put
    <3>2. FrameOf(s, 1, "idle") \in Frames  BY FrameMade, BackLabels
    <3> QED  BY <3>1, <3>2, FrameSet
  <2>3. CASE Api  BY <2>3 DEF Api
  <2>4. CASE Delete  BY <2>4 DEF Delete
  <2>5. CASE Reload  BY <2>5 DEF Reload
  <2> QED  BY <1>5, <2>1, <2>2, <2>3, <2>4, <2>5
           DEF NewRequest
<1>6. CASE Sigint  BY <1>6 DEF Sigint
<1> QED  BY <1>1, <1>2, <1>3, <1>4, <1>5, <1>6 DEF Next

\* Each thread runs its own code, and sends only updates it owes.
LEMMA FlowStep ==
  ASSUME TypeOK, Flow, Unborn, Owes, Next
  PROVE  Flow' /\ Unborn' /\ Owes'
<1> USE DEF TypeOK, FlagsOK, Flow, HttpFlow, InitFlow, LoopFlow, Unborn, Owes,
           Frames, NoFrame, FrameOf, Threads, States, Labels, HttpLabels,
           StartLabels, RunLabels, LoopLabels, CallLabels, UpdateLabels,
           ScriptLabels, Place, Goto, At, Moves, AppLock, HeapLock, HeapUnlock,
           Call, CallUnlessIn, Return, CallFromScript, Abort, NotifyAll,
           NotifyOne, Remote, EndIteration, Accept, CanLock, control, flags,
           life, sync
<1>1. ASSUME NEW t \in Threads, AnyThread(t)
     PROVE  Flow' /\ Unborn' /\ Owes'
  <2>1. CASE SetAppState(t)  BY <2>1 DEF SetAppState
  <2>2. CASE WriteState(t)  BY <2>2 DEF WriteState
  <2>3. CASE Wake(t)  BY <2>3 DEF Wake
  <2>4. CASE Again(t)  BY <2>4 DEF Again
  <2>5. CASE UpdateClient(t)  BY <2>5 DEF UpdateClient
  <2>6. CASE JsonLock(t)  BY <2>6 DEF JsonLock
  <2>7. CASE Json(t)  BY <2>7 DEF Json
  <2>8. CASE Send(t)  BY <2>8 DEF Send
  <2>9. CASE RequestExit(t)  BY <2>9 DEF RequestExit
  <2>10. CASE NotifyExit(t)  BY <2>10 DEF NotifyExit
  <2>11. CASE SetResponse(t)
    <3>1. /\ At(t, "set_response") /\ Return(t)
          /\ UNCHANGED <<control, flags, life, sync, manager>>
      BY <2>11 DEF SetResponse
    <3> QED  BY <3>1
  <2>12. CASE Die(t)
    <3>1. Abort  BY <2>12 DEF Die
    <3> QED  BY <3>1
  <2> QED  BY <1>1, <2>1, <2>2, <2>3, <2>4, <2>5, <2>6, <2>7, <2>8, <2>9,
           <2>10, <2>11, <2>12
           DEF AnyThread, UpdateAppState
<1>2. CASE InitThread
  <2>1. CASE LockApp  BY <2>1 DEF LockApp
  <2>2. CASE LockDukt  BY <2>2 DEF LockDukt
  <2>3. CASE EvalMain  BY <2>3 DEF EvalMain
  <2>4. CASE Spawn  BY <2>4 DEF Spawn
  <2>5. CASE Describe  BY <2>5 DEF Describe
  <2>6. CASE AppExists  BY <2>6 DEF AppExists
  <2>7. CASE RegisterApp  BY <2>7 DEF RegisterApp
  <2>8. CASE InstantiatePause  BY <2>8 DEF InstantiatePause
  <2>9. CASE InstantiateStart  BY <2>9 DEF InstantiateStart
  <2>10. CASE InstantiateEnd  BY <2>10 DEF InstantiateEnd
  <2> QED  BY <1>2, <1>1, <2>1, <2>2, <2>3, <2>4, <2>5, <2>6, <2>7, <2>8, <2>9,
           <2>10
           DEF InitThread, Threads
<1>3. CASE LoopThread
  <2>1. CASE Run  BY <2>1 DEF Run
  <2>2. CASE RunLock  BY <2>2 DEF RunLock
  <2>3. CASE LoopEnter  BY <2>3 DEF LoopEnter
  <2>4. CASE LoopTop  BY <2>4 DEF LoopTop, StopRequested
  <2>5. CASE ParkedCheck  BY <2>5 DEF ParkedCheck, StopRequested, Unpark
  <2>6. CASE ParkedBlock  BY <2>6 DEF ParkedBlock
  <2>7. CASE ParkedWoken  BY <2>7 DEF ParkedWoken
  <2>8. CASE ParkedTimeout  BY <2>8 DEF ParkedTimeout
  <2>9. CASE Dispatch  BY <2>9 DEF Dispatch
  <2>10. CASE Dispatched  BY <2>10 DEF Dispatched
  <2>11. CASE WaitCheck  BY <2>11 DEF WaitCheck, StopRequested
  <2>12. CASE WaitBlock  BY <2>12 DEF WaitBlock
  <2>13. CASE WaitWoken  BY <2>13 DEF WaitWoken
  <2>14. CASE WaitTimeout  BY <2>14 DEF WaitTimeout, StopRequested
  <2>15. CASE LoopPop  BY <2>15 DEF LoopPop
  <2>16. CASE Terminate  BY <2>16 DEF Terminate
  <2>17. CASE Terminated  BY <2>17 DEF Terminated
  <2>18. CASE InterruptPause  BY <2>18 DEF InterruptPause
  <2>19. CASE InterruptUnregister  BY <2>19 DEF InterruptUnregister
  <2>20. CASE SetReady  BY <2>20 DEF SetReady
  <2>21. CASE CrashState  BY <2>21 DEF CrashState
  <2>22. CASE CrashDestroy  BY <2>22 DEF CrashDestroy
  <2> QED  BY <1>3, <1>1, <2>1, <2>2, <2>3, <2>4, <2>5, <2>6, <2>7, <2>8, <2>9,
           <2>10, <2>11, <2>12, <2>13, <2>14, <2>15, <2>16, <2>17, <2>18,
           <2>19, <2>20, <2>21, <2>22
           DEF LoopThread, Threads
<1>4. CASE HttpThread
  <2>1. CASE GetLock  BY <2>1 DEF GetLock
  <2>2. CASE GetRead  BY <2>2 DEF GetRead
  <2>3. CASE PutLock  BY <2>3 DEF PutLock
  <2>4. CASE PutDecode  BY <2>4 DEF PutDecode
  <2>5. CASE ApiLock  BY <2>5 DEF ApiLock
  <2>6. CASE ApiEval  BY <2>6 DEF ApiEval
  <2>7. CASE ApiEnd  BY <2>7 DEF ApiEnd
  <2>8. CASE DeleteLock  BY <2>8 DEF DeleteLock
  <2>9. CASE DeletePause  BY <2>9 DEF DeletePause
  <2>10. CASE DeleteUnregister  BY <2>10 DEF DeleteUnregister
  <2>11. CASE ShutdownUnregister  BY <2>11 DEF ShutdownUnregister
  <2>12. CASE ExitLock  BY <2>12 DEF ExitLock
  <2>13. CASE ExitRequest  BY <2>13 DEF ExitRequest
  <2>14. CASE ExitNotifyAll  BY <2>14 DEF ExitNotifyAll
  <2>15. CASE ReadyCheck  BY <2>15 DEF ReadyCheck
  <2>16. CASE ReadyBlock  BY <2>16 DEF ReadyBlock
  <2>17. CASE ReadyWoken  BY <2>17 DEF ReadyWoken
  <2>18. CASE ReadyTimeout  BY <2>18 DEF ReadyTimeout
  <2>19. CASE Join  BY <2>19 DEF Join
  <2>20. CASE DeleteLoop  BY <2>20 DEF DeleteLoop
  <2>21. CASE Erase  BY <2>21 DEF Erase
  <2>22. CASE DestroyLock  BY <2>22 DEF DestroyLock
  <2>23. CASE Destroy  BY <2>23 DEF Destroy
  <2>24. CASE AnswerDeleted  BY <2>24 DEF AnswerDeleted
  <2>25. CASE ServerStops  BY <2>25 DEF ServerStops
  <2>26. CASE MainExits  BY <2>26 DEF MainExits
  <2> QED  BY <1>4, <1>1, <2>1, <2>2, <2>3, <2>4, <2>5, <2>6, <2>7, <2>8, <2>9,
           <2>10, <2>11, <2>12, <2>13, <2>14, <2>15, <2>16, <2>17, <2>18,
           <2>19, <2>20, <2>21, <2>22, <2>23, <2>24, <2>25, <2>26
           DEF HttpThread, Threads
<1>5. CASE NewRequest
  <2>1. CASE Get  BY <2>1 DEF Get
  <2>2. CASE Put  BY <2>2 DEF Put
  <2>3. CASE Api  BY <2>3 DEF Api
  <2>4. CASE Delete  BY <2>4 DEF Delete
  <2>5. CASE Reload  BY <2>5 DEF Reload
  <2> QED  BY <1>5, <2>1, <2>2, <2>3, <2>4, <2>5
           DEF NewRequest
<1>6. CASE Sigint  BY <1>6 DEF Sigint
<1> QED  BY <1>1, <1>2, <1>3, <1>4, <1>5, <1>6 DEF Next

\* The app mutex stays within the blocks that lock it, and only a thread about
\* to sleep keeps the cv mutex.
LEMMA AppStep ==
  ASSUME LockInv, Next
  PROVE  AppInv' /\ CvInv'
<1> USE DEF LockInv, TypeOK, FlagsOK, SyncOK, Flow, HttpFlow, InitFlow,
           LoopFlow, Frames, NoFrame, FrameOf, Threads, Unborn, AppInv, CvInv,
           InitAppPlaces, HttpAppPlaces, Labels, HttpLabels, StartLabels,
           RunLabels, LoopLabels, CallLabels, UpdateLabels, ScriptLabels,
           Place, Unlocked, Locked, Leaked, Free, Nobody, RecursiveMutex, Goto,
           At, Moves, AppLock, HeapLock, HeapUnlock, Call, CallUnlessIn,
           Return, CallFromScript, Abort, NotifyAll, NotifyOne, Remote,
           EndIteration, Accept, CanLock, control, flags, life, sync
<1>1. ASSUME NEW t \in Threads, AnyThread(t)
     PROVE  AppInv' /\ CvInv'
  <2>1. CASE SetAppState(t)  BY <2>1 DEF SetAppState
  <2>2. CASE WriteState(t)  BY <2>2 DEF WriteState
  <2>3. CASE Wake(t)  BY <2>3 DEF Wake
  <2>4. CASE Again(t)  BY <2>4 DEF Again
  <2>5. CASE UpdateClient(t)  BY <2>5 DEF UpdateClient
  <2>6. CASE JsonLock(t)  BY <2>6 DEF JsonLock
  <2>7. CASE Json(t)  BY <2>7 DEF Json
  <2>8. CASE Send(t)  BY <2>8 DEF Send
  <2>9. CASE RequestExit(t)  BY <2>9 DEF RequestExit
  <2>10. CASE NotifyExit(t)  BY <2>10 DEF NotifyExit
  <2>11. CASE SetResponse(t)
    <3>1. /\ At(t, "set_response") /\ Return(t)
          /\ UNCHANGED <<control, flags, life, sync, manager>>
      BY <2>11 DEF SetResponse
    <3> QED  BY <3>1
  <2>12. CASE Die(t)
    <3>1. Abort  BY <2>12 DEF Die
    <3> QED  BY <3>1
  <2> QED  BY <1>1, <2>1, <2>2, <2>3, <2>4, <2>5, <2>6, <2>7, <2>8, <2>9,
           <2>10, <2>11, <2>12
           DEF AnyThread, UpdateAppState
<1>2. CASE InitThread
  <2>1. CASE LockApp  BY <2>1 DEF LockApp
  <2>2. CASE LockDukt  BY <2>2 DEF LockDukt
  <2>3. CASE EvalMain  BY <2>3 DEF EvalMain
  <2>4. CASE Spawn
    <3>1. pc["loop"] = "unborn" /\ pc["init"] = "spawn"
      BY <2>4 DEF Spawn
    <3> QED  BY <2>4, <3>1 DEF Spawn
  <2>5. CASE Describe  BY <2>5 DEF Describe
  <2>6. CASE AppExists  BY <2>6 DEF AppExists
  <2>7. CASE RegisterApp  BY <2>7 DEF RegisterApp
  <2>8. CASE InstantiatePause  BY <2>8 DEF InstantiatePause
  <2>9. CASE InstantiateStart  BY <2>9 DEF InstantiateStart
  <2>10. CASE InstantiateEnd  BY <2>10 DEF InstantiateEnd
  <2> QED  BY <1>2, <1>1, <2>1, <2>2, <2>3, <2>4, <2>5, <2>6, <2>7, <2>8, <2>9,
           <2>10
           DEF InitThread, Threads
<1>3. CASE LoopThread
  <2>1. CASE Run  BY <2>1 DEF Run
  <2>2. CASE RunLock  BY <2>2 DEF RunLock
  <2>3. CASE LoopEnter  BY <2>3 DEF LoopEnter
  <2>4. CASE LoopTop  BY <2>4 DEF LoopTop, StopRequested
  <2>5. CASE ParkedCheck  BY <2>5 DEF ParkedCheck, StopRequested, Unpark
  <2>6. CASE ParkedBlock  BY <2>6 DEF ParkedBlock
  <2>7. CASE ParkedWoken  BY <2>7 DEF ParkedWoken
  <2>8. CASE ParkedTimeout  BY <2>8 DEF ParkedTimeout
  <2>9. CASE Dispatch  BY <2>9 DEF Dispatch
  <2>10. CASE Dispatched  BY <2>10 DEF Dispatched
  <2>11. CASE WaitCheck  BY <2>11 DEF WaitCheck, StopRequested
  <2>12. CASE WaitBlock  BY <2>12 DEF WaitBlock
  <2>13. CASE WaitWoken  BY <2>13 DEF WaitWoken
  <2>14. CASE WaitTimeout  BY <2>14 DEF WaitTimeout, StopRequested
  <2>15. CASE LoopPop  BY <2>15 DEF LoopPop
  <2>16. CASE Terminate  BY <2>16 DEF Terminate
  <2>17. CASE Terminated  BY <2>17 DEF Terminated
  <2>18. CASE InterruptPause  BY <2>18 DEF InterruptPause
  <2>19. CASE InterruptUnregister  BY <2>19 DEF InterruptUnregister
  <2>20. CASE SetReady  BY <2>20 DEF SetReady
  <2>21. CASE CrashState  BY <2>21 DEF CrashState
  <2>22. CASE CrashDestroy  BY <2>22 DEF CrashDestroy
  <2> QED  BY <1>3, <1>1, <2>1, <2>2, <2>3, <2>4, <2>5, <2>6, <2>7, <2>8, <2>9,
           <2>10, <2>11, <2>12, <2>13, <2>14, <2>15, <2>16, <2>17, <2>18,
           <2>19, <2>20, <2>21, <2>22
           DEF LoopThread, Threads
<1>4. CASE HttpThread
  <2>1. CASE GetLock  BY <2>1 DEF GetLock
  <2>2. CASE GetRead  BY <2>2 DEF GetRead
  <2>3. CASE PutLock  BY <2>3 DEF PutLock
  <2>4. CASE PutDecode  BY <2>4 DEF PutDecode
  <2>5. CASE ApiLock  BY <2>5 DEF ApiLock
  <2>6. CASE ApiEval  BY <2>6 DEF ApiEval
  <2>7. CASE ApiEnd  BY <2>7 DEF ApiEnd
  <2>8. CASE DeleteLock  BY <2>8 DEF DeleteLock
  <2>9. CASE DeletePause  BY <2>9 DEF DeletePause
  <2>10. CASE DeleteUnregister  BY <2>10 DEF DeleteUnregister
  <2>11. CASE ShutdownUnregister  BY <2>11 DEF ShutdownUnregister
  <2>12. CASE ExitLock  BY <2>12 DEF ExitLock
  <2>13. CASE ExitRequest  BY <2>13 DEF ExitRequest
  <2>14. CASE ExitNotifyAll  BY <2>14 DEF ExitNotifyAll
  <2>15. CASE ReadyCheck  BY <2>15 DEF ReadyCheck
  <2>16. CASE ReadyBlock  BY <2>16 DEF ReadyBlock
  <2>17. CASE ReadyWoken  BY <2>17 DEF ReadyWoken
  <2>18. CASE ReadyTimeout  BY <2>18 DEF ReadyTimeout
  <2>19. CASE Join  BY <2>19 DEF Join
  <2>20. CASE DeleteLoop  BY <2>20 DEF DeleteLoop
  <2>21. CASE Erase  BY <2>21 DEF Erase
  <2>22. CASE DestroyLock  BY <2>22 DEF DestroyLock
  <2>23. CASE Destroy  BY <2>23 DEF Destroy
  <2>24. CASE AnswerDeleted  BY <2>24 DEF AnswerDeleted
  <2>25. CASE ServerStops  BY <2>25 DEF ServerStops
  <2>26. CASE MainExits  BY <2>26 DEF MainExits
  <2> QED  BY <1>4, <1>1, <2>1, <2>2, <2>3, <2>4, <2>5, <2>6, <2>7, <2>8, <2>9,
           <2>10, <2>11, <2>12, <2>13, <2>14, <2>15, <2>16, <2>17, <2>18,
           <2>19, <2>20, <2>21, <2>22, <2>23, <2>24, <2>25, <2>26
           DEF HttpThread, Threads
<1>5. CASE NewRequest
  <2>1. CASE Get  BY <2>1 DEF Get
  <2>2. CASE Put  BY <2>2 DEF Put
  <2>3. CASE Api  BY <2>3 DEF Api
  <2>4. CASE Delete  BY <2>4 DEF Delete
  <2>5. CASE Reload  BY <2>5 DEF Reload
  <2> QED  BY <1>5, <2>1, <2>2, <2>3, <2>4, <2>5
           DEF NewRequest
<1>6. CASE Sigint  BY <1>6 DEF Sigint
<1> QED  BY <1>1, <1>2, <1>3, <1>4, <1>5, <1>6 DEF Next

\* The duktape mutex: instantiate() keeps it to its end, a handler holds it
\* around its use of the heap, the event loop wherever it runs callbacks.
LEMMA DuktStep ==
  ASSUME LockInv, Next
  PROVE  DuktInv'
<1> USE DEF LockInv, TypeOK, FlagsOK, SyncOK, Flow, HttpFlow, InitFlow,
           LoopFlow, Frames, NoFrame, FrameOf, Threads, InitAppPlaces,
           InitDuktPlaces, Json1, DuktInv, DuktInit, DuktHttp, HttpDuktLabels,
           DuktLoop, LoopMustPlaces, LoopOncePlaces, LoopTwicePlaces, LoopMost,
           Leaks, Labels, HttpLabels, StartLabels, RunLabels, LoopLabels,
           CallLabels, UpdateLabels, ScriptLabels, Place, Unlocked, Locked,
           Leaked, Free, Nobody, RecursiveMutex, Goto, At, Moves, AppLock,
           HeapLock, HeapUnlock, Call, CallUnlessIn, Return, CallFromScript,
           Abort, NotifyAll, NotifyOne, Remote, EndIteration, Accept, CanLock,
           control, flags, life, sync
<1>1. ASSUME NEW t \in Threads, AnyThread(t)
     PROVE  DuktInv'
  <2>1. CASE SetAppState(t)  BY <2>1 DEF SetAppState
  <2>2. CASE WriteState(t)  BY <2>2 DEF WriteState
  <2>3. CASE Wake(t)  BY <2>3 DEF Wake
  <2>4. CASE Again(t)  BY <2>4 DEF Again
  <2>5. CASE UpdateClient(t)  BY <2>5 DEF UpdateClient
  <2>6. CASE JsonLock(t)  BY <2>6 DEF JsonLock
  <2>7. CASE Json(t)  BY <2>7 DEF Json
  <2>8. CASE Send(t)  BY <2>8 DEF Send
  <2>9. CASE RequestExit(t)  BY <2>9 DEF RequestExit
  <2>10. CASE NotifyExit(t)  BY <2>10 DEF NotifyExit
  <2>11. CASE SetResponse(t)
    <3>1. /\ At(t, "set_response") /\ Return(t)
          /\ UNCHANGED <<control, flags, life, sync, manager>>
      BY <2>11 DEF SetResponse
    <3> QED  BY <3>1
  <2>12. CASE Die(t)
    <3>1. Abort  BY <2>12 DEF Die
    <3> QED  BY <3>1
  <2> QED  BY <1>1, <2>1, <2>2, <2>3, <2>4, <2>5, <2>6, <2>7, <2>8, <2>9,
           <2>10, <2>11, <2>12
           DEF AnyThread, UpdateAppState
<1>2. CASE InitThread
  <2>1. CASE LockApp  BY <2>1 DEF LockApp
  <2>2. CASE LockDukt  BY <2>2 DEF LockDukt
  <2>3. CASE EvalMain  BY <2>3 DEF EvalMain
  <2>4. CASE Spawn  BY <2>4 DEF Spawn
  <2>5. CASE Describe  BY <2>5 DEF Describe
  <2>6. CASE AppExists  BY <2>6 DEF AppExists
  <2>7. CASE RegisterApp  BY <2>7 DEF RegisterApp
  <2>8. CASE InstantiatePause  BY <2>8 DEF InstantiatePause
  <2>9. CASE InstantiateStart  BY <2>9 DEF InstantiateStart
  <2>10. CASE InstantiateEnd  BY <2>10 DEF InstantiateEnd
  <2> QED  BY <1>2, <1>1, <2>1, <2>2, <2>3, <2>4, <2>5, <2>6, <2>7, <2>8, <2>9,
           <2>10
           DEF InitThread, Threads
<1>3. CASE LoopThread
  <2>1. CASE Run  BY <2>1 DEF Run
  <2>2. CASE RunLock  BY <2>2 DEF RunLock
  <2>3. CASE LoopEnter  BY <2>3 DEF LoopEnter
  <2>4. CASE LoopTop  BY <2>4 DEF LoopTop, StopRequested
  <2>5. CASE ParkedCheck  BY <2>5 DEF ParkedCheck, StopRequested, Unpark
  <2>6. CASE ParkedBlock  BY <2>6 DEF ParkedBlock
  <2>7. CASE ParkedWoken  BY <2>7 DEF ParkedWoken
  <2>8. CASE ParkedTimeout  BY <2>8 DEF ParkedTimeout
  <2>9. CASE Dispatch  BY <2>9 DEF Dispatch
  <2>10. CASE Dispatched  BY <2>10 DEF Dispatched
  <2>11. CASE WaitCheck  BY <2>11 DEF WaitCheck, StopRequested
  <2>12. CASE WaitBlock  BY <2>12 DEF WaitBlock
  <2>13. CASE WaitWoken  BY <2>13 DEF WaitWoken
  <2>14. CASE WaitTimeout  BY <2>14 DEF WaitTimeout, StopRequested
  <2>15. CASE LoopPop  BY <2>15 DEF LoopPop
  <2>16. CASE Terminate  BY <2>16 DEF Terminate
  <2>17. CASE Terminated  BY <2>17 DEF Terminated
  <2>18. CASE InterruptPause  BY <2>18 DEF InterruptPause
  <2>19. CASE InterruptUnregister  BY <2>19 DEF InterruptUnregister
  <2>20. CASE SetReady  BY <2>20 DEF SetReady
  <2>21. CASE CrashState  BY <2>21 DEF CrashState
  <2>22. CASE CrashDestroy  BY <2>22 DEF CrashDestroy
  <2> QED  BY <1>3, <1>1, <2>1, <2>2, <2>3, <2>4, <2>5, <2>6, <2>7, <2>8, <2>9,
           <2>10, <2>11, <2>12, <2>13, <2>14, <2>15, <2>16, <2>17, <2>18,
           <2>19, <2>20, <2>21, <2>22
           DEF LoopThread, Threads
<1>4. CASE HttpThread
  <2>1. CASE GetLock  BY <2>1 DEF GetLock
  <2>2. CASE GetRead  BY <2>2 DEF GetRead
  <2>3. CASE PutLock  BY <2>3 DEF PutLock
  <2>4. CASE PutDecode  BY <2>4 DEF PutDecode
  <2>5. CASE ApiLock  BY <2>5 DEF ApiLock
  <2>6. CASE ApiEval  BY <2>6 DEF ApiEval
  <2>7. CASE ApiEnd  BY <2>7 DEF ApiEnd
  <2>8. CASE DeleteLock  BY <2>8 DEF DeleteLock
  <2>9. CASE DeletePause  BY <2>9 DEF DeletePause
  <2>10. CASE DeleteUnregister  BY <2>10 DEF DeleteUnregister
  <2>11. CASE ShutdownUnregister  BY <2>11 DEF ShutdownUnregister
  <2>12. CASE ExitLock  BY <2>12 DEF ExitLock
  <2>13. CASE ExitRequest  BY <2>13 DEF ExitRequest
  <2>14. CASE ExitNotifyAll  BY <2>14 DEF ExitNotifyAll
  <2>15. CASE ReadyCheck  BY <2>15 DEF ReadyCheck
  <2>16. CASE ReadyBlock  BY <2>16 DEF ReadyBlock
  <2>17. CASE ReadyWoken  BY <2>17 DEF ReadyWoken
  <2>18. CASE ReadyTimeout  BY <2>18 DEF ReadyTimeout
  <2>19. CASE Join  BY <2>19 DEF Join
  <2>20. CASE DeleteLoop  BY <2>20 DEF DeleteLoop
  <2>21. CASE Erase  BY <2>21 DEF Erase
  <2>22. CASE DestroyLock  BY <2>22 DEF DestroyLock
  <2>23. CASE Destroy  BY <2>23 DEF Destroy
  <2>24. CASE AnswerDeleted  BY <2>24 DEF AnswerDeleted
  <2>25. CASE ServerStops  BY <2>25 DEF ServerStops
  <2>26. CASE MainExits  BY <2>26 DEF MainExits
  <2> QED  BY <1>4, <1>1, <2>1, <2>2, <2>3, <2>4, <2>5, <2>6, <2>7, <2>8, <2>9,
           <2>10, <2>11, <2>12, <2>13, <2>14, <2>15, <2>16, <2>17, <2>18,
           <2>19, <2>20, <2>21, <2>22, <2>23, <2>24, <2>25, <2>26
           DEF HttpThread, Threads
<1>5. CASE NewRequest
  <2>1. CASE Get  BY <2>1 DEF Get
  <2>2. CASE Put  BY <2>2 DEF Put
  <2>3. CASE Api  BY <2>3 DEF Api
  <2>4. CASE Delete  BY <2>4 DEF Delete
  <2>5. CASE Reload  BY <2>5 DEF Reload
  <2> QED  BY <1>5, <2>1, <2>2, <2>3, <2>4, <2>5
           DEF NewRequest
<1>6. CASE Sigint  BY <1>6 DEF Sigint
<1> QED  BY <1>1, <1>2, <1>3, <1>4, <1>5, <1>6 DEF Next

-----------------------------------------------------------------------------
(* The invariant, and what follows from it                                  *)

LEMMA LockInit == Init => LockInv
<1> SUFFICES ASSUME Init PROVE LockInv
  OBVIOUS
<1> USE DEF Init, Threads, NoFrame, FrameOf, Free, Nobody, Place, CallLabels
<1>1. FlagsOK /\ SyncOK
  BY DEF FlagsOK, SyncOK, States, RecursiveMutex
<1>2. pc \in [Threads -> Labels \cup CallLabels]
  BY DEF Labels, HttpLabels, StartLabels, RunLabels
<1>3. frame \in [Threads -> Frames]
  BY MaxNestAssumption DEF Frames, States
<1>4. Flow
  BY DEF Flow, HttpFlow, InitFlow, LoopFlow, HttpLabels, StartLabels,
         RunLabels, UpdateLabels, ScriptLabels
<1>5. Unborn /\ Owes /\ AppInv /\ CvInv
  BY DEF Unborn, Owes, AppInv, CvInv
<1>6. DuktInv
  BY DEF DuktInv, DuktInit, DuktHttp, DuktLoop, InitDuktPlaces,
         InitAppPlaces, HttpDuktLabels, LoopMustPlaces, ScriptLabels
<1> QED  BY <1>1, <1>2, <1>3, <1>4, <1>5, <1>6 DEF LockInv, TypeOK

LEMMA LockNext == LockInv /\ [Next]_vars => LockInv'
<1>1. ASSUME LockInv, Next  PROVE LockInv'
  <2>1. TypeOK /\ Flow /\ Unborn /\ Owes /\ CvInv
    BY <1>1 DEF LockInv
  <2>2. TypeOK'
    BY <1>1, <2>1, FlagsStep, SyncStep, PcStep, FrameStep DEF TypeOK
  <2>3. Flow' /\ Unborn' /\ Owes'
    BY <1>1, <2>1, FlowStep
  <2>4. AppInv' /\ CvInv' /\ DuktInv'
    BY <1>1, AppStep, DuktStep
  <2> QED  BY <2>2, <2>3, <2>4 DEF LockInv
<1>2. ASSUME LockInv, UNCHANGED vars  PROVE LockInv'
  <2> USE <1>2 DEF LockInv, vars, control, flags, life, sync
  <2>1. TypeOK'  BY DEF TypeOK, FlagsOK, SyncOK
  <2>2. Flow' /\ Unborn' /\ Owes' /\ CvInv'
    BY DEF Flow, HttpFlow, InitFlow, LoopFlow, Unborn, Place, Owes, CvInv
  <2>3. AppInv' /\ DuktInv'
    BY DEF AppInv, DuktInv, DuktInit, DuktHttp, DuktLoop, LoopMost, Leaks,
           Json1, Place
  <2> QED  BY <2>1, <2>2, <2>3
<1> QED  BY <1>1, <1>2

\* The mutexes are locked and unlocked in the pattern LockInv describes, in
\* every execution, whatever the clients ask and the scripts do.
THEOREM LockDiscipline == Spec => []LockInv
BY LockInit, LockNext, PTL DEF Spec

\* Type correctness; with it no thread ever jumps to a label of another.
THEOREM TypeCorrect == Spec => []TypeOK
<1>1. LockInv => TypeOK  BY DEF LockInv
<1> QED  BY <1>1, LockDiscipline, PTL

\* Timer callbacks run with every other thread outside the heap, although the
\* event loop gives the mutex back by hand in the middle of its iterations
\* (custom_eventloop.cpp:88, 125).
THEOREM CallbacksAloneAlways == Spec => []CallbacksAlone
<1>1. LockInv => CallbacksAlone
  <2> SUFFICES ASSUME LockInv, pc["loop"] = "dispatch",
                      NEW t \in Threads \ {"loop"}, InHeap(t)
               PROVE  FALSE
    BY DEF CallbacksAlone
  <2> USE DEF LockInv, Flow, Place, DuktInv
  <2>1. dukt.owner = "loop"
    BY DEF DuktLoop, LoopMustPlaces, CallLabels
  <2>2. CASE t = "http"
    BY <2>1, <2>2 DEF InHeap, HeapLabels, HttpFlow, HttpLabels, CallLabels,
                      DuktHttp, HttpDuktLabels, ScriptLabels
  <2>3. CASE t = "init"
    <3>1. Place("init") \in InitDuktPlaces
      BY <2>3 DEF InHeap, HeapLabels, InitFlow, StartLabels, CallLabels,
                  UpdateLabels, ScriptLabels, InitDuktPlaces, InitAppPlaces
    <3> QED  BY <2>1, <3>1 DEF DuktInit
  <2> QED  BY <2>2, <2>3 DEF Threads
<1> QED  BY <1>1, LockDiscipline, PTL

\* A thread that is done holds nothing: each unlock() that comes early is made
\* up for by one that is ignored, except after a longjmp.
THEOREM FinishedHoldsNothingAlways == Spec => []FinishedHoldsNothing
<1>1. LockInv => FinishedHoldsNothing
  <2> SUFFICES ASSUME LockInv, NEW t \in Threads, pc[t] \in {"idle", "ended"}
               PROVE  /\ app.owner # t /\ cv # t
                      /\ dukt.owner = t => ~ctx /\ "skipped" \in Unwinding
    BY DEF FinishedHoldsNothing
  <2> USE DEF LockInv
  <2>1. Place(t) = pc[t]  BY DEF Place, CallLabels
  <2>2. cv # t  BY DEF CvInv
  <2>3. app.owner # t
    BY <2>1 DEF AppInv, Free, Nobody, Threads, InitAppPlaces, HttpAppPlaces
  <2>4. ASSUME dukt.owner = t  PROVE ~ctx /\ "skipped" \in Unwinding
    <3>1. t # "http"
      BY <2>4 DEF DuktInv, DuktHttp, HttpDuktLabels, ScriptLabels
    <3>2. t # "init"
      BY <2>1, <2>4 DEF DuktInv, DuktInit, InitDuktPlaces, InitAppPlaces
    <3>3. t = "loop"  BY <3>1, <3>2 DEF Threads
    <3>4. pc["loop"] = "ended"
      BY <3>3 DEF Flow, LoopFlow, RunLabels, LoopLabels, CallLabels
    <3>5. ~(dukt.count <= LoopMost + Json1("loop"))
      BY <2>1, <2>4, <3>3, <3>4
      DEF DuktInv, LoopMost, Json1, LoopTwicePlaces, LoopOncePlaces, TypeOK,
          SyncOK, RecursiveMutex, Threads, Nobody
    <3>6. Leaks  BY <2>4, <3>3, <3>5 DEF DuktInv, DuktLoop
    <3> QED  BY <2>1, <3>3, <3>4, <3>6 DEF Leaks
  <2> QED  BY <2>2, <2>3, <2>4
<1> QED  BY <1>1, LockDiscipline, PTL
====
