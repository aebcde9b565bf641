-------------------------- MODULE AppDeletionProofs --------------------------
(* What DELETE and a reload may rely on in AppLifecycle, when they come     *)
(* after the application has started: the event loop thread has ended when  *)
(* the heap is destroyed, and, if no script fails outside a protected call, *)
(* "deleted" means gone and nothing brings the server down.                 *)
EXTENDS AppLifecycleProofs

\* the labels of the http thread after the join
Late == {"delete_loop", "erase", "destroy_lock", "destroy", "deleted"}
Idle == {"idle", "main_join"}
Over == {"unborn", "ended"}

\* Requests wait for instantiate().
Waits == pc["init"] # "ended" => pc["http"] \in Idle

\* A thread that runs can be joined, and has been before the deletion goes on.
Joins == /\ pc["loop"] \notin Over => joinable
         /\ pc["http"] \in Late => pc["loop"] \in Over
         /\ pc["http"] \in {"destroy_lock", "destroy"} => ctx

DeletionInv == Waits /\ Joins

\* The event loop thread does not crash.
NoCrash == /\ pc["loop"] \notin {"crash_state", "crash_destroy"}
           /\ frame["loop"].back # "crash_destroy"

\* What is taken away, and in which order.
Dismantled ==
    /\ ~loop => pc["http"] \in Late \cup Idle /\ pc["http"] # "delete_loop"
    /\ ~inReg => pc["http"] \in {"destroy_lock", "destroy", "deleted"} \cup Idle
    /\ ~ctx => pc["http"] \in {"deleted"} \cup Idle
    /\ ~ctx \/ (~loop /\ pc["http"] # "erase") => ~inReg
    /\ pc["http"] \in {"destroy_lock", "destroy", "deleted"} => ~inReg
    /\ pc["http"] = "deleted" => ~ctx
    /\ ~loop \/ ~inReg \/ ~ctx => pc["init"] = "ended" /\ pc["loop"] \in Over

GoneInv == DeletionInv /\ NoCrash /\ Dismantled /\ proc # "aborted"

-----------------------------------------------------------------------------
(* Which steps move which thread                                            *)

\* A call of updateAppState(), requestExit() or setResponseObj().
LEMMA CallSteps ==
    ASSUME TypeOK, NEW t \in Threads, AnyThread(t)
    PROVE  /\ \A u \in Threads : u # t => pc'[u] = pc[u] /\ frame'[u] = frame[u]
           /\ UNCHANGED life
           /\ \/ /\ pc[t] \in CallLabels
                 /\ pc'[t] \in CallLabels \cup {frame[t].back}
                 /\ frame'[t].back \in {frame[t].back, "none"}
                 /\ UNCHANGED proc
              \/ Die(t) /\ UNCHANGED <<pc, frame>>
<1> USE DEF TypeOK, Frames, Goto, At, Moves, AppLock, HeapLock, HeapUnlock,
           Call, CallUnlessIn, Return, CallFromScript, EndIteration, CanLock,
           control, flags, life, sync, NoFrame, FrameOf, CallLabels
<1>1. CASE SetAppState(t) BY <1>1 DEF SetAppState
<1>2. CASE WriteState(t) BY <1>2 DEF WriteState
<1>3. CASE Wake(t) BY <1>3 DEF Wake
<1>4. CASE Again(t) BY <1>4 DEF Again
<1>5. CASE UpdateClient(t) BY <1>5 DEF UpdateClient
<1>6. CASE JsonLock(t) BY <1>6 DEF JsonLock
<1>7. CASE Json(t) BY <1>7 DEF Json
<1>8. CASE Send(t) BY <1>8 DEF Send
<1>9. CASE RequestExit(t) BY <1>9 DEF RequestExit
<1>10. CASE NotifyExit(t) BY <1>10 DEF NotifyExit
<1>11. CASE SetResponse(t) BY <1>11 DEF SetResponse
<1>12. CASE Die(t) BY <1>12 DEF Die, Abort
<1> QED BY <1>1, <1>2, <1>3, <1>4, <1>5, <1>6, <1>7, <1>8, <1>9, <1>10, <1>11,
   <1>12 DEF AnyThread, UpdateAppState

LEMMA LoopSteps ==
    ASSUME TypeOK, LoopThread
    PROVE  /\ pc'["http"] = pc["http"] /\ pc'["init"] = pc["init"]
           /\ UNCHANGED <<joinable, inReg, loop>>
           /\ pc' = pc \/ pc["loop"] \notin Over
           /\ ctx' = ctx \/ pc["loop"] = "crash_destroy"
           /\ proc' \in {proc, "exited"} \/ Die("loop")
<1> USE DEF TypeOK, Threads, Over, Goto, At, Moves, AppLock, HeapLock,
           HeapUnlock, Call, CallUnlessIn, Return, CallFromScript,
           EndIteration, CanLock, control, flags, life, sync
<1>1. CASE Run BY <1>1 DEF Run
<1>2. CASE RunLock BY <1>2 DEF RunLock
<1>3. CASE LoopEnter BY <1>3 DEF LoopEnter
<1>4. CASE LoopTop BY <1>4 DEF LoopTop
<1>5. CASE ParkedCheck BY <1>5 DEF ParkedCheck
<1>6. CASE ParkedBlock BY <1>6 DEF ParkedBlock
<1>7. CASE ParkedWoken BY <1>7 DEF ParkedWoken
<1>8. CASE ParkedTimeout BY <1>8 DEF ParkedTimeout
<1>9. CASE Dispatch BY <1>9 DEF Dispatch
<1>10. CASE Dispatched BY <1>10 DEF Dispatched
<1>11. CASE WaitCheck BY <1>11 DEF WaitCheck
<1>12. CASE WaitBlock BY <1>12 DEF WaitBlock
<1>13. CASE WaitWoken BY <1>13 DEF WaitWoken
<1>14. CASE WaitTimeout BY <1>14 DEF WaitTimeout
<1>15. CASE LoopPop BY <1>15 DEF LoopPop
<1>16. CASE Terminate BY <1>16 DEF Terminate
<1>17. CASE Terminated BY <1>17 DEF Terminated
<1>18. CASE InterruptPause BY <1>18 DEF InterruptPause
<1>19. CASE InterruptUnregister BY <1>19 DEF InterruptUnregister
<1>20. CASE SetReady BY <1>20 DEF SetReady
<1>21. CASE CrashState BY <1>21 DEF CrashState
<1>22. CASE CrashDestroy BY <1>22 DEF CrashDestroy
<1>23. CASE AnyThread("loop") BY <1>23, CallSteps DEF CallLabels
<1> QED BY <1>1, <1>2, <1>3, <1>4, <1>5, <1>6, <1>7, <1>8, <1>9, <1>10, <1>11,
   <1>12, <1>13, <1>14, <1>15, <1>16, <1>17, <1>18, <1>19, <1>20, <1>21,
   <1>22, <1>23 DEF LoopThread

LEMMA InitSteps ==
    ASSUME TypeOK, InitThread
    PROVE  /\ pc'["http"] = pc["http"] /\ frame'["loop"] = frame["loop"]
           /\ UNCHANGED <<inReg, loop, ctx>>
           /\ proc' \in {proc, "exited"} \/ Die("init")
           /\ pc' = pc \/ pc["init"] # "ended"
           /\ \/ pc'["loop"] = pc["loop"] /\ UNCHANGED joinable
              \/ pc["init"] = "spawn" /\ pc'["loop"] = "run" /\ joinable'
<1> USE DEF TypeOK, Threads, Goto, At, Moves, AppLock, HeapLock, HeapUnlock,
           Call, CallUnlessIn, Return, CallFromScript, EndIteration, CanLock,
           control, flags, life, sync
<1>1. CASE LockApp BY <1>1 DEF LockApp
<1>2. CASE LockDukt BY <1>2 DEF LockDukt
<1>3. CASE EvalMain BY <1>3 DEF EvalMain
<1>4. CASE Spawn BY <1>4 DEF Spawn
<1>5. CASE Describe BY <1>5 DEF Describe
<1>6. CASE AppExists BY <1>6 DEF AppExists
<1>7. CASE RegisterApp BY <1>7 DEF RegisterApp
<1>8. CASE InstantiatePause BY <1>8 DEF InstantiatePause
<1>9. CASE InstantiateStart BY <1>9 DEF InstantiateStart
<1>10. CASE InstantiateEnd BY <1>10 DEF InstantiateEnd
<1>11. CASE AnyThread("init") BY <1>11, CallSteps DEF CallLabels
<1> QED BY <1>1, <1>2, <1>3, <1>4, <1>5, <1>6, <1>7, <1>8, <1>9, <1>10, <1>11
   DEF InitThread

\* Steps of the http thread before the join, or after a deletion.
LEMMA HttpSteps ==
    ASSUME TypeOK, Flow, HttpThread
    PROVE  /\ pc'["init"] = pc["init"] /\ pc'["loop"] = pc["loop"]
           /\ frame'["loop"] = frame["loop"]
           /\ proc' \in {proc, "exited"} \/ Die("http")
           /\ \/ Join \/ DeleteLoop \/ Erase \/ DestroyLock \/ Destroy
              \/ AnswerDeleted
              \/ /\ UNCHANGED life
                 /\ pc' = pc \/ (pc["http"] \notin Idle \cup Late
                                 /\ pc'["http"] \notin Late)
                    \/ (pc["http"] = "idle" /\ pc'["http"] = "main_join")
<1> USE DEF TypeOK, Threads, Idle, Late, Goto, At, Moves, AppLock, HeapLock,
           HeapUnlock, Call, CallUnlessIn, Return, CallFromScript,
           EndIteration, CanLock, control, flags, life, sync
<1>1. CASE GetLock BY <1>1 DEF GetLock
<1>2. CASE GetRead BY <1>2 DEF GetRead
<1>3. CASE PutLock BY <1>3 DEF PutLock
<1>4. CASE PutDecode BY <1>4 DEF PutDecode, Flow, HttpFlow
<1>5. CASE ApiLock BY <1>5 DEF ApiLock
<1>6. CASE ApiEval BY <1>6 DEF ApiEval
<1>7. CASE ApiEnd BY <1>7 DEF ApiEnd
<1>8. CASE DeleteLock BY <1>8 DEF DeleteLock
<1>9. CASE DeletePause BY <1>9 DEF DeletePause
<1>10. CASE DeleteUnregister BY <1>10 DEF DeleteUnregister
<1>11. CASE ShutdownUnregister BY <1>11 DEF ShutdownUnregister
<1>12. CASE ExitLock BY <1>12 DEF ExitLock
<1>13. CASE ExitRequest BY <1>13 DEF ExitRequest
<1>14. CASE ExitNotifyAll BY <1>14 DEF ExitNotifyAll
<1>15. CASE ReadyCheck BY <1>15 DEF ReadyCheck
<1>16. CASE ReadyBlock BY <1>16 DEF ReadyBlock
<1>17. CASE ReadyWoken BY <1>17 DEF ReadyWoken
<1>18. CASE ReadyTimeout BY <1>18 DEF ReadyTimeout
<1>19. CASE Join BY <1>19 DEF Join
<1>20. CASE DeleteLoop BY <1>20 DEF DeleteLoop
<1>21. CASE Erase BY <1>21 DEF Erase
<1>22. CASE DestroyLock BY <1>22 DEF DestroyLock
<1>23. CASE Destroy BY <1>23 DEF Destroy
<1>24. CASE AnswerDeleted BY <1>24 DEF AnswerDeleted
<1>25. CASE ServerStops BY <1>25 DEF ServerStops
<1>26. CASE MainExits BY <1>26 DEF MainExits
<1>27. CASE AnyThread("http")
  <2>1. pc["http"] \in CallLabels =>
            frame["http"].back \notin Late \cup {"main_join"}
    BY DEF Flow, HttpFlow, CallLabels, UpdateLabels, ScriptLabels
  <2> QED BY <1>27, <2>1, CallSteps DEF CallLabels
<1> QED BY <1>1, <1>2, <1>3, <1>4, <1>5, <1>6, <1>7, <1>8, <1>9, <1>10, <1>11,
   <1>12, <1>13, <1>14, <1>15, <1>16, <1>17, <1>18, <1>19, <1>20, <1>21,
   <1>22, <1>23, <1>24, <1>25, <1>26, <1>27 DEF HttpThread

LEMMA RequestSteps ==
    ASSUME TypeOK, Settled, NewRequest
    PROVE  /\ pc["http"] = "idle" /\ pc["init"] = "ended" /\ inReg
           /\ pc'["init"] = pc["init"] /\ pc'["loop"] = pc["loop"]
           /\ pc'["http"] \notin Idle \cup Late /\ UNCHANGED life
           /\ frame'["loop"] = frame["loop"] /\ UNCHANGED proc
BY DEF TypeOK, Threads, Idle, Late, NewRequest, Get, Put, Api, Delete, Reload,
   Accept, Moves, Goto, At, control, flags, life, sync

LEMMA SigintSteps ==
    ASSUME Sigint
    PROVE  UNCHANGED <<pc, frame, life, proc>>
BY DEF Sigint

\* Only a fatal error of a script takes the event loop thread to the crash.
LEMMA CallsCrash ==
    ASSUME TypeOK, Flow, NoCrash, AnyThread("loop")
    PROVE  NoCrash'
<1>1. "loop" \in Threads BY DEF Threads
<1>2. \/ /\ pc["loop"] \in CallLabels
         /\ pc'["loop"] \in CallLabels \cup {frame["loop"].back}
         /\ frame'["loop"].back \in {frame["loop"].back, "none"}
      \/ UNCHANGED <<pc, frame>>
  BY <1>1, CallSteps
<1> QED BY <1>2 DEF NoCrash, CallLabels, Flow, LoopFlow, UpdateLabels,
                    ScriptLabels

LEMMA LoopCrash ==
    ASSUME "fatal" \notin Scripts, TypeOK, Flow, NoCrash, LoopThread
    PROVE  NoCrash'
<1> USE DEF TypeOK, Threads, NoCrash, NoFrame, FrameOf, Goto, At, Moves,
           AppLock, HeapLock, HeapUnlock, Call, CallUnlessIn, Return,
           CallFromScript, EndIteration, CanLock, control, flags, life, sync
<1>1. CASE Run BY <1>1 DEF Run
<1>2. CASE RunLock BY <1>2 DEF RunLock
<1>3. CASE LoopEnter BY <1>3 DEF LoopEnter
<1>4. CASE LoopTop BY <1>4 DEF LoopTop
<1>5. CASE ParkedCheck BY <1>5 DEF ParkedCheck
<1>6. CASE ParkedBlock BY <1>6 DEF ParkedBlock
<1>7. CASE ParkedWoken BY <1>7 DEF ParkedWoken
<1>8. CASE ParkedTimeout BY <1>8 DEF ParkedTimeout
<1>9. CASE Dispatch BY <1>9 DEF Dispatch
<1>10. CASE Dispatched BY <1>10 DEF Dispatched
<1>11. CASE WaitCheck BY <1>11 DEF WaitCheck
<1>12. CASE WaitBlock BY <1>12 DEF WaitBlock
<1>13. CASE WaitWoken BY <1>13 DEF WaitWoken
<1>14. CASE WaitTimeout BY <1>14 DEF WaitTimeout
<1>15. CASE LoopPop BY <1>15 DEF LoopPop
<1>16. CASE Terminate BY <1>16 DEF Terminate
<1>17. CASE Terminated BY <1>17 DEF Terminated
<1>18. CASE InterruptPause BY <1>18 DEF InterruptPause
<1>19. CASE InterruptUnregister BY <1>19 DEF InterruptUnregister
<1>20. CASE SetReady BY <1>20 DEF SetReady
<1>21. CASE CrashState BY <1>21 DEF CrashState
<1>22. CASE CrashDestroy BY <1>22 DEF CrashDestroy
<1>23. CASE AnyThread("loop") BY <1>23, CallsCrash
<1> QED BY <1>1, <1>2, <1>3, <1>4, <1>5, <1>6, <1>7, <1>8, <1>9, <1>10, <1>11,
   <1>12, <1>13, <1>14, <1>15, <1>16, <1>17, <1>18, <1>19, <1>20, <1>21,
   <1>22, <1>23 DEF LoopThread

-----------------------------------------------------------------------------
(* The invariants                                                           *)

LEMMA DeletionInit == Init => DeletionInv
BY DEF Init, DeletionInv, Waits, Joins, Idle, Over, Late

LEMMA DeletionNext ==
    ASSUME Settled, TypeOK, Flow, DeletionInv, [Next]_vars
    PROVE  DeletionInv'
<1> USE DEF DeletionInv, Waits, Joins, Idle, Over, Late
<1>1. CASE InitThread BY <1>1, InitSteps
<1>2. CASE LoopThread BY <1>2, LoopSteps
<1>3. CASE HttpThread
  <2> DEFINE Other == ~(Join \/ DeleteLoop \/ Erase \/ DestroyLock \/ Destroy
                        \/ AnswerDeleted)
  <2> USE DEF TypeOK, Threads, Goto, At, HeapLock
  <2>1. CASE Join BY <1>3, <2>1, HttpSteps DEF Join
  <2>2. CASE DeleteLoop BY <1>3, <2>2, HttpSteps DEF DeleteLoop, life
  <2>3. CASE Erase BY <1>3, <2>3, HttpSteps DEF Erase, life
  <2>4. CASE DestroyLock BY <1>3, <2>4, HttpSteps DEF DestroyLock, life
  <2>5. CASE Destroy BY <1>3, <2>5, HttpSteps DEF Destroy, life
  <2>6. CASE AnswerDeleted BY <1>3, <2>6, HttpSteps DEF AnswerDeleted, life
  <2>7. CASE Other BY <1>3, <2>7, HttpSteps DEF life
  <2> QED BY <2>1, <2>2, <2>3, <2>4, <2>5, <2>6, <2>7
<1>4. CASE NewRequest BY <1>4, RequestSteps DEF life
<1>5. CASE Sigint BY <1>5, SigintSteps DEF life
<1>6. CASE UNCHANGED vars BY <1>6 DEF vars, life
<1> QED BY <1>1, <1>2, <1>3, <1>4, <1>5, <1>6 DEF Next

LEMMA GoneInit == Init => GoneInv
<1>1. Init => NoCrash /\ Dismantled /\ proc # "aborted"
  BY DEF Init, NoCrash, Dismantled, Idle, Over, Late, NoFrame, FrameOf, Threads
<1> QED BY <1>1, DeletionInit DEF GoneInv

\* What a thread uses is still there.
LEMMA NobodyDies ==
    ASSUME Flow, Dismantled, NEW t \in Threads, Die(t)
    PROVE  FALSE
<1> USE DEF Dismantled, Die, InHeap, HeapLabels, Idle, Over, Late
<1>1. CASE t = "http"
  BY <1>1 DEF Flow, HttpFlow, HttpLabels, CallLabels
<1>2. CASE t = "init"
  BY <1>2 DEF Flow, InitFlow, StartLabels, CallLabels
<1>3. CASE t = "loop"
  BY <1>3
<1> QED BY <1>1, <1>2, <1>3 DEF Threads

LEMMA GoneNext ==
    ASSUME Settled, "fatal" \notin Scripts, TypeOK, Flow, GoneInv, [Next]_vars
    PROVE  GoneInv'
<1> USE DEF GoneInv
<1>1. DeletionInv' BY DeletionNext
<1>2. NoCrash' /\ Dismantled' /\ proc' # "aborted"
  <2> "init" \in Threads /\ "loop" \in Threads /\ "http" \in Threads
    BY DEF Threads
  <2>1. CASE InitThread
    <3>1. NoCrash' BY <2>1, InitSteps DEF NoCrash
    <3>2. proc' # "aborted" BY <2>1, InitSteps, NobodyDies
    <3>3. Dismantled' BY <2>1, InitSteps DEF Dismantled
    <3> QED BY <3>1, <3>2, <3>3
  <2>2. CASE LoopThread
    <3>1. NoCrash' BY <2>2, LoopCrash
    <3>2. proc' # "aborted" BY <2>2, LoopSteps, NobodyDies
    <3>3. Dismantled' BY <2>2, LoopSteps DEF Dismantled, NoCrash
    <3> QED BY <3>1, <3>2, <3>3
  <2>3. CASE HttpThread
    <3>1. NoCrash' BY <2>3, HttpSteps DEF NoCrash
    <3>2. proc' # "aborted" BY <2>3, HttpSteps, NobodyDies
    <3>3. Dismantled'
      <4> DEFINE Other == ~(Join \/ DeleteLoop \/ Erase \/ DestroyLock \/ Destroy
                            \/ AnswerDeleted)
      <4> USE DEF TypeOK, Threads, Goto, At, HeapLock, Dismantled, DeletionInv,
                  Waits, Joins, Idle, Over, Late
      <4>1. CASE Join BY <2>3, <4>1, HttpSteps DEF Join
      <4>2. CASE DeleteLoop BY <2>3, <4>2, HttpSteps DEF DeleteLoop, life
      <4>3. CASE Erase BY <2>3, <4>3, HttpSteps DEF Erase, life
      <4>4. CASE DestroyLock BY <2>3, <4>4, HttpSteps DEF DestroyLock, life
      <4>5. CASE Destroy BY <2>3, <4>5, HttpSteps DEF Destroy, life
      <4>6. CASE AnswerDeleted
        BY <2>3, <4>6, HttpSteps DEF AnswerDeleted, life
      <4>7. CASE Other BY <2>3, <4>7, HttpSteps DEF life
      <4> QED BY <4>1, <4>2, <4>3, <4>4, <4>5, <4>6, <4>7
    <3> QED BY <3>1, <3>2, <3>3
  <2>4. CASE NewRequest
    BY <2>4, RequestSteps DEF life, NoCrash, Dismantled, Idle, Late
  <2>5. CASE Sigint BY <2>5, SigintSteps DEF life, NoCrash, Dismantled
  <2>6. CASE UNCHANGED vars BY <2>6 DEF vars, life, control, NoCrash, Dismantled
  <2> QED BY <2>1, <2>2, <2>3, <2>4, <2>5, <2>6 DEF Next
<1> QED BY <1>1, <1>2

-----------------------------------------------------------------------------
(* The theorems                                                             *)

\* When requests come after the application has started, and whatever its
\* scripts do, deleteApplication and shutdownApplication destroy the heap
\* (application.cpp:677-735) only when the thread that ran event callbacks in
\* it has ended, and only once: the join they make comes before, and no way
\* out of run() skips it.
THEOREM DestroyAfterLoopAlways ==
    ASSUME Settled
    PROVE  Spec => []DestroyAfterLoop
<1>1. Spec => []LockInv BY LockDiscipline
<1>2. LockInv => TypeOK /\ Flow BY DEF LockInv
<1>3. TypeOK /\ Flow /\ DeletionInv /\ [Next]_vars => DeletionInv'
  BY DeletionNext
<1>4. DeletionInv => DestroyAfterLoop
  BY DEF DeletionInv, Joins, DestroyAfterLoop, Late, Over, LoopLabels
<1> QED BY <1>1, <1>2, <1>3, <1>4, DeletionInit, PTL DEF Spec

LEMMA GoneAlways ==
    ASSUME Settled, "fatal" \notin Scripts
    PROVE  Spec => []GoneInv
<1>1. Spec => []LockInv BY LockDiscipline
<1>2. LockInv => TypeOK /\ Flow BY DEF LockInv
<1>3. TypeOK /\ Flow /\ GoneInv /\ [Next]_vars => GoneInv'
  BY GoneNext
<1> QED BY <1>1, <1>2, <1>3, GoneInit, PTL DEF Spec

\* When, moreover, no script fails outside a protected call, "deleted" means
\* that the registry entry, the heap and the thread are gone
\* (application.cpp:698-726).
THEOREM DeletedIsGoneAlways ==
    ASSUME Settled, "fatal" \notin Scripts
    PROVE  Spec => []DeletedIsGone
<1>1. GoneInv => DeletedIsGone
  BY DEF GoneInv, DeletionInv, Joins, Dismantled, DeletedIsGone, Late, Over
<1> QED BY <1>1, GoneAlways, PTL

\* Under the same conditions no thread uses a heap, an event loop or a registry
\* entry that a deletion or a reload has taken away (application.cpp:698-735),
\* whatever SIGINT and the RR manager do.
THEOREM ServerSurvivesAlways ==
    ASSUME Settled, "fatal" \notin Scripts
    PROVE  Spec => []ServerSurvives
<1>1. GoneInv => ServerSurvives BY DEF GoneInv, ServerSurvives
<1> QED BY <1>1, GoneAlways, PTL
=============================================================================
