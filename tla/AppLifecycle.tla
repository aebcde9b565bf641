---------------------------- MODULE AppLifecycle ----------------------------
(***************************************************************************)
(* The life of one JSApplication, from the moment its constructor has      *)
(* returned until it is deleted, as the three threads that share it see    *)
(* it:                                                                     *)
(*   "http"  the libwebsockets service thread, which runs every REST       *)
(*           handler (and main() after it, when the server stops);         *)
(*   "init"  js_instance_, which runs JSApplication::instantiate();        *)
(*   "loop"  ev_thread_, which runs JSApplication::run() and the event     *)
(*           loop inside it.                                               *)
(*                                                                         *)
(* A label of pc names the code a thread executes next. A step lies        *)
(* between two operations another thread can observe: the acquisition of a *)
(* mutex, a read or write of a shared field outside one, a notification.   *)
(* The static mutex is not modelled: only "http" takes it and keeps it.    *)
(***************************************************************************)
EXTENDS Locks

CONSTANTS
    Requests,   \* the operations a REST client asks for
    Scripts,    \* what the application's JavaScript may do
    Signals,    \* whether SIGINT may arrive
    Settled,    \* whether clients wait until the event loop is turning
    LossyRR,    \* whether a request to the RR manager may get lost
    Unwinding,  \* how a fatal JavaScript error leaves the C++ frames
    MaxNest     \* bound: updates of the manager one thread may have pending

Threads == {"http", "init", "loop"}
States  == {"initializing", "crashed", "running", "paused"}

ASSUME RequestsAssumption ==
    Requests \subseteq {"get", "api", "put", "delete", "reload"}
ASSUME ScriptsAssumption == Scripts \subseteq {"ok", "error", "late", "fatal"}
ASSUME FlagsAssumption ==
    Signals \in BOOLEAN /\ Settled \in BOOLEAN /\ LossyRR \in BOOLEAN
ASSUME UnwindingAssumption == Unwinding \subseteq {"unwound", "skipped"}
ASSUME MaxNestAssumption == MaxNest \in Nat \ {0}

VARIABLES
    proc,         \* the process: "up", "exited" or "aborted"
    interrupted,  \* the global flag set by sigint_handler
    pc, frame,    \* per thread: next label, and the call it is inside
    op,           \* which of deleteApplication/shutdownApplication runs
    appState, exitReq, ready,        \* app_state_, exit_requested_, is_ready_
    inReg, loop, ctx, joinable,      \* in applications_; eventloop_ and
                                     \* duk_context_ not null; ev_thread_
    app, dukt, cv, sleepers,         \* the three mutexes; waiters on evcv_
    manager                          \* the app's status at the RR manager

control == <<proc, interrupted, op>>
flags   == <<appState, exitReq, ready>>
life    == <<inReg, loop, ctx, joinable>>
sync    == <<app, dukt, cv, sleepers>>
vars    == <<control, pc, frame, flags, life, sync, manager>>

\* The frame of a call of updateAppState: the state asked for, how many
\* updates of the manager are still to be sent on the way out, whether
\* setAppState ends in a call of pause() or start(), and the label to go on
\* from. The same frame serves EventLoop.requestExit(), for its return.
FrameOf(s, owed, back) ==
    [target |-> s, owed |-> owed, tail |-> FALSE, back |-> back,
     payload |-> "none"]
NoFrame == FrameOf("initializing", 0, "none")

-----------------------------------------------------------------------------
(* Helpers                                                                 *)

Goto(t, l) == pc' = [pc EXCEPT ![t] = l]

At(t, l) == proc = "up" /\ pc[t] = l

\* a step that changes nothing but the label
Moves(t, l) == Goto(t, l) /\ UNCHANGED <<control, frame, flags, life, sync,
                                         manager>>

\* lock() of the app mutex and of the duktape mutex
AppLock(t, from, to) ==
    /\ At(t, from)
    /\ CanLock(app, t)
    /\ app' = Locked(app, t)
    /\ Goto(t, to)
    /\ UNCHANGED <<control, frame, flags, life, dukt, cv, sleepers, manager>>

HeapLock(t, from, to) ==
    /\ At(t, from)
    /\ CanLock(dukt, t)
    /\ dukt' = Locked(dukt, t)
    /\ Goto(t, to)
    /\ UNCHANGED <<control, frame, flags, life, app, cv, sleepers, manager>>

\* unlock() of the duktape mutex
HeapUnlock(t, to) ==
    /\ dukt' = Unlocked(dukt, t)
    /\ Goto(t, to)
    /\ UNCHANGED <<control, frame, flags, life, app, cv, sleepers, manager>>

\* updateAppState(s, update_client) with owed = 1 when update_client is set
Call(t, s, owed, back) ==
    /\ frame' = [frame EXCEPT ![t] = FrameOf(s, owed, back)]
    /\ Goto(t, "set_state")

\* pause() and start(): nothing to do when the state is already there
CallUnlessIn(t, s, back) ==
    \/ appState = s /\ Goto(t, back) /\ UNCHANGED frame
    \/ appState # s /\ Call(t, s, 1, back)

Return(t) ==
    /\ Goto(t, frame[t].back)
    /\ frame' = [frame EXCEPT ![t] = NoFrame]

\* a script calls f, "request_exit" or "set_response", and goes on from back
CallFromScript(t, f, back) ==
    /\ frame' = [frame EXCEPT ![t] = FrameOf("initializing", 0, back)]
    /\ Goto(t, f)

Abort == proc' = "aborted" /\ UNCHANGED <<interrupted, op, pc, frame, flags,
                                          life, sync, manager>>

NotifyAll == sleepers' = {}
NotifyOne == IF sleepers = {} THEN UNCHANGED sleepers
             ELSE \E w \in sleepers : sleepers' = sleepers \ {w}

\* a request to the RR manager reaches it or not
Remote(next) == \/ manager' = next
                \/ LossyRR /\ UNCHANGED manager

\* threads inside the Duktape heap: evaluating a script or building JSON
\* (a script asking for an exit or setting a response is still inside)
HeapLabels == {"json", "describe", "get_read", "put_decode", "api_eval",
               "set_response", "eval_main", "dispatch", "terminate",
               "crash_destroy", "destroy", "request_exit", "exit_notify"}
InHeap(t) == pc[t] \in HeapLabels

\* labels of run() from the first turn of the loop on
LoopLabels == {"loop_top", "parked_check", "parked_block", "parked_wait",
               "dispatch", "dispatched", "wait_check", "wait_block", "wait",
               "loop_pop", "terminate"}

-----------------------------------------------------------------------------
(* updateAppState(), setAppState(), pause(), start(): any thread           *)

\* Mutant: in the trivial case the caller does not inform the manager either.
SetAppStateSilent(t) ==
    LET s == frame[t].target
    IN  /\ At(t, "set_state")
        /\ IF s = appState
           THEN Return(t)
           ELSE /\ Goto(t, "write_state")
                /\ frame' = [frame EXCEPT ![t].tail =
                      {s, appState} = {"running", "paused"}]
        /\ UNCHANGED <<control, flags, life, sync, manager>>

\* The reads of app_state_ at the head of setAppState, outside any lock,
\* which decide the branch taken.
SetAppState(t) ==
    LET s == frame[t].target
    IN  /\ At(t, "set_state")
        /\ IF s = appState
           THEN Goto(t, "update") /\ UNCHANGED frame
           ELSE /\ Goto(t, "write_state")
                /\ frame' = [frame EXCEPT ![t].tail =
                      {s, appState} = {"running", "paused"}]
        /\ UNCHANGED <<control, flags, life, sync, manager>>

\* The write under the app mutex, and the unlock() that follows it in the
\* branches other than running -> paused: a level too many.
WriteState(t) ==
    LET s == frame[t].target
        pausing == frame[t].tail /\ s = "paused"
    IN  /\ At(t, "write_state")
        /\ CanLock(app, t)
        /\ appState' = s
        /\ app' = IF pausing THEN app ELSE Unlocked(app, t)
        /\ Goto(t, IF pausing THEN "again" ELSE "wake")
        /\ UNCHANGED <<control, frame, exitReq, ready, life, dukt, cv,
                       sleepers, manager>>

\* if(app_state_ == RUNNING) { getCVMutex().unlock(); notify_all(); }
Wake(t) ==
    /\ At(t, "wake")
    /\ IF appState = "running" THEN cv' = Nobody /\ NotifyAll
       ELSE UNCHANGED <<cv, sleepers>>
    /\ Goto(t, IF frame[t].tail THEN "again" ELSE "update")
    /\ UNCHANGED <<control, frame, flags, life, app, dukt, manager>>

\* return pause() / return start(): one more updateAppState(.., true) when
\* another thread has changed the state since the write
Again(t) ==
    /\ At(t, "again")
    /\ IF appState = frame[t].target
       THEN Goto(t, "update") /\ UNCHANGED frame
       ELSE /\ frame[t].owed < MaxNest
            /\ frame' = [frame EXCEPT ![t].owed = @ + 1]
            /\ Goto(t, "set_state")
    /\ UNCHANGED <<control, flags, life, sync, manager>>

\* the update_client half of updateAppState, once per call on the stack:
\* getAppAsJSON() first looks whether there is a heap
UpdateClient(t) ==
    /\ At(t, "update")
    /\ \/ frame[t].owed = 0 /\ Return(t)
       \/ /\ frame[t].owed # 0
          /\ Goto(t, IF ctx THEN "json_lock" ELSE "send")
          /\ UNCHANGED frame
    /\ UNCHANGED <<control, flags, life, sync, manager>>

JsonLock(t) == HeapLock(t, "json_lock", "json")

Json(t) ==
    /\ At(t, "json") /\ ctx
    /\ frame' = [frame EXCEPT ![t].payload = appState]
    /\ dukt' = Unlocked(dukt, t)
    /\ Goto(t, "send")
    /\ UNCHANGED <<control, flags, life, app, cv, sleepers, manager>>

\* Device::updateApp(): a PUT for an app the manager does not list, or with
\* an empty body, changes nothing there
Send(t) ==
    /\ At(t, "send")
    /\ Remote(IF manager = "absent" \/ frame[t].payload = "none"
              THEN manager ELSE frame[t].payload)
    /\ frame' = [frame EXCEPT ![t] =
          [@ EXCEPT !.owed = frame[t].owed - 1, !.payload = "none"]]
    /\ Goto(t, "update")
    /\ UNCHANGED <<control, flags, life, sync>>

\* EventLoop.requestExit(), called by scripts and by Duktape.errThrow for
\* every Error thrown: the flag is set under the cv mutex ...
RequestExit(t) ==
    /\ At(t, "request_exit")
    /\ cv = Nobody
    /\ exitReq' = TRUE
    /\ Goto(t, "exit_notify")
    /\ UNCHANGED <<control, frame, appState, ready, life, sync, manager>>

\* ... then that mutex is unlocked once more, whoever holds it by now.
NotifyExit(t) ==
    /\ At(t, "exit_notify")
    /\ cv' = Nobody
    /\ NotifyOne
    /\ Return(t)
    /\ UNCHANGED <<control, flags, life, app, dukt, manager>>

\* setResponseObj(), for response.end(): the app mutex inside the duktape one
SetResponse(t) ==
    /\ At(t, "set_response") /\ ctx
    /\ CanLock(app, t)
    /\ Return(t)
    /\ UNCHANGED <<control, flags, life, sync, manager>>

\* A null or freed heap or EventLoop is used, or an event loop or registry
\* entry looked up that is gone (at() throws on a thread that catches
\* nothing): the process dies. Where the freed memory is only read, in the
\* last disjunct, it may also go on.
Die(t) ==
    /\ proc = "up"
    /\ \/ InHeap(t) /\ pc[t] # "destroy" /\ ~ctx
       \/ pc[t] \in {"eval_main", "loop_enter", "dispatch"}
             /\ ~(ctx /\ loop /\ inReg)
       \/ pc[t] = "exit_request" /\ op = "delete" /\ ~loop
       \/ pc[t] \in {"loop_top", "parked_check", "wait_check"} /\ ~loop
    /\ Abort

-----------------------------------------------------------------------------
(* "init": JSApplication::instantiate()                                    *)

Init == /\ proc = "up" /\ interrupted = FALSE /\ op = "none"
        /\ pc = [http |-> "idle", init |-> "lock_app", loop |-> "unborn"]
        /\ frame = [t \in Threads |-> NoFrame]
        /\ appState = "initializing" /\ exitReq = FALSE /\ ready = FALSE
        /\ inReg = TRUE /\ loop = TRUE /\ ctx = TRUE /\ joinable = FALSE
        /\ app = Free /\ dukt = Free /\ cv = Nobody /\ sleepers = {}
        /\ manager = "absent"

LockApp == AppLock("init", "lock_app", "lock_dukt")

LockDukt == HeapLock("init", "lock_dukt", "eval_main")

\* evloopRegister and the evaluation of the main module, which may throw an
\* Error, and catch it or not
EvalMain ==
    /\ At("init", "eval_main") /\ ctx /\ inReg /\ loop
    /\ \/ "ok" \in Scripts /\ Goto("init", "spawn") /\ UNCHANGED frame
       \/ "error" \in Scripts /\ \E next \in {"spawn", "unlock"} :
                                     CallFromScript("init", "request_exit", next)
    /\ UNCHANGED <<control, flags, life, sync, manager>>

\* createEventLoopThread()
Spawn ==
    /\ At("init", "spawn")
    /\ joinable' = TRUE
    /\ pc' = [pc EXCEPT !["init"] = "describe", !["loop"] = "run"]
    /\ UNCHANGED <<control, frame, flags, inReg, loop, ctx, sync, manager>>

\* app_payload = getAppAsJSON(), under the duktape lock held since LockDukt
Describe ==
    /\ At("init", "describe") /\ ctx
    /\ frame' = [frame EXCEPT !["init"].payload = appState]
    /\ Goto("init", "app_exists")
    /\ UNCHANGED <<control, flags, life, sync, manager>>

\* Device::appExists(): the answer is the manager's, or anything when the
\* request is lost
AppExists ==
    /\ At("init", "app_exists")
    /\ \E answer \in BOOLEAN :
          /\ answer = (manager # "absent") \/ LossyRR
          /\ Moves("init", IF answer THEN "pause" ELSE "register")

RegisterApp ==
    /\ At("init", "register")
    /\ Remote(frame["init"].payload)
    /\ Goto("init", "pause")
    /\ UNCHANGED <<control, frame, flags, life, sync>>

InstantiatePause ==
    /\ At("init", "pause")
    /\ CallUnlessIn("init", "paused", "start")
    /\ UNCHANGED <<control, flags, life, sync, manager>>

\* Mutant: instantiate() trusts the new thread to set the state.
InstantiateWithoutStart ==
    /\ At("init", "start")
    /\ Moves("init", "unlock")

InstantiateStart ==
    /\ At("init", "start")
    /\ CallUnlessIn("init", "running", "unlock")
    /\ UNCHANGED <<control, flags, life, sync, manager>>

\* the two lock_guards of instantiate() go out of scope
InstantiateEnd ==
    /\ At("init", "unlock")
    /\ app' = Unlocked(app, "init")
    /\ dukt' = Unlocked(dukt, "init")
    /\ frame' = [frame EXCEPT !["init"] = NoFrame]
    /\ Goto("init", "ended")
    /\ UNCHANGED <<control, flags, life, cv, sleepers, manager>>

-----------------------------------------------------------------------------
(* "loop": JSApplication::run() and EventLoop::eventloop_run()             *)

Run ==
    /\ At("loop", "run")
    /\ Call("loop", "running", 0, "run_lock")
    /\ UNCHANGED <<control, flags, life, sync, manager>>

RunLock == HeapLock("loop", "run_lock", "loop_enter")

\* eventloop->exit_requested_ = 0
LoopEnter ==
    /\ At("loop", "loop_enter") /\ ctx /\ loop /\ inReg
    /\ exitReq' = FALSE
    /\ Goto("loop", "loop_top")
    /\ UNCHANGED <<control, frame, appState, ready, life, sync, manager>>

\* Mutant: only a signal ends the loop.
StopOnlyOnSignal == interrupted

\* Mutant: the flag set by the signal is not looked at.
StopOnlyOnRequest == exitReq

\* the loop's exit condition, and its wait_for predicate while paused
StopRequested == interrupted \/ exitReq
Unpark == StopRequested \/ appState = "running"

\* Mutant: the lock_guard of the loop body is missing.
LoopTopUnguarded ==
    /\ At("loop", "loop_top")
    /\ Moves("loop", IF StopRequested THEN "loop_pop"
                    ELSE IF appState = "paused" THEN "parked_check"
                    ELSE "dispatch")

\* The head of an iteration: lock_guard, the exit check and the paused check.
LoopTop ==
    /\ At("loop", "loop_top")
    /\ CanLock(dukt, "loop")
    /\ \/ /\ StopRequested
          /\ Goto("loop", "loop_pop")
          /\ UNCHANGED dukt                     \* locked and unlocked again
       \/ /\ ~StopRequested
          /\ appState = "paused"
          /\ Goto("loop", "parked_check")
          /\ UNCHANGED dukt                     \* the explicit unlock()
       \/ /\ ~StopRequested
          /\ appState # "paused"
          /\ Goto("loop", "dispatch")
          /\ dukt' = Locked(dukt, "loop")
    /\ UNCHANGED <<control, frame, flags, life, app, cv, sleepers, manager>>

\* The end of an iteration: the lock_guard gives back a level, on top of the
\* explicit unlock() before it.
EndIteration(l) ==
    /\ dukt' = Unlocked(dukt, "loop")
    /\ Goto("loop", l)

\* wait_for, first half: the predicate is evaluated under the cv mutex
ParkedCheck ==
    /\ At("loop", "parked_check") /\ cv = Nobody
    /\ IF Unpark THEN EndIteration("loop_top") /\ UNCHANGED cv
       ELSE Goto("loop", "parked_block") /\ cv' = "loop" /\ UNCHANGED dukt
    /\ UNCHANGED <<control, frame, flags, life, app, sleepers, manager>>

\* wait_for, second half: the mutex is given back and the thread sleeps
ParkedBlock ==
    /\ At("loop", "parked_block")
    /\ cv' = Nobody
    /\ sleepers' = sleepers \cup {"loop"}
    /\ Goto("loop", "parked_wait")
    /\ UNCHANGED <<control, frame, flags, life, app, dukt, manager>>

ParkedWoken ==
    /\ At("loop", "parked_wait") /\ "loop" \notin sleepers
    /\ Moves("loop", "parked_check")

\* Mutant: wait() in place of wait_for().
ParkedNoTimeout == FALSE

\* MAX_WAIT has passed: wait_for returns whatever the predicate says
ParkedTimeout ==
    /\ At("loop", "parked_wait") /\ "loop" \in sleepers /\ cv = Nobody
    /\ sleepers' = sleepers \ {"loop"}
    /\ EndIteration("loop_top")
    /\ UNCHANGED <<control, frame, flags, life, app, cv, manager>>

\* expire_timers(): nothing to do or a callback that returns; a callback that
\* throws; one that answers an earlier request with response.end(); or an error
\* outside the protected call, which leaves through duk_safe_call and so by the
\* C++ frames, whose lock_guards it runs or skips.
Dispatch ==
    /\ At("loop", "dispatch") /\ ctx /\ loop /\ inReg
    /\ \/ Goto("loop", "dispatched") /\ UNCHANGED <<frame, dukt>>
       \/ /\ "error" \in Scripts /\ ~exitReq
          /\ CallFromScript("loop", "request_exit", "dispatched")
          /\ UNCHANGED dukt
       \/ /\ "late" \in Scripts /\ ~exitReq
          /\ CallFromScript("loop", "set_response", "dispatched")
          /\ UNCHANGED dukt
       \/ /\ "fatal" \in Scripts /\ ~exitReq
          /\ \/ "unwound" \in Unwinding /\ dukt' = Unlocked(dukt, "loop")
             \/ /\ "skipped" \in Unwinding
                /\ \E n \in 1..2 : dukt' = Leaked(dukt, "loop", n)
          /\ Goto("loop", "crash_state")
          /\ UNCHANGED frame
    /\ UNCHANGED <<control, flags, life, app, cv, sleepers, manager>>

\* the explicit unlock() before the wait
Dispatched ==
    /\ At("loop", "dispatched")
    /\ HeapUnlock("loop", "wait_check")

WaitCheck ==
    /\ At("loop", "wait_check") /\ cv = Nobody
    /\ IF StopRequested THEN EndIteration("loop_pop") /\ UNCHANGED cv
       ELSE Goto("loop", "wait_block") /\ cv' = "loop" /\ UNCHANGED dukt
    /\ UNCHANGED <<control, frame, flags, life, app, sleepers, manager>>

WaitBlock ==
    /\ At("loop", "wait_block")
    /\ cv' = Nobody
    /\ sleepers' = sleepers \cup {"loop"}
    /\ Goto("loop", "wait")
    /\ UNCHANGED <<control, frame, flags, life, app, dukt, manager>>

WaitWoken ==
    /\ At("loop", "wait") /\ "loop" \notin sleepers
    /\ Moves("loop", "wait_check")

\* the timeout computed from the timers has passed
WaitTimeout ==
    /\ At("loop", "wait") /\ "loop" \in sleepers /\ cv = Nobody
    /\ sleepers' = sleepers \ {"loop"}
    /\ EndIteration(IF StopRequested THEN "loop_pop" ELSE "loop_top")
    /\ UNCHANGED <<control, frame, flags, life, app, cv, manager>>

\* after the loop: one value popped under the lock
LoopPop ==
    /\ At("loop", "loop_pop")
    /\ CanLock(dukt, "loop")
    /\ Moves("loop", "terminate")

\* run() evaluates app.$terminate(); by now its lock_guard often holds nothing
Terminate ==
    /\ At("loop", "terminate") /\ ctx
    /\ \/ Goto("loop", "terminated") /\ UNCHANGED frame
       \/ "error" \in Scripts
          /\ CallFromScript("loop", "request_exit", "terminated")
       \/ "late" \in Scripts
          /\ CallFromScript("loop", "set_response", "terminated")
    /\ UNCHANGED <<control, flags, life, sync, manager>>

\* Mutant: a signal that ended the loop is taken for a requested exit.
TerminatedReady == At("loop", "terminated") /\ HeapUnlock("loop", "set_ready")

Terminated ==
    /\ At("loop", "terminated")
    /\ HeapUnlock("loop", IF interrupted THEN "interrupt_pause" ELSE "set_ready")

InterruptPause ==
    /\ At("loop", "interrupt_pause")
    /\ CallUnlessIn("loop", "paused", "interrupt_unregister")
    /\ UNCHANGED <<control, flags, life, sync, manager>>

InterruptUnregister ==
    /\ At("loop", "interrupt_unregister")
    /\ Remote("absent")
    /\ Goto("loop", "set_ready")
    /\ UNCHANGED <<control, frame, flags, life, sync>>

\* setIsReady(true), four unlock() calls, notify_one()
SetReady ==
    /\ At("loop", "set_ready")
    /\ ready' = TRUE
    /\ app' = Unlocked(app, "loop") /\ dukt' = Unlocked(dukt, "loop")
    /\ cv' = Nobody
    /\ NotifyOne
    /\ Goto("loop", "ended")
    /\ UNCHANGED <<control, frame, appState, exitReq, life, manager>>

\* rc != 0
CrashState ==
    /\ At("loop", "crash_state")
    /\ Call("loop", "crashed", 1, "crash_destroy")
    /\ UNCHANGED <<control, flags, life, sync, manager>>

\* The heap is destroyed and the thread returns; is_ready_ stays false. The
\* duktape mutex is unlocked by hand and by the lock_guard.
CrashDestroy ==
    /\ At("loop", "crash_destroy") /\ ctx
    /\ ctx' = FALSE
    /\ app' = Unlocked(app, "loop") /\ cv' = Nobody
    /\ dukt' = Unlocked(Unlocked(dukt, "loop"), "loop")
    /\ Goto("loop", "ended")
    /\ UNCHANGED <<control, frame, flags, inReg, loop, joinable, sleepers,
                   manager>>

-----------------------------------------------------------------------------
(* "http": the REST handlers                                               *)

\* run() has not reached the first turn of the loop
Starting == \/ pc["loop"] \in {"run", "run_lock", "loop_enter"}
            \/ frame["loop"].back = "run_lock"

\* A handler found the application in the registry.
Accept(r) ==
    /\ At("http", "idle")
    /\ r \in Requests /\ inReg
    /\ Settled => pc["init"] = "ended" /\ ~Starting

\* GET /app/{id}: getDescriptionAsJSON(), which never asks for a null heap
Get ==
    /\ Accept("get")
    /\ Moves("http", "get_lock")

GetLock == HeapLock("http", "get_lock", "get_read")

GetRead == At("http", "get_read") /\ ctx /\ HeapUnlock("http", "idle")

\* PUT /app/{id}: the status arrives as a form field, or as JSON which the
\* app's own heap decodes
Put ==
    /\ Accept("put")
    /\ \E s \in States :
          frame' = [frame EXCEPT !["http"] = FrameOf(s, 1, "idle")]
    /\ \E l \in {"set_state", "put_lock"} : Goto("http", l)
    /\ UNCHANGED <<control, flags, life, sync, manager>>

PutLock == HeapLock("http", "put_lock", "put_decode")

PutDecode ==
    /\ At("http", "put_decode") /\ ctx
    /\ dukt' = Unlocked(dukt, "http")
    /\ \/ Goto("http", "set_state") /\ UNCHANGED frame
       \/ Return("http")                          \* "Attribute couldn't be read"
    /\ UNCHANGED <<control, flags, life, app, cv, sleepers, manager>>

\* a request to the application's own interface: getResponse()
Api ==
    /\ Accept("api")
    /\ Moves("http", "api_lock")

ApiLock == HeapLock("http", "api_lock", "api_eval")

\* router.call_api() in the app's heap: no such interface, an answer through
\* setResponseObj(), or an Error
ApiEval ==
    /\ At("http", "api_eval") /\ ctx
    /\ \/ Goto("http", "api_end") /\ UNCHANGED frame
       \/ "ok" \in Scripts /\ CallFromScript("http", "set_response", "api_end")
       \/ "error" \in Scripts
          /\ CallFromScript("http", "request_exit", "api_end")
    /\ UNCHANGED <<control, flags, life, sync, manager>>

ApiEnd == At("http", "api_end") /\ HeapUnlock("http", "idle")

-----------------------------------------------------------------------------
(* "http": deleteApplication() (DELETE) and shutdownApplication() (a POST   *)
(* that reloads the app; the new JSApplication is a new instance)          *)

Delete ==
    /\ Accept("delete")
    /\ op' = "delete"
    /\ Goto("http", "delete_lock")
    /\ UNCHANGED <<proc, interrupted, frame, flags, life, sync, manager>>

Reload ==
    /\ Accept("reload")
    /\ op' = "reload"
    /\ Goto("http", "shutdown_unregister")
    /\ UNCHANGED <<proc, interrupted, frame, flags, life, sync, manager>>

\* the app mutex is locked before the pause and again before the exit request
DeleteLock == AppLock("http", "delete_lock", "delete_pause")
ExitLock   == AppLock("http", "exit_lock", "exit_request")

\* Mutant: the application is deleted without being paused.
DeleteUnpaused ==
    /\ At("http", "delete_pause")
    /\ Moves("http", "delete_unregister")

DeletePause ==
    /\ At("http", "delete_pause")
    /\ CallUnlessIn("http", "paused", "delete_unregister")
    /\ UNCHANGED <<control, flags, life, sync, manager>>

\* Mutant: the first lock_guard lasts to the end of deleteApplication.
DeleteUnregisterLocked ==
    /\ At("http", "delete_unregister")
    /\ Remote("absent")
    /\ Goto("http", "exit_lock")
    /\ UNCHANGED <<control, frame, flags, life, sync>>

\* Device::deleteApp(), delete_files(), end of the first lock_guard
DeleteUnregister ==
    /\ At("http", "delete_unregister")
    /\ Remote("absent")
    /\ app' = Unlocked(app, "http")
    /\ Goto("http", "exit_lock")
    /\ UNCHANGED <<control, frame, flags, life, dukt, cv, sleepers>>

ShutdownUnregister ==
    /\ At("http", "shutdown_unregister")
    /\ Remote("absent")
    /\ Goto("http", "exit_lock")
    /\ UNCHANGED <<control, frame, flags, life, sync>>

\* Mutant: shutdownApplication only marks the application as ready.
ExitRequestReady ==
    /\ At("http", "exit_request")
    /\ \/ op = "delete" /\ loop /\ cv = Nobody /\ exitReq' = TRUE /\ UNCHANGED ready
       \/ op = "reload" /\ ready' = TRUE /\ UNCHANGED exitReq
    /\ Goto("http", "exit_notify_all")
    /\ UNCHANGED <<control, frame, appState, life, sync, manager>>

\* setRequestExit(true) under the cv mutex; shutdownApplication does without
\* an event loop
ExitRequest ==
    /\ At("http", "exit_request")
    /\ \/ loop /\ cv = Nobody /\ exitReq' = TRUE /\ UNCHANGED ready
       \/ ~loop /\ op = "reload" /\ ready' = TRUE /\ UNCHANGED exitReq
    /\ Goto("http", "exit_notify_all")
    /\ UNCHANGED <<control, frame, appState, life, sync, manager>>

ExitNotifyAll ==
    /\ At("http", "exit_notify_all")
    /\ cv' = Nobody
    /\ NotifyAll
    /\ Goto("http", "ready_check")
    /\ UNCHANGED <<control, frame, flags, life, app, dukt, manager>>

ReadyCheck ==
    /\ At("http", "ready_check") /\ cv = Nobody
    /\ IF ready \/ interrupted THEN Goto("http", "join") /\ UNCHANGED cv
       ELSE Goto("http", "ready_block") /\ cv' = "http"
    /\ UNCHANGED <<control, frame, flags, life, app, dukt, sleepers, manager>>

ReadyBlock ==
    /\ At("http", "ready_block")
    /\ cv' = Nobody
    /\ sleepers' = sleepers \cup {"http"}
    /\ Goto("http", "ready_wait")
    /\ UNCHANGED <<control, frame, flags, life, app, dukt, manager>>

ReadyWoken ==
    /\ At("http", "ready_wait") /\ "http" \notin sleepers
    /\ Moves("http", "ready_check")

\* one second has passed
ReadyTimeout ==
    /\ At("http", "ready_wait") /\ "http" \in sleepers /\ cv = Nobody
    /\ sleepers' = sleepers \ {"http"}
    /\ Goto("http", "join")
    /\ UNCHANGED <<control, frame, flags, life, app, dukt, cv, manager>>

\* Mutant: a thread that is not ready in time is not joined.
JoinIfReady ==
    /\ At("http", "join")
    /\ joinable /\ ready => pc["loop"] = "ended"
    /\ joinable' = FALSE
    /\ app' = Unlocked(app, "http")
    /\ Goto("http", "delete_loop")
    /\ UNCHANGED <<control, frame, flags, inReg, loop, ctx, dukt, cv,
                   sleepers, manager>>

\* The event loop thread is joined, if there is one yet, with the app mutex
\* held to the end of the block.
Join ==
    /\ At("http", "join")
    /\ joinable => pc["loop"] = "ended"
    /\ joinable' = FALSE
    /\ app' = Unlocked(app, "http")
    /\ Goto("http", "delete_loop")
    /\ UNCHANGED <<control, frame, flags, inReg, loop, ctx, dukt, cv,
                   sleepers, manager>>

DeleteLoop ==
    /\ At("http", "delete_loop")
    /\ loop => CanLock(app, "http")
    /\ loop' = FALSE
    /\ Goto("http", "erase")
    /\ UNCHANGED <<control, frame, flags, inReg, ctx, joinable, sync, manager>>

\* Mutant: the context is cleared before it is used as the registry's key.
EraseAfterClearing ==
    /\ At("http", "erase")
    /\ Moves("http", IF ctx THEN "destroy_lock" ELSE "deleted")

\* applications_.erase(getContext()) finds no entry under a null context
Erase ==
    /\ At("http", "erase")
    /\ inReg' = (inReg /\ ~ctx)
    /\ Goto("http", IF ctx THEN "destroy_lock" ELSE "deleted")
    /\ UNCHANGED <<control, frame, flags, loop, ctx, joinable, sync, manager>>

DestroyLock == HeapLock("http", "destroy_lock", "destroy")

Destroy ==
    /\ At("http", "destroy")
    /\ ctx' = FALSE
    /\ dukt' = Unlocked(dukt, "http")
    /\ Goto("http", "deleted")
    /\ UNCHANGED <<control, frame, flags, inReg, loop, joinable, app, cv,
                   sleepers, manager>>

\* "Application was deleted successfully."
AnswerDeleted ==
    /\ At("http", "deleted")
    /\ op' = "none"
    /\ Goto("http", "idle")
    /\ UNCHANGED <<proc, interrupted, frame, flags, life, sync, manager>>

-----------------------------------------------------------------------------
(* SIGINT, and the end of main()                                           *)

\* sigint_handler notifies the applications in the registry
Sigint ==
    /\ proc = "up" /\ Signals /\ ~interrupted
    /\ interrupted' = TRUE
    /\ IF inReg THEN NotifyAll ELSE UNCHANGED sleepers
    /\ UNCHANGED <<proc, op, pc, frame, flags, life, app, dukt, cv, manager>>

\* HttpServer::run() returns once its current handler has
ServerStops ==
    /\ At("http", "idle") /\ interrupted
    /\ Moves("http", "main_join")

\* getJoinThreads(), then main() returns and every thread is gone
MainExits ==
    /\ At("http", "main_join")
    /\ inReg /\ joinable => pc["loop"] = "ended"
    /\ proc' = "exited"
    /\ UNCHANGED <<interrupted, op, pc, frame, flags, life, sync, manager>>

-----------------------------------------------------------------------------
UpdateAppState(t) ==
    \/ SetAppState(t) \/ WriteState(t) \/ Wake(t) \/ Again(t)
    \/ UpdateClient(t) \/ JsonLock(t) \/ Json(t) \/ Send(t)

AnyThread(t) == \/ UpdateAppState(t)
                \/ RequestExit(t) \/ NotifyExit(t) \/ SetResponse(t)
                \/ Die(t)

InitThread ==
    \/ AnyThread("init")
    \/ LockApp \/ LockDukt \/ EvalMain \/ Spawn \/ Describe \/ AppExists
    \/ RegisterApp \/ InstantiatePause \/ InstantiateStart \/ InstantiateEnd

LoopThread ==
    \/ AnyThread("loop")
    \/ Run \/ RunLock \/ LoopEnter \/ LoopTop
    \/ ParkedCheck \/ ParkedBlock \/ ParkedWoken \/ ParkedTimeout
    \/ Dispatch \/ Dispatched
    \/ WaitCheck \/ WaitBlock \/ WaitWoken \/ WaitTimeout
    \/ LoopPop \/ Terminate \/ Terminated
    \/ InterruptPause \/ InterruptUnregister \/ SetReady
    \/ CrashState \/ CrashDestroy

NewRequest == Get \/ Put \/ Api \/ Delete \/ Reload

HttpThread ==
    \/ AnyThread("http")
    \/ GetLock \/ GetRead
    \/ PutLock \/ PutDecode
    \/ ApiLock \/ ApiEval \/ ApiEnd
    \/ DeleteLock \/ DeletePause
    \/ DeleteUnregister \/ ShutdownUnregister
    \/ ExitLock \/ ExitRequest \/ ExitNotifyAll
    \/ ReadyCheck \/ ReadyBlock \/ ReadyWoken \/ ReadyTimeout \/ Join
    \/ DeleteLoop \/ Erase
    \/ DestroyLock \/ Destroy \/ AnswerDeleted
    \/ ServerStops \/ MainExits

Next == InitThread \/ LoopThread \/ HttpThread \/ NewRequest \/ Sigint

\* Each thread is scheduled, a timed wait ends, and a thread waiting for a
\* mutex that keeps being released gets it in the end; the server tests the
\* interrupted flag between handlers. Requests and signals need never come.
Fairness == /\ SF_vars(HttpThread) /\ SF_vars(InitThread)
            /\ SF_vars(LoopThread) /\ SF_vars(ServerStops)

Spec == Init /\ [][Next]_vars
FairSpec == Spec /\ Fairness
-----------------------------------------------------------------------------
HttpLabels == {"idle", "get_lock", "get_read", "put_lock", "put_decode",
               "api_lock", "api_eval", "api_end",
               "delete_lock", "delete_pause", "delete_unregister",
               "shutdown_unregister", "exit_lock", "exit_request",
               "exit_notify_all", "ready_check", "ready_block", "ready_wait",
               "join", "delete_loop", "erase", "destroy_lock", "destroy",
               "deleted", "main_join"}
StartLabels == {"lock_app", "lock_dukt", "eval_main", "spawn", "describe",
                "app_exists", "register", "pause", "start", "unlock", "ended"}
RunLabels == LoopLabels \cup
             {"unborn", "run", "run_lock", "loop_enter", "terminated",
              "interrupt_pause", "interrupt_unregister", "set_ready",
              "crash_state", "crash_destroy", "ended"}
CallLabels == {"set_state", "write_state", "wake", "again", "update",
               "json_lock", "json", "send", "request_exit", "exit_notify",
               "set_response"}
Labels == HttpLabels \cup StartLabels \cup RunLabels

Frames == [target : States, owed : 0..MaxNest, tail : BOOLEAN,
           back : Labels \cup {"none"}, payload : States \cup {"none"}]

\* The type of every variable; a frame never owes more than MaxNest updates.
FlagsOK ==
    /\ proc \in {"up", "exited", "aborted"} /\ interrupted \in BOOLEAN
    /\ op \in {"none", "delete", "reload"}
    /\ appState \in States /\ exitReq \in BOOLEAN /\ ready \in BOOLEAN
    /\ inReg \in BOOLEAN /\ loop \in BOOLEAN /\ ctx \in BOOLEAN
    /\ joinable \in BOOLEAN /\ manager \in States \cup {"absent"}
SyncOK == /\ app \in RecursiveMutex(Threads) /\ dukt \in RecursiveMutex(Threads)
          /\ cv \in Threads \cup {Nobody} /\ sleepers \subseteq Threads
TypeOK == /\ FlagsOK /\ SyncOK
          /\ pc \in [Threads -> Labels \cup CallLabels]
          /\ frame \in [Threads -> Frames]

-----------------------------------------------------------------------------
(* Properties                                                              *)

\* A thread that has finished, or a server waiting for its next request, is
\* left with no mutex, in spite of the unlock() calls that give a level back
\* early or twice (application.cpp:570, 586, 884-886, 911-914,
\* custom_eventloop.cpp:88, 125). The exception is a fatal error that leaves
\* by longjmp, past the lock_guards of expire_timers.
FinishedHoldsNothing ==
    \A t \in Threads :
        pc[t] \in {"idle", "ended"} =>
            /\ app.owner # t /\ cv # t
            /\ dukt.owner = t => ~ctx /\ "skipped" \in Unwinding

\* While the event loop runs timer callbacks no other thread is inside the
\* application's heap, though the loop waits, in its first iteration with and
\* later without the duktape mutex, between two batches of callbacks
\* (custom_eventloop.cpp:78-131).
CallbacksAlone ==
    proc = "up" /\ pc["loop"] = "dispatch" =>
        \A t \in Threads \ {"loop"} : ~InHeap(t)

\* deleteApplication and shutdownApplication destroy the heap only when it is
\* still there and the event loop thread is out of it, whether that thread
\* ended, crashed, was interrupted or never started.
DestroyAfterLoop ==
    pc["http"] = "destroy" =>
        /\ ctx
        /\ pc["loop"] \notin LoopLabels
        /\ pc["loop"] \notin {"crash_state", "crash_destroy"}

\* When DELETE answers "deleted" the application is out of the registry, its
\* heap is freed and its thread is not running.
DeletedIsGone ==
    pc["http"] = "deleted" =>
        ~inReg /\ ~ctx /\ pc["loop"] \in {"unborn", "ended"}

\* No handler and no thread of an application brings the server down.
ServerSurvives == proc # "aborted"

\* An application that runs when SIGINT arrives is deleted from the RR manager
\* before the server exits (application.cpp:903-907).
ForgottenOnSigint == proc = "exited" => manager = "absent"

\* Whatever the order in which instantiate() and the new thread set the state,
\* the application is running once instantiate() has returned.
StartLeavesRunning ==
    [][pc["init"] # "ended" /\ pc'["init"] = "ended" /\ joinable'
         => appState' = "running"]_vars

\* When a PUT is answered the manager, if it lists the application, shows the
\* state the application is in, even when start-up left it with a stale one.
PutReachesManager ==
    [][pc["http"] \in {"set_state", "update"} /\ pc'["http"] = "idle"
         => manager' \in {"absent", appState'}]_vars

\* The application as AppService describes it. Taken off the manager's list is
\* one whose exit is next; a DELETE is on its way there.
Updating == pc["http"] \in {"set_state", "write_state", "wake", "again", "update",
                            "json_lock", "json", "send"}
Withdrawn == {"exit_lock", "exit_request", "exit_notify_all", "ready_check",
              "ready_block", "ready_wait", "join", "delete_loop", "erase",
              "destroy_lock", "destroy", "deleted"}
Leaving == \/ pc["http"] \in {"delete_lock", "delete_pause", "delete_unregister"}
           \/ Updating /\ frame["http"].back = "delete_unregister"
Stage == IF pc["init"] # "ended" THEN "starting"
         ELSE IF ~ctx THEN "gone"
         ELSE IF pc["http"] \in Withdrawn THEN "withdrawn"
         ELSE IF Leaving THEN "leaving" ELSE "serving"
Asked == IF Updating /\ frame["http"].back = "idle" THEN frame["http"].target
         ELSE "nothing"
Service == INSTANCE AppService WITH
    Lossy <- LossyRR, stage <- Stage, status <- appState, told <- manager,
    alive <- pc["loop"] \notin {"unborn", "ended"}, asked <- Asked

\* After the start-up the state changes as PUT and DELETE ask and not otherwise,
\* a PUT is answered after it took effect, here and at the manager, which is
\* told no state but the present one, and a DELETE pauses the application, takes
\* it off the list, ends its thread and frees its heap, in this order
\* (application.cpp:408-429, 551-587, 677-735).
ImplementsAppService == Service!Spec

\* Every request is answered: no handler waits forever for a mutex, for the
\* ready flag or for the event loop thread.
RequestAnswered == pc["http"] # "idle" ~> (pc["http"] = "idle" \/ proc # "up")

\* A resume is acted on: although the notification of setAppState is sent
\* without the cv mutex and can be lost, a parked loop leaves its wait.
ResumeReachesLoop ==
    pc["loop"] = "parked_wait" /\ appState = "running"
      ~> (pc["loop"] # "parked_wait" \/ appState # "running" \/ proc # "up")

\* An exit requested while the loop turns ends the thread: after the reset of
\* exit_requested_ at its start the request is never lost.
ExitEndsLoop ==
    exitReq /\ pc["loop"] \in LoopLabels
      ~> (pc["loop"] = "ended" \/ proc # "up")

\* SIGINT ends the process.
SigintStopsServer == interrupted ~> proc # "up"
=============================================================================
