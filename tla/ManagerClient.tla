--------------------------- MODULE ManagerClient ---------------------------
(***************************************************************************)
(* The device as a client of the RR manager: the functions of Device that  *)
(* send a request, each through a client thread of its own, and the        *)
(* device's registration over restarts.                                    *)
(*                                                                         *)
(* A function that sends a request is the steps ExitClient, Enter, Woken   *)
(* or TimedOut, Join and a last one which reads the result; the client     *)
(* thread it starts is Run to Ready. Both sides of the connection are lws  *)
(* and the manager, which are modelled from how this code uses them.       *)
(***************************************************************************)
EXTENDS Integers, FiniteSets

CONSTANTS
    Main,       \* the thread of main()
    Workers,    \* ids of the other threads: an id is used again by a later
                \* thread, which then finds the slot of the earlier one
    Apps,
    DeviceIds,  \* what the manager hands out; bounds the registrations
    NoOne,
    Lossy,      \* whether a connection fails, or an answer has no body;
                \* bound: once
    Crashes     \* whether the process may end at any point; bound: once

Threads == Workers \cup {Main}
Bodies  == DeviceIds \cup {"", "null", "info"}

ASSUME ThreadsAssumption == Main \notin Workers /\ NoOne \notin Threads \cup Apps
ASSUME IdsAssumption == DeviceIds \cap {"", "null", "info", "torn"} = {}
ASSUME FlagsAssumption == Lossy \in BOOLEAN /\ Crashes \in BOOLEAN

VARIABLES
    up,          \* "off", "boot" (Device::init), "serving"; "refused": main()
                 \* returned because the configuration could not be read
    configured,  \* whether config.json names the manager's host and port
    devId,       \* id_; "" when there is none
    saved,       \* the device id in config.json; "torn" when the file is empty
    mtx,         \* the device mutex: its owner
    pc, call,    \* per thread: the next step of the function it is in; which
    slot,        \* ClientRequestConfig: response_status_ and response_
    client, ready,   \* HttpClient: its thread; ready_
    answer,      \* what the manager answered to the present request
    told,        \* applications whose instantiate() has talked to the manager
    devices, given, listed,  \* the manager: devices it knows, ids it gave out,
                             \* applications by device
    faults       \* history: what went wrong so far

device == <<up, configured, devId, saved, told>>
caller == <<mtx, pc, call>>
http   == <<slot, client, ready, answer>>
server == <<devices, given, listed>>
vars   == <<device, caller, http, server, faults>>

NoCall   == [kind |-> "none", app |-> NoOne]
NoAnswer == [status |-> "unset", body |-> ""]
Ok(b)    == [status |-> "ok", body |-> b]
Error    == [status |-> "error", body |-> "info"]

Fresh == [t \in Threads |-> NoAnswer]

\* A process that is not running.
Reset ==
    /\ devId' = "" /\ mtx' = NoOne /\ told' = {}
    /\ pc' = [t \in Threads |-> "idle"] /\ call' = [t \in Threads |-> NoCall]
    /\ slot' = Fresh /\ answer' = Fresh
    /\ client' = [t \in Threads |-> "none"]
    /\ ready' = [t \in Threads |-> FALSE]

Init ==
    /\ up = "off" /\ configured \in BOOLEAN
    /\ devId = "" /\ saved = "" /\ mtx = NoOne /\ told = {}
    /\ pc = [t \in Threads |-> "idle"] /\ call = [t \in Threads |-> NoCall]
    /\ slot = Fresh /\ answer = Fresh
    /\ client = [t \in Threads |-> "none"]
    /\ ready = [t \in Threads |-> FALSE]
    /\ devices = {} /\ given = {} /\ listed = {} /\ faults = {}

Loses == Lossy /\ "loss" \notin faults

Goto(t, l) == pc' = [pc EXCEPT ![t] = l]
Calls(t, k, a) == call' = [call EXCEPT ![t] = [kind |-> k, app |-> a]]

-----------------------------------------------------------------------------
(* What all the functions do: getCRConfig, spawnHttpClientThread, the wait  *)
(* and the join                                                            *)

\* exitClientThread(), in a critical section of its own
ExitClient(t) ==
    /\ pc[t] = "exit" /\ mtx = NoOne
    /\ client[t] \in {"none", "done"}
    /\ client' = [client EXCEPT ![t] = "none"]
    /\ Goto(t, "enter")
    /\ UNCHANGED <<device, mtx, call, slot, ready, answer, server, faults>>

\* Mutant: device_lock in a block that ends before the request.
EnterUnlocked(t) ==
    /\ pc[t] = "enter" /\ mtx = NoOne
    /\ Goto(t, IF configured THEN "wait" ELSE "result")
    /\ client' = IF configured THEN [client EXCEPT ![t] = "started"] ELSE client
    /\ UNCHANGED <<device, mtx, call, slot, ready, answer, server, faults>>

\* The mutex is taken; without host and port the function returns false.
Enter(t) ==
    /\ pc[t] = "enter" /\ mtx = NoOne /\ mtx' = t
    /\ Goto(t, IF configured THEN "wait" ELSE "result")
    /\ client' = IF configured THEN [client EXCEPT ![t] = "started"] ELSE client
    /\ UNCHANGED <<device, call, slot, ready, answer, server, faults>>

\* wait_for: ready_ may still be true of the request before.
Woken(t) ==
    /\ pc[t] = "wait" /\ ready[t]
    /\ Goto(t, "join")
    /\ UNCHANGED <<device, mtx, call, http, server, faults>>

\* Mutant: wait() in place of wait_for().
TimedOutReady(t) ==
    /\ pc[t] = "wait" /\ ready[t]
    /\ Goto(t, "join")
    /\ UNCHANGED <<device, mtx, call, http, server, faults>>

TimedOut(t) ==
    /\ pc[t] = "wait"
    /\ Goto(t, "join")
    /\ UNCHANGED <<device, mtx, call, http, server, faults>>

\* Mutant: the client thread is detached.
JoinDetached(t) ==
    /\ pc[t] = "join"
    /\ client' = [client EXCEPT ![t] = IF @ = "done" THEN "none" ELSE @]
    /\ Goto(t, "result")
    /\ UNCHANGED <<device, mtx, call, slot, ready, answer, server, faults>>

Join(t) ==
    /\ pc[t] = "join" /\ client[t] = "done"
    /\ client' = [client EXCEPT ![t] = "none"]
    /\ Goto(t, "result")
    /\ UNCHANGED <<device, mtx, call, slot, ready, answer, server, faults>>

\* The function reads getResponseStatus(), which nothing has initialized when no
\* answer ever came to this slot.
Succeeds(t) == configured /\ slot[t].status \in {"ok", "unset"}
Fails(t)    == ~configured \/ slot[t].status # "ok"

\* The function is at its end, and gives the mutex back.
Returns(t, kind) ==
    /\ pc[t] = "result" /\ call[t].kind = kind
    /\ mtx' = NoOne /\ answer' = [answer EXCEPT ![t] = NoAnswer]
    /\ UNCHANGED <<configured, slot, client, ready, server, faults>>

Idle(t) == Goto(t, "idle") /\ call' = [call EXCEPT ![t] = NoCall]

-----------------------------------------------------------------------------
(* HttpClient::run and the manager                                          *)

Run(t) ==
    /\ client[t] = "started"
    /\ client' = [client EXCEPT ![t] = "asking"]
    /\ ready' = [ready EXCEPT ![t] = FALSE]
    /\ UNCHANGED <<device, caller, slot, answer, server, faults>>

\* No connection can be made: run() returns without a word.
ConnectFails(t) ==
    /\ Loses /\ client[t] = "started"
    /\ client' = [client EXCEPT ![t] = "done"]
    /\ ready' = [ready EXCEPT ![t] = FALSE]
    /\ faults' = faults \cup {"loss"}
    /\ UNCHANGED <<device, caller, slot, answer, server>>

\* The manager (external): it knows devices and their applications.
ManagerAnswers(t) ==
    LET app == <<devId, call[t].app>>
        Answers(a) == answer' = [answer EXCEPT ![t] = a]
        IfListed == IF app \in listed THEN Ok("info") ELSE Error
    IN  /\ client[t] = "asking"
        /\ client' = [client EXCEPT ![t] = "answered"]
        /\ \/ /\ call[t].kind = "deviceExists"
              /\ Answers(Ok(IF devId \in devices THEN "info" ELSE "null"))
              /\ UNCHANGED server
           \/ /\ call[t].kind = "sendDeviceInfo"
              /\ \E d \in DeviceIds \ given :
                    /\ devices' = devices \cup {d} /\ given' = given \cup {d}
                    /\ Answers(Ok(d))
              /\ UNCHANGED listed
           \/ /\ call[t].kind \in {"appExists", "updateApp"}
              /\ Answers(IfListed)
              /\ UNCHANGED server
           \/ /\ call[t].kind = "registerApp"
              /\ Answers(IF devId \in devices THEN Ok("info") ELSE Error)
              /\ listed' = listed \cup (IF devId \in devices THEN {app} ELSE {})
              /\ UNCHANGED <<devices, given>>
           \/ /\ call[t].kind = "deleteApp"
              /\ Answers(IfListed)
              /\ listed' = listed \ {app}
              /\ UNCHANGED <<devices, given>>
        /\ UNCHANGED <<device, caller, slot, ready, faults>>

\* LWS_CALLBACK_RECEIVE_CLIENT_HTTP_READ: only here is the slot written, with
\* the last chunk of the body.
Read(t) ==
    /\ client[t] = "answered"
    /\ client' = [client EXCEPT ![t] = "ended"]
    /\ slot' = [slot EXCEPT ![t] = answer[t]]
    /\ UNCHANGED <<device, caller, ready, answer, server, faults>>

\* The connection breaks, or the answer has no body.
Breaks(t) ==
    /\ Loses /\ client[t] \in {"asking", "answered"}
    /\ client' = [client EXCEPT ![t] = "ended"]
    /\ faults' = faults \cup {"loss"}
    /\ UNCHANGED <<device, caller, slot, ready, answer, server>>

Ready(t) ==
    /\ client[t] = "ended"
    /\ client' = [client EXCEPT ![t] = "done"]
    /\ ready' = [ready EXCEPT ![t] = TRUE]
    /\ UNCHANGED <<device, caller, slot, answer, server, faults>>

-----------------------------------------------------------------------------
(* Device::init                                                            *)

\* Mutant: any answer will do.
DeviceKnownByStatus(t) == Succeeds(t)

\* deviceExists(): the body is "null" when the manager has no such device
DeviceKnown(t) == Succeeds(t) /\ slot[t].body # "null"

Start ==
    /\ up = "off" /\ saved # "torn" /\ given # DeviceIds
    /\ up' = "boot" /\ devId' = saved
    /\ Goto(Main, "exit") /\ Calls(Main, "deviceExists", NoOne)
    /\ UNCHANGED <<configured, saved, told, mtx, http, server, faults>>

\* get_config() throws on an empty file, and init() with it.
StartRefused ==
    /\ up = "off" /\ saved = "torn"
    /\ up' = "refused"
    /\ UNCHANGED <<configured, devId, saved, told, caller, http, server, faults>>

DeviceExists(t) ==
    /\ Returns(t, "deviceExists")
    /\ \/ /\ DeviceKnown(t)
          /\ up' = "serving" /\ Idle(t) /\ UNCHANGED devId
       \/ /\ Fails(t) \/ slot[t].body = "null"
          /\ devId' = "" /\ Goto(t, "exit") /\ Calls(t, "sendDeviceInfo", NoOne)
          /\ UNCHANGED up
    /\ UNCHANGED <<saved, told>>

\* cleanDeviceId: the letters and digits at the start of the answer
CleanDeviceId(b) == IF b = "info" THEN "" ELSE b

\* With an answer, the id is set and config.json opened for writing, which
\* empties it; the mutex is kept.
SendDeviceInfo(t) ==
    \/ /\ Returns(t, "sendDeviceInfo") /\ Fails(t)
       /\ up' = "serving" /\ Idle(t)
       /\ UNCHANGED <<devId, saved, told>>
    \/ /\ pc[t] = "result" /\ call[t].kind = "sendDeviceInfo" /\ Succeeds(t)
       /\ devId' = CleanDeviceId(slot[t].body) /\ saved' = "torn"
       /\ Goto(t, "saving")
       /\ UNCHANGED <<up, configured, told, mtx, call, http, server, faults>>

\* Mutant: the id is not put into raw_data_, from which the file is written.
SaveWithoutId(t) ==
    /\ pc[t] = "saving"
    /\ saved' = "" /\ up' = "serving" /\ mtx' = NoOne /\ Idle(t)
    /\ answer' = [answer EXCEPT ![t] = NoAnswer]
    /\ UNCHANGED <<configured, devId, told, slot, client, ready, server, faults>>

\* Mutant: the file is opened, and nothing is written.
SaveNothing(t) ==
    /\ pc[t] = "saving"
    /\ up' = "serving" /\ mtx' = NoOne /\ Idle(t)
    /\ answer' = [answer EXCEPT ![t] = NoAnswer]
    /\ UNCHANGED <<configured, devId, saved, told, slot, client, ready, server,
                   faults>>

SaveSettings(t) ==
    /\ pc[t] = "saving"
    /\ saved' = devId /\ up' = "serving" /\ mtx' = NoOne /\ Idle(t)
    /\ answer' = [answer EXCEPT ![t] = NoAnswer]
    /\ UNCHANGED <<configured, devId, told, slot, client, ready, server, faults>>

-----------------------------------------------------------------------------
(* Applications                                                            *)

Asks(t, k, a) ==
    /\ up = "serving" /\ t \in Workers /\ pc[t] = "idle"
    /\ Goto(t, "exit") /\ Calls(t, k, a)
    /\ UNCHANGED <<device, mtx, http, server, faults>>

\* instantiate(); an application is deployed again when nothing is left to be
\* done of the earlier one.
Instantiate(t, a) ==
    /\ a \notin told /\ \A u \in Threads : call[u].app # a
    /\ Asks(t, "appExists", a)

\* updateAppState(), or the deletion, of an application that is instantiated
Update(t, a) == a \in told /\ Asks(t, "updateApp", a)
Delete(t, a) == a \in told /\ Asks(t, "deleteApp", a)

\* Mutant: an application that is listed is registered, and no other.
AppExistsInverted(t) ==
    LET a == call[t].app
    IN  /\ Returns(t, "appExists")
        /\ \/ /\ Fails(t) \/ devId = ""
              /\ told' = told \cup {a} /\ Idle(t)
           \/ /\ Succeeds(t) /\ devId # ""
              /\ Goto(t, "exit") /\ Calls(t, "registerApp", a)
              /\ UNCHANGED told
        /\ UNCHANGED <<up, devId, saved>>

\* An application that is not listed is registered, if the device has an id.
AppExists(t) ==
    LET a == call[t].app
    IN  /\ Returns(t, "appExists")
        /\ \/ /\ Succeeds(t) \/ (Fails(t) /\ devId = "")
              /\ told' = told \cup {a} /\ Idle(t)
           \/ /\ Fails(t) /\ devId # ""
              /\ Goto(t, "exit") /\ Calls(t, "registerApp", a)
              /\ UNCHANGED told
        /\ UNCHANGED <<up, devId, saved>>

\* What registerApp(), updateApp() and deleteApp() return is not looked at.
RegisterApp(t) ==
    /\ Returns(t, "registerApp")
    /\ told' = told \cup {call[t].app} /\ Idle(t)
    /\ UNCHANGED <<up, devId, saved>>

UpdateApp(t) ==
    /\ Returns(t, "updateApp") /\ Idle(t)
    /\ UNCHANGED <<up, devId, saved, told>>

DeleteApp(t) ==
    /\ Returns(t, "deleteApp")
    /\ told' = told \ {call[t].app} /\ Idle(t)
    /\ UNCHANGED <<up, devId, saved>>

-----------------------------------------------------------------------------
(* Outside                                                                 *)

\* The process ends, at rest; everything but config.json is lost.
Stop ==
    /\ up = "serving" /\ \A t \in Threads : pc[t] = "idle"
    /\ up' = "off" /\ Reset
    /\ UNCHANGED <<configured, saved, server, faults>>

Crash ==
    /\ Crashes /\ "crash" \notin faults /\ up \in {"boot", "serving"}
    /\ up' = "off" /\ Reset
    /\ faults' = faults \cup {"crash"}
    /\ UNCHANGED <<configured, saved, server>>

\* The manager is emptied while the device is off.
Forget ==
    /\ up = "off" /\ devices # {}
    /\ devices' = {} /\ listed' = {}
    /\ UNCHANGED <<device, caller, http, given, faults>>

FunctionStep(t) ==
    \/ ExitClient(t) \/ Enter(t) \/ Woken(t) \/ TimedOut(t) \/ Join(t)
    \/ DeviceExists(t) \/ SendDeviceInfo(t) \/ SaveSettings(t)
    \/ AppExists(t) \/ RegisterApp(t) \/ UpdateApp(t) \/ DeleteApp(t)

ClientStep(t) ==
    \/ Run(t) \/ ConnectFails(t) \/ ManagerAnswers(t)
    \/ Read(t) \/ Breaks(t) \/ Ready(t)

Next ==
    \/ Start \/ StartRefused \/ Stop \/ Crash \/ Forget
    \/ \E t \in Threads : FunctionStep(t) \/ ClientStep(t)
    \/ \E t \in Workers, a \in Apps :
          Instantiate(t, a) \/ Update(t, a) \/ Delete(t, a)

Spec == Init /\ [][Next]_vars

\* Threads run, the mutex is given to each that waits for it in the end, and a
\* connection on which nothing happens is closed by lws.
Fairness == \A t \in Threads : /\ SF_vars(FunctionStep(t))
                               /\ WF_vars(ClientStep(t))
FairSpec == Spec /\ Fairness

-----------------------------------------------------------------------------
Labels == {"idle", "exit", "enter", "wait", "join", "result", "saving"}
Held   == {"wait", "join", "result", "saving"}      \* device_lock is held
DeviceKinds == {"none", "deviceExists", "sendDeviceInfo"}
AppKinds    == {"appExists", "registerApp", "updateApp", "deleteApp"}
Requests == [kind : DeviceKinds, app : {NoOne}]
            \cup [kind : AppKinds, app : Apps]
Answer == [status : {"unset", "ok", "error"}, body : Bodies]
Busy   == {"started", "asking", "answered", "ended"}

\* The type of every variable; the mutex belongs to the thread that has taken it
\* in Enter and has not returned.
TypeOK ==
    /\ up \in {"off", "boot", "serving", "refused"} /\ configured \in BOOLEAN
    /\ devId \in DeviceIds \cup {"", "null"}
    /\ saved \in DeviceIds \cup {"", "null", "torn"}
    /\ mtx \in Threads \cup {NoOne}
    /\ pc \in [Threads -> Labels]
    /\ \A t \in Threads : pc[t] \in Held <=> mtx = t
    /\ call \in [Threads -> Requests]
    /\ slot \in [Threads -> Answer] /\ answer \in [Threads -> Answer]
    /\ client \in [Threads -> Busy \cup {"none", "done"}]
    /\ ready \in [Threads -> BOOLEAN]
    /\ told \subseteq Apps
    /\ devices \subseteq given /\ given \subseteq DeviceIds
    /\ listed \subseteq (DeviceIds \cup {"", "null"}) \X Apps
    /\ faults \subseteq {"loss", "crash"}

\* Requests are made one at a time: while a client thread is running, the thread
\* that started it waits for it and no other is in a request
\* (device.cpp:254-629: the guard spans the request, the wait and the join).
OneRequest ==
    \A t, u \in Threads :
        client[t] \in Busy => /\ pc[t] \in {"wait", "join"}
                              /\ client[u] \in Busy \/ pc[u] \in Held => t = u

\* As long as no request was lost, what a function reads from its thread's slot
\* is the answer to its own request, though the slot is used again and again
\* (device.cpp:301-304, 364-369, 423).
OwnAnswer ==
    "loss" \notin faults =>
        \A t \in Threads : pc[t] = "result" /\ configured => slot[t] = answer[t]

\* A function reports success only when the manager confirmed the request: the
\* status it reads is the one "we're getting from the client"
\* (client_request_config.h:12, device.cpp:301, 369, 423).
NeverStale ==
    \A t \in Threads : pc[t] = "result" /\ slot[t].status = "ok"
                          => answer[t].status = "ok"

\* Once the device serves, the manager knows it, also after the manager has
\* been emptied (device.cpp:137-146).
DeviceIsKnown ==
    "loss" \notin faults /\ up = "serving" /\ configured => devId \in devices

\* The manager never knows this device twice: the id is kept over restarts
\* (device.cpp:684-701, 79-81).
RegisteredOnce == faults = {} => Cardinality(devices) <= 1

\* An application that is instantiated, and that no thread is about to delete,
\* is listed at the manager under this device (application.cpp:419-424).
AppsListed ==
    "loss" \notin faults /\ configured =>
        \A a \in told : \/ <<devId, a>> \in listed
                        \/ \E t \in Threads : call[t] = [kind |-> "deleteApp",
                                                         app |-> a]

\* Every function returns, whatever becomes of its request
\* (device.cpp:281-299: the time limit, then the join).
RequestReturns == \A t \in Threads : pc[t] # "idle" ~> pc[t] = "idle"

\* The server always starts again ("The runtime should start properly even when
\* configuration is not correct", README.md:57; device.cpp:64-70), unless it
\* crashed, which it may do with config.json open and empty.
StartsAgain == "crash" \notin faults => up # "refused"

-----------------------------------------------------------------------------
\* How far the present request is, as the manager could tell.
Stage == IF mtx = NoOne THEN "none"
         ELSE IF client[mtx] \in {"started", "asking"} THEN "asked" ELSE "closed"

Atomic == INSTANCE AtomicRequests
            WITH running <- up \in {"boot", "serving"}, owner <- mtx,
                 stage <- Stage

\* A function's request has its effect at the manager at most once, and never
\* after the function has returned, however late the answer is: nothing of an
\* earlier call can be overtaken by a later one (device.cpp:281-304: the time
\* limit ends the wait for ready_, and then the client thread is joined).
ImplementsAtomicRequests == Atomic!Spec
=============================================================================
