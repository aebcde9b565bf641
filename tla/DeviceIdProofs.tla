--------------------------- MODULE DeviceIdProofs ---------------------------
(* What the device and the RR manager know of each other in ManagerClient,   *)
(* over restarts: the device's id, config.json and the list of applications. *)
EXTENDS ManagerClientProofs, FiniteSetTheorems

Boot == {"deviceExists", "sendDeviceInfo"}

\* The calls there can be: init() makes its own before any other are made.
Phases ==
    /\ \A t \in Threads : pc[t] # "idle" =>
          IF up = "boot" THEN t = Main /\ call[t].kind \in Boot
                         ELSE call[t].kind \in AppKinds
    /\ \A t \in Threads : pc[t] = "saving" =>
          up = "boot" /\ call[t].kind = "sendDeviceInfo"
    /\ \A t \in Threads : pc[t] = "idle" => call[t] = NoCall

\* config.json is empty only while it is being written, or after a crash then.
Torn ==
    "crash" \notin faults =>
        /\ up # "refused"
        /\ saved = "torn" => \E t \in Threads : pc[t] = "saving"

LEMMA PhasesInit == Init => Phases /\ Torn
BY DEF Init, Phases, Torn, NoCall

-----------------------------------------------------------------------------
\* A thread goes on with its call, or to the end of it.
LEMMA PhasesGoOn ==
    ASSUME Inv, Phases, NEW t \in Threads, NEW l \in Labels \ {"idle", "saving"},
           pc[t] # "idle", Goto(t, l), up' = up, call' = call
    PROVE  Phases'
BY DEF Phases, Goto, Inv, TypeOK

LEMMA PhasesEnd ==
    ASSUME Inv, Phases, NEW t \in Threads, pc[t] # "idle", Idle(t),
           up' = IF up = "boot" THEN "serving" ELSE up
    PROVE  Phases'
<1>1. /\ pc' = [pc EXCEPT ![t] = "idle"] /\ call' = [call EXCEPT ![t] = NoCall]
      /\ pc \in [Threads -> Labels] /\ call \in [Threads -> Requests]
  BY DEF Idle, Goto, Inv, TypeOK
<1>2. \A u \in Threads : u # t => pc'[u] = pc[u] /\ call'[u] = call[u]
  BY <1>1
<1>3. pc'[t] = "idle" /\ call'[t] = NoCall BY <1>1
<1>4. up' # "boot" BY DEF Inv, TypeOK
<1>5. up = "boot" => t = Main /\ \A u \in Threads : u # t => pc[u] = "idle"
  BY DEF Phases
<1>6. \A u \in Threads : u # t /\ pc[u] # "idle" =>
         call'[u].kind \in AppKinds /\ pc[u] # "saving"
  BY <1>2, <1>5 DEF Phases
<1> QED BY <1>2, <1>3, <1>4, <1>6 DEF Phases

\* A call is followed by another one.
LEMMA PhasesCallAgain ==
    ASSUME Inv, Phases, NEW t \in Threads, pc[t] # "idle", Goto(t, "exit"),
           up' = up, NEW k, NEW a, Calls(t, k, a),
           IF up = "boot" THEN k \in Boot ELSE k \in AppKinds
    PROVE  Phases'
<1>1. /\ pc' = [pc EXCEPT ![t] = "exit"]
      /\ call' = [call EXCEPT ![t] = [kind |-> k, app |-> a]]
      /\ pc \in [Threads -> Labels] /\ call \in [Threads -> Requests]
  BY DEF Goto, Calls, Inv, TypeOK
<1>2. \A u \in Threads : u # t => pc'[u] = pc[u] /\ call'[u] = call[u]
  BY <1>1
<1>3. pc'[t] = "exit" /\ call'[t].kind = k BY <1>1
<1> QED BY <1>2, <1>3 DEF Phases

LEMMA PhasesFunction ==
    ASSUME Inv, Phases, NEW t \in Threads, FunctionStep(t)
    PROVE  Phases'
<1> USE DEF Labels
<1>0. up \in {"off", "boot", "serving", "refused"} /\ pc[t] # "idle"
         => up \in {"boot", "serving"}
  BY DEF Inv, TypeOK, AtRest
<1>1. CASE ExitClient(t) \/ Enter(t) \/ Woken(t) \/ TimedOut(t) \/ Join(t)
  BY <1>1, PhasesGoOn DEF ExitClient, Enter, Woken, TimedOut, Join, device
<1>2. CASE DeviceExists(t)
  <2>1. pc[t] = "result" /\ call[t].kind = "deviceExists"
    BY <1>2 DEF DeviceExists, Returns
  <2>2. up = "boot" BY <2>1 DEF Phases, AppKinds
  <2> QED BY <1>2, <2>1, <2>2, PhasesEnd, PhasesCallAgain DEF DeviceExists, Boot
<1>3. CASE SendDeviceInfo(t)
  <2>1. pc[t] = "result" /\ call[t].kind = "sendDeviceInfo"
    BY <1>3 DEF SendDeviceInfo, Returns
  <2>2. up = "boot" BY <2>1 DEF Phases, AppKinds
  <2>3. CASE up' = "serving" /\ Idle(t) BY <2>1, <2>2, <2>3, PhasesEnd
  <2>4. CASE Goto(t, "saving") /\ UNCHANGED <<up, call>>
    BY <2>1, <2>2, <2>4 DEF Goto, Phases, Inv, TypeOK
  <2> QED BY <1>3, <2>3, <2>4 DEF SendDeviceInfo
<1>4. CASE SaveSettings(t)
  <2>1. pc[t] = "saving" /\ up = "boot" /\ up' = "serving" /\ Idle(t)
    BY <1>4 DEF SaveSettings, Phases
  <2> QED BY <2>1, PhasesEnd
<1>5. CASE AppExists(t) \/ RegisterApp(t) \/ UpdateApp(t) \/ DeleteApp(t)
  <2>1. /\ pc[t] = "result" /\ call[t].kind \in AppKinds /\ up' = up
        /\ Idle(t) \/ (Goto(t, "exit") /\ Calls(t, "registerApp", call[t].app))
    BY <1>5 DEF AppExists, RegisterApp, UpdateApp, DeleteApp, Returns, AppKinds
  <2>2. up # "boot" BY <2>1 DEF Phases, Boot, AppKinds
  <2> QED BY <2>1, <2>2, PhasesEnd, PhasesCallAgain DEF AppKinds
<1> QED BY <1>1, <1>2, <1>3, <1>4, <1>5 DEF FunctionStep

LEMMA PhasesNext == Inv /\ Phases /\ [Next]_vars => Phases'
<1> SUFFICES ASSUME Inv, Phases, [Next]_vars PROVE Phases' OBVIOUS
<1>1. CASE Stop \/ Crash
  BY <1>1 DEF Stop, Crash, Reset, Phases
<1>2. CASE StartRefused \/ Forget
  BY <1>2 DEF StartRefused, Forget, Phases, Inv, AtRest, caller, device
<1>3. CASE Start
  <2>1. /\ up' = "boot" /\ pc' = [pc EXCEPT ![Main] = "exit"]
        /\ call' = [call EXCEPT ![Main] = [kind |-> "deviceExists",
                                           app |-> NoOne]]
        /\ pc \in [Threads -> Labels] /\ call \in [Threads -> Requests]
        /\ \A t \in Threads : pc[t] = "idle"
    BY <1>3 DEF Start, Goto, Calls, Inv, TypeOK, AtRest
  <2>2. Main \in Threads BY DEF Threads
  <2>3. \A t \in Threads : t # Main => pc'[t] = "idle" /\ call'[t] = call[t]
    BY <2>1
  <2>4. pc'[Main] = "exit" /\ call'[Main].kind = "deviceExists" BY <2>1, <2>2
  <2> QED BY <2>1, <2>3, <2>4 DEF Phases, Boot
<1>4. ASSUME NEW t \in Threads, FunctionStep(t) \/ ClientStep(t)
      PROVE  Phases'
  <2>1. CASE FunctionStep(t) BY <2>1, PhasesFunction
  <2>2. CASE ClientStep(t)
    <3>1. UNCHANGED <<up, pc, call>>
      BY <2>2 DEF ClientStep, Run, ConnectFails, ManagerAnswers, Read, Breaks,
         Ready, device, caller
    <3> QED BY <3>1 DEF Phases
  <2> QED BY <1>4, <2>1, <2>2
<1>5. ASSUME NEW t \in Workers, NEW a \in Apps,
             Instantiate(t, a) \/ Update(t, a) \/ Delete(t, a)
      PROVE  Phases'
  <2>1. PICK k \in AppKinds : Asks(t, k, a)
    BY <1>5 DEF Instantiate, Update, Delete, AppKinds
  <2>2. /\ up = "serving" /\ up' = up /\ pc' = [pc EXCEPT ![t] = "exit"]
        /\ call' = [call EXCEPT ![t] = [kind |-> k, app |-> a]]
        /\ pc \in [Threads -> Labels] /\ call \in [Threads -> Requests]
        /\ t \in Threads
    BY <2>1 DEF Asks, Goto, Calls, Inv, TypeOK, Threads, device
  <2>3. \A u \in Threads : u # t => pc'[u] = pc[u] /\ call'[u] = call[u]
    BY <2>2
  <2>4. pc'[t] = "exit" /\ call'[t].kind = k BY <2>2
  <2> QED BY <2>2, <2>3, <2>4 DEF Phases
<1>6. CASE UNCHANGED vars BY <1>6 DEF vars, device, caller, Phases
<1> QED BY <1>1, <1>2, <1>3, <1>4, <1>5, <1>6 DEF Next


-----------------------------------------------------------------------------
(* config.json                                                              *)

LEMMA TornNext == Inv /\ Phases /\ Torn /\ [Next]_vars => Torn'
<1> SUFFICES ASSUME Inv, Phases, Torn, [Next]_vars, "crash" \notin faults'
             PROVE  /\ up' # "refused"
                    /\ saved' = "torn" => \E t \in Threads : pc'[t] = "saving"
  BY DEF Torn
<1>0. /\ up # "refused"
      /\ saved = "torn" => \E t \in Threads : pc[t] = "saving"
  BY FaultsStay DEF Torn
<1>1. CASE Stop \/ Crash
  BY <1>0, <1>1 DEF Stop, Crash
<1>2. CASE Start \/ StartRefused \/ Forget
  <2>1. \A t \in Threads : pc[t] # "saving"
    BY <1>2 DEF Start, StartRefused, Forget, Inv, AtRest
  <2>2. saved # "torn" BY <1>0, <2>1
  <2> QED BY <1>0, <1>2, <2>2 DEF Start, StartRefused, Forget, device
<1>3. ASSUME NEW t \in Threads, FunctionStep(t) \/ ClientStep(t)
      PROVE  /\ up' # "refused"
             /\ saved' = "torn" => \E u \in Threads : pc'[u] = "saving"
  <2>0. pc \in [Threads -> Labels] BY DEF Inv, TypeOK
  <2>1. CASE SaveSettings(t)
    <3>1. saved' # "torn"
      BY <2>1, IdsAssumption DEF SaveSettings, Inv, TypeOK
    <3> QED BY <2>1, <3>1 DEF SaveSettings
  <2>2. CASE SendDeviceInfo(t)
    <3>1. pc[t] = "result" BY <2>2 DEF SendDeviceInfo, Returns
    <3>2. \A u \in Threads : u # t => pc'[u] = pc[u]
      BY <2>0, <2>2 DEF SendDeviceInfo, Idle, Goto
    <3>3. CASE Goto(t, "saving") /\ UNCHANGED up
      BY <1>0, <2>0, <3>3 DEF Goto
    <3>4. CASE UNCHANGED saved /\ up' = "serving"
      BY <1>0, <3>1, <3>2, <3>4
    <3> QED BY <2>2, <3>3, <3>4 DEF SendDeviceInfo
  <2>3. CASE ClientStep(t)
    BY <1>0, <2>3 DEF ClientStep, Run, ConnectFails, ManagerAnswers, Read,
       Breaks, Ready, device, caller
  <2>4. ASSUME pc[t] # "saving", up' \in {up, "serving"}, saved' = saved,
               \A u \in Threads : u # t => pc'[u] = pc[u]
        PROVE  /\ up' # "refused"
               /\ saved' = "torn" => \E u \in Threads : pc'[u] = "saving"
    BY <1>0, <2>4
  <2>5. CASE ExitClient(t) \/ Enter(t) \/ Woken(t) \/ TimedOut(t) \/ Join(t)
    BY <2>0, <2>4, <2>5 DEF ExitClient, Enter, Woken, TimedOut, Join, Goto,
       device
  <2>6. CASE DeviceExists(t)
    BY <2>0, <2>4, <2>6 DEF DeviceExists, Returns, Idle, Goto
  <2>7. CASE AppExists(t) \/ RegisterApp(t) \/ UpdateApp(t) \/ DeleteApp(t)
    BY <2>0, <2>4, <2>7 DEF AppExists, RegisterApp, UpdateApp, DeleteApp,
       Returns, Idle, Goto
  <2> QED BY <1>3, <2>1, <2>2, <2>3, <2>5, <2>6, <2>7 DEF FunctionStep
<1>4. ASSUME NEW t \in Workers, NEW a \in Apps,
             Instantiate(t, a) \/ Update(t, a) \/ Delete(t, a)
      PROVE  /\ up' # "refused"
             /\ saved' = "torn" => \E u \in Threads : pc'[u] = "saving"
  <2>1. /\ UNCHANGED device /\ pc' = [pc EXCEPT ![t] = "exit"]
        /\ pc[t] = "idle" /\ pc \in [Threads -> Labels]
    BY <1>4 DEF Instantiate, Update, Delete, Asks, Goto, Inv, TypeOK
  <2> QED BY <1>0, <2>1 DEF device
<1>5. CASE UNCHANGED vars BY <1>0, <1>5 DEF vars, device, caller
<1> QED BY <1>1, <1>2, <1>3, <1>4, <1>5 DEF Next

\* Unless the process ended while it wrote config.json, it starts again, however
\* often it is stopped and whatever requests are lost (device.cpp:64-70,
\* 684-701).
THEOREM StartsAgainAlways == Spec => []StartsAgain
<1>1. Torn => StartsAgain BY DEF Torn, StartsAgain
<1> QED BY <1>1, InvInit, InvNext, PhasesInit, PhasesNext, TornNext, PTL
    DEF Spec


-----------------------------------------------------------------------------
(* The device and the manager                                               *)

\* The manager has acted on the request of thread t.
Handled(t) == \/ pc[t] = "result"
              \/ /\ pc[t] \in {"wait", "join"}
                 /\ client[t] \in {"answered", "ended", "done"}

\* What the answers of init()'s two calls say of the device.
Truthful(t) ==
    Handled(t) =>
        /\ call[t].kind = "deviceExists" =>
              answer[t] = Ok("null") \/ (answer[t] = Ok("info") /\ devId \in devices)
        /\ call[t].kind = "sendDeviceInfo" => \E d \in devices : answer[t] = Ok(d)
Known ==
    "loss" \notin faults /\ configured =>
        /\ up = "serving" => devId \in devices
        /\ \A t \in Threads : pc[t] = "saving" => devId \in devices
        /\ \A t \in Threads : Truthful(t)

\* A step of thread t is none of another's call, and no device is forgotten.
LEMMA OthersCalls ==
    ASSUME Inv, NEW t \in Threads, FunctionStep(t) \/ ClientStep(t)
    PROVE  /\ \A u \in Threads : u # t => call'[u] = call[u]
           /\ devices \subseteq devices'
<1>0. call \in [Threads -> Requests] BY DEF Inv, TypeOK
<1>1. CASE ExitClient(t) \/ Enter(t) \/ Woken(t) \/ TimedOut(t) \/ Join(t)
  BY <1>1 DEF ExitClient, Enter, Woken, TimedOut, Join, server
<1>2. CASE ClientStep(t)
  BY <1>2 DEF ClientStep, Run, ConnectFails, ManagerAnswers, Read, Breaks, Ready,
     caller, server
<1>3. CASE DeviceExists(t) \/ SendDeviceInfo(t) \/ SaveSettings(t)
  BY <1>0, <1>3 DEF DeviceExists, SendDeviceInfo, SaveSettings, Returns, Idle,
     Calls, server
<1>4. CASE AppExists(t) \/ RegisterApp(t) \/ UpdateApp(t) \/ DeleteApp(t)
  BY <1>0, <1>4 DEF AppExists, RegisterApp, UpdateApp, DeleteApp, Returns, Idle,
     Calls, server
<1> QED BY <1>1, <1>2, <1>3, <1>4 DEF FunctionStep

\* On its way through a request a thread's call and answer stay; the answer is
\* made in ManagerAnswers.
LEMMA OnTheWay ==
    ASSUME Inv, NEW t \in Threads, configured, "loss" \notin faults',
           \/ ExitClient(t) \/ Enter(t) \/ Woken(t) \/ TimedOut(t) \/ Join(t)
           \/ (ClientStep(t) /\ ~ManagerAnswers(t))
    PROVE  /\ Handled(t)' <=> Handled(t)
           /\ UNCHANGED <<up, devId, saved, call, answer, devices>>
           /\ pc'[t] \notin {"saving", "idle"} \/ pc' = pc
<1>0. /\ pc \in [Threads -> Labels]
      /\ client \in [Threads -> Busy \cup {"none", "done"}]
      /\ client[t] \in Busy => pc[t] \in {"wait", "join"}
  BY DEF Inv, TypeOK, Awaited
<1>1. CASE ExitClient(t) \/ Enter(t) \/ Woken(t) \/ TimedOut(t) \/ Join(t)
  BY <1>0, <1>1 DEF ExitClient, Enter, Woken, TimedOut, Join, Goto, Handled,
     http, device, server
<1>2. CASE Run(t) \/ Read(t) \/ Ready(t)
  BY <1>0, <1>2 DEF Run, Read, Ready, Handled, caller, device, server
<1>3. ~ConnectFails(t) /\ ~Breaks(t) BY DEF ConnectFails, Breaks
<1> QED BY <1>1, <1>2, <1>3 DEF ClientStep

\* What the manager answers to init()'s calls is so.
LEMMA AnswersTruly ==
    ASSUME Inv, NEW t \in Threads, ManagerAnswers(t)
    PROVE  /\ call[t].kind = "deviceExists" =>
              /\ devices' = devices
              /\ answer'[t] = Ok(IF devId \in devices THEN "info" ELSE "null")
           /\ call[t].kind = "sendDeviceInfo" =>
              \E d \in DeviceIds : /\ devices' = devices \cup {d}
                                   /\ answer'[t] = Ok(d)
           /\ call[t].kind \in AppKinds => devices' = devices
           /\ UNCHANGED <<up, devId, saved, pc, call, configured>>
<1>0. answer \in [Threads -> Answer] BY DEF Inv, TypeOK
<1>1. call[t].kind = "deviceExists" =>
        devices' = devices
        /\ answer' = [answer EXCEPT ![t] =
                         Ok(IF devId \in devices THEN "info" ELSE "null")]
  BY DEF ManagerAnswers, server
<1>2. call[t].kind = "sendDeviceInfo" =>
        \E d \in DeviceIds : devices' = devices \cup {d}
                             /\ answer' = [answer EXCEPT ![t] = Ok(d)]
  BY DEF ManagerAnswers
<1>3. call[t].kind \in AppKinds => devices' = devices
  BY DEF ManagerAnswers, server, AppKinds
<1> QED BY <1>0, <1>1, <1>2, <1>3 DEF ManagerAnswers, device, caller

LEMMA KnownOthers ==
    ASSUME Inv, Phases, Known, "loss" \notin faults, configured,
           NEW t \in Threads, FunctionStep(t) \/ ClientStep(t),
           up # "boot" => devId' = devId
    PROVE  \A u \in Threads : u # t =>
              /\ pc'[u] # "saving"
              /\ Truthful(u)'
<1> SUFFICES ASSUME NEW u \in Threads, u # t
             PROVE  pc'[u] # "saving" /\ Truthful(u)'
  OBVIOUS
<1>1. /\ pc'[u] = pc[u] /\ client'[u] = client[u] /\ answer'[u] = answer[u]
      /\ call'[u] = call[u] /\ devices \subseteq devices'
  BY OthersFilled, OthersCalls
<1>2. pc[t] # "idle"
  BY DEF FunctionStep, ClientStep, ExitClient, Enter, Woken, TimedOut, Join, Inv,
     DeviceExists, SendDeviceInfo, SaveSettings, AppExists, RegisterApp,
     UpdateApp, DeleteApp, Returns, Awaited, Busy, Run, ConnectFails,
     ManagerAnswers, Read, Breaks, Ready
<1>3. CASE up = "boot"
  <2>1. pc[u] = "idle" BY <1>2, <1>3 DEF Phases
  <2> QED BY <1>1, <2>1 DEF Truthful, Handled
<1>4. CASE up # "boot"
  <2>1. pc[u] # "saving" /\ (Handled(u) => call[u].kind \in AppKinds)
    BY <1>4 DEF Phases, Handled
  <2> QED BY <1>1, <2>1 DEF Truthful, Handled, AppKinds
<1> QED BY <1>3, <1>4

LEMMA KnownOwn ==
    ASSUME Inv, Phases, Answered, Known, "loss" \notin faults', configured,
           "loss" \notin faults, NEW t \in Threads, FunctionStep(t) \/ ClientStep(t)
    PROVE  /\ up' = "serving" => devId' \in devices'
           /\ pc'[t] = "saving" => devId' \in devices'
           /\ Truthful(t)'
           /\ up # "boot" => devId' = devId
<1>0. /\ pc \in [Threads -> Labels] /\ devices \subseteq devices'
      /\ devices \subseteq DeviceIds
      /\ SlotFilled(t) /\ Truthful(t) /\ (up = "serving" => devId \in devices)
      /\ pc[t] = "saving" => devId \in devices
  BY OthersCalls DEF Inv, TypeOK, Answered, Known
<1>1. CASE \/ ExitClient(t) \/ Enter(t) \/ Woken(t) \/ TimedOut(t) \/ Join(t)
           \/ (ClientStep(t) /\ ~ManagerAnswers(t))
  <2>1. /\ Handled(t)' <=> Handled(t)
        /\ UNCHANGED <<up, devId, call, answer, devices>>
        /\ pc'[t] # "saving" \/ pc' = pc
    BY <1>1, OnTheWay
  <2> QED BY <1>0, <2>1 DEF Truthful
<1>2. CASE ManagerAnswers(t)
  <2>1. /\ UNCHANGED <<up, devId, pc, call>>
        /\ call[t].kind = "deviceExists" =>
              /\ devices' = devices
              /\ answer'[t] = Ok(IF devId \in devices THEN "info" ELSE "null")
        /\ call[t].kind = "sendDeviceInfo" =>
              \E d \in DeviceIds : devices' = devices \cup {d} /\ answer'[t] = Ok(d)
    BY <1>2, AnswersTruly
  <2>2. Truthful(t)' BY <2>1 DEF Truthful
  <2> QED BY <1>0, <2>1, <2>2
<1>3. CASE DeviceExists(t)
  <2>1. /\ pc[t] = "result" /\ call[t].kind = "deviceExists" /\ up = "boot"
        /\ slot[t] = answer[t] /\ Handled(t)
    BY <1>0, <1>3 DEF DeviceExists, Returns, SlotFilled, Handled, Phases, AppKinds
  <2>2. slot[t] = Ok("null") \/ (slot[t] = Ok("info") /\ devId \in devices)
    BY <1>0, <2>1 DEF Truthful
  <2>3. pc'[t] \in {"idle", "exit"} BY <1>0, <1>3 DEF DeviceExists, Idle, Goto
  <2>4. up' = "serving" => devId' = devId /\ slot[t].body # "null"
    BY <1>3, <2>1 DEF DeviceExists, DeviceKnown
  <2> QED BY <1>0, <2>1, <2>2, <2>3, <2>4 DEF Ok, Truthful, Handled
<1>4. CASE SendDeviceInfo(t)
  <2>1. /\ pc[t] = "result" /\ call[t].kind = "sendDeviceInfo" /\ up = "boot"
        /\ slot[t] = answer[t] /\ Handled(t)
    BY <1>0, <1>4 DEF SendDeviceInfo, Returns, SlotFilled, Handled, Phases,
       AppKinds
  <2>2. PICK d \in devices : slot[t] = Ok(d) BY <1>0, <2>1 DEF Truthful
  <2>3. ~Fails(t) /\ slot[t].body = d BY <2>2 DEF Fails, Ok
  <2>4. /\ devId' = CleanDeviceId(d) /\ Goto(t, "saving") /\ up' = up
    BY <1>4, <2>3 DEF SendDeviceInfo
  <2>5. devId' = d BY <1>0, <2>4, IdsAssumption DEF CleanDeviceId
  <2>6. pc'[t] = "saving" BY <1>0, <2>4 DEF Goto
  <2> QED BY <1>0, <2>1, <2>4, <2>5, <2>6 DEF Truthful, Handled
<1>5. CASE SaveSettings(t)
  <2>1. pc'[t] = "idle" /\ devId' = devId /\ pc[t] = "saving"
    BY <1>0, <1>5 DEF SaveSettings, Idle, Goto
  <2> QED BY <1>0, <2>1 DEF Truthful, Handled
<1>6. CASE AppExists(t) \/ RegisterApp(t) \/ UpdateApp(t) \/ DeleteApp(t)
  <2>1. /\ pc'[t] \in {"idle", "exit"} /\ UNCHANGED <<up, devId>>
    BY <1>0, <1>6 DEF AppExists, RegisterApp, UpdateApp, DeleteApp, Idle, Goto
  <2> QED BY <1>0, <2>1 DEF Truthful, Handled
<1> QED BY <1>1, <1>2, <1>3, <1>4, <1>5, <1>6 DEF FunctionStep

LEMMA KnownNext == Inv /\ Phases /\ Answered /\ Known /\ [Next]_vars => Known'
<1> SUFFICES ASSUME Inv, Phases, Answered, Known, [Next]_vars,
                    "loss" \notin faults', configured'
             PROVE  /\ up' = "serving" => devId' \in devices'
                    /\ \A t \in Threads : pc'[t] = "saving" => devId' \in devices'
                    /\ \A t \in Threads : Truthful(t)'
  BY DEF Known
<1>0. "loss" \notin faults /\ configured BY FaultsStay
<1>1. CASE Stop \/ Crash
  BY <1>1 DEF Stop, Crash, Reset, Truthful, Handled
<1>2. CASE Start \/ StartRefused \/ Forget
  <2>1. /\ up' # "serving" /\ pc \in [Threads -> Labels]
        /\ \A t \in Threads : pc[t] = "idle"
    BY <1>2 DEF Start, StartRefused, Forget, Inv, AtRest, device, TypeOK
  <2>2. \A t \in Threads : pc'[t] \in {"idle", "exit"}
    BY <1>2, <2>1 DEF Start, StartRefused, Forget, Goto, caller
  <2> QED BY <2>1, <2>2 DEF Truthful, Handled
<1>3. ASSUME NEW t \in Threads, FunctionStep(t) \/ ClientStep(t)
      PROVE  /\ up' = "serving" => devId' \in devices'
             /\ \A u \in Threads : pc'[u] = "saving" => devId' \in devices'
             /\ \A u \in Threads : Truthful(u)'
  BY <1>0, <1>3, KnownOwn, KnownOthers
<1>4. ASSUME NEW t \in Workers, NEW a \in Apps,
             Instantiate(t, a) \/ Update(t, a) \/ Delete(t, a)
      PROVE  /\ up' = "serving" => devId' \in devices'
             /\ \A u \in Threads : pc'[u] = "saving" => devId' \in devices'
             /\ \A u \in Threads : Truthful(u)'
  <2>1. /\ up = "serving" /\ UNCHANGED <<up, devId, devices, answer, client>>
        /\ pc \in [Threads -> Labels] /\ pc' = [pc EXCEPT ![t] = "exit"]
        /\ call \in [Threads -> Requests]
        /\ \E k : call' = [call EXCEPT ![t] = [kind |-> k, app |-> a]]
    BY <1>4 DEF Instantiate, Update, Delete, Asks, Goto, Calls, device, http,
       server, Inv, TypeOK
  <2>2. \A u \in Threads : Truthful(u)'
    BY <1>0, <2>1 DEF Known, Truthful, Handled
  <2> QED BY <1>0, <2>1, <2>2 DEF Known
<1>5. CASE UNCHANGED vars
  BY <1>0, <1>5 DEF vars, device, caller, http, server, Known, Truthful, Handled
<1> QED BY <1>1, <1>2, <1>3, <1>4, <1>5 DEF Next

\* A device that serves is one the manager knows, over restarts of the one and
\* losses of memory of the other, unless an answer was lost (device.cpp:137-146).
THEOREM DeviceIsKnownAlways == Spec => []DeviceIsKnown
<1>1. Init => Known BY DEF Init, Known, Truthful, Handled
<1>2. Init => Answered BY DEF Init, Answered, SlotFilled
<1>3. Known => DeviceIsKnown BY DEF Known, DeviceIsKnown
<1> QED BY <1>1, <1>2, <1>3, InvInit, InvNext, PhasesInit, PhasesNext,
           AnsweredNext, KnownNext, PTL DEF Spec


-----------------------------------------------------------------------------
(* The manager knows the device once                                        *)

\* How many devices there can be, by where thread t is in init().
OnceIn(t) ==
    /\ call[t].kind = "deviceExists" /\ pc[t] # "idle" =>
          /\ devId = saved /\ devices \subseteq {saved}
          /\ Handled(t) /\ answer[t] = Ok("null") => devId \notin devices
    /\ call[t].kind = "sendDeviceInfo" /\ pc[t] \notin {"idle", "saving"} =>
          IF Handled(t) THEN \A d : answer[t] = Ok(d) => devices \subseteq {d}
                        ELSE devices = {}
    /\ pc[t] = "saving" => devices \subseteq {devId}
Once ==
    faults = {} =>
        IF configured
        THEN /\ \E d : devices \subseteq {d}
             /\ up \in {"off", "serving"} => devices \subseteq {saved}
             /\ up = "serving" => devId = saved
             /\ \A t \in Threads : OnceIn(t)
        ELSE devices = {} /\ \A t \in Threads : client[t] = "none"

LEMMA OnceOthers ==
    ASSUME Inv, Phases, NEW t \in Threads, FunctionStep(t) \/ ClientStep(t)
    PROVE  \A u \in Threads : u # t => OnceIn(u)'
<1> SUFFICES ASSUME NEW u \in Threads, u # t PROVE OnceIn(u)' OBVIOUS
<1>1. pc'[u] = pc[u] /\ call'[u] = call[u] BY OthersFilled, OthersCalls
<1>2. pc[t] # "idle"
  BY DEF FunctionStep, ClientStep, ExitClient, Enter, Woken, TimedOut, Join, Inv,
     DeviceExists, SendDeviceInfo, SaveSettings, AppExists, RegisterApp,
     UpdateApp, DeleteApp, Returns, Awaited, Busy, Run, ConnectFails,
     ManagerAnswers, Read, Breaks, Ready
<1>3. CASE up = "boot"
  <2>1. pc[u] = "idle" BY <1>2, <1>3 DEF Phases
  <2> QED BY <1>1, <2>1 DEF OnceIn
<1>4. CASE up # "boot"
  <2>1. pc[u] # "saving" /\ (pc[u] # "idle" => call[u].kind \in AppKinds)
    BY <1>4 DEF Phases
  <2> QED BY <1>1, <2>1 DEF OnceIn, AppKinds
<1> QED BY <1>3, <1>4

LEMMA OnceOwn ==
    ASSUME Inv, Phases, Answered, Known, Once, NEW t \in Threads, configured,
           FunctionStep(t) \/ ClientStep(t), faults = {}, faults' = {}
    PROVE  /\ \E d : devices' \subseteq {d}
           /\ up' \in {"off", "serving"} => devices' \subseteq {saved'}
           /\ up' = "serving" => devId' = saved'
           /\ OnceIn(t)'
<1>0. /\ pc \in [Threads -> Labels] /\ devices \subseteq DeviceIds
      /\ SlotFilled(t) /\ Truthful(t) /\ OnceIn(t)
      /\ \E d : devices \subseteq {d}
      /\ up \in {"off", "serving"} => devices \subseteq {saved}
      /\ up = "serving" => devId = saved
      /\ call \in [Threads -> Requests]
  BY DEF Inv, TypeOK, Answered, Known, Once
<1>1. CASE \/ ExitClient(t) \/ Enter(t) \/ Woken(t) \/ TimedOut(t) \/ Join(t)
           \/ (ClientStep(t) /\ ~ManagerAnswers(t))
  <2>1. /\ Handled(t)' <=> Handled(t)
        /\ UNCHANGED <<up, devId, saved, call, answer, devices>>
        /\ pc'[t] \notin {"saving", "idle"} \/ pc' = pc
    BY <1>1, OnTheWay
  <2>2. pc[t] \notin {"idle", "saving"}
    BY <1>1 DEF ClientStep, ExitClient, Enter, Woken, TimedOut, Join, Inv,
     Awaited, Busy, Run, ConnectFails, ManagerAnswers, Read, Breaks, Ready
  <2> QED BY <1>0, <2>1, <2>2 DEF OnceIn
<1>2. CASE ManagerAnswers(t)
  <2>0. /\ pc[t] \in {"wait", "join"} /\ ~Handled(t) /\ Handled(t)'
    BY <1>2 DEF ManagerAnswers, Inv, Awaited, Busy, Handled, caller, TypeOK
  <2>1. /\ UNCHANGED <<up, devId, saved, pc, call>>
        /\ call[t].kind = "deviceExists" =>
              /\ devices' = devices
              /\ answer'[t] = Ok(IF devId \in devices THEN "info" ELSE "null")
        /\ call[t].kind = "sendDeviceInfo" =>
              \E d \in DeviceIds : devices' = devices \cup {d} /\ answer'[t] = Ok(d)
        /\ call[t].kind \in AppKinds => devices' = devices
    BY <1>2, AnswersTruly
  <2>2. CASE call[t].kind = "deviceExists"
    BY <1>0, <2>0, <2>1, <2>2 DEF OnceIn, Ok
  <2>3. CASE call[t].kind = "sendDeviceInfo"
    <3>1. up = "boot" /\ devices = {}
      BY <1>0, <2>0, <2>3 DEF OnceIn, Phases, AppKinds
    <3>2. PICK d \in DeviceIds : devices' = {d} /\ answer'[t] = Ok(d)
      BY <2>1, <2>3, <3>1
    <3> QED BY <2>0, <2>1, <2>3, <3>1, <3>2 DEF OnceIn, Ok
  <2>4. CASE call[t].kind \in AppKinds
    BY <1>0, <2>0, <2>1, <2>4 DEF OnceIn, AppKinds
  <2> QED BY <1>0, <2>0, <2>2, <2>3, <2>4 DEF Phases, Boot
<1>3. CASE DeviceExists(t)
  <2>1. /\ pc[t] = "result" /\ call[t].kind = "deviceExists" /\ up = "boot"
        /\ slot[t] = answer[t] /\ Handled(t) /\ UNCHANGED <<saved, devices>>
    BY <1>0, <1>3 DEF DeviceExists, Returns, SlotFilled, Handled, Phases,
       AppKinds, server
  <2>2. /\ slot[t] \in {Ok("null"), Ok("info")}
        /\ slot[t] = Ok("null") => devId \notin devices
        /\ devId = saved /\ devices \subseteq {saved}
    BY <1>0, <2>1 DEF Truthful, OnceIn
  <2>3. CASE DeviceKnown(t) /\ up' = "serving" /\ Idle(t) /\ UNCHANGED devId
    <3>1. pc'[t] = "idle" BY <1>0, <2>3 DEF Idle, Goto
    <3> QED BY <1>0, <2>1, <2>2, <2>3, <3>1 DEF OnceIn
  <2>4. CASE /\ Fails(t) \/ slot[t].body = "null"
             /\ up' = up /\ Goto(t, "exit") /\ Calls(t, "sendDeviceInfo", NoOne)
    <3>1. slot[t] = Ok("null") BY <2>2, <2>4 DEF Ok, Fails
    <3>2. devices = {} BY <2>2, <3>1
    <3>3. pc'[t] = "exit" /\ call'[t].kind = "sendDeviceInfo"
      BY <1>0, <2>4 DEF Goto, Calls
    <3>4. up' = up BY <2>4
    <3> QED BY <2>1, <3>2, <3>3, <3>4 DEF OnceIn, Handled
  <2> QED BY <1>3, <2>3, <2>4 DEF DeviceExists
<1>4. CASE SendDeviceInfo(t)
  <2>1. /\ pc[t] = "result" /\ call[t].kind = "sendDeviceInfo" /\ up = "boot"
        /\ slot[t] = answer[t] /\ Handled(t) /\ UNCHANGED devices
    BY <1>0, <1>4 DEF SendDeviceInfo, Returns, SlotFilled, Handled, Phases,
       AppKinds, server
  <2>2. PICK d \in devices : slot[t] = Ok(d) BY <1>0, <2>1 DEF Truthful
  <2>3. ~Fails(t) /\ slot[t].body = d BY <2>2 DEF Fails, Ok
  <2>4. devices \subseteq {d} BY <1>0, <2>1, <2>2 DEF OnceIn
  <2>5. devId' = CleanDeviceId(d) /\ Goto(t, "saving") /\ up' = up /\ call' = call
    BY <1>4, <2>3 DEF SendDeviceInfo
  <2>6. devId' = d BY <1>0, <2>5, IdsAssumption DEF CleanDeviceId
  <2>7. pc'[t] = "saving" BY <1>0, <2>5 DEF Goto
  <2> QED BY <2>1, <2>4, <2>5, <2>6, <2>7 DEF OnceIn
<1>5. CASE SaveSettings(t)
  <2>1. /\ pc'[t] = "idle" /\ devId' = devId /\ pc[t] = "saving"
        /\ saved' = devId /\ devices' = devices
    BY <1>0, <1>5 DEF SaveSettings, Idle, Goto, server
  <2> QED BY <1>0, <2>1 DEF OnceIn
<1>6. CASE AppExists(t) \/ RegisterApp(t) \/ UpdateApp(t) \/ DeleteApp(t)
  <2>1. /\ UNCHANGED <<up, devId, saved, devices>>
        /\ Idle(t) \/ (Goto(t, "exit") /\ Calls(t, "registerApp", call[t].app))
    BY <1>6 DEF AppExists, RegisterApp, UpdateApp, DeleteApp, Returns, server
  <2>2. CASE Idle(t)
    <3>1. pc'[t] = "idle" BY <1>0, <2>2 DEF Idle, Goto
    <3> QED BY <1>0, <2>1, <3>1 DEF OnceIn
  <2>3. CASE Goto(t, "exit") /\ Calls(t, "registerApp", call[t].app)
    <3>1. pc'[t] = "exit" /\ call'[t].kind = "registerApp"
      BY <1>0, <2>3 DEF Goto, Calls
    <3> QED BY <1>0, <2>1, <3>1 DEF OnceIn
  <2> QED BY <2>1, <2>2, <2>3
<1> QED BY <1>1, <1>2, <1>3, <1>4, <1>5, <1>6 DEF FunctionStep

\* Without a manager no request is made.
LEMMA OnceUnconfigured ==
    ASSUME Inv, ~configured, devices = {}, \A t \in Threads : client[t] = "none",
           [Next]_vars
    PROVE  devices' = {} /\ \A t \in Threads : client'[t] = "none"
<1>0. client \in [Threads -> Busy \cup {"none", "done"}] BY DEF Inv, TypeOK
<1>1. CASE Start \/ StartRefused \/ Stop \/ Crash \/ Forget
  BY <1>1 DEF Start, StartRefused, Stop, Crash, Forget, Reset, http, server
<1>2. ASSUME NEW t \in Threads, FunctionStep(t)
      PROVE  devices' = {} /\ \A u \in Threads : client'[u] = "none"
  BY <1>0, <1>2 DEF FunctionStep, ExitClient, Enter, Woken, TimedOut, Join,
     DeviceExists, SendDeviceInfo, SaveSettings, AppExists, RegisterApp,
     UpdateApp, DeleteApp, Returns, http, server
<1>3. \A t \in Threads : ~ClientStep(t)
  BY DEF ClientStep, Run, ConnectFails, ManagerAnswers, Read, Breaks, Ready
<1>4. ASSUME NEW t \in Workers, NEW a \in Apps,
             Instantiate(t, a) \/ Update(t, a) \/ Delete(t, a)
      PROVE  devices' = {} /\ \A u \in Threads : client'[u] = "none"
  BY <1>4 DEF Instantiate, Update, Delete, Asks, http, server
<1>5. CASE UNCHANGED vars BY <1>5 DEF vars, http, server
<1> QED BY <1>1, <1>2, <1>3, <1>4, <1>5 DEF Next

LEMMA OnceConfigured ==
    ASSUME Inv, Phases, Answered, Known, Once, configured, faults = {},
           faults' = {}, [Next]_vars
    PROVE  /\ \E d : devices' \subseteq {d}
           /\ up' \in {"off", "serving"} => devices' \subseteq {saved'}
           /\ up' = "serving" => devId' = saved'
           /\ \A t \in Threads : OnceIn(t)'
<1>0. /\ \E d : devices \subseteq {d}
      /\ up \in {"off", "serving"} => devices \subseteq {saved}
      /\ up = "serving" => devId = saved
      /\ \A t \in Threads : OnceIn(t)
      /\ pc \in [Threads -> Labels] /\ call \in [Threads -> Requests]
  BY DEF Once, Inv, TypeOK
<1>1. CASE Stop
  BY <1>0, <1>1 DEF Stop, Reset, server, OnceIn
<1>2. CASE StartRefused \/ Forget
  <2>1. \A t \in Threads : pc'[t] = "idle"
    BY <1>2 DEF StartRefused, Forget, Inv, AtRest, caller
  <2>2. UNCHANGED <<devId, saved>> /\ up' \in {up, "refused"} /\ up # "serving"
    BY <1>2 DEF StartRefused, Forget, device
  <2>3. devices' \subseteq devices BY <1>2 DEF StartRefused, Forget, server
  <2> QED BY <1>0, <2>1, <2>2, <2>3 DEF OnceIn
<1>3. CASE Start
  <2>1. /\ pc' = [pc EXCEPT ![Main] = "exit"] /\ up = "off" /\ up' = "boot"
        /\ call' = [call EXCEPT ![Main] = [kind |-> "deviceExists",
                                           app |-> NoOne]]
        /\ devId' = saved /\ UNCHANGED <<saved, devices>>
        /\ \A t \in Threads : pc[t] = "idle"
    BY <1>3 DEF Start, Goto, Calls, Inv, AtRest, server
  <2>2. Main \in Threads BY DEF Threads
  <2>3. \A t \in Threads : t # Main => pc'[t] = "idle"
    BY <1>0, <2>1
  <2>4. pc'[Main] = "exit" /\ call'[Main].kind = "deviceExists"
    BY <1>0, <2>1, <2>2
  <2> QED BY <1>0, <2>1, <2>3, <2>4 DEF OnceIn, Handled
<1>4. ASSUME NEW t \in Threads, FunctionStep(t) \/ ClientStep(t)
      PROVE  /\ \E d : devices' \subseteq {d}
             /\ up' \in {"off", "serving"} => devices' \subseteq {saved'}
             /\ up' = "serving" => devId' = saved'
             /\ \A u \in Threads : OnceIn(u)'
  BY <1>4, OnceOwn, OnceOthers
<1>5. ASSUME NEW t \in Workers, NEW a \in Apps,
             Instantiate(t, a) \/ Update(t, a) \/ Delete(t, a)
      PROVE  /\ UNCHANGED <<up, devId, saved, devices>>
             /\ \A u \in Threads : OnceIn(u)'
  <2>1. /\ UNCHANGED <<up, devId, saved, devices, answer, client>>
        /\ t \in Threads /\ pc' = [pc EXCEPT ![t] = "exit"]
        /\ \E k \in AppKinds :
              call' = [call EXCEPT ![t] = [kind |-> k, app |-> a]]
    BY <1>5 DEF Instantiate, Update, Delete, Asks, Goto, Calls, device, server,
       Threads, AppKinds, http
  <2>2. \A u \in Threads : u # t => pc'[u] = pc[u] /\ call'[u] = call[u]
    BY <1>0, <2>1
  <2>3. pc'[t] = "exit" /\ call'[t].kind \in AppKinds BY <1>0, <2>1
  <2>4. \A u \in Threads : u # t => OnceIn(u)'
    BY <1>0, <2>1, <2>2 DEF OnceIn, Handled
  <2> QED BY <2>1, <2>3, <2>4 DEF OnceIn, AppKinds
<1>6. CASE UNCHANGED vars
  <2>1. UNCHANGED <<up, devId, saved, devices, answer, client, pc, call>>
    BY <1>6 DEF vars, device, caller, http, server
  <2> QED BY <1>0, <2>1 DEF OnceIn, Handled
<1>7. ~Crash BY DEF Crash
<1> QED BY <1>0, <1>1, <1>2, <1>3, <1>4, <1>5, <1>6, <1>7 DEF Next

LEMMA OnceNext == Inv /\ Phases /\ Answered /\ Known /\ Once /\ [Next]_vars => Once'
<1> SUFFICES ASSUME Inv, Phases, Answered, Known, Once, [Next]_vars, faults' = {}
             PROVE  Once'
  BY DEF Once
<1>1. faults = {} /\ configured' = configured BY FaultsStay
<1>2. CASE configured BY <1>1, <1>2, OnceConfigured DEF Once
<1>3. CASE ~configured
  <2>1. devices = {} /\ \A t \in Threads : client[t] = "none"
    BY <1>1, <1>3 DEF Once
  <2> QED BY <1>1, <1>3, <2>1, OnceUnconfigured DEF Once
<1> QED BY <1>2, <1>3

\* Without faults the manager never knows the device twice, however often either
\* is started again (device.cpp:79-81, 684-701).
THEOREM RegisteredOnceAlways == Spec => []RegisteredOnce
<1>1. Init => Once BY DEF Init, Once, OnceIn, Handled
<1>2. Init => Known /\ Answered
  BY DEF Init, Known, Truthful, Handled, Answered, SlotFilled
<1>3. Once => RegisteredOnce
  <2> SUFFICES ASSUME Once, faults = {} PROVE Cardinality(devices) <= 1
    BY DEF RegisteredOnce
  <2>1. PICK d : devices \subseteq {d} BY DEF Once
  <2>2. devices = {} \/ devices = {d} BY <2>1
  <2>3. devices = {} => Cardinality(devices) = 0 BY FS_EmptySet
  <2>4. devices = {d} => Cardinality(devices) = 1 BY FS_Singleton
  <2> QED BY <2>2, <2>3, <2>4
<1> QED BY <1>1, <1>2, <1>3, InvInit, InvNext, PhasesInit, PhasesNext,
           AnsweredNext, KnownNext, OnceNext, PTL DEF Spec


-----------------------------------------------------------------------------
(* The list of applications                                                 *)

New == {"appExists", "registerApp"}     \* the calls of instantiate()

\* An application that is being instantiated is nobody else's business.
Alone ==
    /\ up # "serving" => told = {}
    /\ \A t \in Threads : call[t].kind \in New =>
          /\ call[t].app \notin told
          /\ \A u \in Threads : u # t => call[u].app # call[t].app

InList(t) ==
    Handled(t) =>
        /\ call[t].kind = "appExists" =>
              \/ answer[t].status = "ok" /\ <<devId, call[t].app>> \in listed
              \/ answer[t].status = "error"
        /\ call[t].kind = "registerApp" => <<devId, call[t].app>> \in listed
Deleting(a) ==
    \E t \in Threads : call[t] = [kind |-> "deleteApp", app |-> a]
Listed ==
    "loss" \notin faults /\ configured =>
        /\ \A a \in told : <<devId, a>> \in listed \/ Deleting(a)
        /\ \A t \in Threads : InList(t)

\* What the end of a function that has not to do with the device does.
LEMMA AppEnds ==
    ASSUME Inv, NEW t \in Threads,
           AppExists(t) \/ RegisterApp(t) \/ UpdateApp(t) \/ DeleteApp(t)
    PROVE  /\ pc[t] = "result" /\ call[t].kind \in AppKinds /\ call[t].app \in Apps
           /\ UNCHANGED <<up, devId, listed, devices>>
           /\ \/ Idle(t)
              \/ Goto(t, "exit") /\ Calls(t, "registerApp", call[t].app)
<1>1. /\ pc[t] = "result" /\ call[t].kind \in AppKinds
      /\ UNCHANGED <<up, devId, listed, devices>>
      /\ \/ Idle(t)
         \/ Goto(t, "exit") /\ Calls(t, "registerApp", call[t].app)
  BY DEF AppExists, RegisterApp, UpdateApp, DeleteApp, Returns, AppKinds, server
<1>2. call[t].app \in Apps BY <1>1, CallOfApp, TypeOKParts DEF Inv
<1> QED BY <1>1, <1>2

\* Threads other than t are where they were; t has the same application or none.
LEMMA AloneStep ==
    ASSUME Inv, Alone, NEW t \in Threads, call' \in [Threads -> Requests],
           \A u \in Threads : u # t => call'[u] = call[u],
           \/ call'[t] = NoCall /\ told' \subseteq told \cup {call[t].app}
              /\ (call[t].kind \in New \/ told' \subseteq told)
           \/ /\ call'[t].kind \in New => call[t].kind \in New
              /\ call'[t].app = call[t].app /\ told' \subseteq told,
           up' # "serving" => told' = {}
    PROVE  Alone'
<1> SUFFICES ASSUME NEW u \in Threads, call'[u].kind \in New
             PROVE  /\ call'[u].app \notin told'
                    /\ \A v \in Threads : v # u => call'[v].app # call'[u].app
  BY DEF Alone
<1>0. call'[u].app \in Apps
  BY DEF New, Requests, DeviceKinds
<1>1. CASE u = t
  BY <1>0, <1>1 DEF Alone, NoCall, New
<1>2. CASE u # t
  <2>1. call'[u] = call[u] /\ call[u].app \notin told
        /\ \A w \in Threads : w # u => call[w].app # call[u].app
    BY <1>2 DEF Alone
  <2>2. call[t].app # call[u].app BY <1>2, <2>1
  <2>3. call'[u].app \notin told' BY <2>1, <2>2
  <2>4. call'[t].app # call'[u].app
    BY <1>0, <2>1, <2>2, ThreadsAssumption DEF NoCall
  <2> QED BY <2>1, <2>3, <2>4
<1> QED BY <1>1, <1>2

LEMMA AloneNext == Inv /\ Phases /\ Alone /\ [Next]_vars => Alone'
<1> SUFFICES ASSUME Inv, Phases, Alone, [Next]_vars PROVE Alone' OBVIOUS
<1>0. /\ call \in [Threads -> Requests] /\ call' \in [Threads -> Requests]
      /\ pc \in [Threads -> Labels] /\ (up # "serving" => told = {})
  BY InvNext DEF Inv, TypeOK, Alone
<1>1. CASE Stop \/ Crash
  <2>1. told' = {} /\ \A t \in Threads : call'[t] = NoCall
    BY <1>1 DEF Stop, Crash, Reset
  <2>2. NoCall.kind \notin New BY DEF NoCall, New
  <2> QED BY <2>1, <2>2 DEF Alone
<1>2. CASE Start \/ StartRefused \/ Forget
  <2>1. /\ told' = told /\ told = {} /\ \A t \in Threads : pc[t] = "idle"
    BY <1>0, <1>2 DEF Start, StartRefused, Forget, Inv, AtRest, device
  <2>2. \A t \in Threads : call'[t].kind \notin New
    BY <1>0, <1>2, <2>1 DEF Start, StartRefused, Forget, Calls, caller, Phases,
       NoCall, New
  <2> QED BY <2>1, <2>2 DEF Alone
<1>3. ASSUME NEW t \in Threads, FunctionStep(t) \/ ClientStep(t)
      PROVE  Alone'
  <2>0. \A u \in Threads : u # t => call'[u] = call[u] BY <1>3, OthersCalls
  <2>1. CASE \/ ExitClient(t) \/ Enter(t) \/ Woken(t) \/ TimedOut(t) \/ Join(t)
             \/ ClientStep(t)
    <3>1. UNCHANGED <<up, told, call>>
      BY <2>1 DEF ExitClient, Enter, Woken, TimedOut, Join, ClientStep, Run,
         ConnectFails, ManagerAnswers, Read, Breaks, Ready, device, caller
    <3> QED BY <3>1 DEF Alone
  <2>2. CASE DeviceExists(t) \/ SendDeviceInfo(t) \/ SaveSettings(t)
    <3>1. up = "boot"
      BY <2>2 DEF DeviceExists, SendDeviceInfo, SaveSettings, Returns, Phases,
         AppKinds
    <3>2. told' = {}
      BY <1>0, <2>2, <3>1 DEF DeviceExists, SendDeviceInfo, SaveSettings, Returns
    <3>3. call'[t].kind \notin New
      <4>1. \/ Idle(t) \/ Calls(t, "sendDeviceInfo", NoOne)
            \/ call' = call /\ call[t].kind = "sendDeviceInfo"
        BY <2>2 DEF DeviceExists, SendDeviceInfo, SaveSettings
      <4> QED BY <1>0, <4>1 DEF Idle, Calls, NoCall, New
    <3>4. \A u \in Threads : u # t => call[u].kind \notin New
      BY <1>0, <3>1 DEF Phases, Boot, New, NoCall
    <3> QED BY <2>0, <3>2, <3>3, <3>4 DEF Alone
  <2>3. CASE AppExists(t) \/ RegisterApp(t) \/ UpdateApp(t) \/ DeleteApp(t)
    <3>1. pc[t] = "result" /\ call[t].kind \in AppKinds /\ up' = up
      BY <2>3, AppEnds
    <3>2. up = "serving"
      BY <3>1 DEF Phases, AppKinds, Boot, Inv, TypeOK, AtRest
    <3>3. CASE Idle(t)
      <4>1. call'[t] = NoCall BY <1>0, <3>3 DEF Idle
      <4>2. told' \subseteq told \cup {call[t].app}
            /\ (call[t].kind \in New \/ told' \subseteq told)
        BY <2>3 DEF AppExists, RegisterApp, UpdateApp, DeleteApp, Returns, New
      <4> QED BY <1>0, <2>0, <3>1, <3>2, <4>1, <4>2, AloneStep
    <3>4. CASE Goto(t, "exit") /\ Calls(t, "registerApp", call[t].app)
      <4>1. call'[t] = [kind |-> "registerApp", app |-> call[t].app]
        BY <1>0, <3>4 DEF Calls
      <4>2. pc'[t] = "exit" BY <1>0, <3>4 DEF Goto
      <4>3. call[t].kind = "appExists" /\ told' = told
        BY <1>0, <2>3, <4>2 DEF AppExists, RegisterApp, UpdateApp, DeleteApp,
           Returns, Idle, Goto
      <4> QED BY <1>0, <2>0, <3>1, <3>2, <4>1, <4>3, AloneStep DEF New
    <3> QED BY <2>3, <3>3, <3>4, AppEnds
  <2> QED BY <1>3, <2>1, <2>2, <2>3 DEF FunctionStep
<1>4. ASSUME NEW t \in Workers, NEW a \in Apps,
             Instantiate(t, a) \/ Update(t, a) \/ Delete(t, a)
      PROVE  Alone'
  <2>1. /\ t \in Threads /\ told' = told /\ up' = up /\ up = "serving"
        /\ \E k \in AppKinds :
              call' = [call EXCEPT ![t] = [kind |-> k, app |-> a]]
        /\ a \in told \/ \A u \in Threads : call[u].app # a
        /\ a \in told => call'[t].kind \notin New
    BY <1>0, <1>4 DEF Instantiate, Update, Delete, Asks, Calls, device, Threads,
       AppKinds, New
  <2>2. /\ \A u \in Threads : u # t => call'[u] = call[u]
        /\ call'[t].app = a
    BY <1>0, <2>1
  <2>3. \A u \in Threads : u # t /\ call[u].kind \in New => call[u].app # a
    BY <2>1 DEF Alone
  <2> QED BY <2>1, <2>2, <2>3 DEF Alone
<1>5. CASE UNCHANGED vars BY <1>5 DEF vars, device, caller, Alone
<1> QED BY <1>1, <1>2, <1>3, <1>4, <1>5 DEF Next


\* A step that has nothing to do with the list of applications.
LEMMA ListedSame ==
    ASSUME Listed, "loss" \notin faults, configured, NEW t \in Threads,
           \A u \in Threads : u # t =>
              /\ call'[u] = call[u] /\ pc'[u] = pc[u] /\ client'[u] = client[u]
              /\ answer'[u] = answer[u],
           UNCHANGED <<devId, listed>>, told' \subseteq told,
           call'[t] = call[t] \/ call[t].kind # "deleteApp"
              \/ (call[t].kind = "deleteApp" /\ call[t].app \notin told'),
           InList(t)'
    PROVE  /\ \A a \in told' : <<devId', a>> \in listed' \/ Deleting(a)'
           /\ \A u \in Threads : InList(u)'
<1>1. \A u \in Threads : u # t => InList(u)'
  BY DEF Listed, InList, Handled
<1>2. ASSUME NEW a \in told', ~(<<devId', a>> \in listed')
      PROVE  Deleting(a)'
  <2>1. PICK u \in Threads : call[u] = [kind |-> "deleteApp", app |-> a]
    BY <1>2 DEF Listed, Deleting
  <2>2. call'[u] = call[u] BY <2>1
  <2> QED BY <2>1, <2>2 DEF Deleting
<1> QED BY <1>1, <1>2

\* The manager's answers about applications, and its list.
LEMMA ListAnswers ==
    ASSUME Inv, NEW t \in Threads, ManagerAnswers(t), NEW a, call[t].app = a
    PROVE  /\ call[t].kind = "appExists" =>
              /\ listed' = listed
              /\ answer'[t] = IF <<devId, a>> \in listed THEN Ok("info") ELSE Error
           /\ call[t].kind = "registerApp" /\ devId \in devices =>
              listed' = listed \cup {<<devId, a>>}
           /\ call[t].kind = "deleteApp" => listed' = listed \ {<<devId, a>>}
           /\ call[t].kind \notin {"registerApp", "deleteApp"} => listed' = listed
           /\ listed \ {<<devId, a>>} \subseteq listed'
           /\ UNCHANGED <<devId, told, call, pc>>
<1>0. answer \in [Threads -> Answer] BY DEF Inv, TypeOK
<1>1. call[t].kind = "appExists" =>
        /\ listed' = listed
        /\ answer' = [answer EXCEPT ![t] =
                         IF <<devId, a>> \in listed THEN Ok("info") ELSE Error]
  BY DEF ManagerAnswers, server
<1>2. call[t].kind = "registerApp" =>
        listed' = listed \cup (IF devId \in devices THEN {<<devId, a>>} ELSE {})
  BY DEF ManagerAnswers
<1>3. call[t].kind = "deleteApp" => listed' = listed \ {<<devId, a>>}
  BY DEF ManagerAnswers
<1>4. call[t].kind \notin {"registerApp", "deleteApp"} => listed' = listed
  BY DEF ManagerAnswers, server
<1> QED BY <1>0, <1>1, <1>2, <1>3, <1>4 DEF ManagerAnswers, device, caller

LEMMA ListedAnswers ==
    ASSUME Inv, Phases, Known, Alone, Listed, "loss" \notin faults, configured,
           NEW t \in Threads, ManagerAnswers(t)
    PROVE  /\ \A a \in told' : <<devId', a>> \in listed' \/ Deleting(a)'
           /\ \A u \in Threads : InList(u)'
<1> DEFINE a == call[t].app
<1>1. /\ call[t].kind = "appExists" =>
           /\ listed' = listed
           /\ answer'[t] = IF <<devId, a>> \in listed THEN Ok("info") ELSE Error
      /\ call[t].kind = "registerApp" /\ devId \in devices =>
           listed' = listed \cup {<<devId, a>>}
      /\ call[t].kind = "deleteApp" => listed' = listed \ {<<devId, a>>}
      /\ call[t].kind \notin {"registerApp", "deleteApp"} => listed' = listed
      /\ listed \ {<<devId, a>>} \subseteq listed'
      /\ UNCHANGED <<devId, told, call, pc>>
  BY ListAnswers
<1>2. pc[t] \in {"wait", "join"} /\ call \in [Threads -> Requests]
  BY DEF ManagerAnswers, Inv, TypeOK, Awaited, Busy
<1>3. call[t].kind = "registerApp" => devId \in devices
  BY <1>2 DEF Phases, Boot, Inv, TypeOK, AtRest, Known
<1>4. \A u \in Threads : u # t =>
        pc'[u] = pc[u] /\ client'[u] = client[u] /\ answer'[u] = answer[u]
  BY OthersFilled DEF ClientStep
<1>5. \A u \in Threads : u # t /\ call[u].kind \in New => call[u].app # a
  BY DEF Alone
<1>6. \A u \in Threads : u # t => InList(u)'
  BY <1>1, <1>4, <1>5 DEF Listed, InList, Handled, New
<1>7. InList(t)'
  BY <1>1, <1>3 DEF InList, Ok, Error
<1>8. ASSUME NEW b \in told'
      PROVE  <<devId', b>> \in listed' \/ Deleting(b)'
  <2>1. <<devId, b>> \in listed \/ Deleting(b) BY <1>1 DEF Listed
  <2>2. CASE Deleting(b) BY <1>1, <2>2 DEF Deleting
  <2>3. CASE <<devId, b>> \in listed
    <3>1. CASE b # a \/ call[t].kind # "deleteApp"
      BY <1>1, <1>3, <2>3, <3>1
    <3>2. CASE b = a /\ call[t].kind = "deleteApp"
      <4>1. call[t] = [kind |-> "deleteApp", app |-> b]
        BY <1>2, <3>2 DEF Requests
      <4> QED BY <1>1, <4>1 DEF Deleting
    <3> QED BY <3>1, <3>2
  <2> QED BY <2>1, <2>2, <2>3
<1> QED BY <1>6, <1>7, <1>8

LEMMA ListedFunction ==
    ASSUME Inv, Phases, Answered, Known, Alone, Listed, "loss" \notin faults',
           "loss" \notin faults, configured, NEW t \in Threads,
           FunctionStep(t) \/ ClientStep(t)
    PROVE  /\ \A a \in told' : <<devId', a>> \in listed' \/ Deleting(a)'
           /\ \A u \in Threads : InList(u)'
<1>0. /\ call \in [Threads -> Requests] /\ pc \in [Threads -> Labels]
      /\ \A u \in Threads : u # t =>
            /\ call'[u] = call[u] /\ pc'[u] = pc[u] /\ client'[u] = client[u]
            /\ answer'[u] = answer[u]
      /\ InList(t) /\ SlotFilled(t) /\ devices \subseteq DeviceIds
  BY OthersFilled, OthersCalls DEF Inv, TypeOK, Listed, Answered
<1>1. CASE \/ ExitClient(t) \/ Enter(t) \/ Woken(t) \/ TimedOut(t) \/ Join(t)
           \/ (ClientStep(t) /\ ~ManagerAnswers(t))
  <2>1. /\ Handled(t)' <=> Handled(t)
        /\ UNCHANGED <<devId, call, answer>>
    BY <1>1, OnTheWay
  <2>2. UNCHANGED <<told, listed>>
    BY <1>1 DEF ExitClient, Enter, Woken, TimedOut, Join, ClientStep, Run,
       ConnectFails, Read, Breaks, Ready, device, server
  <2>3. InList(t)' BY <1>0, <2>1, <2>2 DEF InList
  <2> QED BY <1>0, <2>1, <2>2, <2>3, ListedSame
<1>2. CASE ManagerAnswers(t) BY <1>2, ListedAnswers
<1>3. CASE DeviceExists(t) \/ SendDeviceInfo(t) \/ SaveSettings(t)
  <2>1. up = "boot"
    BY <1>3 DEF DeviceExists, SendDeviceInfo, SaveSettings, Returns, Phases,
       AppKinds
  <2>2. told' = {}
    BY <1>3, <2>1 DEF DeviceExists, SendDeviceInfo, SaveSettings, Returns, Alone
  <2>3. pc'[t] # "result" /\ pc'[t] \notin {"wait", "join"}
    BY <1>0, <1>3 DEF DeviceExists, SendDeviceInfo, SaveSettings, Idle, Goto
  <2>4. pc[t] # "idle"
    BY <1>3 DEF DeviceExists, SendDeviceInfo, SaveSettings, Returns
  <2>5. \A u \in Threads : u # t => pc[u] = "idle" BY <2>1, <2>4 DEF Phases
  <2>6. \A u \in Threads : ~Handled(u)' BY <1>0, <2>3, <2>5 DEF Handled
  <2> QED BY <2>2, <2>6 DEF InList
<1>4. CASE AppExists(t) \/ RegisterApp(t) \/ UpdateApp(t) \/ DeleteApp(t)
  <2> DEFINE a == call[t].app
  <2>1. /\ pc[t] = "result" /\ call[t].kind \in AppKinds
        /\ UNCHANGED <<up, devId, listed, devices>>
        /\ \/ Idle(t)
           \/ Goto(t, "exit") /\ Calls(t, "registerApp", call[t].app)
    BY <1>4, AppEnds
  <2>2. up = "serving" /\ devId \in devices /\ slot[t] = answer[t] /\ Handled(t)
    BY <1>0, <2>1 DEF Phases, AppKinds, Boot, Inv, TypeOK, AtRest, Known,
       SlotFilled, Handled
  <2>3. pc'[t] \in {"idle", "exit"} BY <1>0, <2>1 DEF Idle, Goto
  <2>4. InList(t)' BY <2>3 DEF InList, Handled
  <2>5. told' \subseteq told \cup {a}
        /\ (a \in told' \ told => <<devId, a>> \in listed)
    <3>1. devId # "" BY <1>0, <2>2, IdsAssumption
    <3>2. CASE AppExists(t)
      <4>1. call[t].kind = "appExists" BY <3>2 DEF AppExists, Returns
      <4>2. CASE answer[t].status = "ok" /\ <<devId, a>> \in listed
        BY <3>2, <4>2 DEF AppExists
      <4>3. CASE answer[t].status = "error"
        BY <2>2, <3>1, <3>2, <4>3 DEF AppExists, Succeeds
      <4> QED BY <1>0, <2>2, <4>1, <4>2, <4>3 DEF InList
    <3>3. CASE RegisterApp(t)
      BY <1>0, <2>2, <3>3 DEF RegisterApp, Returns, InList
    <3>4. CASE UpdateApp(t) \/ DeleteApp(t)
      BY <3>4 DEF UpdateApp, DeleteApp
    <3> QED BY <1>4, <3>2, <3>3, <3>4
  <2>6. call[t].kind = "deleteApp" => a \notin told'
    BY <1>4 DEF AppExists, RegisterApp, UpdateApp, DeleteApp, Returns
  <2>7. \A u \in Threads : u # t => InList(u)'
    BY <1>0, <2>1 DEF Listed, InList, Handled
  <2>8. ASSUME NEW b \in told', ~(<<devId', b>> \in listed')
        PROVE  Deleting(b)'
    <3>1. b \in told BY <2>1, <2>5, <2>8
    <3>2. PICK u \in Threads : call[u] = [kind |-> "deleteApp", app |-> b]
      BY <2>1, <2>8, <3>1 DEF Listed, Deleting
    <3>3. u # t BY <2>6, <3>2
    <3> QED BY <1>0, <3>2, <3>3 DEF Deleting
  <2> QED BY <2>4, <2>7, <2>8
<1> QED BY <1>1, <1>2, <1>3, <1>4 DEF FunctionStep

LEMMA ListedNext ==
    Inv /\ Phases /\ Answered /\ Known /\ Alone /\ Listed /\ [Next]_vars => Listed'
<1> SUFFICES ASSUME Inv, Phases, Answered, Known, Alone, Listed, [Next]_vars,
                    "loss" \notin faults', configured'
             PROVE  /\ \A a \in told' : <<devId', a>> \in listed' \/ Deleting(a)'
                    /\ \A t \in Threads : InList(t)'
  BY DEF Listed
<1>0. "loss" \notin faults /\ configured BY FaultsStay
<1>1. CASE Stop \/ Crash
  BY <1>1 DEF Stop, Crash, Reset, InList, Handled
<1>2. CASE Start \/ StartRefused \/ Forget
  <2>1. /\ told' = {} /\ pc \in [Threads -> Labels]
        /\ \A t \in Threads : pc[t] = "idle"
    BY <1>2 DEF Start, StartRefused, Forget, Inv, AtRest, Alone, device, TypeOK
  <2>2. \A t \in Threads : pc'[t] \in {"idle", "exit"}
    BY <1>2, <2>1 DEF Start, StartRefused, Forget, Goto, caller
  <2> QED BY <2>1, <2>2 DEF InList, Handled
<1>3. ASSUME NEW t \in Threads, FunctionStep(t) \/ ClientStep(t)
      PROVE  /\ \A a \in told' : <<devId', a>> \in listed' \/ Deleting(a)'
             /\ \A u \in Threads : InList(u)'
  BY <1>0, <1>3, ListedFunction
<1>4. ASSUME NEW t \in Workers, NEW a \in Apps,
             Instantiate(t, a) \/ Update(t, a) \/ Delete(t, a)
      PROVE  /\ \A b \in told' : <<devId', b>> \in listed' \/ Deleting(b)'
             /\ \A u \in Threads : InList(u)'
  <2>1. /\ UNCHANGED <<devId, told, listed, answer, client>> /\ t \in Threads
        /\ pc \in [Threads -> Labels] /\ call \in [Threads -> Requests]
        /\ pc[t] = "idle" /\ pc' = [pc EXCEPT ![t] = "exit"]
        /\ \E k : call' = [call EXCEPT ![t] = [kind |-> k, app |-> a]]
    BY <1>4 DEF Instantiate, Update, Delete, Asks, Goto, Calls, device, http,
       server, Inv, TypeOK, Threads
  <2>2. call[t].kind # "deleteApp" BY <2>1 DEF Phases, NoCall
  <2>3. pc'[t] = "exit" BY <2>1
  <2>4. InList(t)' BY <2>3 DEF InList, Handled
  <2>5. \A u \in Threads : u # t => call'[u] = call[u] /\ pc'[u] = pc[u]
    BY <2>1
  <2> QED BY <1>0, <2>1, <2>2, <2>4, <2>5, ListedSame
<1>5. CASE UNCHANGED vars
  <2>1. UNCHANGED <<devId, told, listed, answer, client, pc, call>>
    BY <1>5 DEF vars, device, caller, http, server
  <2> QED BY <1>0, <2>1 DEF Listed, InList, Handled, Deleting
<1> QED BY <1>1, <1>2, <1>3, <1>4, <1>5 DEF Next

\* Every application that runs is in the manager's list, unless it is being
\* deleted or an answer was lost, for any number of applications and threads
\* (application.cpp:416-424, device.cpp:426-520).
THEOREM AppsListedAlways == Spec => []AppsListed
<1>1. Init => Alone /\ Listed
  <2> SUFFICES ASSUME Init PROVE Alone /\ Listed OBVIOUS
  <2>1. NoCall.kind \notin New BY DEF NoCall, New
  <2>2. Alone BY <2>1 DEF Init, Alone
  <2>3. Listed BY DEF Init, Listed, InList, Handled
  <2> QED BY <2>2, <2>3
<1>2. Init => Known /\ Answered
  BY DEF Init, Known, Truthful, Handled, Answered, SlotFilled
<1>3. Listed => AppsListed BY DEF Listed, AppsListed, Deleting
<1> QED BY <1>1, <1>2, <1>3, InvInit, InvNext, PhasesInit, PhasesNext,
           AnsweredNext, KnownNext, AloneNext, ListedNext, PTL DEF Spec
=============================================================================
