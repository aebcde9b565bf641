------------------------- MODULE ManagerClientProofs ------------------------
(* Types and the exclusion of requests in ManagerClient, for any number of  *)
(* threads, applications and faults.                                        *)
EXTENDS ManagerClient, TLAPS

\* A client thread runs only while the thread that started it waits for it.
Awaited == \A t \in Threads : client[t] \in Busy => pc[t] \in {"wait", "join"}

\* Nothing is going on in a process that is not running.
AtRest == up \in {"off", "refused"} => \A t \in Threads : pc[t] = "idle"

Inv == TypeOK /\ Awaited /\ AtRest

\* The parts of TypeOK by the tuples of the module.
DeviceTypes ==
    /\ up \in {"off", "boot", "serving", "refused"} /\ configured \in BOOLEAN
    /\ devId \in DeviceIds \cup {"", "null"}
    /\ saved \in DeviceIds \cup {"", "null", "torn"}
    /\ told \subseteq Apps
CallerTypes ==
    /\ mtx \in Threads \cup {NoOne}
    /\ pc \in [Threads -> Labels]
    /\ \A t \in Threads : pc[t] \in Held <=> mtx = t
    /\ call \in [Threads -> Requests]
HttpTypes ==
    /\ slot \in [Threads -> Answer] /\ answer \in [Threads -> Answer]
    /\ client \in [Threads -> Busy \cup {"none", "done"}]
    /\ ready \in [Threads -> BOOLEAN]
ServerTypes ==
    /\ devices \subseteq given /\ given \subseteq DeviceIds
    /\ listed \subseteq (DeviceIds \cup {"", "null"}) \X Apps
    /\ faults \subseteq {"loss", "crash"}

LEMMA TypeOKParts ==
    TypeOK <=> DeviceTypes /\ CallerTypes /\ HttpTypes /\ ServerTypes
BY DEF TypeOK, DeviceTypes, CallerTypes, HttpTypes, ServerTypes

LEMMA TypeOKPartsNext ==
    DeviceTypes' /\ CallerTypes' /\ HttpTypes' /\ ServerTypes' => TypeOK'
BY DEF TypeOK, DeviceTypes, CallerTypes, HttpTypes, ServerTypes

-----------------------------------------------------------------------------
(* A step that leaves a part alone                                          *)

LEMMA SamePart ==
    /\ DeviceTypes /\ UNCHANGED device => DeviceTypes'
    /\ HttpTypes /\ UNCHANGED http => HttpTypes'
    /\ ServerTypes /\ UNCHANGED <<server, faults>> => ServerTypes'
BY DEF DeviceTypes, HttpTypes, ServerTypes, device, http, server

LEMMA SameCaller ==
    ASSUME CallerTypes, UNCHANGED caller
    PROVE  CallerTypes'
BY DEF CallerTypes, caller

\* One thread moves to another label, neither side of a critical section.
LEMMA MoveLabel ==
    ASSUME CallerTypes, NEW t \in Threads, NEW l \in Labels,
           l \in Held <=> pc[t] \in Held, Goto(t, l), mtx' = mtx,
           call' \in [Threads -> Requests]
    PROVE  CallerTypes'
<1>1. pc' \in [Threads -> Labels] /\ \A u \in Threads :
        pc'[u] = IF u = t THEN l ELSE pc[u]
  BY DEF CallerTypes, Goto
<1>2. \A u \in Threads : pc'[u] \in Held <=> mtx' = u
  BY <1>1 DEF CallerTypes
<1> QED BY <1>1, <1>2 DEF CallerTypes

\* One takes the mutex.
LEMMA TakeMutex ==
    ASSUME CallerTypes, NEW t \in Threads, NEW l \in Labels, l \in Held,
           mtx = NoOne, mtx' = t, Goto(t, l), call' = call
    PROVE  CallerTypes'
<1>1. pc' \in [Threads -> Labels] /\ \A u \in Threads :
        pc'[u] = IF u = t THEN l ELSE pc[u]
  BY DEF CallerTypes, Goto
<1>2. \A u \in Threads : pc[u] \notin Held
  BY ThreadsAssumption DEF CallerTypes
<1>3. \A u \in Threads : pc'[u] \in Held <=> mtx' = u BY <1>1, <1>2
<1> QED BY <1>1, <1>3 DEF CallerTypes

\* One gives it back.
LEMMA GiveMutex ==
    ASSUME CallerTypes, NEW t \in Threads, NEW l \in Labels, l \notin Held,
           pc[t] \in Held, mtx' = NoOne, Goto(t, l),
           call' \in [Threads -> Requests]
    PROVE  CallerTypes'
<1>1. pc' \in [Threads -> Labels] /\ \A u \in Threads :
        pc'[u] = IF u = t THEN l ELSE pc[u]
  BY DEF CallerTypes, Goto
<1>2. mtx = t BY DEF CallerTypes
<1>3. \A u \in Threads : u # t => pc[u] \notin Held BY <1>2 DEF CallerTypes
<1>4. \A u \in Threads : pc'[u] \in Held <=> mtx' = u
  BY <1>1, <1>3, ThreadsAssumption
<1> QED BY <1>1, <1>4 DEF CallerTypes

\* The calls a thread can be given.
LEMMA CallTypes ==
    ASSUME CallerTypes, NEW t \in Threads
    PROVE  /\ \A k \in DeviceKinds :
                 Calls(t, k, NoOne) => call' \in [Threads -> Requests]
           /\ \A k \in AppKinds, a \in Apps :
                 Calls(t, k, a) => call' \in [Threads -> Requests]
           /\ Idle(t) => call' \in [Threads -> Requests]
           /\ UNCHANGED call => call' \in [Threads -> Requests]
<1>1. \A k \in DeviceKinds : [kind |-> k, app |-> NoOne] \in Requests
  BY DEF Requests
<1>2. \A k \in AppKinds, a \in Apps : [kind |-> k, app |-> a] \in Requests
  BY DEF Requests
<1>3. NoCall \in Requests BY <1>1 DEF NoCall, DeviceKinds
<1> QED BY <1>1, <1>2, <1>3 DEF CallerTypes, Calls, Idle

LEMMA Working ==
    ASSUME AtRest, NEW t \in Threads, pc[t] # "idle", up' \in {up, "serving"}
    PROVE  AtRest'
BY DEF AtRest

-----------------------------------------------------------------------------
(* The steps that all functions share                                       *)

LEMMA RequestStep ==
    ASSUME Inv, NEW t \in Threads,
           ExitClient(t) \/ Enter(t) \/ Woken(t) \/ TimedOut(t) \/ Join(t)
    PROVE  Inv'
<1> USE DEF Labels, Held, Busy
<1>0. DeviceTypes /\ CallerTypes /\ HttpTypes /\ ServerTypes
  BY TypeOKParts DEF Inv
<1>1. DeviceTypes' /\ ServerTypes'
  BY <1>0, SamePart DEF ExitClient, Enter, Woken, TimedOut, Join
<1>2. HttpTypes'
  BY <1>0 DEF HttpTypes, http, ExitClient, Enter, Woken, TimedOut, Join
<1>3. CallerTypes'
  <2>1. CASE ExitClient(t)
    BY <1>0, <2>1, MoveLabel, CallTypes DEF ExitClient
  <2>2. CASE Enter(t)
    BY <1>0, <2>2, TakeMutex DEF Enter
  <2>3. CASE Woken(t) \/ TimedOut(t)
    BY <1>0, <2>3, MoveLabel, CallTypes DEF Woken, TimedOut
  <2>4. CASE Join(t)
    BY <1>0, <2>4, MoveLabel, CallTypes DEF Join
  <2> QED BY <2>1, <2>2, <2>3, <2>4
<1>4. Awaited'
  BY <1>0 DEF Inv, Awaited, HttpTypes, CallerTypes, http, Goto,
     ExitClient, Enter, Woken, TimedOut, Join
<1>5. AtRest'
  BY Working DEF Inv, ExitClient, Enter, Woken, TimedOut, Join, device
<1> QED BY <1>1, <1>2, <1>3, <1>4, <1>5, TypeOKPartsNext DEF Inv

LEMMA ClientStepInv ==
    ASSUME Inv, NEW t \in Threads, ClientStep(t)
    PROVE  Inv'
<1> USE DEF Busy
<1>0. DeviceTypes /\ CallerTypes /\ HttpTypes /\ ServerTypes
  BY TypeOKParts DEF Inv
<1>1. DeviceTypes' /\ CallerTypes'
  BY <1>0, SamePart, SameCaller DEF ClientStep, Run, ConnectFails,
     ManagerAnswers, Read, Breaks, Ready
<1>2. Awaited'
  BY <1>0 DEF Inv, Awaited, HttpTypes, CallerTypes, caller, ClientStep, Run,
     ConnectFails, ManagerAnswers, Read, Breaks, Ready
<1>3. HttpTypes'
  <2>1. CASE Run(t) \/ ConnectFails(t) \/ Read(t) \/ Breaks(t) \/ Ready(t)
    BY <1>0, <2>1 DEF HttpTypes, Run, ConnectFails, Read, Breaks, Ready
  <2>2. CASE ManagerAnswers(t)
    <3>1. \E a \in Answer : answer' = [answer EXCEPT ![t] = a]
      BY <2>2 DEF ManagerAnswers, Answer, Ok, Error, Bodies
    <3>2. client' = [client EXCEPT ![t] = "answered"]
          /\ slot' = slot /\ ready' = ready
      BY <2>2 DEF ManagerAnswers
    <3> QED BY <1>0, <3>1, <3>2 DEF HttpTypes
  <2> QED BY <2>1, <2>2 DEF ClientStep
<1>4. ServerTypes'
  <2>1. CASE Run(t) \/ Read(t) \/ Ready(t)
    BY <1>0, <2>1, SamePart DEF Run, Read, Ready
  <2>2. CASE ConnectFails(t) \/ Breaks(t)
    BY <1>0, <2>2 DEF ServerTypes, server, ConnectFails, Breaks
  <2>3. CASE ManagerAnswers(t)
    <3>1. devices' \subseteq given' /\ given' \subseteq DeviceIds
          /\ faults' = faults
      BY <1>0, <2>3 DEF ServerTypes, server, ManagerAnswers
    <3>2. listed' \subseteq listed \/
          ( /\ call[t].kind = "registerApp"
            /\ listed' \subseteq listed \cup {<<devId, call[t].app>>} )
      BY <2>3 DEF ManagerAnswers, server
    <3>3. call[t].kind = "registerApp" => call[t].app \in Apps
      BY <1>0 DEF CallerTypes, Requests, DeviceKinds
    <3>4. devId \in DeviceIds \cup {"", "null"} BY <1>0 DEF DeviceTypes
    <3>5. listed' \subseteq (DeviceIds \cup {"", "null"}) \X Apps
      <4>1. CASE listed' \subseteq listed BY <1>0, <4>1 DEF ServerTypes
      <4>2. CASE /\ call[t].kind = "registerApp"
                 /\ listed' \subseteq listed \cup {<<devId, call[t].app>>}
        <5>1. <<devId, call[t].app>> \in (DeviceIds \cup {"", "null"}) \X Apps
          BY <3>3, <3>4, <4>2
        <5> QED BY <1>0, <4>2, <5>1 DEF ServerTypes
      <4> QED BY <3>2, <4>1, <4>2
    <3> QED BY <1>0, <3>1, <3>5 DEF ServerTypes
  <2> QED BY <2>1, <2>2, <2>3 DEF ClientStep
<1>5. AtRest'
  BY DEF Inv, AtRest, ClientStep, Run, ConnectFails, ManagerAnswers, Read,
     Breaks, Ready, device, caller
<1> QED BY <1>1, <1>2, <1>3, <1>4, <1>5, TypeOKPartsNext DEF Inv

-----------------------------------------------------------------------------
(* The ends of the functions                                                *)

\* What all of them do to the connection's state.
LEMMA ReturnsHttp ==
    ASSUME HttpTypes, Awaited, NEW t \in Threads, pc[t] \notin {"wait", "join"},
           answer' = [answer EXCEPT ![t] = NoAnswer],
           UNCHANGED <<slot, client, ready>>,
           \A u \in Threads : u # t => pc'[u] = pc[u]
    PROVE  HttpTypes' /\ Awaited'
<1>1. NoAnswer \in Answer BY DEF NoAnswer, Answer, Bodies
<1> QED BY <1>1 DEF HttpTypes, Awaited

LEMMA ReturnsStep ==
    ASSUME Inv, NEW t \in Threads, NEW k, Returns(t, k),
           NEW l \in {"idle", "exit"}, Goto(t, l),
           call' \in [Threads -> Requests], DeviceTypes',
           up' \in {up, "serving"}
    PROVE  Inv'
<1>0. DeviceTypes /\ CallerTypes /\ HttpTypes /\ ServerTypes /\ Awaited
  BY TypeOKParts DEF Inv
<1>1. /\ pc[t] = "result" /\ mtx' = NoOne
      /\ answer' = [answer EXCEPT ![t] = NoAnswer]
      /\ UNCHANGED <<slot, client, ready, server, faults>>
  BY DEF Returns
<1>2. CallerTypes' BY <1>0, <1>1, GiveMutex DEF Labels, Held
<1>3. \A u \in Threads : u # t => pc'[u] = pc[u]
  BY <1>0 DEF Goto, CallerTypes
<1>4. HttpTypes' /\ Awaited' BY <1>0, <1>1, <1>3, ReturnsHttp
<1>5. ServerTypes' BY <1>0, <1>1, SamePart
<1>6. AtRest' BY <1>1, Working DEF Inv
<1> QED BY <1>2, <1>4, <1>5, <1>6, TypeOKPartsNext DEF Inv

\* The application of a call about one.
LEMMA CallOfApp ==
    ASSUME CallerTypes, NEW t \in Threads, call[t].kind \in AppKinds
    PROVE  call[t].app \in Apps
BY DEF CallerTypes, Requests, DeviceKinds, AppKinds

LEMMA DeviceSteps ==
    ASSUME Inv, NEW t \in Threads,
           DeviceExists(t) \/ SendDeviceInfo(t) \/ SaveSettings(t)
    PROVE  Inv'
<1>0. DeviceTypes /\ CallerTypes /\ HttpTypes /\ ServerTypes /\ Awaited
  BY TypeOKParts DEF Inv
<1>1. CASE DeviceExists(t)
  <2>1. DeviceTypes' BY <1>0, <1>1 DEF DeviceExists, DeviceTypes, Returns
  <2>2. CASE Idle(t)
    BY <1>0, <1>1, <2>1, <2>2, ReturnsStep, CallTypes DEF DeviceExists, Idle
  <2>3. CASE Goto(t, "exit") /\ Calls(t, "sendDeviceInfo", NoOne)
    BY <1>0, <1>1, <2>1, <2>3, ReturnsStep, CallTypes
       DEF DeviceExists, DeviceKinds
  <2> QED BY <1>1, <2>2, <2>3 DEF DeviceExists
<1>2. CASE /\ Returns(t, "sendDeviceInfo") /\ up' = "serving" /\ Idle(t)
           /\ UNCHANGED <<devId, saved, told>>
  <2>1. DeviceTypes' BY <1>0, <1>2 DEF DeviceTypes, Returns
  <2> QED BY <1>0, <1>2, <2>1, ReturnsStep, CallTypes DEF Idle
<1>3. CASE /\ pc[t] = "result" /\ devId' = CleanDeviceId(slot[t].body)
           /\ saved' = "torn" /\ Goto(t, "saving")
           /\ UNCHANGED <<up, configured, told, mtx, call, http, server, faults>>
  <2>1. slot[t].body \in Bodies BY <1>0 DEF HttpTypes, Answer
  <2>2. DeviceTypes'
    BY <1>0, <1>3, <2>1 DEF DeviceTypes, CleanDeviceId, Bodies
  <2>3. CallerTypes' BY <1>0, <1>3, MoveLabel DEF Labels, Held, CallerTypes
  <2>4. HttpTypes' /\ ServerTypes' BY <1>0, <1>3, SamePart
  <2>5. Awaited' BY <1>0, <1>3 DEF Awaited, Goto, CallerTypes, http
  <2>6. AtRest' BY <1>3, Working DEF Inv
  <2> QED BY <2>2, <2>3, <2>4, <2>5, <2>6, TypeOKPartsNext DEF Inv
<1>4. CASE SaveSettings(t)
  <2>1. /\ pc[t] = "saving" /\ mtx' = NoOne /\ Idle(t)
        /\ answer' = [answer EXCEPT ![t] = NoAnswer]
        /\ UNCHANGED <<slot, client, ready, server, faults>>
    BY <1>4 DEF SaveSettings
  <2>2. DeviceTypes' BY <1>0, <1>4 DEF SaveSettings, DeviceTypes
  <2>3. CallerTypes'
    BY <1>0, <2>1, GiveMutex, CallTypes DEF Labels, Held, Idle
  <2>4. \A u \in Threads : u # t => pc'[u] = pc[u]
    BY <1>0, <2>1 DEF Idle, Goto, CallerTypes
  <2>5. HttpTypes' /\ Awaited' BY <1>0, <2>1, <2>4, ReturnsHttp
  <2>6. ServerTypes' BY <1>0, <2>1, SamePart
  <2>7. AtRest' BY <1>4, Working DEF Inv, SaveSettings
  <2> QED BY <2>2, <2>3, <2>5, <2>6, <2>7, TypeOKPartsNext DEF Inv
<1> QED BY <1>1, <1>2, <1>3, <1>4 DEF SendDeviceInfo

LEMMA AppSteps ==
    ASSUME Inv, NEW t \in Threads,
           AppExists(t) \/ RegisterApp(t) \/ UpdateApp(t) \/ DeleteApp(t)
    PROVE  Inv'
<1>0. DeviceTypes /\ CallerTypes BY TypeOKParts DEF Inv
<1>1. PICK k \in AppKinds : Returns(t, k)
  BY DEF AppExists, RegisterApp, UpdateApp, DeleteApp, AppKinds
<1>2. call[t].app \in Apps BY <1>0, <1>1, CallOfApp DEF Returns
<1>3. UNCHANGED <<up, devId, saved, configured>>
      /\ told' \subseteq told \cup {call[t].app}
  BY DEF AppExists, RegisterApp, UpdateApp, DeleteApp, Returns
<1>4. DeviceTypes' BY <1>0, <1>2, <1>3 DEF DeviceTypes
<1>5. CASE Idle(t)
  BY <1>0, <1>1, <1>3, <1>4, <1>5, ReturnsStep, CallTypes DEF Idle
<1>6. CASE Goto(t, "exit") /\ Calls(t, "registerApp", call[t].app)
  BY <1>0, <1>1, <1>2, <1>3, <1>4, <1>6, ReturnsStep, CallTypes DEF AppKinds
<1> QED BY <1>5, <1>6 DEF AppExists, RegisterApp, UpdateApp, DeleteApp

-----------------------------------------------------------------------------
(* The rest, and the theorems                                               *)

LEMMA AsksStep ==
    ASSUME Inv, NEW t \in Workers, NEW a \in Apps,
           Instantiate(t, a) \/ Update(t, a) \/ Delete(t, a)
    PROVE  Inv'
<1>0. /\ DeviceTypes /\ CallerTypes /\ HttpTypes /\ ServerTypes /\ Awaited
      /\ t \in Threads
  BY TypeOKParts DEF Inv, Threads
<1>1. PICK k \in AppKinds : Asks(t, k, a)
  BY DEF Instantiate, Update, Delete, AppKinds
<1>2. /\ pc[t] = "idle" /\ Goto(t, "exit") /\ Calls(t, k, a)
      /\ UNCHANGED <<device, mtx, http, server, faults>>
  BY <1>1 DEF Asks
<1>3. CallerTypes' BY <1>0, <1>2, MoveLabel, CallTypes DEF Labels, Held
<1>4. DeviceTypes' /\ HttpTypes' /\ ServerTypes' BY <1>0, <1>2, SamePart
<1>5. Awaited' BY <1>0, <1>2 DEF Awaited, Goto, CallerTypes, http
<1>6. AtRest' BY <1>1 DEF AtRest, Asks, device
<1> QED BY <1>3, <1>4, <1>5, <1>6, TypeOKPartsNext DEF Inv

\* A process that is not running.
LEMMA ResetParts ==
    ASSUME Reset
    PROVE  /\ devId' = "" /\ told' = {}
           /\ CallerTypes' /\ HttpTypes' /\ Awaited' /\ AtRest'
<1>1. NoAnswer \in Answer /\ NoCall \in Requests
  BY DEF NoAnswer, Answer, Bodies, NoCall, Requests, DeviceKinds
<1>2. CallerTypes'
  BY <1>1, ThreadsAssumption DEF Reset, CallerTypes, Labels, Held
<1>3. HttpTypes' /\ Awaited'
  BY <1>1 DEF Reset, HttpTypes, Awaited, Fresh, Busy
<1>4. AtRest' BY DEF Reset, AtRest
<1> QED BY <1>2, <1>3, <1>4 DEF Reset

LEMMA OutsideStep ==
    ASSUME Inv, Start \/ StartRefused \/ Stop \/ Crash \/ Forget
    PROVE  Inv'
<1>0. DeviceTypes /\ CallerTypes /\ HttpTypes /\ ServerTypes /\ Awaited
  BY TypeOKParts DEF Inv
<1>1. CASE Stop \/ Crash
  <2>1. Reset BY <1>1 DEF Stop, Crash
  <2>2. DeviceTypes' BY <1>0, <1>1, <2>1, ResetParts DEF Stop, Crash, DeviceTypes
  <2>3. ServerTypes' BY <1>0, <1>1 DEF Stop, Crash, ServerTypes, server
  <2> QED BY <2>1, <2>2, <2>3, ResetParts, TypeOKPartsNext DEF Inv
<1>2. CASE StartRefused \/ Forget
  <2>1. UNCHANGED <<caller, http, faults>> BY <1>2 DEF StartRefused, Forget
  <2>2. DeviceTypes' /\ ServerTypes'
    BY <1>0, <1>2 DEF StartRefused, Forget, DeviceTypes, ServerTypes, device,
       server
  <2>3. CallerTypes' /\ HttpTypes'
    BY <1>0, <2>1, SameCaller, SamePart
  <2>4. Awaited' BY <1>0, <2>1 DEF Awaited, caller, http
  <2>5. AtRest'
    BY <1>2 DEF Inv, AtRest, StartRefused, Forget, caller, device
  <2> QED BY <2>2, <2>3, <2>4, <2>5, TypeOKPartsNext DEF Inv
<1>3. CASE Start
  <2>1. pc[Main] = "idle" /\ Main \in Threads
    BY <1>3 DEF Inv, AtRest, Start, Threads
  <2>2. CallerTypes'
    BY <1>0, <1>3, <2>1, MoveLabel, CallTypes DEF Start, Labels, Held, DeviceKinds
  <2>3. DeviceTypes' BY <1>0, <1>3 DEF Start, DeviceTypes
  <2>4. HttpTypes' /\ ServerTypes' BY <1>0, <1>3, SamePart DEF Start
  <2>5. Awaited'
    BY <1>0, <1>3, <2>1 DEF Start, Awaited, Goto, CallerTypes, http
  <2>6. AtRest' BY <1>3 DEF Start, AtRest
  <2> QED BY <2>2, <2>3, <2>4, <2>5, <2>6, TypeOKPartsNext DEF Inv
<1> QED BY <1>1, <1>2, <1>3

LEMMA InvInit == Init => Inv
<1> SUFFICES ASSUME Init PROVE Inv OBVIOUS
<1>1. NoAnswer \in Answer /\ NoCall \in Requests
  BY DEF NoAnswer, Answer, Bodies, NoCall, Requests, DeviceKinds
<1>2. CallerTypes
  BY <1>1, ThreadsAssumption DEF Init, CallerTypes, Labels, Held
<1>3. HttpTypes /\ Awaited BY <1>1 DEF Init, HttpTypes, Awaited, Fresh, Busy
<1>4. DeviceTypes /\ ServerTypes /\ AtRest
  BY DEF Init, DeviceTypes, ServerTypes, AtRest
<1> QED BY <1>2, <1>3, <1>4, TypeOKParts DEF Inv

LEMMA InvNext == Inv /\ [Next]_vars => Inv'
<1> SUFFICES ASSUME Inv, [Next]_vars PROVE Inv' OBVIOUS
<1>1. CASE Start \/ StartRefused \/ Stop \/ Crash \/ Forget
  BY <1>1, OutsideStep
<1>2. ASSUME NEW t \in Threads, FunctionStep(t) \/ ClientStep(t)
      PROVE  Inv'
  BY <1>2, RequestStep, ClientStepInv, DeviceSteps, AppSteps DEF FunctionStep
<1>3. ASSUME NEW t \in Workers, NEW a \in Apps,
             Instantiate(t, a) \/ Update(t, a) \/ Delete(t, a)
      PROVE  Inv'
  BY <1>3, AsksStep
<1>4. CASE UNCHANGED vars
  <2>1. UNCHANGED <<device, caller, http, server, faults>>
    BY <1>4 DEF vars
  <2>2. DeviceTypes' /\ CallerTypes' /\ HttpTypes' /\ ServerTypes'
    BY <2>1, TypeOKParts, SamePart, SameCaller DEF Inv
  <2>3. Awaited' /\ AtRest'
    BY <2>1 DEF Inv, Awaited, AtRest, device, caller, http
  <2> QED BY <2>2, <2>3, TypeOKPartsNext DEF Inv
<1> QED BY <1>1, <1>2, <1>3, <1>4 DEF Next

\* The types, and that the device mutex belongs to the thread inside a request
\* (device.cpp:254-629), for any number of threads and applications.
THEOREM TypeCorrect == Spec => []TypeOK
<1>1. Inv => TypeOK BY DEF Inv
<1> QED BY <1>1, InvInit, InvNext, PTL DEF Spec

\* The manager is asked one thing at a time, over lost answers, failed
\* connections, crashes and restarts (device.cpp:254-629).
THEOREM OneRequestAlways == Spec => []OneRequest
<1>1. Inv => OneRequest
  <2> SUFFICES ASSUME Inv, NEW t \in Threads, NEW u \in Threads,
                      client[t] \in Busy
               PROVE  /\ pc[t] \in {"wait", "join"}
                      /\ client[u] \in Busy \/ pc[u] \in Held => t = u
    BY DEF OneRequest
  <2>1. pc[t] \in {"wait", "join"} /\ mtx = t
    BY DEF Inv, Awaited, TypeOK, Held
  <2>2. client[u] \in Busy \/ pc[u] \in Held => mtx = u
    BY DEF Inv, Awaited, TypeOK, Held
  <2> QED BY <2>1, <2>2
<1> QED BY <1>1, InvInit, InvNext, PTL DEF Spec


-----------------------------------------------------------------------------
(* Requests are atomic: the refinement                                      *)

Running == up \in {"boot", "serving"}

\* Who is in a request, and how far it is, in this state and in the next.
LEMMA StageIs ==
    /\ Stage = IF mtx = NoOne THEN "none"
               ELSE IF client[mtx] \in {"started", "asking"} THEN "asked"
               ELSE "closed"
    /\ Stage' = IF mtx' = NoOne THEN "none"
                ELSE IF client'[mtx'] \in {"started", "asking"} THEN "asked"
                ELSE "closed"
BY DEF Stage

LEMMA OwnerWorks ==
    ASSUME Inv, NEW t \in Threads
    PROVE  /\ pc[t] # "idle" => Running
           /\ pc[t] \in Held => mtx = t /\ mtx # NoOne /\ Running
           /\ client[t] \in Busy => mtx = t /\ mtx # NoOne /\ Running
BY ThreadsAssumption DEF Inv, TypeOK, Awaited, AtRest, Held, Running

LEMMA SameStage ==
    ASSUME UNCHANGED <<mtx, client>>
    PROVE  UNCHANGED Stage
BY StageIs

AbstractStep == [Atomic!Next]_(<<Running, mtx, Stage, devices, listed>>)

LEMMA RequestAtomic ==
    ASSUME Inv, NEW t \in Threads,
           ExitClient(t) \/ Enter(t) \/ Woken(t) \/ TimedOut(t) \/ Join(t)
    PROVE  AbstractStep
<1>0. /\ client \in [Threads -> Busy \cup {"none", "done"}]
      /\ pc[t] # "idle" /\ UNCHANGED <<up, devices, listed>>
  BY DEF Inv, TypeOK, ExitClient, Enter, Woken, TimedOut, Join, device, server
<1>1. Running /\ Running' BY <1>0, OwnerWorks DEF Running
<1>2. CASE ExitClient(t)
  BY <1>0, <1>1, <1>2, StageIs DEF ExitClient, AbstractStep
<1>3. CASE Enter(t)
  <2>1. mtx = NoOne /\ mtx' = t /\ Stage' \in {"asked", "closed"}
    BY <1>3, ThreadsAssumption, StageIs DEF Enter
  <2>2. Atomic!Ask(t) BY <1>0, <1>1, <2>1 DEF Atomic!Ask, Running
  <2> QED BY <2>2 DEF AbstractStep, Atomic!Next
<1>4. CASE Woken(t) \/ TimedOut(t)
  <2>1. UNCHANGED <<mtx, client>> BY <1>4 DEF Woken, TimedOut, http
  <2> QED BY <1>0, <1>1, <2>1, SameStage DEF AbstractStep
<1>5. CASE Join(t)
  <2>1. mtx = t /\ mtx' = t /\ client[t] = "done" /\ client'[t] = "none"
    BY <1>0, <1>5, OwnerWorks DEF Join, Held
  <2>2. UNCHANGED Stage BY <2>1, StageIs
  <2> QED BY <1>0, <1>1, <2>1, <2>2 DEF AbstractStep
<1> QED BY <1>2, <1>3, <1>4, <1>5

LEMMA ClientAtomic ==
    ASSUME Inv, NEW t \in Threads, ClientStep(t)
    PROVE  AbstractStep
<1>0. /\ client \in [Threads -> Busy \cup {"none", "done"}]
      /\ client[t] \in Busy /\ UNCHANGED <<up, mtx>>
  BY DEF Inv, TypeOK, Busy, ClientStep, Run, ConnectFails, ManagerAnswers, Read,
     Breaks, Ready, device, caller
<1>1. Running /\ Running' /\ mtx = t /\ mtx # NoOne
  BY <1>0, OwnerWorks DEF Running
<1>2. CASE Run(t) \/ Read(t) \/ Ready(t)
  <2>1. UNCHANGED <<devices, listed>> BY <1>2 DEF Run, Read, Ready, server
  <2>2. /\ client[t] = "started" => client'[t] = "asking"
        /\ client[t] = "answered" => client'[t] = "ended"
        /\ client[t] = "ended" => client'[t] = "done"
        /\ client[t] # "asking"
    BY <1>0, <1>2 DEF Run, Read, Ready
  <2>3. UNCHANGED Stage BY <1>0, <1>1, <2>2, StageIs DEF Busy
  <2> QED BY <1>0, <1>1, <2>1, <2>3 DEF AbstractStep
<1>3. CASE ConnectFails(t) \/ Breaks(t) \/ ManagerAnswers(t)
  <2>1. client'[t] \in {"done", "ended", "answered"}
    BY <1>0, <1>3 DEF ConnectFails, Breaks, ManagerAnswers
  <2>2. Stage' = "closed" BY <1>0, <1>1, <2>1, StageIs
  <2>3. CASE client[t] \in {"started", "asking"}
    <3>1. Stage = "asked" BY <1>1, <2>3, StageIs
    <3>2. Atomic!Close BY <1>0, <1>1, <2>2, <3>1 DEF Atomic!Close, Running
    <3> QED BY <3>2 DEF AbstractStep, Atomic!Next
  <2>4. CASE client[t] = "answered"
    <3>1. UNCHANGED <<devices, listed>>
      BY <1>3, <2>4 DEF ConnectFails, Breaks, ManagerAnswers, server
    <3>2. Stage = "closed" BY <1>1, <2>4, StageIs
    <3> QED BY <1>0, <1>1, <2>2, <3>1, <3>2 DEF AbstractStep
  <2> QED BY <1>3, <2>3, <2>4 DEF ConnectFails, Breaks, ManagerAnswers
<1> QED BY <1>2, <1>3 DEF ClientStep

\* A function returns: its client thread has been joined.
LEMMA ReturnAtomic ==
    ASSUME Inv, NEW t \in Threads, pc[t] \in {"result", "saving"}, mtx' = NoOne,
           up' \in {up, "serving"}, UNCHANGED <<devices, listed>>
    PROVE  AbstractStep
<1>1. mtx = t /\ mtx # NoOne /\ Running /\ client[t] \notin Busy
  BY OwnerWorks DEF Held, Inv, Awaited
<1>2. Stage = "closed" /\ Stage' = "none" BY <1>1, StageIs DEF Busy
<1>3. Running' BY <1>1 DEF Running
<1>4. Atomic!Return BY <1>1, <1>2, <1>3 DEF Atomic!Return, Running
<1> QED BY <1>4 DEF AbstractStep, Atomic!Next

LEMMA EndsAtomic ==
    ASSUME Inv, NEW t \in Threads,
           \/ DeviceExists(t) \/ SendDeviceInfo(t) \/ SaveSettings(t)
           \/ AppExists(t) \/ RegisterApp(t) \/ UpdateApp(t) \/ DeleteApp(t)
    PROVE  AbstractStep
<1>1. CASE \/ /\ pc[t] \in {"result", "saving"} /\ mtx' = NoOne
              /\ up' \in {up, "serving"} /\ UNCHANGED <<devices, listed>>
  BY <1>1, ReturnAtomic
<1>2. CASE /\ pc[t] = "result" /\ UNCHANGED <<up, mtx, http, server>>
  <2>1. UNCHANGED <<mtx, client>> BY <1>2 DEF http
  <2> QED BY <1>2, <2>1, SameStage DEF AbstractStep, Running, server
<1> QED BY <1>1, <1>2 DEF DeviceExists, SendDeviceInfo, SaveSettings, AppExists,
        RegisterApp, UpdateApp, DeleteApp, Returns, server

LEMMA OutsideAtomic ==
    ASSUME Inv, Start \/ StartRefused \/ Stop \/ Crash \/ Forget
    PROVE  AbstractStep
<1>1. CASE Stop \/ Crash
  <2>1. /\ ~Running' /\ mtx' = NoOne /\ Stage' = "none"
        /\ UNCHANGED <<devices, listed>>
    BY <1>1, StageIs DEF Stop, Crash, Reset, Running, server
  <2>2. Atomic!End BY <2>1 DEF Atomic!End, Running
  <2> QED BY <2>2 DEF AbstractStep, Atomic!Next
<1>2. CASE StartRefused
  <2>1. UNCHANGED <<mtx, client, devices, listed>> /\ Running' = Running
    BY <1>2 DEF StartRefused, Running, caller, http, server
  <2> QED BY <2>1, SameStage DEF AbstractStep
<1>3. CASE Forget
  <2>1. /\ UNCHANGED <<up, mtx, client>> /\ ~Running
        /\ devices' = {} /\ listed' = {}
    BY <1>3 DEF Forget, device, caller, http, Running
  <2>2. Atomic!Forget BY <2>1, SameStage DEF Atomic!Forget, Running
  <2> QED BY <2>2 DEF AbstractStep, Atomic!Next
<1>4. CASE Start
  <2>1. /\ UNCHANGED <<mtx, client, devices, listed>>
        /\ ~Running /\ Running'
    BY <1>4 DEF Start, Running, http, server
  <2>2. Atomic!Start BY <2>1, SameStage DEF Atomic!Start, Running
  <2> QED BY <2>2 DEF AbstractStep, Atomic!Next
<1> QED BY <1>1, <1>2, <1>3, <1>4

LEMMA NextAtomic ==
    ASSUME Inv, [Next]_vars
    PROVE  AbstractStep
<1>1. CASE Start \/ StartRefused \/ Stop \/ Crash \/ Forget
  BY <1>1, OutsideAtomic
<1>2. ASSUME NEW t \in Threads, FunctionStep(t) \/ ClientStep(t)
      PROVE  AbstractStep
  BY <1>2, RequestAtomic, ClientAtomic, EndsAtomic DEF FunctionStep
<1>3. ASSUME NEW t \in Workers, NEW a \in Apps,
             Instantiate(t, a) \/ Update(t, a) \/ Delete(t, a)
      PROVE  AbstractStep
  <2>1. UNCHANGED <<up, mtx, client, devices, listed>>
    BY <1>3 DEF Instantiate, Update, Delete, Asks, device, http, server
  <2> QED BY <2>1, SameStage DEF AbstractStep, Running
<1>4. CASE UNCHANGED vars
  <2>1. UNCHANGED <<up, mtx, client, devices, listed>>
    BY <1>4 DEF vars, device, caller, http, server
  <2> QED BY <2>1, SameStage DEF AbstractStep, Running
<1> QED BY <1>1, <1>2, <1>3, <1>4 DEF Next

\* Each request is atomic for the manager: one at a time, an effect at most once
\* and never after the function has returned, over time limits, lost answers,
\* crashes and restarts, for any number of threads and applications
\* (device.cpp:254-629).
THEOREM RequestsAreAtomic == Spec => ImplementsAtomicRequests
<1>1. Init => Atomic!Init
  BY DEF Init, Atomic!Init, Stage
<1>2. Inv /\ [Next]_vars => [Atomic!Next]_(Atomic!vars)
  BY NextAtomic DEF AbstractStep, Atomic!vars, Running
<1> QED BY <1>1, <1>2, InvInit, InvNext, PTL
    DEF Spec, ImplementsAtomicRequests, Atomic!Spec


-----------------------------------------------------------------------------
(* Answers                                                                  *)

\* From the end of a request to the next one, the slot has its answer.
SlotFilled(t) ==
    /\ pc[t] = "result" => slot[t] = answer[t]
    /\ pc[t] \in {"wait", "join"} /\ client[t] \in {"ended", "done"}
          => slot[t] = answer[t]
Answered ==
    "loss" \notin faults /\ configured => \A t \in Threads : SlotFilled(t)

\* A step of thread t, or of its client, leaves the other slots alone.
LEMMA OthersFilled ==
    ASSUME Inv, NEW t \in Threads, FunctionStep(t) \/ ClientStep(t)
    PROVE  \A u \in Threads : u # t =>
              /\ pc'[u] = pc[u] /\ client'[u] = client[u]
              /\ slot'[u] = slot[u] /\ answer'[u] = answer[u]
<1>0. /\ pc \in [Threads -> Labels] /\ slot \in [Threads -> Answer]
      /\ answer \in [Threads -> Answer]
      /\ client \in [Threads -> Busy \cup {"none", "done"}]
  BY DEF Inv, TypeOK
<1>1. CASE ExitClient(t) \/ Enter(t) \/ Woken(t) \/ TimedOut(t) \/ Join(t)
  BY <1>0, <1>1 DEF ExitClient, Enter, Woken, TimedOut, Join, Goto, http
<1>2. CASE ClientStep(t)
  <2>1. CASE ManagerAnswers(t)
    <3>1. pc' = pc /\ slot' = slot
      BY <2>1 DEF ManagerAnswers, caller
    <3>2. \E a : answer' = [answer EXCEPT ![t] = a]
      BY <2>1 DEF ManagerAnswers
    <3>3. client' = [client EXCEPT ![t] = "answered"]
      BY <2>1 DEF ManagerAnswers
    <3> QED BY <1>0, <3>1, <3>2, <3>3
  <2>2. CASE Run(t) \/ ConnectFails(t) \/ Read(t) \/ Breaks(t) \/ Ready(t)
    BY <1>0, <2>2 DEF Run, ConnectFails, Read, Breaks, Ready, caller
  <2> QED BY <1>2, <2>1, <2>2 DEF ClientStep
<1>3. CASE DeviceExists(t) \/ SendDeviceInfo(t) \/ SaveSettings(t)
  BY <1>0, <1>3 DEF DeviceExists, SendDeviceInfo, SaveSettings, Returns, Idle,
     Goto, http
<1>4. CASE AppExists(t) \/ RegisterApp(t) \/ UpdateApp(t) \/ DeleteApp(t)
  BY <1>0, <1>4 DEF AppExists, RegisterApp, UpdateApp, DeleteApp, Returns, Idle,
     Goto
<1> QED BY <1>1, <1>2, <1>3, <1>4 DEF FunctionStep

LEMMA OwnFilled ==
    ASSUME Inv, NEW t \in Threads, FunctionStep(t) \/ ClientStep(t),
           "loss" \notin faults', configured, SlotFilled(t)
    PROVE  SlotFilled(t)'
<1>0. /\ pc \in [Threads -> Labels] /\ slot \in [Threads -> Answer]
      /\ answer \in [Threads -> Answer]
      /\ client \in [Threads -> Busy \cup {"none", "done"}]
  BY DEF Inv, TypeOK
<1>1. CASE ExitClient(t) \/ Enter(t) \/ Woken(t) \/ TimedOut(t) \/ Join(t)
  BY <1>0, <1>1 DEF ExitClient, Enter, Woken, TimedOut, Join, Goto, http,
     SlotFilled
<1>2. CASE ClientStep(t)
  <2>0. client[t] \in Busy => pc[t] \in {"wait", "join"} BY DEF Inv, Awaited
  <2>1. CASE ManagerAnswers(t)
    BY <1>0, <2>0, <2>1 DEF ManagerAnswers, SlotFilled, caller, Busy
  <2>2. CASE Run(t) \/ Read(t) \/ Ready(t)
    BY <1>0, <2>0, <2>2 DEF Run, Read, Ready, SlotFilled, caller, Busy
  <2>3. CASE ConnectFails(t) \/ Breaks(t)
    BY <2>3 DEF ConnectFails, Breaks
  <2> QED BY <1>2, <2>1, <2>2, <2>3 DEF ClientStep
<1>3. CASE DeviceExists(t) \/ SendDeviceInfo(t) \/ SaveSettings(t)
  BY <1>0, <1>3 DEF DeviceExists, SendDeviceInfo, SaveSettings, Idle, Goto,
     SlotFilled
<1>4. CASE AppExists(t) \/ RegisterApp(t) \/ UpdateApp(t) \/ DeleteApp(t)
  BY <1>0, <1>4 DEF AppExists, RegisterApp, UpdateApp, DeleteApp, Idle, Goto,
     SlotFilled
<1> QED BY <1>1, <1>2, <1>3, <1>4 DEF FunctionStep

\* What is never undone: a loss, and what config.json says of the manager.
LEMMA FaultsStay ==
    ASSUME [Next]_vars
    PROVE  faults \subseteq faults' /\ configured' = configured
<1>1. CASE Start \/ StartRefused \/ Stop \/ Crash \/ Forget
  BY <1>1 DEF Start, StartRefused, Stop, Crash, Forget, device
<1>2. ASSUME NEW t \in Threads, FunctionStep(t)
      PROVE  faults \subseteq faults' /\ configured' = configured
  BY <1>2 DEF FunctionStep, ExitClient, Enter, Woken, TimedOut, Join,
     DeviceExists, SendDeviceInfo, SaveSettings, AppExists, RegisterApp,
     UpdateApp, DeleteApp, Returns, device
<1>3. ASSUME NEW t \in Threads, ClientStep(t)
      PROVE  faults \subseteq faults' /\ configured' = configured
  BY <1>3 DEF ClientStep, Run, ConnectFails, ManagerAnswers, Read, Breaks, Ready,
     device
<1>4. ASSUME NEW t \in Workers, NEW a \in Apps,
             Instantiate(t, a) \/ Update(t, a) \/ Delete(t, a)
      PROVE  faults \subseteq faults' /\ configured' = configured
  BY <1>4 DEF Instantiate, Update, Delete, Asks, device
<1>5. CASE UNCHANGED vars BY <1>5 DEF vars, device
<1> QED BY <1>1, <1>2, <1>3, <1>4, <1>5 DEF Next

LEMMA AnsweredNext == Inv /\ Answered /\ [Next]_vars => Answered'
<1> SUFFICES ASSUME Inv, Answered, [Next]_vars, "loss" \notin faults',
                    configured'
             PROVE  \A t \in Threads : SlotFilled(t)'
  BY DEF Answered
<1>0. configured /\ \A t \in Threads : SlotFilled(t)
  BY FaultsStay DEF Answered
<1>1. CASE Start \/ StartRefused \/ Forget
  <2>1. /\ pc \in [Threads -> Labels] /\ UNCHANGED http
        /\ \A t \in Threads : pc'[t] \in {pc[t], "exit"}
    BY <1>1 DEF Inv, TypeOK, Start, StartRefused, Forget, Goto, caller
  <2> QED BY <1>0, <2>1 DEF SlotFilled, http
<1>2. CASE Stop \/ Crash
  BY <1>2 DEF Stop, Crash, Reset, SlotFilled
<1>3. ASSUME NEW t \in Threads, FunctionStep(t) \/ ClientStep(t)
      PROVE  \A u \in Threads : SlotFilled(u)'
  BY <1>0, <1>3, OwnFilled, OthersFilled DEF SlotFilled
<1>4. ASSUME NEW t \in Workers, NEW a \in Apps,
             Instantiate(t, a) \/ Update(t, a) \/ Delete(t, a)
      PROVE  \A u \in Threads : SlotFilled(u)'
  <2>1. /\ pc \in [Threads -> Labels] /\ UNCHANGED http
        /\ \A u \in Threads : pc'[u] \in {pc[u], "exit"}
    BY <1>4 DEF Inv, TypeOK, Instantiate, Update, Delete, Asks, Goto
  <2> QED BY <1>0, <2>1 DEF SlotFilled, http
<1>5. CASE UNCHANGED vars
  BY <1>0, <1>5 DEF vars, caller, http, SlotFilled
<1> QED BY <1>1, <1>2, <1>3, <1>4, <1>5 DEF Next

\* The answer that a function reads is to its own request, for any number of
\* threads and requests, as long as none was lost (device.cpp:301-304, 364-369).
THEOREM OwnAnswerAlways == Spec => []OwnAnswer
<1>1. Init => Answered BY DEF Init, Answered, SlotFilled
<1>2. Inv /\ Answered => OwnAnswer
  BY DEF Inv, Answered, SlotFilled, OwnAnswer
<1> QED BY <1>1, <1>2, InvInit, InvNext, AnsweredNext, PTL DEF Spec
=============================================================================
