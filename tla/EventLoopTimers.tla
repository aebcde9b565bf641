-------------------------- MODULE EventLoopTimers --------------------------
(***************************************************************************)
(* The timers of one application, as the turns of EventLoop::eventloop_run *)
(* treat them: expire_timers() with its rounds, the computation of the     *)
(* wait, createTimer and deleteTimer called from the callbacks.            *)
(*                                                                         *)
(* Time is kept relative: a timer stores how long it has left, in ticks,   *)
(* Tick of them in a millisecond. Only the sign of a passed target is      *)
(* looked at, so it is cut off at -1. The Duktape value stack is its       *)
(* height above what it was when the loop started.                         *)
(***************************************************************************)
EXTENDS Integers, Sequences, FiniteSets

CONSTANTS
    Tick,          \* ticks in a millisecond
    MaxWait,       \* MAX_WAIT, in milliseconds
    MaxExpiries,   \* MAX_EXPIRIES
    MaxTimers,     \* MAX_TIMERS
    Initial,       \* the timers the main module may have created
    New,           \* the timers a callback may create
    Effects,       \* what else a callback may do: "clear", "throw"
    Slack, Late,   \* ticks a turn may take, and a wake-up be late
    Parks,         \* ticks the loop may spend in its paused state
    Room, Below,   \* slots of the value stack above the loop's, and below
    MaxIds, MaxAge \* bounds: timers ever created; age of a timer

Specs == [delay : Nat \ {0}, oneshot : BOOLEAN]
Slots == {"turn", "round", "call", "timeout", "wait", "exited", "crashed"}

ASSUME TimingAssumption ==
    /\ Tick \in Nat \ {0} /\ MaxWait \in Nat \ {0} /\ MaxAge \in Nat
    /\ Slack \subseteq Nat /\ Late \subseteq Nat /\ Parks \subseteq Nat
ASSUME LimitsAssumption ==
    /\ MaxExpiries \in Nat \ {0} /\ MaxTimers \in Nat \ {0}
    /\ Room \in Nat /\ Below \in Nat /\ MaxIds \in Nat
ASSUME TimersAssumption ==
    /\ \A q \in Initial : q \in Seq(Specs) /\ Len(q) <= MaxIds
    /\ New \subseteq Specs
    /\ Effects \subseteq {"clear", "throw"}

VARIABLES
    pc,       \* where the event loop thread is
    timers,   \* the map of this heap in all_timers_
    nextId,   \* next_id_
    round,    \* MAX_EXPIRIES - sanity + 1
    current,  \* the timer whose callback runs
    stack,    \* height of the value stack
    timeout,  \* milliseconds of the wait
    exitReq   \* exit_requested_
vars == <<pc, timers, nextId, round, current, stack, timeout, exitReq>>

Least(a, b) == IF a <= b THEN a ELSE b
Most(a, b)  == IF a >= b THEN a ELSE b

\* A timer just created. The last two fields are history: the age of the timer
\* since its creation or its last call, and the calls it has had (two at most
\* are counted).
Timer(s) == [delay |-> s.delay, oneshot |-> s.oneshot,
             left |-> s.delay * Tick, removed |-> FALSE, expiring |-> FALSE,
             age |-> 0, calls |-> 0]

\* The timers d ticks later.
Later(d) ==
    [i \in DOMAIN timers |->
        [timers[i] EXCEPT !.left = Most(-1, @ - d),
                          !.age = Least(MaxAge, @ + d)]]

Init ==
    /\ pc = "turn" /\ round = 0 /\ current = 0 /\ stack = 0
    /\ timeout = 0 /\ exitReq = FALSE
    /\ \E q \in Initial : /\ timers = [i \in 0..Len(q) - 1 |-> Timer(q[i + 1])]
                          /\ nextId = Len(q)

-----------------------------------------------------------------------------
\* The scan over the timers stops before one that has been removed, and at one
\* that is marked as expiring and whose target lies ahead: the one to call.
Scanned == {i \in DOMAIN timers :
               \A j \in DOMAIN timers : j <= i => ~timers[j].removed}
Armed(i) == timers[i].expiring /\ timers[i].left > 0
ToCall == {i \in Scanned : Armed(i) /\ \A j \in Scanned : Armed(j) => i <= j}

\* Mutant: a timer due within the next two milliseconds is marked too.
MarkedSoon ==
    [i \in DOMAIN timers |->
        IF i \notin Scanned \/ \E j \in ToCall : j <= i THEN timers[i]
        ELSE IF timers[i].left < 2 * Tick
        THEN [timers[i] EXCEPT !.expiring = TRUE,
                               !.left = timers[i].delay * Tick]
        ELSE [timers[i] EXCEPT !.expiring = FALSE]]

\* Every other timer the scan passes is marked and given its next target when
\* it is due, and otherwise loses its mark.
Marked ==
    [i \in DOMAIN timers |->
        IF i \notin Scanned \/ \E j \in ToCall : j <= i THEN timers[i]
        ELSE IF timers[i].left < 0
        THEN [timers[i] EXCEPT !.expiring = TRUE, !.left = timers[i].delay * Tick]
        ELSE [timers[i] EXCEPT !.expiring = FALSE]]

-----------------------------------------------------------------------------
(* One turn of the loop                                                    *)

\* expire_timers() starts: the stash and its table of callbacks are pushed.
\* Pushing more than the value stack has room for is an error nothing in the
\* loop catches; run() then declares the application crashed.
Turn ==
    /\ pc = "turn" /\ ~exitReq
    /\ IF stack + 2 > Room
       THEN pc' = "crashed" /\ UNCHANGED <<round, stack>>
       ELSE pc' = "round" /\ round' = 1 /\ stack' = stack + 2
    /\ UNCHANGED <<timers, nextId, current, timeout, exitReq>>

\* Mutant: one round more than there are timers.
OneRoundMore == \/ round > MaxExpiries
                \/ round > Cardinality(DOMAIN timers) + 1
                \/ exitReq

RoundsOver == \/ round > MaxExpiries
              \/ round > Cardinality(DOMAIN timers)
              \/ exitReq

\* Mutant: popping below the bottom goes unnoticed.
PopUnchecked == pc' = "round" /\ round' = round + 1 /\ stack' = stack - 2

\* duk_pop_2() at the end of each round, though they were pushed once
PopTable ==
    IF stack + Below < 2
    THEN pc' = "crashed" /\ UNCHANGED <<round, stack>>
    ELSE pc' = "round" /\ round' = round + 1 /\ stack' = stack - 2

ScanOnly ==
    /\ pc = "round" /\ ~RoundsOver /\ ToCall = {}
    /\ timers' = Marked
    /\ PopTable
    /\ UNCHANGED <<nextId, current, timeout, exitReq>>

ScanAndCall ==
    /\ pc = "round" /\ ~RoundsOver
    /\ \E i \in ToCall : current' = i
    /\ timers' = Marked
    /\ pc' = "call"
    /\ UNCHANGED <<nextId, round, stack, timeout, exitReq>>

\* Mutant: a oneshot timer is not removed after its call.
CalledAgain(ts, n) ==
    IF current \notin DOMAIN ts THEN ts
    ELSE [ts EXCEPT ![current].expiring = FALSE,
                    ![current].age = 0, ![current].calls = Least(2, @ + n)]

\* Mutant: the timer stays marked after its call.
CalledMarked(ts, n) ==
    IF current \notin DOMAIN ts THEN ts
    ELSE [ts EXCEPT ![current].removed = @ \/ ts[current].oneshot,
                    ![current].age = 0, ![current].calls = Least(2, @ + n)]

\* after the callback; n is 1 when the right function was called
Called(ts, n) ==
    IF current \notin DOMAIN ts THEN ts
    ELSE [ts EXCEPT ![current].expiring = FALSE,
                    ![current].removed = @ \/ ts[current].oneshot,
                    ![current].age = 0, ![current].calls = Least(2, @ + n)]

\* In the first round the table is where duk_get_prop(ctx, -2) looks. The
\* callback creates or deletes timers, or throws an Error, which asks the loop
\* to exit; so does createTimer when all slots are taken.
Callback ==
    /\ pc = "call" /\ round = 1
    /\ \/ timers' = Called(timers, 1) /\ UNCHANGED <<nextId, exitReq>>
       \/ /\ Cardinality(DOMAIN timers) < MaxTimers /\ nextId < MaxIds
          /\ \E s \in New :
                timers' = Called([i \in DOMAIN timers \cup {nextId} |->
                                     IF i = nextId THEN Timer(s)
                                     ELSE timers[i]], 1)
          /\ nextId' = nextId + 1 /\ UNCHANGED exitReq
       \/ /\ "clear" \in Effects
          /\ \E i \in DOMAIN timers \ {current} :
                timers' = Called([j \in DOMAIN timers \ {i} |-> timers[j]], 1)
          /\ UNCHANGED <<nextId, exitReq>>
       \/ /\ \/ "throw" \in Effects
             \/ New # {} /\ Cardinality(DOMAIN timers) >= MaxTimers
          /\ timers' = Called(timers, 1)
          /\ exitReq' = TRUE /\ UNCHANGED nextId
    /\ PopTable
    /\ UNCHANGED <<current, timeout>>

\* A callback deletes its own timer: expire_timers() goes on to write into the
\* erased node, and to step from it to the next.
ClearSelf ==
    /\ pc = "call" /\ round = 1 /\ "clear" \in Effects
    /\ timers' = [j \in DOMAIN timers \ {current} |-> timers[j]]
    /\ \/ PopTable
       \/ pc' = "crashed" /\ UNCHANGED <<round, stack>>
    /\ UNCHANGED <<nextId, current, timeout, exitReq>>

\* In a later round the table is gone from the stack. What lies there instead
\* has no such property, and calling undefined throws a TypeError, inside the
\* protected call; or it is no object at all, and the lookup itself throws.
Miscall ==
    /\ pc = "call" /\ round > 1
    /\ \/ /\ timers' = Called(timers, 0) /\ exitReq' = TRUE
          /\ PopTable
       \/ /\ pc' = "crashed"
          /\ UNCHANGED <<timers, exitReq, round, stack>>
    /\ UNCHANGED <<nextId, current, timeout>>

EndRounds ==
    /\ pc = "round" /\ RoundsOver
    /\ pc' = "timeout"
    /\ UNCHANGED <<timers, nextId, round, current, stack, timeout, exitReq>>

\* The wait is for the timer visited last, at least MIN_WAIT and at most
\* MAX_WAIT: the minimum over the timers is computed and then overwritten.
WaitFor(ts) ==
    IF DOMAIN ts = {} THEN MaxWait
    ELSE LET last == CHOOSE i \in DOMAIN ts : \A j \in DOMAIN ts : j <= i
         IN  Least(MaxWait, Most(1, ts[last].left \div Tick))

PickTimeout ==
    /\ pc = "timeout"
    /\ \E e \in Slack : timers' = Later(e)
    /\ timeout' = WaitFor(timers')
    /\ pc' = "wait"
    /\ UNCHANGED <<nextId, round, current, stack, exitReq>>

\* Mutant: the wait is rounded up.
WaitOneMore ==
    /\ pc = "wait" /\ ~exitReq
    /\ \E l \in Late : timers' = Later((timeout + 1) * Tick + l)
    /\ pc' = "turn"
    /\ UNCHANGED <<nextId, round, current, stack, timeout, exitReq>>

\* nothing but an exit ends the wait early
Wait ==
    /\ pc = "wait" /\ ~exitReq
    /\ \E l \in Late : timers' = Later(timeout * Tick + l)
    /\ pc' = "turn"
    /\ UNCHANGED <<nextId, round, current, stack, timeout, exitReq>>

Exit ==
    /\ pc \in {"turn", "wait"} /\ exitReq
    /\ pc' = "exited"
    /\ UNCHANGED <<timers, nextId, round, current, stack, timeout, exitReq>>

\* the application was paused for a while
Park ==
    /\ pc = "turn" /\ ~exitReq
    /\ \E d \in Parks : timers' = Later(d)
    /\ UNCHANGED <<pc, nextId, round, current, stack, timeout, exitReq>>

Loop == \/ Turn \/ ScanOnly \/ ScanAndCall \/ Callback \/ ClearSelf \/ Miscall
        \/ EndRounds \/ PickTimeout \/ Wait \/ Exit
Next == Loop \/ Park

\* The event loop thread is scheduled, and its wait ends.
Spec == Init /\ [][Next]_vars /\ WF_vars(Loop)
-----------------------------------------------------------------------------
TimerType == [delay : Nat \ {0}, oneshot : BOOLEAN, left : Int,
              removed : BOOLEAN, expiring : BOOLEAN, age : 0..MaxAge,
              calls : 0..2]

\* The type of every variable.
TypeOK ==
    /\ pc \in Slots
    /\ nextId \in 0..MaxIds /\ DOMAIN timers \subseteq 0..nextId - 1
    /\ \A i \in DOMAIN timers : timers[i] \in TimerType /\ timers[i].left >= -1
    /\ round \in 0..MaxExpiries + 1 /\ current \in 0..MaxIds
    /\ stack \in -Below..Room
    /\ timeout \in 0..MaxWait /\ exitReq \in BOOLEAN

Running(i) == pc = "call" /\ current = i

\* The callback of setTimeout is called at most once, though its timer stays
\* in the map after the call (custom_eventloop.cpp:227-229).
OneshotOnce ==
    \A i \in DOMAIN timers : timers[i].oneshot => timers[i].calls <= 1

\* No callback is called for the first time before its delay has passed, even
\* when the application was paused in between: a timer is marked only once it
\* is due, and called only after it was marked.
NeverEarly ==
    pc = "call" =>
        LET t == timers[current]
        IN  t.calls = 0 => t.age >= Least(MaxAge, t.delay * Tick)

\* The callbacks of an interval are called at least its delay less one
\* millisecond apart, the millisecond by which the wait is rounded down.
SteadyInterval ==
    pc = "call" =>
        LET t == timers[current]
        IN  t.age >= Least(MaxAge, (t.delay - 1) * Tick)

\* "[ ... stash eventTimers ]" (custom_eventloop.cpp:174): whenever a callback
\* is looked up, the table of callbacks is on top of the stack.
LooksUpInTable == pc = "call" => round = 1

\* "-> [ ... ]" (custom_eventloop.cpp:238): expire_timers() leaves the value
\* stack as it found it.
StackRestored == pc = "wait" => stack = 0

\* A timer is called: a oneshot timer once, an interval again and again.
TimersRun ==
    \A i \in 0..MaxIds - 1 :
        i \in DOMAIN timers /\ ~timers[i].removed
          ~> Running(i) \/ pc = "exited" \/ i \notin DOMAIN timers
=============================================================================
