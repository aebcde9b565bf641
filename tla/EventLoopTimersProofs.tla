----------------------- MODULE EventLoopTimersProofs -----------------------
(* Types, and when and how often callbacks are called, in EventLoopTimers,  *)
(* for any timers, delays, limits and lengths of turns.                     *)
EXTENDS EventLoopTimers, TLAPS, WellFoundedInduction, FiniteSetTheorems

\* A timer that has been called once and for all is out.
Once(t) == t.oneshot /\ t.calls > 0 => t.removed /\ t.calls <= 1

\* A timer that has not been called is as old as its target says, or, when it
\* is marked, as its delay.
Due(t) ==
    t.calls = 0 =>
        t.age >= Least(MaxAge, IF t.expiring THEN t.delay * Tick
                               ELSE t.delay * Tick - t.left)

\* The callback that runs is that of a timer marked and not removed.
Chosen ==
    pc = "call" =>
        /\ ~exitReq /\ round <= MaxExpiries /\ current \in DOMAIN timers
        /\ timers[current].expiring /\ ~timers[current].removed

AllOK(ts) ==
    \A i \in DOMAIN ts : ts[i] \in TimerType /\ ts[i].left >= -1 /\ Once(ts[i])
AllDue(ts) == \A i \in DOMAIN ts : Due(ts[i])

\* After a failed call the loop exits.
Inv == TypeOK /\ Chosen /\ AllOK(timers) /\ (~exitReq => AllDue(timers))

-----------------------------------------------------------------------------
(* Numbers                                                                  *)

LEMMA LeastNatural ==
    ASSUME NEW T, T \subseteq Nat, T # {}
    PROVE  \E m \in T : \A k \in T : m <= k
<1> DEFINE R == OpToRel(<, Nat)
<1>1. PICK m \in T : \A k \in T : ~ (<<k, m>> \in R)
  <2>1. IsWellFoundedOn(R, Nat) BY NatLessThanWellFounded
  <2> HIDE DEF R
  <2> QED BY <2>1, WFMin
<1>2. \A k \in T : <<k, m>> \in R <=> k < m
  BY Zenon DEF OpToRel
<1> HIDE DEF R
<1>3. \A k \in T : ~(k < m) BY <1>1, <1>2, Zenon
<1>4. m \in Nat /\ \A k \in T : k \in Nat OBVIOUS
<1> QED BY <1>3, <1>4, SMT

LEMMA GreatestNatural ==
    ASSUME NEW n \in Nat, NEW T, T \subseteq 0..n, T # {}
    PROVE  \E m \in T : \A k \in T : k <= m
<1> DEFINE U == {x \in 0..n : n - x \in T}
<1>1. PICK k \in T : TRUE OBVIOUS
<1>2. \A j \in T : n - j \in 0..n /\ n - (n - j) = j OBVIOUS
<1>3. \A j \in T : n - j \in U BY <1>2
<1>4. U \subseteq Nat /\ U # {}
  <2>1. n - k \in U BY <1>1, <1>3
  <2>2. \A x \in U : x \in 0..n OBVIOUS
  <2> HIDE DEF U
  <2> QED BY <2>1, <2>2
<1>5. PICK u \in U : \A x \in U : u <= x BY <1>4, LeastNatural
<1>6. u \in 0..n /\ n - u \in T OBVIOUS
<1>7. ASSUME NEW j \in T PROVE j <= n - u
  <2>1. u <= n - j BY <1>3, <1>5
  <2>2. j \in 0..n OBVIOUS
  <2> QED BY <1>6, <2>1, <2>2
<1> QED BY <1>6, <1>7

LEMMA Products ==
    /\ \A d \in Nat \ {0} : d * Tick \in Nat
    /\ \A d \in Nat, l \in Nat : d * Tick + l \in Nat
BY TimingAssumption

LEMMA Quotients == \A x \in Int : x \div Tick \in Int
BY TimingAssumption

-----------------------------------------------------------------------------
(* What happens to a timer                                                  *)

LEMMA FieldsSet ==
    /\ \A t \in TimerType, l \in Int :
          [t EXCEPT !.expiring = TRUE, !.left = l] \in TimerType
    /\ \A t \in TimerType, r \in BOOLEAN, a \in 0..MaxAge, c \in 0..2 :
          [t EXCEPT !.expiring = FALSE, !.removed = r, !.age = a, !.calls = c]
             \in TimerType
<1>1. \A t \in TimerType, l \in Int :
        [t EXCEPT !.expiring = TRUE, !.left = l] \in TimerType
  BY DEF TimerType
<1>2. \A t \in TimerType, r \in BOOLEAN, a \in 0..MaxAge, c \in 0..2 :
        [t EXCEPT !.expiring = FALSE, !.removed = r, !.age = a, !.calls = c]
           \in TimerType
  BY DEF TimerType
<1> QED BY <1>1, <1>2

\* It gets older.
LEMMA LaterTimer ==
    ASSUME NEW t \in TimerType, t.left >= -1, Once(t), NEW d \in Nat, NEW u,
           u = [t EXCEPT !.left = Most(-1, @ - d), !.age = Least(MaxAge, @ + d)]
    PROVE  /\ u \in TimerType /\ u.left >= -1 /\ Once(u) /\ (Due(t) => Due(u))
           /\ u.expiring = t.expiring /\ u.removed = t.removed
<1>1. /\ u = [delay |-> t.delay, oneshot |-> t.oneshot, removed |-> t.removed,
             expiring |-> t.expiring, calls |-> t.calls,
             left |-> Most(-1, t.left - d), age |-> Least(MaxAge, t.age + d)]
  BY DEF TimerType
<1>2. t.delay * Tick \in Nat BY Products DEF TimerType
<1> DEFINE p == t.delay * Tick
<1>3. u.delay * Tick = p BY <1>1
<1> HIDE DEF p
<1>4. /\ MaxAge \in Nat /\ t.age \in 0..MaxAge /\ t.left \in Int
      /\ t.delay \in Nat \ {0} /\ t.oneshot \in BOOLEAN /\ t.removed \in BOOLEAN
      /\ t.expiring \in BOOLEAN /\ t.calls \in 0..2 /\ p \in Nat
  BY <1>2, TimingAssumption DEF TimerType, p
<1>5. u \in TimerType /\ u.left >= -1
  <2>1. Most(-1, t.left - d) \in Int /\ Most(-1, t.left - d) >= -1
    BY <1>4 DEF Most
  <2>2. Least(MaxAge, t.age + d) \in 0..MaxAge BY <1>4 DEF Least
  <2> QED BY <1>1, <1>4, <2>1, <2>2 DEF TimerType
<1>6. Once(u) BY <1>1 DEF Once
<1>7. ASSUME Due(t) PROVE Due(u)
  <2>1. t.calls = 0 =>
          t.age >= Least(MaxAge, IF t.expiring THEN p ELSE p - t.left)
    BY <1>7 DEF Due, p
  <2>2. t.calls = 0 =>
          Least(MaxAge, t.age + d) >=
             Least(MaxAge, IF t.expiring THEN p ELSE p - Most(-1, t.left - d))
    BY <2>1, <1>4 DEF Least, Most
  <2> QED BY <1>1, <1>3, <2>2 DEF Due
<1> QED BY <1>1, <1>5, <1>6, <1>7

\* It is marked as due, or loses its mark.
LEMMA MarkTimer ==
    ASSUME NEW t \in TimerType, t.left < 0, t.left >= -1, Once(t), NEW u,
           u = [t EXCEPT !.expiring = TRUE, !.left = t.delay * Tick]
    PROVE  /\ u \in TimerType /\ u.left >= -1 /\ Once(u) /\ (Due(t) => Due(u))
           /\ u.removed = t.removed
<1>1. /\ u = [delay |-> t.delay, oneshot |-> t.oneshot, removed |-> t.removed,
             expiring |-> TRUE, calls |-> t.calls,
             left |-> t.delay * Tick, age |-> t.age]
  BY DEF TimerType
<1>2. t.delay * Tick \in Nat BY Products DEF TimerType
<1> DEFINE p == t.delay * Tick
<1>3. u.delay * Tick = p /\ u.left = p BY <1>1
<1> HIDE DEF p
<1>4. p \in Nat /\ t.age \in Nat /\ MaxAge \in Nat /\ t.left = -1
  BY <1>2, TimingAssumption DEF p, TimerType
<1>5. u \in TimerType /\ u.left >= -1
  <2>1. u = [t EXCEPT !.expiring = TRUE, !.left = p] /\ p \in Int
    BY <1>4 DEF p
  <2>2. u \in TimerType BY <1>4, <2>1, FieldsSet, Zenon
  <2> QED BY <1>3, <1>4, <2>2
<1>6. Once(u) BY <1>1 DEF Once
<1>7. ASSUME Due(t) PROVE Due(u)
  <2>1. t.calls = 0 =>
          t.age >= Least(MaxAge, IF t.expiring THEN p ELSE p + 1)
    BY <1>4, <1>7 DEF Due, p
  <2>2. t.calls = 0 => t.age >= Least(MaxAge, p) BY <2>1, <1>4 DEF Least
  <2> QED BY <1>1, <1>3, <2>2 DEF Due
<1> QED BY <1>1, <1>5, <1>6, <1>7

LEMMA UnmarkTimer ==
    ASSUME NEW t \in TimerType, t.left >= 0, Once(t), NEW u,
           u = [t EXCEPT !.expiring = FALSE]
    PROVE  /\ u \in TimerType /\ u.left >= -1 /\ Once(u) /\ (Due(t) => Due(u))
           /\ u.removed = t.removed
<1>1. /\ u = [delay |-> t.delay, oneshot |-> t.oneshot, removed |-> t.removed,
             expiring |-> FALSE, calls |-> t.calls,
             left |-> t.left, age |-> t.age]
  BY DEF TimerType
<1>2. t.delay * Tick \in Nat BY Products DEF TimerType
<1> DEFINE p == t.delay * Tick
<1>3. u.delay * Tick = p BY <1>1
<1> HIDE DEF p
<1>4. p \in Nat /\ t.age \in Nat /\ MaxAge \in Nat /\ t.left \in Nat
  BY <1>2, TimingAssumption DEF p, TimerType
<1>5. u \in TimerType /\ u.left >= -1
  <2>1. u \in TimerType BY DEF TimerType
  <2>2. u.left = t.left BY <1>1
  <2> QED BY <1>4, <2>1, <2>2
<1>6. Once(u) BY <1>1 DEF Once
<1>7. ASSUME Due(t) PROVE Due(u)
  <2>1. t.calls = 0 =>
          t.age >= Least(MaxAge, IF t.expiring THEN p ELSE p - t.left)
    BY <1>7 DEF Due, p
  <2>2. t.calls = 0 => t.age >= Least(MaxAge, p - t.left)
    BY <2>1, <1>4 DEF Least
  <2> QED BY <1>1, <1>3, <2>2 DEF Due
<1> QED BY <1>1, <1>5, <1>6, <1>7

\* Its callback was called, or n is 0 and something else was.
LEMMA CallTimer ==
    ASSUME NEW t \in TimerType, t.left >= -1, Once(t), ~t.removed,
           NEW n \in {0, 1}, NEW u,
           u = [t EXCEPT !.expiring = FALSE, !.removed = @ \/ t.oneshot,
                         !.age = 0, !.calls = Least(2, @ + n)]
    PROVE  /\ u \in TimerType /\ u.left >= -1 /\ Once(u) /\ (n = 1 => Due(u))
<1>1. /\ u = [delay |-> t.delay, oneshot |-> t.oneshot,
             removed |-> t.removed \/ t.oneshot, expiring |-> FALSE,
             calls |-> Least(2, t.calls + n), left |-> t.left, age |-> 0]
  BY DEF TimerType
<1>2. /\ MaxAge \in Nat /\ t.calls \in 0..2 /\ t.oneshot \in BOOLEAN
      /\ t.removed \in BOOLEAN /\ t.left \in Int /\ t.delay \in Nat \ {0}
  BY TimingAssumption DEF TimerType
<1>3. Least(2, t.calls + n) \in 0..2 BY <1>2 DEF Least
<1>4. (t.removed \/ t.oneshot) \in BOOLEAN BY <1>2, Zenon
<1>5. u \in TimerType /\ u.left >= -1
  <2>1. \E r \in BOOLEAN, c \in 0..2 :
          u = [t EXCEPT !.expiring = FALSE, !.removed = r, !.age = 0, !.calls = c]
    BY <1>3, <1>4
  <2>2. 0 \in 0..MaxAge BY <1>2
  <2>4. u \in TimerType BY <2>1, <2>2, FieldsSet, Zenon
  <2>3. u.left = t.left BY <1>1
  <2> QED BY <2>3, <2>4
<1>6. Once(u)
  <2>1. t.oneshot => t.calls = 0 BY <1>2 DEF Once
  <2>2. t.oneshot => Least(2, t.calls + n) <= 1 BY <1>2, <2>1 DEF Least
  <2>3. u.oneshot = t.oneshot /\ u.calls = Least(2, t.calls + n) BY <1>1
  <2>4. t.oneshot => u.removed
    <3>1. u.removed = (t.removed \/ t.oneshot) BY <1>1
    <3> QED BY <3>1, Zenon
  <2> QED BY <2>2, <2>3, <2>4 DEF Once
<1>7. n = 1 => u.calls # 0 BY <1>1, <1>2 DEF Least
<1> QED BY <1>5, <1>6, <1>7 DEF Due

\* A timer that is created.
LEMMA NewTimer ==
    ASSUME NEW s \in Specs
    PROVE  /\ Timer(s) \in TimerType /\ Timer(s).left >= -1
           /\ Once(Timer(s)) /\ Due(Timer(s)) /\ ~Timer(s).removed
<1>1. s.delay \in Nat \ {0} /\ s.oneshot \in BOOLEAN BY DEF Specs
<1> DEFINE p == s.delay * Tick
<1>2. p \in Nat BY <1>1, Products
<1>3. Timer(s) = [delay |-> s.delay, oneshot |-> s.oneshot, left |-> p,
                  removed |-> FALSE, expiring |-> FALSE, age |-> 0, calls |-> 0]
  BY DEF Timer
<1>4. Timer(s).delay * Tick = p BY <1>3
<1> HIDE DEF p
<1>5. MaxAge \in Nat BY TimingAssumption
<1>6. Timer(s) \in TimerType BY <1>1, <1>2, <1>3, <1>5 DEF TimerType
<1>7. Due(Timer(s)) BY <1>2, <1>3, <1>4, <1>5 DEF Due, Least
<1> QED BY <1>2, <1>3, <1>6, <1>7 DEF Once

-----------------------------------------------------------------------------
(* What happens to the timers                                               *)

LEMMA LaterAll ==
    ASSUME AllOK(timers), NEW d \in Nat
    PROVE  /\ DOMAIN Later(d) = DOMAIN timers /\ AllOK(Later(d))
           /\ AllDue(timers) => AllDue(Later(d))
<1> DEFINE ts == Later(d)
<1>1. DOMAIN ts = DOMAIN timers BY DEF Later
<1>2. ASSUME NEW i \in DOMAIN timers
      PROVE  /\ ts[i] \in TimerType /\ ts[i].left >= -1 /\ Once(ts[i])
             /\ Due(timers[i]) => Due(ts[i])
  <2>1. ts[i] = [timers[i] EXCEPT !.left = Most(-1, @ - d),
                                  !.age = Least(MaxAge, @ + d)]
    BY DEF Later
  <2>2. timers[i] \in TimerType /\ timers[i].left >= -1 /\ Once(timers[i])
    BY DEF AllOK
  <2> HIDE DEF ts
  <2> QED BY <2>1, <2>2, LaterTimer
<1> HIDE DEF ts
<1>3. AllOK(ts) BY <1>1, <1>2 DEF AllOK
<1>4. AllDue(timers) => AllDue(ts) BY <1>1, <1>2 DEF AllDue
<1> QED BY <1>1, <1>3, <1>4 DEF ts

LEMMA MarkedAll ==
    ASSUME TypeOK, AllOK(timers)
    PROVE  /\ DOMAIN Marked = DOMAIN timers /\ AllOK(Marked)
           /\ AllDue(timers) => AllDue(Marked)
           /\ \A i \in ToCall : /\ i \in DOMAIN Marked /\ Marked[i].expiring
                                /\ ~Marked[i].removed
<1>1. DOMAIN Marked = DOMAIN timers BY DEF Marked
<1>2. ASSUME NEW i \in DOMAIN timers
      PROVE  /\ Marked[i] \in TimerType /\ Marked[i].left >= -1
             /\ Once(Marked[i]) /\ (Due(timers[i]) => Due(Marked[i]))
  <2>0. timers[i] \in TimerType /\ timers[i].left >= -1 /\ Once(timers[i])
    BY DEF AllOK
  <2>1. CASE i \notin Scanned \/ \E j \in ToCall : j <= i
    <3>1. Marked[i] = timers[i] BY <2>1 DEF Marked
    <3> QED BY <2>0, <3>1
  <2>2. CASE ~(i \notin Scanned \/ \E j \in ToCall : j <= i) /\ timers[i].left < 0
    <3>1. Marked[i] = [timers[i] EXCEPT !.expiring = TRUE,
                                        !.left = timers[i].delay * Tick]
      BY <2>2 DEF Marked
    <3> QED BY <2>0, <2>2, <3>1, MarkTimer
  <2>3. CASE ~(i \notin Scanned \/ \E j \in ToCall : j <= i)
             /\ ~(timers[i].left < 0)
    <3>1. Marked[i] = [timers[i] EXCEPT !.expiring = FALSE]
      BY <2>3 DEF Marked
    <3>2. timers[i].left >= 0 BY <2>0, <2>3 DEF TimerType
    <3> QED BY <2>0, <3>1, <3>2, UnmarkTimer
  <2> QED BY <2>1, <2>2, <2>3
<1>3. AllOK(Marked) BY <1>1, <1>2 DEF AllOK
<1>4. AllDue(timers) => AllDue(Marked) BY <1>1, <1>2 DEF AllDue
<1>5. ASSUME NEW i \in ToCall
      PROVE  /\ i \in DOMAIN Marked /\ Marked[i].expiring /\ ~Marked[i].removed
  <2>1. /\ i \in DOMAIN timers /\ i \in Int /\ i \in Scanned /\ timers[i].expiring
    BY DEF ToCall, Scanned, Armed, TypeOK
  <2>2. ~timers[i].removed BY <2>1 DEF Scanned
  <2>3. Marked[i] = timers[i] BY <2>1 DEF Marked
  <2> QED BY <1>1, <2>1, <2>2, <2>3
<1> QED BY <1>1, <1>3, <1>4, <1>5

LEMMA CalledAll ==
    ASSUME NEW ts, AllOK(ts), NEW n \in {0, 1},
           current \in DOMAIN ts => ~ts[current].removed
    PROVE  /\ DOMAIN Called(ts, n) = DOMAIN ts /\ AllOK(Called(ts, n))
           /\ n = 1 /\ AllDue(ts) => AllDue(Called(ts, n))
<1>1. CASE current \notin DOMAIN ts BY <1>1 DEF Called
<1>2. CASE current \in DOMAIN ts
  <2> DEFINE us == Called(ts, n)
  <2>1. /\ DOMAIN us = DOMAIN ts
        /\ us[current] = [ts[current] EXCEPT
             !.expiring = FALSE, !.removed = @ \/ ts[current].oneshot,
             !.age = 0, !.calls = Least(2, @ + n)]
        /\ \A i \in DOMAIN ts : i # current => us[i] = ts[i]
    BY <1>2 DEF Called
  <2> HIDE DEF us
  <2>2. /\ us[current] \in TimerType /\ us[current].left >= -1
        /\ Once(us[current]) /\ (n = 1 => Due(us[current]))
    BY <1>2, <2>1, CallTimer DEF AllOK
  <2>3. AllOK(us) BY <2>1, <2>2 DEF AllOK
  <2>4. n = 1 /\ AllDue(ts) => AllDue(us) BY <2>1, <2>2 DEF AllDue
  <2> QED BY <2>1, <2>3, <2>4 DEF us
<1> QED BY <1>1, <1>2


-----------------------------------------------------------------------------
(* The invariant                                                            *)

LEMMA InvInit == Init => Inv
<1> SUFFICES ASSUME Init PROVE Inv OBVIOUS
<1>1. PICK q \in Initial : /\ timers = [i \in 0..Len(q) - 1 |-> Timer(q[i + 1])]
                           /\ nextId = Len(q)
  BY DEF Init
<1>2. q \in Seq(Specs) /\ Len(q) \in Nat /\ Len(q) <= MaxIds
  BY TimersAssumption
<1>3. DOMAIN timers = 0..Len(q) - 1 BY <1>1
<1>4. ASSUME NEW i \in DOMAIN timers
      PROVE  /\ timers[i] \in TimerType /\ timers[i].left >= -1
             /\ Once(timers[i]) /\ Due(timers[i])
  <2>1. i \in 0..Len(q) - 1 BY <1>3
  <2>2. q[i + 1] \in Specs BY <1>2, <2>1
  <2>3. timers[i] = Timer(q[i + 1]) BY <1>1, <2>1
  <2> QED BY <2>2, <2>3, NewTimer
<1>5. AllOK(timers) /\ AllDue(timers) BY <1>4 DEF AllOK, AllDue
<1>6. TypeOK
  <2>1. nextId \in 0..MaxIds /\ DOMAIN timers \subseteq 0..nextId - 1
    BY <1>1, <1>2, <1>3, LimitsAssumption
  <2>2. pc \in Slots /\ exitReq \in BOOLEAN BY DEF Init, Slots
  <2>3. /\ round = 0 /\ current = 0 /\ stack = 0 /\ timeout = 0 BY DEF Init
  <2>4. /\ 0 \in 0..MaxExpiries + 1 /\ 0 \in 0..MaxIds
        /\ 0 \in -Below..Room /\ 0 \in 0..MaxWait
    BY LimitsAssumption, TimingAssumption
  <2> QED BY <1>5, <2>1, <2>2, <2>3, <2>4 DEF TypeOK, AllOK
<1>7. Chosen BY DEF Init, Chosen
<1> QED BY <1>5, <1>6, <1>7 DEF Inv

\* The end of a round.
LEMMA Popped ==
    ASSUME TypeOK, round <= MaxExpiries, PopTable
    PROVE  /\ pc' \in {"round", "crashed"} /\ round' \in 0..MaxExpiries + 1
           /\ stack' \in -Below..Room
<1>1. /\ stack \in Int /\ -Below <= stack /\ stack <= Room /\ Below \in Nat
      /\ Room \in Nat /\ round \in 0..MaxExpiries /\ MaxExpiries \in Nat
  BY LimitsAssumption DEF TypeOK
<1>2. CASE stack + Below < 2 BY <1>1, <1>2 DEF PopTable
<1>3. CASE ~(stack + Below < 2) BY <1>1, <1>3 DEF PopTable
<1> QED BY <1>2, <1>3

LEMMA TurnInv == Inv /\ Turn => Inv'
<1> SUFFICES ASSUME Inv, Turn PROVE Inv' OBVIOUS
<1>1. /\ pc' \in {"crashed", "round"} /\ round' \in 0..MaxExpiries + 1
      /\ stack' \in -Below..Room
  <2>1. /\ stack \in Int /\ -Below <= stack /\ stack <= Room /\ Room \in Nat
        /\ round \in 0..MaxExpiries + 1 /\ MaxExpiries \in Nat \ {0} /\ Below \in Nat
    BY LimitsAssumption DEF Inv, TypeOK
  <2> QED BY <2>1 DEF Turn
<1>2. UNCHANGED <<timers, nextId, current, timeout, exitReq>> BY DEF Turn
<1>3. TypeOK' BY <1>1, <1>2 DEF Inv, TypeOK, Slots
<1> QED BY <1>1, <1>2, <1>3 DEF Inv, Chosen

LEMMA ScanOnlyInv == Inv /\ ScanOnly => Inv'
<1> SUFFICES ASSUME Inv, ScanOnly PROVE Inv' OBVIOUS
<1>1. round <= MaxExpiries
  BY LimitsAssumption DEF ScanOnly, RoundsOver, Inv, TypeOK
<1>2. /\ pc' \in {"round", "crashed"} /\ round' \in 0..MaxExpiries + 1
      /\ stack' \in -Below..Room
  BY <1>1, Popped DEF Inv, ScanOnly
<1>3. /\ timers' = Marked /\ UNCHANGED <<nextId, current, timeout, exitReq>>
  BY DEF ScanOnly
<1>4. /\ DOMAIN Marked = DOMAIN timers /\ AllOK(Marked)
      /\ AllDue(timers) => AllDue(Marked)
  BY MarkedAll DEF Inv
<1>5. TypeOK' BY <1>2, <1>3, <1>4 DEF Inv, TypeOK, Slots, AllOK
<1>6. Chosen' BY <1>2 DEF Chosen
<1> QED BY <1>3, <1>4, <1>5, <1>6 DEF Inv

LEMMA ScanAndCallInv == Inv /\ ScanAndCall => Inv'
<1> SUFFICES ASSUME Inv, ScanAndCall PROVE Inv' OBVIOUS
<1>1. round <= MaxExpiries /\ ~exitReq
  BY LimitsAssumption DEF ScanAndCall, RoundsOver, Inv, TypeOK
<1>2. /\ timers' = Marked /\ pc' = "call" /\ current' \in ToCall
      /\ UNCHANGED <<nextId, round, stack, timeout, exitReq>>
  BY DEF ScanAndCall
<1>3. /\ DOMAIN Marked = DOMAIN timers /\ AllOK(Marked)
      /\ AllDue(timers) => AllDue(Marked)
      /\ \A i \in ToCall : /\ i \in DOMAIN Marked /\ Marked[i].expiring
                           /\ ~Marked[i].removed
  BY MarkedAll DEF Inv
<1>4. Chosen' BY <1>1, <1>2, <1>3 DEF Chosen
<1>5. TypeOK'
  <2>1. current' \in 0..MaxIds
    BY <1>2, <1>3, LimitsAssumption DEF Inv, TypeOK
  <2> QED BY <1>2, <1>3, <2>1 DEF Inv, TypeOK, Slots, AllOK
<1> QED BY <1>2, <1>3, <1>4, <1>5 DEF Inv

\* A timer more.
LEMMA CreatedAll ==
    ASSUME Inv, nextId < MaxIds, NEW s \in Specs, NEW ts,
           ts = [i \in DOMAIN timers \cup {nextId} |->
                    IF i = nextId THEN Timer(s) ELSE timers[i]]
    PROVE  /\ DOMAIN ts \subseteq 0..nextId /\ AllOK(ts)
           /\ AllDue(timers) => AllDue(ts)
           /\ pc = "call" => ~ts[current].removed
<1>1. /\ DOMAIN ts = DOMAIN timers \cup {nextId} /\ ts[nextId] = Timer(s)
      /\ \A i \in DOMAIN timers : i # nextId => ts[i] = timers[i]
  OBVIOUS
<1>2. nextId \in Nat /\ DOMAIN timers \subseteq 0..nextId - 1
  BY DEF Inv, TypeOK
<1>3. nextId \notin DOMAIN timers BY <1>2
<1>4. AllOK(timers) BY DEF Inv
<1>5. DOMAIN ts \subseteq 0..nextId BY <1>1, <1>2
<1>6. AllOK(ts) BY <1>1, <1>4, NewTimer, Zenon DEF AllOK
<1>7. AllDue(timers) => AllDue(ts) BY <1>1, NewTimer, Zenon DEF AllDue
<1>8. pc = "call" => ~ts[current].removed
  BY <1>1, <1>3 DEF Inv, Chosen
<1> QED BY <1>5, <1>6, <1>7, <1>8

\* A timer less.
LEMMA DeletedAll ==
    ASSUME Inv, NEW i, NEW ts, ts = [j \in DOMAIN timers \ {i} |-> timers[j]]
    PROVE  /\ DOMAIN ts \subseteq DOMAIN timers /\ AllOK(ts)
           /\ AllDue(timers) => AllDue(ts)
           /\ \A j \in DOMAIN ts : ts[j] = timers[j]
BY DEF Inv, AllOK, AllDue

LEMMA CallbackInv == Inv /\ Callback => Inv'
<1> SUFFICES ASSUME Inv, Callback PROVE Inv' OBVIOUS
<1>1. pc = "call" /\ PopTable /\ UNCHANGED <<current, timeout>>
  BY DEF Callback
<1>2. /\ ~exitReq /\ round <= MaxExpiries /\ current \in DOMAIN timers
      /\ ~timers[current].removed
  BY <1>1 DEF Inv, Chosen
<1>3. AllOK(timers) /\ AllDue(timers) BY <1>2 DEF Inv
<1>4. /\ pc' \in {"round", "crashed"} /\ round' \in 0..MaxExpiries + 1
      /\ stack' \in -Below..Room
  BY <1>1, <1>2, Popped DEF Inv
<1>5. Chosen' BY <1>4 DEF Chosen
<1> DEFINE Sound == /\ AllOK(timers') /\ AllDue(timers')
                    /\ nextId' \in 0..MaxIds
                    /\ DOMAIN timers' \subseteq 0..nextId' - 1
                    /\ exitReq' \in BOOLEAN
<1>6. /\ nextId \in 0..MaxIds /\ DOMAIN timers \subseteq 0..nextId - 1
      /\ exitReq \in BOOLEAN
  BY DEF Inv, TypeOK
<1>7. ASSUME timers' = Called(timers, 1), nextId' = nextId,
             exitReq' \in {exitReq, TRUE}
      PROVE  Sound
  <2>1. /\ DOMAIN timers' = DOMAIN timers /\ AllOK(timers') /\ AllDue(timers')
    BY <1>2, <1>3, <1>7, CalledAll
  <2> QED BY <1>6, <1>7, <2>1
<1>8. ASSUME nextId < MaxIds, NEW s \in New, nextId' = nextId + 1,
             exitReq' = exitReq,
             timers' = Called([i \in DOMAIN timers \cup {nextId} |->
                                 IF i = nextId THEN Timer(s) ELSE timers[i]], 1)
      PROVE  Sound
  <2> DEFINE ts == [i \in DOMAIN timers \cup {nextId} |->
                       IF i = nextId THEN Timer(s) ELSE timers[i]]
  <2>1. s \in Specs BY TimersAssumption
  <2>2. /\ DOMAIN ts \subseteq 0..nextId /\ AllOK(ts) /\ AllDue(ts)
        /\ ~ts[current].removed
    BY <1>1, <1>3, <1>8, <2>1, CreatedAll
  <2>3. timers' = Called(ts, 1) BY <1>8
  <2> HIDE DEF ts
  <2>4. DOMAIN timers' = DOMAIN ts /\ AllOK(timers') /\ AllDue(timers')
    BY <2>2, <2>3, CalledAll
  <2> QED BY <1>6, <1>8, <2>2, <2>4, LimitsAssumption
<1>9. ASSUME NEW i \in DOMAIN timers \ {current}, nextId' = nextId,
             exitReq' = exitReq,
             timers' = Called([j \in DOMAIN timers \ {i} |-> timers[j]], 1)
      PROVE  Sound
  <2> DEFINE ts == [j \in DOMAIN timers \ {i} |-> timers[j]]
  <2>1. /\ DOMAIN ts \subseteq DOMAIN timers /\ AllOK(ts) /\ AllDue(ts)
        /\ \A j \in DOMAIN ts : ts[j] = timers[j]
    BY <1>3, DeletedAll
  <2>2. timers' = Called(ts, 1) BY <1>9
  <2> HIDE DEF ts
  <2>3. DOMAIN timers' = DOMAIN ts /\ AllOK(timers') /\ AllDue(timers')
    BY <1>2, <2>1, <2>2, CalledAll
  <2> QED BY <1>6, <1>9, <2>1, <2>3
<1>10. Sound
  <2>1. \/ timers' = Called(timers, 1) /\ nextId' = nextId
           /\ exitReq' \in {exitReq, TRUE}
        \/ /\ nextId < MaxIds /\ nextId' = nextId + 1 /\ exitReq' = exitReq
           /\ \E s \in New :
                 timers' = Called([i \in DOMAIN timers \cup {nextId} |->
                                     IF i = nextId THEN Timer(s)
                                     ELSE timers[i]], 1)
        \/ /\ nextId' = nextId /\ exitReq' = exitReq
           /\ \E i \in DOMAIN timers \ {current} :
                 timers' = Called([j \in DOMAIN timers \ {i} |-> timers[j]], 1)
    BY Zenon DEF Callback
  <2> HIDE DEF Sound
  <2> QED BY <2>1, <1>7, <1>8, <1>9
<1>11. TypeOK' BY <1>1, <1>4, <1>10 DEF Inv, TypeOK, Slots, AllOK
<1> QED BY <1>5, <1>10, <1>11 DEF Inv

LEMMA ClearSelfInv == Inv /\ ClearSelf => Inv'
<1> SUFFICES ASSUME Inv, ClearSelf PROVE Inv' OBVIOUS
<1>1. round <= MaxExpiries BY DEF Inv, Chosen, ClearSelf
<1>2. /\ pc' \in {"round", "crashed"} /\ round' \in 0..MaxExpiries + 1
      /\ stack' \in -Below..Room
  <2>1. CASE PopTable BY <1>1, <2>1, Popped DEF Inv
  <2>2. CASE pc' = "crashed" /\ UNCHANGED <<round, stack>>
    BY <2>2 DEF Inv, TypeOK
  <2> QED BY <2>1, <2>2 DEF ClearSelf
<1>3. /\ timers' = [j \in DOMAIN timers \ {current} |-> timers[j]]
      /\ UNCHANGED <<nextId, current, timeout, exitReq>>
  BY DEF ClearSelf
<1>4. /\ DOMAIN timers' \subseteq DOMAIN timers /\ AllOK(timers')
      /\ AllDue(timers) => AllDue(timers')
  BY <1>3, DeletedAll
<1>5. TypeOK' BY <1>2, <1>3, <1>4 DEF Inv, TypeOK, Slots, AllOK
<1>6. Chosen' BY <1>2 DEF Chosen
<1> QED BY <1>3, <1>4, <1>5, <1>6 DEF Inv

LEMMA MiscallInv == Inv /\ Miscall => Inv'
<1> SUFFICES ASSUME Inv, Miscall PROVE Inv' OBVIOUS
<1>1. pc = "call" /\ UNCHANGED <<nextId, current, timeout>> BY DEF Miscall
<1>2. /\ round <= MaxExpiries /\ current \in DOMAIN timers
      /\ ~timers[current].removed
  BY <1>1 DEF Inv, Chosen
<1>3. CASE timers' = Called(timers, 0) /\ exitReq' = TRUE /\ PopTable
  <2>1. /\ pc' \in {"round", "crashed"} /\ round' \in 0..MaxExpiries + 1
        /\ stack' \in -Below..Room
    BY <1>2, <1>3, Popped DEF Inv
  <2>2. DOMAIN timers' = DOMAIN timers /\ AllOK(timers')
    BY <1>2, <1>3, CalledAll DEF Inv
  <2>3. TypeOK' BY <1>1, <1>3, <2>1, <2>2 DEF Inv, TypeOK, Slots, AllOK
  <2>4. Chosen' BY <2>1 DEF Chosen
  <2> QED BY <1>3, <2>2, <2>3, <2>4 DEF Inv
<1>4. CASE pc' = "crashed" /\ UNCHANGED <<timers, exitReq, round, stack>>
  BY <1>1, <1>4 DEF Inv, TypeOK, Slots, Chosen
<1> QED BY <1>3, <1>4 DEF Miscall

\* The wait is within its limits.
LEMMA WaitBounded ==
    ASSUME NEW n \in Int, NEW ts, DOMAIN ts \subseteq 0..n - 1, AllOK(ts)
    PROVE  WaitFor(ts) \in 0..MaxWait
<1>1. MaxWait \in Nat \ {0} BY TimingAssumption
<1>2. CASE DOMAIN ts = {} BY <1>1, <1>2 DEF WaitFor
<1>3. CASE DOMAIN ts # {}
  <2> DEFINE last == CHOOSE i \in DOMAIN ts : \A j \in DOMAIN ts : j <= i
  <2>1. \E i \in DOMAIN ts : \A j \in DOMAIN ts : j <= i
    <3>1. n \in Nat
      <4>1. PICK i \in DOMAIN ts : TRUE BY <1>3
      <4> QED BY <4>1
    <3>2. DOMAIN ts \subseteq 0..n BY <3>1
    <3> QED BY <1>3, <3>1, <3>2, GreatestNatural
  <2>2. last \in DOMAIN ts BY <2>1
  <2>3. ts[last].left \div Tick \in Int
    BY <2>2, Quotients DEF AllOK, TimerType
  <2>4. WaitFor(ts) = Least(MaxWait, Most(1, ts[last].left \div Tick))
    BY <1>3 DEF WaitFor
  <2> HIDE DEF last
  <2> DEFINE w == ts[last].left \div Tick
  <2>5. w \in Int /\ WaitFor(ts) = Least(MaxWait, Most(1, w)) BY <2>3, <2>4
  <2> HIDE DEF w
  <2> QED BY <1>1, <2>5 DEF Least, Most
<1> QED BY <1>2, <1>3

LEMMA PickTimeoutInv == Inv /\ PickTimeout => Inv'
<1> SUFFICES ASSUME Inv, PickTimeout PROVE Inv' OBVIOUS
<1>1. /\ pc' = "wait" /\ UNCHANGED <<nextId, round, current, stack, exitReq>>
      /\ timeout' = WaitFor(timers')
  BY DEF PickTimeout
<1>2. PICK e \in Slack : timers' = Later(e) BY DEF PickTimeout
<1>3. /\ DOMAIN timers' = DOMAIN timers /\ AllOK(timers')
      /\ AllDue(timers) => AllDue(timers')
  BY <1>2, LaterAll, TimingAssumption DEF Inv
<1>4. nextId \in Int /\ DOMAIN timers' \subseteq 0..nextId - 1
  BY <1>3 DEF Inv, TypeOK
<1>5. timeout' \in 0..MaxWait BY <1>1, <1>3, <1>4, WaitBounded
<1>6. TypeOK' BY <1>1, <1>3, <1>5 DEF Inv, TypeOK, Slots, AllOK
<1>7. Chosen' BY <1>1 DEF Chosen
<1> QED BY <1>1, <1>3, <1>6, <1>7 DEF Inv

\* Time that passes outside a callback.
LEMMA PassingInv ==
    ASSUME Inv, NEW d \in Nat, timers' = Later(d), pc' = "turn",
           UNCHANGED <<nextId, round, current, stack, timeout, exitReq>>
    PROVE  Inv'
<1>1. /\ DOMAIN timers' = DOMAIN timers /\ AllOK(timers')
      /\ AllDue(timers) => AllDue(timers')
  BY LaterAll DEF Inv
<1>2. TypeOK' BY <1>1 DEF Inv, TypeOK, Slots, AllOK
<1>3. Chosen' BY DEF Chosen
<1> QED BY <1>1, <1>2, <1>3 DEF Inv

LEMMA InvNext == Inv /\ [Next]_vars => Inv'
<1> SUFFICES ASSUME Inv, [Next]_vars PROVE Inv' OBVIOUS
<1>1. CASE EndRounds BY <1>1 DEF EndRounds, Inv, TypeOK, Slots, Chosen
<1>2. CASE Wait
  <2>1. PICK l \in Late : timers' = Later(timeout * Tick + l) BY <1>2 DEF Wait
  <2>2. timeout * Tick + l \in Nat
    BY Products, TimingAssumption DEF Inv, TypeOK
  <2> QED BY <1>2, <2>1, <2>2, PassingInv DEF Wait
<1>3. CASE Exit BY <1>3 DEF Exit, Inv, TypeOK, Slots, Chosen
<1>4. CASE Park
  <2>1. PICK d \in Parks : timers' = Later(d) BY <1>4 DEF Park
  <2>2. d \in Nat BY TimingAssumption
  <2> QED BY <1>4, <2>1, <2>2, PassingInv DEF Park
<1>5. CASE UNCHANGED vars BY <1>5 DEF vars, Inv, TypeOK, Chosen
<1> QED
  BY <1>1, <1>2, <1>3, <1>4, <1>5, TurnInv, ScanOnlyInv, ScanAndCallInv,
     CallbackInv, ClearSelfInv, MiscallInv, PickTimeoutInv DEF Next, Loop

-----------------------------------------------------------------------------
(* The theorems                                                             *)

\* The inductive invariant, for any number of timers, any delays and any
\* callbacks: a callback is called when its timer is marked, there and due, and
\* a timeout that was called is to be removed (custom_eventloop.cpp:164-244).
THEOREM Always == Spec => []Inv
BY InvInit, InvNext, PTL DEF Spec

\* Every variable keeps its type, whatever the callbacks create, delete or
\* throw: the ids stay below next_id_, the rounds and the wait within their
\* limits, and the value stack in its bounds, for a push or a pop that would
\* leave them ends the application (custom_eventloop.cpp:164-244).
THEOREM TypeCorrect == Spec => []TypeOK
<1>1. Inv => TypeOK BY DEF Inv
<1> QED BY <1>1, Always, PTL

\* The callback of setTimeout is called at most once, for any timers and any
\* callbacks that create and delete timers or fail
\* (custom_eventloop.cpp:227-229).
THEOREM OneshotOnceAlways == Spec => []OneshotOnce
<1>1. ASSUME Inv PROVE OneshotOnce
  <2>1. ASSUME NEW i \in DOMAIN timers, timers[i].oneshot
        PROVE  timers[i].calls <= 1
    <3>1. timers[i].calls \in 0..2 /\ Once(timers[i])
      BY <1>1 DEF Inv, AllOK, TimerType
    <3> QED BY <2>1, <3>1 DEF Once
  <2> QED BY <2>1 DEF OneshotOnce
<1> QED BY <1>1, Always, PTL

\* No callback is called for the first time before its delay has passed, for
\* any delays, any length of a turn and any lateness of the wake-up
\* (custom_eventloop.cpp:186-205).
THEOREM NeverEarlyAlways == Spec => []NeverEarly
<1>1. ASSUME Inv PROVE NeverEarly
  <2> SUFFICES ASSUME pc = "call", timers[current].calls = 0
               PROVE  timers[current].age >=
                         Least(MaxAge, timers[current].delay * Tick)
    BY DEF NeverEarly
  <2>1. current \in DOMAIN timers /\ timers[current].expiring /\ ~exitReq
    BY <1>1 DEF Inv, Chosen
  <2> QED BY <1>1, <2>1 DEF Inv, AllDue, Due
<1> QED BY <1>1, Always, PTL


-----------------------------------------------------------------------------
(* The one timer of agent.js                                                *)

\* The main module makes one timer, and its callback makes, clears and throws
\* nothing.
OneTimer == (\A q \in Initial : Len(q) = 1) /\ New = {} /\ Effects = {}

\* The only round of a turn starts with the table of callbacks on the stack, and
\* ends with the stack as it was before the turn.
Alone ==
    /\ DOMAIN timers = {0} /\ ~exitReq
    /\ pc \in {"turn", "timeout", "wait"} => stack = 0
    /\ pc = "round" => <<round, stack>> \in {<<1, 2>>, <<2, 0>>}
    /\ pc = "call" => round = 1 /\ stack = 2 /\ current = 0

\* The delay is one that the loop waits for at once.
Short == \A q \in Initial : q[1].delay <= MaxWait

\* What a turn takes, with the lateness of the wake-up, varies by less than a
\* millisecond from turn to turn, and the application is not paused.
Spread(lo) == \A e \in Slack, l \in Late : e + l \in lo..lo + Tick
Punctual   == Parks = {} /\ \E lo \in Nat : Spread(lo)

Timed == timers[0]
Ahead == Timed.delay * Tick
Aged(x) == Timed.age >= Least(MaxAge, x)

\* A timer marked in an earlier turn is about to be called, or marked again.
Fresh == /\ Timed.expiring
         /\ pc \in {"turn", "call"} \/ (pc = "round" /\ round = 1)

\* Since it was marked a timer has aged as its target came nearer; and when its
\* delay is short enough, the wait that follows ends just before the target.
Near ==
    /\ Timed.removed => ~Timed.expiring
    /\ Short => Timed.delay <= MaxWait
    /\ Timed.left <= Ahead
    /\ Timed.expiring => Aged(Ahead - Timed.left)
    /\ pc = "wait" => timeout = Least(MaxWait, Most(1, Timed.left \div Tick))
    /\ Fresh /\ Timed.delay <= MaxWait => Timed.left < Tick

\* A longer delay: the timer is called one wait after it was marked, and so
\* before its target, by about as much as the call before it was.
Cap == MaxWait * Tick
OwedUnmarked(lo) == Ahead - Cap - lo - Tick
OwedMarked(lo) == 2 * Ahead - Cap - lo - Tick + 1
Far(lo) ==
    /\ ~Timed.expiring => Aged(OwedUnmarked(lo) - Timed.left)
    /\ Timed.expiring => Aged(OwedMarked(lo) - Timed.left)
    /\ Timed.expiring /\ (pc = "timeout" \/ (pc = "round" /\ round = 2))
          => Timed.left = Ahead
    /\ Timed.expiring /\ pc = "wait" =>
          \E e \in Slack : Timed.left = Most(-1, Ahead - e)
    /\ Fresh => /\ Timed.left >= OwedUnmarked(lo)
                /\ Timed.left < Tick \/ Timed.left <= OwedUnmarked(lo) + Tick

\* What a step does to the one timer: nothing, make it older, mark it when it
\* is due, take its mark away, or count a call.
Kept == /\ Timed'.delay = Timed.delay /\ Timed'.left = Timed.left
        /\ Timed'.age = Timed.age /\ Timed'.expiring = Timed.expiring
        /\ Timed'.removed = Timed.removed
Grown(d) == /\ Timed'.delay = Timed.delay
            /\ Timed'.left = Most(-1, Timed.left - d)
            /\ Timed'.age = Least(MaxAge, Timed.age + d)
            /\ Timed'.expiring = Timed.expiring
            /\ Timed'.removed = Timed.removed
MarkedDue == /\ Timed.left < 0 /\ ~Timed.removed /\ Timed'.expiring
             /\ Timed'.left = Ahead /\ Timed'.age = Timed.age
             /\ Timed'.delay = Timed.delay /\ Timed'.removed = Timed.removed
Unmarked == /\ Timed.left >= 0 /\ (Timed.expiring => Timed.left = 0)
            /\ ~Timed'.expiring
            /\ Timed'.left = Timed.left /\ Timed'.age = Timed.age
            /\ Timed'.delay = Timed.delay /\ Timed'.removed = Timed.removed
CountedCall == /\ ~Timed'.expiring /\ Timed'.age = 0
               /\ Timed'.left = Timed.left /\ Timed'.delay = Timed.delay

Quiet ==
    /\ Kept /\ timeout' = timeout
    /\ \/ pc' = pc /\ round' = round
       \/ pc' = "crashed"
       \/ pc = "turn" /\ pc' = "round" /\ round' = 1
       \/ pc = "round" /\ round = 2 /\ pc' = "timeout"
       \/ pc = "round" /\ round = 1 /\ pc' = "call"
Scan ==
    /\ (Kept /\ Timed.removed) \/ MarkedDue \/ Unmarked
    /\ pc = "round" /\ round = 1 /\ timeout' = timeout
    /\ pc' = "crashed" \/ (pc' = "round" /\ round' = 2)
CallEnds ==
    /\ CountedCall
    /\ pc = "call" /\ timeout' = timeout
    /\ pc' = "crashed" \/ (pc' = "round" /\ round' = 2)
WaitStarts ==
    /\ \E e \in Slack : Grown(e)
    /\ pc = "timeout" /\ pc' = "wait"
    /\ timeout' = Least(MaxWait, Most(1, Timed'.left \div Tick))
WaitEnds ==
    /\ \E l \in Late : Grown(timeout * Tick + l)
    /\ pc = "wait" /\ pc' = "turn"
Parked ==
    /\ \E d \in Parks : Grown(d)
    /\ pc = "turn" /\ pc' = "turn"

LEMMA OneInit ==
    ASSUME OneTimer, Init
    PROVE  /\ Alone
           /\ \E q \in Initial : Timed = Timer(q[1]) /\ q[1] \in Specs
           /\ pc = "turn"
<1>1. PICK q \in Initial : timers = [i \in 0..Len(q) - 1 |-> Timer(q[i + 1])]
  BY DEF Init
<1>2. q \in Seq(Specs) /\ Len(q) = 1 BY TimersAssumption DEF OneTimer
<1>3. DOMAIN timers = {0} /\ Timed = Timer(q[1]) BY <1>1, <1>2 DEF Timed
<1>4. q[1] \in Specs BY <1>2
<1> QED BY <1>3, <1>4 DEF Init, Alone

\* One timer allows one round: there are as many as timers, at most.
LEMMA OneRound ==
    ASSUME Alone, Inv, pc = "round"
    PROVE  RoundsOver <=> round = 2
<1>1. Cardinality(DOMAIN timers) = 1 BY FS_Singleton DEF Alone
<1>2. MaxExpiries \in Nat \ {0} BY LimitsAssumption
<1> QED BY <1>1, <1>2 DEF Alone, RoundsOver

LEMMA ScannedOne ==
    ASSUME Alone
    PROVE  /\ Scanned = IF Timed.removed THEN {} ELSE {0}
           /\ ToCall = IF ~Timed.removed /\ Timed.expiring /\ Timed.left > 0
                       THEN {0} ELSE {}
<1>1. DOMAIN timers = {0} BY DEF Alone
<1>2. Scanned = IF Timed.removed THEN {} ELSE {0} BY <1>1 DEF Scanned, Timed
<1>3. \A i \in Scanned : i = 0 BY <1>2
<1>4. ToCall = IF ~Timed.removed /\ Timed.expiring /\ Timed.left > 0
               THEN {0} ELSE {}
  BY <1>2, <1>3 DEF ToCall, Armed, Timed
<1> QED BY <1>2, <1>4

LEMMA GrownOne ==
    ASSUME Alone, Inv, NEW d, timers' = Later(d)
    PROVE  Grown(d) /\ DOMAIN timers' = {0}
<1>1. DOMAIN timers = {0} /\ timers[0] \in TimerType
  BY DEF Alone, Inv, AllOK
<1>2. timers'[0] = [timers[0] EXCEPT !.left = Most(-1, @ - d),
                                     !.age = Least(MaxAge, @ + d)]
  BY <1>1 DEF Later
<1>3. DOMAIN timers' = {0} BY <1>1 DEF Later
<1> QED BY <1>1, <1>2, <1>3 DEF Grown, Timed, TimerType

LEMMA TurnOne == ASSUME Alone, Turn PROVE Alone' /\ Quiet
BY DEF Turn, Alone, Quiet, Kept, Timed

LEMMA PoppedOne ==
    ASSUME PopTable, stack = 2, round = 1
    PROVE  \/ pc' = "crashed"
           \/ pc' = "round" /\ round' = 2 /\ stack' = 0
BY DEF PopTable

LEMMA ScanOnlyOne ==
    ASSUME Alone, Inv, ScanOnly
    PROVE  Alone' /\ Scan
<1>1. pc = "round" /\ round = 1 /\ stack = 2
  BY OneRound DEF ScanOnly, Alone
<1>2. ~(~Timed.removed /\ Timed.expiring /\ Timed.left > 0)
  BY ScannedOne DEF ScanOnly
<1>3. DOMAIN timers = {0} /\ timers[0] \in TimerType
  BY DEF Alone, Inv, AllOK
<1>4. timers' = Marked /\ ToCall = {} BY DEF ScanOnly
<1>5. DOMAIN timers' = {0} BY <1>3, <1>4 DEF Marked
<1>6. (Kept /\ Timed.removed) \/ MarkedDue \/ Unmarked
  <2>1. CASE Timed.removed
    <3>1. Scanned = {} BY <2>1, ScannedOne
    <3>2. timers'[0] = timers[0] BY <1>3, <1>4, <3>1 DEF Marked
    <3> QED BY <2>1, <3>2 DEF Kept, Timed
  <2>2. CASE ~Timed.removed /\ timers[0].left < 0
    <3>1. Scanned = {0} BY <2>2, ScannedOne
    <3>2. timers'[0] = [timers[0] EXCEPT !.expiring = TRUE,
                                         !.left = timers[0].delay * Tick]
      BY <1>3, <1>4, <2>2, <3>1 DEF Marked
    <3> QED BY <1>3, <2>2, <3>2 DEF MarkedDue, Timed, Ahead, TimerType
  <2>3. CASE ~Timed.removed /\ ~(timers[0].left < 0)
    <3>1. Scanned = {0} BY <2>3, ScannedOne
    <3>2. timers'[0] = [timers[0] EXCEPT !.expiring = FALSE]
      BY <1>3, <1>4, <2>3, <3>1 DEF Marked
    <3> QED BY <1>2, <1>3, <2>3, <3>2 DEF Unmarked, Timed, TimerType
  <2> QED BY <2>1, <2>2, <2>3
<1>7. PopTable /\ UNCHANGED <<exitReq, current, timeout>> BY DEF ScanOnly
<1>8. \/ pc' = "crashed"
      \/ pc' = "round" /\ round' = 2 /\ stack' = 0
  BY <1>1, <1>7, PoppedOne
<1> QED BY <1>1, <1>5, <1>6, <1>7, <1>8 DEF Alone, Scan

LEMMA ScanAndCallOne ==
    ASSUME Alone, Inv, ScanAndCall
    PROVE  Alone' /\ Quiet
<1>1. pc = "round" /\ round = 1 /\ stack = 2
  BY OneRound DEF ScanAndCall, Alone
<1>2. PICK i \in ToCall : current' = i BY DEF ScanAndCall
<1>3. i = 0 /\ 0 \in ToCall BY <1>2, ScannedOne
<1>4. DOMAIN timers = {0} BY DEF Alone
<1>5. timers' = Marked /\ UNCHANGED <<exitReq, stack, round, timeout>>
      /\ pc' = "call"
  BY DEF ScanAndCall
<1>6. DOMAIN timers' = {0} /\ timers'[0] = timers[0]
  BY <1>3, <1>4, <1>5 DEF Marked
<1> QED BY <1>1, <1>2, <1>3, <1>5, <1>6 DEF Alone, Quiet, Kept, Timed

LEMMA CallbackOne ==
    ASSUME OneTimer, Alone, Inv, Callback
    PROVE  Alone' /\ CallEnds
<1>1. pc = "call" /\ round = 1 /\ stack = 2 /\ current = 0
  BY DEF Callback, Alone
<1>2. DOMAIN timers = {0} /\ timers[0] \in TimerType
  BY DEF Alone, Inv, AllOK
<1>3. timers' = Called(timers, 1) /\ UNCHANGED exitReq
  BY DEF Callback, OneTimer
<1>4. /\ DOMAIN timers' = {0}
      /\ timers'[0] = [timers[0] EXCEPT !.expiring = FALSE,
                          !.removed = @ \/ timers[0].oneshot, !.age = 0,
                          !.calls = Least(2, @ + 1)]
  BY <1>1, <1>2, <1>3 DEF Called
<1>5. CountedCall BY <1>2, <1>4 DEF CountedCall, Timed, TimerType
<1>6. PopTable /\ UNCHANGED <<current, timeout>> BY DEF Callback
<1>7. \/ pc' = "crashed"
      \/ pc' = "round" /\ round' = 2 /\ stack' = 0
  BY <1>1, <1>6, PoppedOne
<1> QED BY <1>1, <1>3, <1>4, <1>5, <1>6, <1>7 DEF Alone, CallEnds

LEMMA OneNext ==
    ASSUME OneTimer, Alone, Inv, [Next]_vars
    PROVE  /\ Alone'
           /\ Quiet \/ Scan \/ CallEnds \/ WaitStarts \/ WaitEnds \/ Parked
<1>1. CASE Turn BY <1>1, TurnOne
<1>2. CASE ScanOnly BY <1>2, ScanOnlyOne
<1>3. CASE ScanAndCall BY <1>3, ScanAndCallOne
<1>4. CASE Callback BY <1>4, CallbackOne
<1>5. CASE ClearSelf BY <1>5 DEF ClearSelf, OneTimer
<1>6. CASE Miscall BY <1>6 DEF Miscall, Alone
<1>7. CASE EndRounds
  <2>1. round = 2 /\ stack = 0 BY <1>7, OneRound DEF EndRounds, Alone
  <2> QED BY <1>7, <2>1 DEF EndRounds, Alone, Quiet, Kept, Timed
<1>8. CASE PickTimeout
  <2>1. PICK e \in Slack : timers' = Later(e) BY <1>8 DEF PickTimeout
  <2>2. Grown(e) /\ DOMAIN timers' = {0} BY <2>1, GrownOne
  <2>3. timeout' = Least(MaxWait, Most(1, Timed'.left \div Tick))
    <3>1. (CHOOSE i \in {0} : \A j \in {0} : j <= i) = 0 OBVIOUS
    <3>2. DOMAIN timers' # {} BY <2>2
    <3> QED BY <1>8, <2>2, <3>1, <3>2 DEF PickTimeout, WaitFor, Timed
  <2> QED BY <1>8, <2>2, <2>3 DEF PickTimeout, Alone, WaitStarts
<1>9. CASE Wait
  <2>1. PICK l \in Late : timers' = Later(timeout * Tick + l) BY <1>9 DEF Wait
  <2>2. Grown(timeout * Tick + l) /\ DOMAIN timers' = {0} BY <2>1, GrownOne
  <2> QED BY <1>9, <2>2 DEF Wait, Alone, WaitEnds
<1>10. CASE Exit BY <1>10 DEF Exit, Alone
<1>11. CASE Park
  <2>1. PICK d \in Parks : timers' = Later(d) BY <1>11 DEF Park
  <2>2. Grown(d) /\ DOMAIN timers' = {0} BY <2>1, GrownOne
  <2> QED BY <1>11, <2>2 DEF Park, Alone, Parked
<1>12. CASE UNCHANGED vars BY <1>12 DEF vars, Alone, Quiet, Kept, Timed
<1> QED
  BY <1>1, <1>2, <1>3, <1>4, <1>5, <1>6, <1>7, <1>8, <1>9, <1>10, <1>11, <1>12
  DEF Next, Loop


\* Dividing and multiplying by Tick.
LEMMA Quotient ==
    ASSUME NEW x \in Int
    PROVE  /\ x \div Tick \in Int
           /\ (x \div Tick) * Tick <= x /\ x < (x \div Tick) * Tick + Tick
BY TimingAssumption

LEMMA Multiples ==
    ASSUME NEW a \in Int, NEW b \in Int, a <= b
    PROVE  a * Tick <= b * Tick /\ a * Tick \in Int /\ (a - 1) * Tick = a * Tick - Tick
BY TimingAssumption

LEMMA OneTypes ==
    ASSUME Alone, Inv
    PROVE  /\ Timed.delay \in Nat \ {0} /\ Timed.left \in Int /\ Timed.left >= -1
           /\ Timed.age \in 0..MaxAge /\ MaxAge \in Nat /\ Ahead \in Nat
           /\ Tick \in Nat \ {0} /\ MaxWait \in Nat \ {0} /\ Cap \in Nat
           /\ timeout \in Nat /\ timeout <= MaxWait
           /\ Timed.expiring \in BOOLEAN /\ Timed.removed \in BOOLEAN
<1>1. timers[0] \in TimerType /\ timers[0].left >= -1
  BY DEF Alone, Inv, AllOK
<1>2. timeout \in 0..MaxWait BY DEF Inv, TypeOK
<1>3. Ahead \in Nat /\ Cap \in Nat
  BY <1>1, Products, TimingAssumption DEF Ahead, Cap, Timed, TimerType
<1> QED BY <1>1, <1>2, <1>3, TimingAssumption DEF Timed, TimerType

\* A wait of at most a short delay ends less than a millisecond before the
\* target, or after it.
LEMMA WaitLength ==
    ASSUME NEW x \in Int, NEW l \in Nat
    PROVE  x - (Most(1, x \div Tick) * Tick + l) < Tick
<1> DEFINE q == x \div Tick
<1>1. q \in Int /\ x < q * Tick + Tick BY Quotient
<1>2. Tick \in Nat \ {0} BY TimingAssumption
<1> HIDE DEF q
<1>3. CASE 1 >= q
  <2>1. Most(1, q) = 1 BY <1>1, <1>3 DEF Most
  <2>2. q * Tick <= 1 * Tick BY <1>1, <1>3, Multiples
  <2>3. 1 * Tick = Tick /\ q * Tick \in Int BY <1>1, <1>2
  <2>4. CASE q <= 0
    <3>1. q * Tick <= 0 * Tick BY <1>1, <2>4, Multiples
    <3>2. q * Tick <= 0 BY <3>1, <1>2
    <3>3. x < Tick BY <1>1, <1>2, <2>3, <3>2
    <3> QED BY <1>2, <2>1, <2>3, <3>3 DEF q
  <2>5. CASE q = 1
    <3>1. x < Tick + Tick BY <1>1, <2>3, <2>5
    <3> QED BY <1>2, <2>1, <2>3, <3>1 DEF q
  <2> QED BY <1>1, <1>3, <2>4, <2>5
<1>4. CASE ~(1 >= q)
  <2>1. Most(1, q) = q BY <1>1, <1>4 DEF Most
  <2>2. q * Tick \in Int BY <1>1, <1>2
  <2>3. x - (q * Tick + l) < Tick BY <1>1, <1>2, <2>2
  <2> QED BY <2>1, <2>3 DEF q
<1> QED BY <1>3, <1>4

LEMMA AheadKept ==
    ASSUME Timed'.delay = Timed.delay
    PROVE  Ahead' = Ahead
BY DEF Ahead

LEMMA NearInit == ASSUME OneTimer, Init PROVE Near
<1>1. PICK q \in Initial : Timed = Timer(q[1]) /\ q[1] \in Specs BY OneInit
<1>2. /\ Timed.delay = q[1].delay /\ Timed.left = q[1].delay * Tick
      /\ ~Timed.expiring
  BY <1>1 DEF Timer
<1>3. Ahead \in Nat /\ Timed.left = Ahead
  BY <1>1, <1>2, Products DEF Ahead, Specs
<1> QED BY <1>2, <1>3, OneInit DEF Near, Fresh, Short

\* Getting older by d keeps the timer's account.
LEMMA GrownNear ==
    ASSUME Alone, Inv, Alone', Inv', Near, NEW d \in Nat, Grown(d)
    PROVE  /\ Timed'.removed => ~Timed'.expiring
           /\ Short => Timed'.delay <= MaxWait
           /\ Timed'.left <= Ahead'
           /\ Timed'.expiring => Aged(Ahead - Timed.left)'
           /\ Timed'.left <= Most(-1, Timed.left - d)
<1>1. Ahead' = Ahead BY AheadKept DEF Grown
<1>2. Ahead \in Nat /\ Timed.left \in Int /\ Timed.left >= -1
      /\ Timed.age \in 0..MaxAge /\ MaxAge \in Nat
  BY OneTypes
<1>3. /\ Timed.removed => ~Timed.expiring
      /\ Short => Timed.delay <= MaxWait
      /\ Timed.left <= Ahead
      /\ Timed.expiring => Timed.age >= Least(MaxAge, Ahead - Timed.left)
  BY DEF Near, Aged
<1>4. /\ Timed'.delay = Timed.delay
      /\ Timed'.left = Most(-1, Timed.left - d)
      /\ Timed'.age = Least(MaxAge, Timed.age + d)
      /\ Timed'.expiring = Timed.expiring /\ Timed'.removed = Timed.removed
  BY DEF Grown
<1>5. Timed'.left <= Ahead BY <1>2, <1>3, <1>4 DEF Most
<1>6. Timed'.expiring => Timed'.age >= Least(MaxAge, Ahead - Timed'.left)
  <2> SUFFICES ASSUME Timed'.expiring
               PROVE  Timed'.age >= Least(MaxAge, Ahead - Timed'.left)
    OBVIOUS
  <2>1. Timed.age >= Least(MaxAge, Ahead - Timed.left) BY <1>3, <1>4
  <2>2. Timed'.left >= Timed.left - d BY <1>2, <1>4 DEF Most
  <2>3. Timed'.left \in Int BY <1>2, <1>4 DEF Most
  <2> QED BY <1>2, <1>4, <2>1, <2>2, <2>3 DEF Least
<1>7. Timed'.left <= Most(-1, Timed.left - d) BY <1>2, <1>4 DEF Most
<1> QED BY <1>1, <1>3, <1>4, <1>5, <1>6, <1>7 DEF Aged

\* The wait for a short delay ends just before the target, or after it.
LEMMA ShortWait ==
    ASSUME Alone, Inv, Near, Timed.delay <= MaxWait, pc = "wait",
           NEW l \in Nat
    PROVE  Timed.left - (timeout * Tick + l) < Tick
<1> DEFINE q == Timed.left \div Tick
<1>1. Timed.left \in Int /\ Timed.delay \in Nat \ {0} /\ Tick \in Nat \ {0}
      /\ MaxWait \in Nat \ {0}
  BY OneTypes
<1>2. q \in Int /\ q * Tick <= Timed.left BY <1>1, Quotient
<1>3. q <= Timed.delay
  <2>1. q * Tick <= Timed.delay * Tick BY <1>1, <1>2, Products DEF Near, Ahead
  <2>2. SUFFICES ASSUME ~(q <= Timed.delay) PROVE FALSE OBVIOUS
  <2> HIDE DEF q
  <2>3. Timed.delay <= q - 1 BY <1>1, <1>2, <2>2
  <2>4. Timed.delay * Tick <= (q - 1) * Tick /\ (q - 1) * Tick = q * Tick - Tick
        /\ q * Tick \in Int /\ Timed.delay * Tick \in Int
    BY <1>1, <1>2, <2>3, Multiples
  <2> QED BY <1>1, <2>1, <2>4
<1>4. timeout = Least(MaxWait, Most(1, q)) BY DEF Near
<1>5. timeout = Most(1, q)
  <2> HIDE DEF q
  <2> QED BY <1>1, <1>2, <1>3, <1>4 DEF Least, Most
<1> QED BY <1>1, <1>5, WaitLength

LEMMA NearNext ==
    ASSUME OneTimer, Alone, Inv, Inv', Near, [Next]_vars
    PROVE  Near'
<1>1. Alone' /\ (Quiet \/ Scan \/ CallEnds \/ WaitStarts \/ WaitEnds \/ Parked)
  BY OneNext
<1>2. /\ Ahead \in Nat /\ Timed.left \in Int /\ Timed.left >= -1
      /\ Timed.age \in 0..MaxAge /\ MaxAge \in Nat /\ Tick \in Nat \ {0}
      /\ timeout \in Nat
  BY OneTypes
<1>3. Slack \subseteq Nat /\ Late \subseteq Nat /\ Parks \subseteq Nat
  BY TimingAssumption
<1>4. CASE Quiet
  <2>1. Ahead' = Ahead /\ Timed'.left = Timed.left /\ timeout' = timeout
    BY <1>4, AheadKept DEF Quiet, Kept
  <2>2. Fresh' => Fresh BY <1>4 DEF Quiet, Kept, Fresh
  <2>3. pc' = "wait" => pc = "wait" BY <1>4 DEF Quiet
  <2> QED BY <1>4, <2>1, <2>2, <2>3 DEF Near, Quiet, Kept, Aged
<1>5. CASE Scan
  <2>1. ~Fresh' /\ pc' # "wait" BY <1>5 DEF Scan, Fresh
  <2>2. CASE Kept /\ Timed.removed
    <3>1. Ahead' = Ahead BY <2>2, AheadKept DEF Kept
    <3> QED BY <2>1, <2>2, <3>1 DEF Near, Kept, Aged
  <2>3. CASE MarkedDue
    <3>1. Ahead' = Ahead /\ Timed'.left = Ahead
      BY <2>3, AheadKept DEF MarkedDue
    <3>2. Timed'.age >= Least(MaxAge, Ahead' - Timed'.left)
      BY <1>2, <2>3, <3>1 DEF MarkedDue, Least
    <3> QED BY <1>2, <2>1, <2>3, <3>1, <3>2 DEF Near, MarkedDue, Aged
  <2>4. CASE Unmarked
    <3>1. Ahead' = Ahead BY <2>4, AheadKept DEF Unmarked
    <3> QED BY <2>1, <2>4, <3>1 DEF Near, Unmarked
  <2> QED BY <1>5, <2>2, <2>3, <2>4 DEF Scan
<1>6. CASE CallEnds
  <2>1. Ahead' = Ahead BY <1>6, AheadKept DEF CallEnds, CountedCall
  <2>2. ~Fresh' /\ pc' # "wait" BY <1>6 DEF CallEnds, Fresh
  <2> QED BY <1>6, <2>1, <2>2 DEF Near, CallEnds, CountedCall
<1>7. CASE WaitStarts
  <2>1. PICK e \in Slack : Grown(e) BY <1>7 DEF WaitStarts
  <2>2. e \in Nat BY <1>3
  <2>3. ~Fresh' /\ timeout' = Least(MaxWait, Most(1, Timed'.left \div Tick))
    BY <1>7 DEF WaitStarts, Fresh
  <2> QED BY <1>1, <2>1, <2>2, <2>3, GrownNear DEF Near
<1>8. CASE WaitEnds
  <2>1. PICK l \in Late : Grown(timeout * Tick + l) BY <1>8 DEF WaitEnds
  <2> DEFINE d == timeout * Tick + l
  <2>2. l \in Nat /\ d \in Nat BY <1>2, <1>3, Products
  <2>3. Timed.delay <= MaxWait => Timed.left - d < Tick
    BY <1>8, <2>2, ShortWait DEF WaitEnds
  <2>4. pc' # "wait" /\ Timed'.delay = Timed.delay
    BY <1>8, <2>1 DEF WaitEnds, Grown
  <2> HIDE DEF d
  <2>5. Grown(d) BY <2>1 DEF d
  <2>6. /\ Timed'.removed => ~Timed'.expiring
        /\ Short => Timed'.delay <= MaxWait
        /\ Timed'.left <= Ahead'
        /\ Timed'.expiring => Aged(Ahead - Timed.left)'
    BY <1>1, <2>2, <2>5, GrownNear
  <2>7. Timed'.left = Most(-1, Timed.left - d) BY <2>5 DEF Grown
  <2>8. Timed'.delay <= MaxWait => Timed'.left < Tick
    BY <1>2, <2>2, <2>3, <2>4, <2>7 DEF Most
  <2> QED BY <2>4, <2>6, <2>8 DEF Near
<1>9. CASE Parked
  <2>1. PICK d \in Parks : Grown(d) BY <1>9 DEF Parked
  <2>2. d \in Nat BY <1>3
  <2>3. /\ Timed'.removed => ~Timed'.expiring
        /\ Short => Timed'.delay <= MaxWait
        /\ Timed'.left <= Ahead'
        /\ Timed'.expiring => Aged(Ahead - Timed.left)'
    BY <1>1, <2>1, <2>2, GrownNear
  <2>4. Timed'.left = Most(-1, Timed.left - d) /\ Timed'.delay = Timed.delay
        /\ Timed'.expiring = Timed.expiring
    BY <2>1 DEF Grown
  <2>5. Fresh' => Fresh BY <1>9, <2>4 DEF Parked, Fresh
  <2>6. Fresh' /\ Timed'.delay <= MaxWait => Timed'.left < Tick
    BY <1>2, <2>2, <2>4, <2>5 DEF Near, Most
  <2> QED BY <1>9, <2>3, <2>6 DEF Near, Parked
<1> QED BY <1>1, <1>4, <1>5, <1>6, <1>7, <1>8, <1>9

-----------------------------------------------------------------------------
(* A delay longer than the longest wait                                     *)

\* Getting older never spoils an age that was owed x ticks before the target.
LEMMA GrownAged ==
    ASSUME Alone, Inv, NEW d \in Nat, Grown(d), NEW x \in Int,
           Aged(x - Timed.left)
    PROVE  Timed'.age >= Least(MaxAge, x - Timed'.left)
<1>1. /\ Timed.left \in Int /\ Timed.age \in 0..MaxAge /\ MaxAge \in Nat
  BY OneTypes
<1>2. /\ Timed'.left = Most(-1, Timed.left - d)
      /\ Timed'.age = Least(MaxAge, Timed.age + d)
  BY DEF Grown
<1>3. Timed.age >= Least(MaxAge, x - Timed.left) BY DEF Aged
<1>4. Timed'.left \in Int /\ Timed'.left >= Timed.left - d
  BY <1>1, <1>2 DEF Most
<1> QED BY <1>1, <1>2, <1>3, <1>4 DEF Least

\* The two ages that Far owes the timer.
LEMMA OwedTypes ==
    ASSUME Alone, Inv, NEW lo \in Nat
    PROVE  /\ OwedUnmarked(lo) \in Int /\ OwedMarked(lo) \in Int
           /\ OwedMarked(lo) = Ahead + OwedUnmarked(lo) + 1
BY OneTypes DEF OwedUnmarked, OwedMarked

\* While time passes, what Far owes stays paid.
LEMMA GrownFar ==
    ASSUME Alone, Inv, NEW lo \in Nat, Far(lo), NEW d \in Nat, Grown(d)
    PROVE  /\ ~Timed'.expiring => Aged(OwedUnmarked(lo) - Timed.left)'
           /\ Timed'.expiring => Aged(OwedMarked(lo) - Timed.left)'
<1>1. Ahead' = Ahead BY AheadKept DEF Grown
<1>2. OwedUnmarked(lo)' = OwedUnmarked(lo) /\ OwedMarked(lo)' = OwedMarked(lo)
  BY <1>1 DEF OwedUnmarked, OwedMarked, Cap
<1>3. OwedUnmarked(lo) \in Int /\ OwedMarked(lo) \in Int BY OwedTypes
<1>4. Timed'.expiring = Timed.expiring BY DEF Grown
<1>5. /\ ~Timed.expiring => Aged(OwedUnmarked(lo) - Timed.left)
      /\ Timed.expiring => Aged(OwedMarked(lo) - Timed.left)
  BY DEF Far
<1>6. CASE ~Timed.expiring
  <2>1. Timed'.age >= Least(MaxAge, OwedUnmarked(lo) - Timed'.left)
    BY <1>3, <1>5, <1>6, GrownAged
  <2> QED BY <1>2, <1>4, <1>6, <2>1 DEF Aged
<1>7. CASE Timed.expiring
  <2>1. Timed'.age >= Least(MaxAge, OwedMarked(lo) - Timed'.left)
    BY <1>3, <1>5, <1>7, GrownAged
  <2> QED BY <1>2, <1>4, <1>7, <2>1 DEF Aged
<1> QED BY <1>6, <1>7

LEMMA FarInit ==
    ASSUME OneTimer, Init, NEW lo \in Nat
    PROVE  Far(lo)
<1>1. PICK q \in Initial : Timed = Timer(q[1]) /\ q[1] \in Specs BY OneInit
<1>2. /\ Timed.left = q[1].delay * Tick /\ Timed.age = 0
      /\ Timed.delay = q[1].delay /\ ~Timed.expiring
  BY <1>1 DEF Timer
<1>3. Ahead \in Nat /\ Timed.left = Ahead
  BY <1>1, <1>2, Products DEF Ahead, Specs
<1>4. Cap \in Nat /\ Tick \in Nat /\ MaxAge \in Nat
  BY TimingAssumption, Products DEF Cap
<1>5. Aged(OwedUnmarked(lo) - Timed.left)
  BY <1>2, <1>3, <1>4 DEF Aged, Least, OwedUnmarked
<1> QED BY <1>2, <1>5 DEF Far, Fresh

\* The wait of a marked timer with a long delay: it ends within a millisecond
\* of the target, or MaxWait after it began.
LEMMA LongWait ==
    ASSUME Alone, Inv, Near, NEW lo \in Nat, Spread(lo), Far(lo),
           Timed.expiring, pc = "wait", NEW l \in Late,
           Grown(timeout * Tick + l)
    PROVE  /\ Timed'.left >= OwedUnmarked(lo)
           /\ Timed'.left < Tick \/ Timed'.left <= OwedUnmarked(lo) + Tick
<1> DEFINE q == Timed.left \div Tick
           d == timeout * Tick + l
<1>1. /\ Timed.left \in Int /\ Timed.left >= -1 /\ Ahead \in Nat
      /\ Tick \in Nat \ {0} /\ MaxWait \in Nat \ {0} /\ Cap \in Nat
      /\ timeout \in Nat /\ timeout <= MaxWait
  BY OneTypes
<1>2. l \in Nat /\ Slack \subseteq Nat BY TimingAssumption
<1>3. PICK e \in Slack : Timed.left = Most(-1, Ahead - e) BY DEF Far
<1>4. e \in Nat /\ lo <= e + l /\ e + l <= lo + Tick
  BY <1>1, <1>2, <1>3 DEF Spread
<1>5. timeout * Tick <= Cap /\ timeout * Tick \in Int
  BY <1>1, Multiples DEF Cap
<1>6. Timed'.left = Most(-1, Timed.left - d) BY DEF Grown
<1>7. OwedUnmarked(lo) = Ahead - Cap - lo - Tick BY DEF OwedUnmarked
<1>8. d = timeout * Tick + l OBVIOUS
<1> HIDE DEF d
<1>9. Timed'.left >= OwedUnmarked(lo)
  BY <1>1, <1>2, <1>3, <1>4, <1>5, <1>6, <1>7, <1>8 DEF Most
<1>10. timeout = Least(MaxWait, Most(1, q)) BY DEF Near
<1>11. q \in Int /\ q * Tick <= Timed.left BY <1>1, Quotient
<1>12. CASE q >= MaxWait
  <2>1. MaxWait * Tick <= q * Tick /\ q * Tick \in Int BY <1>1, <1>11, <1>12, Multiples
  <2>2. Tick <= Cap
    <3>1. 1 * Tick <= MaxWait * Tick BY <1>1, Multiples
    <3> QED BY <1>1, <3>1 DEF Cap
  <2> HIDE DEF q
  <2>3. timeout = MaxWait BY <1>1, <1>10, <1>11, <1>12 DEF Least, Most
  <2>4. d = Cap + l BY <1>8, <2>3 DEF Cap
  <2>5. Timed.left >= Cap BY <1>11, <2>1, <1>1 DEF Cap
  <2>6. Timed.left = Ahead - e BY <1>1, <1>3, <1>4, <2>2, <2>5 DEF Most
  <2>7. Timed'.left < Tick \/ Timed'.left <= OwedUnmarked(lo) + Tick
    BY <1>1, <1>2, <1>4, <1>6, <1>7, <2>4, <2>6 DEF Most
  <2> QED BY <1>9, <2>7
<1>13. CASE ~(q >= MaxWait)
  <2>1. timeout = Most(1, q)
    <3> HIDE DEF q
    <3> QED BY <1>1, <1>10, <1>11, <1>13 DEF Least, Most
  <2>2. Timed.left - d < Tick BY <1>1, <1>2, <1>8, <2>1, WaitLength
  <2>3. d \in Int BY <1>2, <1>5, <1>8
  <2>4. Timed'.left < Tick BY <1>1, <1>6, <2>2, <2>3 DEF Most
  <2> QED BY <1>9, <2>4
<1> QED BY <1>12, <1>13

LEMMA FarNext ==
    ASSUME OneTimer, Alone, Inv, Inv', Near, Parks = {},
           NEW lo \in Nat, Spread(lo), Far(lo), [Next]_vars
    PROVE  Far(lo)'
<1>1. Quiet \/ Scan \/ CallEnds \/ WaitStarts \/ WaitEnds \/ Parked
  BY OneNext
<1>2. /\ Ahead \in Nat /\ Timed.left \in Int /\ Timed.left >= -1
      /\ Timed.age \in 0..MaxAge /\ MaxAge \in Nat /\ Tick \in Nat \ {0}
      /\ Cap \in Nat /\ timeout \in Nat
      /\ Timed.expiring \in BOOLEAN /\ Timed.removed \in BOOLEAN
  BY OneTypes
<1>3. Slack \subseteq Nat /\ Late \subseteq Nat BY TimingAssumption
<1>4. Ahead' = Ahead =>
         OwedUnmarked(lo)' = OwedUnmarked(lo) /\ OwedMarked(lo)' = OwedMarked(lo)
  BY DEF Cap, OwedUnmarked, OwedMarked
<1>4a. OwedUnmarked(lo) \in Int /\ OwedMarked(lo) = Ahead + OwedUnmarked(lo) + 1
  BY OwedTypes
<1>5. CASE Quiet
  <2>1. Ahead' = Ahead BY <1>5, AheadKept DEF Quiet, Kept
  <2>2. Fresh' => Fresh BY <1>5 DEF Quiet, Kept, Fresh
  <2>3. pc' = "wait" => pc = "wait" BY <1>5 DEF Quiet
  <2>4. pc' = "timeout" \/ (pc' = "round" /\ round' = 2)
           => pc = "timeout" \/ (pc = "round" /\ round = 2)
    BY <1>5 DEF Quiet
  <2>5. /\ Timed'.left = Timed.left /\ Timed'.age = Timed.age
        /\ Timed'.expiring = Timed.expiring
    BY <1>5 DEF Quiet, Kept
  <2> QED BY <1>4, <2>1, <2>2, <2>3, <2>4, <2>5 DEF Far, Aged
<1>6. CASE Scan
  <2>1. ~Fresh' /\ pc' # "wait" /\ pc' # "timeout" BY <1>6 DEF Scan, Fresh
  <2>2. CASE Kept /\ Timed.removed
    <3>1. Ahead' = Ahead BY <2>2, AheadKept DEF Kept
    <3>2. ~Timed.expiring BY <2>2 DEF Near
    <3> QED BY <1>4, <2>1, <2>2, <3>1, <3>2 DEF Far, Kept, Aged
  <2>3. CASE MarkedDue
    <3>1. Ahead' = Ahead /\ Timed'.left = Ahead /\ Timed'.expiring
          /\ Timed'.age = Timed.age /\ Timed.left = -1
      BY <1>2, <2>3, AheadKept DEF MarkedDue
    <3>2. Timed.age >= Least(MaxAge, OwedUnmarked(lo) + 1)
      BY <1>2, <1>4a, <3>1 DEF Far, Aged, Least
    <3>3. Aged(OwedMarked(lo) - Timed.left)'
      BY <1>2, <1>4, <1>4a, <3>1, <3>2 DEF Aged, Least
    <3> QED BY <1>4, <2>1, <3>1, <3>3 DEF Far
  <2>4. CASE Unmarked
    <3>1. Ahead' = Ahead /\ ~Timed'.expiring /\ Timed'.age = Timed.age
          /\ Timed'.left = Timed.left /\ (Timed.expiring => Timed.left = 0)
      BY <2>4, AheadKept DEF Unmarked
    <3>2. Timed.age >= Least(MaxAge, OwedUnmarked(lo) - Timed.left)
      BY <1>2, <1>4a, <3>1 DEF Far, Aged, Least
    <3>3. Aged(OwedUnmarked(lo) - Timed.left)'
      BY <1>4, <3>1, <3>2 DEF Aged
    <3> QED BY <1>4, <2>1, <3>1, <3>3 DEF Far, Fresh
  <2> QED BY <1>6, <2>2, <2>3, <2>4 DEF Scan
<1>7. CASE CallEnds
  <2>1. Ahead' = Ahead /\ ~Timed'.expiring /\ Timed'.age = 0
        /\ Timed'.left = Timed.left
    BY <1>7, AheadKept DEF CallEnds, CountedCall
  <2>2. Timed.expiring
    <3>1. timers[current].expiring /\ current = 0
      BY <1>7 DEF Inv, Chosen, Alone, CallEnds
    <3> QED BY <3>1 DEF Timed
  <2>3. Timed.left >= OwedUnmarked(lo)
    BY <1>7, <2>2 DEF Far, Fresh, CallEnds
  <2>4. Aged(OwedUnmarked(lo) - Timed.left)'
    BY <1>2, <1>4, <1>4a, <2>1, <2>3 DEF Aged, Least
  <2> QED BY <1>4, <2>1, <2>4 DEF Far, Fresh
<1>8. CASE WaitStarts
  <2>1. PICK e \in Slack : Grown(e) BY <1>8 DEF WaitStarts
  <2>2. e \in Nat BY <1>3
  <2>3. ~Fresh' /\ pc' = "wait" /\ pc = "timeout"
    BY <1>8 DEF WaitStarts, Fresh
  <2>4. /\ ~Timed'.expiring => Aged(OwedUnmarked(lo) - Timed.left)'
        /\ Timed'.expiring => Aged(OwedMarked(lo) - Timed.left)'
    BY <2>1, <2>2, GrownFar
  <2>5. Timed'.expiring => Timed'.left = Most(-1, Ahead - e)
    BY <2>1, <2>3 DEF Far, Grown
  <2>6. Ahead' = Ahead BY <2>1, AheadKept DEF Grown
  <2> QED BY <1>4, <2>3, <2>4, <2>5, <2>6 DEF Far
<1>9. CASE WaitEnds
  <2>1. PICK l \in Late : Grown(timeout * Tick + l) BY <1>9 DEF WaitEnds
  <2>2. timeout * Tick + l \in Nat BY <1>2, <1>3, Products
  <2>3. /\ ~Timed'.expiring => Aged(OwedUnmarked(lo) - Timed.left)'
        /\ Timed'.expiring => Aged(OwedMarked(lo) - Timed.left)'
    BY <2>1, <2>2, GrownFar
  <2>4. Ahead' = Ahead /\ Timed'.expiring = Timed.expiring
    BY <2>1, AheadKept DEF Grown
  <2>5. pc = "wait" /\ pc' = "turn" BY <1>9 DEF WaitEnds
  <2>6. Timed.expiring =>
          /\ Timed'.left >= OwedUnmarked(lo)
          /\ Timed'.left < Tick \/ Timed'.left <= OwedUnmarked(lo) + Tick
    BY <2>1, <2>5, LongWait
  <2> QED
    BY <1>4, <2>3, <2>4, <2>5, <2>6 DEF Far, Fresh
<1>10. CASE Parked BY <1>10 DEF Parked
<1> QED BY <1>1, <1>5, <1>6, <1>7, <1>8, <1>9, <1>10

-----------------------------------------------------------------------------
(* What agent.js can count on                                               *)

\* A timer that is alone stays so, and each turn has one round for it: the
\* rounds are at most as many as the timers (custom_eventloop.cpp:178).
THEOREM AloneAlways ==
    ASSUME OneTimer
    PROVE  Spec => [](Inv /\ Alone)
<1>1. Init => Inv /\ Alone BY OneInit, InvInit
<1>2. Inv /\ Alone /\ [Next]_vars => (Inv /\ Alone)' BY OneNext, InvNext
<1> QED BY <1>1, <1>2, PTL DEF Spec

\* Whenever the callback of an application's only timer is looked up, the table
\* of callbacks is on top of the value stack (custom_eventloop.cpp:174): one
\* timer is never looked up in a second round, where that table is gone.
THEOREM LooksUpInTableAlways ==
    ASSUME OneTimer
    PROVE  Spec => []LooksUpInTable
<1>1. Inv /\ Alone => LooksUpInTable BY DEF Alone, LooksUpInTable
<1> QED BY <1>1, AloneAlways, PTL

\* With one timer expire_timers() leaves the value stack as it found it
\* (custom_eventloop.cpp:238): the two values pushed once are popped once in
\* each round, and there is one round, neither more nor none.
THEOREM StackRestoredAlways ==
    ASSUME OneTimer
    PROVE  Spec => []StackRestored
<1>1. Inv /\ Alone => StackRestored BY DEF Alone, StackRestored
<1> QED BY <1>1, AloneAlways, PTL

LEMMA NearSteady ==
    ASSUME OneTimer, Alone, Inv, Near,
           \/ Short
           \/ \E lo \in Nat : Far(lo)
    PROVE  SteadyInterval
<1> SUFFICES ASSUME pc = "call"
             PROVE  Timed.age >= Least(MaxAge, (Timed.delay - 1) * Tick)
  BY DEF SteadyInterval, Alone, Timed
<1>1. /\ Ahead \in Nat /\ Timed.left \in Int /\ Timed.delay \in Nat \ {0}
      /\ Timed.age \in 0..MaxAge /\ MaxAge \in Nat /\ Tick \in Nat \ {0}
      /\ Cap \in Nat
  BY OneTypes
<1>2. (Timed.delay - 1) * Tick = Ahead - Tick
  BY <1>1, Multiples DEF Ahead
<1>3. Timed.expiring BY DEF Inv, Chosen, Alone, Timed
<1>4. Fresh BY <1>3 DEF Fresh
<1>5. Timed.age >= Least(MaxAge, Ahead - Timed.left) BY <1>3 DEF Near, Aged
<1>6. CASE Timed.left < Tick BY <1>1, <1>2, <1>5, <1>6 DEF Least
<1>7. CASE ~(Timed.left < Tick)
  <2>1. ~Short BY <1>4, <1>7 DEF Near
  <2>2. PICK lo \in Nat : Far(lo) BY <2>1
  <2>3. Timed.left <= OwedUnmarked(lo) + Tick BY <1>4, <1>7, <2>2 DEF Far
  <2>4. Timed.age >= Least(MaxAge, OwedMarked(lo) - Timed.left)
    BY <1>3, <2>2 DEF Far, Aged
  <2>5. OwedUnmarked(lo) \in Int /\ OwedMarked(lo) = Ahead + OwedUnmarked(lo) + 1
    BY <2>2, OwedTypes
  <2> QED BY <1>1, <1>2, <2>2, <2>3, <2>4, <2>5 DEF Least
<1> QED BY <1>6, <1>7

\* The callbacks of an interval are called at least its delay less one
\* millisecond apart, for any delay the loop waits for at once; for a longer
\* one, which is called a turn after it was marked instead
\* (custom_eventloop.cpp:186-205), as long as its turns and wake-ups are
\* regular to the millisecond.
THEOREM SteadyIntervalAlways ==
    ASSUME OneTimer, Short \/ Punctual
    PROVE  Spec => []SteadyInterval
<1>1. Init => Inv /\ Alone /\ Near BY OneInit, InvInit, NearInit
<1>2. Inv /\ Alone /\ Near /\ [Next]_vars => (Inv /\ Alone /\ Near)'
  BY OneNext, InvNext, NearNext
<1>3. CASE Short
  <2>1. Inv /\ Alone /\ Near => SteadyInterval BY <1>3, NearSteady
  <2> QED BY <1>1, <1>2, <2>1, PTL DEF Spec
<1>4. CASE Punctual
  <2>1. PICK lo \in Nat : Spread(lo) BY <1>4 DEF Punctual
  <2>2. Init => Far(lo) BY FarInit
  <2>3. Inv /\ Alone /\ Near /\ Far(lo) /\ [Next]_vars => Far(lo)'
    BY <1>4, <2>1, InvNext, FarNext DEF Punctual
  <2>4. Inv /\ Alone /\ Near /\ Far(lo) => SteadyInterval BY NearSteady
  <2> QED BY <1>1, <1>2, <2>2, <2>3, <2>4, PTL DEF Spec
<1> QED BY <1>3, <1>4
=============================================================================
