------------------------------- MODULE Locks -------------------------------
(***************************************************************************)
(* What std::recursive_mutex and std::mutex do in the build this code      *)
(* targets (glibc), which the code relies on with its many unlock() calls  *)
(* outside a lock_guard:                                                   *)
(*   - unlocking a recursive mutex one does not own has no effect;         *)
(*   - unlocking a recursive mutex one owns gives back one level, whatever *)
(*     lock_guard was meant to do so later;                                *)
(*   - unlocking a plain mutex frees it, whoever holds it.                 *)
(* A plain mutex is represented by its owner alone.                        *)
(***************************************************************************)
EXTENDS Naturals

Nobody == "nobody"

\* The values of a recursive mutex shared by the given threads.
RecursiveMutex(threads) == [owner : threads \cup {Nobody}, count : Nat]

Free == [owner |-> Nobody, count |-> 0]

CanLock(m, t) == m.owner \in {Nobody, t}

Locked(m, t) == [owner |-> t, count |-> m.count + 1]

\* Mutant of Unlocked: a mutex that does not know its owner.
UnlockedByAnyone(m, t) == [owner |-> Nobody, count |-> m.count - 1]

Unlocked(m, t) ==
    IF m.owner # t THEN m
    ELSE IF m.count <= 1 THEN Free
    ELSE [owner |-> t, count |-> m.count - 1]

\* The mutex after a longjmp past lock_guards that held n levels of it.
Leaked(m, t, n) == [owner |-> t, count |-> m.count + n]
=============================================================================
