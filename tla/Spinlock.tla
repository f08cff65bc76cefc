------------------------------ MODULE Spinlock ------------------------------
(***************************************************************************)
(* spinlock_acquire and spinlock_release (kernel/multitasking/spinlock.s), *)
(* on one processor.  Between cli and sti no other task runs, so the       *)
(* instructions there are one step.  The kernel contains no caller: the    *)
(* callers below take the lock, use it and release it.                     *)
(***************************************************************************)
EXTENDS Integers, FiniteSets

CONSTANTS Tasks2,     \* the tasks that use the lock
          MaxSlow     \* bound on the calls that leave the spin loop

ASSUME SpinConstants == MaxSlow \in Nat

VARIABLES lock,  \* bit 0 of the lock
          spc,   \* [Tasks2 -> ...]: "out", "spin", "try", "in", "slow": in, through the slow path
          slow   \* ghost: how often a task has left the spin loop

spinVars == <<lock, spc, slow>>

\* mutant: the jump of the slow path, jnc for jc, on the fast path too
spinlock_acquire_variant(t) ==
    /\ spc[t] = "out"
    /\ spc' = [spc EXCEPT ![t] = IF lock = 0 THEN "spin" ELSE "in"]
    /\ lock' = 1
    /\ UNCHANGED slow

\* cli; lock bts; jnc done
spinlock_acquire(t) ==
    /\ spc[t] = "out"
    /\ spc' = [spc EXCEPT ![t] = IF lock = 0 THEN "in" ELSE "spin"]
    /\ lock' = 1
    /\ UNCHANGED slow

\* bt; jc spin: leaves the inner loop when the lock is free
spin(t) ==
    /\ spc[t] = "spin" /\ lock = 0
    /\ spc' = [spc EXCEPT ![t] = "try"]
    /\ UNCHANGED <<lock, slow>>

\* cli; lock bts; jnc spin: the task that gets the lock goes on spinning, the
\* one that finds it taken returns
spin_bts(t) ==
    /\ spc[t] = "try" /\ slow < MaxSlow
    /\ spc' = [spc EXCEPT ![t] = IF lock = 0 THEN "spin" ELSE "slow"]
    /\ slow' = slow + (IF lock = 0 THEN 0 ELSE 1)
    /\ lock' = 1

spinlock_release(t) ==
    /\ spc[t] \in {"in", "slow"}
    /\ lock' = 0
    /\ spc' = [spc EXCEPT ![t] = "out"]
    /\ UNCHANGED slow

SpinNext == \E t \in Tasks2 : spinlock_acquire(t) \/ spin(t) \/ spin_bts(t) \/ spinlock_release(t)

\* every task spins on a lock that nobody will release, or MaxSlow is reached
SpinStuck == ~(ENABLED SpinNext) /\ UNCHANGED spinVars

SpinInit == lock = 0 /\ spc = [t \in Tasks2 |-> "out"] /\ slow = 0

SpinSpec == SpinInit /\ [][SpinNext]_spinVars

----------------------------------------------------------------------------
\* Until some task comes through the slow path, at most one task holds the lock,
\* and the lock is taken while it does.  (The first one that does enters beside
\* the holder, or after a task that took the lock and goes on spinning.)
FirstExclusive ==
    slow = 0 => LET inside == {t \in Tasks2 : spc[t] = "in"} IN
                Cardinality(inside) <= 1 /\ (inside # {} => lock = 1)
=============================================================================
