---- MODULE MCScheduler ----
EXTENDS Scheduler, TLC
CONSTANTS idle, test, cleaner_, a, b, c
UserSlots == Permutations(TCBs \ {Idle, Test, Cleaner})

\* Bound: the last spawn is made while two programs are still allocated and
\* before anybody has waited.
Crowded == ~torn /\ (spawns = MaxSpawns => Cardinality(allocated) >= 5 /\ fg_task = NULL)
====
