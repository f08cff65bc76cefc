--------------------------- MODULE SchedListProofs ---------------------------
EXTENDS SchedulerProofs, WellFoundedInduction

(***************************************************************************)
(* The task lists of kernel/multitasking: as long as no interrupt has come *)
(* inside one of the unprotected windows (torn), the two doubly linked     *)
(* lists are sound, every task resumes on its own stack, mt_task_terminate *)
(* unlinks a task whose neighbours point back at it, and no two live tasks *)
(* share a pid.                                                            *)
(*                                                                         *)
(* The lists are described by two sets A (the task list) and Z (the        *)
(* terminated tasks) and a rank r that grows along next.  Sound(A, Z, r)   *)
(* holds between any two stores: Out is the task in neither list while it  *)
(* is moved, PrevOf counts the prev link that the next store will write.   *)
(* ListInv is the inductive invariant, PidInv the one of the pids on top   *)
(* of it.                                                                  *)
(***************************************************************************)

----------------------------------------------------------------------------
(* Numbers, and walking a list.                                             *)

\* A set of numbers that is not empty has a least element.
LEMMA NatMin ==
  ASSUME NEW S \in SUBSET Nat, S # {}
  PROVE  \E n \in S : \A m \in S : n <= m
  <1> DEFINE R == OpToRel(<, Nat)
  <1>1. IsWellFoundedOn(R, Nat)
    BY NatLessThanWellFounded, Zenon
  <1>2. \A x, y \in Nat : x < y => <<x, y>> \in R
    BY DEF OpToRel
  <1> HIDE DEF R
  <1>3. \E x \in S : \A y \in S : ~ (<<y, x>> \in R)
    BY <1>1, WFMin
  <1>4. \A x, y \in Nat : ~(x < y) => y <= x
    OBVIOUS
  <1> QED BY <1>2, <1>3, <1>4

\* Induction over 0..n, as a fact about sets.
LEMMA IntervalInduction ==
  ASSUME NEW n \in Nat, NEW S, 0 \in S,
         \A k \in 1..n : k - 1 \in S => k \in S
  PROVE  \A k \in 0..n : k \in S
  <1> SUFFICES ASSUME NEW k0 \in 0..n, k0 \notin S PROVE FALSE
    OBVIOUS
  <1> DEFINE T == {k \in 0..n : k \notin S}
  <1>1. T \in SUBSET Nat /\ T # {}
    OBVIOUS
  <1>2. PICK k \in T : \A m \in T : k <= m
    BY <1>1, NatMin
  <1>3. k \in 1..n
    BY <1>2
  <1>4. k - 1 \in 0..n /\ ~(k <= k - 1)
    BY <1>3
  <1>5. k - 1 \in S
    BY <1>2, <1>4
  <1> QED BY <1>2, <1>3, <1>5

\* The bound on a walk is a number.
LEMMA HopsNat == MaxHops \in Nat
  BY BootAssumption, FS_CardinalityType DEF MaxHops

\* One hop.
Hopped(v) == IF v \in TCBs THEN tcb[v].next ELSE NULL

\* The equation that defines Hops has a solution.
LEMMA WalkExists ==
  ASSUME NEW start
  PROVE  \E f : f = [k \in 0..MaxHops |-> IF k = 0 THEN start ELSE Hopped(f[k - 1])]
  <1> DEFINE Sol(f, n) == f = [k \in 0..n |-> IF k = 0 THEN start ELSE Hopped(f[k - 1])]
             S == {n \in Nat : \E f : Sol(f, n)}
  <1>1. 0 \in S
    <2>1. Sol([k \in 0..0 |-> start], 0)
      OBVIOUS
    <2> QED BY <2>1
  <1>2. \A n \in 1..MaxHops : n - 1 \in S => n \in S
    <2> SUFFICES ASSUME NEW n \in 1..MaxHops, n - 1 \in S PROVE n \in S
      OBVIOUS
    <2>1. PICK f : Sol(f, n - 1)
      OBVIOUS
    <2> DEFINE g == [k \in 0..n |-> IF k = n THEN Hopped(f[n - 1]) ELSE f[k]]
    <2>2. n \in Nat /\ n > 0
      BY HopsNat
    <2>3. \A k \in 0..(n-1) : g[k] = f[k] /\ f[k] = IF k = 0 THEN start ELSE Hopped(f[k - 1])
      BY <2>1, <2>2
    <2>4. \A k \in 0..n : g[k] = IF k = 0 THEN start ELSE Hopped(g[k - 1])
      <3> SUFFICES ASSUME NEW k \in 0..n PROVE g[k] = IF k = 0 THEN start ELSE Hopped(g[k - 1])
        OBVIOUS
      <3>1. CASE k = n
        BY <2>2, <2>3, <3>1
      <3>2. CASE k # n /\ k # 0
        <4>1. k \in 0..(n-1) /\ k - 1 \in 0..(n-1)
          BY <3>2, <2>2
        <4> HIDE DEF g
        <4> QED BY <4>1, <2>3, <3>2
      <3>3. CASE k # n /\ k = 0
        <4>1. k \in 0..(n-1)
          BY <3>3, <2>2
        <4> HIDE DEF g
        <4> QED BY <4>1, <2>3, <3>3
      <3> QED BY <3>1, <3>2, <3>3
    <2>5. g = [k \in 0..n |-> g[k]]
      OBVIOUS
    <2>6. Sol(g, n)
      <3> HIDE DEF g
      <3> QED BY <2>4, <2>5
    <2> QED BY <2>2, <2>6
  <1> HIDE DEF S
  <1>3. MaxHops \in S
    BY <1>1, <1>2, HopsNat, IntervalInduction
  <1> QED BY <1>3 DEF S

\* What the walk visits: first the start, then what the last node's next names.
LEMMA HopsDef ==
  ASSUME NEW start
  PROVE  /\ Hops(start)[0] = start
         /\ \A k \in 1..MaxHops : Hops(start)[k] = Hopped(Hops(start)[k - 1])
  <1> DEFINE f == Hops(start)
  <1>1. f = [k \in 0..MaxHops |-> IF k = 0 THEN start ELSE Hopped(f[k - 1])]
    <2> DEFINE P(h) == h = [k \in 0..MaxHops |->
                 IF k = 0 THEN start ELSE IF h[k - 1] \in TCBs THEN tcb[h[k - 1]].next ELSE NULL]
    <2>1. \E h : P(h)
      BY WalkExists DEF Hopped
    <2>2. P(CHOOSE h : P(h))
      <3> HIDE DEF P
      <3> QED BY <2>1
    <2>3. f = CHOOSE h : P(h)
      BY DEF Hops
    <2>4. P(f)
      <3> HIDE DEF P, f
      <3> QED BY <2>2, <2>3
    <2> QED BY <2>4 DEF Hopped
  <1> HIDE DEF f
  <1>2. 0 \in 0..MaxHops /\ \A k \in 1..MaxHops : k \in 0..MaxHops /\ k # 0
    BY HopsNat
  <1>3. f[0] = start /\ \A k \in 1..MaxHops : f[k] = Hopped(f[k - 1])
    BY <1>1, <1>2
  <1> QED BY <1>3 DEF f

\* A walk that starts at NULL stays there, and finds nothing.
LEMMA WalkFromNull ==
  \A k \in 0..MaxHops : Hops(NULL)[k] = NULL
  <1> DEFINE S == {k \in Nat : Hops(NULL)[k] = NULL}
  <1>1. 0 \in S
    BY HopsDef
  <1>2. \A k \in 1..MaxHops : k - 1 \in S => k \in S
    BY HopsDef, HopsNat, BootAssumption DEF Hopped
  <1> HIDE DEF S
  <1>3. \A k \in 0..MaxHops : k \in S
    BY <1>1, <1>2, HopsNat, IntervalInduction
  <1> QED BY <1>3 DEF S

\* A search that accepts every TCB ends where it starts.
LEMMA FirstOfAll ==
  ASSUME NEW start \in Pointers
  PROVE  First(start, TCBs) = start
  <1> DEFINE hop == Hops(start)
             hits == {k \in 0..MaxHops : hop[k] \in TCBs /\ \A j \in 0..(k - 1) : hop[j] \notin TCBs}
             firsts == {hop[k] : k \in hits}
  <1>1. hop[0] = start /\ 0 \in 0..MaxHops
    BY HopsDef, HopsNat
  <1>2. First(start, TCBs) = IF firsts = {} THEN NULL ELSE CHOOSE t \in firsts : TRUE
    BY DEF First
  <1>3. CASE start = NULL
    <2>1. \A k \in 0..MaxHops : hop[k] = NULL
      BY <1>3, WalkFromNull
    <2>2. hits = {}
      BY <2>1, BootAssumption
    <2> HIDE DEF hits, hop
    <2> QED BY <1>2, <1>3, <2>2
  <1>4. CASE start # NULL
    <2>1. start \in TCBs
      BY <1>4 DEF Pointers
    <2> HIDE DEF hop
    <2>2. hits = {0}
      <3>1. 0 \in hits
        BY <1>1, <2>1
      <3>2. \A k \in hits : k = 0
        <4> SUFFICES ASSUME NEW k \in hits, k # 0 PROVE FALSE
          OBVIOUS
        <4>1. k \in Nat /\ 0 \in 0..(k - 1)
          BY HopsNat
        <4> QED BY <1>1, <2>1, <4>1
      <3> QED BY <3>1, <3>2
    <2>3. firsts = {start}
      <3> HIDE DEF hits
      <3> QED BY <1>1, <2>2
    <2> HIDE DEF firsts
    <2> QED BY <1>2, <2>3
  <1> QED BY <1>3, <1>4

----------------------------------------------------------------------------
(* Chains: S is the set of nodes of a list that starts at h; nx and pv are  *)
(* its links, and r a ranking that grows along nx.  The prev of the head    *)
(* is not constrained: mt_task_terminate leaves a stale one there.          *)
Chain(S, h, nx, pv, r) ==
  /\ h \in S \cup {NULL} /\ (h = NULL => S = {})
  /\ \A t \in S : /\ nx[t] \in S \cup {NULL} /\ nx[t] # h
                  /\ nx[t] # NULL => r[t] < r[nx[t]] /\ pv[nx[t]] = t
  /\ \A t \in S \ {h} : pv[t] \in S /\ nx[pv[t]] = t

\* The next links.
NextOf == [t \in TCBs |-> tcb[t].next]

\* A set of nodes that is not empty has one of least rank.
LEMMA LeastRank ==
  ASSUME NEW S \in SUBSET TCBs, S # {}, NEW r \in [TCBs -> Nat]
  PROVE  \E t \in S : \A u \in S : r[t] <= r[u]
  <1> DEFINE R == {r[t] : t \in S}
  <1>1. R \in SUBSET Nat /\ R # {}
    OBVIOUS
  <1>2. PICK n \in R : \A m \in R : n <= m
    BY <1>1, NatMin
  <1> QED BY <1>2

\* Walking a chain visits its nodes, all of them, and ends.
LEMMA WalkChain ==
  ASSUME NEW S \in SUBSET TCBs, NEW h, NEW pv, NEW r \in [TCBs -> Nat],
         Chain(S, h, NextOf, pv, r)
  PROVE  Reach(h) = S /\ Hops(h)[MaxHops] = NULL
  <1> DEFINE hop == Hops(h)
  <1>1. /\ hop[0] = h
        /\ \A k \in 1..MaxHops : hop[k] = Hopped(hop[k - 1])
    BY HopsDef
  <1>2. \A t \in S : NextOf[t] = tcb[t].next /\ Hopped(t) = tcb[t].next
    BY DEF NextOf, Hopped
  <1>3. Hopped(NULL) = NULL /\ NULL \notin S
    BY BootAssumption DEF Hopped
  <1>4. Reach(h) = {hop[k] : k \in 0..MaxHops} \ {NULL}
    BY DEF Reach
  <1> HIDE DEF hop
  <1>5. \A k \in 0..MaxHops : hop[k] \in S \cup {NULL}
    <2> DEFINE K == {k \in Nat : hop[k] \in S \cup {NULL}}
    <2>1. 0 \in K
      BY <1>1 DEF Chain
    <2>2. \A k \in 1..MaxHops : k - 1 \in K => k \in K
      <3> SUFFICES ASSUME NEW k \in 1..MaxHops, k - 1 \in K PROVE k \in K
        OBVIOUS
      <3>1. hop[k] = Hopped(hop[k - 1]) /\ hop[k - 1] \in S \cup {NULL} /\ k \in Nat
        BY <1>1, HopsNat
      <3> QED BY <1>2, <1>3, <3>1 DEF Chain
    <2> HIDE DEF K
    <2>3. \A k \in 0..MaxHops : k \in K
      BY <2>1, <2>2, HopsNat, IntervalInduction
    <2> QED BY <2>3 DEF K
  <1>6. \A k \in 1..MaxHops : hop[k] # NULL =>
          hop[k - 1] \in S /\ hop[k] \in S /\ r[hop[k - 1]] < r[hop[k]]
    <2> SUFFICES ASSUME NEW k \in 1..MaxHops, hop[k] # NULL
                 PROVE  hop[k - 1] \in S /\ hop[k] \in S /\ r[hop[k - 1]] < r[hop[k]]
      OBVIOUS
    <2>1. k - 1 \in 0..MaxHops /\ k \in 0..MaxHops
      BY HopsNat
    <2>2. hop[k - 1] \in S /\ hop[k] \in S
      BY <1>1, <1>3, <1>5, <2>1
    <2> QED BY <1>1, <1>2, <2>2 DEF Chain
  <1>7. hop[MaxHops] = NULL
    <2> SUFFICES ASSUME hop[MaxHops] # NULL PROVE FALSE
      OBVIOUS
    <2>1. \A k \in 0..MaxHops : hop[k] \in S
      <3> DEFINE K == {j \in Nat : hop[MaxHops - j] \in S}
      <3>1. 0 \in K
        <4>1. MaxHops - 0 = MaxHops /\ MaxHops \in 0..MaxHops
          BY HopsNat
        <4> QED BY <1>5, <4>1
      <3>2. \A j \in 1..MaxHops : j - 1 \in K => j \in K
        <4> SUFFICES ASSUME NEW j \in 1..MaxHops, j - 1 \in K PROVE j \in K
          OBVIOUS
        <4> DEFINE k == MaxHops - (j - 1)
        <4>1. k \in 1..MaxHops /\ k - 1 = MaxHops - j /\ j \in Nat
          BY HopsNat
        <4>2. hop[k] \in S
          OBVIOUS
        <4> HIDE DEF k
        <4>3. hop[k - 1] \in S
          BY <1>3, <1>6, <4>1, <4>2
        <4> QED BY <4>1, <4>3
      <3> HIDE DEF K
      <3>3. \A j \in 0..MaxHops : j \in K
        BY <3>1, <3>2, HopsNat, IntervalInduction
      <3> SUFFICES ASSUME NEW k \in 0..MaxHops PROVE hop[k] \in S
        OBVIOUS
      <3>4. MaxHops - k \in 0..MaxHops /\ MaxHops - (MaxHops - k) = k
        BY HopsNat
      <3>5. MaxHops - k \in K
        BY <3>3, <3>4
      <3> QED BY <3>4, <3>5 DEF K
    <2>2. \A k \in 0..MaxHops : \A j \in 0..(k - 1) : r[hop[j]] < r[hop[k]]
      <3> DEFINE K == {k \in Nat : \A j \in 0..(k - 1) : r[hop[j]] < r[hop[k]]}
      <3>1. 0 \in K
        OBVIOUS
      <3>2. \A k \in 1..MaxHops : k - 1 \in K => k \in K
        <4> SUFFICES ASSUME NEW k \in 1..MaxHops, k - 1 \in K PROVE k \in K
          OBVIOUS
        <4>1. k \in Nat /\ k - 1 \in 0..MaxHops /\ k \in 0..MaxHops
          BY HopsNat
        <4>2. r[hop[k - 1]] < r[hop[k]]
          BY <1>3, <1>6, <2>1, <4>1
        <4>3. \A j \in 0..(k - 2) : r[hop[j]] < r[hop[k - 1]]
          <5>1. (k - 1) - 1 = k - 2
            BY <4>1
          <5> QED BY <5>1
        <4>4. \A j \in 0..MaxHops : r[hop[j]] \in Nat
          BY <2>1
        <4>5. \A j \in 0..(k - 1) : r[hop[j]] < r[hop[k]]
          <5> SUFFICES ASSUME NEW j \in 0..(k - 1) PROVE r[hop[j]] < r[hop[k]]
            OBVIOUS
          <5>1. j \in 0..MaxHops /\ (j = k - 1 \/ j \in 0..(k - 2))
            BY <4>1, HopsNat
          <5>2. r[hop[j]] \in Nat /\ r[hop[k]] \in Nat /\ r[hop[k - 1]] \in Nat
            BY <4>1, <4>4, <5>1
          <5> QED BY <4>2, <4>3, <5>1, <5>2
        <4> QED BY <4>1, <4>5
      <3> HIDE DEF K
      <3>3. \A k \in 0..MaxHops : k \in K
        BY <3>1, <3>2, HopsNat, IntervalInduction
      <3> QED BY <3>3 DEF K
    <2> DEFINE f == [k \in 0..MaxHops |-> hop[k]]
    <2>3. f \in [0..MaxHops -> TCBs]
      BY <2>1
    <2>4. IsFiniteSet(0..MaxHops) /\ Cardinality(0..MaxHops) = MaxHops + 1
      BY FS_Interval, HopsNat
    <2>5. IsFiniteSet(TCBs) /\ Cardinality(TCBs) < MaxHops + 1
      BY BootAssumption, HopsNat DEF MaxHops
    <2>6. PICK x, y \in 0..MaxHops : x # y /\ f[x] = f[y]
      <3> HIDE DEF f
      <3> QED BY <2>3, <2>4, <2>5, FS_PigeonHole
    <2>7. hop[x] = hop[y] /\ r[hop[x]] \in Nat
      BY <2>1, <2>6
    <2>8. x \in 0..(y - 1) \/ y \in 0..(x - 1)
      BY <2>6, HopsNat
    <2> QED BY <2>2, <2>7, <2>8
  <1>8. S \subseteq Reach(h)
    <2> SUFFICES ASSUME S \ Reach(h) # {} PROVE FALSE
      OBVIOUS
    <2>1. PICK t \in S \ Reach(h) : \A u \in S \ Reach(h) : r[t] <= r[u]
      BY LeastRank
    <2>2. \A k \in 0..MaxHops : hop[k] # t
      BY <1>3, <1>4, <2>1
    <2>3. t # h
      BY <1>1, <2>2, HopsNat
    <2> DEFINE u == pv[t]
    <2>4. u \in S /\ NextOf[u] = t
      BY <2>1, <2>3 DEF Chain
    <2> HIDE DEF u
    <2>5. r[u] < r[t] /\ r[u] \in Nat /\ r[t] \in Nat
      BY <1>3, <2>1, <2>4 DEF Chain
    <2>6. u \in Reach(h)
      BY <2>1, <2>4, <2>5
    <2>7. PICK k \in 0..MaxHops : hop[k] = u
      BY <1>4, <2>6
    <2>8. k + 1 \in 1..MaxHops /\ (k + 1) - 1 = k
      <3>1. k # MaxHops
        BY <1>3, <1>7, <2>4, <2>7
      <3> QED BY <3>1, HopsNat
    <2>9. hop[k + 1] = t
      BY <1>1, <1>2, <2>4, <2>7, <2>8
    <2> QED BY <2>2, <2>8, <2>9, HopsNat
  <1>9. Reach(h) \subseteq S
    BY <1>4, <1>5
  <1> QED BY <1>7, <1>8, <1>9 DEF hop

\* A chain depends on the links and ranks of its nodes alone.
LEMMA ChainSame ==
  ASSUME NEW S, NEW h, NEW nx, NEW pv, NEW r, NEW nx2, NEW pv2, NEW r2,
         Chain(S, h, nx, pv, r),
         \A t \in S : nx2[t] = nx[t] /\ r2[t] = r[t],
         \A t \in S \ {h} : pv2[t] = pv[t]
  PROVE  Chain(S, h, nx2, pv2, r2)
  BY DEF Chain

\* Taking a node other than the head out of a chain: mt_task_terminate.
LEMMA ChainUnlink ==
  ASSUME NEW S \in SUBSET TCBs, NEW h, NEW nx, NEW pv, NEW r \in [TCBs -> Nat], NEW nx2, NEW pv2,
         Chain(S, h, nx, pv, r), NEW x \in S, x # h,
         \A t \in S \ {x} : nx2[t] = IF t = pv[x] THEN nx[x] ELSE nx[t],
         \A t \in S \ {x, h} : pv2[t] = IF t = nx[x] THEN pv[x] ELSE pv[t]
  PROVE  Chain(S \ {x}, h, nx2, pv2, r)
  <1> DEFINE p == pv[x]  y == nx[x]
  <1>1. p \in S /\ nx[p] = x /\ y \in S \cup {NULL} /\ y # h
    BY DEF Chain
  <1>2. NULL \notin S
    BY BootAssumption
  <1>3. r[p] < r[x] /\ (y # NULL => r[x] < r[y] /\ pv[y] = x)
    BY <1>1, <1>2 DEF Chain
  <1>4. \A t \in S : r[t] \in Nat
    OBVIOUS
  <1>5. p # x /\ y # x /\ (y # NULL => y # p /\ r[p] < r[y])
    <2> HIDE DEF p, y
    <2>1. r[p] \in Nat /\ r[x] \in Nat /\ (y # NULL => r[y] \in Nat)
      BY <1>1, <1>4
    <2>2. p # x /\ (y # NULL => r[p] < r[y])
      BY <1>3, <2>1
    <2>3. y # x
      BY <1>2, <1>3, <2>1
    <2> QED BY <2>1, <2>2, <2>3
  <1>6. \A t \in S \ {x} : t # p => nx[t] # x
    BY <1>2 DEF Chain
  <1>7. \A t \in S \ {x} : t # y /\ t # h => pv[t] # x
    BY DEF Chain
  <1> HIDE DEF p, y
  <1>8. h \in (S \ {x}) \cup {NULL} /\ (h = NULL => S \ {x} = {})
    BY DEF Chain
  <1>9. \A t \in S \ {x} :
           /\ nx2[t] \in (S \ {x}) \cup {NULL} /\ nx2[t] # h
           /\ nx2[t] # NULL => r[t] < r[nx2[t]] /\ pv2[nx2[t]] = t
    <2> SUFFICES ASSUME NEW t \in S \ {x}
                 PROVE  /\ nx2[t] \in (S \ {x}) \cup {NULL} /\ nx2[t] # h
                        /\ nx2[t] # NULL => r[t] < r[nx2[t]] /\ pv2[nx2[t]] = t
      OBVIOUS
    <2>1. CASE t = p
      <3>1. nx2[t] = y
        BY <2>1 DEF p, y
      <3>2. y # NULL => pv2[y] = p
        BY <1>1, <1>5 DEF p, y
      <3> QED BY <1>1, <1>5, <2>1, <3>1, <3>2
    <2>2. CASE t # p
      <3>1. nx2[t] = nx[t] /\ nx[t] # x
        BY <1>6, <2>2 DEF p
      <3>2. nx[t] \in (S \ {x}) \cup {NULL} /\ nx[t] # h
        BY <3>1 DEF Chain
      <3>3. nx[t] # NULL => r[t] < r[nx[t]] /\ pv[nx[t]] = t
        BY DEF Chain
      <3>4. nx[t] # NULL => nx[t] # y
        BY <1>3, <3>3
      <3>5. nx[t] # NULL => pv2[nx[t]] = t
        BY <3>2, <3>3, <3>4 DEF y
      <3> QED BY <3>1, <3>2, <3>3, <3>5
    <2> QED BY <2>1, <2>2
  <1>10. \A t \in (S \ {x}) \ {h} : pv2[t] \in S \ {x} /\ nx2[pv2[t]] = t
    <2> SUFFICES ASSUME NEW t \in S \ {x, h} PROVE pv2[t] \in S \ {x} /\ nx2[pv2[t]] = t
      OBVIOUS
    <2>1. CASE t = y
      BY <1>1, <1>5, <2>1 DEF p, y
    <2>2. CASE t # y
      <3>1. pv2[t] = pv[t] /\ pv[t] # x /\ pv[t] \in S /\ nx[pv[t]] = t
        BY <1>7, <2>2 DEF y, Chain
      <3>2. pv[t] # p
        BY <1>1, <3>1
      <3> QED BY <3>1, <3>2 DEF p
    <2> QED BY <2>1, <2>2
  <1> QED BY <1>8, <1>9, <1>10 DEF Chain

\* Appending a node behind the last one: mt_push_task.
LEMMA ChainAppend ==
  ASSUME NEW S \in SUBSET TCBs, NEW h, NEW nx, NEW pv, NEW r \in [TCBs -> Nat], NEW nx2, NEW pv2,
         Chain(S, h, nx, pv, r), NEW x \in TCBs \ S, pv2[x] \in S, nx[pv2[x]] = NULL,
         nx2[x] = NULL, \A t \in S : nx2[t] = IF t = pv2[x] THEN x ELSE nx[t],
         \A t \in S \ {h} : pv2[t] = pv[t],
         NEW r2, r2[x] = r[pv2[x]] + 1, \A t \in S : r2[t] = r[t]
  PROVE  Chain(S \cup {x}, h, nx2, pv2, r2)
  <1> DEFINE p == pv2[x]
  <1>1. NULL \notin S /\ NULL # x /\ p # x
    BY BootAssumption
  <1>2. r2[x] = r[p] + 1 /\ (\A t \in S : r2[t] = r[t] /\ r[t] \in Nat)
    OBVIOUS
  <1>3. h \in S /\ h # x
    BY <1>1 DEF Chain
  <1>4. \A t \in S \cup {x} :
           /\ nx2[t] \in (S \cup {x}) \cup {NULL} /\ nx2[t] # h
           /\ nx2[t] # NULL => r2[t] < r2[nx2[t]] /\ pv2[nx2[t]] = t
    <2> SUFFICES ASSUME NEW t \in S \cup {x}
                 PROVE  /\ nx2[t] \in (S \cup {x}) \cup {NULL} /\ nx2[t] # h
                        /\ nx2[t] # NULL => r2[t] < r2[nx2[t]] /\ pv2[nx2[t]] = t
      OBVIOUS
    <2>1. CASE t = x
      BY <1>1, <1>3, <2>1
    <2>2. CASE t = p
      BY <1>1, <1>2, <1>3, <2>2
    <2>3. CASE t \in S /\ t # p
      BY <1>1, <1>2, <1>3, <2>3 DEF Chain
    <2> QED BY <2>1, <2>2, <2>3
  <1>5. \A t \in (S \cup {x}) \ {h} : pv2[t] \in S \cup {x} /\ nx2[pv2[t]] = t
    <2>1. \A t \in S \ {h} : pv[t] # p
      BY <1>1 DEF Chain
    <2> QED BY <1>1, <1>3, <2>1 DEF Chain
  <1> QED BY <1>3, <1>4, <1>5 DEF Chain

\* The ranks once x has been put in front of S.
Ranked(S, x, r) == [t \in TCBs |-> IF t = x THEN 0 ELSE IF t \in S THEN r[t] + 1 ELSE r[t]]

\* Putting a node in front of the head: the push on terminated_tasks.
LEMMA ChainPush ==
  ASSUME NEW S \in SUBSET TCBs, NEW h, NEW nx, NEW pv, NEW r \in [TCBs -> Nat], NEW nx2, NEW pv2,
         Chain(S, h, nx, pv, r), NEW x \in TCBs \ S,
         nx2[x] = h, \A t \in S : nx2[t] = nx[t],
         h # NULL => pv2[h] = x, \A t \in S \ {h} : pv2[t] = pv[t]
  PROVE  Chain(S \cup {x}, x, nx2, pv2, Ranked(S, x, r))
  <1> DEFINE r2 == Ranked(S, x, r)
  <1>1. NULL \notin S /\ NULL # x
    BY BootAssumption
  <1>2. r2[x] = 0 /\ \A t \in S : r2[t] = r[t] + 1 /\ r[t] \in Nat
    BY DEF Ranked
  <1> HIDE DEF r2
  <1>3. h \in S \cup {NULL} /\ h # x
    BY <1>1 DEF Chain
  <1>4. \A t \in S \cup {x} :
           /\ nx2[t] \in (S \cup {x}) \cup {NULL} /\ nx2[t] # x
           /\ nx2[t] # NULL => r2[t] < r2[nx2[t]] /\ pv2[nx2[t]] = t
    <2> SUFFICES ASSUME NEW t \in S \cup {x}
                 PROVE  /\ nx2[t] \in (S \cup {x}) \cup {NULL} /\ nx2[t] # x
                        /\ nx2[t] # NULL => r2[t] < r2[nx2[t]] /\ pv2[nx2[t]] = t
      OBVIOUS
    <2>1. CASE t = x
      BY <1>1, <1>2, <1>3, <2>1
    <2>2. CASE t \in S
      <3>1. nx2[t] \in S \cup {NULL} /\ nx2[t] # h
        BY <2>2 DEF Chain
      <3>2. nx2[t] # NULL => r[t] < r[nx2[t]] /\ pv[nx2[t]] = t
        BY <2>2 DEF Chain
      <3>3. nx2[t] # NULL => r2[t] < r2[nx2[t]]
        BY <1>2, <2>2, <3>1, <3>2
      <3> QED BY <1>1, <3>1, <3>2, <3>3
    <2> QED BY <2>1, <2>2
  <1>5. \A t \in (S \cup {x}) \ {x} : pv2[t] \in S \cup {x} /\ nx2[pv2[t]] = t
    BY <1>1, <1>3 DEF Chain
  <1> QED BY <1>1, <1>4, <1>5 DEF Chain, r2

\* Dropping the head: what the cleaner does.
LEMMA ChainPop ==
  ASSUME NEW S \in SUBSET TCBs, NEW h, NEW nx, NEW pv, NEW r \in [TCBs -> Nat],
         Chain(S, h, nx, pv, r), h # NULL
  PROVE  Chain(S \ {h}, nx[h], nx, pv, r)
  <1>1. NULL \notin S /\ h \in S
    BY BootAssumption DEF Chain
  <1>2. nx[h] = NULL => S \ {h} = {}
    <2> SUFFICES ASSUME nx[h] = NULL, S \ {h} # {} PROVE FALSE
      OBVIOUS
    <2>1. PICK t \in S \ {h} : \A u \in S \ {h} : r[t] <= r[u]
      BY LeastRank
    <2>2. pv[t] \in S /\ nx[pv[t]] = t
      BY <2>1 DEF Chain
    <2>3. pv[t] # h /\ r[pv[t]] < r[t]
      BY <1>1, <2>1, <2>2 DEF Chain
    <2> QED BY <2>1, <2>2, <2>3
  <1>3. nx[h] \in (S \ {h}) \cup {NULL}
    BY <1>1 DEF Chain
  <1>4. \A t \in S \ {h} : nx[t] # nx[h]
    <2> SUFFICES ASSUME NEW t \in S \ {h}, nx[t] = nx[h] PROVE FALSE
      OBVIOUS
    <2>1. nx[h] # NULL
      BY <1>2
    <2> QED BY <1>1, <2>1 DEF Chain
  <1>5. \A t \in S \ {h} : t # nx[h] => pv[t] # h
    BY <1>1 DEF Chain
  <1> QED BY <1>1, <1>2, <1>3, <1>4, <1>5 DEF Chain

----------------------------------------------------------------------------
(* The inductive invariant of the two lists.                                *)

\* The lines of mt_task_terminate.
Terminations == {"unlink_prev", "scan"} \cup Unlinking

\* The task on neither list: the one mt_task_terminate moves, or the one
\* mt_push_task is about to append.
Out == IF me.pc \in Unlinking THEN {top.t}
       ELSE IF me.pc \in {"find_tail", "link"} THEN {me.new} ELSE {}

\* The head of what terminated_tasks still holds: the cleaner frees its tasks
\* one by one, and the first push sets the pointer before the links.
ZHead == IF me.pc = "destroy" THEN me.ptr
         ELSE IF me.pc = "push_first" THEN NULL ELSE terminated_tasks

\* The prev links, the one the next store will write included.
PrevOf == [t \in TCBs |->
  IF me.pc = "backlink" /\ t = me.new THEN me.ptr
  ELSE IF me.pc = "unlink_next" /\ t = tcb[top.t].next THEN tcb[top.t].prev
  ELSE tcb[t].prev]

\* A is the set of tasks on the task list, Z of those on terminated_tasks.
Shape(A, Z, r) ==
  /\ A \cap Z = {} /\ Out \cap (A \cup Z) = {}
  /\ allocated = A \cup Z \cup Out
  /\ Cleaner \in A
  /\ Chain(A, Idle, NextOf, PrevOf, r)
  /\ Chain(Z, ZHead, NextOf, PrevOf, r)

\* The calls of mt_task_terminate: the loop of each caller stands at the task
\* the next call terminates.
Nested(f) == /\ Len(f) > 0
             /\ \A j \in 1..Len(f) : f[j].t \in allocated
             /\ \A j \in 1..(Len(f) - 1) : f[j].i = f[j + 1].t

\* Outside mt_task_terminate there is no call of it.
Calls == IF me.pc \in Terminations THEN Nested(me.frames) ELSE me.frames = << >>

\* What the running context knows between the stores of mt_task_terminate.  The
\* head of terminated_tasks, whose prev is stale, is never unlinked.
Moving(A, Z) ==
  /\ me.pc = "unlink_prev" => top.t \in (A \cup Z) \ {terminated_tasks}
  /\ me.pc = "scan" => top.i \in ((A \cup Z) \ {terminated_tasks}) \cup {NULL}
  /\ me.pc = "unlink_next" => tcb[top.t].next \in ((A \cup Z) \ {terminated_tasks}) \cup {NULL}
  /\ me.pc \in Unlinking => top.t # Cleaner
  /\ me.pc = "push_first" => terminated_tasks = top.t
  /\ me.pc \in {"push_next", "push_prev", "push_head"} => terminated_tasks # NULL
  /\ me.pc \in {"push_prev", "push_head"} => tcb[top.t].next = terminated_tasks
  /\ me.pc = "push_head" => tcb[terminated_tasks].prev = top.t

\* The same for mt_push_task, mt_task_terminate_pid and mt_switch_task.
Holding(A, Z) ==
  /\ me.pc \in {"find_tail", "link"} =>
       me.ptr \in A /\ me.new \in TCBs /\ tcb[me.new].next = NULL
  /\ me.pc = "link" => tcb[me.ptr].next = NULL
  /\ me.pc = "backlink" => me.new \in A \ {Idle} /\ me.ptr \in A /\ tcb[me.ptr].next = me.new
  /\ me.pc = "find_term" => me.ptr \in A \cup {NULL}
  /\ me.pc \in {"switch_save", "switch_load"} => me.ptr \in (A \cup Z) \ {terminated_tasks}
  /\ me.pc = "switch_load" => me.ptr = cur_task /\ tcb[cpu].esp.halts

\* A context that is not running stands outside every window; one that has
\* switched away for good will resume in its hlt loop.
Parked(c, esp) ==
  /\ c.frames = << >>
  /\ c.pc \notin Windows \cup {"destroy"} \/ (c.pc = "switch_load" /\ esp.halts)

\* Every context but the running one is parked.
Others == \A t \in TCBs \ {cpu} : Parked(ctx[t], tcb[t].esp)

\* Only the cleaner runs its code, the shell is no program, and nothing is TS_FIN.
Kinds == \A t \in TCBs : /\ ctx[t].pc \in {"clean", "destroy"} => t = Cleaner
                         /\ ctx[t].entry = "kshell" => ctx[t].pc # "user"
                         /\ tcb[t].state # "TS_FIN"

\* Stacks and tasks are paired, except between the two halves of a switch.
Stacks ==
  /\ me.pc # "switch_load" => cpu = cur_task
  /\ cpu \in allocated /\ cur_task \in allocated
  /\ interrupts = (me.pc # "destroy")
  /\ \A t \in allocated : (t = cur_task /\ me.pc # "switch_load") \/ tcb[t].esp.who = t

\* A task at the head of terminated_tasks that still runs is on its way out, or
\* it is the shell, which does not call sys_exit.
HeadExits ==
  cpu = terminated_tasks =>
    me.entry = "kshell" \/ me.pc \in {"pick", "switch_save", "switch_load", "hlt", "destroy"} \cup Terminations

\* The contexts, parked and running.
Contexts == Calls /\ Others /\ Kinds /\ Stacks /\ HeadExits

\* The lists and the contexts, between any two stores.
Sound(A, Z, r) == Shape(A, Z, r) /\ Moving(A, Z) /\ Holding(A, Z) /\ Contexts

\* There are two such lists.
Listed == \E A, Z \in SUBSET TCBs, r \in [TCBs -> Nat] : Sound(A, Z, r)

\* The inductive invariant: so it is until an interrupt tears a window.
ListInv == ~torn => Listed

\* The task that mt_push_task is about to append.
New == IF me.pc \in {"find_tail", "link"} THEN {me.new} ELSE {}

\* A step leads from a sound state with task list A to a sound one, and only
\* the new task joins the list.
Keeps(A) == \E A2, Z2 \in SUBSET TCBs, r2 \in [TCBs -> Nat] :
              A2 \subseteq A \cup New /\ Sound(A2, Z2, r2)'

----------------------------------------------------------------------------
(* Building blocks: what a step does to the running context.                *)

\* A step of the running context that keeps the processor.
OwnStep == cpu' = cpu /\ me'.entry = me.entry /\ \A t \in TCBs \ {cpu} : ctx'[t] = ctx[t]

\* Moving the program counter changes nothing else.
LEMMA GotoMe ==
  ASSUME TypeOK, NEW l, Goto(l), cpu' = cpu
  PROVE  /\ OwnStep /\ me'.pc = l /\ me'.ptr = me.ptr /\ me'.new = me.new
         /\ me'.frames = me.frames /\ depth' = depth /\ top' = top
  <1>1. OwnStep /\ me'.pc = l /\ me'.ptr = me.ptr /\ me'.new = me.new /\ me'.frames = me.frames
    BY ContextFields DEF Goto, OwnStep, me, TypeOK, Context
  <1> QED BY <1>1 DEF depth, top

\* So does moving it and keeping a pointer.
LEMMA GotoWithMe ==
  ASSUME TypeOK, NEW l, NEW p, GotoWith(l, p), cpu' = cpu
  PROVE  OwnStep /\ me'.pc = l /\ me'.ptr = p /\ me'.new = me.new /\ me'.frames = me.frames
  BY ContextFields DEF GotoWith, OwnStep, me, TypeOK, Context

\* A call of mt_task_terminate adds a frame.
LEMMA CallMe ==
  ASSUME TypeOK, NEW x \in TCBs, Call(x), cpu' = cpu, Len(me.frames) > 0 => top.i = x,
         me.frames # << >> => Nested(me.frames), x \in allocated, allocated' = allocated
  PROVE  /\ OwnStep /\ me'.pc = "unlink_prev" /\ top'.t = x
         /\ Nested(me.frames)'
  <1> DEFINE f == me.frames  e == [t |-> x, i |-> NULL]  g == Append(f, e)
  <1>1. f \in Seq(Frame) /\ e \in Frame
    BY ContextFields DEF me, TypeOK, Frame, Pointers
  <1>2. OwnStep /\ me'.pc = "unlink_prev" /\ me'.frames = g
    BY ContextFields DEF Call, OwnStep, me, TypeOK, Context
  <1> HIDE DEF e, f
  <1>3. /\ Len(f) \in Nat /\ Len(g) = Len(f) + 1
        /\ \A j \in 1..Len(f) : g[j] = f[j]
        /\ g[Len(f) + 1] = e
    BY <1>1
  <1>4. e.t = x
    BY DEF e
  <1> HIDE DEF g
  <1>5. top' = e
    BY <1>2, <1>3 DEF top, depth
  <1>6. \A j \in 1..Len(g) : g[j].t \in allocated
    <2> SUFFICES ASSUME NEW j \in 1..Len(g) PROVE g[j].t \in allocated
      OBVIOUS
    <2>1. CASE j \in 1..Len(f)
      <3>1. f # << >>
        BY <2>1, <1>1
      <3> QED BY <1>3, <2>1, <3>1 DEF Nested, f
    <2>2. CASE j = Len(f) + 1
      BY <1>3, <1>4, <2>2
    <2> QED BY <1>3, <2>1, <2>2
  <1>7. \A j \in 1..(Len(g) - 1) : g[j].i = g[j + 1].t
    <2> SUFFICES ASSUME NEW j \in 1..(Len(g) - 1) PROVE g[j].i = g[j + 1].t
      OBVIOUS
    <2>1. j \in 1..Len(f) /\ f # << >> /\ g[j] = f[j]
      BY <1>1, <1>3
    <2>2. CASE j = Len(f)
      BY <1>3, <1>4, <2>1, <2>2 DEF top, depth, f
    <2>3. CASE j # Len(f)
      <3>1. j \in 1..(Len(f) - 1) /\ j + 1 \in 1..Len(f)
        BY <1>3, <2>1, <2>3
      <3>2. f[j].i = f[j + 1].t
        BY <2>1, <3>1 DEF Nested, f
      <3> QED BY <1>3, <2>1, <3>1, <3>2
    <2> QED BY <2>2, <2>3
  <1>8. Len(g) > 0
    BY <1>3
  <1> QED BY <1>2, <1>4, <1>5, <1>6, <1>7, <1>8 DEF Nested

\* The loop of mt_task_terminate keeps its frames.
LEMMA ScanFromMe ==
  ASSUME TypeOK, NEW p \in Pointers, ScanFrom(p), cpu' = cpu, Nested(me.frames), allocated' = allocated
  PROVE  /\ OwnStep /\ me'.pc = "scan" /\ top'.t = top.t /\ top'.i = p
         /\ Nested(me.frames)'
  <1> DEFINE f == me.frames  g == [f EXCEPT ![Len(f)].i = p]
  <1>1. f \in Seq(Frame)
    BY ContextFields DEF me, TypeOK
  <1>2. OwnStep /\ me'.pc = "scan" /\ me'.frames = g
    BY ContextFields DEF ScanFrom, OwnStep, me, TypeOK, Context, depth
  <1>3. Len(f) \in Nat /\ Len(f) > 0
    BY <1>1 DEF Nested
  <1> HIDE DEF f
  <1>4. /\ Len(g) = Len(f)
        /\ \A j \in 1..Len(f) : g[j].t = f[j].t
        /\ \A j \in 1..(Len(f) - 1) : g[j] = f[j]
        /\ g[Len(f)].i = p
    BY <1>1, <1>3 DEF Frame
  <1> HIDE DEF g
  <1>5. top'.t = top.t /\ top'.i = p
    BY <1>2, <1>3, <1>4 DEF top, depth, f
  <1>6. \A j \in 1..Len(g) : g[j].t \in allocated
    BY <1>4 DEF Nested, f
  <1>7. \A j \in 1..(Len(g) - 1) : g[j].i = g[j + 1].t
    <2> SUFFICES ASSUME NEW j \in 1..(Len(g) - 1) PROVE g[j].i = g[j + 1].t
      OBVIOUS
    <2>1. j \in 1..(Len(f) - 1) /\ j + 1 \in 1..Len(f)
      BY <1>3, <1>4
    <2>2. f[j].i = f[j + 1].t
      BY <2>1 DEF Nested, f
    <2> QED BY <1>4, <2>1, <2>2
  <1> QED BY <1>2, <1>3, <1>4, <1>5, <1>6, <1>7 DEF Nested

\* Its return drops the frame; an outer loop goes on behind the task that the
\* call has terminated.
LEMMA TerminateReturnMe ==
  ASSUME TypeOK, TerminateReturn, cpu' = cpu, Nested(me.frames), allocated' = allocated
  PROVE  /\ OwnStep
         /\ \/ /\ me'.pc = IF me.entry = "kshell" THEN "prompt" ELSE "pick"
               /\ me'.frames = << >>
            \/ /\ me'.pc = "scan" /\ Nested(me.frames)'
               /\ top'.i = tcb[top.t].next
  <1> DEFINE f == me.frames  n == Len(f)  o == SubSeq(f, 1, n - 1)
  <1>1. f \in Seq(Frame)
    BY ContextFields DEF me, TypeOK
  <1>2. n \in Nat /\ n > 0
    BY <1>1 DEF Nested
  <1>3. o \in Seq(Frame) /\ Len(o) = n - 1 /\ \A j \in 1..(n - 1) : o[j] = f[j]
    BY <1>1, <1>2
  <1>4. CASE n = 1
    <2>1. o = << >>
      BY <1>3, <1>4
    <2>2. OwnStep /\ me'.pc = (IF me.entry = "kshell" THEN "prompt" ELSE "pick") /\ me'.frames = o
      BY <1>4, ContextFields DEF TerminateReturn, OwnStep, me, TypeOK, Context, depth
    <2> QED BY <2>1, <2>2
  <1>5. CASE n # 1
    <2> DEFINE g == [o EXCEPT ![n - 1].i = Load(@)]
    <2>1. OwnStep /\ me'.pc = "scan" /\ me'.frames = g
      <3>1. ctx' = [ctx EXCEPT ![cpu].pc = "scan", ![cpu].frames = g]
        BY <1>5 DEF TerminateReturn, depth
      <3> HIDE DEF g
      <3> QED BY <3>1, ContextFields DEF OwnStep, me, TypeOK, Context
    <2>2. n - 1 \in 1..(n - 1) /\ n \in 1..n
      <3> HIDE DEF n
      <3> QED BY <1>2, <1>5
    <2>3. f[n - 1].i = f[n].t /\ f[n].t \in TCBs /\ f[n] = top
      <3>1. (n - 1) + 1 = n
        <4> HIDE DEF n
        <4> QED BY <1>2
      <3>2. f[n].t \in TCBs
        <4>1. f[n] \in Frame
          BY <1>1, <2>2
        <4> QED BY <4>1 DEF Frame
      <3>3. f[n - 1].i = f[(n - 1) + 1].t
        BY <2>2 DEF Nested
      <3>4. f[n] = top
        BY DEF top, depth
      <3> HIDE DEF f, n
      <3> QED BY <3>1, <3>2, <3>3, <3>4
    <2>4. Load(f[n - 1].i) = tcb[top.t].next
      BY <2>3, BootAssumption DEF Load
    <2>5. o[n - 1] = f[n - 1]
      BY <1>3, <2>2
    <2> HIDE DEF o, f, n
    <2>6. /\ Len(g) = n - 1
          /\ \A j \in 1..(n - 1) : g[j].t = f[j].t
          /\ \A j \in 1..(n - 2) : g[j] = f[j]
          /\ g[n - 1].i = tcb[top.t].next
      BY <1>2, <1>3, <2>2, <2>4, <2>5 DEF Frame
    <2> HIDE DEF g
    <2>7. top'.i = tcb[top.t].next
      BY <2>1, <2>6 DEF top, depth
    <2>8. \A j \in 1..(n - 1) : g[j].t \in allocated
      BY <1>2, <2>6 DEF Nested, f, n
    <2>9. \A j \in 1..(n - 2) : g[j].i = g[j + 1].t
      <3> SUFFICES ASSUME NEW j \in 1..(n - 2) PROVE g[j].i = g[j + 1].t
        OBVIOUS
      <3>1. j \in 1..(n - 1) /\ j + 1 \in 1..(n - 1)
        BY <1>2
      <3>2. f[j].i = f[j + 1].t
        BY <3>1 DEF Nested, f, n
      <3> QED BY <2>6, <3>1, <3>2
    <2>10. Len(g) > 0 /\ (n - 1) - 1 = n - 2
      BY <1>2, <1>5, <2>6
    <2> QED BY <2>1, <2>6, <2>7, <2>8, <2>9, <2>10 DEF Nested
  <1> QED BY <1>4, <1>5

----------------------------------------------------------------------------
(* Building blocks: what a step leaves of the invariant.                    *)

\* A step that keeps the processor and the saved stacks keeps the contexts in
\* order, if it enters no line that is not its own.
LEMMA ContextsStep ==
  ASSUME TypeOK, Contexts, OwnStep, cur_task' = cur_task,
         me.pc # "switch_load", me'.pc # "switch_load",
         me'.pc = "user" => me.entry # "kshell",
         me'.pc \in {"clean", "destroy"} => me.pc \in {"clean", "destroy"},
         \A t \in TCBs : tcb'[t].esp = tcb[t].esp /\ tcb'[t].state # "TS_FIN",
         allocated' \subseteq allocated, cpu \in allocated',
         interrupts' = (me'.pc # "destroy"),
         cpu = terminated_tasks' => me.entry = "kshell" \/
           me'.pc \in {"pick", "switch_save", "switch_load", "hlt", "destroy"} \cup Terminations,
         Calls'
  PROVE  Contexts'
  <1>1. cpu' = cpu /\ cpu \in TCBs /\ me = ctx[cpu] /\ me' = ctx'[cpu] /\ me'.entry = me.entry
    BY Running DEF OwnStep, me
  <1>2. Others'
    BY <1>1 DEF Contexts, Others, OwnStep
  <1>3. Kinds'
    <2> SUFFICES ASSUME NEW t \in TCBs
                 PROVE  /\ ctx'[t].pc \in {"clean", "destroy"} => t = Cleaner
                        /\ ctx'[t].entry = "kshell" => ctx'[t].pc # "user"
                        /\ tcb'[t].state # "TS_FIN"
      BY DEF Kinds
    <2>1. CASE t = cpu
      BY <1>1, <2>1 DEF Contexts, Kinds
    <2>2. CASE t # cpu
      BY <2>2 DEF Contexts, Kinds, OwnStep
    <2> QED BY <2>1, <2>2
  <1>4. Stacks'
    <2>1. cpu = cur_task /\ \A t \in allocated : t = cur_task \/ tcb[t].esp.who = t
      BY DEF Contexts, Stacks
    <2>2. \A t \in allocated' : t = cur_task' \/ tcb'[t].esp.who = t
      BY <2>1 DEF TypeOK
    <2> QED BY <1>1, <2>1, <2>2 DEF Stacks
  <1>5. HeadExits'
    BY <1>1 DEF HeadExits
  <1> QED BY <1>2, <1>3, <1>4, <1>5 DEF Contexts

\* The links the chains are about are those in the TCBs.
LEMMA LinksOf ==
  ASSUME NEW t \in TCBs
  PROVE  NextOf[t] = tcb[t].next /\ NextOf'[t] = tcb'[t].next
  BY DEF NextOf

\* A step that changes no link of a listed task keeps the lists.
LEMMA ShapeStep ==
  ASSUME NEW A \in SUBSET TCBs, NEW Z \in SUBSET TCBs, NEW r, Shape(A, Z, r),
         allocated' = allocated, Out' = Out, ZHead' = ZHead,
         \A t \in A \cup Z : tcb'[t].next = tcb[t].next,
         \A t \in (A \cup Z) \ {Idle, ZHead} : PrevOf'[t] = PrevOf[t]
  PROVE  Shape(A, Z, r)'
  <1>1. \A t \in A \cup Z : NextOf'[t] = NextOf[t]
    BY LinksOf
  <1>2. Idle \notin Z /\ ZHead \notin A
    <2>1. Idle \in A /\ ZHead \in Z \cup {NULL} /\ A \cap Z = {} /\ NULL \notin A
      BY BootAssumption DEF Shape, Chain
    <2> QED BY <2>1
  <1>3. Chain(A, Idle, NextOf, PrevOf, r)'
    BY <1>1, <1>2, ChainSame DEF Shape
  <1>4. Chain(Z, ZHead, NextOf, PrevOf, r)'
    <2>1. Chain(Z, ZHead, NextOf', PrevOf', r)
      BY <1>1, <1>2, ChainSame DEF Shape
    <2> QED BY <2>1
  <1> QED BY <1>3, <1>4 DEF Shape

\* The next of a listed task is on the same list, and never its head.
LEMMA NextInside ==
  ASSUME NEW A \in SUBSET TCBs, NEW Z \in SUBSET TCBs, NEW r, Shape(A, Z, r),
         NEW x \in A \cup Z
  PROVE  /\ tcb[x].next \in ((A \cup Z) \ {ZHead, Idle}) \cup {NULL}
         /\ x \in A => tcb[x].next \in A \cup {NULL}
  <1>1. NULL \notin A /\ NULL \notin Z /\ A \cap Z = {} /\ Idle \in A /\ ZHead \in Z \cup {NULL}
    BY BootAssumption DEF Shape, Chain
  <1>2. tcb[x].next = NextOf[x]
    BY LinksOf
  <1>3. CASE x \in A
    BY <1>1, <1>2, <1>3 DEF Shape, Chain
  <1>4. CASE x \in Z
    BY <1>1, <1>2, <1>4 DEF Shape, Chain
  <1> QED BY <1>3, <1>4

\* Idle heads the task list and is not on the other.
LEMMA Heads ==
  ASSUME NEW A \in SUBSET TCBs, NEW Z \in SUBSET TCBs, NEW r, Shape(A, Z, r)
  PROVE  /\ Idle \in A \ Z /\ NULL \notin A \cup Z /\ ZHead \notin A
         /\ ZHead \in Z \cup {NULL} /\ (ZHead = NULL => Z = {})
         /\ Idle \in allocated /\ Cleaner \in A \ Z
  BY BootAssumption DEF Shape, Chain

\* mt_pick_next_task follows next once, or starts over at kernel_idle.
LEMMA PickInside ==
  ASSUME TypeOK, Kinds, NEW A \in SUBSET TCBs, NEW Z \in SUBSET TCBs, NEW r, Shape(A, Z, r),
         cur_task \in A \cup Z
  PROVE  mt_pick_next_task \in (A \cup Z) \ {ZHead}
  <1>1. {t \in TCBs : tcb[t].state # "TS_FIN"} = TCBs
    BY DEF Kinds
  <1>2. tcb[cur_task].next \in Pointers
    BY TaskFields
  <1>3. First(tcb[cur_task].next, TCBs) = tcb[cur_task].next
    BY <1>2, FirstOfAll
  <1>4. mt_pick_next_task = IF tcb[cur_task].next = NULL THEN Idle ELSE tcb[cur_task].next
    BY <1>1, <1>3 DEF mt_pick_next_task, tasks
  <1> QED BY <1>4, NextInside, Heads

\* mt_schedule touches no link, no pid and no saved stack.
LEMMA RescheduledLinks ==
  ASSUME TypeOK, Kinds, NEW n \in TCBs
  PROVE  \A u \in TCBs :
           /\ Rescheduled(n)[u].next = tcb[u].next /\ Rescheduled(n)[u].prev = tcb[u].prev
           /\ Rescheduled(n)[u].pid = tcb[u].pid /\ Rescheduled(n)[u].esp = tcb[u].esp
           /\ Rescheduled(n)[u].state # "TS_FIN"
  <1> DEFINE refilled == [tcb EXCEPT ![cur_task].remaining = DEFAULT_TIME_SLICE]
             started == [refilled EXCEPT ![n].state = "TS_RUN"]
             swapped == [started EXCEPT ![cur_task].state = IF @ = "TS_FIN" THEN @ ELSE "TS_SUS"]
             Same(f, g) == \A u \in TCBs : /\ f[u].next = g[u].next /\ f[u].prev = g[u].prev
                                           /\ f[u].pid = g[u].pid /\ f[u].esp = g[u].esp
             Alive(f) == \A u \in TCBs : f[u].state # "TS_FIN"
  <1>1. tcb \in [TCBs -> Task] /\ Alive(tcb)
    BY DEF TypeOK, Kinds
  <1>2. Same(refilled, tcb) /\ Alive(refilled)
    BY <1>1 DEF Task
  <1>3. Same(started, refilled) /\ Alive(started)
    BY <1>1, SMTT(30) DEF Task
  <1>6. started \in [TCBs -> Task] /\ cur_task \in TCBs
    <2>1. cur_task \in TCBs
      BY DEF TypeOK
    <2>2. [tcb[cur_task] EXCEPT !.remaining = DEFAULT_TIME_SLICE] \in Task
      BY <1>1, <2>1, NumberAssumption DEF Task
    <2>3. refilled \in [TCBs -> Task]
      BY <1>1, <2>2
    <2>4. [refilled[n] EXCEPT !.state = "TS_RUN"] \in Task
      BY <2>3 DEF Task, States
    <2> QED BY <2>1, <2>3, <2>4
  <1>4. Same(swapped, started) /\ Alive(swapped)
    <2> HIDE DEF started
    <2>1. swapped = [started EXCEPT ![cur_task].state = "TS_SUS"]
      BY <1>3, <1>6
    <2> HIDE DEF swapped
    <2> QED BY <1>3, <1>6, <2>1 DEF Task
  <1>5. Rescheduled(n) = swapped
    BY DEF Rescheduled
  <1> HIDE DEF refilled, started, swapped
  <1> QED BY <1>2, <1>3, <1>4, <1>5

\* The lines at which the running context is in the middle of nothing.
Resting == {"hlt", "kmain", "clean", "prompt", "user", "gen_pid", "inc_pid", "create",
            "set_fg", "wait", "reset_fg", "pick"}

\* At such a line nothing is between the lists and no link is pending.
LEMMA AtRest ==
  ASSUME me.pc \in Resting
  PROVE  /\ Out = {} /\ ZHead = terminated_tasks
         /\ \A t \in TCBs : PrevOf[t] = tcb[t].prev
         /\ me.pc \notin Terminations
  BY DEF Resting, Out, ZHead, PrevOf, Unlinking, Terminations

\* A step from rest to rest that touches no list keeps the invariant.
LEMMA QuietStep ==
  ASSUME TypeOK, NEW A \in SUBSET TCBs, NEW Z \in SUBSET TCBs, NEW r \in [TCBs -> Nat], Sound(A, Z, r),
         OwnStep, UNCHANGED <<lists, cur_task, interrupts>>, me'.frames = me.frames,
         me.pc \in Resting \ {"pick", "hlt", "clean"}, me'.pc \in Resting \ {"clean", "pick"},
         me'.pc = "user" => me.entry # "kshell"
  PROVE  Sound(A, Z, r)'
  <1>1. (Out = {})' /\ (ZHead = terminated_tasks)' /\ (\A t \in TCBs : PrevOf[t] = tcb[t].prev)'
        /\ (me.pc \notin Terminations)'
    BY AtRest DEF Resting, Out, ZHead, PrevOf, Unlinking, Terminations
  <1>2. Shape(A, Z, r)'
    BY <1>1, AtRest, ShapeStep DEF Sound, lists
  <1>3. Moving(A, Z)' /\ Holding(A, Z)'
    BY DEF Resting, Moving, Holding, Unlinking
  <1>4. Calls'
    BY <1>1, AtRest DEF Sound, Contexts, Calls
  <1>5. \A t \in TCBs : tcb'[t].esp = tcb[t].esp /\ tcb'[t].state # "TS_FIN"
    BY DEF lists, Sound, Contexts, Kinds
  <1>6. cpu = terminated_tasks' => me.entry = "kshell"
    BY DEF lists, Sound, Contexts, HeadExits, Resting, Terminations, Unlinking
  <1>7. interrupts' = (me'.pc # "destroy") /\ cpu \in allocated' /\ allocated' \subseteq allocated
    BY DEF Resting, Sound, Contexts, Stacks, lists
  <1>8. Contexts'
    BY <1>4, <1>5, <1>6, <1>7, ContextsStep DEF Sound, Resting
  <1> QED BY <1>2, <1>3, <1>8 DEF Sound

----------------------------------------------------------------------------
(* The actions, one lemma each.                                             *)

\* A system call returns to a line at rest.
LEMMA ReturnRest == Return \in Resting \ {"clean", "pick"} /\ (Return = "user" => me.entry # "kshell")
  BY DEF Return, Resting

\* The steps that only read the lists: pids, waiting, and the start of a spawn.
LEMMA QuietActions ==
  ASSUME TypeOK, NEW A \in SUBSET TCBs, NEW Z \in SUBSET TCBs, NEW r \in [TCBs -> Nat], Sound(A, Z, r),
         \/ Spawn \/ gen_pid \/ inc_pid \/ sys_wait \/ wait_set_fg \/ wait_poll \/ wait_reset_fg
         \/ Hop /\ me.pc # "find_term"
         \/ ktask_create /\ Goto(Return) /\ UNCHANGED <<tcb, allocated>>
  PROVE  Sound(A, Z, r)'
  <1>1. CASE Spawn
    <2>1. OwnStep /\ me'.pc = "gen_pid" /\ me'.frames = me.frames
      BY <1>1, GotoMe DEF Spawn
    <2> QED BY <1>1, <2>1, QuietStep DEF Spawn, At, Resting
  <1>2. CASE gen_pid
    <2>1. OwnStep /\ me'.pc = "inc_pid" /\ me'.frames = me.frames
      BY <1>2, ContextFields DEF gen_pid, OwnStep, me, TypeOK, Context
    <2> QED BY <1>2, <2>1, QuietStep DEF gen_pid, At, Resting
  <1>3. CASE inc_pid
    <2>1. OwnStep /\ me'.pc = "create" /\ me'.frames = me.frames
      BY <1>3, GotoMe DEF inc_pid
    <2> QED BY <1>3, <2>1, QuietStep DEF inc_pid, At, Resting
  <1>4. CASE sys_wait
    <2>1. OwnStep /\ me'.pc = "set_fg" /\ me'.frames = me.frames
      BY <1>4, GotoWithMe DEF sys_wait
    <2> QED BY <1>4, <2>1, QuietStep DEF sys_wait, At, Resting
  <1>5. CASE wait_set_fg
    <2>1. OwnStep /\ me'.pc = "wait" /\ me'.frames = me.frames
      BY <1>5, GotoWithMe DEF wait_set_fg
    <2> QED BY <1>5, <2>1, QuietStep DEF wait_set_fg, At, Resting
  <1>6. CASE wait_poll
    <2>1. OwnStep /\ me'.pc \in {"wait", "reset_fg"} /\ me'.frames = me.frames
      BY <1>6, GotoMe, GotoWithMe DEF wait_poll
    <2> QED BY <1>6, <2>1, QuietStep DEF wait_poll, At, Resting
  <1>7. CASE wait_reset_fg
    <2>1. OwnStep /\ me'.pc = Return /\ me'.frames = me.frames
      BY <1>7, GotoMe DEF wait_reset_fg
    <2> QED BY <1>7, <2>1, QuietStep, ReturnRest DEF wait_reset_fg, At, Resting
  <1>8. CASE Hop /\ me.pc # "find_term"
    <2>1. OwnStep /\ me'.pc = me.pc /\ me'.frames = me.frames
      BY <1>8, GotoWithMe DEF Hop
    <2> QED BY <1>8, <2>1, QuietStep DEF Hop, At, Resting
  <1>9. CASE ktask_create /\ Goto(Return) /\ UNCHANGED <<tcb, allocated>>
    <2>1. OwnStep /\ me'.pc = Return /\ me'.frames = me.frames
      BY <1>9, GotoMe DEF ktask_create
    <2>2. me.pc = "create" /\ UNCHANGED <<lists, cur_task, interrupts>>
      BY <1>9 DEF ktask_create, At, lists
    <2> QED BY <2>1, <2>2, QuietStep, ReturnRest DEF Resting
  <1> QED BY <1>1, <1>2, <1>3, <1>4, <1>5, <1>6, <1>7, <1>8, <1>9

\* mt_push_task walks the list: it holds a task of the list and reads its next.
LEMMA FindTailSound ==
  ASSUME TypeOK, NEW A \in SUBSET TCBs, NEW Z \in SUBSET TCBs, NEW r \in [TCBs -> Nat], Sound(A, Z, r),
         mt_push_task_find
  PROVE  Sound(A, Z, r)'
  <1> DEFINE n == tcb[me.ptr].next
  <1>1. me.pc = "find_tail" /\ UNCHANGED <<lists, cur_task, cpu, interrupts>>
    BY DEF mt_push_task_find, Using, At
  <1>2. me.ptr \in A /\ me.new \in TCBs /\ tcb[me.new].next = NULL
    BY <1>1 DEF Sound, Holding
  <1>3. /\ OwnStep /\ me'.new = me.new /\ me'.frames = me.frames
        /\ \/ n = NULL /\ me'.pc = "link" /\ me'.ptr = me.ptr
           \/ n # NULL /\ me'.pc = "find_tail" /\ me'.ptr = n
    <2>1. CASE n = NULL
      BY <1>1, <2>1, GotoMe DEF mt_push_task_find
    <2>2. CASE n # NULL
      BY <1>1, <2>2, GotoWithMe DEF mt_push_task_find
    <2> QED BY <2>1, <2>2
  <1>4. n \in A \cup {NULL}
    BY <1>2, NextInside DEF Sound
  <1>5. Shape(A, Z, r)'
    <2>1. Out' = Out /\ ZHead' = ZHead /\ \A t \in TCBs : PrevOf'[t] = PrevOf[t]
      BY <1>1, <1>3 DEF Out, ZHead, PrevOf, Unlinking, lists
    <2> QED BY <1>1, <2>1, ShapeStep DEF Sound, lists
  <1>6. Holding(A, Z)'
    BY <1>1, <1>2, <1>3, <1>4 DEF Holding, lists
  <1>7. Moving(A, Z)'
    BY <1>1, <1>3 DEF Moving, Unlinking
  <1>8. Calls'
    BY <1>1, <1>3 DEF Calls, Sound, Contexts, Terminations, Unlinking
  <1>9. Contexts'
    <2>1. \A t \in TCBs : tcb'[t].esp = tcb[t].esp /\ tcb'[t].state # "TS_FIN"
      BY <1>1 DEF lists, Sound, Contexts, Kinds
    <2>2. cpu = terminated_tasks' => me.entry = "kshell"
      BY <1>1 DEF lists, Sound, Contexts, HeadExits, Terminations, Unlinking
    <2>3. interrupts' = (me'.pc # "destroy") /\ cpu \in allocated' /\ allocated' \subseteq allocated
      BY <1>1, <1>3 DEF Sound, Contexts, Stacks, lists
    <2> QED BY <1>1, <1>3, <1>8, <2>1, <2>2, <2>3, ContextsStep DEF Sound
  <1> QED BY <1>5, <1>6, <1>7, <1>9 DEF Sound

\* The contexts stay in order over a step that neither switches nor frees.
LEMMA ContextsKeep ==
  ASSUME TypeOK, Contexts, OwnStep, UNCHANGED <<allocated, terminated_tasks, cur_task, interrupts>>,
         \A t \in TCBs : tcb'[t].esp = tcb[t].esp /\ tcb'[t].state = tcb[t].state,
         me.pc \notin {"switch_load", "destroy"},
         me'.pc \notin {"switch_load", "destroy", "clean", "user"},
         \/ me'.pc \in Terminations \cup {"pick"} \/ me.entry = "kshell"
         \/ me.pc \notin {"pick", "switch_save", "hlt"} \cup Terminations,
         Calls'
  PROVE  Contexts'
  <1>1. \A t \in TCBs : tcb'[t].esp = tcb[t].esp /\ tcb'[t].state # "TS_FIN"
    BY DEF Contexts, Kinds
  <1>2. cpu = terminated_tasks' => me.entry = "kshell" \/
           me'.pc \in {"pick", "switch_save", "switch_load", "hlt", "destroy"} \cup Terminations
    BY DEF Contexts, HeadExits
  <1>3. interrupts' = (me'.pc # "destroy") /\ cpu \in allocated' /\ allocated' \subseteq allocated
    BY DEF Contexts, Stacks
  <1> QED BY <1>1, <1>2, <1>3, ContextsStep

\* The contexts ktask_create leaves: a prepared one for the new task, the creator in mt_push_task.
Handed(t, e, l) == [ctx EXCEPT ![t] = NewContext(e, l), ![cpu].new = t, ![cpu].ptr = tasks,
                               ![cpu].pc = "find_tail"]

\* ktask_create prepares the context of the new task and hands it to mt_push_task.
LEMMA CreatedContexts ==
  ASSUME TypeOK, NEW t \in TCBs, cpu # t, cpu' = cpu, NEW e \in Entries, NEW l \in Labels,
         ctx' = Handed(t, e, l)
  PROVE  /\ me'.entry = me.entry /\ me'.pc = "find_tail" /\ me'.new = t
         /\ me'.ptr = Idle /\ me'.frames = me.frames
         /\ me' = ctx'[cpu] /\ ctx'[t] = NewContext(e, l)
         /\ \A u \in TCBs \ {cpu, t} : ctx'[u] = ctx[u]
  <1> DEFINE f == [ctx EXCEPT ![t] = NewContext(e, l)]
  <1>1. f \in [TCBs -> Context] /\ cpu \in TCBs
    BY NewContextType DEF TypeOK
  <1>2. f[cpu] = me /\ f[t] = NewContext(e, l) /\ \A u \in TCBs \ {cpu, t} : f[u] = ctx[u]
    BY DEF TypeOK, me
  <1>3. ctx' = [f EXCEPT ![cpu].new = t, ![cpu].ptr = tasks, ![cpu].pc = "find_tail"]
    BY DEF Handed
  <1> HIDE DEF f
  <1>4. ctx' = [f EXCEPT ![cpu] = [f[cpu] EXCEPT !.new = t, !.ptr = tasks, !.pc = "find_tail"]]
    BY <1>1, <1>3
  <1>5. ctx'[cpu] = [me EXCEPT !.new = t, !.ptr = tasks, !.pc = "find_tail"] /\ me' = ctx'[cpu]
    BY <1>1, <1>2, <1>4 DEF me
  <1>6. me \in Context
    BY Running
  <1>7. /\ me'.entry = me.entry /\ me'.pc = "find_tail" /\ me'.new = t
        /\ me'.ptr = Idle /\ me'.frames = me.frames
    BY <1>5, <1>6 DEF Context, tasks
  <1> QED BY <1>1, <1>2, <1>4, <1>5, <1>7

\* ktask_create: the new task is on no list yet.
LEMMA CreateSound ==
  ASSUME TypeOK, IdleInv, NEW A \in SUBSET TCBs, NEW Z \in SUBSET TCBs, NEW r \in [TCBs -> Nat], Sound(A, Z, r),
         ktask_create
  PROVE  Sound(A, Z, r)'
  <1>1. CASE Goto(Return) /\ UNCHANGED <<tcb, allocated>>
    BY <1>1, QuietActions
  <1>2. CASE ~(Goto(Return) /\ UNCHANGED <<tcb, allocated>>)
    <2> DEFINE e == IF me.entry = "ker_idle" THEN "kshell" ELSE "utask_exec"
               l == IF e = "kshell" THEN "prompt" ELSE "user"
               N(t) == [NewTask(me.pid, Parent, t) EXCEPT !.prev = tcb[t].prev]
    <2>1. PICK t \in TCBs \ allocated :
            /\ allocated' = allocated \cup {t}
            /\ tcb' = [tcb EXCEPT ![t] = N(t)]
            /\ ctx' = [ctx EXCEPT ![t] = NewContext(e, l),
                                  ![cpu].new = t, ![cpu].ptr = tasks,
                                  ![cpu].pc = "find_tail"]
      BY <1>2 DEF ktask_create
    <2>2. me.pc = "create" /\ UNCHANGED <<terminated_tasks, cur_task, cpu, interrupts>>
      BY DEF ktask_create, At
    <2>3. /\ N(t).next = NULL /\ N(t).state = "TS_RDY"
          /\ N(t).esp.who = t /\ N(t).esp.halts = FALSE
      BY DEF NewTask
    <2>4. NewContext(e, l).pc = l /\ NewContext(e, l).entry = e /\ NewContext(e, l).frames = << >>
      BY DEF NewContext
    <2>5. (l = "prompt" /\ e = "kshell") \/ (l = "user" /\ e = "utask_exec")
      OBVIOUS
    <2> HIDE DEF N, e, l
    <2>6. cpu \in TCBs /\ cpu \in allocated /\ cpu # t /\ cpu = cur_task /\ Idle \in A /\ t \notin A \cup Z
      <3>1. Out = {} /\ allocated = A \cup Z
        BY <2>2, AtRest DEF Resting, Sound, Shape
      <3> QED BY <2>2, <2>1, <3>1, Heads DEF TypeOK, Sound, Contexts, Stacks
    <2>7. /\ cpu' = cpu /\ me'.entry = me.entry /\ me'.pc = "find_tail" /\ me'.new = t
          /\ me'.ptr = Idle /\ me'.frames = me.frames
          /\ ctx'[t] = NewContext(e, l)
          /\ \A u \in TCBs \ {cpu, t} : ctx'[u] = ctx[u]
      <3>1. e \in Entries /\ l \in Labels
        BY <2>5 DEF Entries, Labels
      <3>2. ctx' = Handed(t, e, l)
        BY <2>1 DEF Handed
      <3>3. t \in TCBs /\ cpu # t /\ cpu' = cpu
        BY <2>1, <2>2, <2>6
      <3> QED BY <3>1, <3>2, <3>3, CreatedContexts
    <2>8. \A u \in TCBs \ {t} : tcb'[u] = tcb[u]
      BY <2>1 DEF TypeOK
    <2>9. tcb'[t] = N(t)
      BY <2>1 DEF TypeOK
    <2>10. Out' = {t} /\ ZHead' = ZHead /\ Out = {}
           /\ \A u \in A \cup Z : PrevOf'[u] = PrevOf[u] /\ NextOf'[u] = NextOf[u]
      <3>1. \A u \in A \cup Z : tcb'[u] = tcb[u]
        BY <2>6, <2>8
      <3>2. Out' = {t} /\ Out = {} /\ ZHead' = ZHead
        BY <2>2, <2>7 DEF Out, ZHead, Unlinking
      <3>3. \A u \in TCBs : PrevOf[u] = tcb[u].prev /\ PrevOf'[u] = tcb'[u].prev
        BY <2>2, <2>7 DEF PrevOf
      <3> QED BY <3>1, <3>2, <3>3, LinksOf
    <2>11. Shape(A, Z, r)'
      <3>1. Chain(A, Idle, NextOf, PrevOf, r)'
        BY <2>10, ChainSame DEF Sound, Shape
      <3>2. Chain(Z, ZHead, NextOf', PrevOf', r)
        BY <2>10, ChainSame DEF Sound, Shape
      <3>3. Chain(Z, ZHead, NextOf, PrevOf, r)'
        BY <3>2, <2>10
      <3> QED BY <2>1, <2>6, <2>10, <3>1, <3>3 DEF Sound, Shape
    <2>12. Moving(A, Z)'
      BY <2>7 DEF Moving, Unlinking
    <2>13. Holding(A, Z)'
      BY <2>3, <2>6, <2>7, <2>9 DEF Holding
    <2>14. Calls'
      BY <2>2, <2>7 DEF Sound, Contexts, Calls, Terminations, Unlinking
    <2>15. Others'
      <3> SUFFICES ASSUME NEW u \in TCBs \ {cpu} PROVE Parked(ctx'[u], tcb'[u].esp)
        BY <2>7 DEF Others
      <3>1. CASE u = t
        BY <2>4, <2>5, <2>7, <3>1 DEF Parked, Windows
      <3>2. CASE u # t
        BY <2>7, <2>8, <3>2 DEF Sound, Contexts, Others
      <3> QED BY <3>1, <3>2
    <2>16. Kinds'
      <3> SUFFICES ASSUME NEW u \in TCBs
                   PROVE  /\ ctx'[u].pc \in {"clean", "destroy"} => u = Cleaner
                          /\ ctx'[u].entry = "kshell" => ctx'[u].pc # "user"
                          /\ tcb'[u].state # "TS_FIN"
        BY DEF Kinds
      <3>1. CASE u = t
        BY <2>3, <2>4, <2>5, <2>7, <2>9, <3>1
      <3>2. CASE u = cpu
        BY <2>6, <2>7, <2>8, <3>2 DEF Sound, Contexts, Kinds, me
      <3>3. CASE u # t /\ u # cpu
        BY <2>7, <2>8, <3>3 DEF Sound, Contexts, Kinds
      <3> QED BY <3>1, <3>2, <3>3
    <2>17. Stacks'
      <3>1. \A u \in allocated : u = cur_task \/ tcb[u].esp.who = u
        BY DEF Sound, Contexts, Stacks
      <3>2. \A u \in allocated' : u = cur_task' \/ tcb'[u].esp.who = u
        BY <2>1, <2>2, <2>3, <2>8, <2>9, <3>1 DEF TypeOK
      <3>3. interrupts' = (me'.pc # "destroy")
        BY <2>2, <2>7 DEF Sound, Contexts, Stacks
      <3> QED BY <2>1, <2>2, <2>6, <2>7, <3>2, <3>3 DEF Stacks
    <2>18. HeadExits'
      BY <2>2, <2>7 DEF Sound, Contexts, HeadExits, Terminations, Unlinking
    <2> QED BY <2>11, <2>12, <2>13, <2>14, <2>15, <2>16, <2>17, <2>18 DEF Sound, Contexts
  <1> QED BY <1>1, <1>2

\* mt_push_task links the new task: from here on it is on the list.
LEMMA LinkSound ==
  ASSUME TypeOK, IdleInv, NEW A \in SUBSET TCBs, NEW Z \in SUBSET TCBs, NEW r \in [TCBs -> Nat], Sound(A, Z, r),
         mt_push_task_link
  PROVE  Keeps(A)
  <1> PICK x : x = me.new
    OBVIOUS
  <1> PICK p : p = me.ptr
    OBVIOUS
  <1> DEFINE A2 == A \cup {x}  r2 == [r EXCEPT ![x] = r[p] + 1]
  <1>1. /\ me.pc = "link" /\ UNCHANGED <<allocated, terminated_tasks, cur_task, cpu, interrupts>>
        /\ tcb' = [tcb EXCEPT ![p].next = x] /\ Goto("backlink")
    BY DEF mt_push_task_link, Using, At
  <1>2. p \in A /\ x \in TCBs /\ tcb[x].next = NULL /\ tcb[p].next = NULL
    BY <1>1 DEF Sound, Holding
  <1>3. OwnStep /\ me'.pc = "backlink" /\ me'.ptr = p /\ me'.new = x /\ me'.frames = me.frames
    BY <1>1, GotoMe
  <1>4. Out = {x} /\ Out' = {} /\ ZHead' = ZHead /\ ZHead = terminated_tasks
    BY <1>1, <1>3 DEF Out, ZHead, Unlinking
  <1>5. x \notin A \cup Z /\ x # Idle /\ A \cap Z = {} /\ p \notin Z /\ p # x
    <2>1. x \notin A \cup Z /\ A \cap Z = {}
      BY <1>4 DEF Sound, Shape
    <2> QED BY <1>2, <2>1, Heads DEF Sound
  <1>6. /\ \A t \in TCBs \ {p} : tcb'[t] = tcb[t]
        /\ tcb'[p].next = x /\ tcb'[p].prev = tcb[p].prev
        /\ tcb'[p].esp = tcb[p].esp /\ tcb'[p].state = tcb[p].state
    BY <1>1, <1>2, TaskFields DEF TypeOK, Task
  <1>7. \A t \in TCBs : NextOf'[t] = (IF t = p THEN x ELSE NextOf[t])
                     /\ PrevOf'[t] = (IF t = x THEN p ELSE PrevOf[t])
    <2> SUFFICES ASSUME NEW t \in TCBs
                 PROVE  /\ NextOf'[t] = (IF t = p THEN x ELSE NextOf[t])
                        /\ PrevOf'[t] = (IF t = x THEN p ELSE PrevOf[t])
      OBVIOUS
    <2>1. NextOf'[t] = (IF t = p THEN x ELSE NextOf[t])
      BY <1>6, LinksOf
    <2>2. PrevOf[t] = tcb[t].prev
      BY <1>1 DEF PrevOf
    <2>3. PrevOf'[t] = IF t = x THEN p ELSE tcb'[t].prev
      BY <1>3 DEF PrevOf
    <2>4. tcb'[t].prev = tcb[t].prev
      BY <1>6
    <2> QED BY <2>1, <2>2, <2>3, <2>4
  <1>8. A2 \in SUBSET TCBs /\ r2 \in [TCBs -> Nat]
    BY <1>2
  <1>9. Chain(A2, Idle, NextOf', PrevOf', r2)
    <2>1. NextOf[p] = NULL /\ NextOf[x] = NULL /\ x \in TCBs \ A
      BY <1>2, <1>5, LinksOf
    <2>2. NextOf'[x] = NULL /\ \A t \in A : NextOf'[t] = IF t = PrevOf'[x] THEN x ELSE NextOf[t]
      BY <1>2, <1>5, <1>7, <2>1
    <2>3. PrevOf'[x] = p /\ p \in A /\ \A t \in A \ {Idle} : PrevOf'[t] = PrevOf[t]
      BY <1>2, <1>5, <1>7
    <2>4. Chain(A, Idle, NextOf, PrevOf, r)
      BY DEF Sound, Shape
    <2>5. r2[x] = r[PrevOf'[x]] + 1 /\ \A t \in A : r2[t] = r[t]
      BY <1>2, <1>5, <2>3
    <2>6. x \in TCBs \ A /\ PrevOf'[x] \in A /\ NextOf[PrevOf'[x]] = NULL
      BY <2>1, <2>3
    <2> HIDE DEF r2
    <2> QED BY <1>2, <2>1, <2>2, <2>3, <2>4, <2>5, <2>6, ChainAppend
  <1>10. Chain(Z, ZHead, NextOf', PrevOf', r2)
    <2>1. \A t \in Z : NextOf'[t] = NextOf[t] /\ PrevOf'[t] = PrevOf[t] /\ r2[t] = r[t]
      BY <1>2, <1>5, <1>7
    <2> HIDE DEF r2
    <2> QED BY <2>1, ChainSame DEF Sound, Shape
  <1> HIDE DEF r2
  <1>11. Shape(A2, Z, r2)'
    BY <1>1, <1>4, <1>5, <1>9, <1>10 DEF Sound, Shape
  <1>12. Moving(A2, Z)'
    BY <1>3 DEF Moving, Unlinking
  <1>13. Holding(A2, Z)'
    BY <1>2, <1>3, <1>5, <1>6 DEF Holding
  <1>14. Calls'
    BY <1>1, <1>3 DEF Sound, Contexts, Calls, Terminations, Unlinking
  <1>15. Contexts'
    <2>1. \A t \in TCBs : tcb'[t].esp = tcb[t].esp /\ tcb'[t].state = tcb[t].state
      BY <1>6
    <2> QED BY <1>1, <1>3, <1>14, <2>1, ContextsKeep DEF Sound, Terminations, Unlinking
  <1>16. A2 \subseteq A \cup New
    BY <1>1 DEF New
  <1> HIDE DEF A2
  <1>17. Sound(A2, Z, r2)'
    BY <1>11, <1>12, <1>13, <1>15 DEF Sound
  <1> QED BY <1>8, <1>16, <1>17 DEF Keeps

\* The last store of mt_push_task writes the prev link the list already counts on.
LEMMA BacklinkSound ==
  ASSUME TypeOK, IdleInv, NEW A \in SUBSET TCBs, NEW Z \in SUBSET TCBs, NEW r \in [TCBs -> Nat], Sound(A, Z, r),
         mt_push_task_backlink
  PROVE  Sound(A, Z, r)'
  <1> DEFINE x == me.new  p == me.ptr
             l == IF me.entry = "kshell" THEN "set_fg" ELSE Return
  <1>1. /\ me.pc = "backlink" /\ UNCHANGED <<allocated, terminated_tasks, cur_task, cpu, interrupts>>
        /\ tcb' = [tcb EXCEPT ![x].prev = p]
        /\ ctx' = [ctx EXCEPT ![cpu].pc = l, ![cpu].pid = tcb[x].pid, ![cpu].ptr = tasks]
    BY DEF mt_push_task_backlink, Using, At
  <1>2. p \in A /\ x \in A
    BY <1>1 DEF Sound, Holding
  <1>3. l \in Resting \ {"clean", "pick"} /\ (l = "user" => me.entry # "kshell")
    BY ReturnRest DEF Resting
  <1> HIDE DEF l
  <1>4. OwnStep /\ me'.pc = l /\ me'.frames = me.frames
    BY <1>1, ContextFields DEF OwnStep, me, TypeOK, Context
  <1>5. /\ \A t \in TCBs : tcb'[t].prev = IF t = x THEN p ELSE tcb[t].prev
        /\ \A t \in TCBs : /\ tcb'[t].next = tcb[t].next
                           /\ tcb'[t].esp = tcb[t].esp /\ tcb'[t].state = tcb[t].state
    BY <1>1, <1>2, TaskFields DEF TypeOK, Task
  <1>6. Out = {} /\ ZHead = terminated_tasks
    BY <1>1 DEF Out, ZHead, Unlinking
  <1>7. Out' = {} /\ ZHead' = terminated_tasks' /\ me'.pc \notin Terminations
    BY <1>3, <1>4 DEF Out, ZHead, Unlinking, Resting, Terminations
  <1>8. \A t \in TCBs : PrevOf'[t] = PrevOf[t]
    <2>1. \A t \in TCBs : PrevOf[t] = IF t = x THEN p ELSE tcb[t].prev
      BY <1>1 DEF PrevOf
    <2>2. \A t \in TCBs : PrevOf'[t] = tcb'[t].prev
      BY <1>3, <1>4 DEF PrevOf, Resting
    <2> QED BY <1>5, <2>1, <2>2
  <1>9. Shape(A, Z, r)'
    BY <1>1, <1>5, <1>6, <1>7, <1>8, ShapeStep DEF Sound
  <1>10. Moving(A, Z)' /\ Holding(A, Z)'
    BY <1>3, <1>4 DEF Moving, Holding, Unlinking, Resting
  <1>11. Calls'
    BY <1>1, <1>4, <1>7 DEF Sound, Contexts, Calls, Terminations, Unlinking
  <1>12. Contexts'
    <2>1. \A t \in TCBs : tcb'[t].esp = tcb[t].esp /\ tcb'[t].state # "TS_FIN"
      BY <1>5 DEF Sound, Contexts, Kinds
    <2>2. cpu = terminated_tasks' => me.entry = "kshell"
      BY <1>1 DEF Sound, Contexts, HeadExits, Terminations, Unlinking
    <2>3. interrupts' = (me'.pc # "destroy") /\ cpu \in allocated' /\ allocated' \subseteq allocated
      BY <1>1, <1>3, <1>4 DEF Sound, Contexts, Stacks, Resting
    <2> QED BY <1>1, <1>3, <1>4, <1>11, <2>1, <2>2, <2>3, ContextsStep DEF Sound, Resting
  <1> QED BY <1>9, <1>10, <1>12 DEF Sound

\* The look-up of mt_task_terminate_pid stays on the task list.
LEMMA FindTermSound ==
  ASSUME TypeOK, IdleInv, NEW A \in SUBSET TCBs, NEW Z \in SUBSET TCBs, NEW r \in [TCBs -> Nat], Sound(A, Z, r),
         kshell_term \/ (Hop /\ me.pc = "find_term")
  PROVE  Sound(A, Z, r)'
  <1>1. UNCHANGED <<lists, cur_task, cpu, interrupts>> /\ me.pc \in {"prompt", "find_term"}
    BY DEF kshell_term, Hop, At
  <1>2. OwnStep /\ me'.pc = "find_term" /\ me'.frames = me.frames /\ me'.ptr \in A \cup {NULL}
    <2>1. CASE kshell_term
      <3>1. PICK p \in TermPids :
              ctx' = [ctx EXCEPT ![cpu].pc = "find_term", ![cpu].pid = p, ![cpu].ptr = tasks]
        BY <2>1 DEF kshell_term
      <3>2. Idle \in A
        BY Heads DEF Sound
      <3> QED BY <1>1, <3>1, <3>2, ContextFields DEF OwnStep, me, TypeOK, Context, tasks
    <2>2. CASE Hop /\ me.pc = "find_term"
      <3>1. me.ptr \in A
        BY <2>2 DEF Hop, Found, Sound, Holding
      <3>2. tcb[me.ptr].next \in A \cup {NULL}
        BY <3>1, NextInside DEF Sound
      <3> QED BY <1>1, <2>2, <3>2, GotoWithMe DEF Hop
    <2> QED BY <2>1, <2>2
  <1>3. Out = {} /\ Out' = {} /\ ZHead' = ZHead /\ \A t \in TCBs : PrevOf'[t] = PrevOf[t]
    BY <1>1, <1>2 DEF Out, ZHead, PrevOf, Unlinking, lists
  <1>4. Shape(A, Z, r)'
    BY <1>1, <1>3, ShapeStep DEF Sound, lists
  <1>5. Moving(A, Z)' /\ Holding(A, Z)'
    BY <1>2 DEF Moving, Holding, Unlinking
  <1>6. Calls'
    BY <1>1, <1>2 DEF Sound, Contexts, Calls, Terminations, Unlinking
  <1>7. Contexts'
    BY <1>1, <1>2, <1>6, ContextsKeep DEF Sound, lists, Terminations, Unlinking
  <1> QED BY <1>4, <1>5, <1>7 DEF Sound

\* A call of mt_task_terminate for a listed task other than the head of
\* terminated_tasks.
LEMMA CallSound ==
  ASSUME TypeOK, IdleInv, NEW A \in SUBSET TCBs, NEW Z \in SUBSET TCBs, NEW r \in [TCBs -> Nat], Sound(A, Z, r),
         me.pc \in {"find_term", "user", "scan"}, UNCHANGED <<lists, cur_task, cpu, interrupts>>,
         NEW x \in (A \cup Z) \ {terminated_tasks}, Call(x), me.pc = "scan" => top.i = x
  PROVE  Sound(A, Z, r)'
  <1>1. me.pc # "scan" => me.frames = << >> /\ Len(me.frames) = 0
    BY DEF Sound, Contexts, Calls, Terminations, Unlinking
  <1>2. Len(me.frames) > 0 => me.pc = "scan" /\ top.i = x
    BY <1>1
  <1>3. me.frames # << >> => Nested(me.frames)
    BY <1>1 DEF Sound, Contexts, Calls, Terminations
  <1>4. x \in allocated /\ x \in TCBs
    BY DEF Sound, Shape
  <1>5. OwnStep /\ me'.pc = "unlink_prev" /\ top'.t = x /\ Nested(me.frames)'
    BY <1>2, <1>3, <1>4, CallMe DEF lists
  <1>6. Out' = Out /\ ZHead' = ZHead /\ \A t \in TCBs : PrevOf'[t] = PrevOf[t]
    BY <1>5 DEF Out, ZHead, PrevOf, Unlinking, lists
  <1>7. Shape(A, Z, r)'
    BY <1>6, ShapeStep DEF Sound, lists
  <1>8. Moving(A, Z)' /\ Holding(A, Z)'
    BY <1>5 DEF Moving, Holding, Unlinking, lists
  <1>9. Calls'
    BY <1>5 DEF Calls, Terminations
  <1>10. Contexts'
    BY <1>5, <1>9, ContextsKeep DEF Sound, lists, Terminations, Unlinking
  <1> QED BY <1>7, <1>8, <1>10 DEF Sound

\* The outermost calls: mt_task_terminate_pid and sys_exit.
LEMMA FirstCallSound ==
  ASSUME TypeOK, IdleInv, NEW A \in SUBSET TCBs, NEW Z \in SUBSET TCBs, NEW r \in [TCBs -> Nat], Sound(A, Z, r),
         mt_task_terminate_pid \/ sys_exit
  PROVE  Sound(A, Z, r)'
  <1>1. UNCHANGED <<lists, cur_task, cpu, interrupts>>
    BY DEF mt_task_terminate_pid, sys_exit
  <1>2. CASE mt_task_terminate_pid /\ me.ptr # NULL
    <2>1. me.pc = "find_term" /\ Call(me.ptr)
      BY <1>2 DEF mt_task_terminate_pid, At
    <2>2. me.ptr \in A
      BY <1>2, <2>1 DEF Sound, Holding
    <2>3. terminated_tasks \notin A
      BY <2>1, Heads DEF Sound, ZHead
    <2> QED BY <1>1, <2>1, <2>2, <2>3, CallSound
  <1>3. CASE mt_task_terminate_pid /\ me.ptr = NULL
    <2>1. me.pc = "find_term" /\ Goto("prompt")
      BY <1>3 DEF mt_task_terminate_pid, At
    <2>2. OwnStep /\ me'.pc = "prompt" /\ me'.frames = me.frames
      BY <1>1, <2>1, GotoMe
    <2>3. Out' = Out /\ ZHead' = ZHead /\ \A t \in TCBs : PrevOf'[t] = PrevOf[t]
      BY <1>1, <2>1, <2>2 DEF Out, ZHead, PrevOf, Unlinking, lists
    <2>4. Shape(A, Z, r)'
      BY <1>1, <2>3, ShapeStep DEF Sound, lists
    <2>5. Moving(A, Z)' /\ Holding(A, Z)'
      BY <2>2 DEF Moving, Holding, Unlinking
    <2>6. Calls'
      BY <2>1, <2>2 DEF Sound, Contexts, Calls, Terminations, Unlinking
    <2>7. Contexts'
      BY <1>1, <2>1, <2>2, <2>6, ContextsKeep DEF Sound, lists, Terminations, Unlinking
    <2> QED BY <2>4, <2>5, <2>7 DEF Sound
  <1>4. CASE sys_exit
    <2>1. me.pc = "user" /\ Call(cur_task)
      BY <1>4 DEF sys_exit, At
    <2>2. cpu = cur_task /\ cur_task \in A \cup Z
      BY <2>1, AtRest DEF Sound, Contexts, Stacks, Shape, Resting
    <2>3. me.entry # "kshell"
      BY <2>1, Running DEF Sound, Contexts, Kinds, me
    <2>4. cpu # terminated_tasks
      BY <2>1, <2>3 DEF Sound, Contexts, HeadExits, Terminations, Unlinking
    <2> QED BY <1>1, <2>1, <2>2, <2>4, CallSound
  <1> QED BY <1>2, <1>3, <1>4

\* mt_task_terminate returns: an outer loop goes on behind the task it met.
LEMMA ReturnSound ==
  ASSUME TypeOK, NEW A \in SUBSET TCBs, NEW Z \in SUBSET TCBs, NEW r \in [TCBs -> Nat], Sound(A, Z, r),
         me.pc \in {"unlink_prev", "scan"}, UNCHANGED <<lists, cur_task, cpu, interrupts>>,
         TerminateReturn
  PROVE  Sound(A, Z, r)'
  <1>1. Nested(me.frames) /\ me.pc \in Terminations
    BY DEF Sound, Contexts, Calls, Terminations
  <1>2. /\ OwnStep
        /\ \/ /\ me'.pc = IF me.entry = "kshell" THEN "prompt" ELSE "pick"
              /\ me'.frames = << >>
           \/ /\ me'.pc = "scan" /\ Nested(me.frames)'
              /\ top'.i = tcb[top.t].next
    BY <1>1, TerminateReturnMe DEF lists
  <1>3. me'.pc \in {"prompt", "pick", "scan"}
    BY <1>2
  <1>4. Out = {} /\ Out' = {} /\ ZHead' = ZHead /\ ZHead = terminated_tasks
        /\ \A t \in TCBs : PrevOf'[t] = PrevOf[t]
    BY <1>3 DEF Out, ZHead, PrevOf, Unlinking, lists
  <1>5. Shape(A, Z, r)'
    BY <1>4, ShapeStep DEF Sound, lists
  <1>6. tcb[top.t].next \in ((A \cup Z) \ {terminated_tasks}) \cup {NULL}
    <2>1. top.t \in A \cup Z
      <3>1. me.frames \in Seq(Frame)
        BY ContextFields DEF me, TypeOK
      <3>2. depth \in 1..Len(me.frames)
        BY <1>1, <3>1 DEF Nested, depth
      <3> QED BY <1>1, <1>4, <3>2 DEF Nested, top, Sound, Shape
    <2> QED BY <1>4, <2>1, NextInside, ZenonT(60) DEF Sound
  <1>7. Moving(A, Z)'
    BY <1>2, <1>3, <1>6 DEF Moving, Unlinking, lists
  <1>8. Holding(A, Z)'
    BY <1>3 DEF Holding
  <1>9. Calls'
    BY <1>2 DEF Calls, Terminations, Unlinking
  <1>10. me'.pc \in Terminations \cup {"pick"} \/ me.entry = "kshell"
    BY <1>2 DEF Terminations
  <1>11. Contexts'
    BY <1>2, <1>3, <1>9, <1>10, ContextsKeep DEF Sound, lists
  <1> QED BY <1>5, <1>7, <1>8, <1>11 DEF Sound

\* The facts every line of mt_task_terminate starts from.
LEMMA TerminationFacts ==
  ASSUME TypeOK, IdleInv, NEW A \in SUBSET TCBs, NEW Z \in SUBSET TCBs, NEW r \in [TCBs -> Nat], Sound(A, Z, r),
         me.pc \in Terminations
  PROVE  /\ Nested(me.frames) /\ depth > 0 /\ top.t \in TCBs /\ top.t \in allocated
         /\ me.pc \in Unlinking => /\ top.t \notin {Idle, Cleaner} /\ top.t \notin A \cup Z
                                   /\ allocated = A \cup Z \cup {top.t}
  <1>1. Nested(me.frames)
    BY DEF Sound, Contexts, Calls
  <1>2. me.frames \in Seq(Frame) /\ depth = Len(me.frames)
    BY ContextFields DEF me, TypeOK, depth
  <1>3. depth > 0 /\ depth \in 1..Len(me.frames)
    BY <1>1, <1>2 DEF Nested
  <1>4. top.t \in TCBs /\ top.t \in allocated
    <2>1. top \in Frame /\ top.t \in allocated
      BY <1>1, <1>2, <1>3 DEF top, Nested
    <2> QED BY <2>1 DEF Frame
  <1>5. me.pc \in Unlinking => top.t # Idle
    BY <1>3, Running DEF IdleInv, SafeContext, top, depth, me
  <1>6. me.pc \in Unlinking => top.t # Cleaner /\ Out = {top.t}
    BY DEF Sound, Moving, Out
  <1> QED BY <1>1, <1>3, <1>4, <1>5, <1>6 DEF Sound, Shape

\* The first store of mt_task_terminate takes the task off its list; its
\* successor's prev, written next, is what the list already counts on.
LEMMA UnlinkPrevSound ==
  ASSUME TypeOK, IdleInv, NEW A \in SUBSET TCBs, NEW Z \in SUBSET TCBs, NEW r \in [TCBs -> Nat], Sound(A, Z, r),
         terminate_unlink_prev, ~torn'
  PROVE  Keeps(A)
  <1>1. me.pc = "unlink_prev" /\ UNCHANGED <<allocated, terminated_tasks, cur_task, cpu, interrupts>>
    BY DEF terminate_unlink_prev, Terminating, At
  <1>2. me.pc \in Terminations
    BY <1>1 DEF Terminations
  <1>3. CASE tcb[top.t].pid = 0
    <2>1. TerminateReturn /\ UNCHANGED tcb
      BY <1>3 DEF terminate_unlink_prev
    <2>2. Sound(A, Z, r)'
      BY <1>1, <2>1, ReturnSound DEF lists
    <2> QED BY <2>2 DEF Keeps
  <1>4. CASE tcb[top.t].pid # 0
    <2>1. PICK x : x = top.t
      OBVIOUS
    <2> PICK p : p = tcb[x].prev
      OBVIOUS
    <2> PICK y : y = tcb[x].next
      OBVIOUS
    <2> DEFINE A2 == A \ {x}  Z2 == Z \ {x}
    <2>2. tcb' = Stored(p, y, "next") /\ Goto("unlink_next") /\ x # Cleaner
      BY <1>4, <2>1 DEF terminate_unlink_prev
    <2>3. x \in TCBs /\ x # Idle /\ x \in (A \cup Z) \ {terminated_tasks} /\ Nested(me.frames)
      BY <1>1, <1>2, <1>4, <2>1, TerminationFacts DEF IdleInv, IdleImmortal, Sound, Moving
    <2>4. /\ Out = {} /\ ZHead = terminated_tasks
          /\ \A t \in TCBs : PrevOf[t] = tcb[t].prev
      BY <1>1 DEF Out, ZHead, PrevOf, Unlinking
    <2>5. PrevOf[x] = p /\ NextOf[x] = y
      BY <2>3, <2>4, LinksOf
    <2>6. Shape(A, Z, r) /\ A \cap Z = {} /\ NULL \notin A \cup Z /\ Idle \in A /\ Cleaner \in A
      BY Heads DEF Sound, Shape
    <2>7. /\ x \in A => p \in A /\ y \in A \cup {NULL}
          /\ x \in Z => p \in Z /\ y \in Z \cup {NULL}
          /\ y # x /\ p # x
      <3>1. CASE x \in A
        <4>1. p \in A /\ NextOf[p] = x /\ y \in A \cup {NULL}
          BY <2>3, <2>5, <2>6, <3>1 DEF Shape, Chain
        <4>2. r[p] < r[x] /\ (y # NULL => r[x] < r[y])
          BY <2>5, <2>6, <3>1, <4>1 DEF Shape, Chain
        <4>3. r[p] \in Nat /\ r[x] \in Nat
          BY <3>1, <4>1
        <4> QED BY <2>6, <3>1, <4>1, <4>2, <4>3
      <3>2. CASE x \in Z
        <4>1. p \in Z /\ NextOf[p] = x /\ y \in Z \cup {NULL}
          BY <2>3, <2>4, <2>5, <2>6, <3>2 DEF Shape, Chain
        <4>2. r[p] < r[x] /\ (y # NULL => r[x] < r[y])
          BY <2>5, <2>6, <3>2, <4>1 DEF Shape, Chain
        <4>3. r[p] \in Nat /\ r[x] \in Nat
          BY <3>2, <4>1
        <4> QED BY <2>6, <3>2, <4>1, <4>2, <4>3
      <3> QED BY <2>3, <3>1, <3>2
    <2>8. p \in TCBs /\ p # NULL
      BY <2>3, <2>6, <2>7
    <2>9. /\ \A t \in TCBs \ {p} : tcb'[t] = tcb[t]
          /\ tcb'[p].next = y /\ tcb'[p].prev = tcb[p].prev
          /\ tcb'[p].esp = tcb[p].esp /\ tcb'[p].state = tcb[p].state
      BY <2>2, <2>8, TaskFields DEF TypeOK, Task, Stored
    <2>10. OwnStep /\ me'.pc = "unlink_next" /\ me'.frames = me.frames /\ top' = top
      BY <1>1, <2>2, GotoMe
    <2>11. /\ \A t \in TCBs : NextOf'[t] = IF t = p THEN y ELSE NextOf[t]
           /\ \A t \in TCBs : PrevOf'[t] = IF t = y THEN p ELSE PrevOf[t]
      <3>1. \A t \in TCBs : NextOf'[t] = IF t = p THEN y ELSE NextOf[t]
        BY <2>9, LinksOf
      <3>2. \A t \in TCBs : tcb'[t].prev = tcb[t].prev
        BY <2>9
      <3>3. tcb'[x].next = y /\ tcb'[x].prev = p /\ top'.t = x
        BY <2>1, <2>3, <2>7, <2>9, <2>10
      <3>4. \A t \in TCBs : PrevOf'[t] = IF t = y THEN p ELSE tcb'[t].prev
        BY <2>10, <3>3 DEF PrevOf
      <3> QED BY <2>4, <3>1, <3>2, <3>4
    <2>12. Out' = {x} /\ ZHead' = ZHead /\ ZHead' = terminated_tasks
      BY <1>1, <2>1, <2>4, <2>10 DEF Out, ZHead, Unlinking
    <2>13. Chain(A2, Idle, NextOf', PrevOf', r)
      <3>1. CASE x \in A
        <4>1. \A t \in A \ {x} : NextOf'[t] = IF t = PrevOf[x] THEN NextOf[x] ELSE NextOf[t]
          BY <2>5, <2>11
        <4>2. \A t \in A \ {x, Idle} : PrevOf'[t] = IF t = NextOf[x] THEN PrevOf[x] ELSE PrevOf[t]
          BY <2>5, <2>11
        <4>3. Chain(A, Idle, NextOf, PrevOf, r)
          BY DEF Sound, Shape
        <4> QED BY <2>3, <3>1, <4>1, <4>2, <4>3, ChainUnlink
      <3>2. CASE x \in Z
        <4>1. A2 = A /\ p \notin A /\ y \notin A
          BY <2>6, <2>7, <3>2
        <4>2. \A t \in A : NextOf'[t] = NextOf[t] /\ PrevOf'[t] = PrevOf[t]
          BY <2>11, <4>1
        <4>3. Chain(A, Idle, NextOf, PrevOf, r)
          BY DEF Sound, Shape
        <4>4. Chain(A, Idle, NextOf', PrevOf', r)
          BY <4>2, <4>3, ChainSame
        <4> QED BY <4>1, <4>4
      <3> QED BY <2>3, <3>1, <3>2
    <2>14. Chain(Z2, ZHead, NextOf', PrevOf', r)
      <3>1. CASE x \in Z
        <4>1. \A t \in Z \ {x} : NextOf'[t] = IF t = PrevOf[x] THEN NextOf[x] ELSE NextOf[t]
          BY <2>5, <2>11
        <4>2. \A t \in Z \ {x, ZHead} : PrevOf'[t] = IF t = NextOf[x] THEN PrevOf[x] ELSE PrevOf[t]
          BY <2>5, <2>11
        <4>3. Chain(Z, ZHead, NextOf, PrevOf, r) /\ x # ZHead
          BY <2>3, <2>4 DEF Sound, Shape
        <4> QED BY <2>3, <3>1, <4>1, <4>2, <4>3, ChainUnlink
      <3>2. CASE x \in A
        <4>1. Z2 = Z /\ p \notin Z /\ y \notin Z
          BY <2>6, <2>7, <3>2
        <4>2. \A t \in Z : NextOf'[t] = NextOf[t] /\ PrevOf'[t] = PrevOf[t]
          BY <2>11, <4>1
        <4>3. Chain(Z, ZHead, NextOf, PrevOf, r)
          BY DEF Sound, Shape
        <4>4. Chain(Z, ZHead, NextOf', PrevOf', r)
          BY <4>2, <4>3, ChainSame
        <4> QED BY <4>1, <4>4
      <3> QED BY <2>3, <3>1, <3>2
    <2>15. Shape(A2, Z2, r)'
      <3>1. Chain(Z2, ZHead, NextOf, PrevOf, r)'
        BY <2>12, <2>14
      <3>2. allocated = A \cup Z
        BY <2>4 DEF Sound, Shape
      <3> QED BY <1>1, <2>2, <2>3, <2>6, <2>12, <2>13, <3>1, <3>2 DEF Shape
    <2>16. Moving(A2, Z2)'
      <3>1. tcb'[x].next = y /\ top'.t = x
        BY <2>1, <2>3, <2>7, <2>9, <2>10
      <3>2. y \in ((A2 \cup Z2) \ {terminated_tasks}) \cup {NULL}
        BY <2>3, <2>4, <2>5, <2>6, <2>7, NextInside, LinksOf
      <3> QED BY <1>1, <2>2, <2>10, <3>1, <3>2 DEF Moving, Unlinking
    <2>17. Holding(A2, Z2)'
      BY <2>10 DEF Holding
    <2>18. Calls'
      BY <1>1, <2>3, <2>10 DEF Calls, Nested, Terminations, Unlinking
    <2>19. Contexts'
      <3>1. \A t \in TCBs : tcb'[t].esp = tcb[t].esp /\ tcb'[t].state = tcb[t].state
        BY <2>9
      <3> QED BY <1>1, <2>10, <2>18, <3>1, ContextsKeep DEF Sound, Terminations, Unlinking
    <2>20. Sound(A2, Z2, r)'
      BY <2>15, <2>16, <2>17, <2>19 DEF Sound
    <2>21. A2 \in SUBSET TCBs /\ Z2 \in SUBSET TCBs /\ A2 \subseteq A
      OBVIOUS
    <2> QED BY <2>20, <2>21 DEF Keeps
  <1> QED BY <1>3, <1>4

\* The second store writes that prev link.
LEMMA UnlinkNextSound ==
  ASSUME TypeOK, IdleInv, NEW A \in SUBSET TCBs, NEW Z \in SUBSET TCBs, NEW r \in [TCBs -> Nat], Sound(A, Z, r),
         terminate_unlink_next
  PROVE  Sound(A, Z, r)'
  <1> PICK x : x = top.t
    OBVIOUS
  <1> PICK p : p = tcb[x].prev
    OBVIOUS
  <1> PICK y : y = tcb[x].next
    OBVIOUS
  <1>1. /\ me.pc = "unlink_next" /\ UNCHANGED <<allocated, terminated_tasks, cur_task, cpu, interrupts>>
        /\ tcb' = Stored(y, p, "prev") /\ Goto("push")
    BY DEF terminate_unlink_next, Terminating, At
  <1>2. /\ Nested(me.frames) /\ x \in TCBs /\ x # Cleaner /\ x \notin A \cup Z
        /\ y \in (A \cup Z) \cup {NULL}
    BY <1>1, TerminationFacts DEF Terminations, Unlinking, Sound, Moving
  <1>3. OwnStep /\ me'.pc = "push" /\ me'.frames = me.frames /\ top' = top
    BY <1>1, GotoMe
  <1>4. /\ \A t \in TCBs : tcb'[t].prev = IF t = y THEN p ELSE tcb[t].prev
        /\ \A t \in TCBs : /\ tcb'[t].next = tcb[t].next
                           /\ tcb'[t].esp = tcb[t].esp /\ tcb'[t].state = tcb[t].state
    <2>1. CASE y = NULL
      <3>1. tcb' = tcb
        BY <1>1, <2>1 DEF Stored
      <3> QED BY <2>1, <3>1, BootAssumption
    <2>2. CASE y # NULL
      <3>1. y \in TCBs /\ tcb' = [tcb EXCEPT ![y].prev = p]
        BY <1>1, <1>2, <2>2 DEF Stored
      <3> QED BY <3>1, TaskFields DEF TypeOK, Task
    <2> QED BY <2>1, <2>2
  <1>5. \A t \in TCBs : PrevOf'[t] = PrevOf[t]
    <2>1. \A t \in TCBs : PrevOf[t] = IF t = y THEN p ELSE tcb[t].prev
      BY <1>1 DEF PrevOf
    <2>2. \A t \in TCBs : PrevOf'[t] = tcb'[t].prev
      BY <1>3 DEF PrevOf
    <2> QED BY <1>4, <2>1, <2>2
  <1>6. Out' = Out /\ ZHead' = ZHead
    BY <1>1, <1>3 DEF Out, ZHead, Unlinking
  <1>7. Shape(A, Z, r)'
    BY <1>1, <1>4, <1>5, <1>6, ShapeStep DEF Sound
  <1>8. Moving(A, Z)' /\ Holding(A, Z)'
    BY <1>2, <1>3 DEF Moving, Holding, Unlinking
  <1>9. Calls'
    BY <1>1, <1>2, <1>3 DEF Calls, Nested, Terminations, Unlinking
  <1>10. Contexts'
    BY <1>1, <1>3, <1>4, <1>9, ContextsKeep DEF Sound, Terminations, Unlinking
  <1> QED BY <1>7, <1>8, <1>10 DEF Sound

\* The push decides how to proceed; an empty terminated_tasks gets its head at once.
LEMMA PushSound ==
  ASSUME TypeOK, IdleInv, NEW A \in SUBSET TCBs, NEW Z \in SUBSET TCBs, NEW r \in [TCBs -> Nat], Sound(A, Z, r),
         terminate_push
  PROVE  Sound(A, Z, r)'
  <1>1. /\ me.pc = "push" /\ UNCHANGED <<tcb, allocated, cur_task, cpu, interrupts>>
        /\ \/ terminated_tasks = NULL /\ terminated_tasks' = top.t /\ Goto("push_first")
           \/ terminated_tasks # NULL /\ terminated_tasks' = terminated_tasks /\ Goto("push_next")
    BY DEF terminate_push, Terminating, At
  <1>2. Nested(me.frames) /\ top.t \in TCBs /\ top.t # Cleaner
    BY <1>1, TerminationFacts DEF Terminations, Unlinking
  <1>3. /\ OwnStep /\ me'.frames = me.frames /\ top' = top
        /\ \/ terminated_tasks = NULL /\ terminated_tasks' = top.t /\ me'.pc = "push_first"
           \/ terminated_tasks # NULL /\ terminated_tasks' = terminated_tasks /\ me'.pc = "push_next"
    BY <1>1, GotoMe
  <1>4. Out' = Out /\ ZHead' = ZHead /\ \A t \in TCBs : PrevOf'[t] = PrevOf[t]
    BY <1>1, <1>3 DEF Out, ZHead, PrevOf, Unlinking
  <1>5. Shape(A, Z, r)'
    BY <1>1, <1>4, ShapeStep DEF Sound
  <1>6. Moving(A, Z)'
    BY <1>2, <1>3 DEF Moving, Unlinking
  <1>7. Holding(A, Z)'
    BY <1>3 DEF Holding
  <1>8. Calls'
    BY <1>1, <1>2, <1>3 DEF Calls, Nested, Terminations, Unlinking
  <1>9. Contexts'
    <2>1. \A t \in TCBs : tcb'[t].esp = tcb[t].esp /\ tcb'[t].state # "TS_FIN"
      BY <1>1 DEF Sound, Contexts, Kinds
    <2>2. me'.pc \in Terminations
      BY <1>3 DEF Terminations, Unlinking
    <2>3. interrupts' = (me'.pc # "destroy") /\ cpu \in allocated' /\ allocated' \subseteq allocated
      BY <1>1, <1>3 DEF Sound, Contexts, Stacks
    <2> QED BY <1>1, <1>3, <1>8, <2>1, <2>2, <2>3, ContextsStep DEF Sound
  <1> QED BY <1>5, <1>6, <1>7, <1>9 DEF Sound

\* The task pushed becomes the only node of terminated_tasks.
LEMMA PushFirstSound ==
  ASSUME TypeOK, IdleInv, NEW A \in SUBSET TCBs, NEW Z \in SUBSET TCBs, NEW r \in [TCBs -> Nat], Sound(A, Z, r),
         terminate_push_first
  PROVE  Keeps(A)
  <1>1. PICK x : x = top.t
    OBVIOUS
  <1>2. /\ me.pc = "push_first" /\ UNCHANGED <<allocated, terminated_tasks, cur_task, cpu, interrupts>>
        /\ tcb' = [tcb EXCEPT ![x].next = NULL, ![x].prev = NULL] /\ ScanFrom(Idle)
    BY <1>1 DEF terminate_push_first, Terminating, At, tasks
  <1>3. /\ Nested(me.frames) /\ x \in TCBs /\ x # Cleaner /\ x # Idle /\ x \notin A \cup Z
        /\ allocated = A \cup Z \cup {x} /\ terminated_tasks = x
    BY <1>1, <1>2, TerminationFacts DEF Terminations, Unlinking, Sound, Moving
  <1>4. OwnStep /\ me'.pc = "scan" /\ top'.t = top.t /\ top'.i = Idle /\ Nested(me.frames)'
    BY <1>2, <1>3, ScanFromMe, Running
  <1>5. /\ \A t \in TCBs \ {x} : tcb'[t] = tcb[t]
        /\ tcb'[x].next = NULL
        /\ tcb'[x].esp = tcb[x].esp /\ tcb'[x].state = tcb[x].state
    BY <1>2, <1>3, TaskFields DEF TypeOK, Task
  <1>6. Out' = {} /\ ZHead' = x /\ ZHead = NULL /\ Z = {} /\ Idle \in A
    BY <1>2, <1>3, <1>4, Heads DEF Out, ZHead, Unlinking, Sound
  <1>7. \A t \in A : PrevOf'[t] = PrevOf[t] /\ NextOf'[t] = NextOf[t]
    <2>1. \A t \in TCBs : PrevOf[t] = tcb[t].prev /\ PrevOf'[t] = tcb'[t].prev
      BY <1>2, <1>4 DEF PrevOf
    <2> QED BY <1>3, <1>5, <2>1, LinksOf
  <1>8. Chain(A, Idle, NextOf', PrevOf', r)
    BY <1>7, ChainSame DEF Sound, Shape
  <1>9. Chain({x}, x, NextOf', PrevOf', r)
    <2>1. NextOf'[x] = NULL /\ x # NULL
      BY <1>3, <1>5, LinksOf, BootAssumption
    <2> QED BY <2>1 DEF Chain
  <1>10. Shape(A, {x}, r)'
    <2>1. Chain({x}, ZHead, NextOf, PrevOf, r)'
      BY <1>6, <1>9
    <2> QED BY <1>2, <1>3, <1>6, <1>8, <2>1 DEF Sound, Shape
  <1>11. Moving(A, {x})'
    BY <1>2, <1>3, <1>4, <1>6 DEF Moving, Unlinking
  <1>12. Holding(A, {x})'
    BY <1>4 DEF Holding
  <1>13. Calls'
    BY <1>4 DEF Calls, Terminations
  <1>14. Contexts'
    <2>1. \A t \in TCBs : tcb'[t].esp = tcb[t].esp /\ tcb'[t].state = tcb[t].state
      BY <1>5
    <2> QED BY <1>2, <1>4, <1>13, <2>1, ContextsKeep DEF Sound, Terminations
  <1>15. {x} \in SUBSET TCBs
    BY <1>3
  <1>16. Sound(A, {x}, r)'
    BY <1>10, <1>11, <1>12, <1>14 DEF Sound
  <1> QED BY <1>15, <1>16 DEF Keeps

\* The pushed task's next is stored; it is still on no list.
LEMMA PushNextSound ==
  ASSUME TypeOK, IdleInv, NEW A \in SUBSET TCBs, NEW Z \in SUBSET TCBs, NEW r \in [TCBs -> Nat], Sound(A, Z, r),
         terminate_push_next
  PROVE  Sound(A, Z, r)'
  <1>1. PICK x : x = top.t
    OBVIOUS
  <1>2. /\ me.pc = "push_next" /\ UNCHANGED <<allocated, terminated_tasks, cur_task, cpu, interrupts>>
        /\ tcb' = [tcb EXCEPT ![x].next = terminated_tasks] /\ Goto("push_prev")
    BY <1>1 DEF terminate_push_next, Terminating, At
  <1>3. /\ Nested(me.frames) /\ x \in TCBs /\ x # Cleaner /\ x \notin A \cup Z
        /\ terminated_tasks # NULL
    BY <1>1, <1>2, TerminationFacts DEF Terminations, Unlinking, Sound, Moving
  <1>4. OwnStep /\ me'.pc = "push_prev" /\ me'.frames = me.frames /\ top' = top
    BY <1>2, GotoMe
  <1>5. /\ \A t \in TCBs \ {x} : tcb'[t] = tcb[t]
        /\ tcb'[x].next = terminated_tasks
        /\ tcb'[x].esp = tcb[x].esp /\ tcb'[x].state = tcb[x].state
    BY <1>2, <1>3, TaskFields DEF TypeOK, Task
  <1>6. Out' = Out /\ ZHead' = ZHead
    BY <1>2, <1>4 DEF Out, ZHead, Unlinking
  <1>7. \A t \in A \cup Z : PrevOf'[t] = PrevOf[t] /\ tcb'[t].next = tcb[t].next
    <2>1. \A t \in TCBs : PrevOf[t] = tcb[t].prev /\ PrevOf'[t] = tcb'[t].prev
      BY <1>2, <1>4 DEF PrevOf
    <2> QED BY <1>3, <1>5, <2>1
  <1>8. Shape(A, Z, r)'
    BY <1>2, <1>6, <1>7, ShapeStep DEF Sound
  <1>9. Moving(A, Z)' /\ Holding(A, Z)'
    BY <1>1, <1>2, <1>3, <1>4, <1>5 DEF Moving, Holding, Unlinking
  <1>10. Calls'
    BY <1>2, <1>3, <1>4 DEF Calls, Nested, Terminations, Unlinking
  <1>11. Contexts'
    <2>1. \A t \in TCBs : tcb'[t].esp = tcb[t].esp /\ tcb'[t].state = tcb[t].state
      BY <1>5
    <2> QED BY <1>2, <1>4, <1>10, <2>1, ContextsKeep DEF Sound, Terminations, Unlinking
  <1> QED BY <1>8, <1>9, <1>11 DEF Sound

\* The old head's prev is stored: no list counts on the prev of its head.
LEMMA PushPrevSound ==
  ASSUME TypeOK, IdleInv, NEW A \in SUBSET TCBs, NEW Z \in SUBSET TCBs, NEW r \in [TCBs -> Nat], Sound(A, Z, r),
         terminate_push_prev
  PROVE  Sound(A, Z, r)'
  <1>1. PICK x : x = top.t
    OBVIOUS
  <1> PICK h : h = terminated_tasks
    OBVIOUS
  <1>2. /\ me.pc = "push_prev" /\ UNCHANGED <<allocated, terminated_tasks, cur_task, cpu, interrupts>>
        /\ tcb' = Stored(h, x, "prev") /\ Goto("push_head")
    BY <1>1 DEF terminate_push_prev, Terminating, At
  <1>3. /\ Nested(me.frames) /\ x \in TCBs /\ x # Cleaner /\ x \notin A \cup Z
        /\ h # NULL /\ tcb[x].next = h /\ ZHead = h
    BY <1>1, <1>2, TerminationFacts DEF Terminations, Unlinking, Sound, Moving, ZHead
  <1>4. OwnStep /\ me'.pc = "push_head" /\ me'.frames = me.frames /\ top' = top
    BY <1>2, GotoMe
  <1>5. h \in TCBs /\ h \in Z
    BY <1>3, Heads DEF Sound
  <1>6. /\ \A t \in TCBs \ {h} : tcb'[t] = tcb[t]
        /\ tcb'[h].prev = x /\ tcb'[h].next = tcb[h].next
        /\ tcb'[h].esp = tcb[h].esp /\ tcb'[h].state = tcb[h].state
    BY <1>2, <1>3, <1>5, TaskFields DEF TypeOK, Task, Stored
  <1>7. Out' = Out /\ ZHead' = ZHead
    BY <1>2, <1>4 DEF Out, ZHead, Unlinking
  <1>8. /\ \A t \in A \cup Z : tcb'[t].next = tcb[t].next
        /\ \A t \in (A \cup Z) \ {Idle, ZHead} : PrevOf'[t] = PrevOf[t]
    <2>1. \A t \in TCBs : PrevOf[t] = tcb[t].prev /\ PrevOf'[t] = tcb'[t].prev
      BY <1>2, <1>4 DEF PrevOf
    <2> QED BY <1>3, <1>6, <2>1
  <1>9. Shape(A, Z, r)'
    BY <1>2, <1>7, <1>8, ShapeStep DEF Sound
  <1>10. tcb'[x].next = h
    BY <1>3, <1>5, <1>6
  <1>11. Moving(A, Z)'
    BY <1>1, <1>2, <1>3, <1>4, <1>6, <1>10 DEF Moving, Unlinking
  <1>12. Holding(A, Z)'
    BY <1>4 DEF Holding
  <1>13. Calls'
    BY <1>2, <1>3, <1>4 DEF Calls, Nested, Terminations, Unlinking
  <1>14. Contexts'
    <2>1. \A t \in TCBs : tcb'[t].esp = tcb[t].esp /\ tcb'[t].state = tcb[t].state
      BY <1>6
    <2> QED BY <1>2, <1>4, <1>13, <2>1, ContextsKeep DEF Sound, Terminations, Unlinking
  <1> QED BY <1>9, <1>11, <1>12, <1>14 DEF Sound

\* The pushed task becomes the head of terminated_tasks.
LEMMA PushHeadSound ==
  ASSUME TypeOK, IdleInv, NEW A \in SUBSET TCBs, NEW Z \in SUBSET TCBs, NEW r \in [TCBs -> Nat], Sound(A, Z, r),
         terminate_push_head
  PROVE  Keeps(A)
  <1>1. PICK x : x = top.t
    OBVIOUS
  <1> DEFINE Z2 == Z \cup {x}  r2 == Ranked(Z, x, r)
  <1>2. /\ me.pc = "push_head" /\ UNCHANGED <<tcb, allocated, cur_task, cpu, interrupts>>
        /\ terminated_tasks' = x /\ ScanFrom(Idle)
    BY <1>1 DEF terminate_push_head, Terminating, At, tasks
  <1>3. /\ Nested(me.frames) /\ x \in TCBs /\ x # Cleaner /\ x # Idle /\ x \notin A \cup Z
        /\ allocated = A \cup Z \cup {x} /\ terminated_tasks # NULL
        /\ tcb[x].next = ZHead /\ tcb[ZHead].prev = x
    BY <1>1, <1>2, TerminationFacts DEF Terminations, Unlinking, Sound, Moving, ZHead
  <1>4. OwnStep /\ me'.pc = "scan" /\ top'.t = top.t /\ top'.i = Idle /\ Nested(me.frames)'
    BY <1>2, <1>3, ScanFromMe, Running
  <1>5. Out' = {} /\ ZHead' = x /\ Idle \in A /\ Idle \notin Z /\ ZHead \in Z /\ ZHead \in TCBs
    BY <1>2, <1>3, <1>4, Heads DEF Out, ZHead, Unlinking, Sound
  <1>6. \A t \in TCBs : PrevOf'[t] = tcb[t].prev /\ PrevOf[t] = tcb[t].prev /\ NextOf'[t] = NextOf[t]
    BY <1>2, <1>4, LinksOf DEF PrevOf
  <1>7. Chain(A, Idle, NextOf', PrevOf', r2)
    <2>1. \A t \in A : r2[t] = r[t]
      BY <1>3 DEF Ranked, Sound, Shape
    <2> HIDE DEF r2
    <2>2. \A t \in A : PrevOf'[t] = PrevOf[t] /\ NextOf'[t] = NextOf[t] /\ r2[t] = r[t]
      BY <1>6, <2>1
    <2> QED BY <2>2, ChainSame DEF Sound, Shape
  <1>8. Chain(Z2, x, NextOf', PrevOf', r2)
    <2>1. NextOf'[x] = ZHead /\ (\A t \in Z : NextOf'[t] = NextOf[t])
      BY <1>3, <1>6, LinksOf
    <2>2. PrevOf'[ZHead] = x /\ (\A t \in Z \ {ZHead} : PrevOf'[t] = PrevOf[t])
      BY <1>3, <1>5, <1>6
    <2>3. Chain(Z, ZHead, NextOf, PrevOf, r) /\ x \in TCBs \ Z
      BY <1>3 DEF Sound, Shape
    <2> QED BY <2>1, <2>2, <2>3, ChainPush
  <1>9. r2 \in [TCBs -> Nat] /\ Z2 \in SUBSET TCBs
    BY <1>3 DEF Ranked
  <1> HIDE DEF r2
  <1>10. Shape(A, Z2, r2)'
    <2>1. Chain(Z2, ZHead, NextOf, PrevOf, r2)'
      BY <1>5, <1>8
    <2> QED BY <1>2, <1>3, <1>5, <1>7, <2>1 DEF Sound, Shape
  <1>11. Moving(A, Z2)'
    BY <1>2, <1>3, <1>4, <1>5 DEF Moving, Unlinking
  <1>12. Holding(A, Z2)'
    BY <1>4 DEF Holding
  <1>13. Calls'
    BY <1>4 DEF Calls, Terminations
  <1>14. Contexts'
    <2>1. \A t \in TCBs : tcb'[t].esp = tcb[t].esp /\ tcb'[t].state # "TS_FIN"
      BY <1>2 DEF Sound, Contexts, Kinds
    <2>2. me'.pc \in Terminations
      BY <1>4 DEF Terminations
    <2>3. interrupts' = (me'.pc # "destroy") /\ cpu \in allocated' /\ allocated' \subseteq allocated
      BY <1>2, <1>4 DEF Sound, Contexts, Stacks
    <2> QED BY <1>2, <1>4, <1>13, <2>1, <2>2, <2>3, ContextsStep DEF Sound
  <1>15. Sound(A, Z2, r2)'
    BY <1>10, <1>11, <1>12, <1>14 DEF Sound
  <1> QED BY <1>9, <1>15 DEF Keeps

\* The loop that looks for the children of the terminated task.
LEMMA ScanSound ==
  ASSUME TypeOK, IdleInv, NEW A \in SUBSET TCBs, NEW Z \in SUBSET TCBs, NEW r \in [TCBs -> Nat], Sound(A, Z, r),
         terminate_scan
  PROVE  Sound(A, Z, r)'
  <1>1. me.pc = "scan" /\ UNCHANGED <<lists, cur_task, cpu, interrupts>>
    BY DEF terminate_scan, Terminating, At
  <1>2. CASE top.i = NULL
    BY <1>1, <1>2, ReturnSound DEF terminate_scan
  <1>3. CASE top.i # NULL
    <2>1. PICK x : x = top.i
      OBVIOUS
    <2>2. x \in (A \cup Z) \ {terminated_tasks}
      BY <1>1, <1>3, <2>1 DEF Sound, Moving
    <2>3. CASE Call(x)
      BY <1>1, <2>1, <2>2, <2>3, CallSound
    <2>4. CASE ScanFrom(tcb[x].next)
      <3>1. ZHead = terminated_tasks
        BY <1>1 DEF ZHead
      <3>2. tcb[x].next \in ((A \cup Z) \ {terminated_tasks}) \cup {NULL}
        BY <2>2, <3>1, NextInside DEF Sound
      <3>3. tcb[x].next \in Pointers /\ Nested(me.frames)
        BY <1>1, <2>2, TaskFields DEF Sound, Contexts, Calls, Terminations
      <3>4. OwnStep /\ me'.pc = "scan" /\ top'.t = top.t /\ top'.i = tcb[x].next /\ Nested(me.frames)'
        BY <1>1, <2>4, <3>3, ScanFromMe DEF lists
      <3>5. Out' = Out /\ ZHead' = ZHead /\ \A t \in TCBs : PrevOf'[t] = PrevOf[t]
        BY <1>1, <3>4 DEF Out, ZHead, PrevOf, Unlinking, lists
      <3>6. Shape(A, Z, r)'
        BY <1>1, <3>5, ShapeStep DEF Sound, lists
      <3>7. Moving(A, Z)' /\ Holding(A, Z)'
        BY <1>1, <3>2, <3>4 DEF Moving, Holding, Unlinking, lists
      <3>8. Calls'
        BY <3>4 DEF Calls, Terminations
      <3>9. Contexts'
        BY <1>1, <3>4, <3>8, ContextsKeep DEF Sound, lists, Terminations
      <3> QED BY <3>6, <3>7, <3>9 DEF Sound
    <2> QED BY <1>3, <2>1, <2>3, <2>4 DEF terminate_scan
  <1> QED BY <1>2, <1>3

\* The cleaner takes the list over as it stands and disables interrupts.
LEMMA CleanerStartSound ==
  ASSUME TypeOK, IdleInv, NEW A \in SUBSET TCBs, NEW Z \in SUBSET TCBs, NEW r \in [TCBs -> Nat], Sound(A, Z, r),
         cleaner_start
  PROVE  Sound(A, Z, r)'
  <1>1. /\ me.pc = "clean" /\ UNCHANGED <<lists, cur_task, cpu>> /\ interrupts' = FALSE
        /\ GotoWith("destroy", terminated_tasks)
    BY DEF cleaner_start, At
  <1>2. OwnStep /\ me'.pc = "destroy" /\ me'.ptr = terminated_tasks /\ me'.frames = me.frames
    BY <1>1, GotoWithMe
  <1>3. Out' = Out /\ ZHead' = ZHead /\ \A t \in TCBs : PrevOf'[t] = PrevOf[t]
    BY <1>1, <1>2 DEF Out, ZHead, PrevOf, Unlinking, lists
  <1>4. Shape(A, Z, r)'
    BY <1>1, <1>3, ShapeStep DEF Sound, lists
  <1>5. Moving(A, Z)' /\ Holding(A, Z)'
    BY <1>2 DEF Moving, Holding, Unlinking
  <1>6. Calls'
    BY <1>1, <1>2 DEF Sound, Contexts, Calls, Terminations, Unlinking
  <1>7. Contexts'
    <2>1. \A t \in TCBs : tcb'[t].esp = tcb[t].esp /\ tcb'[t].state # "TS_FIN"
      BY <1>1 DEF lists, Sound, Contexts, Kinds
    <2>2. cpu \in allocated' /\ allocated' \subseteq allocated
      BY <1>1 DEF Sound, Contexts, Stacks, lists
    <2>3. interrupts' = (me'.pc # "destroy")
      BY <1>1, <1>2
    <2> QED BY <1>1, <1>2, <1>6, <2>1, <2>2, <2>3, ContextsStep DEF Sound
  <1> QED BY <1>4, <1>5, <1>7 DEF Sound

\* It frees the head of what is left; its own TCB is on the other list.
LEMMA CleanerDestroySound ==
  ASSUME TypeOK, IdleInv, NEW A \in SUBSET TCBs, NEW Z \in SUBSET TCBs, NEW r \in [TCBs -> Nat], Sound(A, Z, r),
         cleaner_destroy
  PROVE  Keeps(A)
  <1> PICK x : x = me.ptr
    OBVIOUS
  <1> PICK n : n = tcb[x].next
    OBVIOUS
  <1> DEFINE Z2 == Z \ {x}
  <1>1. /\ me.pc = "destroy" /\ x # NULL /\ allocated' = allocated \ {x}
        /\ UNCHANGED <<tcb, terminated_tasks, cur_task, cpu, interrupts>>
        /\ GotoWith("destroy", n)
    BY DEF cleaner_destroy, At
  <1>2. OwnStep /\ me'.pc = "destroy" /\ me'.ptr = n /\ me'.frames = me.frames
    BY <1>1, GotoWithMe
  <1>3. /\ Out = {} /\ Out' = {} /\ ZHead = x /\ ZHead' = n
        /\ \A t \in TCBs : PrevOf'[t] = PrevOf[t] /\ NextOf'[t] = NextOf[t]
    BY <1>1, <1>2, LinksOf DEF Out, ZHead, PrevOf, Unlinking
  <1>4. x \in Z /\ x \notin A /\ x \in TCBs /\ NextOf[x] = n /\ Cleaner \in A
    <2>1. x \in Z /\ x \notin A /\ Cleaner \in A
      BY <1>1, <1>3, Heads DEF Sound
    <2> QED BY <2>1, LinksOf
  <1>5. Chain(A, Idle, NextOf', PrevOf', r)
    BY <1>3, ChainSame DEF Sound, Shape
  <1>6. Chain(Z2, n, NextOf', PrevOf', r)
    <2>1. Chain(Z, x, NextOf, PrevOf, r)
      BY <1>3 DEF Sound, Shape
    <2>2. Chain(Z \ {x}, NextOf[x], NextOf, PrevOf, r)
      BY <1>1, <2>1, ChainPop
    <2>3. Chain(Z2, n, NextOf, PrevOf, r)
      BY <1>4, <2>2
    <2>4. \A t \in Z2 : PrevOf'[t] = PrevOf[t] /\ NextOf'[t] = NextOf[t]
      BY <1>3
    <2> HIDE DEF Z2
    <2> QED BY <2>3, <2>4, ChainSame
  <1>7. Shape(A, Z2, r)'
    <2>1. Chain(Z2, ZHead, NextOf, PrevOf, r)'
      BY <1>3, <1>6
    <2> QED BY <1>1, <1>3, <1>4, <1>5, <2>1 DEF Sound, Shape
  <1>8. Moving(A, Z2)' /\ Holding(A, Z2)'
    BY <1>2 DEF Moving, Holding, Unlinking
  <1>9. Calls'
    BY <1>1, <1>2 DEF Sound, Contexts, Calls, Terminations, Unlinking
  <1>10. cpu \in allocated' /\ allocated' \subseteq allocated
    <2>1. cpu = Cleaner
      BY <1>1, Running DEF Sound, Contexts, Kinds, me
    <2> QED BY <1>1, <1>4, <2>1 DEF Sound, Shape
  <1>11. Contexts'
    <2>1. \A t \in TCBs : tcb'[t].esp = tcb[t].esp /\ tcb'[t].state # "TS_FIN"
      BY <1>1 DEF Sound, Contexts, Kinds
    <2>2. interrupts' = (me'.pc # "destroy")
      BY <1>1, <1>2 DEF Sound, Contexts, Stacks
    <2> QED BY <1>1, <1>2, <1>9, <1>10, <2>1, <2>2, ContextsStep DEF Sound
  <1>12. Z2 \in SUBSET TCBs
    OBVIOUS
  <1>13. Sound(A, Z2, r)'
    BY <1>7, <1>8, <1>11 DEF Sound
  <1> QED BY <1>12, <1>13 DEF Keeps

\* It stops when nothing is left, empties the list and enables interrupts.
LEMMA CleanerDoneSound ==
  ASSUME TypeOK, IdleInv, NEW A \in SUBSET TCBs, NEW Z \in SUBSET TCBs, NEW r \in [TCBs -> Nat], Sound(A, Z, r),
         cleaner_done
  PROVE  Sound(A, Z, r)'
  <1>1. /\ me.pc = "destroy" /\ me.ptr = NULL /\ UNCHANGED <<tcb, allocated, cur_task, cpu>>
        /\ terminated_tasks' = NULL /\ interrupts' = TRUE /\ Goto("clean")
    BY DEF cleaner_done, At
  <1>2. OwnStep /\ me'.pc = "clean" /\ me'.frames = me.frames
    BY <1>1, GotoMe
  <1>3. Out' = Out /\ ZHead' = ZHead /\ \A t \in TCBs : PrevOf'[t] = PrevOf[t]
    BY <1>1, <1>2 DEF Out, ZHead, PrevOf, Unlinking
  <1>4. Shape(A, Z, r)'
    BY <1>1, <1>3, ShapeStep DEF Sound
  <1>5. Moving(A, Z)' /\ Holding(A, Z)'
    BY <1>2 DEF Moving, Holding, Unlinking
  <1>6. Calls'
    BY <1>1, <1>2 DEF Sound, Contexts, Calls, Terminations, Unlinking
  <1>7. Contexts'
    <2>1. \A t \in TCBs : tcb'[t].esp = tcb[t].esp /\ tcb'[t].state # "TS_FIN"
      BY <1>1 DEF Sound, Contexts, Kinds
    <2>2. cpu \in allocated' /\ allocated' \subseteq allocated /\ cpu # terminated_tasks'
      BY <1>1, Running, BootAssumption DEF Sound, Contexts, Stacks
    <2>3. interrupts' = (me'.pc # "destroy")
      BY <1>1, <1>2
    <2> QED BY <1>1, <1>2, <1>6, <2>1, <2>2, <2>3, ContextsStep DEF Sound
  <1> QED BY <1>4, <1>5, <1>7 DEF Sound

\* sys_exit asks mt_schedule for another task, and keeps the one it is given.
LEMMA ExitPickSound ==
  ASSUME TypeOK, IdleInv, NEW A \in SUBSET TCBs, NEW Z \in SUBSET TCBs, NEW r \in [TCBs -> Nat], Sound(A, Z, r),
         exit_pick
  PROVE  Sound(A, Z, r)'
  <1> PICK n : n = mt_pick_next_task
    OBVIOUS
  <1>1. me.pc = "pick" /\ UNCHANGED <<allocated, terminated_tasks, cur_task, cpu, interrupts>>
    BY DEF exit_pick, At
  <1>2. Out = {} /\ ZHead = terminated_tasks /\ allocated = A \cup Z
        /\ (\A t \in TCBs : PrevOf[t] = tcb[t].prev)
    BY <1>1, AtRest DEF Resting, Sound, Shape
  <1>3. n \in (A \cup Z) \ {terminated_tasks}
    BY <1>2, PickInside DEF Sound, Contexts, Stacks
  <1>4. /\ \/ me'.pc = "hlt"
           \/ me'.pc = "switch_save" /\ me'.ptr = n
        /\ OwnStep /\ me'.frames = me.frames
        /\ \A t \in TCBs : /\ tcb'[t].next = tcb[t].next /\ tcb'[t].prev = tcb[t].prev
                           /\ tcb'[t].esp = tcb[t].esp /\ tcb'[t].state # "TS_FIN"
    <2>1. CASE SliceLeft
      <3>1. tcb' = [tcb EXCEPT ![cur_task].remaining = @ - 1] /\ Goto("hlt")
        BY <2>1 DEF exit_pick
      <3>2. OwnStep /\ me'.pc = "hlt" /\ me'.frames = me.frames
        BY <1>1, <3>1, GotoMe
      <3>3. \A t \in TCBs : /\ tcb'[t].next = tcb[t].next /\ tcb'[t].prev = tcb[t].prev
                            /\ tcb'[t].esp = tcb[t].esp /\ tcb'[t].state = tcb[t].state
        BY <3>1, TaskFields DEF TypeOK, Task
      <3> QED BY <3>2, <3>3 DEF Sound, Contexts, Kinds
    <2>2. CASE ~SliceLeft
      <3>1. tcb' = Rescheduled(n) /\ GotoWith("switch_save", n)
        BY <2>2 DEF exit_pick
      <3>2. OwnStep /\ me'.pc = "switch_save" /\ me'.ptr = n /\ me'.frames = me.frames
        BY <1>1, <3>1, GotoWithMe
      <3>3. n \in TCBs
        BY <1>3
      <3> QED BY <3>1, <3>2, <3>3, RescheduledLinks DEF Sound, Contexts
    <2> QED BY <2>1, <2>2
  <1>5. Out' = Out /\ ZHead' = ZHead /\ \A t \in TCBs : PrevOf'[t] = PrevOf[t]
    <2>1. Out' = Out /\ ZHead' = ZHead /\ \A t \in TCBs : PrevOf'[t] = tcb'[t].prev
      BY <1>1, <1>2, <1>4 DEF Out, ZHead, PrevOf, Unlinking
    <2> QED BY <1>2, <1>4, <2>1
  <1>6. Shape(A, Z, r)'
    BY <1>1, <1>4, <1>5, ShapeStep DEF Sound
  <1>7. Moving(A, Z)' /\ Holding(A, Z)'
    BY <1>1, <1>3, <1>4 DEF Moving, Holding, Unlinking
  <1>8. Calls'
    BY <1>1, <1>4 DEF Sound, Contexts, Calls, Terminations, Unlinking
  <1>9. Contexts'
    <2>1. interrupts' = (me'.pc # "destroy") /\ cpu \in allocated' /\ allocated' \subseteq allocated
      BY <1>1, <1>4 DEF Sound, Contexts, Stacks
    <2> QED BY <1>1, <1>4, <1>8, <2>1, ContextsStep DEF Sound
  <1> QED BY <1>6, <1>7, <1>9 DEF Sound

\* mt_switch_task saves the stack of the exiting task and makes the picked one current.
LEMMA SwitchSaveSound ==
  ASSUME TypeOK, IdleInv, NEW A \in SUBSET TCBs, NEW Z \in SUBSET TCBs, NEW r \in [TCBs -> Nat], Sound(A, Z, r),
         exit_switch_save
  PROVE  Sound(A, Z, r)'
  <1>1. /\ me.pc = "switch_save" /\ UNCHANGED <<allocated, terminated_tasks, cpu, interrupts>>
        /\ tcb' = [tcb EXCEPT ![cur_task].esp = [who |-> cpu, halts |-> TRUE]]
        /\ cur_task' = me.ptr /\ Goto("switch_load")
    BY DEF exit_switch_save, Using, At
  <1>2. cpu = cur_task /\ cpu \in TCBs /\ me.ptr \in (A \cup Z) \ {terminated_tasks}
    BY <1>1, Running DEF Sound, Contexts, Stacks, Holding
  <1>3. OwnStep /\ me'.pc = "switch_load" /\ me'.ptr = me.ptr /\ me'.frames = me.frames
    BY <1>1, GotoMe
  <1>4. /\ \A t \in TCBs : /\ tcb'[t].next = tcb[t].next /\ tcb'[t].prev = tcb[t].prev
                           /\ tcb'[t].state = tcb[t].state
        /\ \A t \in TCBs \ {cpu} : tcb'[t] = tcb[t]
        /\ tcb'[cpu].esp = [who |-> cpu, halts |-> TRUE]
    BY <1>1, <1>2, TaskFields DEF TypeOK, Task
  <1>5. Out' = Out /\ ZHead' = ZHead /\ \A t \in TCBs : PrevOf'[t] = PrevOf[t]
    BY <1>1, <1>3, <1>4 DEF Out, ZHead, PrevOf, Unlinking
  <1>6. Shape(A, Z, r)'
    BY <1>1, <1>4, <1>5, ShapeStep DEF Sound
  <1>7. Moving(A, Z)' /\ Holding(A, Z)'
    BY <1>1, <1>2, <1>3, <1>4 DEF Moving, Holding, Unlinking
  <1>8. Calls'
    BY <1>1, <1>3 DEF Sound, Contexts, Calls, Terminations, Unlinking
  <1>9. Others'
    BY <1>1, <1>3, <1>4 DEF Sound, Contexts, Others, OwnStep
  <1>10. Kinds'
    <2> SUFFICES ASSUME NEW t \in TCBs
                 PROVE  /\ ctx'[t].pc \in {"clean", "destroy"} => t = Cleaner
                        /\ ctx'[t].entry = "kshell" => ctx'[t].pc # "user"
                        /\ tcb'[t].state # "TS_FIN"
      BY DEF Kinds
    <2>1. CASE t = cpu
      BY <1>1, <1>3, <1>4, <2>1 DEF Sound, Contexts, Kinds, me
    <2>2. CASE t # cpu
      BY <1>3, <1>4, <2>2 DEF Sound, Contexts, Kinds, OwnStep
    <2> QED BY <2>1, <2>2
  <1>11. Stacks'
    <2>1. \A t \in allocated' : tcb'[t].esp.who = t
      BY <1>1, <1>2, <1>4 DEF Sound, Contexts, Stacks, TypeOK
    <2>2. interrupts' = (me'.pc # "destroy")
      BY <1>1, <1>3 DEF Sound, Contexts, Stacks
    <2>3. cpu' \in allocated' /\ cur_task' \in allocated'
      BY <1>1, <1>2 DEF Sound, Contexts, Stacks, Shape
    <2> QED BY <1>3, <2>1, <2>2, <2>3 DEF Stacks
  <1>12. HeadExits'
    BY <1>3 DEF HeadExits
  <1> QED BY <1>6, <1>7, <1>8, <1>9, <1>10, <1>11, <1>12 DEF Sound, Contexts

\* The processor goes over to the task n, whose context was parked.
LEMMA SwitchSound ==
  ASSUME TypeOK, NEW A \in SUBSET TCBs, NEW Z \in SUBSET TCBs, NEW r \in [TCBs -> Nat], Sound(A, Z, r),
         NEW n \in (A \cup Z) \ {terminated_tasks},
         me.pc \in (Labels \ (Windows \cup {"destroy"})) \cup {"switch_load"},
         UNCHANGED <<allocated, terminated_tasks, interrupts>>, interrupts,
         cur_task' = n, cpu' = n,
         \A t \in TCBs : /\ tcb'[t].next = tcb[t].next /\ tcb'[t].prev = tcb[t].prev
                         /\ tcb'[t].state # "TS_FIN",
         \A t \in allocated : tcb'[t].esp.who = t,
         \A t \in TCBs \ {cpu} : tcb'[t].esp = tcb[t].esp,
         Parked(ctx[cpu], tcb'[cpu].esp),
         ctx' = [ctx EXCEPT ![n].pc = IF tcb'[n].esp.halts THEN "hlt" ELSE @]
  PROVE  Sound(A, Z, r)'
  <1>1. n \in TCBs /\ n \in allocated
    BY DEF Sound, Shape
  <1>2. \A t \in TCBs : Parked(ctx[t], tcb'[t].esp)
    BY DEF Sound, Contexts, Others
  <1>3. \A t \in TCBs \ {n} : ctx'[t] = ctx[t]
    BY DEF TypeOK
  <1>4. /\ ctx'[n].entry = ctx[n].entry /\ ctx'[n].frames = << >>
        /\ ctx'[n].pc = (IF tcb'[n].esp.halts THEN "hlt" ELSE ctx[n].pc)
    <2>1. ctx'[n].entry = ctx[n].entry /\ ctx'[n].frames = ctx[n].frames
          /\ ctx'[n].pc = (IF tcb'[n].esp.halts THEN "hlt" ELSE ctx[n].pc)
      BY <1>1, ContextFields DEF TypeOK, Context
    <2>2. ctx[n].frames = << >>
      BY <1>1, <1>2 DEF Parked
    <2> QED BY <2>1, <2>2
  <1>5. me' = ctx'[n]
    BY DEF me
  <1>6. me'.pc \in Resting
    <2>1. ctx[n].pc \in Labels
      BY <1>1, ContextFields DEF TypeOK
    <2>2. me'.pc = "hlt" \/ (me'.pc = ctx[n].pc /\ ctx[n].pc \notin Windows \cup {"destroy"})
      BY <1>1, <1>2, <1>4, <1>5 DEF Parked
    <2> QED BY <2>1, <2>2 DEF Labels, Windows, Resting
  <1>7. Out' = Out /\ ZHead' = ZHead /\ \A t \in TCBs : PrevOf'[t] = PrevOf[t]
    <2>1. Out = {} /\ ZHead = terminated_tasks /\ \A t \in TCBs : PrevOf[t] = tcb[t].prev
      BY DEF Out, ZHead, PrevOf, Windows, Unlinking
    <2>2. (Out = {} /\ ZHead = terminated_tasks /\ \A t \in TCBs : PrevOf[t] = tcb[t].prev)'
      BY <1>6 DEF Out, ZHead, PrevOf, Resting, Unlinking
    <2> QED BY <2>1, <2>2
  <1>8. Shape(A, Z, r)'
    BY <1>7, ShapeStep DEF Sound
  <1>9. Moving(A, Z)' /\ Holding(A, Z)'
    BY <1>6 DEF Moving, Holding, Unlinking, Resting
  <1>10. Calls'
    BY <1>4, <1>5, <1>6 DEF Calls, Terminations, Unlinking, Resting
  <1>11. Others'
    BY <1>2, <1>3 DEF Others
  <1>12. Kinds'
    <2> SUFFICES ASSUME NEW t \in TCBs
                 PROVE  /\ ctx'[t].pc \in {"clean", "destroy"} => t = Cleaner
                        /\ ctx'[t].entry = "kshell" => ctx'[t].pc # "user"
                        /\ tcb'[t].state # "TS_FIN"
      BY DEF Kinds
    <2>1. CASE t = n
      BY <1>4, <2>1 DEF Sound, Contexts, Kinds
    <2>2. CASE t # n
      BY <1>3, <2>2 DEF Sound, Contexts, Kinds
    <2> QED BY <2>1, <2>2
  <1>13. Stacks'
    <2>1. interrupts' = (me'.pc # "destroy")
      BY <1>6 DEF Resting
    <2> QED BY <1>1, <2>1 DEF Stacks
  <1>14. HeadExits'
    BY DEF HeadExits
  <1> QED BY <1>8, <1>9, <1>10, <1>11, <1>12, <1>13, <1>14 DEF Sound, Contexts

\* The second half of mt_switch_task, for a task that exits.
LEMMA SwitchLoadSound ==
  ASSUME TypeOK, IdleInv, NEW A \in SUBSET TCBs, NEW Z \in SUBSET TCBs, NEW r \in [TCBs -> Nat], Sound(A, Z, r),
         exit_switch_load
  PROVE  Sound(A, Z, r)'
  <1> PICK n : n = me.ptr
    OBVIOUS
  <1>1. me.pc = "switch_load" /\ UNCHANGED <<lists, cur_task, interrupts>> /\ Resume(tcb[n].esp)
    BY DEF exit_switch_load, Using, At
  <1>2. n \in (A \cup Z) \ {terminated_tasks} /\ n = cur_task /\ tcb[cpu].esp.halts
    BY <1>1 DEF Sound, Holding
  <1>3. UNCHANGED <<tcb, allocated, terminated_tasks>> /\ interrupts
    BY <1>1 DEF lists, Sound, Contexts, Stacks
  <1>4. \A t \in allocated : tcb[t].esp.who = t
    BY <1>1 DEF Sound, Contexts, Stacks
  <1>5. n \in allocated
    BY <1>2 DEF Sound, Shape
  <1>6. cpu' = n /\ ctx' = [ctx EXCEPT ![n].pc = IF tcb'[n].esp.halts THEN "hlt" ELSE @]
    BY <1>1, <1>3, <1>4, <1>5 DEF Resume
  <1>7. Parked(ctx[cpu], tcb'[cpu].esp)
    BY <1>1, <1>2, <1>3 DEF Parked, Sound, Contexts, Calls, me, Terminations, Unlinking
  <1>8. \A t \in TCBs : tcb[t].state # "TS_FIN"
    BY DEF Sound, Contexts, Kinds
  <1> QED BY <1>1, <1>2, <1>3, <1>4, <1>6, <1>7, <1>8, SwitchSound

\* The timer interrupt, when it hits no window.
LEMMA TickSound ==
  ASSUME TypeOK, IdleInv, NEW A \in SUBSET TCBs, NEW Z \in SUBSET TCBs, NEW r \in [TCBs -> Nat], Sound(A, Z, r),
         Tick, ~torn'
  PROVE  Sound(A, Z, r)'
  <1>1. interrupts /\ UNCHANGED <<allocated, terminated_tasks, interrupts>> /\ me.pc # "destroy"
    BY DEF Tick, Sound, Contexts, Stacks
  <1>2. CASE SliceLeft /\ tcb' = [tcb EXCEPT ![cur_task].remaining = @ - 1]
                       /\ UNCHANGED <<cur_task, cpu, ctx, torn>>
    <2>1. \A t \in TCBs : /\ tcb'[t].next = tcb[t].next /\ tcb'[t].prev = tcb[t].prev
                          /\ tcb'[t].esp = tcb[t].esp /\ tcb'[t].state = tcb[t].state
      BY <1>2, TaskFields DEF TypeOK, Task
    <2>2. me' = me /\ depth' = depth /\ top' = top
      BY <1>2 DEF me, depth, top
    <2>3. me.pc \in Unlinking => top.t \in TCBs
      BY TerminationFacts DEF Terminations
    <2>4. Out' = Out /\ ZHead' = ZHead
      BY <1>1, <2>2 DEF Out, ZHead
    <2>5. \A t \in TCBs : PrevOf'[t] = PrevOf[t]
      BY <2>1, <2>2, <2>3 DEF PrevOf, Unlinking
    <2>6. Shape(A, Z, r)'
      BY <1>1, <2>1, <2>4, <2>5, ShapeStep DEF Sound
    <2>7. Moving(A, Z)'
      <3>1. terminated_tasks \in Pointers
        BY DEF TypeOK
      <3>2. Moving(A, Z)
        BY DEF Sound
      <3>3. terminated_tasks # NULL => tcb'[terminated_tasks].prev = tcb[terminated_tasks].prev
        BY <2>1, <3>1 DEF Pointers
      <3> QED BY <1>1, <2>1, <2>2, <2>3, <3>2, <3>3 DEF Moving, Unlinking
    <2>8. Holding(A, Z)'
      <3>1. Holding(A, Z) /\ cpu \in TCBs
        BY Running DEF Sound
      <3> QED BY <1>1, <1>2, <2>1, <2>2, <3>1 DEF Holding
    <2>9. Calls'
      BY <1>1, <2>2 DEF Sound, Contexts, Calls, Nested
    <2>10. Others' /\ Kinds'
      BY <1>2, <2>1 DEF Sound, Contexts, Others, Kinds
    <2>11. Stacks'
      <3>1. \A t \in allocated : tcb'[t].esp.who = tcb[t].esp.who
        BY <2>1 DEF TypeOK
      <3> QED BY <1>1, <1>2, <2>2, <3>1 DEF Sound, Contexts, Stacks
    <2>12. HeadExits'
      BY <1>1, <1>2, <2>2 DEF Sound, Contexts, HeadExits
    <2> QED BY <2>6, <2>7, <2>8, <2>9, <2>10, <2>11, <2>12 DEF Sound, Contexts
  <1>3. CASE ~SliceLeft
    <2> PICK n : n = mt_pick_next_task
      OBVIOUS
    <2> DEFINE f == Rescheduled(n)
               saved == [f EXCEPT ![cur_task].esp = [who |-> cpu, halts |-> FALSE]]
    <2>1. tcb' = saved /\ cur_task' = n /\ Resume(saved[n].esp) /\ me.pc \notin Windows
      BY <1>3 DEF Tick
    <2>2. cpu = cur_task /\ cpu \in TCBs /\ me.pc \in Labels
      <3>1. me.pc \in Labels
        BY Running DEF Context
      <3> QED BY <2>1, <3>1, Running DEF Sound, Contexts, Stacks, Windows
    <2>3. Out = {} /\ ZHead = terminated_tasks /\ allocated = A \cup Z
      BY <1>1, <2>1 DEF Out, ZHead, Windows, Unlinking, Sound, Shape
    <2>4. n \in (A \cup Z) \ {terminated_tasks}
      BY <2>3, PickInside DEF Sound, Contexts, Stacks
    <2>5. n \in TCBs /\ n \in allocated /\ f \in [TCBs -> Task]
      BY <2>3, <2>4, RescheduledType
    <2>6. \A u \in TCBs : /\ f[u].next = tcb[u].next /\ f[u].prev = tcb[u].prev
                          /\ f[u].esp = tcb[u].esp /\ f[u].state # "TS_FIN"
      BY <2>5, RescheduledLinks DEF Sound, Contexts
    <2> HIDE DEF f
    <2>7. /\ \A t \in TCBs : /\ saved[t].next = f[t].next /\ saved[t].prev = f[t].prev
                             /\ saved[t].state = f[t].state
          /\ \A t \in TCBs \ {cpu} : saved[t] = f[t]
          /\ saved[cpu].esp = [who |-> cpu, halts |-> FALSE]
      BY <2>2, <2>5 DEF Task
    <2> HIDE DEF saved
    <2>8. \A t \in allocated : tcb'[t].esp.who = t
      <3>1. \A t \in allocated : t = cur_task \/ tcb[t].esp.who = t
        BY DEF Sound, Contexts, Stacks
      <3> QED BY <2>1, <2>2, <2>6, <2>7, <3>1 DEF TypeOK
    <2>9. cpu' = n /\ ctx' = [ctx EXCEPT ![n].pc = IF tcb'[n].esp.halts THEN "hlt" ELSE @]
      BY <2>1, <2>5, <2>8 DEF Resume
    <2>10. /\ \A t \in TCBs : /\ tcb'[t].next = tcb[t].next /\ tcb'[t].prev = tcb[t].prev
                              /\ tcb'[t].state # "TS_FIN"
           /\ \A t \in TCBs \ {cpu} : tcb'[t].esp = tcb[t].esp
      BY <2>1, <2>6, <2>7
    <2>11. Parked(ctx[cpu], tcb'[cpu].esp)
      BY <1>1, <2>1 DEF Parked, Sound, Contexts, Calls, me, Terminations, Unlinking, Windows
    <2> QED BY <1>1, <2>1, <2>2, <2>4, <2>8, <2>9, <2>10, <2>11, SwitchSound
  <1> QED BY <1>2, <1>3 DEF Tick

\* What mt_init leaves behind: three tasks on the list, none terminated.
LEMMA ListInit == Init => Listed
  <1> SUFFICES ASSUME Init PROVE Listed
    OBVIOUS
  <1> DEFINE A == {Idle, Test, Cleaner}
             r == [t \in TCBs |-> IF t = Test THEN 1 ELSE IF t = Cleaner THEN 2 ELSE 0]
  <1>1. TypeOK /\ A \in SUBSET TCBs /\ {} \in SUBSET TCBs /\ r \in [TCBs -> Nat]
    BY TypeInit, BootAssumption
  <1>2. /\ Idle \in TCBs /\ Test \in TCBs /\ Cleaner \in TCBs
        /\ Idle # Test /\ Idle # Cleaner /\ Test # Cleaner /\ NULL \notin TCBs
    BY BootAssumption
  <1>3. /\ tcb[Idle].next = Test /\ tcb[Test].next = Cleaner /\ tcb[Cleaner].next = NULL
        /\ tcb[Test].prev = Idle /\ tcb[Cleaner].prev = Test
        /\ \A t \in TCBs : /\ tcb[t].esp.who = t /\ tcb[t].esp.halts = FALSE
                           /\ tcb[t].state = "TS_RDY"
    BY <1>2 DEF Init, NewTask
  <1>4. /\ \A t \in TCBs : ctx[t].frames = << >>
        /\ ctx[Idle].pc = "kmain" /\ ctx[Idle].entry = "ker_idle"
        /\ ctx[Cleaner].pc = "clean" /\ ctx[Cleaner].entry = "cleaner"
        /\ \A t \in TCBs \ {Idle, Cleaner} : ctx[t].pc = "hlt" /\ ctx[t].entry = "ker_idle"
    BY <1>2 DEF Init, NewContext
  <1>5. /\ allocated = A /\ terminated_tasks = NULL /\ cur_task = Idle /\ cpu = Idle
        /\ interrupts = TRUE /\ me = ctx[Idle]
    BY DEF Init, tasks, me
  <1>6. Out = {} /\ ZHead = NULL /\ \A t \in TCBs : PrevOf[t] = tcb[t].prev
    BY <1>4, <1>5 DEF Out, ZHead, PrevOf, Unlinking
  <1>7. Chain(A, Idle, NextOf, PrevOf, r)
    <2>1. NextOf[Idle] = Test /\ NextOf[Test] = Cleaner /\ NextOf[Cleaner] = NULL
      BY <1>2, <1>3, LinksOf
    <2>2. PrevOf[Test] = Idle /\ PrevOf[Cleaner] = Test
      BY <1>2, <1>3, <1>6
    <2>3. r[Idle] = 0 /\ r[Test] = 1 /\ r[Cleaner] = 2
      BY <1>2
    <2> HIDE DEF r
    <2> QED BY <1>2, <2>1, <2>2, <2>3 DEF Chain
  <1>8. Chain({}, ZHead, NextOf, PrevOf, r)
    BY <1>6 DEF Chain
  <1> HIDE DEF r
  <1>9. Shape(A, {}, r)
    BY <1>5, <1>6, <1>7, <1>8 DEF Shape
  <1>10. Moving(A, {}) /\ Holding(A, {})
    BY <1>4, <1>5 DEF Moving, Holding, Unlinking
  <1>11. Calls /\ HeadExits
    BY <1>2, <1>4, <1>5 DEF Calls, HeadExits, Terminations, Unlinking
  <1>12. Others
    BY <1>2, <1>4, <1>5 DEF Others, Parked, Windows
  <1>13. Kinds
    BY <1>2, <1>3, <1>4 DEF Kinds
  <1>14. Stacks
    <2>1. interrupts = (me.pc # "destroy")
      BY <1>4, <1>5
    <2>2. \A t \in allocated : tcb[t].esp.who = t
      BY <1>2, <1>3, <1>5
    <2> QED BY <1>5, <2>1, <2>2 DEF Stacks
  <1> QED BY <1>1, <1>9, <1>10, <1>11, <1>12, <1>13, <1>14 DEF Listed, Sound, Contexts

\* No step undoes torn.
LEMMA TornStays ==
  ASSUME TypeOK, [Next]_vars PROVE torn => torn'
  <1>1. CASE UNCHANGED vars
    BY <1>1 DEF vars
  <1>2. CASE Tick
    BY <1>2 DEF Tick
  <1>3. CASE Step
    <2>1. CASE mt_spawn
      BY <2>1 DEF mt_spawn, Spawn, gen_pid, inc_pid, ktask_create, mt_push_task_find,
                  mt_push_task_link, mt_push_task_backlink, history
    <2>2. CASE waiting
      BY <2>2 DEF waiting, sys_wait, Hop, wait_set_fg, wait_poll, wait_reset_fg, history
    <2>3. CASE mt_task_terminate
      BY <2>3 DEF mt_task_terminate, terminate_unlink_prev, terminate_unlink_next, terminate_push,
                  terminate_push_first, terminate_push_next, terminate_push_prev,
                  terminate_push_head, terminate_scan, history
    <2>4. CASE cleaner \/ mt_schedule_exit
      BY <2>4 DEF cleaner, cleaner_start, cleaner_destroy, cleaner_done,
                  mt_schedule_exit, exit_pick, exit_switch_save, exit_switch_load, history
    <2>5. CASE kshell_term \/ mt_task_terminate_pid \/ sys_exit
      BY <2>5 DEF kshell_term, mt_task_terminate_pid, sys_exit, history
    <2> QED BY <1>3, <2>1, <2>2, <2>3, <2>4, <2>5 DEF Step
  <1> QED BY <1>1, <1>2, <1>3 DEF Next

\* Every step that does not tear the lists keeps them sound.
LEMMA SoundStep ==
  ASSUME TypeOK, IdleInv, NEW A \in SUBSET TCBs, NEW Z \in SUBSET TCBs, NEW r \in [TCBs -> Nat], Sound(A, Z, r),
         [Next]_vars, ~torn'
  PROVE  Keeps(A)
  <1>2. Sound(A, Z, r)
    OBVIOUS
  <1>3. Sound(A, Z, r)' => Keeps(A)
    BY DEF Keeps
  <1>4. CASE UNCHANGED vars
    <2>1. Shape(A, Z, r)'
      BY <1>2, <1>4 DEF vars, Sound, Shape, Out, ZHead, PrevOf, NextOf, me, top, depth
    <2>2. Moving(A, Z)' /\ Holding(A, Z)'
      <3>1. UNCHANGED <<tcb, ctx, cpu, terminated_tasks, cur_task>> /\ Moving(A, Z) /\ Holding(A, Z)
        BY <1>2, <1>4 DEF vars, Sound
      <3>4. me' = me /\ top' = top
        BY <3>1 DEF me, top, depth
      <3>2. Moving(A, Z)'
        BY <3>1, <3>4, ZenonT(40) DEF Moving
      <3>3. Holding(A, Z)'
        BY <3>1, <3>4, ZenonT(40) DEF Holding
      <3> QED BY <3>2, <3>3
    <2>3. Contexts'
      BY <1>2, <1>4 DEF vars, Sound, Contexts, Calls, Nested, Others, Kinds, Stacks, HeadExits, me
    <2> QED BY <1>3, <2>1, <2>2, <2>3 DEF Sound
  <1>5. CASE Tick
    BY <1>2, <1>3, <1>5, TickSound
  <1>6. CASE mt_spawn
    <2>1. CASE Spawn \/ gen_pid \/ inc_pid
      BY <1>2, <1>3, <2>1, QuietActions
    <2>2. CASE ktask_create
      BY <1>2, <1>3, <2>2, CreateSound
    <2>3. CASE mt_push_task_find
      BY <1>2, <1>3, <2>3, FindTailSound
    <2>4. CASE mt_push_task_link
      BY <1>2, <2>4, LinkSound
    <2>5. CASE mt_push_task_backlink
      BY <1>2, <1>3, <2>5, BacklinkSound
    <2> QED BY <1>6, <2>1, <2>2, <2>3, <2>4, <2>5 DEF mt_spawn
  <1>7. CASE waiting
    <2>1. CASE Hop /\ me.pc = "find_term"
      BY <1>2, <1>3, <2>1, FindTermSound
    <2>2. CASE ~(Hop /\ me.pc = "find_term")
      BY <1>2, <1>3, <1>7, <2>2, QuietActions DEF waiting
    <2> QED BY <2>1, <2>2
  <1>8. CASE kshell_term
    BY <1>2, <1>3, <1>8, FindTermSound
  <1>9. CASE mt_task_terminate_pid \/ sys_exit
    BY <1>2, <1>3, <1>9, FirstCallSound
  <1>10. CASE mt_task_terminate
    <2>1. CASE terminate_unlink_prev
      BY <1>2, <2>1, UnlinkPrevSound
    <2>2. CASE terminate_unlink_next
      BY <1>2, <1>3, <2>2, UnlinkNextSound
    <2>3. CASE terminate_push
      BY <1>2, <1>3, <2>3, PushSound
    <2>4. CASE terminate_push_first
      BY <1>2, <2>4, PushFirstSound
    <2>5. CASE terminate_push_next
      BY <1>2, <1>3, <2>5, PushNextSound
    <2>6. CASE terminate_push_prev
      BY <1>2, <1>3, <2>6, PushPrevSound
    <2>7. CASE terminate_push_head
      BY <1>2, <2>7, PushHeadSound
    <2>8. CASE terminate_scan
      BY <1>2, <1>3, <2>8, ScanSound
    <2> QED BY <1>10, <2>1, <2>2, <2>3, <2>4, <2>5, <2>6, <2>7, <2>8 DEF mt_task_terminate
  <1>11. CASE cleaner
    <2>1. CASE cleaner_start
      BY <1>2, <1>3, <2>1, CleanerStartSound
    <2>2. CASE cleaner_destroy
      BY <1>2, <2>2, CleanerDestroySound
    <2>3. CASE cleaner_done
      BY <1>2, <1>3, <2>3, CleanerDoneSound
    <2> QED BY <1>11, <2>1, <2>2, <2>3 DEF cleaner
  <1>12. CASE mt_schedule_exit
    <2>1. CASE exit_pick
      BY <1>2, <1>3, <2>1, ExitPickSound
    <2>2. CASE exit_switch_save
      BY <1>2, <1>3, <2>2, SwitchSaveSound
    <2>3. CASE exit_switch_load
      BY <1>2, <1>3, <2>3, SwitchLoadSound
    <2> QED BY <1>12, <2>1, <2>2, <2>3 DEF mt_schedule_exit
  <1> QED BY <1>4, <1>5, <1>6, <1>7, <1>8, <1>9, <1>10, <1>11, <1>12 DEF Next, Step

\* Every step preserves the inductive invariant.
LEMMA ListStep ==
  ASSUME TypeOK, IdleInv, ListInv, [Next]_vars PROVE ListInv'
  <1> SUFFICES ASSUME ~torn' PROVE Listed'
    BY DEF ListInv
  <1>1. Listed
    BY TornStays DEF ListInv
  <1>2. PICK A \in SUBSET TCBs, Z \in SUBSET TCBs, r \in [TCBs -> Nat] : Sound(A, Z, r)
    BY <1>1 DEF Listed
  <1>3. Keeps(A)
    BY <1>2, SoundStep
  <1> QED BY <1>3 DEF Keeps, Listed

----------------------------------------------------------------------------
(* The theorems.                                                            *)

\* The lists are sound in every reachable state that is not torn.
LEMMA ListInvariant == Spec => [](TypeOK /\ IdleInv /\ ListInv)
  <1>1. Init => ListInv
    BY ListInit DEF ListInv
  <1>2. TypeOK /\ IdleInv /\ ListInv /\ [Next]_vars => ListInv'
    BY ListStep
  <1>3. TypeOK /\ IdleInv /\ [Next]_vars => IdleInv'
    <2> SUFFICES ASSUME TypeOK, IdleInv, [Next]_vars PROVE IdleInv'
      OBVIOUS
    <2>1. CASE UNCHANGED vars
      BY <2>1 DEF vars, IdleInv, IdleImmortal, SafeContext
    <2> QED BY <2>1, IdleStep, IdleTick DEF Next
  <1> QED BY TypeCorrect, IdleInit, <1>1, <1>2, <1>3, PTL DEF Spec

\* Between two updates, walking the two lists finds the sets of the invariant.
LEMMA SettledFacts ==
  ASSUME TypeOK, ListInv, ~torn, me.pc \notin Windows \ {"unlink_prev"}, interrupts
  PROVE  \E r \in [TCBs -> Nat] :
           /\ Sound(Live, Zombies, r) /\ Out = {} /\ ZHead = terminated_tasks
           /\ Live \in SUBSET TCBs /\ Zombies \in SUBSET TCBs
           /\ \A t \in TCBs : PrevOf[t] = tcb[t].prev
           /\ Hops(tasks)[MaxHops] = NULL /\ Hops(terminated_tasks)[MaxHops] = NULL
  <1>1. PICK A \in SUBSET TCBs, Z \in SUBSET TCBs, r \in [TCBs -> Nat] : Sound(A, Z, r)
    BY DEF ListInv, Listed
  <1>2. me.pc # "destroy"
    BY <1>1 DEF Sound, Contexts, Stacks
  <1>3. Out = {} /\ ZHead = terminated_tasks /\ \A t \in TCBs : PrevOf[t] = tcb[t].prev
    BY <1>2 DEF Out, ZHead, PrevOf, Windows, Unlinking
  <1>4. Reach(Idle) = A /\ Hops(Idle)[MaxHops] = NULL
    BY <1>1, WalkChain DEF Sound, Shape
  <1>5. Reach(terminated_tasks) = Z /\ Hops(terminated_tasks)[MaxHops] = NULL
    <2>1. Chain(Z, terminated_tasks, NextOf, PrevOf, r)
      BY <1>1, <1>3 DEF Sound, Shape
    <2> QED BY <2>1, WalkChain
  <1>6. Live = A /\ Zombies = Z
    BY <1>4, <1>5 DEF Live, Zombies, tasks
  <1> HIDE DEF Live, Zombies
  <1> QED BY <1>1, <1>3, <1>4, <1>5, <1>6 DEF tasks

\* Until a tick hits a window or the cleaner is terminated, every allocated TCB
\* is on exactly one of the two lists, both lists end, and their links agree.
THEOREM ListsStaySound == Spec => []ListsSound
  <1>1. TypeOK /\ ListInv => ListsSound
    <2> SUFFICES ASSUME TypeOK, ListInv, Settled PROVE ListsSound
      BY DEF ListsSound, Partition, WellLinked
    <2>1. PICK r \in [TCBs -> Nat] :
           /\ Sound(Live, Zombies, r) /\ Out = {} /\ ZHead = terminated_tasks
           /\ Live \in SUBSET TCBs /\ Zombies \in SUBSET TCBs
           /\ \A t \in TCBs : PrevOf[t] = tcb[t].prev
           /\ Hops(tasks)[MaxHops] = NULL /\ Hops(terminated_tasks)[MaxHops] = NULL
      BY SettledFacts DEF Settled
    <2>2. Live \cap Zombies = {} /\ allocated = Live \cup Zombies
      BY <2>1 DEF Sound, Shape
    <2>3. \A t \in Live : tcb[t].next # NULL => tcb[tcb[t].next].prev = t
      <3> SUFFICES ASSUME NEW t \in Live, tcb[t].next # NULL PROVE tcb[tcb[t].next].prev = t
        OBVIOUS
      <3>1. NextOf[t] = tcb[t].next
        BY <2>1, LinksOf
      <3>2. NextOf[t] \in Live /\ PrevOf[NextOf[t]] = t
        BY <2>1, <3>1 DEF Sound, Shape, Chain
      <3> QED BY <2>1, <3>1, <3>2
    <2> QED BY <2>1, <2>2, <2>3 DEF ListsSound, Partition, WellLinked
  <1> QED BY ListInvariant, <1>1, PTL

\* Until then the processor runs on the stack of cur_task, whose TCB is not
\* freed, and every other task on the list resumes on its own stack.
THEOREM StacksStayOwn == Spec => []OwnStack
  <1>1. TypeOK /\ ListInv => OwnStack
    <2> SUFFICES ASSUME TypeOK, ListInv, Settled PROVE OwnStack
      BY DEF OwnStack
    <2>1. PICK r \in [TCBs -> Nat] :
           /\ Sound(Live, Zombies, r) /\ Out = {} /\ ZHead = terminated_tasks
           /\ Live \in SUBSET TCBs /\ Zombies \in SUBSET TCBs
           /\ \A t \in TCBs : PrevOf[t] = tcb[t].prev
           /\ Hops(tasks)[MaxHops] = NULL /\ Hops(terminated_tasks)[MaxHops] = NULL
      BY SettledFacts DEF Settled
    <2>2. me.pc # "switch_load" /\ Live \subseteq allocated
      BY <2>1 DEF Settled, Windows, Sound, Shape
    <2> QED BY <2>1, <2>2 DEF Sound, Contexts, Stacks, OwnStack
  <1> QED BY ListInvariant, <1>1, PTL

\* Until then the prev of the task mt_task_terminate unlinks names the one task
\* whose next leads to it, also when its loop has gone on into terminated_tasks.
THEOREM UnlinksStaySound == Spec => []UnlinkSound
  <1>1. TypeOK /\ IdleInv /\ ListInv => UnlinkSound
    <2> SUFFICES ASSUME TypeOK, IdleInv, ListInv, ~torn, At("unlink_prev"), tcb[top.t].pid # 0 PROVE UnlinkSound
      BY DEF UnlinkSound
    <2>1. me.pc = "unlink_prev" /\ me.pc \notin Windows \ {"unlink_prev"}
      BY DEF At
    <2>2. interrupts
      BY <2>1 DEF ListInv, Listed, Sound, Contexts, Stacks
    <2>3. PICK r \in [TCBs -> Nat] :
           /\ Sound(Live, Zombies, r) /\ Out = {} /\ ZHead = terminated_tasks
           /\ Live \in SUBSET TCBs /\ Zombies \in SUBSET TCBs
           /\ \A t \in TCBs : PrevOf[t] = tcb[t].prev
           /\ Hops(tasks)[MaxHops] = NULL /\ Hops(terminated_tasks)[MaxHops] = NULL
      BY <2>1, <2>2, SettledFacts
    <2> PICK x : x = top.t
      OBVIOUS
    <2>4. x \in (Live \cup Zombies) \ {terminated_tasks}
      BY <2>1, <2>3 DEF Sound, Moving
    <2>5. x # Idle /\ x # NULL /\ x \in TCBs
      BY <2>3, <2>4, BootAssumption DEF IdleInv, IdleImmortal
    <2>6. \A t \in TCBs : NextOf[t] = tcb[t].next /\ PrevOf[t] = tcb[t].prev
      BY <2>3, LinksOf
    <2>7. Chain(Live, Idle, NextOf, PrevOf, r) /\ Chain(Zombies, terminated_tasks, NextOf, PrevOf, r)
      BY <2>3 DEF Sound, Shape
    <2> HIDE DEF Live, Zombies
    <2>8. PrevOf[x] \in Live \cup Zombies /\ NextOf[PrevOf[x]] = x
      BY <2>4, <2>5, <2>7 DEF Chain
    <2>9. \A u \in Live \cup Zombies : NextOf[u] = x => PrevOf[x] = u
      BY <2>5, <2>7 DEF Chain
    <2>10. tcb[x].prev = PrevOf[x]
      BY <2>5, <2>6
    <2>11. \A u \in Live \cup Zombies : tcb[u].next = x <=> tcb[x].prev = u
      BY <2>3, <2>6, <2>8, <2>9, <2>10
    <2> QED BY <2>8, <2>10, <2>11 DEF UnlinkSound
  <1> QED BY ListInvariant, <1>1, PTL

----------------------------------------------------------------------------
(* The pids.  A pid is held from gen_pid on, before its task is on the list. *)

\* The lines between the choice of a pid and the end of ktask_create.
Held == {"gen_pid", "inc_pid", "create"}

\* The lines of mt_push_task before the new task is on the list.
Appending == {"find_tail", "link"}

\* The lines of a context that spawns.
Prompts == {"kmain", "prompt", "find_term"} \cup Held

\* The contexts that asked for a pid and have not advanced next_pid yet.
Spawning == {t \in TCBs : ctx[t].pc \in {"gen_pid", "inc_pid"}}

\* The contexts that hold a pid no task has yet.
Holders == {t \in TCBs : ctx[t].pc \in {"inc_pid", "create"}}

\* Where programs do not run programs, kmain and then the shell it has spawned
\* are the only ones to spawn.
Spawner(c) == c.pc \in Prompts \/ c.entry = "kshell"

\* At most one context can spawn.
OneSpawner == ~UserRuns => \A t, u \in TCBs : Spawner(ctx[t]) /\ Spawner(ctx[u]) => t = u

\* The pids of the listed tasks, of the new one and of those to come differ.
Distinct(A) ==
  /\ \A t, u \in A \cup New : t # u => tcb[t].pid # tcb[u].pid
  /\ \A c \in Holders, t \in A \cup New : ctx[c].pid # tcb[t].pid
  /\ \A c, d \in Holders : c # d => ctx[c].pid # ctx[d].pid

\* Until the search, pids are handed out in order, one for each spawn.
Counted(A) ==
  /\ Cardinality(Spawning) + next_pid <= spawns + 3
  /\ \A t \in A \cup New : tcb[t].pid < next_pid
  /\ \A c \in TCBs : /\ ctx[c].pc = "create" => ctx[c].pid < next_pid
                     /\ ctx[c].pc = "inc_pid" => ctx[c].pid = next_pid

\* After it, nobody asks for a pid as long as PidsLeft holds.
Searched == spawns + 3 >= MAX_PID + 2 /\ \A c \in TCBs : ctx[c].pc # "gen_pid"

\* What is known of the pids while some are left.
Pids(A) == PidsLeft => Distinct(A) /\ (Counted(A) \/ Searched)

\* The inductive invariant of the pids.
PidInv == ~torn => \E A, Z \in SUBSET TCBs, r \in [TCBs -> Nat] :
                     Sound(A, Z, r) /\ OneSpawner /\ Pids(A)

\* A step that hands out no pid: no context starts to hold one or to spawn.
Calm(c, d) ==
  /\ d.entry = c.entry
  /\ d.pc \in Held => d.pc = c.pc /\ d.pid = c.pid
  /\ d.pc \in Appending => c.pc \in Appending /\ d.new = c.new
  /\ d.pc \in Prompts => Spawner(c)

\* No context does.
AllCalm == \A t \in TCBs : Calm(ctx[t], ctx'[t])

\* Moving the program counter is calm, up to these conditions.
LEMMA GotoCalm ==
  ASSUME TypeOK, NEW l, Goto(l), l \notin Held, l \in Prompts => Spawner(me),
         l \in Appending => me.pc \in Appending
  PROVE  AllCalm
  BY ContextFields DEF Goto, AllCalm, Calm, Spawner, TypeOK, Context, me

\* So is moving it and keeping a pointer.
LEMMA GotoWithCalm ==
  ASSUME TypeOK, NEW l, NEW p, GotoWith(l, p), l \notin Held, l \in Prompts => Spawner(me),
         l \in Appending => me.pc \in Appending
  PROVE  AllCalm
  BY ContextFields DEF GotoWith, AllCalm, Calm, Spawner, TypeOK, Context, me

\* A context that stays where it is is calm.
LEMMA SameCalm == \A c : Calm(c, c)
  BY DEF Calm, Spawner

\* mt_task_terminate hands out no pids.
LEMMA CallCalm ==
  ASSUME TypeOK, NEW t, Call(t) PROVE AllCalm
  <1>1. ctx'[cpu].entry = ctx[cpu].entry /\ ctx'[cpu].pc = "unlink_prev"
    BY ContextFields DEF Call, TypeOK, Context
  <1>2. \A u \in TCBs \ {cpu} : ctx'[u] = ctx[u]
    BY DEF Call, TypeOK
  <1>3. Calm(ctx[cpu], ctx'[cpu])
    BY <1>1 DEF Calm, Held, Appending, Prompts
  <1> QED BY <1>2, <1>3, SameCalm DEF AllCalm

\* Neither does the loop over the children.
LEMMA ScanFromCalm ==
  ASSUME TypeOK, NEW p, ScanFrom(p) PROVE AllCalm
  <1>1. ctx'[cpu].entry = ctx[cpu].entry /\ ctx'[cpu].pc = "scan"
    BY ContextFields DEF ScanFrom, TypeOK, Context
  <1>2. \A u \in TCBs \ {cpu} : ctx'[u] = ctx[u]
    BY DEF ScanFrom, TypeOK
  <1>3. Calm(ctx[cpu], ctx'[cpu])
    BY <1>1 DEF Calm, Held, Appending, Prompts
  <1> QED BY <1>2, <1>3, SameCalm DEF AllCalm

\* Nor its return.
LEMMA TerminateReturnCalm ==
  ASSUME TypeOK, TerminateReturn PROVE AllCalm
  <1>1. /\ ctx'[cpu].entry = ctx[cpu].entry
        /\ ctx'[cpu].pc \in {"pick", "scan"} \/ (ctx'[cpu].pc = "prompt" /\ ctx[cpu].entry = "kshell")
    BY ContextFields DEF TerminateReturn, TypeOK, Context, me
  <1>2. \A u \in TCBs \ {cpu} : ctx'[u] = ctx[u]
    BY DEF TerminateReturn, TypeOK
  <1>3. Calm(ctx[cpu], ctx'[cpu])
    BY <1>1 DEF Calm, Held, Appending, Prompts, Spawner
  <1> QED BY <1>2, <1>3, SameCalm DEF AllCalm

\* Nor does a switch.
LEMMA ResumeCalm ==
  ASSUME TypeOK, NEW e \in [who : TCBs, halts : BOOLEAN], Resume(e) PROVE AllCalm
  <1>1. /\ ctx'[e.who].entry = ctx[e.who].entry /\ ctx'[e.who].pid = ctx[e.who].pid
        /\ ctx'[e.who].new = ctx[e.who].new
        /\ ctx'[e.who].pc = "hlt" \/ ctx'[e.who].pc = ctx[e.who].pc
    BY ContextFields DEF Resume, TypeOK, Context
  <1>2. \A u \in TCBs \ {e.who} : ctx'[u] = ctx[u]
    BY DEF Resume, TypeOK
  <1>3. Calm(ctx[e.who], ctx'[e.who])
    BY <1>1 DEF Calm, Held, Appending, Prompts, Spawner
  <1> QED BY <1>2, <1>3, SameCalm DEF AllCalm

\* A system call returns to the prompt only in the shell.
LEMMA ReturnCalm == Return \notin Held \cup Appending /\ (Return \in Prompts => Spawner(me))
  BY DEF Return, Held, Appending, Prompts, Spawner

\* The steps that hand out no pid.
LEMMA CalmSteps ==
  ASSUME TypeOK, Kinds, [Next]_vars,
         ~Spawn, ~gen_pid, ~inc_pid, ktask_create => Goto(Return) /\ UNCHANGED <<tcb, allocated>>
  PROVE  /\ AllCalm /\ next_pid' = next_pid /\ spawns' = spawns
         /\ \A t \in TCBs : tcb'[t].pid = tcb[t].pid
  <1> USE DEF Held, Appending, Prompts
  <1>1. CASE UNCHANGED vars
    BY <1>1, SameCalm DEF vars, AllCalm
  <1>2. CASE Tick
    <2>1. next_pid' = next_pid /\ spawns' = spawns
      BY <1>2 DEF Tick
    <2>2. CASE SliceLeft /\ tcb' = [tcb EXCEPT ![cur_task].remaining = @ - 1]
                         /\ UNCHANGED <<cur_task, cpu, ctx, torn>>
      <3>1. \A t \in TCBs : tcb'[t].pid = tcb[t].pid
        BY <2>2, TaskFields DEF TypeOK, Task
      <3> QED BY <2>1, <2>2, <3>1, SameCalm DEF AllCalm
    <2>3. CASE ~SliceLeft
      <3> DEFINE n == mt_pick_next_task
                 f == Rescheduled(n)
                 saved == [f EXCEPT ![cur_task].esp = [who |-> cpu, halts |-> FALSE]]
      <3>1. tcb' = saved /\ Resume(saved[n].esp)
        BY <1>2, <2>3 DEF Tick
      <3>2. n \in TCBs /\ f \in [TCBs -> Task]
        BY PickType, RescheduledType
      <3>3. \A u \in TCBs : f[u].pid = tcb[u].pid
        BY <3>2, RescheduledLinks
      <3>4. saved \in [TCBs -> Task]
        BY <3>2, SaveType, Running
      <3> HIDE DEF n, f
      <3>5. \A u \in TCBs : saved[u].pid = f[u].pid
        BY <3>2, Running DEF Task
      <3> HIDE DEF saved
      <3>6. saved[n].esp \in [who : TCBs, halts : BOOLEAN]
        BY <3>2, <3>4 DEF Task
      <3>7. AllCalm
        BY <3>1, <3>6, ResumeCalm
      <3> QED BY <2>1, <3>1, <3>3, <3>5, <3>7
    <2> QED BY <1>2, <2>2, <2>3 DEF Tick
  <1>3. CASE ktask_create
    <2>1. Goto(Return) /\ UNCHANGED <<tcb, next_pid, spawns>>
      BY <1>3 DEF ktask_create, history
    <2> QED BY <2>1, ReturnCalm, GotoCalm
  <1>4. CASE mt_push_task_find
    <2>1. me.pc = "find_tail" /\ UNCHANGED <<tcb, next_pid, spawns>>
      BY <1>4 DEF mt_push_task_find, lists, history, Using, At
    <2>2. CASE Goto("link")
      BY <2>1, <2>2, GotoCalm
    <2>3. CASE GotoWith("find_tail", tcb[me.ptr].next)
      BY <2>1, <2>3, GotoWithCalm
    <2> QED BY <1>4, <2>2, <2>3 DEF mt_push_task_find
  <1>5. CASE mt_push_task_link
    <2>1. UNCHANGED <<next_pid, spawns>> /\ tcb' = [tcb EXCEPT ![me.ptr].next = me.new] /\ Goto("backlink")
      BY <1>5 DEF mt_push_task_link, history
    <2>2. \A t \in TCBs : tcb'[t].pid = tcb[t].pid
      BY <2>1, TaskFields DEF TypeOK, Task
    <2> QED BY <2>1, <2>2, GotoCalm
  <1>6. CASE mt_push_task_backlink
    <2> DEFINE l == IF me.entry = "kshell" THEN "set_fg" ELSE Return
    <2>1. /\ UNCHANGED <<next_pid, spawns>> /\ tcb' = [tcb EXCEPT ![me.new].prev = me.ptr]
          /\ ctx' = [ctx EXCEPT ![cpu].pc = l, ![cpu].pid = tcb[me.new].pid, ![cpu].ptr = tasks]
      BY <1>6 DEF mt_push_task_backlink, history
    <2>2. \A t \in TCBs : tcb'[t].pid = tcb[t].pid
      BY <2>1, TaskFields DEF TypeOK, Task
    <2>3. l \notin Held \cup Appending /\ (l \in Prompts => Spawner(me))
      BY ReturnCalm
    <2> HIDE DEF l
    <2>4. AllCalm
      BY <2>1, <2>3, ContextFields, SMTT(60) DEF AllCalm, Calm, Spawner, TypeOK, Context, me
    <2> QED BY <2>1, <2>2, <2>4
  <1>7. CASE waiting
    <2>1. UNCHANGED <<tcb, next_pid, spawns>>
      BY <1>7 DEF waiting, sys_wait, Hop, wait_set_fg, wait_poll, wait_reset_fg, lists, history
    <2>2. CASE sys_wait
      BY <2>1, <2>2, GotoWithCalm DEF sys_wait
    <2>3. CASE Hop
      BY <2>1, <2>3, GotoWithCalm DEF Hop, At, Spawner
    <2>4. CASE wait_set_fg
      BY <2>1, <2>4, GotoWithCalm DEF wait_set_fg
    <2>5. CASE wait_poll
      BY <2>1, <2>5, GotoCalm, GotoWithCalm DEF wait_poll
    <2>6. CASE wait_reset_fg
      BY <2>1, <2>6, GotoCalm, ReturnCalm DEF wait_reset_fg
    <2> QED BY <1>7, <2>2, <2>3, <2>4, <2>5, <2>6 DEF waiting
  <1>8. CASE kshell_term
    <2>1. PICK p \in TermPids :
            ctx' = [ctx EXCEPT ![cpu].pc = "find_term", ![cpu].pid = p, ![cpu].ptr = tasks]
      BY <1>8 DEF kshell_term
    <2>2. me.pc = "prompt" /\ UNCHANGED <<tcb, next_pid, spawns>>
      BY <1>8 DEF kshell_term, At, lists, history
    <2>3. AllCalm
      BY <2>1, <2>2, ContextFields DEF AllCalm, Calm, Spawner, TypeOK, Context, me
    <2> QED BY <2>2, <2>3
  <1>9. CASE mt_task_terminate_pid
    <2>1. me.pc = "find_term" /\ UNCHANGED <<tcb, next_pid, spawns>> /\ (Goto("prompt") \/ Call(me.ptr))
      BY <1>9 DEF mt_task_terminate_pid, At, lists, history
    <2>2. Spawner(me)
      BY <2>1 DEF Spawner
    <2> QED BY <2>1, <2>2, GotoCalm, CallCalm
  <1>10. CASE sys_exit
    BY <1>10, CallCalm DEF sys_exit, lists, history
  <1>11. CASE mt_task_terminate
    <2>1. next_pid' = next_pid /\ spawns' = spawns
      BY <1>11 DEF mt_task_terminate, terminate_unlink_prev, terminate_unlink_next, terminate_push,
                   terminate_push_first, terminate_push_next, terminate_push_prev,
                   terminate_push_head, terminate_scan, history
    <2>2. AllCalm
      <3>1. \/ \E l \in {"unlink_next", "push", "push_first", "push_next", "push_prev", "push_head"} : Goto(l)
            \/ TerminateReturn \/ (\E p : ScanFrom(p)) \/ (\E t : Call(t))
        BY <1>11 DEF mt_task_terminate, terminate_unlink_prev, terminate_unlink_next, terminate_push,
                     terminate_push_first, terminate_push_next, terminate_push_prev,
                     terminate_push_head, terminate_scan
      <3> QED BY <3>1, GotoCalm, TerminateReturnCalm, ScanFromCalm, CallCalm
    <2>3. \A t \in TCBs : tcb'[t].pid = tcb[t].pid
      <3>1. CASE tcb' = tcb
        BY <3>1
      <3>2. ASSUME NEW p, NEW q, NEW f, tcb' = Stored(p, q, f)
            PROVE  \A t \in TCBs : tcb'[t].pid = tcb[t].pid
        BY <3>2, TaskFields DEF Stored, TypeOK, Task
      <3>3. CASE \E x, q : tcb' = [tcb EXCEPT ![x].next = q]
        BY <3>3, TaskFields DEF TypeOK, Task
      <3>4. CASE \E x, p, q : tcb' = [tcb EXCEPT ![x].next = p, ![x].prev = q]
        BY <3>4, TaskFields DEF TypeOK, Task
      <3>5. \/ tcb' = tcb \/ (\E p, q, f : tcb' = Stored(p, q, f))
            \/ (\E x, q : tcb' = [tcb EXCEPT ![x].next = q])
            \/ (\E x, p, q : tcb' = [tcb EXCEPT ![x].next = p, ![x].prev = q])
        BY <1>11 DEF mt_task_terminate, terminate_unlink_prev, terminate_unlink_next, terminate_push,
                     terminate_push_first, terminate_push_next, terminate_push_prev,
                     terminate_push_head, terminate_scan, lists
      <3> QED BY <3>1, <3>2, <3>3, <3>4, <3>5
    <2> QED BY <2>1, <2>2, <2>3
  <1>12. CASE cleaner
    <2>1. UNCHANGED <<tcb, next_pid, spawns>>
      BY <1>12 DEF cleaner, cleaner_start, cleaner_destroy, cleaner_done, lists, history
    <2>2. Goto("clean") \/ (\E p : GotoWith("destroy", p))
      BY <1>12 DEF cleaner, cleaner_start, cleaner_destroy, cleaner_done
    <2> QED BY <2>1, <2>2, GotoCalm, GotoWithCalm
  <1>13. CASE exit_pick
    <2>1. next_pid' = next_pid /\ spawns' = spawns
      BY <1>13 DEF exit_pick, history
    <2>2. CASE SliceLeft
      <3>1. \A t \in TCBs : tcb'[t].pid = tcb[t].pid
        BY <1>13, <2>2, TaskFields DEF exit_pick, TypeOK, Task
      <3> QED BY <1>13, <2>1, <2>2, <3>1, GotoCalm DEF exit_pick
    <2>3. CASE ~SliceLeft
      <3>1. tcb' = Rescheduled(mt_pick_next_task) /\ GotoWith("switch_save", mt_pick_next_task)
        BY <1>13, <2>3 DEF exit_pick
      <3>2. \A t \in TCBs : tcb'[t].pid = tcb[t].pid
        BY <3>1, PickType, RescheduledLinks
      <3> QED BY <2>1, <3>1, <3>2, GotoWithCalm
    <2> QED BY <2>2, <2>3
  <1>14. CASE exit_switch_save
    <2>1. next_pid' = next_pid /\ spawns' = spawns /\ Goto("switch_load")
      BY <1>14 DEF exit_switch_save, history
    <2>2. \A t \in TCBs : tcb'[t].pid = tcb[t].pid
      BY <1>14, TaskFields DEF exit_switch_save, TypeOK, Task
    <2> QED BY <2>1, <2>2, GotoCalm
  <1>15. CASE exit_switch_load
    <2>1. me.ptr \in TCBs
      BY <1>15, Running DEF exit_switch_load, Using, Pointers
    <2>2. tcb[me.ptr].esp \in [who : TCBs, halts : BOOLEAN]
      BY <2>1, TaskFields
    <2> QED BY <1>15, <2>2, ResumeCalm DEF exit_switch_load, lists, history
  <1> QED BY <1>1, <1>2, <1>3, <1>4, <1>5, <1>6, <1>7, <1>8, <1>9, <1>10, <1>11, <1>12, <1>13, <1>14, <1>15
          DEF Next, Step, mt_spawn, mt_schedule_exit

\* A search that fails has met nothing of S on its way.
LEMMA FirstMisses ==
  ASSUME NEW h, NEW S \in SUBSET TCBs, First(h, S) = NULL
  PROVE  Reach(h) \cap S = {}
  <1> DEFINE hop == Hops(h)
             K == {k \in 0..MaxHops : hop[k] \in S}
             hits == {k \in 0..MaxHops : hop[k] \in S /\ \A j \in 0..(k - 1) : hop[j] \notin S}
             firsts == {hop[k] : k \in hits}
  <1>1. First(h, S) = IF firsts = {} THEN NULL ELSE CHOOSE t \in firsts : TRUE
    BY DEF First
  <1>2. firsts \subseteq S /\ NULL \notin S
    BY BootAssumption
  <1>3. firsts = {}
    <2> HIDE DEF firsts
    <2> QED BY <1>1, <1>2
  <1> HIDE DEF hop
  <1>4. K = {}
    <2> SUFFICES ASSUME K # {} PROVE FALSE
      OBVIOUS
    <2>1. K \in SUBSET Nat
      BY HopsNat
    <2> HIDE DEF K
    <2>2. PICK k \in K : \A j \in K : k <= j
      BY <2>1, NatMin
    <2>3. \A j \in 0..(k - 1) : hop[j] \notin S
      <3> SUFFICES ASSUME NEW j \in 0..(k - 1), hop[j] \in S PROVE FALSE
        OBVIOUS
      <3>1. j \in 0..MaxHops /\ ~(k <= j)
        BY <2>2, HopsNat DEF K
      <3> QED BY <2>2, <3>1 DEF K
    <2>4. k \in hits
      BY <2>2, <2>3 DEF K
    <2> QED BY <1>3, <2>4
  <1>5. Reach(h) = {hop[k] : k \in 0..MaxHops} \ {NULL}
    BY DEF Reach, hop
  <1> QED BY <1>4, <1>5

\* One that succeeds ends at a member of S.
LEMMA FirstHits ==
  ASSUME NEW h, NEW S \in SUBSET TCBs, First(h, S) # NULL
  PROVE  First(h, S) \in S
  <1> DEFINE hop == Hops(h)
             hits == {k \in 0..MaxHops : hop[k] \in S /\ \A j \in 0..(k - 1) : hop[j] \notin S}
             firsts == {hop[k] : k \in hits}
  <1>1. First(h, S) = IF firsts = {} THEN NULL ELSE CHOOSE t \in firsts : TRUE
    BY DEF First
  <1>2. firsts \subseteq S
    OBVIOUS
  <1> HIDE DEF firsts
  <1> QED BY <1>1, <1>2

\* The search of gen_pid finds a pid that no task on the list has: there are
\* fewer TCBs than candidates.
LEMMA UnusedPid ==
  ASSUME TypeOK PROVE \A t \in Live : tcb[t].pid # FirstUnusedPid
  <1> DEFINE U == {p \in 0..MaxHops : mt_get_task_by_pid(p) = NULL}
             firsts == {p \in 0..MaxHops : /\ mt_get_task_by_pid(p) = NULL
                                           /\ \A q \in 0..(p - 1) : mt_get_task_by_pid(q) # NULL}
  <1>1. U # {}
    <2> SUFFICES ASSUME \A p \in 0..MaxHops : mt_get_task_by_pid(p) # NULL PROVE FALSE
      OBVIOUS
    <2>1. \A p \in 0..MaxHops : mt_get_task_by_pid(p) \in TCBs /\ tcb[mt_get_task_by_pid(p)].pid = p
      <3> SUFFICES ASSUME NEW p \in 0..MaxHops
                   PROVE  mt_get_task_by_pid(p) \in TCBs /\ tcb[mt_get_task_by_pid(p)].pid = p
        OBVIOUS
      <3> DEFINE S == {t \in TCBs : tcb[t].pid = p}
      <3>1. mt_get_task_by_pid(p) = First(tasks, S) /\ First(tasks, S) # NULL
        BY DEF mt_get_task_by_pid
      <3>2. First(tasks, S) \in S
        BY <3>1, FirstHits
      <3> QED BY <3>1, <3>2
    <2> DEFINE f == [p \in 0..MaxHops |-> mt_get_task_by_pid(p)]
    <2>2. f \in [0..MaxHops -> TCBs]
      BY <2>1
    <2>3. \A p \in 0..MaxHops : tcb[f[p]].pid = p
      BY <2>1
    <2>4. IsFiniteSet(0..MaxHops) /\ Cardinality(0..MaxHops) = MaxHops + 1
      BY FS_Interval, HopsNat
    <2>5. IsFiniteSet(TCBs) /\ Cardinality(TCBs) < MaxHops + 1
      BY BootAssumption, HopsNat DEF MaxHops
    <2> HIDE DEF f
    <2>6. PICK x, y \in 0..MaxHops : x # y /\ f[x] = f[y]
      BY <2>2, <2>4, <2>5, FS_PigeonHole
    <2> QED BY <2>3, <2>6
  <1>2. firsts # {}
    <2>1. U \in SUBSET Nat
      BY HopsNat
    <2> HIDE DEF U
    <2>2. PICK p \in U : \A q \in U : p <= q
      BY <1>1, <2>1, NatMin
    <2>3. \A q \in 0..(p - 1) : mt_get_task_by_pid(q) # NULL
      <3> SUFFICES ASSUME NEW q \in 0..(p - 1), mt_get_task_by_pid(q) = NULL PROVE FALSE
        OBVIOUS
      <3>1. q \in 0..MaxHops /\ ~(p <= q)
        BY <2>2, HopsNat DEF U
      <3> QED BY <2>2, <3>1 DEF U
    <2> QED BY <2>2, <2>3 DEF U
  <1>3. FirstUnusedPid \in firsts
    <2>1. FirstUnusedPid = IF firsts = {} THEN 0 ELSE CHOOSE p \in firsts : TRUE
      BY DEF FirstUnusedPid
    <2> HIDE DEF firsts
    <2> QED BY <1>2, <2>1
  <1> DEFINE P == FirstUnusedPid
             S == {t \in TCBs : tcb[t].pid = P}
  <1>4. First(tasks, S) = NULL
    BY <1>3 DEF mt_get_task_by_pid
  <1>5. Reach(tasks) \cap S = {}
    BY <1>4, FirstMisses
  <1> HIDE DEF P
  <1>6. \A t \in Live : t \in TCBs => tcb[t].pid # P
    BY <1>5 DEF Live
  <1>7. Live \subseteq TCBs
    <2> DEFINE hop == Hops(tasks)
    <2>1. \A k \in 0..MaxHops : hop[k] \in Pointers
      <3> DEFINE K == {k \in Nat : hop[k] \in Pointers}
      <3>1. 0 \in K
        BY HopsDef, Running
      <3>2. \A k \in 1..MaxHops : k - 1 \in K => k \in K
        BY HopsDef, HopsNat, TaskFields DEF Hopped, Pointers
      <3> HIDE DEF K
      <3>3. \A k \in 0..MaxHops : k \in K
        BY <3>1, <3>2, HopsNat, IntervalInduction
      <3> QED BY <3>3 DEF K
    <2> QED BY <2>1 DEF Live, Reach, Pointers
  <1> QED BY <1>6, <1>7 DEF P

\* The spawning contexts are finitely many.
LEMMA SpawningFinite == IsFiniteSet(Spawning) /\ Cardinality(Spawning) \in Nat
  <1>1. Spawning \in SUBSET TCBs
    BY DEF Spawning
  <1> QED BY <1>1, FS_Subset, FS_CardinalityType, BootAssumption

\* Fewer spawning contexts count for less.
LEMMA SpawningLess ==
  ASSUME Spawning' \subseteq Spawning
  PROVE  Cardinality(Spawning') <= Cardinality(Spawning) /\ Cardinality(Spawning') \in Nat
  <1>1. IsFiniteSet(Spawning) /\ Spawning' \in SUBSET Spawning
    BY SpawningFinite
  <1> QED BY <1>1, FS_Subset, FS_CardinalityType

\* The invariant as a step sees it: PidsLeft can only become false.
LEMMA PidTypes ==
  ASSUME TypeOK PROVE next_pid \in Nat /\ spawns \in Nat /\ MAX_PID \in Nat
                      /\ (\A t \in TCBs : tcb[t].pid \in Nat /\ ctx[t].pid \in Nat)
  BY NumberAssumption, TaskFields, ContextFields DEF TypeOK

\* A calm step keeps the pids apart.
LEMMA CalmPids ==
  ASSUME TypeOK, NEW A \in SUBSET TCBs, NEW A2 \in SUBSET TCBs, OneSpawner, Pids(A),
         AllCalm, next_pid' = next_pid, spawns' = spawns, \A t \in TCBs : tcb'[t].pid = tcb[t].pid,
         New' \subseteq New, New \subseteq TCBs, A2 \subseteq A \cup New
  PROVE  OneSpawner' /\ Pids(A2)'
  <1>1. \A t \in TCBs : Spawner(ctx'[t]) => Spawner(ctx[t])
    BY DEF AllCalm, Calm, Spawner
  <1>2. OneSpawner'
    BY <1>1 DEF OneSpawner
  <1> SUFFICES ASSUME PidsLeft' PROVE Distinct(A2)' /\ (Counted(A2) \/ Searched)'
    BY <1>2 DEF Pids
  <1>3. Distinct(A) /\ (Counted(A) \/ Searched)
    BY DEF Pids, PidsLeft
  <1>4. \A t \in TCBs : ctx'[t].pc \in Held => ctx'[t].pc = ctx[t].pc /\ ctx'[t].pid = ctx[t].pid
    BY DEF AllCalm, Calm
  <1>5. Holders' \subseteq Holders /\ Spawning' \subseteq Spawning
    BY <1>4 DEF Holders, Spawning, Held
  <1>6. \A c \in Holders' : ctx'[c].pid = ctx[c].pid
    BY <1>4 DEF Holders, Held
  <1>7. A2 \cup New' \subseteq A \cup New
    OBVIOUS
  <1>8. Distinct(A2)'
    <2>1. \A t \in A2 \cup New' : t \in A \cup New /\ tcb'[t].pid = tcb[t].pid
      BY <1>7
    <2> QED BY <1>3, <1>5, <1>6, <2>1 DEF Distinct
  <1>9. CASE Counted(A)
    <2>1. \A t \in A2 \cup New' : t \in A \cup New /\ tcb'[t].pid = tcb[t].pid
      BY <1>7
    <2>2. Cardinality(Spawning') <= Cardinality(Spawning) /\ Cardinality(Spawning') \in Nat
      BY <1>5, SpawningLess
    <2>3. Cardinality(Spawning') + next_pid' <= spawns' + 3
      BY <1>9, <2>2, PidTypes, SpawningFinite DEF Counted
    <2>4. \A c \in TCBs : /\ ctx'[c].pc = "create" => ctx'[c].pid < next_pid'
                          /\ ctx'[c].pc = "inc_pid" => ctx'[c].pid = next_pid'
      BY <1>4, <1>9 DEF Counted, Held
    <2>5. \A t \in A2 \cup New' : tcb'[t].pid < next_pid'
      BY <1>9, <2>1 DEF Counted
    <2>6. Counted(A2)'
      BY <2>3, <2>4, <2>5 DEF Counted
    <2> QED BY <1>8, <2>6
  <1>10. CASE Searched
    <2>1. Searched'
      BY <1>4, <1>10 DEF Searched, Held
    <2> QED BY <1>8, <2>1
  <1> QED BY <1>3, <1>9, <1>10

\* A spawn asks for one more pid.
LEMMA SpawnPids ==
  ASSUME TypeOK, NEW A \in SUBSET TCBs, NEW A2 \in SUBSET TCBs, OneSpawner, Pids(A),
         Spawn, A2 \subseteq A \cup New
  PROVE  OneSpawner' /\ Pids(A2)'
  <1>1. /\ me.pc \in {"kmain", "prompt", "user"} /\ (me.pc = "user" => UserRuns)
        /\ Goto("gen_pid") /\ spawns' = spawns + 1 /\ UNCHANGED <<tcb, next_pid, cpu>>
    BY DEF Spawn, At, lists
  <1>2. /\ OwnStep /\ me'.pc = "gen_pid" /\ me' = ctx'[cpu] /\ me = ctx[cpu] /\ cpu \in TCBs
        /\ ctx'[cpu].entry = ctx[cpu].entry /\ \A t \in TCBs \ {cpu} : ctx'[t] = ctx[t]
    BY <1>1, GotoMe, Running DEF OwnStep, me
  <1>3. OneSpawner'
    BY <1>1, <1>2 DEF OneSpawner, Spawner, Prompts
  <1> SUFFICES ASSUME PidsLeft' PROVE Distinct(A2)' /\ Counted(A2)'
    BY <1>3 DEF Pids
  <1>4. spawns + 1 + 3 <= MAX_PID + (IF UserRuns THEN 1 ELSE 2)
    BY <1>1 DEF PidsLeft
  <1>5. PidsLeft /\ ~Searched
    <2> DEFINE k == IF UserRuns THEN 1 ELSE 2
    <2>1. k \in {1, 2}
      BY NumberAssumption
    <2> HIDE DEF k
    <2>2. spawns + 1 + 3 <= MAX_PID + k
      BY <1>4 DEF k
    <2>3. spawns + 3 <= MAX_PID + k /\ ~(spawns + 3 >= MAX_PID + 2)
      BY <2>1, <2>2, PidTypes
    <2> QED BY <2>3 DEF PidsLeft, Searched, k
  <1>6. Distinct(A) /\ Counted(A)
    BY <1>5 DEF Pids
  <1>7. New = {} /\ New' = {} /\ A2 \subseteq A
    BY <1>1, <1>2 DEF New
  <1>8. Holders' = Holders /\ \A c \in Holders : ctx'[c] = ctx[c]
    BY <1>1, <1>2 DEF Holders
  <1>9. Distinct(A2)'
    BY <1>1, <1>6, <1>7, <1>8 DEF Distinct
  <1>10. Spawning' = Spawning \cup {cpu} /\ cpu \notin Spawning
    BY <1>1, <1>2 DEF Spawning
  <1>11. Cardinality(Spawning') = Cardinality(Spawning) + 1
    BY <1>10, SpawningFinite, FS_AddElement
  <1>12. Cardinality(Spawning') + next_pid' <= spawns' + 3
    BY <1>1, <1>6, <1>11, SpawningFinite, PidTypes DEF Counted
  <1>13. Counted(A2)'
    BY <1>1, <1>2, <1>6, <1>7, <1>12 DEF Counted
  <1> QED BY <1>9, <1>13

\* gen_pid takes the next pid, or one the search finds unused; nobody else holds
\* a pid then.
LEMMA GenPids ==
  ASSUME TypeOK, NEW A \in SUBSET TCBs, NEW A2 \in SUBSET TCBs, OneSpawner, Pids(A), Others,
         Live = A, gen_pid, A2 \subseteq A \cup New
  PROVE  OneSpawner' /\ Pids(A2)'
  <1> DEFINE p == IF next_pid > MAX_PID THEN FirstUnusedPid ELSE next_pid
  <1>1. /\ me.pc = "gen_pid" /\ ctx' = [ctx EXCEPT ![cpu].pc = "inc_pid", ![cpu].pid = p]
        /\ UNCHANGED <<tcb, next_pid, cpu, spawns>>
    BY DEF gen_pid, At, lists, history
  <1> HIDE DEF p
  <1>2. /\ me' = ctx'[cpu] /\ me = ctx[cpu] /\ cpu \in TCBs
        /\ ctx'[cpu].entry = ctx[cpu].entry /\ \A t \in TCBs \ {cpu} : ctx'[t] = ctx[t]
        /\ ctx'[cpu].pc = "inc_pid" /\ ctx'[cpu].pid = p /\ ctx[cpu].pc = "gen_pid"
    BY <1>1, Running, ContextFields DEF me, TypeOK, Context
  <1>3. OneSpawner'
    BY <1>1, <1>2 DEF OneSpawner, Spawner, Prompts, Held
  <1> SUFFICES ASSUME PidsLeft' PROVE Distinct(A2)' /\ (Counted(A2)' \/ Searched')
    BY <1>3 DEF Pids
  <1>4. PidsLeft /\ Distinct(A) /\ Counted(A)
    <2>1. ~Searched
      BY <1>2 DEF Searched
    <2>2. PidsLeft
      BY <1>1 DEF PidsLeft
    <2> QED BY <2>1, <2>2 DEF Pids
  <1>5. New = {} /\ New' = {} /\ A2 \subseteq A
    BY <1>1, <1>2 DEF New
  <1>6. \A c \in TCBs : ctx[c].pc # "inc_pid"
    BY <1>2 DEF Others, Parked, Windows
  <1>7. Holders' = Holders \cup {cpu} /\ cpu \notin Holders /\ (\A c \in Holders : ctx'[c] = ctx[c])
        /\ \A c \in Holders : ctx[c].pc = "create" /\ c \in TCBs
    BY <1>2, <1>6 DEF Holders
  <1>8. ASSUME \A t \in A : tcb[t].pid # p, \A c \in Holders : ctx[c].pid # p
        PROVE  Distinct(A2)'
    <2>1. \A t, u \in A2 \cup New' : t # u => tcb'[t].pid # tcb'[u].pid
      BY <1>1, <1>4, <1>5 DEF Distinct
    <2>2. \A c \in Holders', t \in A2 \cup New' : ctx'[c].pid # tcb'[t].pid
      <3> SUFFICES ASSUME NEW c \in Holders', NEW t \in A2 PROVE ctx'[c].pid # tcb[t].pid
        BY <1>1, <1>5
      <3>1. CASE c = cpu
        BY <1>2, <1>5, <1>8, <3>1
      <3>2. CASE c \in Holders
        BY <1>4, <1>5, <1>7, <3>2 DEF Distinct
      <3> QED BY <1>7, <3>1, <3>2
    <2>3. \A c, d \in Holders' : c # d => ctx'[c].pid # ctx'[d].pid
      BY <1>2, <1>4, <1>7, <1>8 DEF Distinct
    <2> QED BY <2>1, <2>2, <2>3 DEF Distinct
  <1>9. CASE next_pid <= MAX_PID
    <2>1. p = next_pid
      BY <1>9, PidTypes DEF p
    <2>2. (\A t \in A : tcb[t].pid < next_pid) /\ (\A c \in Holders : ctx[c].pid < next_pid)
      BY <1>4, <1>5, <1>7 DEF Counted
    <2>3. \A t \in A : tcb[t].pid # p
      BY <2>1, <2>2, PidTypes
    <2>4. \A c \in Holders : ctx[c].pid # p
      BY <1>7, <2>1, <2>2, PidTypes
    <2>5. Distinct(A2)'
      BY <1>8, <2>3, <2>4
    <2>6. Spawning' = Spawning
      BY <1>2 DEF Spawning
    <2>7. Counted(A2)'
      BY <1>1, <1>2, <1>4, <1>5, <2>1, <2>6 DEF Counted
    <2> QED BY <2>5, <2>7
  <1>10. CASE next_pid > MAX_PID
    <2>1. p = FirstUnusedPid
      BY <1>10 DEF p
    <2>2. Cardinality(Spawning) >= 1
      <3>1. Spawning # {}
        BY <1>2 DEF Spawning
      <3>2. Cardinality(Spawning) # 0
        BY <3>1, SpawningFinite, FS_EmptySet
      <3> QED BY <3>2, SpawningFinite
    <2>3. spawns + 3 >= MAX_PID + 2
      BY <1>4, <1>10, <2>2, SpawningFinite, PidTypes DEF Counted
    <2>4. ~UserRuns
      BY <1>4, <2>3, PidTypes DEF PidsLeft
    <2>5. \A c \in TCBs : Spawner(ctx[c]) => c = cpu
      BY <1>2, <2>4 DEF OneSpawner, Spawner, Prompts, Held
    <2>6. Holders = {}
      BY <1>7, <2>5 DEF Spawner, Prompts, Held
    <2>7. Distinct(A2)'
      BY <1>8, <2>1, <2>6, UnusedPid
    <2>8. \A c \in TCBs : ctx'[c].pc # "gen_pid"
      BY <1>2, <2>5 DEF Spawner, Prompts, Held
    <2>9. Searched'
      BY <1>1, <2>3, <2>8 DEF Searched
    <2> QED BY <2>7, <2>9
  <1> QED BY <1>9, <1>10, PidTypes

\* gen_pid stores the pid that follows.
LEMMA IncPids ==
  ASSUME TypeOK, NEW A \in SUBSET TCBs, NEW A2 \in SUBSET TCBs, OneSpawner, Pids(A), Others,
         inc_pid, A2 \subseteq A \cup New
  PROVE  OneSpawner' /\ Pids(A2)'
  <1>1. /\ me.pc = "inc_pid" /\ Goto("create") /\ next_pid' = me.pid + 1
        /\ UNCHANGED <<tcb, cpu, spawns>>
    BY DEF inc_pid, At, lists, history
  <1>2. /\ me' = ctx'[cpu] /\ me = ctx[cpu] /\ cpu \in TCBs
        /\ ctx'[cpu].entry = ctx[cpu].entry /\ \A t \in TCBs \ {cpu} : ctx'[t] = ctx[t]
        /\ ctx'[cpu].pc = "create" /\ ctx'[cpu].pid = me.pid
    BY <1>1, Running, ContextFields DEF me, TypeOK, Context, Goto
  <1>3. OneSpawner'
    BY <1>1, <1>2 DEF OneSpawner, Spawner, Prompts, Held
  <1> SUFFICES ASSUME PidsLeft' PROVE Distinct(A2)' /\ (Counted(A2)' \/ Searched')
    BY <1>3 DEF Pids
  <1>4. Distinct(A) /\ (Counted(A) \/ Searched)
    BY <1>1 DEF Pids, PidsLeft
  <1>5. New = {} /\ New' = {} /\ A2 \subseteq A
    BY <1>1, <1>2 DEF New
  <1>6. Holders' = Holders /\ \A c \in Holders : ctx'[c].pid = ctx[c].pid
    BY <1>1, <1>2 DEF Holders
  <1>7. Distinct(A2)'
    BY <1>1, <1>4, <1>5, <1>6 DEF Distinct
  <1>8. CASE Counted(A)
    <2>1. me.pid = next_pid /\ next_pid' = next_pid + 1
      BY <1>1, <1>2, <1>8 DEF Counted
    <2>2. Spawning' = Spawning \ {cpu} /\ cpu \in Spawning
      BY <1>1, <1>2 DEF Spawning
    <2>3. Cardinality(Spawning') = Cardinality(Spawning) - 1
      BY <2>2, SpawningFinite, FS_RemoveElement
    <2>4. Cardinality(Spawning') + next_pid' <= spawns' + 3
      BY <1>1, <1>8, <2>1, <2>3, SpawningFinite, PidTypes DEF Counted
    <2>5. \A t \in A2 : tcb'[t].pid < next_pid'
      <3> SUFFICES ASSUME NEW t \in A2 PROVE tcb'[t].pid < next_pid'
        OBVIOUS
      <3>1. tcb[t].pid < next_pid /\ tcb[t].pid \in Nat
        BY <1>5, <1>8, PidTypes DEF Counted
      <3> QED BY <1>1, <2>1, <3>1, PidTypes
    <2>6. \A c \in TCBs : /\ ctx'[c].pc = "create" => ctx'[c].pid < next_pid'
                          /\ ctx'[c].pc = "inc_pid" => ctx'[c].pid = next_pid'
      <3> SUFFICES ASSUME NEW c \in TCBs
                   PROVE  /\ ctx'[c].pc = "create" => ctx'[c].pid < next_pid'
                          /\ ctx'[c].pc = "inc_pid" => ctx'[c].pid = next_pid'
        OBVIOUS
      <3>1. CASE c = cpu
        BY <1>2, <2>1, <3>1, PidTypes
      <3>2. CASE c # cpu
        <4>1. ctx[c].pc # "inc_pid" /\ ctx'[c] = ctx[c]
          BY <1>2, <3>2 DEF Others, Parked, Windows
        <4>2. ctx[c].pc = "create" => ctx[c].pid < next_pid /\ ctx[c].pid \in Nat
          BY <1>8, PidTypes DEF Counted
        <4> QED BY <2>1, <4>1, <4>2, PidTypes
      <3> QED BY <3>1, <3>2
    <2>7. Counted(A2)'
      BY <1>5, <2>4, <2>5, <2>6 DEF Counted
    <2> QED BY <1>7, <2>7
  <1>9. CASE Searched
    <2>1. Searched'
      BY <1>1, <1>2, <1>9 DEF Searched
    <2> QED BY <1>7, <2>1
  <1> QED BY <1>4, <1>8, <1>9

\* ktask_create gives its pid to the new task; the shell that kmain creates is
\* the spawner from then on.
LEMMA CreatePids ==
  ASSUME TypeOK, NEW A \in SUBSET TCBs, NEW A2 \in SUBSET TCBs, NEW Z, NEW r, OneSpawner, Pids(A),
         Sound(A, Z, r), ktask_create, ~(Goto(Return) /\ UNCHANGED <<tcb, allocated>>),
         A2 \subseteq A \cup New
  PROVE  OneSpawner' /\ Pids(A2)'
  <1> DEFINE e == IF me.entry = "ker_idle" THEN "kshell" ELSE "utask_exec"
             l == IF e = "kshell" THEN "prompt" ELSE "user"
             N(t) == [NewTask(me.pid, Parent, t) EXCEPT !.prev = tcb[t].prev]
  <1>1. PICK t \in TCBs \ allocated :
          /\ allocated' = allocated \cup {t}
          /\ tcb' = [tcb EXCEPT ![t] = N(t)]
          /\ ctx' = [ctx EXCEPT ![t] = NewContext(e, l),
                                ![cpu].new = t, ![cpu].ptr = tasks,
                                ![cpu].pc = "find_tail"]
    BY DEF ktask_create
  <1>2. me.pc = "create" /\ UNCHANGED <<next_pid, spawns, cpu>>
    BY DEF ktask_create, At, history
  <1>3. N(t).pid = me.pid /\ NewContext(e, l).pc = l /\ NewContext(e, l).entry = e
    BY DEF NewTask, NewContext
  <1>4. \/ l = "prompt" /\ e = "kshell" /\ me.entry = "ker_idle"
        \/ l = "user" /\ e = "utask_exec" /\ me.entry # "ker_idle"
    OBVIOUS
  <1> HIDE DEF N, e, l
  <1>5. cpu \in TCBs /\ cpu # t /\ t \notin A /\ me = ctx[cpu]
    BY <1>1, Running DEF Sound, Shape, Contexts, Stacks, me
  <1>6. /\ me'.entry = me.entry /\ me'.pc = "find_tail" /\ me'.new = t
        /\ me' = ctx'[cpu] /\ ctx'[t] = NewContext(e, l)
        /\ \A u \in TCBs \ {cpu, t} : ctx'[u] = ctx[u]
    <2>1. e \in Entries /\ l \in Labels
      BY <1>4 DEF Entries, Labels
    <2>2. ctx' = Handed(t, e, l)
      BY <1>1 DEF Handed
    <2>3. t \in TCBs /\ cpu # t /\ cpu' = cpu
      BY <1>1, <1>2, <1>5
    <2> QED BY <2>1, <2>2, <2>3, CreatedContexts
  <1>7. tcb'[t].pid = me.pid /\ \A u \in TCBs \ {t} : tcb'[u] = tcb[u]
    BY <1>1, <1>3 DEF TypeOK
  <1>8. OneSpawner'
    <2> SUFFICES ASSUME ~UserRuns, NEW u \in TCBs, NEW v \in TCBs, Spawner(ctx'[u]), Spawner(ctx'[v])
                 PROVE  u = v
      BY DEF OneSpawner
    <2>1. \A w \in TCBs : Spawner(ctx[w]) => w = cpu
      BY <1>2, <1>5 DEF OneSpawner, Spawner, Prompts, Held
    <2>2. u \in {cpu, t} /\ v \in {cpu, t}
      BY <1>6, <2>1
    <2>3. ~(Spawner(ctx'[cpu]) /\ Spawner(ctx'[t]))
      BY <1>3, <1>4, <1>6 DEF Spawner, Prompts, Held
    <2> QED BY <2>2, <2>3
  <1> SUFFICES ASSUME PidsLeft' PROVE Distinct(A2)' /\ (Counted(A2)' \/ Searched')
    BY <1>8 DEF Pids
  <1>9. Distinct(A) /\ (Counted(A) \/ Searched)
    BY <1>2 DEF Pids, PidsLeft
  <1>10. New = {} /\ New' = {t} /\ A2 \subseteq A
    BY <1>2, <1>6 DEF New
  <1>11. cpu \in Holders /\ Holders' \subseteq Holders \ {cpu} /\ (\A c \in Holders' : ctx'[c] = ctx[c])
    <2>1. ctx[cpu].pc = "create" /\ ctx'[cpu].pc = "find_tail" /\ ctx'[t].pc \in {"prompt", "user"}
      BY <1>2, <1>3, <1>4, <1>5, <1>6
    <2>2. \A c \in Holders' : c \in TCBs \ {cpu, t}
      BY <2>1 DEF Holders
    <2> QED BY <1>5, <1>6, <2>1, <2>2 DEF Holders
  <1>12. \A u \in A2 : tcb'[u].pid = tcb[u].pid /\ tcb[u].pid # me.pid
    BY <1>5, <1>7, <1>9, <1>10, <1>11 DEF Distinct
  <1>13. \A c \in Holders' : ctx'[c].pid = ctx[c].pid /\ ctx[c].pid # me.pid
    BY <1>5, <1>9, <1>11 DEF Distinct
  <1>14. Distinct(A2)'
    <2>1. \A u, v \in A2 \cup New' : u # v => tcb'[u].pid # tcb'[v].pid
      BY <1>7, <1>9, <1>10, <1>12 DEF Distinct
    <2>2. \A c \in Holders', u \in A2 \cup New' : ctx'[c].pid # tcb'[u].pid
      BY <1>7, <1>9, <1>10, <1>11, <1>12, <1>13 DEF Distinct
    <2>3. \A c, d \in Holders' : c # d => ctx'[c].pid # ctx'[d].pid
      BY <1>9, <1>11 DEF Distinct
    <2> QED BY <2>1, <2>2, <2>3 DEF Distinct
  <1>15. \A c \in TCBs : ctx'[c].pc \in Held => ctx'[c] = ctx[c]
    BY <1>3, <1>4, <1>6 DEF Held
  <1>16. CASE Counted(A)
    <2>1. Spawning' \subseteq Spawning
      BY <1>15 DEF Spawning, Held
    <2>2. Cardinality(Spawning') + next_pid' <= spawns' + 3
      BY <1>2, <1>16, <2>1, SpawningLess, SpawningFinite, PidTypes DEF Counted
    <2>3. \A u \in A2 \cup New' : tcb'[u].pid < next_pid'
      BY <1>2, <1>5, <1>7, <1>10, <1>12, <1>16 DEF Counted
    <2>4. Counted(A2)'
      BY <1>2, <1>15, <1>16, <2>2, <2>3 DEF Counted, Held
    <2> QED BY <1>14, <2>4
  <1>17. CASE Searched
    <2>1. Searched'
      BY <1>2, <1>15, <1>17 DEF Searched, Held
    <2> QED BY <1>14, <2>1
  <1> QED BY <1>9, <1>16, <1>17

\* Every step that does not tear the lists keeps the pids apart.
LEMMA PidStep ==
  ASSUME TypeOK, IdleInv, NEW A \in SUBSET TCBs, NEW Z \in SUBSET TCBs, NEW r \in [TCBs -> Nat], Sound(A, Z, r),
         OneSpawner, Pids(A), [Next]_vars, ~torn', NEW A2 \in SUBSET TCBs, A2 \subseteq A \cup New
  PROVE  OneSpawner' /\ Pids(A2)'
  <1>1. CASE Spawn
    BY <1>1, SpawnPids
  <1>2. CASE gen_pid
    <2>1. Live = A
      BY WalkChain DEF Live, tasks, Sound, Shape
    <2> QED BY <1>2, <2>1, GenPids DEF Sound, Contexts
  <1>3. CASE inc_pid
    BY <1>3, IncPids DEF Sound, Contexts
  <1>4. CASE ktask_create /\ ~(Goto(Return) /\ UNCHANGED <<tcb, allocated>>)
    BY <1>4, CreatePids
  <1>5. CASE ~Spawn /\ ~gen_pid /\ ~inc_pid /\ (ktask_create => Goto(Return) /\ UNCHANGED <<tcb, allocated>>)
    <2>1. /\ AllCalm /\ next_pid' = next_pid /\ spawns' = spawns
          /\ \A t \in TCBs : tcb'[t].pid = tcb[t].pid
      BY <1>5, CalmSteps DEF Sound, Contexts
    <2>2. New' \subseteq New
      <3> SUFFICES ASSUME me'.pc \in Appending PROVE New' \subseteq New
        BY DEF New, Appending
      <3>1. cpu' \in TCBs /\ me' = ctx'[cpu'] /\ me = ctx[cpu]
        <4>1. TypeOK'
          <5>1. CASE UNCHANGED vars
            BY <5>1 DEF vars, TypeOK
          <5> QED BY <5>1, TypeStep, TypeTick DEF Next
        <4> QED BY <4>1 DEF me, TypeOK
      <3>2. ctx[cpu'].pc \in Appending /\ me'.new = ctx[cpu'].new
        BY <2>1, <3>1 DEF AllCalm, Calm
      <3>3. cpu' = cpu
        BY <3>1, <3>2 DEF Sound, Contexts, Others, Parked, Windows, Appending
      <3> QED BY <3>1, <3>2, <3>3 DEF New, Appending
    <2>3. New \subseteq TCBs
      BY DEF New, Sound, Holding
    <2> QED BY <2>1, <2>2, <2>3, CalmPids
  <1> QED BY <1>1, <1>2, <1>3, <1>4, <1>5

\* The pids stay apart in every reachable state that is not torn.
LEMMA PidInvariant == Spec => [](TypeOK /\ PidInv)
  <1>1. Init => PidInv
    <2> SUFFICES ASSUME Init PROVE PidInv
      OBVIOUS
    <2>1. PICK A \in SUBSET TCBs, Z \in SUBSET TCBs, r \in [TCBs -> Nat] : Sound(A, Z, r)
      BY ListInit DEF Listed
    <2>2. /\ allocated = {Idle, Test, Cleaner} /\ cpu = Idle /\ next_pid = 3 /\ spawns = 0
          /\ tcb[Idle].pid = 0 /\ tcb[Test].pid = 1 /\ tcb[Cleaner].pid = 2
      BY BootAssumption DEF Init, NewTask
    <2>3. /\ ctx[Idle].pc = "kmain"
          /\ \A t \in TCBs \ {Idle} : ctx[t].pc \in {"hlt", "clean"}
          /\ \A t \in TCBs : ctx[t].entry # "kshell"
      BY BootAssumption DEF Init, NewContext
    <2>4. New = {} /\ Holders = {} /\ Spawning = {} /\ A \subseteq {Idle, Test, Cleaner}
      BY <2>1, <2>2, <2>3 DEF New, Holders, Spawning, me, Sound, Shape
    <2>5. OneSpawner
      BY <2>3 DEF OneSpawner, Spawner, Prompts, Held
    <2>6. Distinct(A)
      BY <2>2, <2>4 DEF Distinct
    <2>7. Counted(A)
      <3>1. \A t \in A : tcb[t].pid < next_pid
        BY <2>2, <2>4
      <3>2. \A c \in TCBs : ctx[c].pc \notin {"create", "inc_pid"}
        BY <2>3
      <3>3. Cardinality(Spawning) + next_pid <= spawns + 3
        BY <2>2, <2>4, FS_EmptySet
      <3> QED BY <2>4, <3>1, <3>2, <3>3 DEF Counted
    <2> QED BY <2>1, <2>5, <2>6, <2>7 DEF PidInv, Pids
  <1>2. TypeOK /\ IdleInv /\ PidInv /\ [Next]_vars => PidInv'
    <2> SUFFICES ASSUME TypeOK, IdleInv, PidInv, [Next]_vars, ~torn' PROVE PidInv'
      BY DEF PidInv
    <2>1. PICK A \in SUBSET TCBs, Z \in SUBSET TCBs, r \in [TCBs -> Nat] :
            Sound(A, Z, r) /\ OneSpawner /\ Pids(A)
      BY TornStays DEF PidInv
    <2>2. Keeps(A)
      BY <2>1, SoundStep
    <2>3. PICK A2 \in SUBSET TCBs, Z2 \in SUBSET TCBs, r2 \in [TCBs -> Nat] :
            A2 \subseteq A \cup New /\ Sound(A2, Z2, r2)'
      BY <2>2 DEF Keeps
    <2>4. OneSpawner' /\ Pids(A2)'
      BY <2>1, <2>3, PidStep
    <2> QED BY <2>3, <2>4 DEF PidInv
  <1> QED BY TypeCorrect, ListInvariant, <1>1, <1>2, PTL DEF Spec

\* gen_pid gives the tasks on the list distinct pids, up to and including the
\* first pid it has to search for (up to MAX_PID where programs run programs).
THEOREM PidsStayUnique == Spec => []UniquePids
  <1>1. TypeOK /\ PidInv => UniquePids
    <2> SUFFICES ASSUME TypeOK, PidInv, Settled, PidsLeft PROVE UniquePids
      BY DEF UniquePids
    <2>1. PICK A \in SUBSET TCBs, Z \in SUBSET TCBs, r \in [TCBs -> Nat] :
            Sound(A, Z, r) /\ OneSpawner /\ Pids(A)
      BY DEF PidInv, Settled
    <2>2. Live = A
      BY <2>1, WalkChain DEF Live, tasks, Sound, Shape
    <2> QED BY <2>1, <2>2 DEF UniquePids, Pids, Distinct
  <1> QED BY PidInvariant, <1>1, PTL
=============================================================================
