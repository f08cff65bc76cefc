------------------------------ MODULE VfsProofs ------------------------------
(***************************************************************************)
(* Proofs about Vfs, for every archive, every content of the drives, every *)
(* set of paths and of programs, and every size of the heap in which what  *)
(* boot makes fits.  The first part is about one tree, the second about    *)
(* the steps of Vfs.                                                       *)
(***************************************************************************)
EXTENDS Vfs, FiniteSetTheorems, SequenceTheorems, WellFoundedInduction, TLAPS

Memory == [live : SUBSET Nodes, node : [Nodes -> Node]]

\* the children of a node, as a set
Kids(t, n) == {t.node[n].childs[i] : i \in DOMAIN t.node[n].childs}
Once(s) == \A i, j \in DOMAIN s : s[i] = s[j] => i = j

\* Child lists and parents agree, and no node is linked twice.
Linked(t) ==
    /\ Root \in t.live /\ IsRoot(t, Root)
    /\ \A n \in t.live : Once(t.node[n].childs)
    /\ \A n \in t.live : \A c \in Kids(t, n) : c \in t.live \ {Root} /\ t.node[c].parent = n
    /\ \A n \in t.live \ {Root} : t.node[n].parent \in t.live /\ n \in Kids(t, t.node[n].parent)

\* S holds all children of its nodes.
Closed(t, S) == \A n \in S : Kids(t, n) \subseteq S

\* Every node can be reached from the root: what holds of the root and goes from
\* parent to child holds of all.
Reached(t) == \A S \in SUBSET t.live : Root \in S /\ Closed(t, S) => t.live \subseteq S

Tree(t) == t \in Memory /\ Linked(t) /\ Reached(t)

----------------------------------------------------------------------------
(* Numbers *)

\* A set of numbers that is not empty has a least element.
LEMMA NatMin ==
    ASSUME NEW S \in SUBSET Nat, S # {}
    PROVE  \E n \in S : \A m \in S : n <= m
<1> DEFINE R == OpToRel(<, Nat)
<1>1. IsWellFoundedOn(R, Nat)
  BY NatLessThanWellFounded, Zenon
<1>2. \A x, y \in Nat : x < y => <<x, y>> \in R
  BY DEF OpToRel
<1> HIDE DEF R
<1>3. \E x \in S : \A y \in S : ~ (<<y, x>> \in R)
  BY <1>1, WFMin
<1>4. \A x, y \in Nat : ~(x < y) => y <= x
  OBVIOUS
<1> QED BY <1>2, <1>3, <1>4

\* Induction up to a number, as a fact about sets.
LEMMA UpTo ==
    ASSUME NEW N \in Nat, NEW S, 0 \in S, \A k \in 1 .. N : k - 1 \in S => k \in S
    PROVE  \A k \in 0 .. N : k \in S
<1> SUFFICES ASSUME NEW k0 \in 0 .. N, k0 \notin S PROVE FALSE
  OBVIOUS
<1> DEFINE T == {k \in 0 .. N : k \notin S}
<1>1. T \in SUBSET Nat /\ T # {}
  OBVIOUS
<1>2. PICK k \in T : \A j \in T : k <= j
  BY <1>1, NatMin
<1>3. k \in 1 .. N
  BY <1>2
<1>4. k - 1 \in 0 .. N /\ ~(k <= k - 1)
  BY <1>3
<1>5. k - 1 \in S
  BY <1>2, <1>4
<1> QED BY <1>2, <1>3, <1>5

\* The least element that Min chooses.
LEMMA MinIs ==
    ASSUME NEW S \in SUBSET Nat, S # {}
    PROVE  Min(S) \in S /\ \A m \in S : Min(S) <= m
<1>1. \E n \in S : \A m \in S : n <= m
  BY NatMin
<1> QED BY <1>1 DEF Min

----------------------------------------------------------------------------
(* What the recursive definitions of Vfs compute *)

\* One step of each.
LevelStep(t, x) == x \cup UNION {ToSet(t.node[m].childs) : m \in x}
VisitStep(t, names, k, x) == IF x = NULL THEN NULL ELSE vfs_get_child_by_name(t, x, <<names[k]>>)
UpStep(t, x) == t.node[x].parent
PathStep(t, n, k, x) == Tokens(t.node[Up(t, n)[k - 1]].name) \o x
ChildStep(p, names, type, k, x) == vfs_add_child(x, p, <<names[k]>>, type)
EntryStep(top, archive, k, x) == vfs_make_node(x, top, archive[k].names, archive[k].type)

\* What the functions on the trees of boot and mount go through.
AddTrace(t, p, names, type, N, f) ==
    /\ (Len(names) = N => AddAll(t, p, names, type) = f[Len(names)])
    /\ f[0] = t
    /\ \A k \in 1 .. N : f[k] = ChildStep(p, names, type, k, f[k - 1])
TarTrace(t, top, archive, N, f) ==
    /\ (Len(archive) = N => tar_parse(t, top, archive) = f[Len(archive)])
    /\ f[0] = t
    /\ \A k \in 1 .. N : f[k] = EntryStep(top, archive, k, f[k - 1])
FillTrace(t, p, entries, N, f) ==
    /\ (Len(entries) = N => vfs_ext2_populate(t, p, entries) = f[Len(entries)].t)
    /\ f[0] = [t |-> t, ids |-> <<>>]
    /\ \A k \in 1 .. N : f[k] = Listed(f[k - 1], p, entries[k])

\* The levels below a node.
LEMMA ReachIs ==
    ASSUME NEW t, NEW n, MaxNodes \in Nat
    PROVE  \E f : /\ Below(t, n) = f[MaxNodes]
                  /\ f[0] = ToSet(t.node[n].childs)
                  /\ \A k \in 1 .. MaxNodes : f[k] = LevelStep(t, f[k - 1])
<1> DEFINE Sol(h, j) == h = [k \in 0 .. j |-> IF k = 0 THEN ToSet(t.node[n].childs) ELSE LevelStep(t, h[k - 1])]
           S == {j \in Nat : \E h : Sol(h, j)}
           f == CHOOSE h : Sol(h, MaxNodes)
<1>1. 0 \in S
  <2>1. Sol([k \in 0 .. 0 |-> ToSet(t.node[n].childs)], 0)
    OBVIOUS
  <2> QED BY <2>1
<1>2. \A j \in 1 .. MaxNodes : j - 1 \in S => j \in S
  <2> SUFFICES ASSUME NEW j \in 1 .. MaxNodes, j - 1 \in S PROVE j \in S
    OBVIOUS
  <2>1. PICK h : Sol(h, j - 1)
    OBVIOUS
  <2> DEFINE g == [k \in 0 .. j |-> IF k = j THEN LevelStep(t, h[j - 1]) ELSE h[k]]
  <2>2. j \in Nat /\ j > 0
    OBVIOUS
  <2>3. \A k \in 0 .. (j - 1) : g[k] = h[k] /\ h[k] = IF k = 0 THEN ToSet(t.node[n].childs) ELSE LevelStep(t, h[k - 1])
    BY <2>1, <2>2
  <2>4. \A k \in 0 .. j : g[k] = IF k = 0 THEN ToSet(t.node[n].childs) ELSE LevelStep(t, g[k - 1])
    <3> SUFFICES ASSUME NEW k \in 0 .. j PROVE g[k] = IF k = 0 THEN ToSet(t.node[n].childs) ELSE LevelStep(t, g[k - 1])
      OBVIOUS
    <3>1. CASE k = j
      BY <2>2, <2>3, <3>1
    <3>2. CASE k # j
      <4>1. k \in 0 .. (j - 1) /\ (k # 0 => k - 1 \in 0 .. (j - 1))
        BY <2>2, <3>2
      <4> HIDE DEF g
      <4> QED BY <2>3, <4>1
    <3> QED BY <3>1, <3>2
  <2>5. g = [k \in 0 .. j |-> g[k]]
    OBVIOUS
  <2>6. Sol(g, j)
    <3> HIDE DEF g
    <3> QED BY <2>4, <2>5
  <2> QED BY <2>2, <2>6
<1> HIDE DEF S
<1>3. MaxNodes \in S
  BY <1>1, <1>2, UpTo
<1>4. Sol(f, MaxNodes)
  <2>1. \E h : Sol(h, MaxNodes)
    BY <1>3 DEF S
  <2> HIDE DEF Sol
  <2> QED BY <2>1
<1>5. Below(t, n) = f[MaxNodes]
  BY DEF Below, LevelStep
<1> HIDE DEF f
<1>6. f[0] = ToSet(t.node[n].childs) /\ \A k \in 1 .. MaxNodes : f[k] = LevelStep(t, f[k - 1])
  BY <1>4
<1> HIDE DEF Sol
<1> QED BY <1>5, <1>6

\* The nodes that a look-up comes to.
LEMMA VisitsIs ==
    ASSUME NEW t, NEW from, NEW names, NEW N \in Nat
    PROVE  \E f : /\ (Len(names) = N => Visits(t, from, names) = f)
                  /\ f[0] = from
                  /\ \A k \in 1 .. N : f[k] = VisitStep(t, names, k, f[k - 1])
<1> DEFINE Sol(h, j) == h = [k \in 0 .. j |-> IF k = 0 THEN from ELSE VisitStep(t, names, k, h[k - 1])]
           S == {j \in Nat : \E h : Sol(h, j)}
           f == CHOOSE h : Sol(h, N)
<1>1. 0 \in S
  <2>1. Sol([k \in 0 .. 0 |-> from], 0)
    OBVIOUS
  <2> QED BY <2>1
<1>2. \A j \in 1 .. N : j - 1 \in S => j \in S
  <2> SUFFICES ASSUME NEW j \in 1 .. N, j - 1 \in S PROVE j \in S
    OBVIOUS
  <2>1. PICK h : Sol(h, j - 1)
    OBVIOUS
  <2> DEFINE g == [k \in 0 .. j |-> IF k = j THEN VisitStep(t, names, j, h[j - 1]) ELSE h[k]]
  <2>2. j \in Nat /\ j > 0
    OBVIOUS
  <2>3. \A k \in 0 .. (j - 1) : g[k] = h[k] /\ h[k] = IF k = 0 THEN from ELSE VisitStep(t, names, k, h[k - 1])
    BY <2>1, <2>2
  <2>4. \A k \in 0 .. j : g[k] = IF k = 0 THEN from ELSE VisitStep(t, names, k, g[k - 1])
    <3> SUFFICES ASSUME NEW k \in 0 .. j PROVE g[k] = IF k = 0 THEN from ELSE VisitStep(t, names, k, g[k - 1])
      OBVIOUS
    <3>1. CASE k = j
      BY <2>2, <2>3, <3>1
    <3>2. CASE k # j
      <4>1. k \in 0 .. (j - 1) /\ (k # 0 => k - 1 \in 0 .. (j - 1))
        BY <2>2, <3>2
      <4> HIDE DEF g
      <4> QED BY <2>3, <4>1
    <3> QED BY <3>1, <3>2
  <2>5. g = [k \in 0 .. j |-> g[k]]
    OBVIOUS
  <2>6. Sol(g, j)
    <3> HIDE DEF g
    <3> QED BY <2>4, <2>5
  <2> QED BY <2>2, <2>6
<1> HIDE DEF S
<1>3. N \in S
  BY <1>1, <1>2, UpTo
<1>4. Sol(f, N)
  <2>1. \E h : Sol(h, N)
    BY <1>3 DEF S
  <2> HIDE DEF Sol
  <2> QED BY <2>1
<1>5. (Len(names) = N => Visits(t, from, names) = f)
  BY DEF Visits, VisitStep
<1> HIDE DEF f
<1>6. f[0] = from /\ \A k \in 1 .. N : f[k] = VisitStep(t, names, k, f[k - 1])
  BY <1>4
<1> HIDE DEF Sol
<1> QED BY <1>5, <1>6

\* The nodes above a node.
LEMMA UpIs ==
    ASSUME NEW t, NEW n, MaxNodes \in Nat
    PROVE  \E f : /\ Up(t, n) = f
                  /\ f[0] = n
                  /\ \A k \in 1 .. MaxNodes : f[k] = UpStep(t, f[k - 1])
<1> DEFINE Sol(h, j) == h = [k \in 0 .. j |-> IF k = 0 THEN n ELSE UpStep(t, h[k - 1])]
           S == {j \in Nat : \E h : Sol(h, j)}
           f == CHOOSE h : Sol(h, MaxNodes)
<1>1. 0 \in S
  <2>1. Sol([k \in 0 .. 0 |-> n], 0)
    OBVIOUS
  <2> QED BY <2>1
<1>2. \A j \in 1 .. MaxNodes : j - 1 \in S => j \in S
  <2> SUFFICES ASSUME NEW j \in 1 .. MaxNodes, j - 1 \in S PROVE j \in S
    OBVIOUS
  <2>1. PICK h : Sol(h, j - 1)
    OBVIOUS
  <2> DEFINE g == [k \in 0 .. j |-> IF k = j THEN UpStep(t, h[j - 1]) ELSE h[k]]
  <2>2. j \in Nat /\ j > 0
    OBVIOUS
  <2>3. \A k \in 0 .. (j - 1) : g[k] = h[k] /\ h[k] = IF k = 0 THEN n ELSE UpStep(t, h[k - 1])
    BY <2>1, <2>2
  <2>4. \A k \in 0 .. j : g[k] = IF k = 0 THEN n ELSE UpStep(t, g[k - 1])
    <3> SUFFICES ASSUME NEW k \in 0 .. j PROVE g[k] = IF k = 0 THEN n ELSE UpStep(t, g[k - 1])
      OBVIOUS
    <3>1. CASE k = j
      BY <2>2, <2>3, <3>1
    <3>2. CASE k # j
      <4>1. k \in 0 .. (j - 1) /\ (k # 0 => k - 1 \in 0 .. (j - 1))
        BY <2>2, <3>2
      <4> HIDE DEF g
      <4> QED BY <2>3, <4>1
    <3> QED BY <3>1, <3>2
  <2>5. g = [k \in 0 .. j |-> g[k]]
    OBVIOUS
  <2>6. Sol(g, j)
    <3> HIDE DEF g
    <3> QED BY <2>4, <2>5
  <2> QED BY <2>2, <2>6
<1> HIDE DEF S
<1>3. MaxNodes \in S
  BY <1>1, <1>2, UpTo
<1>4. Sol(f, MaxNodes)
  <2>1. \E h : Sol(h, MaxNodes)
    BY <1>3 DEF S
  <2> HIDE DEF Sol
  <2> QED BY <2>1
<1>5. Up(t, n) = f
  BY DEF Up, UpStep
<1> HIDE DEF f
<1>6. f[0] = n /\ \A k \in 1 .. MaxNodes : f[k] = UpStep(t, f[k - 1])
  BY <1>4
<1> HIDE DEF Sol
<1> QED BY <1>5, <1>6

\* The path to a node, as it grows from its end.
LEMMA AbsPathIs ==
    ASSUME NEW t, NEW n, MaxNodes \in Nat
    PROVE  \E f : /\ vfs_abs_path_to(t, n) = f[Depth(t, n)]
                  /\ f[0] = <<>>
                  /\ \A k \in 1 .. MaxNodes : f[k] = PathStep(t, n, k, f[k - 1])
<1> DEFINE Sol(h, j) == h = [k \in 0 .. j |-> IF k = 0 THEN <<>> ELSE PathStep(t, n, k, h[k - 1])]
           S == {j \in Nat : \E h : Sol(h, j)}
           f == CHOOSE h : Sol(h, MaxNodes)
<1>1. 0 \in S
  <2>1. Sol([k \in 0 .. 0 |-> <<>>], 0)
    OBVIOUS
  <2> QED BY <2>1
<1>2. \A j \in 1 .. MaxNodes : j - 1 \in S => j \in S
  <2> SUFFICES ASSUME NEW j \in 1 .. MaxNodes, j - 1 \in S PROVE j \in S
    OBVIOUS
  <2>1. PICK h : Sol(h, j - 1)
    OBVIOUS
  <2> DEFINE g == [k \in 0 .. j |-> IF k = j THEN PathStep(t, n, j, h[j - 1]) ELSE h[k]]
  <2>2. j \in Nat /\ j > 0
    OBVIOUS
  <2>3. \A k \in 0 .. (j - 1) : g[k] = h[k] /\ h[k] = IF k = 0 THEN <<>> ELSE PathStep(t, n, k, h[k - 1])
    BY <2>1, <2>2
  <2>4. \A k \in 0 .. j : g[k] = IF k = 0 THEN <<>> ELSE PathStep(t, n, k, g[k - 1])
    <3> SUFFICES ASSUME NEW k \in 0 .. j PROVE g[k] = IF k = 0 THEN <<>> ELSE PathStep(t, n, k, g[k - 1])
      OBVIOUS
    <3>1. CASE k = j
      BY <2>2, <2>3, <3>1
    <3>2. CASE k # j
      <4>1. k \in 0 .. (j - 1) /\ (k # 0 => k - 1 \in 0 .. (j - 1))
        BY <2>2, <3>2
      <4> HIDE DEF g
      <4> QED BY <2>3, <4>1
    <3> QED BY <3>1, <3>2
  <2>5. g = [k \in 0 .. j |-> g[k]]
    OBVIOUS
  <2>6. Sol(g, j)
    <3> HIDE DEF g
    <3> QED BY <2>4, <2>5
  <2> QED BY <2>2, <2>6
<1> HIDE DEF S
<1>3. MaxNodes \in S
  BY <1>1, <1>2, UpTo
<1>4. Sol(f, MaxNodes)
  <2>1. \E h : Sol(h, MaxNodes)
    BY <1>3 DEF S
  <2> HIDE DEF Sol
  <2> QED BY <2>1
<1>5. vfs_abs_path_to(t, n) = f[Depth(t, n)]
  BY DEF vfs_abs_path_to, PathStep
<1> HIDE DEF f
<1>6. f[0] = <<>> /\ \A k \in 1 .. MaxNodes : f[k] = PathStep(t, n, k, f[k - 1])
  BY <1>4
<1> HIDE DEF Sol
<1> QED BY <1>5, <1>6

\* The trees that adding a list of children goes through.
LEMMA AddAllIs ==
    ASSUME NEW t, NEW p, NEW names, NEW type, NEW N \in Nat
    PROVE  \E f : AddTrace(t, p, names, type, N, f)
<1> DEFINE Sol(h, j) == h = [k \in 0 .. j |-> IF k = 0 THEN t ELSE ChildStep(p, names, type, k, h[k - 1])]
           S == {j \in Nat : \E h : Sol(h, j)}
           f == CHOOSE h : Sol(h, N)
<1>1. 0 \in S
  <2>1. Sol([k \in 0 .. 0 |-> t], 0)
    OBVIOUS
  <2> QED BY <2>1
<1>2. \A j \in 1 .. N : j - 1 \in S => j \in S
  <2> SUFFICES ASSUME NEW j \in 1 .. N, j - 1 \in S PROVE j \in S
    OBVIOUS
  <2>1. PICK h : Sol(h, j - 1)
    OBVIOUS
  <2> DEFINE g == [k \in 0 .. j |-> IF k = j THEN ChildStep(p, names, type, j, h[j - 1]) ELSE h[k]]
  <2>2. j \in Nat /\ j > 0
    OBVIOUS
  <2>3. \A k \in 0 .. (j - 1) : g[k] = h[k] /\ h[k] = IF k = 0 THEN t ELSE ChildStep(p, names, type, k, h[k - 1])
    BY <2>1, <2>2
  <2>4. \A k \in 0 .. j : g[k] = IF k = 0 THEN t ELSE ChildStep(p, names, type, k, g[k - 1])
    <3> SUFFICES ASSUME NEW k \in 0 .. j PROVE g[k] = IF k = 0 THEN t ELSE ChildStep(p, names, type, k, g[k - 1])
      OBVIOUS
    <3>1. CASE k = j
      BY <2>2, <2>3, <3>1
    <3>2. CASE k # j
      <4>1. k \in 0 .. (j - 1) /\ (k # 0 => k - 1 \in 0 .. (j - 1))
        BY <2>2, <3>2
      <4> HIDE DEF g
      <4> QED BY <2>3, <4>1
    <3> QED BY <3>1, <3>2
  <2>5. g = [k \in 0 .. j |-> g[k]]
    OBVIOUS
  <2>6. Sol(g, j)
    <3> HIDE DEF g
    <3> QED BY <2>4, <2>5
  <2> QED BY <2>2, <2>6
<1> HIDE DEF S
<1>3. N \in S
  BY <1>1, <1>2, UpTo
<1>4. Sol(f, N)
  <2>1. \E h : Sol(h, N)
    BY <1>3 DEF S
  <2> HIDE DEF Sol
  <2> QED BY <2>1
<1>5. (Len(names) = N => AddAll(t, p, names, type) = f[Len(names)])
  BY DEF AddAll, ChildStep
<1> HIDE DEF f
<1>6. f[0] = t /\ \A k \in 1 .. N : f[k] = ChildStep(p, names, type, k, f[k - 1])
  BY <1>4
<1> HIDE DEF Sol
<1> QED BY <1>5, <1>6 DEF AddTrace

\* The trees that reading the archive goes through.
LEMMA TarIs ==
    ASSUME NEW t, NEW top, NEW archive, NEW N \in Nat
    PROVE  \E f : TarTrace(t, top, archive, N, f)
<1> DEFINE Sol(h, j) == h = [k \in 0 .. j |-> IF k = 0 THEN t ELSE EntryStep(top, archive, k, h[k - 1])]
           S == {j \in Nat : \E h : Sol(h, j)}
           f == CHOOSE h : Sol(h, N)
<1>1. 0 \in S
  <2>1. Sol([k \in 0 .. 0 |-> t], 0)
    OBVIOUS
  <2> QED BY <2>1
<1>2. \A j \in 1 .. N : j - 1 \in S => j \in S
  <2> SUFFICES ASSUME NEW j \in 1 .. N, j - 1 \in S PROVE j \in S
    OBVIOUS
  <2>1. PICK h : Sol(h, j - 1)
    OBVIOUS
  <2> DEFINE g == [k \in 0 .. j |-> IF k = j THEN EntryStep(top, archive, j, h[j - 1]) ELSE h[k]]
  <2>2. j \in Nat /\ j > 0
    OBVIOUS
  <2>3. \A k \in 0 .. (j - 1) : g[k] = h[k] /\ h[k] = IF k = 0 THEN t ELSE EntryStep(top, archive, k, h[k - 1])
    BY <2>1, <2>2
  <2>4. \A k \in 0 .. j : g[k] = IF k = 0 THEN t ELSE EntryStep(top, archive, k, g[k - 1])
    <3> SUFFICES ASSUME NEW k \in 0 .. j PROVE g[k] = IF k = 0 THEN t ELSE EntryStep(top, archive, k, g[k - 1])
      OBVIOUS
    <3>1. CASE k = j
      BY <2>2, <2>3, <3>1
    <3>2. CASE k # j
      <4>1. k \in 0 .. (j - 1) /\ (k # 0 => k - 1 \in 0 .. (j - 1))
        BY <2>2, <3>2
      <4> HIDE DEF g
      <4> QED BY <2>3, <4>1
    <3> QED BY <3>1, <3>2
  <2>5. g = [k \in 0 .. j |-> g[k]]
    OBVIOUS
  <2>6. Sol(g, j)
    <3> HIDE DEF g
    <3> QED BY <2>4, <2>5
  <2> QED BY <2>2, <2>6
<1> HIDE DEF S
<1>3. N \in S
  BY <1>1, <1>2, UpTo
<1>4. Sol(f, N)
  <2>1. \E h : Sol(h, N)
    BY <1>3 DEF S
  <2> HIDE DEF Sol
  <2> QED BY <2>1
<1>5. (Len(archive) = N => tar_parse(t, top, archive) = f[Len(archive)])
  BY DEF tar_parse, EntryStep
<1> HIDE DEF f
<1>6. f[0] = t /\ \A k \in 1 .. N : f[k] = EntryStep(top, archive, k, f[k - 1])
  BY <1>4
<1> HIDE DEF Sol
<1> QED BY <1>5, <1>6 DEF TarTrace

\* The trees that mounting goes through.
LEMMA PopulateIs ==
    ASSUME NEW t, NEW p, NEW entries, NEW N \in Nat
    PROVE  \E f : FillTrace(t, p, entries, N, f)
<1> DEFINE Sol(h, j) == h = [k \in 0 .. j |-> IF k = 0 THEN [t |-> t, ids |-> <<>>] ELSE Listed(h[k - 1], p, entries[k])]
           S == {j \in Nat : \E h : Sol(h, j)}
           f == CHOOSE h : Sol(h, N)
<1>1. 0 \in S
  <2>1. Sol([k \in 0 .. 0 |-> [t |-> t, ids |-> <<>>]], 0)
    OBVIOUS
  <2> QED BY <2>1
<1>2. \A j \in 1 .. N : j - 1 \in S => j \in S
  <2> SUFFICES ASSUME NEW j \in 1 .. N, j - 1 \in S PROVE j \in S
    OBVIOUS
  <2>1. PICK h : Sol(h, j - 1)
    OBVIOUS
  <2> DEFINE g == [k \in 0 .. j |-> IF k = j THEN Listed(h[j - 1], p, entries[j]) ELSE h[k]]
  <2>2. j \in Nat /\ j > 0
    OBVIOUS
  <2>3. \A k \in 0 .. (j - 1) : g[k] = h[k] /\ h[k] = IF k = 0 THEN [t |-> t, ids |-> <<>>] ELSE Listed(h[k - 1], p, entries[k])
    BY <2>1, <2>2
  <2>4. \A k \in 0 .. j : g[k] = IF k = 0 THEN [t |-> t, ids |-> <<>>] ELSE Listed(g[k - 1], p, entries[k])
    <3> SUFFICES ASSUME NEW k \in 0 .. j PROVE g[k] = IF k = 0 THEN [t |-> t, ids |-> <<>>] ELSE Listed(g[k - 1], p, entries[k])
      OBVIOUS
    <3>1. CASE k = j
      BY <2>2, <2>3, <3>1
    <3>2. CASE k # j
      <4>1. k \in 0 .. (j - 1) /\ (k # 0 => k - 1 \in 0 .. (j - 1))
        BY <2>2, <3>2
      <4> HIDE DEF g
      <4> QED BY <2>3, <4>1
    <3> QED BY <3>1, <3>2
  <2>5. g = [k \in 0 .. j |-> g[k]]
    OBVIOUS
  <2>6. Sol(g, j)
    <3> HIDE DEF g
    <3> QED BY <2>4, <2>5
  <2> QED BY <2>2, <2>6
<1> HIDE DEF S
<1>3. N \in S
  BY <1>1, <1>2, UpTo
<1>4. Sol(f, N)
  <2>1. \E h : Sol(h, N)
    BY <1>3 DEF S
  <2> HIDE DEF Sol
  <2> QED BY <2>1
<1>5. (Len(entries) = N => vfs_ext2_populate(t, p, entries) = f[Len(entries)].t)
  BY DEF vfs_ext2_populate
<1> HIDE DEF f
<1>6. f[0] = [t |-> t, ids |-> <<>>] /\ \A k \in 1 .. N : f[k] = Listed(f[k - 1], p, entries[k])
  BY <1>4
<1> HIDE DEF Sol
<1> QED BY <1>5, <1>6 DEF FillTrace

----------------------------------------------------------------------------
(* One tree: what is below a node *)

\* Children are nodes.
LEMMA KidsAre ==
    ASSUME NEW t \in Memory, NEW n \in Nodes
    PROVE  /\ t.node[n] \in Node /\ t.node[n].parent \in Nodes /\ t.node[n].childs \in Seq(Nodes)
           /\ Kids(t, n) \subseteq Nodes /\ ToSet(t.node[n].childs) = Kids(t, n)
           /\ DOMAIN t.node[n].childs = 1 .. Len(t.node[n].childs) /\ Len(t.node[n].childs) \in Nat
<1>1. t.node[n] \in Node
  BY DEF Memory
<1>2. t.node[n].parent \in Nodes /\ t.node[n].childs \in Seq(Nodes)
  BY <1>1 DEF Node
<1>3. ToSet(t.node[n].childs) = Kids(t, n)
  BY DEF ToSet, Kids
<1>4. Kids(t, n) \subseteq Nodes
  BY <1>2 DEF Kids
<1> QED BY <1>1, <1>2, <1>3, <1>4

\* What LevelStep adds are the children.
LEMMA LevelIs ==
    ASSUME NEW t \in Memory, NEW x \in SUBSET Nodes
    PROVE  LevelStep(t, x) = x \cup UNION {Kids(t, m) : m \in x}
<1>1. \A m \in x : ToSet(t.node[m].childs) = Kids(t, m)
  BY KidsAre
<1> QED BY <1>1 DEF LevelStep

\* Below is the least set of nodes that holds the children of n and of its own.
LEMMA BelowIs ==
    ASSUME NEW t \in Memory, NEW n \in Nodes
    PROVE  /\ Below(t, n) \in SUBSET Nodes /\ Kids(t, n) \subseteq Below(t, n) /\ Closed(t, Below(t, n))
           /\ \A S \in SUBSET Nodes : Kids(t, n) \subseteq S /\ Closed(t, S) => Below(t, n) \subseteq S
<1>0. MaxNodes \in Nat
  BY VfsConstants
<1>1. PICK f : /\ Below(t, n) = f[MaxNodes]
               /\ f[0] = ToSet(t.node[n].childs)
               /\ \A k \in 1 .. MaxNodes : f[k] = LevelStep(t, f[k - 1])
  BY <1>0, ReachIs
<1>2. f[0] = Kids(t, n)
  BY <1>1, KidsAre
<1>3. ASSUME NEW S \in SUBSET Nodes, Kids(t, n) \subseteq S, Closed(t, S)
      PROVE  \A k \in 0 .. MaxNodes : f[k] \subseteq S
  <2> DEFINE T == {k \in 0 .. MaxNodes : f[k] \subseteq S}
  <2>1. 0 \in T
    BY <1>0, <1>2, <1>3
  <2>2. \A k \in 1 .. MaxNodes : k - 1 \in T => k \in T
    <3> SUFFICES ASSUME NEW k \in 1 .. MaxNodes, k - 1 \in T PROVE k \in T
      OBVIOUS
    <3>1. f[k] = f[k - 1] \cup UNION {Kids(t, m) : m \in f[k - 1]}
      BY <1>1, LevelIs
    <3>2. f[k] \subseteq S
      BY <1>3, <3>1 DEF Closed
    <3> QED BY <3>2
  <2> HIDE DEF T
  <2>3. \A k \in 0 .. MaxNodes : k \in T
    BY <1>0, <2>1, <2>2, UpTo
  <2> QED BY <2>3 DEF T
<1>4. \A k \in 0 .. MaxNodes : f[k] \in SUBSET Nodes
  <2>1. Closed(t, Nodes)
    BY KidsAre DEF Closed
  <2>2. Kids(t, n) \subseteq Nodes
    BY KidsAre
  <2> QED BY <1>3, <2>1, <2>2
<1>5. \A k \in 1 .. MaxNodes : f[k - 1] \in SUBSET Nodes /\ f[k] = f[k - 1] \cup UNION {Kids(t, m) : m \in f[k - 1]}
  <2> SUFFICES ASSUME NEW k \in 1 .. MaxNodes
               PROVE  f[k - 1] \in SUBSET Nodes /\ f[k] = f[k - 1] \cup UNION {Kids(t, m) : m \in f[k - 1]}
    OBVIOUS
  <2>1. k - 1 \in 0 .. MaxNodes
    BY <1>0
  <2>2. f[k - 1] \in SUBSET Nodes
    BY <1>4, <2>1
  <2> QED BY <1>1, <2>2, LevelIs
<1>6. \A k \in 0 .. MaxNodes : Kids(t, n) \subseteq f[k]
  <2> DEFINE T == {k \in 0 .. MaxNodes : Kids(t, n) \subseteq f[k]}
  <2>1. 0 \in T
    BY <1>0, <1>2
  <2>2. \A k \in 1 .. MaxNodes : k - 1 \in T => k \in T
    BY <1>5
  <2> HIDE DEF T
  <2>3. \A k \in 0 .. MaxNodes : k \in T
    BY <1>0, <2>1, <2>2, UpTo
  <2> QED BY <2>3 DEF T
<1>7. Closed(t, f[MaxNodes])
  <2>1. ASSUME NEW k \in 1 .. MaxNodes, f[k] = f[k - 1] PROVE Closed(t, f[MaxNodes])
    <3> DEFINE T == {j \in 0 .. MaxNodes : j < k \/ Closed(t, f[j])}
    <3>1. Closed(t, f[k])
      BY <1>5, <2>1 DEF Closed
    <3>2. 0 \in T
      BY <1>0
    <3>3. \A j \in 1 .. MaxNodes : j - 1 \in T => j \in T
      <4> SUFFICES ASSUME NEW j \in 1 .. MaxNodes, j - 1 \in T PROVE j \in T
        OBVIOUS
      <4>1. CASE j <= k
        BY <3>1, <4>1
      <4>2. CASE ~(j <= k)
        <5>1. Closed(t, f[j - 1])
          BY <4>2
        <5>2. f[j] = f[j - 1]
          <6>1. f[j] = f[j - 1] \cup UNION {Kids(t, m) : m \in f[j - 1]}
            BY <1>5
          <6>2. UNION {Kids(t, m) : m \in f[j - 1]} \subseteq f[j - 1]
            BY <5>1 DEF Closed
          <6> QED BY <6>1, <6>2
        <5>3. Closed(t, f[j])
          BY <5>1, <5>2 DEF Closed
        <5> QED BY <1>0, <5>3
      <4> QED BY <4>1, <4>2
    <3> HIDE DEF T
    <3>4. \A j \in 0 .. MaxNodes : j \in T
      BY <1>0, <3>2, <3>3, UpTo
    <3> QED BY <1>0, <3>4 DEF T
  <2>2. ASSUME \A k \in 1 .. MaxNodes : f[k] # f[k - 1] PROVE Closed(t, f[MaxNodes])
    <3> DEFINE T == {k \in 0 .. MaxNodes : k <= Cardinality(f[k])}
    <3>1. IsFiniteSet(Nodes) /\ Cardinality(Nodes) = MaxNodes
      BY <1>0, FS_Interval DEF Nodes
    <3>2. \A k \in 0 .. MaxNodes : IsFiniteSet(f[k]) /\ Cardinality(f[k]) \in Nat
      <4> SUFFICES ASSUME NEW k \in 0 .. MaxNodes PROVE IsFiniteSet(f[k]) /\ Cardinality(f[k]) \in Nat
        OBVIOUS
      <4>1. IsFiniteSet(f[k])
        BY <1>4, <3>1, FS_Subset
      <4> QED BY <4>1, FS_CardinalityType
    <3>3. 0 \in T
      BY <1>0, <3>2
    <3>4. \A k \in 1 .. MaxNodes : k - 1 \in T => k \in T
      <4> SUFFICES ASSUME NEW k \in 1 .. MaxNodes, k - 1 \in T PROVE k \in T
        OBVIOUS
      <4>1. f[k - 1] \subseteq f[k] /\ f[k - 1] # f[k]
        BY <1>5, <2>2
      <4>2. k \in 0 .. MaxNodes /\ k - 1 \in 0 .. MaxNodes
        BY <1>0
      <4>3. IsFiniteSet(f[k]) /\ f[k - 1] \in SUBSET f[k]
        BY <3>2, <4>1, <4>2
      <4>4. Cardinality(f[k - 1]) <= Cardinality(f[k]) /\ Cardinality(f[k - 1]) # Cardinality(f[k])
        BY <4>1, <4>3, FS_Subset
      <4>5. Cardinality(f[k]) \in Nat /\ Cardinality(f[k - 1]) \in Nat /\ k - 1 <= Cardinality(f[k - 1])
        BY <3>2, <4>2
      <4> QED BY <4>2, <4>4, <4>5
    <3> HIDE DEF T
    <3>5. \A k \in 0 .. MaxNodes : k \in T
      BY <1>0, <3>3, <3>4, UpTo
    <3>6. MaxNodes \in 0 .. MaxNodes
      BY <1>0
    <3>7. MaxNodes <= Cardinality(f[MaxNodes]) /\ f[MaxNodes] \in SUBSET Nodes
      BY <1>4, <3>5, <3>6 DEF T
    <3>8. Cardinality(f[MaxNodes]) <= MaxNodes /\ Cardinality(f[MaxNodes]) \in Nat
      BY <3>1, <3>2, <3>6, <3>7, FS_Subset
    <3>9. Cardinality(f[MaxNodes]) = Cardinality(Nodes)
      BY <1>0, <3>1, <3>7, <3>8
    <3>10. \A W \in SUBSET Nodes : Cardinality(Nodes) = Cardinality(W) => Nodes = W
      BY <3>1, FS_Subset
    <3>11. f[MaxNodes] = Nodes
      BY <3>7, <3>9, <3>10
    <3> QED BY <3>11, KidsAre DEF Closed
  <2> QED BY <2>1, <2>2
<1> QED BY <1>0, <1>1, <1>3, <1>4, <1>6, <1>7

\* What is below n has its parent there, or it is n.
LEMMA BelowFrom ==
    ASSUME NEW t \in Memory, NEW n \in Nodes, NEW c \in Below(t, n)
    PROVE  \E m \in Below(t, n) \cup {n} : c \in Kids(t, m)
<1> DEFINE S == {d \in Below(t, n) : \E m \in Below(t, n) \cup {n} : d \in Kids(t, m)}
<1>1. Below(t, n) \in SUBSET Nodes /\ Kids(t, n) \subseteq Below(t, n) /\ Closed(t, Below(t, n))
  BY BelowIs
<1>2. S \in SUBSET Nodes
  BY <1>1
<1>3. Kids(t, n) \subseteq S
  BY <1>1
<1>4. Closed(t, S)
  BY <1>1 DEF Closed
<1>5. Below(t, n) \subseteq S
  BY <1>2, <1>3, <1>4, BelowIs
<1> QED BY <1>5

\* In a tree nothing is below itself, and a child is below n only if its parent
\* is, or is n.
LEMMA BelowTree ==
    ASSUME NEW t, Tree(t), NEW n \in t.live
    PROVE  /\ n \in Nodes /\ n \notin Below(t, n) /\ Below(t, n) \subseteq t.live \ {Root}
           /\ \A c \in Below(t, n) : t.node[c].parent \in Below(t, n) \cup {n}
           /\ \A m \in t.live \ (Below(t, n) \cup {n}) : \A c \in Kids(t, m) : c \notin Below(t, n)
<1> DEFINE G == Below(t, n)
<1>1. t \in Memory /\ t.live \in SUBSET Nodes /\ n \in Nodes
  BY DEF Tree, Memory
<1>2. G \subseteq t.live \ {Root}
  <2>1. t.live \ {Root} \in SUBSET Nodes
    BY <1>1
  <2>2. Kids(t, n) \subseteq t.live \ {Root} /\ Closed(t, t.live \ {Root})
    BY DEF Tree, Linked, Closed
  <2> QED BY <1>1, <2>1, <2>2, BelowIs
<1>3. ASSUME NEW c \in G PROVE t.node[c].parent \in G \cup {n}
  <2>1. PICK m \in G \cup {n} : c \in Kids(t, m)
    BY <1>1, BelowFrom
  <2>2. m \in t.live
    BY <1>2
  <2> QED BY <2>1, <2>2 DEF Tree, Linked
<1>4. ASSUME NEW m \in t.live \ (G \cup {n}), NEW c \in Kids(t, m) PROVE c \notin G
  <2>1. t.node[c].parent = m
    BY DEF Tree, Linked
  <2> QED BY <1>3, <2>1
<1>5. n \notin G
  <2> SUFFICES ASSUME n \in G PROVE FALSE
    OBVIOUS
  <2> DEFINE S == t.live \ G
  <2>1. Root \in S
    BY <1>2 DEF Tree, Linked
  <2>2. Closed(t, S)
    <3> SUFFICES ASSUME NEW m \in S, NEW c \in Kids(t, m) PROVE c \in S
      BY DEF Closed
    <3>1. c \in t.live
      BY DEF Tree, Linked
    <3> QED BY <1>4, <3>1
  <2>3. S \in SUBSET t.live
    OBVIOUS
  <2> HIDE DEF S
  <2>4. t.live \subseteq S
    BY <2>1, <2>2, <2>3 DEF Tree, Reached
  <2> QED BY <2>4 DEF S
<1> QED BY <1>1, <1>2, <1>3, <1>4, <1>5

\* Every node but the root is below the root.
LEMMA AllBelow ==
    ASSUME NEW t, Tree(t)
    PROVE  t.live = {Root} \cup Below(t, Root)
<1>1. t \in Memory /\ Root \in t.live /\ Root \in Nodes
  BY DEF Tree, Linked, Memory
<1>2. Below(t, Root) \subseteq t.live
  BY <1>1, BelowTree
<1>3. {Root} \cup Below(t, Root) \in SUBSET t.live
  BY <1>1, <1>2
<1>4. Closed(t, {Root} \cup Below(t, Root))
  BY <1>1, BelowIs DEF Closed
<1> QED BY <1>3, <1>4 DEF Tree, Reached

\* Names and types do not matter to the tree.
LEMMA SameLinks ==
    ASSUME NEW t, Tree(t), NEW u \in Memory, u.live = t.live,
           \A n \in Nodes : u.node[n].parent = t.node[n].parent /\ u.node[n].childs = t.node[n].childs
    PROVE  Tree(u) /\ \A n \in Nodes : Kids(u, n) = Kids(t, n) /\ Below(u, n) = Below(t, n)
<1>1. \A n \in Nodes : Kids(u, n) = Kids(t, n)
  BY DEF Kids
<1>2. t \in Memory /\ t.live \in SUBSET Nodes /\ Root \in Nodes
  BY DEF Tree, Linked, Memory
<1>3. \A S \in SUBSET Nodes : Closed(u, S) <=> Closed(t, S)
  BY <1>1 DEF Closed
<1>4. Linked(u)
  BY <1>1, <1>2 DEF Tree, Linked, IsRoot
<1>5. Reached(u)
  BY <1>2, <1>3 DEF Tree, Reached
<1>6. ASSUME NEW n \in Nodes PROVE Below(u, n) = Below(t, n)
  <2>1. /\ Below(t, n) \in SUBSET Nodes /\ Kids(u, n) \subseteq Below(t, n) /\ Closed(u, Below(t, n))
        /\ Below(u, n) \in SUBSET Nodes /\ Kids(t, n) \subseteq Below(u, n) /\ Closed(t, Below(u, n))
    BY <1>1, <1>2, <1>3, BelowIs
  <2>2. Below(u, n) \subseteq Below(t, n)
    BY <2>1, BelowIs
  <2>3. Below(t, n) \subseteq Below(u, n)
    BY <1>2, <2>1, BelowIs
  <2> QED BY <2>2, <2>3
<1> QED BY <1>1, <1>4, <1>5, <1>6 DEF Tree

----------------------------------------------------------------------------
(* One tree: a node is added, the nodes below one are freed *)

\* kmalloc returns the first free node, if there is one.
LEMMA NewNodeIs ==
    ASSUME NEW t \in Memory, Nodes \ t.live # {}
    PROVE  NewNode(t) \in Nodes \ t.live /\ \A m \in Nodes \ t.live : NewNode(t) <= m
<1>1. Nodes \ t.live \in SUBSET Nat
  BY VfsConstants DEF Nodes
<1>2. \E n \in Nodes \ t.live : \A m \in Nodes \ t.live : n <= m
  BY <1>1, NatMin
<1> QED BY <1>2 DEF NewNode

\* What vfs_add_child writes.
LEMMA AddIs ==
    ASSUME NEW t \in Memory, NEW p \in Nodes, NEW name \in Seq(STRING), NEW type \in Types,
           NEW n \in Nodes, n = NewNode(t), n # p,
           NEW u, u = vfs_add_child(t, p, name, type)
    PROVE  /\ u \in Memory /\ u.live = t.live \cup {n}
           /\ u.node[n] = vfs_create_node(p, name, type)
           /\ u.node[p].childs = Append(t.node[p].childs, n) /\ u.node[p].parent = t.node[p].parent
           /\ u.node[p].name = t.node[p].name /\ u.node[p].type = t.node[p].type
           /\ \A m \in Nodes \ {n, p} : u.node[m] = t.node[m]
<1> DEFINE new == vfs_create_node(p, name, type)
<1>1. new \in Node
  BY DEF vfs_create_node, Node
<1>2. t.live \in SUBSET Nodes /\ t.node \in [Nodes -> Node] /\ t.node[p] \in Node
  BY DEF Memory
<1>3. Append(t.node[p].childs, n) \in Seq(Nodes)
  BY <1>2 DEF Node
<1> DEFINE par == [t.node[p] EXCEPT !.childs = Append(@, n)]
<1>4. par \in Node /\ par.childs = Append(t.node[p].childs, n) /\ par.parent = t.node[p].parent
      /\ par.name = t.node[p].name /\ par.type = t.node[p].type
  BY <1>2, <1>3 DEF Node
<1>5. u = [live |-> t.live \cup {n}, node |-> [t.node EXCEPT ![n] = new, ![p].childs = Append(@, n)]]
  BY DEF vfs_add_child
<1>6. [t.node EXCEPT ![n] = new, ![p].childs = Append(@, n)] = [m \in Nodes |-> IF m = n THEN new ELSE IF m = p THEN par ELSE t.node[m]]
  BY <1>2
<1> HIDE DEF new, par
<1>7. [m \in Nodes |-> IF m = n THEN new ELSE IF m = p THEN par ELSE t.node[m]] \in [Nodes -> Node]
  BY <1>1, <1>2, <1>4
<1>8. u.node = [m \in Nodes |-> IF m = n THEN new ELSE IF m = p THEN par ELSE t.node[m]] /\ u.live = t.live \cup {n}
  BY <1>5, <1>6
<1>9. u \in Memory
  <2> DEFINE nodes == [t.node EXCEPT ![n] = new, ![p].childs = Append(@, n)]
             lives == t.live \cup {n}
  <2>1. nodes \in [Nodes -> Node] /\ lives \in SUBSET Nodes
    BY <1>2, <1>6, <1>7
  <2>2. u = [live |-> lives, node |-> nodes]
    BY <1>5
  <2> HIDE DEF nodes, lives
  <2> QED BY <2>1, <2>2 DEF Memory
<1>10. u.node[n] = new /\ u.node[p] = par /\ \A m \in Nodes \ {n, p} : u.node[m] = t.node[m]
  BY <1>8
<1> QED BY <1>4, <1>8, <1>9, <1>10 DEF new

\* What a sequence with one element more holds.
LEMMA AppendIs ==
    ASSUME NEW S, NEW s \in Seq(S), NEW n \in S
    PROVE  LET r == Append(s, n)
           IN  /\ DOMAIN s = 1 .. Len(s) /\ Len(s) \in Nat
               /\ DOMAIN r = 1 .. Len(s) + 1 /\ r[Len(s) + 1] = n
               /\ \A i \in 1 .. Len(s) : r[i] = s[i]
OBVIOUS

\* A tree with one node more is a tree.
LEMMA AddTree ==
    ASSUME NEW t, Tree(t), NEW p \in t.live, NEW name \in Seq(STRING), NEW type \in Types,
           Nodes \ t.live # {}, NEW n, n = NewNode(t), NEW u, u = vfs_add_child(t, p, name, type)
    PROVE  /\ Tree(u) /\ n \in Nodes \ t.live /\ u.live = t.live \cup {n}
           /\ Kids(u, n) = {} /\ Kids(u, p) = Kids(t, p) \cup {n}
           /\ \A m \in t.live \ {p} : Kids(u, m) = Kids(t, m)
<1>1. t \in Memory /\ t.live \in SUBSET Nodes /\ p \in Nodes
  BY DEF Tree, Memory
<1>2. n \in Nodes /\ n \notin t.live /\ n # p
  BY <1>1, NewNodeIs
<1>3. /\ u \in Memory /\ u.live = t.live \cup {n}
      /\ u.node[n] = vfs_create_node(p, name, type)
      /\ u.node[p].childs = Append(t.node[p].childs, n) /\ u.node[p].parent = t.node[p].parent
      /\ \A m \in Nodes \ {n, p} : u.node[m] = t.node[m]
  BY <1>1, <1>2, AddIs
<1>4. u.node[n].parent = p /\ u.node[n].childs = <<>>
  BY <1>3 DEF vfs_create_node
<1>5. Kids(u, n) = {}
  BY <1>4 DEF Kids
<1>6. t.node[p].childs \in Seq(Nodes) /\ n \notin Kids(t, p) /\ p \in t.live
  BY <1>1, <1>2, KidsAre DEF Tree, Linked
<1>7. Kids(u, p) = Kids(t, p) \cup {n} /\ Once(u.node[p].childs)
  <2> DEFINE s == t.node[p].childs
             r == u.node[p].childs
  <2>1. s \in Seq(Nodes) /\ r = Append(s, n)
    BY <1>3, <1>6
  <2>3. Once(s) /\ \A i \in DOMAIN s : s[i] # n
    BY <1>6 DEF Tree, Linked, Kids
  <2> HIDE DEF s, r
  <2>2. /\ DOMAIN s = 1 .. Len(s) /\ Len(s) \in Nat /\ DOMAIN r = 1 .. Len(s) + 1 /\ r[Len(s) + 1] = n
        /\ \A i \in 1 .. Len(s) : r[i] = s[i]
    BY <1>2, <2>1, AppendIs
  <2>4. {r[i] : i \in DOMAIN r} = {s[i] : i \in DOMAIN s} \cup {n}
    BY <2>2
  <2>5. Once(r)
    BY <2>2, <2>3 DEF Once
  <2> QED BY <2>4, <2>5 DEF Kids, s, r
<1>8. \A m \in t.live \ {p} : u.node[m] = t.node[m]
  BY <1>1, <1>2, <1>3
<1>9. \A m \in t.live \ {p} : Kids(u, m) = Kids(t, m)
  BY <1>8 DEF Kids
<1>10. \A m \in t.live : u.node[m].parent = t.node[m].parent
  BY <1>3, <1>8
<1>11. Linked(u)
  <2>1. Root \in u.live /\ IsRoot(u, Root)
    BY <1>3, <1>10 DEF Tree, Linked, IsRoot
  <2>2. Root # n
    BY <1>2 DEF Tree, Linked
  <2>3. \A m \in u.live : Once(u.node[m].childs)
    <3>1. Once(<<>>)
      BY DEF Once
    <3>2. \A m \in t.live \ {p} : Once(u.node[m].childs)
      BY <1>8 DEF Tree, Linked
    <3> QED BY <1>3, <1>4, <1>7, <3>1, <3>2
  <2>4. \A m \in u.live : \A c \in Kids(u, m) : c \in u.live \ {Root} /\ u.node[c].parent = m
    BY <1>3, <1>4, <1>5, <1>7, <1>9, <1>10, <2>2 DEF Tree, Linked
  <2>5. ASSUME NEW m \in u.live \ {Root} PROVE u.node[m].parent \in u.live /\ m \in Kids(u, u.node[m].parent)
    <3>1. CASE m = n
      BY <1>3, <1>4, <1>7, <3>1
    <3>2. CASE m # n
      <4>1. m \in t.live \ {Root} /\ t.node[m].parent \in t.live /\ m \in Kids(t, t.node[m].parent)
        BY <1>3, <3>2 DEF Tree, Linked
      <4> QED BY <1>3, <1>7, <1>9, <1>10, <4>1
    <3> QED BY <3>1, <3>2
  <2> QED BY <2>1, <2>3, <2>4, <2>5 DEF Linked
<1>12. Reached(u)
  <2> SUFFICES ASSUME NEW S \in SUBSET u.live, Root \in S, Closed(u, S) PROVE u.live \subseteq S
    BY DEF Reached
  <2>1. S \ {n} \in SUBSET t.live /\ Root \in S \ {n}
    BY <1>2, <1>3 DEF Tree, Linked
  <2>2. Closed(t, S \ {n})
    <3> SUFFICES ASSUME NEW m \in S \ {n}, NEW c \in Kids(t, m) PROVE c \in S \ {n}
      BY DEF Closed
    <3>1. m \in t.live /\ c \in t.live
      BY <2>1 DEF Tree, Linked
    <3>2. c \in Kids(u, m)
      BY <1>7, <1>9, <3>1
    <3> QED BY <1>2, <3>1, <3>2 DEF Closed
  <2>3. t.live \subseteq S \ {n}
    BY <2>1, <2>2 DEF Tree, Reached
  <2>4. n \in S
    BY <1>7, <2>3 DEF Closed
  <2> QED BY <1>3, <2>3, <2>4
<1> QED BY <1>2, <1>3, <1>5, <1>7, <1>9, <1>11, <1>12 DEF Tree

\* What vfs_free_child_nodes writes.
LEMMA FreeIs ==
    ASSUME NEW t \in Memory, NEW n \in Nodes, n \notin Below(t, n), NEW u, u = vfs_free_child_nodes(t, n)
    PROVE  /\ u \in Memory /\ u.live = t.live \ Below(t, n)
           /\ u.node[n].childs = <<>> /\ u.node[n].parent = t.node[n].parent
           /\ u.node[n].name = t.node[n].name /\ u.node[n].type = t.node[n].type
           /\ \A m \in Nodes \ (Below(t, n) \cup {n}) : u.node[m] = t.node[m]
           /\ \A m \in Below(t, n) : u.node[m] = Blank
<1> DEFINE G == Below(t, n)
           top == [t.node[n] EXCEPT !.childs = <<>>]
           nodes == [m \in Nodes |-> IF m \in G THEN Blank ELSE IF m = n THEN top ELSE t.node[m]]
<1>1. u = [live |-> t.live \ G, node |-> nodes]
  BY DEF vfs_free_child_nodes
<1>2. Blank \in Node
  BY VfsConstants DEF Blank, Node, Types, Nodes, Root
<1>3. t.live \in SUBSET Nodes /\ t.node \in [Nodes -> Node] /\ t.node[n] \in Node /\ G \in SUBSET Nodes
  BY BelowIs DEF Memory
<1>4. top \in Node /\ top.childs = <<>> /\ top.parent = t.node[n].parent
      /\ top.name = t.node[n].name /\ top.type = t.node[n].type
  <2>1. <<>> \in Seq(Nodes)
    OBVIOUS
  <2> QED BY <1>3, <2>1 DEF Node
<1> HIDE DEF top, G
<1>5. nodes \in [Nodes -> Node] /\ t.live \ G \in SUBSET Nodes
  BY <1>2, <1>3, <1>4
<1>6. nodes[n] = top /\ (\A m \in Nodes \ (G \cup {n}) : nodes[m] = t.node[m]) /\ \A m \in G : nodes[m] = Blank
  BY <1>3 DEF G
<1> HIDE DEF nodes
<1>7. u \in Memory
  <2> DEFINE lives == t.live \ G
  <2>1. lives \in SUBSET Nodes /\ u = [live |-> lives, node |-> nodes]
    BY <1>1, <1>5
  <2> HIDE DEF lives
  <2> QED BY <1>5, <2>1 DEF Memory
<1>8. u.node = nodes /\ u.live = t.live \ G
  BY <1>1
<1> QED BY <1>4, <1>6, <1>7, <1>8 DEF G

\* A tree without what is below a node is a tree.
LEMMA FreeTree ==
    ASSUME NEW t, Tree(t), NEW n \in t.live, NEW u, u = vfs_free_child_nodes(t, n)
    PROVE  /\ Tree(u) /\ u.live = t.live \ Below(t, n) /\ n \in u.live /\ Kids(u, n) = {}
           /\ \A m \in u.live \ {n} : u.node[m] = t.node[m] /\ Kids(u, m) = Kids(t, m)
<1> DEFINE G == Below(t, n)
<1>1. t \in Memory /\ n \in Nodes /\ n \notin G /\ G \subseteq t.live \ {Root} /\ t.live \in SUBSET Nodes
  BY BelowTree DEF Tree, Memory
<1>2. \A m \in t.live \ (G \cup {n}) : \A c \in Kids(t, m) : c \notin G
  BY BelowTree
<1>3. /\ u \in Memory /\ u.live = t.live \ G
      /\ u.node[n].childs = <<>> /\ u.node[n].parent = t.node[n].parent
      /\ \A m \in Nodes \ (G \cup {n}) : u.node[m] = t.node[m]
  BY <1>1, FreeIs
<1>4. Kids(t, n) \subseteq G /\ Closed(t, G)
  BY <1>1, BelowIs
<1> HIDE DEF G
<1>5. Kids(u, n) = {}
  BY <1>3 DEF Kids
<1>6. \A m \in u.live \ {n} : u.node[m] = t.node[m]
  BY <1>1, <1>3
<1>7. \A m \in u.live \ {n} : Kids(u, m) = Kids(t, m)
  BY <1>6 DEF Kids
<1>8. \A m \in u.live : u.node[m].parent = t.node[m].parent
  BY <1>3, <1>6
<1>9. Linked(u)
  <2>1. Root \in u.live /\ IsRoot(u, Root)
    BY <1>1, <1>3, <1>8 DEF Tree, Linked, IsRoot
  <2>2. \A m \in u.live : Once(u.node[m].childs)
    BY <1>3, <1>6 DEF Tree, Linked, Once
  <2>3. \A m \in u.live : \A c \in Kids(u, m) : c \in u.live \ {Root} /\ u.node[c].parent = m
    <3> SUFFICES ASSUME NEW m \in u.live, NEW c \in Kids(u, m)
                 PROVE  c \in u.live \ {Root} /\ u.node[c].parent = m
      OBVIOUS
    <3>1. m # n /\ c \in Kids(t, m) /\ m \in t.live \ (G \cup {n})
      BY <1>3, <1>5, <1>7
    <3>2. c \notin G /\ c \in t.live \ {Root} /\ t.node[c].parent = m
      BY <1>2, <3>1 DEF Tree, Linked
    <3> QED BY <1>3, <1>8, <3>2
  <2>4. ASSUME NEW m \in u.live \ {Root} PROVE u.node[m].parent \in u.live /\ m \in Kids(u, u.node[m].parent)
    <3>1. m \in t.live \ {Root} /\ m \notin G /\ t.node[m].parent \in t.live /\ m \in Kids(t, t.node[m].parent)
      BY <1>3 DEF Tree, Linked
    <3>2. t.node[m].parent \notin G /\ t.node[m].parent # n
      BY <1>4, <3>1 DEF Closed
    <3> QED BY <1>3, <1>7, <1>8, <3>1, <3>2
  <2> QED BY <2>1, <2>2, <2>3, <2>4 DEF Linked
<1>10. Reached(u)
  <2> SUFFICES ASSUME NEW S \in SUBSET u.live, Root \in S, Closed(u, S) PROVE u.live \subseteq S
    BY DEF Reached
  <2>1. S \cup G \in SUBSET t.live /\ Root \in S \cup G
    BY <1>1, <1>3
  <2>2. Closed(t, S \cup G)
    <3> SUFFICES ASSUME NEW m \in S \cup G, NEW c \in Kids(t, m) PROVE c \in S \cup G
      BY DEF Closed
    <3>1. CASE m \in G \cup {n}
      BY <1>4, <3>1 DEF Closed
    <3>2. CASE m \notin G \cup {n}
      BY <1>7, <3>2 DEF Closed
    <3> QED BY <3>1, <3>2
  <2>3. t.live \subseteq S \cup G
    BY <2>1, <2>2 DEF Tree, Reached
  <2> QED BY <1>3, <2>3
<1> QED BY <1>1, <1>3, <1>5, <1>6, <1>7, <1>9, <1>10 DEF Tree, G

----------------------------------------------------------------------------
(* One tree: look-ups *)

\* What a name is looked up as: the node, its parent, or a child of that name.
LEMMA ChildIs ==
    ASSUME NEW t \in Memory, NEW p \in Nodes, NEW name
    PROVE  /\ name = <<".">> => vfs_get_child_by_name(t, p, name) = p
           /\ name = <<"..">> => vfs_get_child_by_name(t, p, name) = t.node[p].parent
           /\ name \notin {<<".">>, <<"..">>} /\ Named(t, p, name) = {}
                => vfs_get_child_by_name(t, p, name) = NULL
           /\ name \notin {<<".">>, <<"..">>} /\ Named(t, p, name) # {} =>
                 /\ Min(Named(t, p, name)) \in DOMAIN t.node[p].childs
                 /\ vfs_get_child_by_name(t, p, name) = t.node[p].childs[Min(Named(t, p, name))]
                 /\ t.node[vfs_get_child_by_name(t, p, name)].name = name
                 /\ \A j \in Named(t, p, name) : Min(Named(t, p, name)) <= j
<1>1. <<".">> # <<"..">>
  BY SMT
<1>2. name = <<"..">> => vfs_get_child_by_name(t, p, name) = t.node[p].parent
  BY <1>1 DEF vfs_get_child_by_name
<1>3. ASSUME name \notin {<<".">>, <<"..">>}, Named(t, p, name) # {}
      PROVE  /\ Min(Named(t, p, name)) \in DOMAIN t.node[p].childs
             /\ vfs_get_child_by_name(t, p, name) = t.node[p].childs[Min(Named(t, p, name))]
             /\ t.node[vfs_get_child_by_name(t, p, name)].name = name
             /\ \A j \in Named(t, p, name) : Min(Named(t, p, name)) <= j
  <2>1. Named(t, p, name) \in SUBSET Nat
    BY KidsAre DEF Named
  <2>2. Min(Named(t, p, name)) \in Named(t, p, name) /\ \A j \in Named(t, p, name) : Min(Named(t, p, name)) <= j
    BY <1>3, <2>1, MinIs
  <2>3. vfs_get_child_by_name(t, p, name) = t.node[p].childs[Min(Named(t, p, name))]
    BY <1>3 DEF vfs_get_child_by_name
  <2>4. /\ Min(Named(t, p, name)) \in DOMAIN t.node[p].childs
        /\ t.node[t.node[p].childs[Min(Named(t, p, name))]].name = name
    BY <2>2 DEF Named
  <2> QED BY <2>2, <2>3, <2>4
<1> QED BY <1>2, <1>3 DEF vfs_get_child_by_name

\* In a tree, look-ups stay among the allocated nodes.
LEMMA ChildLive ==
    ASSUME NEW t, Tree(t), NEW p \in t.live, NEW name
    PROVE  /\ vfs_get_child_by_name(t, p, name) \in t.live \cup {NULL}
           /\ name \notin {<<".">>, <<"..">>} => vfs_get_child_by_name(t, p, name) \in Kids(t, p) \cup {NULL}
<1>1. t \in Memory /\ p \in Nodes
  BY DEF Tree, Memory
<1>2. t.node[p].parent \in t.live
  BY DEF Tree, Linked, IsRoot
<1>3. name \notin {<<".">>, <<"..">>} => vfs_get_child_by_name(t, p, name) \in Kids(t, p) \cup {NULL}
  BY <1>1, ChildIs DEF Kids
<1>4. Kids(t, p) \subseteq t.live
  BY DEF Tree, Linked
<1> QED BY <1>1, <1>2, <1>3, <1>4, ChildIs

\* The nodes of a look-up, one by one.
LEMMA VisitsAre ==
    ASSUME NEW t, NEW from, NEW names \in Seq(STRING)
    PROVE  /\ Visits(t, from, names)[0] = from
           /\ \A k \in 1 .. Len(names) : Visits(t, from, names)[k] = VisitStep(t, names, k, Visits(t, from, names)[k - 1])
<1> DEFINE N == Len(names)
<1>1. N \in Nat /\ Len(names) = N
  OBVIOUS
<1> HIDE DEF N
<1>2. PICK f : /\ (Len(names) = N => Visits(t, from, names) = f) /\ f[0] = from
               /\ \A k \in 1 .. N : f[k] = VisitStep(t, names, k, f[k - 1])
  BY <1>1, VisitsIs
<1> QED BY <1>1, <1>2

\* A look-up goes on from the node that its first token names.
LEMMA ResolveStep ==
    ASSUME NEW t, NEW from, NEW names \in Seq(STRING), names # <<>>
    PROVE  Resolve(t, from, names)
             = Resolve(t, IF from = NULL THEN NULL ELSE vfs_get_child_by_name(t, from, <<Head(names)>>), Tail(names))
<1> DEFINE N == Len(names)
           c == IF from = NULL THEN NULL ELSE vfs_get_child_by_name(t, from, <<Head(names)>>)
           f == Visits(t, from, names)
           g == Visits(t, c, Tail(names))
<1>1. N \in Nat /\ N > 0 /\ Head(names) = names[1] /\ Len(Tail(names)) = N - 1 /\ Tail(names) \in Seq(STRING)
      /\ \A k \in 1 .. N - 1 : Tail(names)[k] = names[k + 1]
  OBVIOUS
<1>2. f[0] = from /\ \A k \in 1 .. N : f[k] = VisitStep(t, names, k, f[k - 1])
  BY VisitsAre
<1>3. N - 1 \in Nat
  BY <1>1
<1>4. g[0] = c /\ \A k \in 1 .. N - 1 : g[k] = VisitStep(t, Tail(names), k, g[k - 1])
  <2> HIDE DEF c
  <2>1. /\ Visits(t, c, Tail(names))[0] = c
        /\ \A k \in 1 .. Len(Tail(names)) :
              Visits(t, c, Tail(names))[k] = VisitStep(t, Tail(names), k, Visits(t, c, Tail(names))[k - 1])
    <3>1. ASSUME NEW r \in Seq(STRING)
          PROVE  /\ Visits(t, c, r)[0] = c
                 /\ \A k \in 1 .. Len(r) : Visits(t, c, r)[k] = VisitStep(t, r, k, Visits(t, c, r)[k - 1])
      BY VisitsAre
    <3> QED BY <1>1, <3>1
  <2> QED BY <1>1, <2>1
<1>5. Resolve(t, from, names) = f[N] /\ Resolve(t, c, Tail(names)) = g[N - 1]
  BY <1>1 DEF Resolve
<1> HIDE DEF N, f, g
<1>6. f[1] = c
  <2>1. f[1] = VisitStep(t, names, 1, f[0])
    BY <1>1, <1>2
  <2> QED BY <1>1, <1>2, <2>1 DEF VisitStep
<1> HIDE DEF c
<1> DEFINE S == {k \in 0 .. N - 1 : g[k] = f[k + 1]}
<1>7. 0 \in S
  BY <1>1, <1>4, <1>6
<1>8. \A k \in 1 .. N - 1 : k - 1 \in S => k \in S
  <2> SUFFICES ASSUME NEW k \in 1 .. N - 1, k - 1 \in S PROVE k \in S
    OBVIOUS
  <2>1. g[k - 1] = f[k] /\ k + 1 \in 1 .. N /\ (k + 1) - 1 = k
    BY <1>1
  <2>2. f[k + 1] = VisitStep(t, names, k + 1, f[k])
    BY <1>2, <2>1
  <2>3. g[k] = VisitStep(t, Tail(names), k, f[k])
    BY <1>4, <2>1
  <2>4. g[k] = f[k + 1]
    BY <1>1, <2>2, <2>3 DEF VisitStep
  <2> QED BY <1>1, <2>4
<1> HIDE DEF S
<1>9. \A k \in 0 .. N - 1 : k \in S
  BY <1>3, <1>7, <1>8, UpTo
<1>10. g[N - 1] = f[N]
  <2>1. N - 1 \in S
    BY <1>1, <1>9
  <2>2. (N - 1) + 1 = N
    BY <1>1
  <2> QED BY <2>1, <2>2 DEF S
<1> QED BY <1>5, <1>10 DEF c

\* The empty path names the node it starts from.
LEMMA ResolveEmpty == ASSUME NEW t, NEW from PROVE Resolve(t, from, <<>>) = from
<1>1. PICK f : /\ (Len(<<>>) = 0 => Visits(t, from, <<>>) = f) /\ f[0] = from
               /\ \A k \in 1 .. 0 : f[k] = VisitStep(t, <<>>, k, f[k - 1])
  BY VisitsIs
<1>2. Len(<<>>) = 0
  OBVIOUS
<1> QED BY <1>1, <1>2 DEF Resolve

\* A look-up does not leave a set that no token leaves.
LEMMA ResolveIn ==
    ASSUME NEW t, NEW S, NEW from \in S \cup {NULL}, NEW names \in Seq(STRING),
           \A m \in S : \A i \in DOMAIN names : vfs_get_child_by_name(t, m, <<names[i]>>) \in S \cup {NULL}
    PROVE  Resolve(t, from, names) \in S \cup {NULL}
<1> DEFINE N == Len(names)
           f == Visits(t, from, names)
<1>1. N \in Nat /\ DOMAIN names = 1 .. N
  OBVIOUS
<1>2. f[0] = from /\ \A k \in 1 .. N : f[k] = VisitStep(t, names, k, f[k - 1])
  BY VisitsAre
<1>6. Resolve(t, from, names) = f[N]
  BY DEF Resolve
<1> HIDE DEF N, f
<1> DEFINE T == {k \in 0 .. N : f[k] \in S \cup {NULL}}
<1>3. 0 \in T
  BY <1>1, <1>2
<1>4. \A k \in 1 .. N : k - 1 \in T => k \in T
  <2> SUFFICES ASSUME NEW k \in 1 .. N, k - 1 \in T PROVE k \in T
    OBVIOUS
  <2>1. f[k] = VisitStep(t, names, k, f[k - 1]) /\ f[k - 1] \in S \cup {NULL}
    BY <1>2
  <2>2. f[k] \in S \cup {NULL}
    BY <1>1, <2>1 DEF VisitStep
  <2> QED BY <1>1, <2>2
<1> HIDE DEF T
<1>5. N \in T
  BY <1>1, <1>3, <1>4, UpTo, SMTT(30)
<1> QED BY <1>5, <1>6 DEF T

\* So it ends at an allocated node, or at none.
LEMMA ResolveLive ==
    ASSUME NEW t, Tree(t), NEW from \in t.live \cup {NULL}, NEW names \in Seq(STRING)
    PROVE  Resolve(t, from, names) \in t.live \cup {NULL}
BY ResolveIn, ChildLive

----------------------------------------------------------------------------
(* One tree: the path to a node *)

\* No node is NULL.
LEMMA NotNull == NULL \notin Nodes
BY DEF Nodes, NULL

\* The nodes above n, one by one.
LEMMA UpAre ==
    ASSUME NEW t, NEW n
    PROVE  Up(t, n)[0] = n /\ \A k \in 1 .. MaxNodes : Up(t, n)[k] = t.node[Up(t, n)[k - 1]].parent
<1>1. MaxNodes \in Nat
  BY VfsConstants
<1>2. PICK f : Up(t, n) = f /\ f[0] = n /\ \A k \in 1 .. MaxNodes : f[k] = UpStep(t, f[k - 1])
  BY <1>1, UpIs
<1> QED BY <1>2 DEF UpStep

\* More is below the parent.
LEMMA BelowParent ==
    ASSUME NEW t, Tree(t), NEW n \in t.live \ {Root}
    PROVE  Below(t, n) \cup {n} \subseteq Below(t, t.node[n].parent)
<1> DEFINE p == t.node[n].parent
<1>1. t \in Memory /\ n \in Nodes /\ p \in Nodes /\ n \in Kids(t, p)
  BY DEF Tree, Linked, Memory
<1>2. Below(t, p) \in SUBSET Nodes /\ n \in Below(t, p) /\ Closed(t, Below(t, p))
  BY <1>1, BelowIs
<1>3. Kids(t, n) \subseteq Below(t, p)
  BY <1>2 DEF Closed
<1> QED BY <1>1, <1>2, <1>3, BelowIs

\* Only the root is its own parent.
LEMMA OneRoot == ASSUME NEW t, Tree(t), NEW n \in t.live, IsRoot(t, n) PROVE n = Root
<1> SUFFICES ASSUME n # Root PROVE FALSE
  OBVIOUS
<1>1. n \in Below(t, n)
  BY BelowParent DEF IsRoot
<1> QED BY <1>1, BelowTree

\* The way up from a node ends at the root.
LEMMA DepthIs ==
    ASSUME NEW t, Tree(t), NEW n \in t.live
    PROVE  /\ \A k \in 0 .. MaxNodes : Up(t, n)[k] \in t.live
           /\ Depth(t, n) \in 0 .. MaxNodes /\ Up(t, n)[Depth(t, n)] = Root
           /\ \A j \in 0 .. Depth(t, n) - 1 : Up(t, n)[j] # Root
<1> DEFINE up == Up(t, n)
<1>0. MaxNodes \in Nat /\ t.live \in SUBSET Nodes
  BY VfsConstants DEF Tree, Memory
<1>1. up[0] = n /\ \A k \in 1 .. MaxNodes : up[k] = t.node[up[k - 1]].parent
  BY UpAre
<1> HIDE DEF up
<1>2. \A k \in 0 .. MaxNodes : up[k] \in t.live
  <2> DEFINE S == {k \in 0 .. MaxNodes : up[k] \in t.live}
  <2>1. 0 \in S
    BY <1>0, <1>1
  <2>2. \A k \in 1 .. MaxNodes : k - 1 \in S => k \in S
    BY <1>1 DEF Tree, Linked, IsRoot
  <2> HIDE DEF S
  <2>3. \A k \in 0 .. MaxNodes : k \in S
    BY <1>0, <2>1, <2>2, UpTo
  <2> QED BY <2>3 DEF S
<1>3. \E k \in 0 .. MaxNodes : IsRoot(t, up[k])
  <2> SUFFICES ASSUME \A k \in 0 .. MaxNodes : ~IsRoot(t, up[k]) PROVE FALSE
    OBVIOUS
  <2>1. \A k \in 0 .. MaxNodes : up[k] # Root
    BY DEF Tree, Linked
  <2>2. IsFiniteSet(Nodes) /\ Cardinality(Nodes) = MaxNodes
    BY <1>0, FS_Interval DEF Nodes
  <2>3. \A k \in 0 .. MaxNodes : IsFiniteSet(Below(t, up[k])) /\ Below(t, up[k]) \in SUBSET Nodes
    <3> SUFFICES ASSUME NEW k \in 0 .. MaxNodes PROVE IsFiniteSet(Below(t, up[k])) /\ Below(t, up[k]) \in SUBSET Nodes
      OBVIOUS
    <3>1. Below(t, up[k]) \in SUBSET Nodes
      BY <1>0, <1>2, BelowTree
    <3> QED BY <2>2, <3>1, FS_Subset
  <2> DEFINE S == {k \in 0 .. MaxNodes : k <= Cardinality(Below(t, up[k]))}
  <2>4. 0 \in S
    BY <1>0, <2>3, FS_CardinalityType
  <2>5. \A k \in 1 .. MaxNodes : k - 1 \in S => k \in S
    <3> SUFFICES ASSUME NEW k \in 1 .. MaxNodes, k - 1 \in S PROVE k \in S
      OBVIOUS
    <3> DEFINE m == up[k - 1]
    <3>1. k - 1 \in 0 .. MaxNodes /\ k \in 0 .. MaxNodes
      BY <1>0
    <3>2. m \in t.live \ {Root} /\ up[k] = t.node[m].parent
      BY <1>1, <1>2, <2>1, <3>1
    <3>3. Below(t, m) \cup {m} \in SUBSET Below(t, up[k]) /\ m \notin Below(t, m)
      BY <3>2, BelowParent, BelowTree
    <3>4. IsFiniteSet(Below(t, m)) /\ IsFiniteSet(Below(t, up[k]))
      BY <2>3, <3>1
    <3>5. Cardinality(Below(t, m) \cup {m}) = Cardinality(Below(t, m)) + 1
      BY <3>3, <3>4, FS_AddElement
    <3>6. Cardinality(Below(t, m) \cup {m}) <= Cardinality(Below(t, up[k]))
      BY <3>3, <3>4, FS_Subset
    <3>7. Cardinality(Below(t, m)) \in Nat /\ Cardinality(Below(t, up[k])) \in Nat
      BY <3>4, FS_CardinalityType
    <3>8. k - 1 <= Cardinality(Below(t, m))
      OBVIOUS
    <3> HIDE DEF m
    <3>9. k <= Cardinality(Below(t, up[k]))
      BY <3>5, <3>6, <3>7, <3>8
    <3> QED BY <3>1, <3>9
  <2> HIDE DEF S
  <2>6. MaxNodes \in S
    BY <1>0, <2>4, <2>5, UpTo
  <2> DEFINE m == up[MaxNodes]
  <2>7. m \in Nodes /\ m \notin Below(t, m) /\ Below(t, m) \in SUBSET Nodes /\ IsFiniteSet(Below(t, m))
    BY <1>0, <1>2, <2>3, BelowTree
  <2>8. MaxNodes <= Cardinality(Below(t, m)) /\ Cardinality(Below(t, m)) \in Nat
    BY <2>6, <2>7, FS_CardinalityType DEF S
  <2> HIDE DEF m
  <2>9. Cardinality(Below(t, m)) <= MaxNodes
    BY <2>2, <2>7, FS_Subset
  <2>10. Cardinality(Nodes) = Cardinality(Below(t, m))
    BY <1>0, <2>2, <2>8, <2>9
  <2>11. \A W \in SUBSET Nodes : Cardinality(Nodes) = Cardinality(W) => Nodes = W
    BY <2>2, FS_Subset
  <2> QED BY <2>7, <2>10, <2>11
<1>4. \E k \in 0 .. MaxNodes : IsRoot(t, up[k]) /\ \A j \in 0 .. k - 1 : ~IsRoot(t, up[j])
  <2> DEFINE S == {k \in 0 .. MaxNodes : IsRoot(t, up[k])}
  <2>1. S \in SUBSET Nat /\ S # {}
    BY <1>3
  <2>2. PICK k \in S : \A j \in S : k <= j
    BY <2>1, NatMin
  <2>3. \A j \in 0 .. k - 1 : ~IsRoot(t, up[j])
    BY <1>0, <2>2
  <2> QED BY <2>2, <2>3
<1>5. Depth(t, n) \in 0 .. MaxNodes /\ IsRoot(t, up[Depth(t, n)]) /\ \A j \in 0 .. Depth(t, n) - 1 : ~IsRoot(t, up[j])
  <2>1. Depth(t, n) = CHOOSE k \in 0 .. MaxNodes : IsRoot(t, up[k]) /\ \A j \in 0 .. k - 1 : ~IsRoot(t, up[j])
    BY DEF Depth, up
  <2> QED BY <1>4, <2>1
<1>6. up[Depth(t, n)] = Root
  BY <1>2, <1>5, OneRoot
<1>7. \A j \in 0 .. Depth(t, n) - 1 : up[j] # Root
  BY <1>5 DEF Tree, Linked
<1> QED BY <1>2, <1>5, <1>6, <1>7 DEF up

\* The tokens of a name.
LEMMA TokensAre ==
    ASSUME NEW name \in Seq(STRING)
    PROVE  /\ Tokens(name) \in Seq(STRING)
           /\ \A s \in STRING \ {""} : name = <<s>> => Tokens(name) = <<s>>
<1>1. name # <<>> => Front(name) \in Seq(STRING)
  <2>1. name # <<>> => Len(name) \in Nat /\ Len(name) - 1 \in 0 .. Len(name)
    OBVIOUS
  <2> QED BY <2>1 DEF Front
<1>2. ASSUME NEW s \in STRING \ {""}, name = <<s>> PROVE Tokens(name) = <<s>>
  <2>1. Last(name) = s
    BY <1>2 DEF Last
  <2> QED BY <1>2, <2>1 DEF Tokens
<1> QED BY <1>1, <1>2 DEF Tokens

\* Names that are not empty are names.
LEMMA NamesAre ==
    ASSUME NEW T, NEW W, NEW names \in Seq(T \ W)
    PROVE  names \in Seq(T) /\ DOMAIN names = 1 .. Len(names) /\ \A i \in DOMAIN names : names[i] \in T \ W
OBVIOUS

\* A name of one component; two of them differ when the components do.
LEMMA OneToken == ASSUME NEW s, NEW r, <<s>> = <<r>> PROVE s = r
OBVIOUS

\* The sequence of one component.
LEMMA OneName ==
    ASSUME NEW T, NEW s \in T
    PROVE  <<s>> \in Seq(T) /\ <<s>> # <<>> /\ Head(<<s>>) = s /\ Tail(<<s>>) = <<>>
<1>1. <<s>> \in Seq(T) /\ Len(<<s>>) = 1 /\ Head(<<s>>) = s
  OBVIOUS
<1>2. Tail(<<s>>) \in Seq(T) /\ Len(Tail(<<s>>)) = 0
  BY <1>1
<1> QED BY <1>1, <1>2

\* A path is its first component and the rest.
LEMMA SplitIs ==
    ASSUME NEW T, NEW names \in Seq(T), names # <<>>
    PROVE  Head(names) \in T /\ Tail(names) \in Seq(T) /\ <<Head(names)>> \o Tail(names) = names
           /\ <<Head(names)>> # <<>>
OBVIOUS

\* A name in front of a path.
LEMMA FirstName ==
    ASSUME NEW T, NEW s \in T, NEW rest \in Seq(T), NEW all, all = <<s>> \o rest
    PROVE  <<s>> \in Seq(T) /\ all \in Seq(T) /\ all # <<>> /\ Head(all) = s /\ Tail(all) = rest
<1>1. <<s>> \in Seq(T) /\ Len(<<s>>) = 1 /\ <<s>>[1] = s
  OBVIOUS
<1>2. all \in Seq(T) /\ Len(all) = 1 + Len(rest) /\ all[1] = s /\ \A i \in 1 .. Len(rest) : all[i + 1] = rest[i]
  BY <1>1
<1>3. all # <<>> /\ Head(all) = s
  BY <1>2
<1>4. Tail(all) \in Seq(T) /\ Len(Tail(all)) = Len(rest) /\ \A i \in 1 .. Len(rest) : Tail(all)[i] = rest[i]
  BY <1>2, <1>3
<1>5. Tail(all) = rest
  BY <1>4
<1> QED BY <1>1, <1>2, <1>3, <1>5

\* The path to a node of a tree is a sequence of names, however long.
LEMMA AbsPathSeq ==
    ASSUME NEW t, Tree(t), NEW n \in t.live
    PROVE  vfs_abs_path_to(t, n) \in Seq(STRING)
<1>0. MaxNodes \in Nat /\ t \in Memory /\ t.live \in SUBSET Nodes
  BY VfsConstants DEF Tree, Memory
<1>1. PICK f : /\ vfs_abs_path_to(t, n) = f[Depth(t, n)]
               /\ f[0] = <<>>
               /\ \A k \in 1 .. MaxNodes : f[k] = PathStep(t, n, k, f[k - 1])
  BY <1>0, AbsPathIs
<1> DEFINE S == {k \in 0 .. MaxNodes : f[k] \in Seq(STRING)}
<1>2. 0 \in S
  <2>1. <<>> \in Seq(STRING)
    OBVIOUS
  <2>2. f[0] \in Seq(STRING)
    BY <1>1, <2>1, Zenon
  <2> QED BY <1>0, <2>2
<1>3. \A k \in 1 .. MaxNodes : k - 1 \in S => k \in S
  <2> SUFFICES ASSUME NEW k \in 1 .. MaxNodes, k - 1 \in S PROVE k \in S
    OBVIOUS
  <2>1. k - 1 \in 0 .. MaxNodes /\ k \in 0 .. MaxNodes
    BY <1>0
  <2>2. Up(t, n)[k - 1] \in Nodes
    BY <1>0, <2>1, DepthIs
  <2>3. t.node[Up(t, n)[k - 1]].name \in Seq(STRING)
    BY <1>0, <2>2, KidsAre DEF Node
  <2> DEFINE a == Tokens(t.node[Up(t, n)[k - 1]].name)
  <2>4. a \in Seq(STRING)
    BY <2>3, TokensAre
  <2>5. f[k] = a \o f[k - 1]
    BY <1>1 DEF PathStep
  <2> HIDE DEF a
  <2>6. f[k] \in Seq(STRING)
    BY <2>4, <2>5
  <2> QED BY <2>1, <2>6
<1> HIDE DEF S
<1>4. \A k \in 0 .. MaxNodes : k \in S
  BY <1>0, <1>2, <1>3, UpTo
<1>5. Depth(t, n) \in 0 .. MaxNodes
  BY DepthIs
<1> QED BY <1>1, <1>4, <1>5 DEF S

\* The nodes of S are those their names find, on the whole way from the root.
Shown(t, S) ==
    \A m \in S \ {Root} : /\ t.node[m].parent \in S
                          /\ \E s \in STRING \ ({""} \cup Dots) :
                                /\ t.node[m].name = <<s>>
                                /\ vfs_get_child_by_name(t, t.node[m].parent, <<s>>) = m

Visible(t, n) == \E S \in SUBSET t.live : n \in S /\ Shown(t, S)

\* Printing the path of such a node and looking it up again finds the node.
LEMMA VisibleFound ==
    ASSUME NEW t, Tree(t), NEW n, Visible(t, n)
    PROVE  n \in t.live /\ Resolve(t, Root, vfs_abs_path_to(t, n)) = n
<1>0. MaxNodes \in Nat /\ t \in Memory /\ t.live \in SUBSET Nodes
  BY VfsConstants DEF Tree, Memory
<1>1. PICK V \in SUBSET t.live : n \in V /\ Shown(t, V)
  BY DEF Visible
<1>2. n \in t.live
  BY <1>1
<1> DEFINE D == Depth(t, n)
           up == Up(t, n)
<1>3. /\ D \in 0 .. MaxNodes /\ up[D] = Root /\ \A j \in 0 .. D - 1 : up[j] # Root
      /\ up[0] = n /\ \A k \in 1 .. MaxNodes : up[k] = t.node[up[k - 1]].parent
  BY <1>2, DepthIs, UpAre
<1>4. PICK f : /\ vfs_abs_path_to(t, n) = f[D]
               /\ f[0] = <<>>
               /\ \A k \in 1 .. MaxNodes : f[k] = Tokens(t.node[up[k - 1]].name) \o f[k - 1]
  <2>1. PICK f : /\ vfs_abs_path_to(t, n) = f[Depth(t, n)]
                 /\ f[0] = <<>>
                 /\ \A k \in 1 .. MaxNodes : f[k] = PathStep(t, n, k, f[k - 1])
    BY <1>0, AbsPathIs
  <2> QED BY <2>1 DEF PathStep
<1> HIDE DEF D, up
<1> DEFINE S == {k \in 0 .. D : up[k] \in V /\ f[k] \in Seq(STRING) /\ Resolve(t, up[k], f[k]) = n}
<1>5. 0 \in S
  <2>1. <<>> \in Seq(STRING) /\ 0 \in 0 .. D
    BY <1>0, <1>3
  <2>2. Resolve(t, n, <<>>) = n
    BY ResolveEmpty
  <2> QED BY <1>1, <1>3, <1>4, <2>1, <2>2
<1>6. \A k \in 1 .. D : k - 1 \in S => k \in S
  <2> SUFFICES ASSUME NEW k \in 1 .. D, k - 1 \in S PROVE k \in S
    OBVIOUS
  <2>1. k \in 1 .. MaxNodes /\ k - 1 \in 0 .. D - 1 /\ k \in 0 .. D
    BY <1>0, <1>3
  <2> DEFINE m == up[k - 1]
             p == up[k]
  <2>2. m \in V \ {Root} /\ p = t.node[m].parent
    BY <1>3, <2>1
  <2>3. p \in V /\ \E s \in STRING \ ({""} \cup Dots) : t.node[m].name = <<s>> /\ vfs_get_child_by_name(t, p, <<s>>) = m
    BY <1>1, <2>2 DEF Shown
  <2>4. PICK s \in STRING \ ({""} \cup Dots) : t.node[m].name = <<s>> /\ vfs_get_child_by_name(t, p, <<s>>) = m
    BY <2>3
  <2>5. Tokens(t.node[m].name) = <<s>>
    <3>1. s \in STRING /\ <<s>> \in Seq(STRING)
      BY <2>4, OneName
    <3> QED BY <2>4, <3>1, TokensAre
  <2> DEFINE rest == f[k - 1]
             all  == f[k]
  <2>6. rest \in Seq(STRING) /\ Resolve(t, m, rest) = n /\ all = <<s>> \o rest
    BY <1>4, <2>1, <2>5
  <2>7. p # NULL
    BY <1>0, <2>3, NotNull
  <2> HIDE DEF m, p, rest, all
  <2>8. all \in Seq(STRING) /\ all # <<>> /\ Head(all) = s /\ Tail(all) = rest
    BY <2>4, <2>6, FirstName
  <2>9. Resolve(t, p, all) = n
    <3>1. Resolve(t, p, all)
            = Resolve(t, IF p = NULL THEN NULL ELSE vfs_get_child_by_name(t, p, <<Head(all)>>), Tail(all))
      BY <2>8, ResolveStep, ZenonT(40)
    <3> QED BY <2>4, <2>6, <2>7, <2>8, <3>1
  <2> QED BY <2>1, <2>3, <2>8, <2>9 DEF p, all
<1> HIDE DEF S
<1>7. D \in Nat /\ \A k \in 0 .. D : k \in S
  BY <1>0, <1>3, <1>5, <1>6, UpTo
<1> QED BY <1>2, <1>3, <1>4, <1>7 DEF S

\* A look-up goes from such nodes to such nodes only.
LEMMA VisibleNext ==
    ASSUME NEW t, Tree(t), NEW n, Visible(t, n), NEW s \in STRING \ {""}
    PROVE  vfs_get_child_by_name(t, n, <<s>>) # NULL => Visible(t, vfs_get_child_by_name(t, n, <<s>>))
<1>1. PICK S \in SUBSET t.live : n \in S /\ Shown(t, S)
  BY DEF Visible
<1>2. t \in Memory /\ n \in t.live /\ n \in Nodes
  BY <1>1 DEF Tree, Memory
<1> DEFINE c == vfs_get_child_by_name(t, n, <<s>>)
<1>3. CASE s = "."
  <2>1. c = n
    BY <1>2, <1>3, ChildIs
  <2> QED BY <2>1
<1>4. CASE s = ".."
  <2>1. c = t.node[n].parent
    BY <1>2, <1>4, ChildIs
  <2>2. c \in S
    <3>1. n # Root => t.node[n].parent \in S
      BY <1>1 DEF Shown
    <3>2. t.node[Root].parent = Root
      BY DEF Tree, Linked, IsRoot
    <3> QED BY <1>1, <2>1, <3>1, <3>2
  <2> QED BY <1>1, <2>2 DEF Visible
<1>5. CASE s \notin Dots /\ c # NULL
  <2>1. <<s>> \notin {<<".">>, <<"..">>}
    BY <1>5, OneToken DEF Dots
  <2>2. Named(t, n, <<s>>) # {}
    <3>1. \A one : one \notin {<<".">>, <<"..">>} /\ vfs_get_child_by_name(t, n, one) # NULL => Named(t, n, one) # {}
      BY DEF vfs_get_child_by_name
    <3> QED BY <1>5, <2>1, <3>1
  <2>3. c \in Kids(t, n) \cup {NULL} /\ t.node[c].name = <<s>>
    BY <1>2, <2>1, <2>2, ChildIs, ChildLive
  <2>4. c \in t.live /\ t.node[c].parent = n
    BY <1>2, <1>5, <2>3 DEF Tree, Linked
  <2> HIDE DEF c
  <2>5. s \in STRING \ ({""} \cup Dots) /\ vfs_get_child_by_name(t, n, <<s>>) = c
    BY <1>5 DEF c
  <2>6. Shown(t, S \cup {c})
    BY <1>1, <2>3, <2>4, <2>5 DEF Shown
  <2>7. S \cup {c} \in SUBSET t.live
    BY <2>4
  <2> QED BY <2>6, <2>7 DEF Visible, c
<1> QED BY <1>3, <1>4, <1>5 DEF Dots

\* So does every path that strtok can have taken apart.
LEMMA VisiblePath ==
    ASSUME NEW t, Tree(t), NEW rel, NEW path, IsPath(path), path.abs \/ Visible(t, rel)
    PROVE  vfs_node_from_path(t, rel, path) # NULL => Visible(t, vfs_node_from_path(t, rel, path))
<1> DEFINE S == {m \in t.live : Visible(t, m)}
           names == path.names
           from == From(path, rel)
<1>1. Visible(t, Root)
  <2>1. {Root} \in SUBSET t.live /\ Shown(t, {Root})
    BY DEF Tree, Linked, Shown
  <2> QED BY <2>1 DEF Visible
<1>2. from \in S
  BY <1>1 DEF From, Tree, Linked, Visible
<1>3. names \in Seq(STRING) /\ \A i \in DOMAIN names : names[i] \in STRING \ {""}
  <2>1. names \in Seq(STRING \ {""})
    BY DEF IsPath
  <2> HIDE DEF names
  <2> QED BY <2>1, NamesAre
<1>4. \A m \in S : \A i \in DOMAIN names : vfs_get_child_by_name(t, m, <<names[i]>>) \in S \cup {NULL}
  <2> SUFFICES ASSUME NEW m \in S, NEW i \in DOMAIN names
               PROVE  vfs_get_child_by_name(t, m, <<names[i]>>) \in S \cup {NULL}
    OBVIOUS
  <2>1. vfs_get_child_by_name(t, m, <<names[i]>>) \in t.live \cup {NULL}
    BY ChildLive
  <2>2. names[i] \in STRING \ {""}
    BY <1>3
  <2> HIDE DEF names
  <2> QED BY <2>1, <2>2, VisibleNext
<1> HIDE DEF S, names, from
<1>5. Resolve(t, from, names) \in S \cup {NULL}
  BY <1>2, <1>3, <1>4, ResolveIn
<1> QED BY <1>5 DEF S, names, from, vfs_node_from_path

----------------------------------------------------------------------------
(* One tree: what a change leaves of the look-ups *)

\* The same children with the same names are found alike.
LEMMA SameChild ==
    ASSUME NEW t \in Memory, NEW u \in Memory, NEW p \in Nodes,
           u.node[p].childs = t.node[p].childs, u.node[p].parent = t.node[p].parent,
           \A c \in Kids(t, p) : u.node[c].name = t.node[c].name
    PROVE  \A name : vfs_get_child_by_name(u, p, name) = vfs_get_child_by_name(t, p, name)
<1> SUFFICES ASSUME NEW name PROVE vfs_get_child_by_name(u, p, name) = vfs_get_child_by_name(t, p, name)
  OBVIOUS
<1>1. \A i \in DOMAIN t.node[p].childs : u.node[t.node[p].childs[i]].name = t.node[t.node[p].childs[i]].name
  BY DEF Kids
<1>2. Named(u, p, name) = Named(t, p, name)
  BY <1>1 DEF Named
<1> QED BY <1>2 DEF vfs_get_child_by_name

\* A child that was added last hides no other.
LEMMA AddFound ==
    ASSUME NEW t, Tree(t), NEW p \in t.live, NEW name \in Seq(STRING), NEW type \in Types,
           Nodes \ t.live # {}, NEW u, u = vfs_add_child(t, p, name, type)
    PROVE  \A q \in t.live : \A token : vfs_get_child_by_name(t, q, token) # NULL
                => vfs_get_child_by_name(u, q, token) = vfs_get_child_by_name(t, q, token)
<1> SUFFICES ASSUME NEW q \in t.live, NEW token, vfs_get_child_by_name(t, q, token) # NULL
             PROVE  vfs_get_child_by_name(u, q, token) = vfs_get_child_by_name(t, q, token)
  OBVIOUS
<1> DEFINE n == NewNode(t)
<1>1. t \in Memory /\ t.live \in SUBSET Nodes /\ p \in Nodes /\ q \in Nodes
  BY DEF Tree, Memory
<1>2. n \in Nodes /\ n \notin t.live /\ n # p
  BY <1>1, NewNodeIs
<1>3. /\ u \in Memory
      /\ u.node[p].childs = Append(t.node[p].childs, n) /\ u.node[p].parent = t.node[p].parent
      /\ u.node[p].name = t.node[p].name
      /\ \A m \in Nodes \ {n, p} : u.node[m] = t.node[m]
  <2> HIDE DEF n
  <2> QED BY <1>1, <1>2, AddIs DEF n
<1> HIDE DEF n
<1>4. \A c \in t.live : u.node[c].name = t.node[c].name /\ u.node[c].parent = t.node[c].parent
  BY <1>1, <1>2, <1>3
<1>5. Kids(t, q) \subseteq t.live
  BY DEF Tree, Linked
<1>6. CASE q # p
  <2>1. u.node[q] = t.node[q]
    BY <1>1, <1>2, <1>3, <1>6
  <2> QED BY <1>1, <1>3, <1>4, <1>5, <2>1, SameChild
<1>7. CASE q = p /\ token \in {<<".">>, <<"..">>}
  <2>1. \A v : v.node[p].parent = t.node[p].parent
                 => vfs_get_child_by_name(v, p, token) = vfs_get_child_by_name(t, p, token)
    BY <1>7 DEF vfs_get_child_by_name
  <2> QED BY <1>3, <1>7, <2>1
<1>8. CASE q = p /\ token \notin {<<".">>, <<"..">>}
  <2> DEFINE s == t.node[p].childs
             r == u.node[p].childs
             A == Named(t, p, token)
             B == Named(u, p, token)
  <2>1. s \in Seq(Nodes) /\ r = Append(s, n) /\ r \in Seq(Nodes) /\ \A i \in DOMAIN s : s[i] \in t.live
    <3>1. \A i \in DOMAIN s : s[i] \in Kids(t, p)
      BY DEF Kids
    <3> QED BY <1>1, <1>2, <1>3, <1>5, <1>8, <3>1, KidsAre
  <2>2. /\ DOMAIN s = 1 .. Len(s) /\ Len(s) \in Nat /\ DOMAIN r = 1 .. Len(s) + 1
        /\ \A i \in 1 .. Len(s) : r[i] = s[i]
    BY <1>2, <2>1
  <2>3. A = {i \in DOMAIN s : t.node[s[i]].name = token} /\ B = {i \in DOMAIN r : u.node[r[i]].name = token}
    BY DEF Named
  <2>4. A # {} /\ vfs_get_child_by_name(t, p, token) = s[Min(A)]
    BY <1>8 DEF vfs_get_child_by_name
  <2> HIDE DEF s, r
  <2>5. A \subseteq B /\ \A i \in B : i \in A \/ i = Len(s) + 1
    BY <1>4, <2>1, <2>2, <2>3
  <2>6. vfs_get_child_by_name(u, p, token) = r[Min(B)]
    <3>1. Named(u, p, token) # {}
      BY <2>4, <2>5
    <3> QED BY <1>8, <3>1 DEF vfs_get_child_by_name, r
  <2>7. A \in SUBSET Nat /\ B \in SUBSET Nat /\ A \subseteq 1 .. Len(s)
    BY <2>2, <2>3
  <2> HIDE DEF A, B
  <2>8. Min(A) \in A /\ (\A m \in A : Min(A) <= m) /\ Min(B) \in B /\ \A m \in B : Min(B) <= m
    BY <2>4, <2>5, <2>7, MinIs
  <2>9. Min(A) = Min(B) /\ Min(A) \in 1 .. Len(s)
    <3> DEFINE a == Min(A)
               b == Min(B)
    <3>1. /\ a \in A /\ a \in B /\ a \in 1 .. Len(s) /\ b \in B /\ b \in Nat /\ b <= a
          /\ (\A k \in A : a <= k) /\ (b \in A \/ b = Len(s) + 1)
      BY <2>5, <2>7, <2>8
    <3> HIDE DEF a, b
    <3>2. b \in A
      BY <2>2, <3>1
    <3>3. a <= b
      BY <3>1, <3>2
    <3>4. a = b
      BY <2>2, <3>1, <3>3
    <3> QED BY <3>1, <3>4 DEF a, b
  <2> QED BY <1>8, <2>2, <2>4, <2>6, <2>9
<1> QED BY <1>6, <1>7, <1>8

\* So a node that could be found still can.
LEMMA AddVisible ==
    ASSUME NEW t, Tree(t), NEW p \in t.live, NEW name \in Seq(STRING), NEW type \in Types,
           Nodes \ t.live # {}, NEW u, u = vfs_add_child(t, p, name, type), NEW m, Visible(t, m)
    PROVE  Visible(u, m)
<1>1. PICK S \in SUBSET t.live : m \in S /\ Shown(t, S)
  BY DEF Visible
<1>2. u \in Memory /\ t.live \subseteq u.live /\ \A c \in t.live : u.node[c].name = t.node[c].name /\ u.node[c].parent = t.node[c].parent
  <2> DEFINE n == NewNode(t)
  <2>1. t \in Memory /\ t.live \in SUBSET Nodes /\ p \in Nodes
    BY DEF Tree, Memory
  <2>2. n \in Nodes /\ n \notin t.live /\ n # p
    BY <2>1, NewNodeIs
  <2>3. /\ u \in Memory /\ u.live = t.live \cup {n}
        /\ u.node[p].parent = t.node[p].parent /\ u.node[p].name = t.node[p].name
        /\ \A c \in Nodes \ {n, p} : u.node[c] = t.node[c]
    <3> HIDE DEF n
    <3> QED BY <2>1, <2>2, AddIs DEF n
  <2> HIDE DEF n
  <2> QED BY <2>1, <2>2, <2>3
<1>3. \A q \in t.live : \A token : vfs_get_child_by_name(t, q, token) # NULL
        => vfs_get_child_by_name(u, q, token) = vfs_get_child_by_name(t, q, token)
  BY AddFound
<1>4. Shown(u, S)
  <2> SUFFICES ASSUME NEW c \in S \ {Root}
               PROVE  /\ u.node[c].parent \in S
                      /\ \E s \in STRING \ ({""} \cup Dots) :
                           u.node[c].name = <<s>> /\ vfs_get_child_by_name(u, u.node[c].parent, <<s>>) = c
    BY DEF Shown
  <2>1. c \in t.live /\ u.node[c].name = t.node[c].name /\ u.node[c].parent = t.node[c].parent /\ t.node[c].parent \in S
    BY <1>1, <1>2 DEF Shown
  <2>2. PICK s \in STRING \ ({""} \cup Dots) :
             t.node[c].name = <<s>> /\ vfs_get_child_by_name(t, t.node[c].parent, <<s>>) = c
    BY <1>1 DEF Shown
  <2>3. c # NULL /\ t.node[c].parent \in t.live
    BY <2>1, NotNull DEF Tree, Memory
  <2>4. ASSUME NEW q \in t.live, vfs_get_child_by_name(t, q, <<s>>) = c PROVE vfs_get_child_by_name(u, q, <<s>>) = c
    <3>1. \A token : vfs_get_child_by_name(t, q, token) # NULL
              => vfs_get_child_by_name(u, q, token) = vfs_get_child_by_name(t, q, token)
      BY <1>3
    <3> QED BY <2>3, <2>4, <3>1
  <2>5. vfs_get_child_by_name(u, t.node[c].parent, <<s>>) = c
    BY <2>2, <2>3, <2>4
  <2> QED BY <2>1, <2>2, <2>5
<1> QED BY <1>1, <1>2, <1>4 DEF Visible

\* Freeing the nodes below one leaves every other node where it was found.
LEMMA FreeVisible ==
    ASSUME NEW t, Tree(t), NEW n \in t.live, NEW u, u = vfs_free_child_nodes(t, n),
           NEW m, Visible(t, m), m \notin Below(t, n)
    PROVE  Visible(u, m)
<1>1. PICK S \in SUBSET t.live : m \in S /\ Shown(t, S)
  BY DEF Visible
<1> DEFINE G == Below(t, n)
           W == S \ G
<1>2. t \in Memory /\ n \in Nodes /\ n \notin G /\ t.live \in SUBSET Nodes /\ Kids(t, n) \subseteq G /\ Closed(t, G) /\ Root \notin G
  BY BelowTree, BelowIs DEF Tree, Memory
<1>3. /\ u \in Memory /\ u.live = t.live \ G
      /\ u.node[n].parent = t.node[n].parent /\ u.node[n].name = t.node[n].name
      /\ \A c \in Nodes \ (G \cup {n}) : u.node[c] = t.node[c]
  BY <1>2, FreeIs
<1>4. \A c \in t.live \ G : u.node[c].name = t.node[c].name /\ u.node[c].parent = t.node[c].parent
  BY <1>2, <1>3
<1> HIDE DEF G
<1>5. Shown(u, W)
  <2> SUFFICES ASSUME NEW c \in W \ {Root}
               PROVE  /\ u.node[c].parent \in W
                      /\ \E s \in STRING \ ({""} \cup Dots) :
                           u.node[c].name = <<s>> /\ vfs_get_child_by_name(u, u.node[c].parent, <<s>>) = c
    BY DEF Shown
  <2> DEFINE p == t.node[c].parent
  <2>1. c \in t.live \ G /\ c # Root /\ u.node[c].name = t.node[c].name /\ u.node[c].parent = p /\ p \in S
    BY <1>1, <1>4 DEF Shown
  <2>2. PICK s \in STRING \ ({""} \cup Dots) : t.node[c].name = <<s>> /\ vfs_get_child_by_name(t, p, <<s>>) = c
    BY <1>1 DEF Shown
  <2>3. p \in t.live /\ c \in Kids(t, p)
    BY <2>1 DEF Tree, Linked
  <2>4. p \notin G /\ p # n
    BY <1>2, <2>1, <2>3 DEF Closed
  <2>5. p \in Nodes /\ u.node[p] = t.node[p]
    BY <1>2, <1>3, <2>3, <2>4
  <2>6. \A d \in Kids(t, p) : u.node[d].name = t.node[d].name
    <3>1. p \in t.live \ (Below(t, n) \cup {n})
      BY <2>3, <2>4 DEF G
    <3>2. \A d \in Kids(t, p) : d \notin Below(t, n)
      BY <3>1, BelowTree
    <3>3. \A d \in Kids(t, p) : d \in t.live
      BY <2>3 DEF Tree, Linked
    <3> QED BY <1>4, <3>2, <3>3 DEF G
  <2> HIDE DEF p
  <2>7. vfs_get_child_by_name(u, p, <<s>>) = c
    <3>1. \A token : vfs_get_child_by_name(u, p, token) = vfs_get_child_by_name(t, p, token)
      BY <1>2, <1>3, <2>5, <2>6, SameChild
    <3> QED BY <2>2, <3>1
  <2> QED BY <2>1, <2>2, <2>4, <2>7
<1>6. W \in SUBSET u.live /\ m \in W
  BY <1>1, <1>3 DEF G
<1> QED BY <1>5, <1>6 DEF Visible

\* Types and permissions do not matter to look-ups.
LEMMA SameNames ==
    ASSUME NEW t, Tree(t), NEW u \in Memory, u.live = t.live,
           \A n \in Nodes : /\ u.node[n].parent = t.node[n].parent /\ u.node[n].childs = t.node[n].childs
                            /\ u.node[n].name = t.node[n].name
    PROVE  /\ \A p \in Nodes : \A name : vfs_get_child_by_name(u, p, name) = vfs_get_child_by_name(t, p, name)
           /\ \A m : Visible(t, m) => Visible(u, m)
<1>1. t \in Memory /\ t.live \in SUBSET Nodes
  BY DEF Tree, Memory
<1>2. ASSUME NEW p \in Nodes PROVE \A name : vfs_get_child_by_name(u, p, name) = vfs_get_child_by_name(t, p, name)
  <2>1. \A c \in Kids(t, p) : u.node[c].name = t.node[c].name
    BY <1>1, KidsAre
  <2> QED BY <1>1, <2>1, SameChild
<1>3. ASSUME NEW m, Visible(t, m) PROVE Visible(u, m)
  <2>1. PICK S \in SUBSET t.live : m \in S /\ Shown(t, S)
    BY <1>3 DEF Visible
  <2>2. S \subseteq Nodes
    BY <1>1
  <2>3. ASSUME NEW c \in S \ {Root}
        PROVE  /\ u.node[c].parent \in S
               /\ \E s \in STRING \ ({""} \cup Dots) :
                    u.node[c].name = <<s>> /\ vfs_get_child_by_name(u, u.node[c].parent, <<s>>) = c
    <3>1. t.node[c].parent \in S /\ u.node[c].parent = t.node[c].parent /\ u.node[c].name = t.node[c].name
      BY <2>1, <2>2 DEF Shown
    <3>2. PICK s \in STRING \ ({""} \cup Dots) :
               t.node[c].name = <<s>> /\ vfs_get_child_by_name(t, t.node[c].parent, <<s>>) = c
      BY <2>1 DEF Shown
    <3>3. vfs_get_child_by_name(u, t.node[c].parent, <<s>>) = c
      BY <1>2, <2>2, <3>1, <3>2
    <3> QED BY <3>1, <3>2, <3>3
  <2>4. Shown(u, S)
    BY <2>3 DEF Shown
  <2> QED BY <2>1, <2>4 DEF Visible
<1> QED BY <1>2, <1>3

----------------------------------------------------------------------------
(* One tree: what boot makes *)

\* While the heap has room there is a free node, and a new node counts one.
LEMMA RoomLeft ==
    ASSUME NEW t \in Memory
    PROVE  /\ Cardinality(t.live) \in Nat
           /\ Cardinality(t.live) < MaxNodes => Nodes \ t.live # {}
           /\ \A n \in Nodes \ t.live : Cardinality(t.live \cup {n}) = Cardinality(t.live) + 1
           /\ \A G : Cardinality(t.live \ G) <= Cardinality(t.live)
<1>1. MaxNodes \in Nat /\ t.live \in SUBSET Nodes
  BY VfsConstants DEF Memory
<1>2. IsFiniteSet(Nodes) /\ Cardinality(Nodes) = MaxNodes
  BY <1>1, FS_Interval DEF Nodes
<1>3. IsFiniteSet(t.live)
  BY <1>1, <1>2, FS_Subset
<1>4. Cardinality(t.live) \in Nat
  BY <1>3, FS_CardinalityType
<1>5. ASSUME Nodes \ t.live = {} PROVE Cardinality(t.live) = MaxNodes
  <2>1. t.live = Nodes
    BY <1>1, <1>5
  <2> QED BY <1>2, <2>1
<1>6. \A n \in Nodes \ t.live : Cardinality(t.live \cup {n}) = Cardinality(t.live) + 1
  BY <1>3, FS_AddElement
<1>7. ASSUME NEW G PROVE Cardinality(t.live \ G) <= Cardinality(t.live)
  <2>1. t.live \ G \in SUBSET t.live
    OBVIOUS
  <2> QED BY <1>3, <2>1, FS_Subset
<1> QED BY <1>1, <1>4, <1>5, <1>6, <1>7

\* All that vfs_add_child does to a tree.
LEMMA AddGrows ==
    ASSUME NEW t, Tree(t), NEW p \in t.live, NEW name \in Seq(STRING), NEW type \in Types,
           Cardinality(t.live) < MaxNodes, NEW n, n = NewNode(t), NEW u, u = vfs_add_child(t, p, name, type)
    PROVE  /\ Tree(u) /\ n \in Nodes \ t.live /\ u.live = t.live \cup {n}
           /\ Cardinality(u.live) = Cardinality(t.live) + 1
           /\ u.node[n] = vfs_create_node(p, name, type)
           /\ u.node[p].childs = Append(t.node[p].childs, n) /\ u.node[p].parent = t.node[p].parent
           /\ u.node[p].name = t.node[p].name /\ u.node[p].type = t.node[p].type
           /\ \A m \in t.live \ {p} : u.node[m] = t.node[m]
           /\ \A q \in t.live : \A token : vfs_get_child_by_name(t, q, token) # NULL
                => vfs_get_child_by_name(u, q, token) = vfs_get_child_by_name(t, q, token)
           /\ \A m : Visible(t, m) => Visible(u, m)
<1>1. t \in Memory /\ t.live \in SUBSET Nodes /\ p \in Nodes /\ Nodes \ t.live # {}
  BY RoomLeft DEF Tree, Memory
<1>2. n \in Nodes /\ n \notin t.live /\ n # p
  BY <1>1, NewNodeIs
<1>3. Tree(u) /\ u.live = t.live \cup {n}
  BY <1>1, AddTree
<1>4. /\ u.node[n] = vfs_create_node(p, name, type)
      /\ u.node[p].childs = Append(t.node[p].childs, n) /\ u.node[p].parent = t.node[p].parent
      /\ u.node[p].name = t.node[p].name /\ u.node[p].type = t.node[p].type
      /\ \A m \in Nodes \ {n, p} : u.node[m] = t.node[m]
  BY <1>1, <1>2, AddIs
<1>5. \A m \in t.live \ {p} : u.node[m] = t.node[m]
  BY <1>1, <1>2, <1>4
<1>6. Cardinality(u.live) = Cardinality(t.live) + 1
  BY <1>1, <1>2, <1>3, RoomLeft
<1>7. \A q \in t.live : \A token : vfs_get_child_by_name(t, q, token) # NULL
        => vfs_get_child_by_name(u, q, token) = vfs_get_child_by_name(t, q, token)
  BY <1>1, AddFound
<1>8. \A m : Visible(t, m) => Visible(u, m)
  BY <1>1, AddVisible
<1> QED BY <1>2, <1>3, <1>4, <1>5, <1>6, <1>7, <1>8

\* The names behind the children that a node had.
AddedTo(t, p, names, k, u) ==
    /\ Tree(u) /\ t.live \subseteq u.live /\ Cardinality(u.live) = Cardinality(t.live) + k
    /\ \A m \in t.live \ {p} : u.node[m] = t.node[m]
    /\ u.node[p].name = t.node[p].name /\ u.node[p].parent = t.node[p].parent
    /\ \A q \in t.live : \A token : vfs_get_child_by_name(t, q, token) # NULL
         => vfs_get_child_by_name(u, q, token) = vfs_get_child_by_name(t, q, token)
    /\ Len(u.node[p].childs) = Len(t.node[p].childs) + k
    /\ \A i \in 1 .. k : LET c == u.node[p].childs[Len(t.node[p].childs) + i] IN
         c \in u.live \ t.live /\ u.node[c].name = <<names[i]>> /\ u.node[c].childs = <<>>
    /\ k > 0 => u.node[p].childs[Len(t.node[p].childs) + 1] = NewNode(t)

\* After AddAll all of them have been added.
LEMMA AddAllTree ==
    ASSUME NEW t, Tree(t), NEW p \in t.live, NEW names \in Seq(STRING), NEW type \in Types,
           Cardinality(t.live) + Len(names) <= MaxNodes, NEW u, u = AddAll(t, p, names, type)
    PROVE  AddedTo(t, p, names, Len(names), u)
<1> DEFINE N == Len(names)
           L == Len(t.node[p].childs)
<1>1. N \in Nat /\ Len(names) = N /\ \A i \in 1 .. N : names[i] \in STRING
  OBVIOUS
<1>2. t \in Memory /\ p \in Nodes /\ MaxNodes \in Nat /\ Cardinality(t.live) \in Nat /\ L \in Nat /\ t.live \in SUBSET Nodes
  <2>1. t \in Memory /\ p \in Nodes /\ MaxNodes \in Nat /\ t.live \in SUBSET Nodes
    BY VfsConstants DEF Tree, Memory
  <2> QED BY <2>1, RoomLeft, KidsAre
<1>3. Cardinality(t.live) + N <= MaxNodes
  OBVIOUS
<1> HIDE DEF N
<1>0. PICK f : AddTrace(t, p, names, type, N, f)
  <2>1. N \in Nat
    BY <1>1
  <2> QED BY <2>1, AddAllIs, Zenon
<1>4. /\ (Len(names) = N => AddAll(t, p, names, type) = f[Len(names)])
               /\ f[0] = t
               /\ \A k \in 1 .. N : f[k] = ChildStep(p, names, type, k, f[k - 1])
  BY <1>0 DEF AddTrace
<1> DEFINE S == {k \in 0 .. N : AddedTo(t, p, names, k, f[k])}
<1>5. 0 \in S
  <2>1. AddedTo(t, p, names, 0, t)
    BY <1>2 DEF AddedTo
  <2> QED BY <1>1, <1>4, <2>1
<1>6. \A k \in 1 .. N : k - 1 \in S => k \in S
  <2> SUFFICES ASSUME NEW k \in 1 .. N, k - 1 \in S PROVE k \in S
    OBVIOUS
  <2> DEFINE j == k - 1
             v == f[j]
             w == f[k]
             name == <<names[k]>>
             n == NewNode(v)
  <2>1. j \in 0 .. N /\ j \in Nat /\ k = j + 1 /\ AddedTo(t, p, names, j, v)
    BY <1>1
  <2>2. w = vfs_add_child(v, p, name, type)
    BY <1>4 DEF ChildStep
  <2>3. name \in Seq(STRING)
    BY <1>1, OneName
  <2> HIDE DEF v, w, name
  <2>4. Tree(v) /\ p \in v.live /\ Cardinality(v.live) < MaxNodes /\ v \in Memory /\ v.live \in SUBSET Nodes
    <3>1. Tree(v) /\ p \in v.live /\ Cardinality(v.live) = Cardinality(t.live) + j
      BY <2>1 DEF AddedTo
    <3>2. j < N
      BY <1>1, <2>1
    <3> HIDE DEF j
    <3> QED BY <1>1, <1>2, <1>3, <2>1, <3>1, <3>2 DEF Tree, Memory
  <2>5. n = NewNode(v)
    OBVIOUS
  <2> HIDE DEF n
  <2>6. /\ Tree(w) /\ n \in Nodes \ v.live /\ w.live = v.live \cup {n}
        /\ Cardinality(w.live) = Cardinality(v.live) + 1
        /\ w.node[n] = vfs_create_node(p, name, type)
        /\ w.node[p].childs = Append(v.node[p].childs, n) /\ w.node[p].parent = v.node[p].parent
        /\ w.node[p].name = v.node[p].name
        /\ \A m \in v.live \ {p} : w.node[m] = v.node[m]
        /\ \A q \in v.live : \A token : vfs_get_child_by_name(v, q, token) # NULL
             => vfs_get_child_by_name(w, q, token) = vfs_get_child_by_name(v, q, token)
    BY <2>2, <2>3, <2>4, <2>5, AddGrows, SMTT(30)
  <2> HIDE DEF j
  <2>7. /\ t.live \subseteq v.live /\ Cardinality(v.live) = Cardinality(t.live) + j
        /\ \A m \in t.live \ {p} : v.node[m] = t.node[m]
        /\ v.node[p].name = t.node[p].name /\ v.node[p].parent = t.node[p].parent
        /\ \A q \in t.live : \A token : vfs_get_child_by_name(t, q, token) # NULL
             => vfs_get_child_by_name(v, q, token) = vfs_get_child_by_name(t, q, token)
    BY <2>1 DEF AddedTo
  <2>8. /\ t.live \subseteq w.live /\ Cardinality(w.live) = Cardinality(t.live) + k
        /\ \A m \in t.live \ {p} : w.node[m] = t.node[m]
        /\ w.node[p].name = t.node[p].name /\ w.node[p].parent = t.node[p].parent
        /\ \A q \in t.live : \A token : vfs_get_child_by_name(t, q, token) # NULL
             => vfs_get_child_by_name(w, q, token) = vfs_get_child_by_name(t, q, token)
    <3>1. t.live \subseteq w.live /\ Cardinality(w.live) = Cardinality(t.live) + k
      BY <1>2, <2>1, <2>6, <2>7
    <3>2. \A m \in t.live \ {p} : w.node[m] = t.node[m]
      BY <2>6, <2>7
    <3>3. ASSUME NEW q \in t.live, NEW token, vfs_get_child_by_name(t, q, token) # NULL
          PROVE  vfs_get_child_by_name(w, q, token) = vfs_get_child_by_name(t, q, token)
      <4>1. q \in v.live /\ vfs_get_child_by_name(v, q, token) = vfs_get_child_by_name(t, q, token)
        BY <2>7, <3>3
      <4> QED BY <2>6, <3>3, <4>1
    <3> QED BY <2>6, <2>7, <3>1, <3>2, <3>3
  <2> DEFINE r == v.node[p].childs
             s == w.node[p].childs
  <2>9. r \in Seq(Nodes) /\ s = Append(r, n) /\ Len(r) = L + j
    <3>1. r \in Seq(Nodes)
      BY <2>1, <2>4, <2>6, <1>2, KidsAre
    <3>2. Len(r) = L + j
      BY <2>1 DEF AddedTo
    <3> QED BY <2>6, <3>1, <3>2
  <2> HIDE DEF r, s, L
  <2>10. Len(s) = L + k /\ s[L + k] = n /\ \A i \in 1 .. L + j : s[i] = r[i]
    BY <1>2, <2>1, <2>6, <2>9, SMTT(30)
  <2>11. ASSUME NEW i \in 1 .. k
         PROVE  s[L + i] \in w.live \ t.live /\ w.node[s[L + i]].name = <<names[i]>> /\ w.node[s[L + i]].childs = <<>>
    <3>1. CASE i = k
      <4>1. w.node[n].name = name /\ w.node[n].childs = <<>>
        BY <2>6 DEF vfs_create_node
      <4>2. n \notin t.live
        BY <2>1, <2>6 DEF AddedTo
      <4> QED BY <2>6, <2>10, <3>1, <4>1, <4>2 DEF name
    <3>2. CASE i # k
      <4>1. i \in 1 .. j /\ L + i \in 1 .. L + j
        BY <1>2, <2>1, <3>2
      <4>2. r[L + i] \in v.live \ t.live /\ v.node[r[L + i]].name = <<names[i]>> /\ v.node[r[L + i]].childs = <<>>
        BY <2>1, <4>1 DEF AddedTo, r, L
      <4>3. s[L + i] = r[L + i] /\ r[L + i] # p
        BY <2>10, <4>1, <4>2
      <4> QED BY <2>6, <4>2, <4>3
    <3> QED BY <3>1, <3>2
  <2>12. s[L + 1] = NewNode(t)
    <3>1. CASE k = 1
      <4>1. v = t
        BY <1>4, <2>1, <3>1 DEF v
      <4> QED BY <2>10, <3>1, <4>1 DEF n
    <3>2. CASE k # 1
      <4>1. j > 0 /\ L + 1 \in 1 .. L + j
        BY <1>2, <2>1, <3>2
      <4>2. r[L + 1] = NewNode(t)
        BY <2>1, <4>1 DEF AddedTo, r, L
      <4> QED BY <2>10, <4>1, <4>2
    <3> QED BY <3>1, <3>2
  <2>13. AddedTo(t, p, names, k, w)
    BY <2>6, <2>8, <2>10, <2>11, <2>12 DEF AddedTo, s, L
  <2> QED BY <1>1, <2>1, <2>13 DEF w
<1> HIDE DEF S
<1>7. \A k \in 0 .. N : k \in S
  BY <1>1, <1>5, <1>6, UpTo
<1>8. N \in S
  BY <1>1, <1>7
<1> QED BY <1>1, <1>4, <1>8 DEF S

\* One node is written, or a field of it.
Rewritten(t, n, new) == [live |-> t.live, node |-> [t.node EXCEPT ![n] = new]]
Retyped(t, n, type) == [t EXCEPT !.node[n].type = type]
Permitted(t, n, ox) == [t EXCEPT !.node[n].ox = ox]

\* Other contents of one node, with its links and its name.
LEMMA SameNode ==
    ASSUME NEW t, Tree(t), NEW n \in t.live, NEW new \in Node,
           new.childs = t.node[n].childs, new.parent = t.node[n].parent, new.name = t.node[n].name,
           NEW u, u = Rewritten(t, n, new)
    PROVE  /\ Tree(u) /\ u.live = t.live /\ u.node[n] = new
           /\ \A m \in Nodes \ {n} : u.node[m] = t.node[m]
           /\ \A m : Visible(t, m) => Visible(u, m)
           /\ \A p \in Nodes : \A name : vfs_get_child_by_name(u, p, name) = vfs_get_child_by_name(t, p, name)
<1>1. /\ t \in Memory /\ n \in Nodes /\ t.node \in [Nodes -> Node] /\ t.live \in SUBSET Nodes
  BY DEF Tree, Memory
<1>2. /\ u.live = t.live /\ u.node \in [Nodes -> Node] /\ u.node[n] = new
      /\ \A m \in Nodes \ {n} : u.node[m] = t.node[m]
  BY <1>1 DEF Rewritten
<1>3. u \in Memory
  BY <1>1, <1>2 DEF Memory, Rewritten
<1>4. \A m \in Nodes : /\ u.node[m].parent = t.node[m].parent /\ u.node[m].childs = t.node[m].childs
                       /\ u.node[m].name = t.node[m].name
  BY <1>2
<1>5. Tree(u)
  BY <1>2, <1>3, <1>4, SameLinks
<1>6. (\A m : Visible(t, m) => Visible(u, m))
      /\ \A p \in Nodes : \A name : vfs_get_child_by_name(u, p, name) = vfs_get_child_by_name(t, p, name)
  BY <1>2, <1>3, <1>4, SameNames
<1> QED BY <1>2, <1>5, <1>6

\* Another type.
LEMMA TypedTree ==
    ASSUME NEW t, Tree(t), NEW n \in t.live, NEW type \in Types, NEW u, u = Retyped(t, n, type)
    PROVE  /\ Tree(u) /\ u.live = t.live /\ u.node[n].childs = t.node[n].childs
           /\ u.node[n].parent = t.node[n].parent /\ u.node[n].name = t.node[n].name /\ u.node[n].type = type
           /\ \A m \in Nodes \ {n} : u.node[m] = t.node[m]
           /\ \A m : Visible(t, m) => Visible(u, m)
           /\ \A p \in Nodes : \A name : vfs_get_child_by_name(u, p, name) = vfs_get_child_by_name(t, p, name)
<1> DEFINE x == [t.node[n] EXCEPT !.type = type]
<1>1. t.node[n] \in Node /\ t.node \in [Nodes -> Node] /\ n \in Nodes /\ t = [live |-> t.live, node |-> t.node]
  BY DEF Tree, Memory
<1>2. x \in Node /\ x.childs = t.node[n].childs /\ x.parent = t.node[n].parent /\ x.name = t.node[n].name
      /\ x.type = type
  BY <1>1 DEF Node
<1>3. u = Rewritten(t, n, x)
  BY <1>1 DEF Rewritten, Retyped
<1> HIDE DEF x
<1> QED BY <1>2, <1>3, SameNode

\* Other permissions.
LEMMA PermittedTree ==
    ASSUME NEW t, Tree(t), NEW n \in t.live, NEW ox \in BOOLEAN, NEW u, u = Permitted(t, n, ox)
    PROVE  /\ Tree(u) /\ u.live = t.live /\ \A m \in Nodes \ {n} : u.node[m] = t.node[m]
           /\ \A m : Visible(t, m) => Visible(u, m)
<1> DEFINE x == [t.node[n] EXCEPT !.ox = ox]
<1>1. t.node[n] \in Node /\ t.node \in [Nodes -> Node] /\ n \in Nodes /\ t = [live |-> t.live, node |-> t.node]
  BY DEF Tree, Memory
<1>2. x \in Node /\ x.childs = t.node[n].childs /\ x.parent = t.node[n].parent /\ x.name = t.node[n].name
  BY <1>1 DEF Node
<1>3. u = Rewritten(t, n, x)
  BY <1>1 DEF Rewritten, Permitted
<1> HIDE DEF x
<1> QED BY <1>2, <1>3, SameNode

\* Nodes whose parents are among them, and not n, are not below n.
LEMMA BelowOutside ==
    ASSUME NEW t, Tree(t), NEW n \in t.live, NEW K \in SUBSET t.live, \A m \in K : t.node[m].parent \in K \ {n}
    PROVE  Below(t, n) \cap K = {}
<1>1. t \in Memory /\ t.live \in SUBSET Nodes /\ n \in Nodes
  BY DEF Tree, Memory
<1>2. Below(t, n) \in SUBSET Nodes /\ Kids(t, n) \subseteq Below(t, n) /\ Closed(t, Below(t, n)) /\ Below(t, n) \subseteq t.live
  BY <1>1, BelowIs, BelowTree
<1>3. \A m \in t.live : \A c \in Kids(t, m) : t.node[c].parent = m
  BY DEF Tree, Linked
<1> DEFINE S == Below(t, n) \ K
<1>4. S \in SUBSET Nodes
  BY <1>2
<1>5. Kids(t, n) \subseteq S
  BY <1>2, <1>3
<1>6. Closed(t, S)
  BY <1>2, <1>3 DEF Closed
<1>7. Below(t, n) \subseteq S
  BY <1>1, <1>4, <1>5, <1>6, BelowIs
<1> QED BY <1>7

\* A path of one name.
LEMMA ResolveOne ==
    ASSUME NEW t, NEW n, n # NULL, NEW s \in STRING
    PROVE  Resolve(t, n, <<s>>) = vfs_get_child_by_name(t, n, <<s>>)
<1> DEFINE one == <<s>>
<1>1. one \in Seq(STRING) /\ one # <<>> /\ Head(one) = s /\ Tail(one) = <<>>
  BY OneName
<1> HIDE DEF one
<1>2. Resolve(t, n, one)
        = Resolve(t, IF n = NULL THEN NULL ELSE vfs_get_child_by_name(t, n, <<Head(one)>>), Tail(one))
  BY <1>1, ResolveStep
<1> QED BY <1>1, <1>2, ResolveEmpty DEF one

\* The only child of a name is found by it.
LEMMA OnlyChild ==
    ASSUME NEW t \in Memory, NEW p \in Nodes, NEW i \in DOMAIN t.node[p].childs,
           NEW name, name \notin {<<".">>, <<"..">>}, t.node[t.node[p].childs[i]].name = name,
           \A j \in DOMAIN t.node[p].childs : t.node[t.node[p].childs[j]].name = name => j = i
    PROVE  vfs_get_child_by_name(t, p, name) = t.node[p].childs[i]
<1>1. Named(t, p, name) = {i} /\ i \in Nat
  BY KidsAre DEF Named
<1>2. Min({i}) = i
  BY <1>1, MinIs
<1> QED BY <1>1, <1>2 DEF vfs_get_child_by_name

\* What the archive puts into the tree lies below the node mod: the nodes of K,
\* which were there before, are as they were in old.
Inside(t, mod, K, old, k) ==
    /\ Tree(t) /\ Cardinality(t.live) <= k
    /\ mod \in t.live \ K /\ t.node[mod].parent \in K
    /\ K \subseteq t.live /\ \A m \in K : t.node[m] = old.node[m] /\ old.node[m].parent \in K

\* More room is room enough.
LEMMA InsideMore ==
    ASSUME NEW t, NEW mod, NEW K, NEW old, NEW k \in Nat, NEW j \in Nat, k <= j, Inside(t, mod, K, old, k)
    PROVE  Inside(t, mod, K, old, j)
<1>1. Cardinality(t.live) \in Nat /\ Cardinality(t.live) <= k
  BY RoomLeft DEF Inside, Tree
<1>2. Cardinality(t.live) <= j
  BY <1>1
<1> QED BY <1>2 DEF Inside

\* One round of vfs_make_node stays there.
LEMMA EnterInside ==
    ASSUME NEW t, NEW mod, NEW K, NEW old, NEW k \in Nat, Inside(t, mod, K, old, k), k < MaxNodes,
           NEW cur \in t.live \ K, NEW token \in Seq(STRING), token # <<"..">>, NEW type \in Types,
           NEW s, s.t = t, s.cur = cur, s = [t |-> t, cur |-> cur],
           NEW r, r = Enter(s, token, type)
    PROVE  Inside(r.t, mod, K, old, k + 1) /\ r.cur \in r.t.live \ K
<1>1. Tree(t) /\ t \in Memory /\ t.live \in SUBSET Nodes /\ cur \in t.live /\ cur \in Nodes /\ Cardinality(t.live) \in Nat
      /\ MaxNodes \in Nat /\ Cardinality(t.live) <= k
  BY VfsConstants, RoomLeft DEF Inside, Tree, Memory
<1> DEFINE child == vfs_get_child_by_name(t, cur, token)
<1>2. CASE child # NULL
  <2>1. r.t = t /\ r.cur = child
    BY <1>2 DEF Enter
  <2>2. child \in t.live \ K
    <3>1. CASE token = <<".">>
      BY <1>1, <3>1, ChildIs
    <3>2. CASE token # <<".">>
      <4>1. child \in Kids(t, cur)
        BY <1>1, <1>2, <3>2, ChildLive
      <4>2. child \in t.live /\ t.node[child].parent = cur
        BY <1>1, <4>1 DEF Tree, Linked
      <4> QED BY <4>2 DEF Inside
    <3> QED BY <3>1, <3>2
  <2>3. Inside(t, mod, K, old, k + 1)
    BY <1>1 DEF Inside
  <2> QED BY <2>1, <2>2, <2>3
<1>3. CASE child = NULL
  <2> DEFINE n == NewNode(t)
             u == vfs_add_child(t, cur, token, type)
  <2>1. r.t = u /\ r.cur = n
    BY <1>3 DEF Enter
  <2>2. n = NewNode(t) /\ u = vfs_add_child(t, cur, token, type) /\ Cardinality(t.live) < MaxNodes
    BY <1>1
  <2> HIDE DEF n, u
  <2>3. /\ Tree(u) /\ n \in Nodes \ t.live /\ u.live = t.live \cup {n}
        /\ Cardinality(u.live) = Cardinality(t.live) + 1 /\ u.node[cur].parent = t.node[cur].parent
        /\ \A m \in t.live \ {cur} : u.node[m] = t.node[m]
    BY <1>1, <2>2, AddGrows
  <2>4. \A m \in t.live : u.node[m].parent = t.node[m].parent
    BY <2>3
  <2>5. Inside(u, mod, K, old, k + 1)
    BY <1>1, <2>3, <2>4 DEF Inside
  <2>6. n \in u.live \ K
    BY <2>3 DEF Inside
  <2> QED BY <2>1, <2>5, <2>6
<1> QED BY <1>2, <1>3

\* So does all of it, and the node it starts from survives.
LEMMA MakeInside ==
    ASSUME NEW t, NEW mod, NEW K, NEW old, NEW k \in Nat, Inside(t, mod, K, old, k), k + 2 <= MaxNodes,
           NEW names \in Seq(STRING \ {".."}), NEW type \in {"FILE", "DIR"},
           NEW u, u = vfs_make_node(t, mod, names, type)
    PROVE  Inside(u, mod, K, old, k + 2)
<1> DEFINE start == [t |-> t, cur |-> mod]
           first == IF names = <<>> THEN start ELSE Enter(start, <<Head(names)>>, type)
           second == Tail(names) \o (IF type = "DIR" THEN <<"">> ELSE <<>>)
           end   == IF Len(names) <= 1 THEN first ELSE Enter(first, second, type)
           typed == [end.t EXCEPT !.node[end.cur].type = type]
<1>1. u = IF type = "FILE" THEN vfs_free_child_nodes(typed, end.cur) ELSE typed
  BY DEF vfs_make_node
<1>2. MaxNodes \in Nat /\ type \in Types
  BY VfsConstants DEF Types
<1>3. names \in Seq(STRING) /\ DOMAIN names = 1 .. Len(names) /\ Len(names) \in Nat
      /\ \A i \in 1 .. Len(names) : names[i] \in STRING \ {".."}
  BY NamesAre
<1>4. Inside(first.t, mod, K, old, k + 1) /\ first.cur \in first.t.live \ K /\ first = [t |-> first.t, cur |-> first.cur]
  <2>1. CASE names = <<>>
    <3>1. first.t = t /\ first.cur = mod /\ first = [t |-> first.t, cur |-> first.cur]
      BY <2>1
    <3>2. Inside(t, mod, K, old, k + 1)
      BY InsideMore
    <3> QED BY <3>1, <3>2 DEF Inside
  <2>2. CASE names # <<>>
    <3> DEFINE token == <<Head(names)>>
    <3>1. Head(names) \in STRING \ {".."}
      BY <1>3, <2>2
    <3>2. token \in Seq(STRING) /\ token # <<"..">>
      BY <3>1, OneName, OneToken
    <3> HIDE DEF token
    <3>3. start.t = t /\ start.cur = mod /\ mod \in t.live \ K /\ k < MaxNodes
      BY <1>2 DEF Inside
    <3> DEFINE r == Enter(start, token, type)
    <3>4. Inside(r.t, mod, K, old, k + 1) /\ r.cur \in r.t.live \ K
      BY <1>2, <3>2, <3>3, EnterInside
    <3>5. r = [t |-> r.t, cur |-> r.cur]
      BY DEF Enter
    <3> QED BY <2>2, <3>4, <3>5 DEF token
  <2> QED BY <2>1, <2>2
<1> HIDE DEF start, first
<1>5. Inside(end.t, mod, K, old, k + 2) /\ end.cur \in end.t.live \ K
  <2>1. CASE Len(names) <= 1
    <3> DEFINE v == first.t
               c == first.cur
    <3>1. Inside(v, mod, K, old, k + 1) /\ c \in v.live \ K /\ k + 1 \in Nat /\ k + 2 \in Nat /\ k + 1 <= k + 2
      BY <1>4
    <3> HIDE DEF v, c
    <3>2. Inside(v, mod, K, old, k + 2)
      BY <3>1, InsideMore
    <3> QED BY <2>1, <3>1, <3>2 DEF v, c
  <2>2. CASE ~(Len(names) <= 1)
    <3>1. second \in Seq(STRING) /\ second # <<"..">>
      <4> DEFINE rest == Tail(names)
                 slash == IF type = "DIR" THEN <<"">> ELSE <<>>
      <4>1. rest \in Seq(STRING) /\ Len(rest) > 0 /\ rest[1] # ".."
        BY <1>3, <2>2
      <4>2. slash \in Seq(STRING)
        <5>1. "" \in STRING
          BY VfsNames
        <5>2. <<>> \in Seq(STRING)
          OBVIOUS
        <5> QED BY <5>1, <5>2, OneName
      <4> HIDE DEF rest, slash
      <4>3. rest \o slash \in Seq(STRING) /\ (rest \o slash)[1] = rest[1]
        BY <4>1, <4>2
      <4>4. <<"..">>[1] = ".."
        OBVIOUS
      <4> QED BY <4>1, <4>3, <4>4 DEF rest, slash
    <3> HIDE DEF second
    <3> DEFINE r == Enter(first, second, type)
               v == first.t
               c == first.cur
    <3>2. Inside(v, mod, K, old, k + 1) /\ c \in v.live \ K /\ first = [t |-> v, cur |-> c] /\ first.t = v /\ first.cur = c
      BY <1>4
    <3> HIDE DEF v, c
    <3>3. k + 1 \in Nat /\ k + 1 < MaxNodes /\ (k + 1) + 1 = k + 2
      BY <1>2
    <3>4. Inside(r.t, mod, K, old, (k + 1) + 1) /\ r.cur \in r.t.live \ K
      BY <1>2, <3>1, <3>2, <3>3, EnterInside
    <3> QED BY <2>2, <3>3, <3>4
  <2> QED BY <2>1, <2>2
<1> HIDE DEF end
<1> DEFINE w == end.t
           n == end.cur
<1>6. Inside(w, mod, K, old, k + 2) /\ n \in w.live \ K /\ Tree(w) /\ n \in w.live /\ typed = Retyped(w, n, type)
  BY <1>5 DEF Inside, Retyped
<1> HIDE DEF w, n, typed
<1>7. /\ Tree(typed) /\ typed.live = w.live /\ typed.node[n].parent = w.node[n].parent
      /\ \A m \in Nodes \ {n} : typed.node[m] = w.node[m]
  BY <1>2, <1>6, TypedTree
<1>8. K \subseteq w.live /\ w.live \in SUBSET Nodes /\ mod \in Nodes
  BY <1>6 DEF Inside, Tree, Memory
<1>9. Inside(typed, mod, K, old, k + 2)
  <2>1. \A m \in K : typed.node[m] = w.node[m]
    BY <1>6, <1>7, <1>8
  <2>2. typed.node[mod].parent = w.node[mod].parent
    BY <1>7, <1>8
  <2> QED BY <1>6, <1>7, <2>1, <2>2 DEF Inside
<1>10. CASE type = "FILE"
  <2> DEFINE B == Below(typed, n)
  <2>1. u = vfs_free_child_nodes(typed, n)
    BY <1>1, <1>10 DEF n
  <2>2. n \in typed.live /\ Tree(typed)
    BY <1>6, <1>7
  <2>3. Tree(u) /\ u.live = typed.live \ B
    BY <2>1, <2>2, FreeTree
  <2>4. typed \in Memory /\ n \in Nodes /\ n \notin B
    BY <2>2, BelowTree DEF Tree
  <2>5. u.node[n].parent = typed.node[n].parent /\ \A m \in Nodes \ (B \cup {n}) : u.node[m] = typed.node[m]
    BY <2>1, <2>4, FreeIs
  <2>6. B \cap K = {} /\ mod \notin B
    <3>1. CASE n = mod
      <4>1. K \in SUBSET typed.live /\ \A m \in K : typed.node[m].parent \in K \ {n}
        BY <1>6, <1>9 DEF Inside
      <4>2. B \cap K = {}
        BY <2>2, <4>1, BelowOutside
      <4> QED BY <2>4, <3>1, <4>2
    <3>2. CASE n # mod
      <4> DEFINE M == K \cup {mod}
      <4>1. M \in SUBSET typed.live /\ \A m \in M : typed.node[m].parent \in M \ {n}
        BY <1>6, <1>9, <3>2 DEF Inside
      <4> HIDE DEF M
      <4>2. B \cap M = {}
        BY <2>2, <4>1, BelowOutside
      <4> QED BY <4>2 DEF M
    <3> QED BY <3>1, <3>2
  <2>7. Cardinality(u.live) <= k + 2
    <3>1. Cardinality(typed.live \ B) <= Cardinality(typed.live) /\ Cardinality(typed.live) \in Nat /\ Cardinality(typed.live) <= k + 2
      BY <1>9, <2>4, RoomLeft DEF Inside
    <3>2. Cardinality(u.live) \in Nat
      BY <2>3, RoomLeft DEF Tree
    <3> QED BY <2>3, <3>1, <3>2
  <2> HIDE DEF B
  <2>8. \A m \in K : u.node[m] = typed.node[m]
    BY <1>6, <1>8, <2>5, <2>6
  <2>9. mod \in u.live \ K /\ u.node[mod].parent = typed.node[mod].parent /\ K \subseteq u.live
    BY <1>8, <1>9, <2>3, <2>5, <2>6 DEF Inside
  <2> QED BY <1>9, <2>3, <2>7, <2>8, <2>9 DEF Inside
<1>11. CASE type # "FILE"
  BY <1>1, <1>9, <1>11
<1> QED BY <1>10, <1>11

\* And so does the whole archive.
LEMMA TarInside ==
    ASSUME NEW t, NEW mod, NEW K, NEW old, Inside(t, mod, K, old, 17),
           NEW archive, archive = Archive, NEW u, u = tar_parse(t, mod, archive)
    PROVE  Inside(u, mod, K, old, MaxNodes)
<1> DEFINE N == Len(archive)
<1>1. N \in Nat /\ Len(archive) = N /\ DOMAIN archive = 1 .. N /\ MaxNodes \in Nat /\ 17 + 2 * N <= MaxNodes
  BY VfsConstants
<1> HIDE DEF N
<1>0. PICK f : TarTrace(t, mod, archive, N, f)
  <2>1. N \in Nat
    BY <1>1
  <2> QED BY <2>1, TarIs, Zenon
<1>2. /\ (Len(archive) = N => tar_parse(t, mod, archive) = f[Len(archive)])
               /\ f[0] = t
               /\ \A k \in 1 .. N : f[k] = EntryStep(mod, archive, k, f[k - 1])
  BY <1>0 DEF TarTrace
<1> DEFINE S == {k \in 0 .. N : Inside(f[k], mod, K, old, 17 + 2 * k)}
<1>3. 0 \in S
  <2>1. Inside(f[0], mod, K, old, 17) /\ 17 + 2 * 0 = 17
    BY <1>2
  <2> QED BY <1>1, <2>1
<1>4. \A k \in 1 .. N : k - 1 \in S => k \in S
  <2> SUFFICES ASSUME NEW k \in 1 .. N, k - 1 \in S PROVE k \in S
    OBVIOUS
  <2> DEFINE j == 17 + 2 * (k - 1)
             v == f[k - 1]
             w == f[k]
             names == archive[k].names
             type == archive[k].type
  <2>1. Inside(v, mod, K, old, j)
    OBVIOUS
  <2>2. j \in Nat /\ j + 2 = 17 + 2 * k /\ j + 2 <= MaxNodes /\ k \in 0 .. N
    BY <1>1
  <2>3. names \in Seq(STRING \ {".."}) /\ type \in {"FILE", "DIR"} /\ w = vfs_make_node(v, mod, names, type)
    BY <1>1, <1>2, VfsConstants DEF EntryStep
  <2> HIDE DEF j, v, w, names, type
  <2>4. Inside(w, mod, K, old, j + 2)
    BY <2>1, <2>2, <2>3, MakeInside
  <2> QED BY <2>2, <2>4 DEF w
<1> HIDE DEF S
<1>5. \A k \in 0 .. N : k \in S
  BY <1>1, <1>3, <1>4, UpTo
<1>6. Inside(u, mod, K, old, 17 + 2 * N)
  BY <1>1, <1>2, <1>5 DEF S
<1>7. Tree(u) /\ Cardinality(u.live) \in Nat /\ Cardinality(u.live) <= 17 + 2 * N
  BY <1>6, RoomLeft DEF Inside, Tree
<1>8. Cardinality(u.live) <= MaxNodes
  BY <1>1, <1>7
<1> QED BY <1>6, <1>8 DEF Inside

\* A node that had no children finds those it is given, if their names differ.
LEMMA AddedFound ==
    ASSUME NEW t, NEW p \in t.live, NEW names \in Seq(STRING), NEW u, AddedTo(t, p, names, Len(names), u),
           t.node[p].childs = <<>>
    PROVE  \A i \in 1 .. Len(names) :
              names[i] \notin Dots /\ (\A j \in 1 .. Len(names) : names[j] = names[i] => j = i)
                => vfs_get_child_by_name(u, p, <<names[i]>>) = u.node[p].childs[i]
<1> SUFFICES ASSUME NEW i \in 1 .. Len(names), names[i] \notin Dots,
                    \A j \in 1 .. Len(names) : names[j] = names[i] => j = i
             PROVE  vfs_get_child_by_name(u, p, <<names[i]>>) = u.node[p].childs[i]
  OBVIOUS
<1> DEFINE s == u.node[p].childs
           name == <<names[i]>>
           N == Len(names)
<1>1. N \in Nat
  OBVIOUS
<1>2. Tree(u) /\ p \in u.live /\ u \in Memory /\ p \in Nodes
  BY DEF AddedTo, Tree, Memory
<1>3. s \in Seq(Nodes) /\ DOMAIN s = 1 .. Len(s) /\ Len(<<>>) = 0
  BY <1>2, KidsAre
<1>4. Len(s) = N /\ \A j \in 1 .. N : u.node[s[j]].name = <<names[j]>>
  <2>1. Len(s) = 0 + N /\ \A j \in 1 .. N : u.node[s[0 + j]].name = <<names[j]>>
    BY <1>3 DEF AddedTo
  <2>2. \A j \in 1 .. N : 0 + j = j
    OBVIOUS
  <2>3. Len(s) = N
    BY <1>1, <2>1
  <2> HIDE DEF s
  <2> QED BY <2>1, <2>2, <2>3
<1>5. name \notin {<<".">>, <<"..">>}
  BY OneToken DEF Dots
<1>6. i \in DOMAIN u.node[p].childs /\ u.node[u.node[p].childs[i]].name = name
  BY <1>1, <1>3, <1>4
<1>7. ASSUME NEW j \in DOMAIN u.node[p].childs, u.node[u.node[p].childs[j]].name = name PROVE j = i
  <2>1. j \in 1 .. N /\ <<names[j]>> = <<names[i]>>
    BY <1>1, <1>3, <1>4, <1>7
  <2> QED BY <2>1, OneToken
<1> HIDE DEF name
<1>8. vfs_get_child_by_name(u, p, name) = u.node[p].childs[i]
  BY <1>2, <1>5, <1>6, <1>7, OnlyChild
<1> QED BY <1>8 DEF name

\* The root alone is a tree.
LEMMA RootTree ==
    ASSUME NEW t, t = [live |-> {Root}, node |-> [n \in Nodes |-> IF n = Root THEN vfs_create_node(Root, <<>>, "DIR")
                                                                 ELSE Blank]]
    PROVE  Tree(t) /\ t.live = {Root} /\ Cardinality(t.live) = 1 /\ t.node[Root].childs = <<>>
<1>1. Root \in Nodes /\ "DIR" \in Types /\ "FILE" \in Types
  BY VfsConstants DEF Root, Nodes, Types
<1> DEFINE nodes == [n \in Nodes |-> IF n = Root THEN vfs_create_node(Root, <<>>, "DIR") ELSE Blank]
           lives == {Root}
<1>2. vfs_create_node(Root, <<>>, "DIR") \in Node /\ Blank \in Node
  BY <1>1 DEF vfs_create_node, Blank, Node
<1>3. nodes \in [Nodes -> Node] /\ lives \in SUBSET Nodes
  BY <1>1, <1>2
<1>4. t = [live |-> lives, node |-> nodes] /\ t.live = {Root} /\ t.node[Root] = vfs_create_node(Root, <<>>, "DIR")
  BY <1>1
<1> HIDE DEF nodes, lives
<1>5. t \in Memory
  BY <1>3, <1>4 DEF Memory
<1>6. t.node[Root].childs = <<>> /\ t.node[Root].parent = Root
  BY <1>4 DEF vfs_create_node
<1>7. Kids(t, Root) = {} /\ Once(t.node[Root].childs)
  BY <1>6 DEF Kids, Once
<1>8. Linked(t)
  BY <1>4, <1>6, <1>7 DEF Linked, IsRoot
<1>9. Reached(t)
  BY <1>4 DEF Reached
<1> QED BY <1>4, <1>5, <1>6, <1>8, <1>9, FS_Singleton DEF Tree

\* The lists of names that boot gives.
LEMMA BootLists ==
    ASSUME NEW T, {"bin", "etc", "mnt", "home", "dev", "tmp", "yuun", "document.txt", "program.c",
                   "com1", "com2", "com3", "com4", "con"} \subseteq T
    PROVE  /\ <<"bin", "etc", "mnt", "home", "dev", "tmp">> \in Seq(T)
           /\ Len(<<"bin", "etc", "mnt", "home", "dev", "tmp">>) = 6
           /\ <<"yuun">> \in Seq(T) /\ Len(<<"yuun">>) = 1
           /\ <<"document.txt", "program.c">> \in Seq(T) /\ Len(<<"document.txt", "program.c">>) = 2
           /\ <<"com1", "com2", "com3", "com4", "con">> \in Seq(T)
           /\ Len(<<"com1", "com2", "com3", "com4", "con">>) = 5
<1>1. <<"bin", "etc", "mnt", "home", "dev", "tmp">> \in Seq(T)
  OBVIOUS
<1>2. <<"yuun">> \in Seq(T) /\ <<"document.txt", "program.c">> \in Seq(T)
  OBVIOUS
<1>3. <<"com1", "com2", "com3", "com4", "con">> \in Seq(T)
  OBVIOUS
<1> QED BY <1>1, <1>2, <1>3

\* The directories of vfs_dummy: /tmp is empty, /dev is another one.
LEMMA DummyTree ==
    /\ Tree(vfs_dummy) /\ Cardinality(vfs_dummy.live) = 10
    /\ \E tmp \in vfs_dummy.live : /\ vfs_get_child_by_name(vfs_dummy, Root, <<"tmp">>) = tmp /\ tmp # Root
                                   /\ vfs_dummy.node[tmp].childs = <<>>
                                   /\ vfs_get_child_by_name(vfs_dummy, Root, <<"dev">>) \in vfs_dummy.live \ {tmp, Root}
<1> DEFINE root == [live |-> {Root},
                    node |-> [n \in Nodes |-> IF n = Root THEN vfs_create_node(Root, <<>>, "DIR") ELSE Blank]]
           names == <<"bin", "etc", "mnt", "home", "dev", "tmp">>
           top  == AddAll(root, Root, names, "DIR")
           path == [abs |-> TRUE, names |-> <<"home">>]
           home == vfs_node_from_path(top, Root, path)
           user == <<"yuun">>
           inner == AddAll(top, home, user, "DIR")
           files == <<"document.txt", "program.c">>
           all  == AddAll(inner, NewNode(top), files, "FILE")
<1>1. vfs_dummy = all
  BY DEF vfs_dummy
<1>2. Tree(root) /\ root.live = {Root} /\ Cardinality(root.live) = 1 /\ root.node[Root].childs = <<>>
  BY RootTree
<1>3. MaxNodes \in Nat /\ 17 <= MaxNodes /\ "DIR" \in Types /\ "FILE" \in Types
  BY VfsConstants DEF Types
<1>4. /\ names \in Seq(STRING) /\ Len(names) = 6 /\ names[4] = "home" /\ names[5] = "dev" /\ names[6] = "tmp"
      /\ user \in Seq(STRING) /\ Len(user) = 1
      /\ files \in Seq(STRING) /\ Len(files) = 2
  BY VfsNames, BootLists
<1>5. \A i \in 1 .. 6 : \A j \in 1 .. 6 : names[i] = names[j] => i = j
  OBVIOUS
<1>6. \A i \in 4 .. 6 : names[i] \notin Dots
  BY DEF Dots
<1>7. home = Resolve(top, Root, <<"home">>) /\ "home" \in STRING
  BY VfsNames DEF vfs_node_from_path, From
<1> HIDE DEF root, names, user, files, all
<1>8. AddedTo(root, Root, names, 6, top)
  <2>1. Cardinality(root.live) + Len(names) <= MaxNodes /\ Root \in root.live /\ top = AddAll(root, Root, names, "DIR")
    BY <1>2, <1>3, <1>4
  <2> HIDE DEF top
  <2>2. AddedTo(root, Root, names, Len(names), top)
    BY <1>2, <1>3, <1>4, <2>1, AddAllTree
  <2> QED BY <1>4, <2>2
<1> HIDE DEF top
<1>9. /\ Tree(top) /\ Cardinality(top.live) = 7 /\ Root \in top.live /\ Len(top.node[Root].childs) = 6
      /\ \A i \in 1 .. 6 : LET c == top.node[Root].childs[i] IN
            c \in top.live \ {Root} /\ top.node[c].childs = <<>>
  <2>1. Len(<<>>) = 0
    OBVIOUS
  <2>2. /\ Tree(top) /\ Cardinality(top.live) = 1 + 6 /\ Root \in top.live /\ Len(top.node[Root].childs) = 0 + 6
        /\ \A i \in 1 .. 6 : LET c == top.node[Root].childs[0 + i] IN
              c \in top.live \ {Root} /\ top.node[c].childs = <<>>
    BY <1>2, <1>8, <2>1, ZenonT(40) DEF AddedTo
  <2>3. /\ \A i \in 1 .. 6 : 0 + i = i
        /\ 1 + 6 = 7 /\ 0 + 6 = 6
    OBVIOUS
  <2>4. ASSUME NEW i \in 1 .. 6
        PROVE  LET c == top.node[Root].childs[i] IN c \in top.live \ {Root} /\ top.node[c].childs = <<>>
    BY <2>2, <2>3, Zenon
  <2> QED BY <2>2, <2>3, <2>4
<1>10. ASSUME NEW i \in 4 .. 6 PROVE vfs_get_child_by_name(top, Root, <<names[i]>>) = top.node[Root].childs[i]
  <2>1. Root \in root.live /\ AddedTo(root, Root, names, Len(names), top) /\ i \in 1 .. Len(names) /\ names[i] \notin Dots
    BY <1>2, <1>4, <1>6, <1>8
  <2>2. \A j \in 1 .. Len(names) : names[j] = names[i] => j = i
    BY <1>4, <1>5
  <2>3. \A k \in 1 .. Len(names) :
           names[k] \notin Dots /\ (\A j \in 1 .. Len(names) : names[j] = names[k] => j = k)
             => vfs_get_child_by_name(top, Root, <<names[k]>>) = top.node[Root].childs[k]
    <3>1. names \in Seq(STRING) /\ root.node[Root].childs = <<>>
      BY <1>2, <1>4
    <3> QED BY <2>1, <3>1, AddedFound
  <2> QED BY <2>1, <2>2, <2>3
<1> DEFINE dev == top.node[Root].childs[5]
           tmp == top.node[Root].childs[6]
<1>11. /\ home = top.node[Root].childs[4] /\ vfs_get_child_by_name(top, Root, <<"dev">>) = dev
       /\ vfs_get_child_by_name(top, Root, <<"tmp">>) = tmp
  <2>1. Resolve(top, Root, <<"home">>) = vfs_get_child_by_name(top, Root, <<"home">>)
    <3>1. Root # NULL
      BY DEF Root, NULL
    <3> QED BY <1>7, <3>1, ResolveOne
  <2> QED BY <1>4, <1>7, <1>10, <2>1
<1>12. dev # tmp
  <2>1. Once(top.node[Root].childs) /\ DOMAIN top.node[Root].childs = 1 .. 6
    BY <1>9, KidsAre DEF Tree, Linked, Memory
  <2> QED BY <2>1 DEF Once
<1>13. home \in top.live \ {Root, tmp} /\ {dev, tmp} \subseteq top.live \ {Root} /\ top.node[tmp].childs = <<>>
       /\ top.node[home].childs = <<>> /\ {home, dev, tmp} \subseteq Nodes
  <2>1. Once(top.node[Root].childs) /\ DOMAIN top.node[Root].childs = 1 .. 6 /\ top.live \subseteq Nodes
    BY <1>9, KidsAre DEF Tree, Linked, Memory
  <2>2. home # tmp
    BY <1>11, <2>1, SMTT(30) DEF Once
  <2>3. 4 \in 1 .. 6 /\ 5 \in 1 .. 6 /\ 6 \in 1 .. 6
    OBVIOUS
  <2>4. \A i \in 1 .. 6 : top.node[Root].childs[i] \in top.live \ {Root}
                          /\ top.node[top.node[Root].childs[i]].childs = <<>>
    BY <1>9
  <2>5. home = top.node[Root].childs[4] /\ dev = top.node[Root].childs[5] /\ tmp = top.node[Root].childs[6]
    BY <1>11
  <2> HIDE DEF home, dev, tmp
  <2>6. /\ home \in top.live \ {Root} /\ dev \in top.live \ {Root} /\ tmp \in top.live \ {Root}
        /\ top.node[tmp].childs = <<>> /\ top.node[home].childs = <<>>
    BY <2>3, <2>4, <2>5, Zenon
  <2> QED BY <2>1, <2>2, <2>6
<1> HIDE DEF home, dev, tmp
<1>14. AddedTo(top, home, user, 1, inner)
  <2>1. Cardinality(top.live) + Len(user) <= MaxNodes /\ home \in top.live /\ inner = AddAll(top, home, user, "DIR")
    BY <1>3, <1>4, <1>9, <1>13, SMTT(30)
  <2> HIDE DEF inner
  <2>2. AddedTo(top, home, user, Len(user), inner)
    BY <1>3, <1>4, <1>9, <2>1, AddAllTree
  <2> QED BY <1>4, <2>2
<1> HIDE DEF inner
<1>15. Len(<<>>) = 0
  OBVIOUS
<1>16. /\ Tree(inner) /\ Cardinality(inner.live) = 8 /\ top.live \subseteq inner.live
       /\ NewNode(top) \in inner.live \ top.live
       /\ inner.node[tmp] = top.node[tmp]
  <2>1. Cardinality(inner.live) = 7 + 1
    BY <1>9, <1>14 DEF AddedTo
  <2>2. inner.node[home].childs[0 + 1] = NewNode(top) /\ inner.node[home].childs[0 + 1] \in inner.live \ top.live
    BY <1>13, <1>14, <1>15, SMTT(30) DEF AddedTo
  <2> QED BY <1>13, <1>14, <2>1, <2>2 DEF AddedTo
<1>17. AddedTo(inner, NewNode(top), files, 2, all)
  <2> DEFINE yuun == NewNode(top)
  <2>1. Cardinality(inner.live) + Len(files) <= MaxNodes /\ yuun \in inner.live
    BY <1>3, <1>4, <1>16
  <2>2. all = AddAll(inner, yuun, files, "FILE")
    BY DEF all
  <2> HIDE DEF yuun
  <2>3. AddedTo(inner, yuun, files, Len(files), all)
    BY <1>3, <1>4, <1>16, <2>1, <2>2, AddAllTree
  <2> QED BY <1>4, <2>3 DEF yuun
<1>18. /\ Tree(all) /\ Cardinality(all.live) = 10 /\ inner.live \subseteq all.live /\ all.node[tmp] = top.node[tmp]
  <2>1. Cardinality(all.live) = 8 + 2
    BY <1>16, <1>17 DEF AddedTo
  <2>2. tmp \in inner.live \ {NewNode(top)}
    BY <1>13, <1>16
  <2>3. all.node[tmp] = inner.node[tmp]
    BY <1>17, <2>2 DEF AddedTo
  <2>4. Tree(all) /\ inner.live \subseteq all.live
    BY <1>17 DEF AddedTo
  <2> QED BY <1>16, <2>1, <2>3, <2>4
<1>19. ASSUME NEW token, vfs_get_child_by_name(top, Root, token) # NULL
       PROVE  vfs_get_child_by_name(all, Root, token) = vfs_get_child_by_name(top, Root, token)
  <2>1. vfs_get_child_by_name(inner, Root, token) = vfs_get_child_by_name(top, Root, token)
    BY <1>9, <1>14, <1>19 DEF AddedTo
  <2>2. vfs_get_child_by_name(all, Root, token) = vfs_get_child_by_name(inner, Root, token)
    BY <1>9, <1>16, <1>17, <1>19, <2>1 DEF AddedTo
  <2> QED BY <2>1, <2>2
<1>20. vfs_get_child_by_name(all, Root, <<"tmp">>) = tmp /\ vfs_get_child_by_name(all, Root, <<"dev">>) = dev
  BY <1>11, <1>13, <1>19, NotNull
<1> QED BY <1>1, <1>12, <1>13, <1>16, <1>18, <1>20

\* What boot makes is a tree, and /tmp is an empty directory of it.
LEMMA BootIs ==
    /\ Tree(BootTree) /\ TmpRoot \in BootTree.live \ {Root}
    /\ BootTree.node[TmpRoot].childs = <<>> /\ BootTree.node[TmpRoot].parent = Root
<1>0. Root # NULL /\ "dev" \in STRING /\ "tmp" \in STRING /\ MaxNodes \in Nat /\ 17 <= MaxNodes
      /\ "DIR" \in Types /\ "CDEV" \in Types /\ <<"initrd">> \in Seq(STRING) /\ <<"0">> \in Seq(STRING)
  <2>1. "initrd" \in STRING /\ "0" \in STRING /\ "dev" \in STRING /\ "tmp" \in STRING
    BY VfsNames
  <2>2. <<"initrd">> \in Seq(STRING) /\ <<"0">> \in Seq(STRING)
    BY <2>1, OneName
  <2>3. MaxNodes \in Nat /\ 17 <= MaxNodes
    BY VfsConstants
  <2> QED BY <2>1, <2>2, <2>3 DEF Root, NULL, Types
<1>1. PICK tmp \in vfs_dummy.live : /\ vfs_get_child_by_name(vfs_dummy, Root, <<"tmp">>) = tmp /\ tmp # Root
                                    /\ vfs_dummy.node[tmp].childs = <<>>
                                    /\ vfs_get_child_by_name(vfs_dummy, Root, <<"dev">>) \in vfs_dummy.live \ {tmp, Root}
  BY DummyTree
<1> DEFINE dummy == vfs_dummy
           path == [abs |-> TRUE, names |-> <<"dev">>]
           dev  == vfs_node_from_path(dummy, Root, path)
           coms == <<"com1", "com2", "com3", "com4", "con">>
           t1   == AddAll(dummy, dev, coms, "CDEV")
           d    == NewNode(t1)
           t2   == vfs_add_child(t1, Root, <<"initrd">>, "DIR")
           mod  == NewNode(t2)
           t3   == vfs_add_child(t2, d, <<"0">>, "DIR")
           boot == tar_parse(t3, mod, Archive)
<1>2. BootTree = boot
  BY DEF BootTree, initrd_init, devfs_register_dev
<1>3. dev = vfs_get_child_by_name(dummy, Root, <<"dev">>)
  <2>1. dev = Resolve(dummy, Root, <<"dev">>)
    BY DEF vfs_node_from_path, From
  <2> HIDE DEF dev, dummy
  <2> QED BY <1>0, <2>1, ResolveOne
<1>4. Tree(dummy) /\ Cardinality(dummy.live) = 10 /\ dev \in dummy.live \ {tmp, Root} /\ tmp \in dummy.live \ {Root}
      /\ vfs_get_child_by_name(dummy, Root, <<"tmp">>) = tmp /\ dummy.node[tmp].childs = <<>>
  BY <1>1, <1>3, DummyTree
<1>5. coms \in Seq(STRING) /\ Len(coms) = 5
  BY VfsNames, BootLists
<1> HIDE DEF coms, dev, dummy, boot
<1>6. AddedTo(dummy, dev, coms, 5, t1)
  <2>1. Cardinality(dummy.live) + Len(coms) <= MaxNodes /\ t1 = AddAll(dummy, dev, coms, "CDEV") /\ dev \in dummy.live
    BY <1>0, <1>4, <1>5
  <2> HIDE DEF t1
  <2>2. AddedTo(dummy, dev, coms, Len(coms), t1)
    BY <1>0, <1>4, <1>5, <2>1, AddAllTree
  <2> QED BY <1>5, <2>2
<1> HIDE DEF t1
<1>7. NULL \notin dummy.live
  BY <1>4, NotNull DEF Tree, Memory
<1>8. /\ Tree(t1) /\ Cardinality(t1.live) = 15 /\ Root \in t1.live /\ tmp \in t1.live
      /\ t1.node[tmp].childs = <<>> /\ vfs_get_child_by_name(t1, Root, <<"tmp">>) = tmp
  <2>1. Tree(t1) /\ Cardinality(t1.live) = 10 + 5 /\ dummy.live \subseteq t1.live
    BY <1>4, <1>6 DEF AddedTo
  <2>2. \A m \in dummy.live \ {dev} : t1.node[m] = dummy.node[m]
    BY <1>6 DEF AddedTo
  <2>3. \A q \in dummy.live : \A token : vfs_get_child_by_name(dummy, q, token) # NULL
           => vfs_get_child_by_name(t1, q, token) = vfs_get_child_by_name(dummy, q, token)
    BY <1>6 DEF AddedTo
  <2>4. Root \in dummy.live
    BY <1>4 DEF Tree, Linked
  <2> QED BY <1>4, <1>7, <2>1, <2>2, <2>3, <2>4
<1>9. d = NewNode(t1) /\ mod = NewNode(t2) /\ t2 = vfs_add_child(t1, Root, <<"initrd">>, "DIR")
      /\ t3 = vfs_add_child(t2, d, <<"0">>, "DIR")
  OBVIOUS
<1> HIDE DEF d, t2, mod, t3
<1>10. NULL \notin t1.live /\ tmp # NULL
  BY <1>8, NotNull DEF Tree, Memory
<1>11. /\ Tree(t2) /\ d \in Nodes \ t1.live /\ t2.live = t1.live \cup {d} /\ Cardinality(t2.live) = 16
       /\ t2.node[tmp].childs = <<>> /\ vfs_get_child_by_name(t2, Root, <<"tmp">>) = tmp
       /\ t2.node[d].childs = <<>>
  <2> DEFINE name == <<"initrd">>
  <2>1. Cardinality(t1.live) < MaxNodes /\ name \in Seq(STRING) /\ t2 = vfs_add_child(t1, Root, name, "DIR")
    BY <1>0, <1>8, <1>9
  <2> HIDE DEF name
  <2>2. /\ Tree(t2) /\ d \in Nodes \ t1.live /\ t2.live = t1.live \cup {d}
        /\ Cardinality(t2.live) = Cardinality(t1.live) + 1
        /\ t2.node[d] = vfs_create_node(Root, name, "DIR")
        /\ \A m \in t1.live \ {Root} : t2.node[m] = t1.node[m]
        /\ \A q \in t1.live : \A token : vfs_get_child_by_name(t1, q, token) # NULL
             => vfs_get_child_by_name(t2, q, token) = vfs_get_child_by_name(t1, q, token)
    BY <1>0, <1>8, <1>9, <2>1, AddGrows
  <2>3. t2.node[d].childs = <<>>
    BY <2>2 DEF vfs_create_node
  <2> QED BY <1>4, <1>8, <1>10, <2>2, <2>3
<1>12. /\ Tree(t3) /\ mod \in Nodes \ t2.live /\ t3.live = t2.live \cup {mod} /\ Cardinality(t3.live) = 17
       /\ t3.node[tmp].childs = <<>> /\ vfs_get_child_by_name(t3, Root, <<"tmp">>) = tmp
       /\ t3.node[mod].childs = <<>> /\ t3.node[mod].parent = d
  <2> DEFINE name == <<"0">>
  <2>1. Cardinality(t2.live) < MaxNodes /\ name \in Seq(STRING) /\ t3 = vfs_add_child(t2, d, name, "DIR") /\ d \in t2.live
    BY <1>0, <1>9, <1>11
  <2> HIDE DEF name
  <2>2. /\ Tree(t3) /\ mod \in Nodes \ t2.live /\ t3.live = t2.live \cup {mod}
        /\ Cardinality(t3.live) = Cardinality(t2.live) + 1
        /\ t3.node[mod] = vfs_create_node(d, name, "DIR")
        /\ \A m \in t2.live \ {d} : t3.node[m] = t2.node[m]
        /\ \A q \in t2.live : \A token : vfs_get_child_by_name(t2, q, token) # NULL
             => vfs_get_child_by_name(t3, q, token) = vfs_get_child_by_name(t2, q, token)
    BY <1>0, <1>9, <1>11, <2>1, AddGrows
  <2>3. t3.node[mod].childs = <<>> /\ t3.node[mod].parent = d
    BY <2>2 DEF vfs_create_node
  <2>4. tmp \in t2.live \ {d} /\ Root \in t2.live
    BY <1>8, <1>11
  <2> QED BY <1>10, <1>11, <2>2, <2>3, <2>4
<1> DEFINE K == t3.live \ {mod}
<1>13. /\ K = t2.live /\ d \in K /\ Root \in K /\ tmp \in K /\ mod \in t3.live \ K
       /\ t3 \in Memory /\ t3.live \in SUBSET Nodes
  BY <1>8, <1>11, <1>12 DEF Tree, Memory
<1>14. \A m \in K : t3.node[m].parent \in K
  <2>1. Kids(t3, mod) = {}
    BY <1>12 DEF Kids
  <2>2. \A m \in t3.live \ {Root} : t3.node[m].parent \in t3.live /\ m \in Kids(t3, t3.node[m].parent)
    BY <1>12 DEF Tree, Linked
  <2>3. t3.node[Root].parent = Root
    BY <1>12 DEF Tree, Linked, IsRoot
  <2> QED BY <1>13, <2>1, <2>2, <2>3
<1> HIDE DEF K
<1>15. Inside(t3, mod, K, t3, 17)
  BY <1>12, <1>13, <1>14 DEF Inside, K
<1>16. Inside(boot, mod, K, t3, MaxNodes)
  <2>1. boot = tar_parse(t3, mod, Archive)
    BY DEF boot
  <2> QED BY <1>15, <2>1, TarInside
<1>17. Tree(boot) /\ boot \in Memory /\ K \subseteq boot.live /\ \A m \in K : boot.node[m] = t3.node[m]
  BY <1>16 DEF Inside, Tree
<1>18. Root \in Nodes /\ \A c \in Kids(t3, Root) : c \in K
  <2>1. \A c \in Kids(t3, Root) : c \in t3.live /\ t3.node[c].parent = Root
    BY <1>12 DEF Tree, Linked
  <2>2. d # Root
    BY <1>8, <1>11
  <2> QED BY <1>12, <1>13, <2>1, <2>2 DEF K
<1>19. \A token : vfs_get_child_by_name(boot, Root, token) = vfs_get_child_by_name(t3, Root, token)
  BY <1>13, <1>17, <1>18, SameChild
<1>20. vfs_get_child_by_name(boot, Root, <<"tmp">>) = tmp
  BY <1>12, <1>19
<1>21. TmpRoot = tmp
  <2>1. TmpRoot = Resolve(boot, Root, <<"tmp">>)
    BY <1>2 DEF TmpRoot, vfs_node_from_path, From
  <2> QED BY <1>0, <1>20, <2>1, ResolveOne
<1>22. tmp \in boot.live \ {Root} /\ boot.node[tmp].childs = <<>>
  BY <1>4, <1>12, <1>13, <1>17
<1>23. boot.node[tmp].parent = Root
  <2> DEFINE token == <<"tmp">>
  <2>1. token \notin {<<".">>, <<"..">>} /\ vfs_get_child_by_name(boot, Root, token) = tmp
    BY <1>20, OneToken
  <2>2. Root \in boot.live
    BY <1>17 DEF Tree, Linked
  <2> HIDE DEF token
  <2>3. tmp \in Kids(boot, Root)
    BY <1>10, <1>17, <2>1, <2>2, ChildLive
  <2> QED BY <1>17, <2>2, <2>3 DEF Tree, Linked
<1> QED BY <1>2, <1>17, <1>21, <1>22, <1>23

----------------------------------------------------------------------------
(* One tree: a partition is mounted *)

\* What the first k entries of a partition make of the tree t: new nodes below
\* the mount point, whose own links to its parent stay.
Filled(t, mtpt, entries, k, s) ==
    /\ Tree(s.t) /\ s = [t |-> s.t, ids |-> s.ids] /\ t.live \subseteq s.t.live
    /\ Cardinality(s.t.live) <= Cardinality(t.live) + k
    /\ \A m \in t.live \ {mtpt} : s.t.node[m] = t.node[m]
    /\ s.t.node[mtpt].name = t.node[mtpt].name /\ s.t.node[mtpt].parent = t.node[mtpt].parent
    /\ \A m : Visible(t, m) => Visible(s.t, m)
    /\ s.ids \in Seq(Nodes \cup {NULL}) /\ Len(s.ids) = k
    /\ \A i \in 1 .. k : entries[i].name \notin Dots =>
          /\ s.ids[i] \in s.t.live \ t.live
          /\ entries[i].up = 0 => s.t.node[mtpt].childs # <<>>

\* The first j entries of a listing.
EntriesTo(entries, j) ==
    \A i \in 1 .. j : /\ entries[i].name \in STRING /\ entries[i].type \in Types /\ entries[i].ox \in BOOLEAN
                      /\ entries[i].up \in 0 .. i - 1
                      /\ entries[i].up # 0 => entries[entries[i].up].name \notin Dots

\* The node of an entry.
LEMMA ListedNode ==
    ASSUME NEW v, Tree(v), NEW p \in v.live, NEW name \in Seq(STRING), NEW type \in Types, NEW ox \in BOOLEAN,
           Cardinality(v.live) < MaxNodes, NEW n, n = NewNode(v), NEW w, w = vfs_add_child(v, p, name, type),
           NEW x, x = Permitted(w, n, ox)
    PROVE  /\ Tree(x) /\ n \in Nodes \ v.live /\ x.live = v.live \cup {n}
           /\ Cardinality(x.live) = Cardinality(v.live) + 1
           /\ x.node[p].childs = Append(v.node[p].childs, n) /\ x.node[p].parent = v.node[p].parent
           /\ x.node[p].name = v.node[p].name
           /\ \A m \in v.live \ {p} : x.node[m] = v.node[m]
           /\ \A m : Visible(v, m) => Visible(x, m)
<1>1. /\ Tree(w) /\ n \in Nodes \ v.live /\ w.live = v.live \cup {n}
      /\ Cardinality(w.live) = Cardinality(v.live) + 1
      /\ w.node[p].childs = Append(v.node[p].childs, n) /\ w.node[p].parent = v.node[p].parent
      /\ w.node[p].name = v.node[p].name
      /\ \A m \in v.live \ {p} : w.node[m] = v.node[m]
      /\ \A m : Visible(v, m) => Visible(w, m)
  BY AddGrows
<1>2. n \in w.live /\ Tree(w)
  BY <1>1
<1>3. /\ Tree(x) /\ x.live = w.live /\ \A m \in Nodes \ {n} : x.node[m] = w.node[m]
      /\ \A m : Visible(w, m) => Visible(x, m)
  BY <1>2, PermittedTree
<1>4. v.live \subseteq Nodes \ {n}
  BY <1>1 DEF Tree, Memory
<1> QED BY <1>1, <1>3, <1>4

\* One more entry.
LEMMA ListedFills ==
    ASSUME NEW t, Tree(t), NEW mtpt \in t.live, NEW entries, NEW k \in Nat, NEW j, j = k + 1,
           EntriesTo(entries, j), Cardinality(t.live) + k < MaxNodes,
           NEW s, Filled(t, mtpt, entries, k, s), NEW r, r = Listed(s, mtpt, entries[j])
    PROVE  Filled(t, mtpt, entries, j, r)
<1> DEFINE e == entries[j]
<1>1. /\ e.name \in STRING /\ e.type \in Types /\ e.ox \in BOOLEAN /\ e.up \in 0 .. k
      /\ e.up # 0 => entries[e.up].name \notin Dots
  <2>1. j \in 1 .. j /\ j - 1 = k
    OBVIOUS
  <2> QED BY <2>1 DEF EntriesTo
<1>2. /\ Tree(s.t) /\ s = [t |-> s.t, ids |-> s.ids] /\ t.live \subseteq s.t.live
      /\ Cardinality(s.t.live) <= Cardinality(t.live) + k
      /\ \A m \in t.live \ {mtpt} : s.t.node[m] = t.node[m]
      /\ s.t.node[mtpt].name = t.node[mtpt].name /\ s.t.node[mtpt].parent = t.node[mtpt].parent
      /\ s.ids \in Seq(Nodes \cup {NULL}) /\ Len(s.ids) = k
  BY DEF Filled
<1>3. \A m : Visible(t, m) => Visible(s.t, m)
  BY DEF Filled
<1>4. \A i \in 1 .. k : entries[i].name \notin Dots =>
          /\ s.ids[i] \in s.t.live \ t.live
          /\ entries[i].up = 0 => s.t.node[mtpt].childs # <<>>
  BY DEF Filled
<1>5. Cardinality(s.t.live) \in Nat /\ Cardinality(t.live) \in Nat /\ MaxNodes \in Nat
  BY <1>2, RoomLeft, VfsConstants DEF Tree
<1> HIDE DEF e
<1>6. CASE e.name \in Dots
  <2> DEFINE v == s.t
             ids == s.ids
  <2>1. r = [s EXCEPT !.ids = Append(@, NULL)]
    BY <1>6 DEF Listed, e
  <2>2. r = [t |-> v, ids |-> Append(ids, NULL)]
    BY <1>2, <2>1
  <2>3. r.t = v /\ r.ids = Append(ids, NULL) /\ r = [t |-> r.t, ids |-> r.ids]
    BY <2>2
  <2>4. ids \in Seq(Nodes \cup {NULL}) /\ Len(ids) = k
    BY <1>2
  <2>5. r.ids \in Seq(Nodes \cup {NULL}) /\ Len(r.ids) = j /\ \A i \in 1 .. k : r.ids[i] = ids[i]
    <3> HIDE DEF ids
    <3> QED BY <2>3, <2>4
  <2>6. Cardinality(r.t.live) <= Cardinality(t.live) + j
    BY <1>2, <1>5, <2>3
  <2>7. ASSUME NEW i \in 1 .. j, entries[i].name \notin Dots
        PROVE  r.ids[i] \in r.t.live \ t.live /\ (entries[i].up = 0 => r.t.node[mtpt].childs # <<>>)
    <3>1. i \in 1 .. k
      BY <1>6, <2>7 DEF e
    <3> QED BY <1>4, <2>3, <2>5, <2>7, <3>1
  <2> HIDE DEF v, ids
  <2>8. v = s.t
    BY DEF v
  <2> QED BY <1>2, <1>3, <2>3, <2>5, <2>6, <2>7, <2>8 DEF Filled
<1>7. CASE e.name \notin Dots
  <2> DEFINE v == s.t
             n == NewNode(v)
             p == IF e.up = 0 THEN mtpt ELSE s.ids[e.up]
             name == <<e.name>>
             type == e.type
             w == vfs_add_child(v, p, name, type)
             x == [w EXCEPT !.node[n].ox = e.ox]
  <2>1. r = [t |-> x, ids |-> Append(s.ids, n)]
    BY <1>7 DEF Listed, e
  <2>2. name \in Seq(STRING) /\ type \in Types /\ Tree(v) /\ Cardinality(v.live) < MaxNodes
    BY <1>1, <1>2, <1>5, OneName
  <2>3. p \in v.live /\ (e.up # 0 => p \notin t.live)
    <3>1. CASE e.up = 0
      BY <1>2, <3>1
    <3>2. CASE e.up # 0
      <4>1. e.up \in 1 .. k
        BY <1>1, <3>2
      <4> QED BY <1>1, <1>4, <3>2, <4>1
    <3> QED BY <3>1, <3>2
  <2>4. n = NewNode(v) /\ w = vfs_add_child(v, p, name, type) /\ x = Permitted(w, n, e.ox)
        /\ (e.up = 0 => p = mtpt) /\ v = s.t
    BY DEF Permitted
  <2> HIDE DEF v, n, p, name, type, w, x
  <2>5. name \in Seq(STRING) /\ type \in Types /\ Tree(v) /\ Cardinality(v.live) < MaxNodes /\ p \in v.live
        /\ e.ox \in BOOLEAN /\ n = NewNode(v) /\ w = vfs_add_child(v, p, name, type) /\ x = Permitted(w, n, e.ox)
    BY <1>1, <2>2, <2>3, <2>4
  <2>6. /\ Tree(x) /\ n \in Nodes \ v.live /\ x.live = v.live \cup {n}
        /\ Cardinality(x.live) = Cardinality(v.live) + 1
        /\ x.node[p].childs = Append(v.node[p].childs, n) /\ x.node[p].parent = v.node[p].parent
        /\ x.node[p].name = v.node[p].name
        /\ \A m \in v.live \ {p} : x.node[m] = v.node[m]
        /\ \A m : Visible(v, m) => Visible(x, m)
    BY <2>5, ListedNode, SMTT(30)
  <2>7. v.live \subseteq Nodes \ {n} /\ mtpt \in v.live /\ t.live \subseteq v.live /\ v \in Memory
    BY <1>2, <2>2, <2>4, <2>6 DEF Tree, Memory
  <2>8. r.t = x /\ r.ids = Append(s.ids, n) /\ r = [t |-> r.t, ids |-> r.ids]
    BY <2>1
  <2>9. r.ids \in Seq(Nodes \cup {NULL}) /\ Len(r.ids) = j /\ r.ids[j] = n /\ \A i \in 1 .. k : r.ids[i] = s.ids[i]
    <3> DEFINE ids == s.ids
    <3>1. ids \in Seq(Nodes \cup {NULL}) /\ Len(ids) = k /\ r.ids = Append(ids, n) /\ n \in Nodes
      BY <1>2, <2>6, <2>8
    <3> HIDE DEF ids
    <3>2. r.ids \in Seq(Nodes \cup {NULL}) /\ Len(r.ids) = j /\ r.ids[j] = n /\ \A i \in 1 .. k : r.ids[i] = ids[i]
      BY <3>1
    <3> QED BY <3>2 DEF ids
  <2>10. \A m \in t.live \ {mtpt} : x.node[m] = t.node[m]
    <3> SUFFICES ASSUME NEW m \in t.live \ {mtpt} PROVE x.node[m] = t.node[m]
      OBVIOUS
    <3>1. m # p
      BY <2>3, <2>4
    <3>2. x.node[m] = v.node[m] /\ v.node[m] = t.node[m]
      BY <1>2, <2>4, <2>6, <2>7, <3>1
    <3> QED BY <3>2
  <2>11. x.node[mtpt].name = v.node[mtpt].name /\ x.node[mtpt].parent = v.node[mtpt].parent
    BY <2>6, <2>7
  <2>12. e.up = 0 \/ v.node[mtpt].childs # <<>> => x.node[mtpt].childs # <<>>
    <3>1. v.node[p].childs \in Seq(Nodes)
      BY <2>3, <2>7, KidsAre
    <3>2. x.node[p].childs # <<>>
      <4> DEFINE c == v.node[p].childs
      <4>1. c \in Seq(Nodes) /\ x.node[p].childs = Append(c, n) /\ n \in Nodes
        BY <2>6, <3>1
      <4> HIDE DEF c
      <4>2. Append(c, n) # <<>>
        BY <4>1
      <4> QED BY <4>1, <4>2
    <3>3. mtpt # p => x.node[mtpt] = v.node[mtpt]
      BY <2>6, <2>7
    <3> QED BY <2>4, <3>2, <3>3
  <2>13. ASSUME NEW i \in 1 .. j, entries[i].name \notin Dots
         PROVE  r.ids[i] \in x.live \ t.live /\ (entries[i].up = 0 => x.node[mtpt].childs # <<>>)
    <3>1. CASE i = j
      BY <2>6, <2>7, <2>9, <2>12, <3>1 DEF e
    <3>2. CASE i # j
      <4>1. i \in 1 .. k
        BY <3>2
      <4>2. s.ids[i] \in v.live \ t.live /\ (entries[i].up = 0 => v.node[mtpt].childs # <<>>)
        BY <1>4, <2>4, <2>13, <4>1
      <4> QED BY <2>6, <2>9, <2>12, <4>1, <4>2
    <3> QED BY <3>1, <3>2
  <2>14. Cardinality(x.live) <= Cardinality(t.live) + j
    <3>1. Cardinality(x.live) = Cardinality(v.live) + 1 /\ Cardinality(v.live) <= Cardinality(t.live) + k
          /\ Cardinality(v.live) \in Nat
      BY <1>2, <1>5, <2>4, <2>6
    <3> QED BY <1>5, <3>1
  <2>15. t.live \subseteq x.live /\ \A m : Visible(t, m) => Visible(x, m)
    BY <1>3, <2>4, <2>6, <2>7
  <2>16. x.node[mtpt].name = t.node[mtpt].name /\ x.node[mtpt].parent = t.node[mtpt].parent
    BY <1>2, <2>4, <2>11
  <2> QED BY <2>6, <2>8, <2>9, <2>10, <2>13, <2>14, <2>15, <2>16, ZenonT(40) DEF Filled
<1> QED BY <1>6, <1>7

\* All entries.
LEMMA PopulateTree ==
    ASSUME NEW t, Tree(t), NEW mtpt \in t.live, NEW entries, Len(entries) \in Nat, IsListing(entries),
           DOMAIN entries = 1 .. Len(entries), Cardinality(t.live) + Len(entries) <= MaxNodes,
           NEW u, u = vfs_ext2_populate(t, mtpt, entries)
    PROVE  /\ Tree(u) /\ t.live \subseteq u.live
           /\ \A m \in t.live \ {mtpt} : u.node[m] = t.node[m]
           /\ u.node[mtpt].name = t.node[mtpt].name /\ u.node[mtpt].parent = t.node[mtpt].parent
           /\ \A m : Visible(t, m) => Visible(u, m)
           /\ \A i \in DOMAIN entries : entries[i].up = 0 /\ entries[i].name \notin Dots => u.node[mtpt].childs # <<>>
<1> DEFINE N == Len(entries)
<1>1. N \in Nat /\ Len(entries) = N /\ DOMAIN entries = 1 .. N /\ Cardinality(t.live) + N <= MaxNodes
      /\ MaxNodes \in Nat /\ Cardinality(t.live) \in Nat
  BY VfsConstants, RoomLeft DEF Tree
<1> HIDE DEF N
<1>0. PICK f : FillTrace(t, mtpt, entries, N, f)
  <2>1. N \in Nat
    BY <1>1
  <2> QED BY <2>1, PopulateIs, Zenon
<1>2. /\ (Len(entries) = N => vfs_ext2_populate(t, mtpt, entries) = f[Len(entries)].t)
               /\ f[0] = [t |-> t, ids |-> <<>>]
               /\ \A k \in 1 .. N : f[k] = Listed(f[k - 1], mtpt, entries[k])
  BY <1>0 DEF FillTrace
<1> DEFINE S == {k \in 0 .. N : Filled(t, mtpt, entries, k, f[k])}
<1>3. 0 \in S
  <2>1. f[0].t = t /\ f[0].ids = <<>> /\ f[0] = [t |-> f[0].t, ids |-> f[0].ids]
    BY <1>2
  <2>2. <<>> \in Seq(Nodes \cup {NULL}) /\ Len(<<>>) = 0 /\ Cardinality(t.live) <= Cardinality(t.live) + 0
    BY <1>1
  <2>3. Filled(t, mtpt, entries, 0, f[0])
    BY <2>1, <2>2 DEF Filled
  <2> QED BY <1>1, <2>3
<1>4. \A k \in 1 .. N : k - 1 \in S => k \in S
  <2> SUFFICES ASSUME NEW k \in 1 .. N, k - 1 \in S PROVE k \in S
    OBVIOUS
  <2> DEFINE i == k - 1
             s == f[i]
             r == f[k]
  <2>1. i \in Nat /\ k = i + 1 /\ Cardinality(t.live) + i < MaxNodes
    BY <1>1
  <2>2. Filled(t, mtpt, entries, i, s) /\ r = Listed(s, mtpt, entries[k])
    BY <1>2
  <2>3. EntriesTo(entries, k)
    BY <1>1 DEF IsListing, EntriesTo
  <2> HIDE DEF i, s, r
  <2>4. Filled(t, mtpt, entries, k, r)
    BY <2>1, <2>2, <2>3, ListedFills
  <2> QED BY <1>1, <2>4 DEF r
<1> HIDE DEF S
<1>5. \A k \in 0 .. N : k \in S
  BY <1>1, <1>3, <1>4, UpTo
<1>6. N \in S /\ u = f[N].t
  BY <1>1, <1>2, <1>5
<1>7. Filled(t, mtpt, entries, N, f[N])
  BY <1>6 DEF S
<1> DEFINE s == f[N]
<1>8. Filled(t, mtpt, entries, N, s) /\ u = s.t
  BY <1>6, <1>7
<1> HIDE DEF s
<1> QED BY <1>1, <1>8 DEF Filled

----------------------------------------------------------------------------
(* The inductive invariant *)

\* A look-up: strtok has handed out the token and keeps the rest.
Token == {<<>>} \cup {<<s>> : s \in STRING}
Walk == [pc : {"walk"}, for : {"setcwd", "run", "exec"}, node : Nodes \cup {NULL}, token : Token,
         goal : Nodes \cup {NULL}, torn : BOOLEAN]

\* The tree and the tables that name its nodes.
Held ==
    /\ machine \in Machines /\ Tree(tree)
    /\ mtpts \in [Parts -> Nodes \cup {NULL}]
    /\ local \in Nodes /\ cwd \in [Tasks \cup {Shell} -> Nodes]

\* Programs only run while the shell's directory is allocated, and an absent one
\* leaves no directory behind.
Walking ==
    /\ walk \in [Tasks -> {Absent, Idle} \cup Walk] /\ tok \in Seq(STRING)
    /\ \A x \in Tasks : walk[x] \in Walk => walk[x].node \in tree.live \cup {NULL}
    /\ \A x \in Tasks : walk[x] # Absent => ~lost
    /\ \A x \in Tasks : walk[x] = Absent => cwd[x] = Root
    /\ WalkOnTrack

\* The shell stands where the path of its directory leads.
Standing ==
    ~lost => /\ Visible(tree, local) /\ local = cwd[Shell]
             /\ \A x \in Tasks : cwd[x] \in tree.live

\* A mount point has children, so that no second partition goes there.
Full == \A q \in machine.parts : ~Bare(q)
Mounted ==
    /\ \A p \in Parts \ orphan : mtpts[p] # NULL => mtpts[p] \in tree.live
    /\ Full => \A p \in Parts \ orphan : mtpts[p] # NULL =>
                  /\ tree.node[mtpts[p]].type = "MTPT" /\ tree.node[mtpts[p]].childs # <<>>
                  /\ \A q \in Parts \ (orphan \cup {p}) : mtpts[q] # mtpts[p]

\* What boot made stays, with its parents; a partition is mounted on a node that
\* boot gave no children.
Confined ==
    /\ BootTree.live \subseteq tree.live
    /\ \A n \in BootTree.live : tree.node[n].parent = BootTree.node[n].parent
    /\ \A p \in Parts : mtpts[p] \in BootTree.live => BootTree.node[mtpts[p]].childs = <<>>
    /\ TmpConfined

VfsInv == Held /\ Walking /\ Standing /\ Mounted /\ Confined

----------------------------------------------------------------------------
(* What the constants are, and the initial states *)

\* The paths that users name.
LEMMA PathsAre ==
    ASSUME machine \in Machines, NEW path \in machine.paths
    PROVE  IsPath(path) /\ path.abs \in BOOLEAN /\ path.names \in Seq(STRING)
<1>1. IsPath(path)
  BY VfsConstants
<1> DEFINE names == path.names
<1>2. names \in Seq(STRING \ {""})
  BY <1>1 DEF IsPath
<1> HIDE DEF names
<1>3. names \in Seq(STRING)
  BY <1>2, NamesAre
<1> QED BY <1>1, <1>3 DEF IsPath, names

\* The shell is no program.
LEMMA ShellApart == Shell \notin Tasks /\ Tasks \subseteq STRING
<1>1. Programs \in Seq(STRING \ {Shell})
  BY VfsConstants
<1> QED BY <1>1, NamesAre DEF Tasks, ToSet

\* The programs that may run at a time.
LEMMA UsersAre ==
    ASSUME machine \in Machines
    PROVE  Users \subseteq Tasks /\ (machine.users > 0 => Head(Programs) \in Tasks)
<1>1. Programs \in Seq(STRING \ {Shell}) /\ machine.users \in 0 .. Len(Programs)
  BY VfsConstants
<1>2. DOMAIN Programs = 1 .. Len(Programs) /\ Len(Programs) \in Nat
  BY <1>1
<1>3. machine.users > 0 => Programs[1] = Head(Programs) /\ 1 \in DOMAIN Programs
  BY <1>1, <1>2
<1> QED BY <1>1, <1>2, <1>3 DEF Users, Tasks, ToSet

\* The root is found by its path, which is empty.
LEMMA RootVisible == ASSUME NEW t, Tree(t) PROVE Visible(t, Root)
<1>1. Root \in t.live
  BY DEF Tree, Linked
<1>2. Shown(t, {Root})
  BY DEF Shown
<1> QED BY <1>1, <1>2 DEF Visible

\* The states that boot leaves.
LEMMA VfsStart == Init => VfsInv
<1> SUFFICES ASSUME Init PROVE VfsInv
  OBVIOUS
<1>1. Tree(BootTree) /\ tree = BootTree /\ Tree(tree)
  BY BootIs DEF Init
<1>2. Root \in tree.live /\ Root \in Nodes /\ tree.live \in SUBSET Nodes /\ NULL \notin Nodes
  BY <1>1, NotNull DEF Tree, Linked, Memory
<1>3. Held
  BY <1>1, <1>2 DEF Init, Held
<1>4. Standing
  BY <1>1, <1>2, RootVisible DEF Init, Standing
<1>5. Walking
  <2>1. walk \in [Tasks -> {Absent}] /\ lost = FALSE /\ \A x \in Tasks : walk[x] = Absent /\ cwd[x] = Root
    BY DEF Init
  <2>2. \A w \in Walk : w # Absent
    BY DEF Walk, Absent
  <2>3. Absent.pc # "walk"
    BY DEF Absent
  <2>4. <<>> \in Seq(STRING) /\ tok = <<>>
    BY DEF Init
  <2>5. walk \in [Tasks -> {Absent, Idle} \cup Walk]
    BY <2>1
  <2>6. WalkOnTrack
    BY <2>1, <2>3 DEF WalkOnTrack
  <2> QED BY <2>1, <2>2, <2>4, <2>5, <2>6 DEF Walking
<1>6. Mounted
  BY DEF Init, Mounted
<1>7. Confined
  BY <1>1, <1>2 DEF Init, Confined, TmpConfined
<1> QED BY <1>3, <1>4, <1>5, <1>6, <1>7 DEF VfsInv

\* What is said of the programs stays when there are none.
LEMMA Resting ==
    ASSUME VfsInv, NoProgram, walk' = walk, tok' = tok, \A x \in Tasks : cwd'[x] = cwd[x]
    PROVE  Walking'
<1>1. \A x \in Tasks : walk[x] = Absent
  BY DEF NoProgram
<1>2. Absent.pc # "walk" /\ \A w \in Walk : w # Absent
  BY DEF Absent, Walk
<1>3. WalkOnTrack'
  BY <1>1, <1>2 DEF WalkOnTrack
<1> QED BY <1>1, <1>2, <1>3 DEF Walking, VfsInv

\* The directories of the programs, when there are none.
LEMMA RestingDirs ==
    ASSUME VfsInv, NoProgram
    PROVE  \A x \in Tasks : cwd[x] = Root
BY DEF NoProgram, VfsInv, Walking

\* What is below a node that boot gave no children, boot did not make.
LEMMA BootOutside ==
    ASSUME VfsInv, NEW n \in tree.live, n \in BootTree.live => BootTree.node[n].childs = <<>>
    PROVE  Below(tree, n) \cap BootTree.live = {}
<1> DEFINE K == BootTree.live
<1>1. Tree(tree) /\ K \in SUBSET tree.live /\ \A m \in K : tree.node[m].parent = BootTree.node[m].parent
  BY DEF VfsInv, Held, Confined
<1>2. /\ Tree(BootTree) /\ TmpRoot \in K \ {Root} /\ BootTree.node[TmpRoot].parent = Root
  BY BootIs
<1>3. /\ Root \in K /\ BootTree.node[Root].parent = Root
      /\ \A m \in K \ {Root} : BootTree.node[m].parent \in K /\ m \in Kids(BootTree, BootTree.node[m].parent)
  BY <1>2 DEF Tree, Linked, IsRoot
<1>4. n \in K => Kids(BootTree, n) = {}
  BY DEF Kids
<1>5. \A m \in K : BootTree.node[m].parent \in K \ {n}
  <2>1. n # Root
    BY <1>2, <1>3, <1>4
  <2> QED BY <1>3, <1>4, <2>1
<1>6. \A m \in K : tree.node[m].parent \in K \ {n}
  BY <1>1, <1>5
<1> HIDE DEF K
<1>7. Below(tree, n) \cap K = {}
  BY <1>1, <1>6, BelowOutside
<1> QED BY <1>7 DEF K

\* tmpfs_create names its directory at the root of tmpfs or below it.
LEMMA CreateBelow ==
    ASSUME VfsInv, NEW names \in Seq(STRING), ".." \notin {names[i] : i \in DOMAIN names},
           Resolve(tree, TmpRoot, names) # NULL
    PROVE  /\ Resolve(tree, TmpRoot, names) \in tree.live
           /\ Resolve(tree, TmpRoot, names) \notin BootTree.live \ {TmpRoot}
<1>1. Tree(tree) /\ BootTree.live \subseteq tree.live
  BY DEF VfsInv, Held, Confined
<1>2. TmpRoot \in BootTree.live /\ BootTree.node[TmpRoot].childs = <<>> /\ TmpRoot \in tree.live
  BY <1>1, BootIs
<1> DEFINE n == TmpRoot
           S == Below(tree, n) \cup {n}
<1>3. n \in tree.live /\ n \in Nodes /\ tree \in Memory /\ n = TmpRoot
  BY <1>1, <1>2 DEF Tree, Memory
<1>4. Below(tree, n) \cap BootTree.live = {}
  BY <1>2, BootOutside
<1> HIDE DEF n
<1>5. /\ S \subseteq tree.live /\ \A m \in S : Kids(tree, m) \subseteq S
  <2>1. Below(tree, n) \subseteq tree.live
    BY <1>1, <1>3, BelowTree
  <2>2. Kids(tree, n) \subseteq Below(tree, n) /\ \A m \in Below(tree, n) : Kids(tree, m) \subseteq Below(tree, n)
    BY <1>3, BelowIs DEF Closed
  <2> QED BY <1>3, <2>1, <2>2
<1>6. \A m \in S : \A i \in DOMAIN names : vfs_get_child_by_name(tree, m, <<names[i]>>) \in S \cup {NULL}
  <2> SUFFICES ASSUME NEW m \in S, NEW i \in DOMAIN names
               PROVE  vfs_get_child_by_name(tree, m, <<names[i]>>) \in S \cup {NULL}
    OBVIOUS
  <2> DEFINE token == <<names[i]>>
  <2>1. token # <<"..">>
    BY OneToken
  <2>2. m \in tree.live /\ m \in Nodes
    BY <1>5, <1>3 DEF Memory
  <2> HIDE DEF token
  <2>3. token \notin {<<".">>, <<"..">>} => vfs_get_child_by_name(tree, m, token) \in Kids(tree, m) \cup {NULL}
    BY <1>1, <2>2, ChildLive
  <2>4. token = <<".">> => vfs_get_child_by_name(tree, m, token) = m
    BY <1>3, <2>2, ChildIs
  <2>5. vfs_get_child_by_name(tree, m, token) \in S \cup {NULL}
    BY <1>5, <2>1, <2>3, <2>4
  <2> QED BY <2>5 DEF token
<1>7. n \in S
  OBVIOUS
<1>8. S \cap BootTree.live \subseteq {n}
  BY <1>4
<1> HIDE DEF S
<1>9. Resolve(tree, n, names) \in S \cup {NULL}
  BY <1>6, <1>7, ResolveIn
<1> QED BY <1>3, <1>5, <1>8, <1>9

----------------------------------------------------------------------------
(* The steps that change the tree *)

\* What a step has to show when the tree only grows: nodes stay, the shell's
\* directory is still found.
LEMMA Grown ==
    ASSUME VfsInv, NoProgram, tree.live \subseteq tree'.live, \A m : Visible(tree, m) => Visible(tree', m),
           UNCHANGED <<local, cwd, tok, walk, lost>>
    PROVE  Walking' /\ Standing'
<1>1. Walking'
  BY Resting
<1>2. Standing'
  BY DEF Standing, VfsInv
<1> QED BY <1>1, <1>2

\* All components but the last, and the last.
LEMMA FrontIs ==
    ASSUME NEW T, NEW s \in Seq(T), s # <<>>
    PROVE  /\ Front(s) \in Seq(T) /\ Last(s) \in T
           /\ \A i \in DOMAIN Front(s) : i \in DOMAIN s /\ Front(s)[i] = s[i]
<1>1. Len(s) \in Nat /\ Len(s) > 0 /\ DOMAIN s = 1 .. Len(s) /\ \A i \in 1 .. Len(s) : s[i] \in T
  OBVIOUS
<1> DEFINE N == Len(s) - 1
<1>2. N \in Nat /\ N < Len(s)
  BY <1>1
<1>3. Last(s) \in T
  BY <1>1 DEF Last
<1>4. Front(s) = [i \in 1 .. N |-> s[i]]
  BY <1>1, <1>2 DEF Front
<1> HIDE DEF N
<1>5. [i \in 1 .. N |-> s[i]] \in Seq(T)
  BY <1>1, <1>2, SeqDef
<1>6. \A i \in 1 .. N : i \in 1 .. Len(s)
  BY <1>1, <1>2
<1> QED BY <1>1, <1>3, <1>4, <1>5, <1>6

\* tmpfs_create: one more node, below the root of tmpfs.
LEMMA CreateKeeps ==
    ASSUME VfsInv, NEW path \in TmpPaths, NEW type \in {"FILE", "DIR"}, tmpfs_create(path, type)
    PROVE  VfsInv'
<1> DEFINE all == path.names
           names == Front(all)
           name == <<Last(all)>>
           parent == Resolve(tree, TmpRoot, names)
           n == NewNode(tree)
<1>1. Tree(tree) /\ tree \in Memory /\ tree.live \in SUBSET Nodes
  BY DEF VfsInv, Held, Tree, Memory
<1>2. all \in Seq(STRING \ {""}) /\ all # <<>> /\ ".." \notin ToSet(all)
  BY VfsConstants DEF tmpfs_create, IsPath
<1>3. names \in Seq(STRING) /\ name \in Seq(STRING) /\ ".." \notin {names[i] : i \in DOMAIN names}
  <2> HIDE DEF all
  <2>1. all \in Seq(STRING)
    BY <1>2, NamesAre
  <2>2. Front(all) \in Seq(STRING) /\ Last(all) \in STRING
        /\ \A i \in DOMAIN Front(all) : i \in DOMAIN all /\ Front(all)[i] = all[i]
    BY <1>2, <2>1, FrontIs
  <2> QED BY <1>2, <2>2, OneName DEF ToSet, names, name
<1>4. type \in Types /\ Cardinality(tree.live) < MaxNodes
  <2>1. Cardinality(tree.live) + 1 <= MaxNodes
    BY DEF tmpfs_create, HeapHas
  <2>2. Cardinality(tree.live) \in Nat /\ MaxNodes \in Nat
    BY <1>1, RoomLeft, VfsConstants
  <2> QED BY <2>1, <2>2 DEF Types
<1>5. parent # NULL /\ NoProgram /\ UNCHANGED <<machine, mtpts, local, cwd, tok, walk, lost, orphan>>
      /\ tree' = vfs_add_child(tree, parent, name, type) /\ n = NewNode(tree)
  BY DEF tmpfs_create
<1> HIDE DEF all, names, name, n
<1>6. parent \in tree.live /\ parent \notin BootTree.live \ {TmpRoot}
  BY <1>3, <1>5, CreateBelow
<1> HIDE DEF parent
<1>7. /\ Tree(tree') /\ n \in Nodes \ tree.live /\ tree'.live = tree.live \cup {n}
      /\ tree'.node[parent].childs = Append(tree.node[parent].childs, n)
      /\ tree'.node[parent].parent = tree.node[parent].parent
      /\ tree'.node[parent].type = tree.node[parent].type
      /\ \A m \in tree.live \ {parent} : tree'.node[m] = tree.node[m]
      /\ \A m : Visible(tree, m) => Visible(tree', m)
  BY <1>1, <1>3, <1>4, <1>5, <1>6, AddGrows, SMTT(60)
<1>8. Held'
  BY <1>5, <1>7 DEF VfsInv, Held
<1>9. Walking' /\ Standing'
  <2>1. tree.live \subseteq tree'.live
    BY <1>7
  <2> QED BY <1>5, <1>7, <2>1, Grown
<1>10. \A m \in tree.live : tree'.node[m].type = tree.node[m].type
                           /\ (tree.node[m].childs # <<>> => tree'.node[m].childs # <<>>)
  <2> DEFINE c == tree.node[parent].childs
  <2>1. c \in Seq(Nodes) /\ tree'.node[parent].childs = Append(c, n)
    BY <1>1, <1>6, <1>7, KidsAre
  <2> HIDE DEF c
  <2>2. tree'.node[parent].childs # <<>>
    BY <1>7, <2>1
  <2> QED BY <1>7, <2>2
<1>11. Mounted'
  <2>1. \A p \in Parts \ orphan : mtpts[p] # NULL => mtpts[p] \in tree.live
    BY DEF VfsInv, Mounted
  <2>2. Full' = Full
    BY <1>5 DEF Full, Bare
  <2> QED BY <1>5, <1>7, <1>10, <2>1, <2>2 DEF VfsInv, Mounted
<1>12. Confined'
  BY <1>5, <1>6, <1>7 DEF VfsInv, Confined, TmpConfined
<1> QED BY <1>8, <1>9, <1>11, <1>12 DEF VfsInv

\* umount: the nodes below the mount point go, none of which boot made.
LEMMA UmountKeeps ==
    ASSUME VfsInv, NEW p \in Parts, vfs_umount_partition(p)
    PROVE  VfsInv'
<1> DEFINE n == mtpts[p]
           gone == Below(tree, n)
           t == vfs_free_child_nodes(tree, n)
<1>1. Tree(tree) /\ tree \in Memory /\ tree.live \in SUBSET Nodes /\ NULL \notin Nodes
  BY NotNull DEF VfsInv, Held, Tree, Memory
<1>2. /\ NoProgram /\ n # NULL /\ p \notin orphan
      /\ tree' = Retyped(t, n, "DIR") /\ mtpts' = [mtpts EXCEPT ![p] = NULL]
      /\ lost' = (lost \/ local \in gone)
      /\ orphan' = orphan \cup {q \in Parts : mtpts[q] \in gone}
      /\ UNCHANGED <<machine, local, cwd, tok, walk, wild>>
      /\ n = mtpts[p] /\ gone = Below(tree, n) /\ t = vfs_free_child_nodes(tree, n)
  BY DEF vfs_umount_partition, Retyped
<1>3. n \in tree.live /\ mtpts \in [Parts -> Nodes \cup {NULL}]
  BY <1>2 DEF VfsInv, Mounted, Held
<1> HIDE DEF n, gone, t
<1>4. /\ Tree(t) /\ t.live = tree.live \ gone /\ n \in t.live
      /\ \A m \in t.live \ {n} : t.node[m] = tree.node[m]
  BY <1>1, <1>2, <1>3, FreeTree
<1>5. t.node[n].childs = <<>> /\ t.node[n].parent = tree.node[n].parent
  <2>1. n \notin Below(tree, n) /\ n \in Nodes
    BY <1>1, <1>3, BelowTree
  <2> QED BY <1>1, <1>2, <2>1, FreeIs
<1>6. "DIR" \in Types
  BY DEF Types
<1>7. /\ Tree(tree') /\ tree'.live = t.live /\ tree'.node[n].childs = t.node[n].childs
      /\ tree'.node[n].parent = t.node[n].parent
      /\ \A m \in Nodes \ {n} : tree'.node[m] = t.node[m]
      /\ \A m : Visible(t, m) => Visible(tree', m)
  BY <1>2, <1>4, <1>6, TypedTree
<1>8. /\ tree'.live = tree.live \ gone /\ n \in tree'.live /\ tree'.node[n].childs = <<>>
      /\ tree'.node[n].parent = tree.node[n].parent
      /\ \A m \in tree'.live \ {n} : tree'.node[m] = tree.node[m]
  BY <1>1, <1>4, <1>5, <1>7
<1>9. Held'
  BY <1>2, <1>3, <1>7 DEF VfsInv, Held
<1>10. \A x \in Tasks : cwd[x] = Root
  BY <1>2, RestingDirs
<1>11. Root \in tree'.live
  BY <1>7 DEF Tree, Linked
<1>12. Walking'
  BY <1>2, Resting
<1>13. Standing'
  <2>1. CASE lost \/ local \in gone
    BY <1>2, <2>1 DEF Standing
  <2>2. CASE ~lost /\ local \notin gone
    <3>1. Visible(tree, local) /\ local = cwd[Shell]
      BY <2>2 DEF VfsInv, Standing
    <3>2. Visible(t, local)
      BY <1>1, <1>2, <1>3, <2>2, <3>1, FreeVisible
    <3>3. Visible(tree', local')
      BY <1>2, <1>7, <3>2
    <3> QED BY <1>2, <1>10, <1>11, <3>1, <3>3 DEF Standing
  <2> QED BY <2>1, <2>2
<1>14. Mounted'
  <2>1. \A q \in Parts \ orphan' : q \notin orphan /\ mtpts[q] \notin gone
    BY <1>2
  <2>2. \A q \in Parts : mtpts'[q] # NULL => q # p /\ mtpts'[q] = mtpts[q]
    BY <1>2, <1>3
  <2>3. \A q \in Parts \ orphan' : mtpts'[q] # NULL => mtpts'[q] \in tree'.live
    BY <1>8, <2>1, <2>2 DEF VfsInv, Mounted
  <2>4. ASSUME Full', NEW q \in Parts \ orphan', mtpts'[q] # NULL
        PROVE  /\ tree'.node[mtpts'[q]].type = "MTPT" /\ tree'.node[mtpts'[q]].childs # <<>>
               /\ \A r \in Parts \ (orphan' \cup {q}) : mtpts'[r] # mtpts'[q]
    <3>1. Full
      BY <1>2, <2>4 DEF Full, Bare
    <3>2. q \notin orphan /\ q # p /\ mtpts[q] # NULL /\ mtpts'[q] = mtpts[q] /\ mtpts[q] \in tree'.live
      BY <2>1, <2>2, <2>3, <2>4
    <3>3. /\ tree.node[mtpts[q]].type = "MTPT" /\ tree.node[mtpts[q]].childs # <<>>
          /\ \A r \in Parts \ (orphan \cup {q}) : mtpts[r] # mtpts[q]
      BY <3>1, <3>2 DEF VfsInv, Mounted
    <3>4. mtpts[q] # n
      BY <1>2, <3>2, <3>3
    <3>5. tree'.node[mtpts[q]] = tree.node[mtpts[q]]
      BY <1>8, <3>2, <3>4
    <3>6. \A r \in Parts \ (orphan' \cup {q}) : mtpts'[r] # mtpts'[q]
      BY <2>1, <2>2, <3>2, <3>3
    <3> QED BY <3>2, <3>3, <3>5, <3>6
  <2> QED BY <2>3, <2>4 DEF Mounted
<1>15. Confined'
  <2>1. n \in BootTree.live => BootTree.node[n].childs = <<>>
    BY <1>2 DEF VfsInv, Confined
  <2>2. gone \cap BootTree.live = {}
    BY <1>2, <1>3, <2>1, BootOutside
  <2>3. BootTree.live \subseteq tree'.live
    BY <1>8, <2>2 DEF VfsInv, Confined
  <2>4. \A m \in BootTree.live : tree'.node[m].parent = BootTree.node[m].parent
    BY <1>8, <2>3 DEF VfsInv, Confined
  <2>5. \A q \in Parts : mtpts'[q] \in BootTree.live => BootTree.node[mtpts'[q]].childs = <<>>
    <3>1. NULL \notin BootTree.live
      BY <1>1, BootIs DEF Tree, Memory
    <3> QED BY <1>2, <1>3, <3>1 DEF VfsInv, Confined
  <2>6. ASSUME NEW m \in BootTree.live \ {TmpRoot}, \A q \in Parts : m # mtpts'[q]
        PROVE  tree'.node[m].childs = BootTree.node[m].childs
    <3>1. CASE m = n
      BY <1>8, <2>1, <3>1
    <3>2. CASE m # n
      <4>1. \A q \in Parts : m # mtpts[q]
        BY <1>2, <1>3, <2>6, <3>2
      <4> QED BY <1>8, <2>3, <3>2, <4>1 DEF VfsInv, Confined, TmpConfined
    <3> QED BY <3>1, <3>2
  <2> QED BY <2>3, <2>4, <2>5, <2>6 DEF Confined, TmpConfined
<1> QED BY <1>9, <1>12, <1>13, <1>14, <1>15 DEF VfsInv

\* Where a path of the shell leads.
LEMMA ShellPath ==
    ASSUME VfsInv, NEW path \in machine.paths, lost => path.abs
    PROVE  vfs_node_from_path(tree, local, path) \in tree.live \cup {NULL}
<1>1. Tree(tree) /\ machine \in Machines /\ Root \in tree.live
  BY DEF VfsInv, Held, Tree, Linked
<1>2. path.names \in Seq(STRING)
  BY <1>1, PathsAre
<1> DEFINE from == From(path, local)
           names == path.names
<1>3. from \in tree.live
  <2>1. CASE path.abs
    BY <1>1, <2>1 DEF From
  <2>2. CASE ~path.abs
    <3>1. Visible(tree, local)
      BY <2>2 DEF VfsInv, Standing
    <3>2. local \in tree.live
      BY <1>1, <3>1, VisibleFound
    <3> QED BY <2>2, <3>2 DEF From
  <2> QED BY <2>1, <2>2
<1>4. vfs_node_from_path(tree, local, path) = Resolve(tree, from, names) /\ names \in Seq(STRING)
      /\ from \in tree.live \cup {NULL}
  BY <1>2, <1>3 DEF vfs_node_from_path
<1> HIDE DEF from, names
<1>5. Resolve(tree, from, names) \in tree.live \cup {NULL}
  BY <1>1, <1>4, ResolveLive
<1> QED BY <1>4, <1>5

\* mount: the entries come below the mount point, which had no children.
LEMMA MountKeeps ==
    ASSUME VfsInv, NEW p \in Parts, NEW path \in machine.paths, vfs_mount_partition(p, path)
    PROVE  VfsInv'
<1> DEFINE n == vfs_node_from_path(tree, local, path)
           entries == Disk[p].entries
           t == vfs_ext2_populate(tree, n, entries)
<1>1. Tree(tree) /\ tree \in Memory /\ tree.live \in SUBSET Nodes /\ NULL \notin Nodes
  BY NotNull DEF VfsInv, Held, Tree, Memory
<1>2. /\ NoProgram /\ p \in machine.parts /\ mtpts[p] = NULL /\ (lost => path.abs)
      /\ n # NULL /\ tree.node[n].childs = <<>> /\ HeapHas(Len(entries))
      /\ tree' = Retyped(t, n, "MTPT") /\ mtpts' = [mtpts EXCEPT ![p] = n]
      /\ UNCHANGED <<machine, local, cwd, tok, walk, lost, orphan, wild>>
      /\ t = vfs_ext2_populate(tree, n, entries)
  BY DEF vfs_mount_partition, Retyped
<1>3. n \in tree.live
  BY <1>2, ShellPath
<1>4. Len(entries) \in Nat /\ IsListing(entries) /\ DOMAIN entries = 1 .. Len(entries)
      /\ Cardinality(tree.live) + Len(entries) <= MaxNodes
  <2> DEFINE T == {entries[i] : i \in DOMAIN entries}
  <2>1. entries \in Seq(T) /\ IsListing(entries)
    BY VfsConstants
  <2> HIDE DEF entries, T
  <2>2. Len(entries) \in Nat /\ DOMAIN entries = 1 .. Len(entries)
    BY <2>1
  <2> QED BY <1>2, <2>1, <2>2 DEF HeapHas
<1>5. entries = Disk[p].entries
  OBVIOUS
<1> HIDE DEF n, entries, t
<1>6. /\ Tree(t) /\ tree.live \subseteq t.live
      /\ \A m \in tree.live \ {n} : t.node[m] = tree.node[m]
      /\ t.node[n].parent = tree.node[n].parent
      /\ \A m : Visible(tree, m) => Visible(t, m)
      /\ \A i \in DOMAIN entries : entries[i].up = 0 /\ entries[i].name \notin Dots => t.node[n].childs # <<>>
  BY <1>1, <1>2, <1>3, <1>4, PopulateTree
<1>7. "MTPT" \in Types /\ n \in t.live
  BY <1>3, <1>6 DEF Types
<1>8. /\ Tree(tree') /\ tree'.live = t.live /\ tree'.node[n].childs = t.node[n].childs
      /\ tree'.node[n].parent = t.node[n].parent /\ tree'.node[n].type = "MTPT"
      /\ \A m \in Nodes \ {n} : tree'.node[m] = t.node[m]
      /\ \A m : Visible(t, m) => Visible(tree', m)
  BY <1>2, <1>6, <1>7, TypedTree
<1>9. /\ tree.live \subseteq tree'.live /\ \A m \in tree.live \ {n} : tree'.node[m] = tree.node[m]
      /\ tree'.node[n].parent = tree.node[n].parent
  BY <1>1, <1>6, <1>8
<1>10. Held'
  BY <1>1, <1>2, <1>3, <1>8 DEF VfsInv, Held
<1>11. Walking' /\ Standing'
  BY <1>2, <1>6, <1>8, <1>9, Grown
<1>12. Mounted'
  <2>1. mtpts' \in [Parts -> Nodes \cup {NULL}] /\ mtpts'[p] = n /\ \A q \in Parts \ {p} : mtpts'[q] = mtpts[q]
    BY <1>1, <1>2, <1>3 DEF VfsInv, Held
  <2>2. \A q \in Parts \ orphan' : mtpts'[q] # NULL => mtpts'[q] \in tree'.live
    BY <1>2, <1>3, <1>9, <2>1 DEF VfsInv, Mounted
  <2>3. ASSUME Full'
        PROVE  \A q \in Parts \ orphan' : mtpts'[q] # NULL =>
                  /\ tree'.node[mtpts'[q]].type = "MTPT" /\ tree'.node[mtpts'[q]].childs # <<>>
                  /\ \A r \in Parts \ (orphan' \cup {q}) : mtpts'[r] # mtpts'[q]
    <3>1. Full /\ ~Bare(p)
      BY <1>2, <2>3 DEF Full, Bare
    <3>2. tree'.node[n].childs # <<>>
      BY <1>5, <1>6, <1>8, <3>1 DEF Bare
    <3>3. \A q \in Parts \ orphan : mtpts[q] # NULL =>
                  /\ tree.node[mtpts[q]].type = "MTPT" /\ tree.node[mtpts[q]].childs # <<>> /\ mtpts[q] \in tree.live
                  /\ \A r \in Parts \ (orphan \cup {q}) : mtpts[r] # mtpts[q]
      BY <3>1 DEF VfsInv, Mounted
    <3>4. \A q \in Parts \ orphan : mtpts[q] # n
      BY <1>2, <3>3
    <3>5. \A q \in Parts \ orphan : mtpts[q] # NULL => tree'.node[mtpts[q]] = tree.node[mtpts[q]]
      BY <1>9, <3>3, <3>4
    <3>6. ASSUME NEW q \in Parts \ orphan, mtpts'[q] # NULL
          PROVE  /\ tree'.node[mtpts'[q]].type = "MTPT" /\ tree'.node[mtpts'[q]].childs # <<>>
                 /\ \A r \in Parts \ (orphan \cup {q}) : mtpts'[r] # mtpts'[q]
      <4>1. CASE q = p
        BY <1>8, <2>1, <3>2, <3>4, <4>1
      <4>2. CASE q # p
        BY <2>1, <3>3, <3>4, <3>5, <3>6, <4>2
      <4> QED BY <4>1, <4>2
    <3> QED BY <1>2, <3>6
  <2> QED BY <2>2, <2>3 DEF Mounted
<1>13. Confined'
  <2>1. mtpts'[p] = n /\ \A q \in Parts \ {p} : mtpts'[q] = mtpts[q]
    BY <1>2 DEF VfsInv, Held
  <2>2. BootTree.live \subseteq tree'.live
    BY <1>9 DEF VfsInv, Confined
  <2>3. \A m \in BootTree.live : tree'.node[m].parent = BootTree.node[m].parent
    BY <1>9 DEF VfsInv, Confined
  <2>4. n \in BootTree.live => BootTree.node[n].childs = <<>>
    <3>1. CASE n = TmpRoot
      BY <3>1, BootIs
    <3>2. CASE \E q \in Parts : n = mtpts[q]
      BY <3>2 DEF VfsInv, Confined
    <3>3. CASE n # TmpRoot /\ \A q \in Parts : n # mtpts[q]
      BY <1>2, <3>3 DEF VfsInv, Confined, TmpConfined
    <3> QED BY <3>1, <3>2, <3>3
  <2>5. \A q \in Parts : mtpts'[q] \in BootTree.live => BootTree.node[mtpts'[q]].childs = <<>>
    BY <2>1, <2>4 DEF VfsInv, Confined
  <2>6. ASSUME NEW m \in BootTree.live \ {TmpRoot}, \A q \in Parts : m # mtpts'[q]
        PROVE  tree'.node[m].childs = BootTree.node[m].childs
    <3>1. m \in tree.live /\ m # n /\ m \in Nodes
      BY <1>1, <2>1, <2>6 DEF VfsInv, Confined
    <3>2. \A q \in Parts : m # mtpts[q]
      BY <1>1, <1>2, <2>1, <2>6, <3>1
    <3> QED BY <1>9, <3>1, <3>2 DEF VfsInv, Confined, TmpConfined
  <2> QED BY <2>2, <2>3, <2>5, <2>6 DEF Confined, TmpConfined
<1> QED BY <1>10, <1>11, <1>12, <1>13 DEF VfsInv

----------------------------------------------------------------------------
(* The shell's other commands *)

\* While tree and mount table stay, so does what is said of the two.
LEMMA SameTree ==
    ASSUME VfsInv, UNCHANGED <<machine, tree, mtpts, orphan>>
    PROVE  Mounted' /\ Confined'
<1>1. Mounted'
  BY DEF VfsInv, Mounted, Full, Bare
<1>2. Confined'
  BY DEF VfsInv, Confined, TmpConfined
<1> QED BY <1>1, <1>2

\* cd: the path of the node that was found leads back to it.
LEMMA CdKeeps ==
    ASSUME VfsInv, NEW path \in machine.paths, kshell_cd(path)
    PROVE  VfsInv'
<1> DEFINE n == vfs_node_from_path(tree, local, path)
           found == n # NULL /\ tree.node[n].type \in {"DIR", "MTPT"}
           there == IF found THEN n ELSE local
           again == Resolve(tree, Root, vfs_abs_path_to(tree, there))
<1>1. Tree(tree) /\ tree.live \in SUBSET Nodes /\ NULL \notin Nodes /\ machine \in Machines
      /\ cwd \in [Tasks \cup {Shell} -> Nodes]
  BY NotNull DEF VfsInv, Held, Tree, Memory
<1>2. /\ NoProgram /\ (lost => path.abs /\ found) /\ local' = there /\ lost' = FALSE
      /\ cwd' = [cwd EXCEPT ![Shell] = IF again = NULL THEN @ ELSE again]
      /\ UNCHANGED <<machine, tree, mtpts, tok, walk, orphan, wild>>
  BY DEF kshell_cd
<1>3. IsPath(path)
  BY <1>1, PathsAre
<1>4. found => Visible(tree, n)
  <2>1. ASSUME found PROVE Visible(tree, n)
    <3>1. path.abs \/ Visible(tree, local)
      BY <1>2 DEF VfsInv, Standing
    <3>2. n # NULL
      BY <2>1
    <3> QED BY <1>1, <1>3, <3>1, <3>2, VisiblePath
  <2> QED BY <2>1
<1>5. Visible(tree, there)
  BY <1>2, <1>4 DEF VfsInv, Standing
<1> HIDE DEF n, found
<1> HIDE DEF there
<1>6. there \in tree.live /\ again = there
  BY <1>1, <1>5, VisibleFound
<1>7. cwd' = [cwd EXCEPT ![Shell] = there] /\ there \in Nodes
  BY <1>1, <1>2, <1>6
<1>8. cwd'[Shell] = there /\ \A x \in Tasks : cwd'[x] = cwd[x]
  BY <1>1, <1>7, ShellApart
<1>9. Held'
  BY <1>1, <1>2, <1>7 DEF VfsInv, Held
<1>10. Walking'
  BY <1>2, <1>8, Resting
<1>11. Standing'
  <2>1. \A x \in Tasks : cwd[x] = Root
    BY <1>2, RestingDirs
  <2>2. Root \in tree.live
    BY <1>1 DEF Tree, Linked
  <2> QED BY <1>2, <1>5, <1>8, <2>1, <2>2 DEF Standing
<1>12. Mounted' /\ Confined'
  BY <1>2, SameTree
<1> QED BY <1>9, <1>10, <1>11, <1>12 DEF VfsInv

\* run: the first program starts where the shell stands.
LEMMA RunKeeps ==
    ASSUME VfsInv, NEW path \in machine.paths, kshell_run(path)
    PROVE  VfsInv'
<1> DEFINE x == Head(Programs)
<1>1. /\ NoProgram /\ ~lost /\ machine.users > 0 /\ walk' = [walk EXCEPT ![x] = Idle]
      /\ cwd' = [cwd EXCEPT ![x] = cwd[Shell]]
      /\ UNCHANGED <<machine, tree, mtpts, local, tok, lost, orphan>>
  BY DEF kshell_run, Start
<1>2. /\ Tree(tree) /\ machine \in Machines /\ cwd \in [Tasks \cup {Shell} -> Nodes]
      /\ walk \in [Tasks -> {Absent, Idle} \cup Walk] /\ tok \in Seq(STRING)
  BY DEF VfsInv, Held, Walking
<1>3. x \in Tasks /\ x # Shell
  BY <1>1, <1>2, UsersAre, ShellApart
<1> HIDE DEF x
<1>4. Visible(tree, local) /\ local = cwd[Shell] /\ \A y \in Tasks : cwd[y] \in tree.live
  BY <1>1 DEF VfsInv, Standing
<1>5. local \in tree.live
  BY <1>2, <1>4, VisibleFound
<1>6. Held'
  BY <1>1, <1>2, <1>3 DEF VfsInv, Held
<1>7. Standing'
  BY <1>1, <1>2, <1>3, <1>4, <1>5 DEF Standing
<1>8. Walking'
  <2>1. Absent.pc # "walk" /\ Idle.pc # "walk" /\ (\A w \in Walk : w # Absent /\ w # Idle) /\ Idle # Absent
    BY DEF Absent, Idle, Walk
  <2>2. \A y \in Tasks : walk[y] = Absent
    BY <1>1 DEF NoProgram
  <2>3. walk'[x] = Idle /\ \A y \in Tasks \ {x} : walk'[y] = Absent /\ cwd'[y] = cwd[y]
    BY <1>1, <1>2, <1>3, <2>2
  <2>4. \A y \in Tasks \ {x} : cwd[y] = Root
    BY <1>1, RestingDirs
  <2>5. walk' \in [Tasks -> {Absent, Idle} \cup Walk]
    BY <1>1, <1>2, <1>3
  <2>6. \A y \in Tasks : walk'[y] \notin Walk /\ walk'[y].pc # "walk"
    BY <2>1, <2>3
  <2>7. WalkOnTrack'
    BY <2>6 DEF WalkOnTrack
  <2>8. \A y \in Tasks : walk'[y] = Absent => cwd'[y] = Root
    BY <2>1, <2>3, <2>4
  <2> QED BY <1>1, <1>2, <2>5, <2>6, <2>7, <2>8 DEF Walking
<1>9. Mounted' /\ Confined'
  BY <1>1, SameTree
<1> QED BY <1>6, <1>7, <1>8, <1>9 DEF VfsInv

----------------------------------------------------------------------------
(* Programs *)

\* What a step of a program has to show: tree and shell are left alone.
LEMMA ProgramsKeep ==
    ASSUME VfsInv, ~lost, UNCHANGED <<machine, tree, mtpts, local, lost, orphan>>,
           cwd' \in [Tasks \cup {Shell} -> Nodes], cwd'[Shell] = cwd[Shell],
           \A y \in Tasks : cwd'[y] \in tree.live, \A y \in Tasks : walk'[y] = Absent => cwd'[y] = Root,
           walk' \in [Tasks -> {Absent, Idle} \cup Walk], tok' \in Seq(STRING),
           \A y \in Tasks : walk'[y] \in Walk => walk'[y].node \in tree.live \cup {NULL},
           WalkOnTrack'
    PROVE  VfsInv'
<1>1. Held'
  BY DEF VfsInv, Held
<1>2. Standing'
  BY DEF VfsInv, Standing
<1>3. Walking'
  BY DEF Walking
<1>4. Mounted' /\ Confined'
  BY SameTree
<1> QED BY <1>1, <1>2, <1>3, <1>4 DEF VfsInv

\* A program that exists.
LEMMA ProgramIs ==
    ASSUME VfsInv, NEW x \in Tasks, walk[x] # Absent
    PROVE  /\ ~lost /\ Tree(tree) /\ machine \in Machines /\ cwd \in [Tasks \cup {Shell} -> Nodes]
           /\ \A y \in Tasks : cwd[y] \in tree.live
           /\ walk \in [Tasks -> {Absent, Idle} \cup Walk] /\ tok \in Seq(STRING)
           /\ walk[x].pc = "walk" => walk[x] \in Walk /\ walk[x].node \in tree.live \cup {NULL}
<1>1. Idle.pc # "walk"
  BY DEF Idle
<1> QED BY <1>1 DEF VfsInv, Held, Walking, Standing

\* The look-ups of the others after a call of strtok.
LEMMA TornIs ==
    ASSUME VfsInv, NEW x \in Tasks
    PROVE  /\ Torn(x) \in [Tasks -> {Absent, Idle} \cup Walk] /\ Torn(x)[x] = walk[x]
           /\ \A y \in Tasks \ {x} : \/ Torn(x)[y] = walk[y] /\ walk[y].pc # "walk"
                                     \/ /\ walk[y] \in Walk /\ Torn(x)[y] \in Walk /\ Torn(x)[y].torn = TRUE
                                        /\ Torn(x)[y].node = walk[y].node
           /\ \A y \in Tasks : Torn(x)[y] = Absent <=> walk[y] = Absent
<1>1. walk \in [Tasks -> {Absent, Idle} \cup Walk]
  BY DEF VfsInv, Walking
<1>2. Absent.pc # "walk" /\ Idle.pc # "walk" /\ \A w \in Walk : w # Absent /\ w.pc = "walk"
  BY DEF Absent, Idle, Walk
<1>3. ASSUME NEW w \in Walk
      PROVE  [w EXCEPT !.torn = TRUE] \in Walk /\ [w EXCEPT !.torn = TRUE].torn = TRUE
             /\ [w EXCEPT !.torn = TRUE].node = w.node
  BY DEF Walk
<1>4. \A y \in Tasks : Torn(x)[y] = IF y # x /\ walk[y].pc = "walk" THEN [walk[y] EXCEPT !.torn = TRUE] ELSE walk[y]
  BY DEF Torn
<1>5. \A y \in Tasks \ {x} : \/ Torn(x)[y] = walk[y] /\ walk[y].pc # "walk"
                             \/ /\ walk[y] \in Walk /\ Torn(x)[y] \in Walk /\ Torn(x)[y].torn = TRUE
                                /\ Torn(x)[y].node = walk[y].node
  BY <1>1, <1>2, <1>3, <1>4, ZenonT(40)
<1>6. Torn(x)[x] = walk[x]
  BY <1>4
<1>7. \A y \in Tasks : Torn(x)[y] \in {Absent, Idle} \cup Walk
  BY <1>1, <1>5, <1>6
<1>8. Torn(x) = [y \in Tasks |-> Torn(x)[y]]
  BY DEF Torn
<1>9. Torn(x) \in [Tasks -> {Absent, Idle} \cup Walk]
  BY <1>7, <1>8
<1> QED BY <1>2, <1>5, <1>6, <1>9

\* A program has called strtok and goes on with look-up w.
LEMMA HandedKeeps ==
    ASSUME VfsInv, NEW x \in Tasks, walk[x] # Absent, NEW w \in Walk, w.node \in tree.live \cup {NULL},
           walk' = [Torn(x) EXCEPT ![x] = w], tok' \in Seq(STRING),
           ~w.torn => w.goal = IF w.node = NULL THEN NULL
                               ELSE Resolve(tree, w.node, IF w.token = <<>> THEN <<>> ELSE w.token \o tok'),
           UNCHANGED <<machine, tree, mtpts, local, cwd, lost, orphan>>
    PROVE  VfsInv'
<1>1. /\ ~lost /\ cwd \in [Tasks \cup {Shell} -> Nodes] /\ \A y \in Tasks : cwd[y] \in tree.live
  BY ProgramIs
<1>2. /\ Torn(x) \in [Tasks -> {Absent, Idle} \cup Walk]
      /\ \A y \in Tasks \ {x} : \/ Torn(x)[y] = walk[y] /\ walk[y].pc # "walk"
                                \/ /\ walk[y] \in Walk /\ Torn(x)[y] \in Walk /\ Torn(x)[y].torn = TRUE
                                   /\ Torn(x)[y].node = walk[y].node
      /\ \A y \in Tasks : Torn(x)[y] = Absent <=> walk[y] = Absent
  BY TornIs
<1>3. walk' \in [Tasks -> {Absent, Idle} \cup Walk] /\ walk'[x] = w /\ \A y \in Tasks \ {x} : walk'[y] = Torn(x)[y]
  BY <1>2
<1>4. \A v \in Walk : v # Absent /\ v.pc = "walk"
  BY DEF Walk, Absent
<1>5. \A y \in Tasks : walk'[y] = Absent => cwd'[y] = Root
  BY <1>2, <1>3, <1>4 DEF VfsInv, Walking
<1>6. \A y \in Tasks : walk'[y] \in Walk => walk'[y].node \in tree.live \cup {NULL}
  BY <1>2, <1>3, <1>4 DEF VfsInv, Walking
<1>7. WalkOnTrack'
  <2> SUFFICES ASSUME NEW y \in Tasks, walk'[y].pc = "walk", ~walk'[y].torn
               PROVE  walk'[y].goal = IF walk'[y].node = NULL THEN NULL
                                      ELSE Resolve(tree', walk'[y].node,
                                                   IF walk'[y].token = <<>> THEN <<>> ELSE walk'[y].token \o tok')
    BY DEF WalkOnTrack
  <2>1. y = x
    BY <1>2, <1>3
  <2> QED BY <1>3, <2>1
<1> QED BY <1>1, <1>3, <1>5, <1>6, <1>7, ProgramsKeep

\* A program is done with its look-up, or gone, or new, or its look-up has failed.
LEMMA SettledKeeps ==
    ASSUME VfsInv, ~lost, UNCHANGED <<machine, tree, mtpts, local, tok, lost, orphan>>,
           cwd' \in [Tasks \cup {Shell} -> Nodes], cwd'[Shell] = cwd[Shell],
           \A y \in Tasks : cwd'[y] \in tree.live, \A y \in Tasks : walk'[y] = Absent => cwd'[y] = Root,
           walk' \in [Tasks -> {Absent, Idle} \cup Walk],
           \A y \in Tasks : walk'[y] \in {walk[y], Absent, Idle}
    PROVE  VfsInv'
<1>1. Absent.pc # "walk" /\ Idle.pc # "walk" /\ \A v \in Walk : v # Absent /\ v # Idle
  BY DEF Walk, Absent, Idle
<1>2. tok' \in Seq(STRING)
  BY DEF VfsInv, Walking
<1>3. \A y \in Tasks : walk'[y] \in Walk => walk'[y].node \in tree.live \cup {NULL}
  BY <1>1 DEF VfsInv, Walking
<1>4. WalkOnTrack'
  BY <1>1 DEF VfsInv, Walking, WalkOnTrack
<1> QED BY <1>2, <1>3, <1>4, ProgramsKeep

\* The first call of strtok in a look-up.
LEMMA BeginKeeps ==
    ASSUME VfsInv, NEW x \in Tasks, walk[x] # Absent, NEW why \in {"setcwd", "run", "exec"},
           NEW path, path.names \in Seq(STRING), Begin(x, why, path),
           UNCHANGED <<machine, tree, mtpts, local, cwd, lost, orphan>>
    PROVE  VfsInv'
<1> DEFINE from == From(path, cwd[x])
           names == path.names
           goal == Resolve(tree, from, names)
           token == IF names = <<>> THEN <<>> ELSE <<Head(names)>>
           w == [pc |-> "walk", for |-> why, node |-> from, token |-> token, goal |-> goal, torn |-> FALSE]
<1>1. /\ tok' = (IF names = <<>> THEN <<>> ELSE Tail(names)) /\ walk' = [Torn(x) EXCEPT ![x] = w]
      /\ names \in Seq(STRING) /\ goal = Resolve(tree, from, names)
      /\ token = IF names = <<>> THEN <<>> ELSE <<Head(names)>>
  BY DEF Begin
<1>2. Tree(tree) /\ cwd[x] \in tree.live /\ Root \in tree.live /\ tree.live \subseteq Nodes /\ NULL \notin Nodes
  BY ProgramIs, NotNull DEF Tree, Linked, Memory
<1>3. from \in tree.live \cup {NULL} /\ from # NULL
  BY <1>2 DEF From
<1>4. w.node = from /\ w.token = token /\ w.goal = goal /\ w.torn = FALSE
  OBVIOUS
<1> HIDE DEF from, names, goal, token
<1>5. goal \in tree.live \cup {NULL}
  BY <1>1, <1>2, <1>3, ResolveLive
<1>6. token \in Token /\ tok' \in Seq(STRING) /\ (IF token = <<>> THEN <<>> ELSE token \o tok') = names
  <2>1. CASE names = <<>>
    BY <1>1, <2>1 DEF Token
  <2>2. CASE names # <<>>
    <3>1. Head(names) \in STRING /\ Tail(names) \in Seq(STRING) /\ <<Head(names)>> \o Tail(names) = names
          /\ <<Head(names)>> # <<>>
      BY <1>1, <2>2, SplitIs
    <3>2. token = <<Head(names)>> /\ tok' = Tail(names)
      BY <1>1, <2>2
    <3> QED BY <3>1, <3>2 DEF Token
  <2> QED BY <2>1, <2>2
<1>7. w \in Walk
  BY <1>2, <1>3, <1>5, <1>6 DEF Walk
<1>8. w.node # NULL /\ w.goal = Resolve(tree, w.node, IF w.token = <<>> THEN <<>> ELSE w.token \o tok')
  BY <1>1, <1>3, <1>4, <1>6
<1>9. w.node \in tree.live \cup {NULL}
  BY <1>3, <1>4
<1> HIDE DEF w
<1> QED BY <1>1, <1>6, <1>7, <1>8, <1>9, HandedKeeps

\* chdir and run start a look-up.
LEMMA StartKeeps ==
    ASSUME VfsInv, NEW x \in Tasks, NEW path \in machine.paths, sys_setcwd(x, path) \/ sys_run(x, path)
    PROVE  VfsInv'
<1>1. Idle # Absent
  BY DEF Idle, Absent
<1>2. machine \in Machines
  BY DEF VfsInv, Held
<1>3. path.names \in Seq(STRING)
  BY <1>2, PathsAre
<1>4. walk[x] # Absent /\ UNCHANGED <<machine, tree, mtpts, local, cwd, lost, orphan>>
      /\ \E why \in {"setcwd", "run", "exec"} : Begin(x, why, path)
  BY <1>1 DEF sys_setcwd, sys_run
<1> QED BY <1>3, <1>4, BeginKeeps

\* run looks the printed path of the node it found up again.
LEMMA FoundKeeps ==
    ASSUME VfsInv, NEW x \in Tasks, sys_run_found(x)
    PROVE  VfsInv'
<1> DEFINE names == vfs_abs_path_to(tree, walk[x].node)
           path == [abs |-> TRUE, names |-> names]
<1>1. /\ walk[x].pc = "walk" /\ walk[x].node # NULL /\ Begin(x, "exec", path)
      /\ UNCHANGED <<machine, tree, mtpts, local, cwd, lost, orphan>>
  BY DEF sys_run_found, Done
<1>2. walk[x] # Absent
  BY <1>1 DEF Absent
<1>3. Tree(tree) /\ walk[x].node \in tree.live
  BY <1>1, <1>2, ProgramIs
<1>4. names \in Seq(STRING)
  BY <1>3, AbsPathSeq
<1>5. path.names \in Seq(STRING)
  BY <1>4
<1> HIDE DEF path
<1> QED BY <1>1, <1>2, <1>5, BeginKeeps

\* The next token of a look-up: the node moves on, or there is none.
LEMMA TokenKeeps ==
    ASSUME VfsInv, NEW x \in Tasks, WalkToken(x)
    PROVE  VfsInv'
<1> DEFINE w == walk[x]
           n == vfs_get_child_by_name(tree, w.node, w.token)
<1>1. /\ w.pc = "walk" /\ w.token # <<>> /\ w.node # NULL /\ w = walk[x] /\ n = vfs_get_child_by_name(tree, w.node, w.token)
      /\ UNCHANGED <<machine, tree, mtpts, local, cwd, lost, orphan>>
      /\ \/ n = NULL /\ walk' = [walk EXCEPT ![x].node = NULL] /\ tok' = tok
         \/ /\ n # NULL /\ tok' = (IF tok = <<>> THEN <<>> ELSE Tail(tok))
            /\ walk' = [Torn(x) EXCEPT ![x].node = n, ![x].token = IF tok = <<>> THEN <<>> ELSE <<Head(tok)>>]
  BY DEF WalkToken
<1>2. walk[x] # Absent
  BY <1>1 DEF Absent
<1>3. /\ ~lost /\ Tree(tree) /\ cwd \in [Tasks \cup {Shell} -> Nodes] /\ (\A y \in Tasks : cwd[y] \in tree.live)
      /\ walk \in [Tasks -> {Absent, Idle} \cup Walk] /\ tok \in Seq(STRING)
      /\ w \in Walk /\ w.node \in tree.live
  BY <1>1, <1>2, ProgramIs
<1>4. tree.live \subseteq Nodes /\ NULL \notin Nodes
  BY <1>3, NotNull DEF Tree, Memory
<1>5. ~w.torn => w.goal = Resolve(tree, w.node, w.token \o tok)
  BY <1>1 DEF VfsInv, Walking, WalkOnTrack
<1> HIDE DEF w, n
<1>6. n \in tree.live \cup {NULL}
  BY <1>1, <1>3, ChildLive
<1>7. PICK s \in STRING : w.token = <<s>>
  BY <1>1, <1>3 DEF Walk, Token
<1>8. ~w.torn => w.goal = Resolve(tree, n, tok)
  <2> DEFINE all == <<s>> \o tok
             from == w.node
  <2>1. all \in Seq(STRING) /\ all # <<>> /\ Head(all) = s /\ Tail(all) = tok
    BY <1>3, <1>7, FirstName
  <2>2. n = vfs_get_child_by_name(tree, from, <<s>>) /\ from # NULL
    BY <1>1, <1>7
  <2>3. ~w.torn => w.goal = Resolve(tree, from, all)
    BY <1>5, <1>7
  <2> HIDE DEF all, from
  <2>4. Resolve(tree, from, all) = Resolve(tree, n, tok)
    BY <2>1, <2>2, ResolveStep
  <2> QED BY <2>3, <2>4
<1>9. CASE n = NULL
  <2> DEFINE v == [w EXCEPT !.node = NULL]
  <2>1. walk' = [walk EXCEPT ![x] = v] /\ tok' = tok
    BY <1>1, <1>6, <1>9
  <2>2. v \in Walk /\ v.node = NULL /\ v.goal = w.goal /\ v.torn = w.torn
    BY <1>3 DEF Walk
  <2> HIDE DEF v
  <2>3. walk' \in [Tasks -> {Absent, Idle} \cup Walk] /\ walk'[x] = v /\ \A y \in Tasks \ {x} : walk'[y] = walk[y]
    BY <1>3, <2>1, <2>2
  <2>4. Resolve(tree, NULL, tok) = NULL
    <3> DEFINE S == {}
    <3>1. NULL \in S \cup {NULL}
          /\ \A m \in S : \A i \in DOMAIN tok : vfs_get_child_by_name(tree, m, <<tok[i]>>) \in S \cup {NULL}
      OBVIOUS
    <3> HIDE DEF S
    <3>2. Resolve(tree, NULL, tok) \in S \cup {NULL}
      BY <1>3, <3>1, ResolveIn
    <3> QED BY <3>2 DEF S
  <2>5. \A u \in Walk : u # Absent
    BY DEF Walk, Absent
  <2>6. WalkOnTrack'
    <3> SUFFICES ASSUME NEW y \in Tasks, walk'[y].pc = "walk", ~walk'[y].torn
                 PROVE  walk'[y].goal = IF walk'[y].node = NULL THEN NULL
                                        ELSE Resolve(tree', walk'[y].node,
                                                     IF walk'[y].token = <<>> THEN <<>> ELSE walk'[y].token \o tok')
      BY DEF WalkOnTrack
    <3>1. CASE y = x
      BY <1>8, <1>9, <2>2, <2>3, <2>4, <3>1
    <3>2. CASE y # x
      BY <1>1, <2>1, <2>3, <3>2 DEF VfsInv, Walking, WalkOnTrack
    <3> QED BY <3>1, <3>2
  <2>7. \A y \in Tasks : walk'[y] = Absent => cwd'[y] = Root
    BY <1>1, <2>2, <2>3, <2>5 DEF VfsInv, Walking
  <2>8. \A y \in Tasks : walk'[y] \in Walk => walk'[y].node \in tree.live \cup {NULL}
    BY <2>2, <2>3 DEF VfsInv, Walking
  <2>9. tok' \in Seq(STRING)
    BY <1>3, <2>1
  <2> QED BY <1>1, <1>3, <2>3, <2>6, <2>7, <2>8, <2>9, ProgramsKeep
<1>10. CASE n # NULL
  <2> DEFINE token == IF tok = <<>> THEN <<>> ELSE <<Head(tok)>>
             v == [w EXCEPT !.node = n, !.token = token]
  <2>1. tok' = (IF tok = <<>> THEN <<>> ELSE Tail(tok))
        /\ walk' = [Torn(x) EXCEPT ![x].node = n, ![x].token = token]
    BY <1>1, <1>10
  <2>2. token = IF tok = <<>> THEN <<>> ELSE <<Head(tok)>>
    OBVIOUS
  <2> HIDE DEF token
  <2>3. token \in Token /\ tok' \in Seq(STRING) /\ (IF token = <<>> THEN <<>> ELSE token \o tok') = tok
    <3>1. CASE tok = <<>>
      BY <2>1, <2>2, <3>1 DEF Token
    <3>2. CASE tok # <<>>
      <4>1. Head(tok) \in STRING /\ Tail(tok) \in Seq(STRING) /\ <<Head(tok)>> \o Tail(tok) = tok
            /\ <<Head(tok)>> # <<>>
        BY <1>3, <3>2, SplitIs
      <4>2. token = <<Head(tok)>> /\ tok' = Tail(tok)
        BY <2>1, <2>2, <3>2
      <4> QED BY <4>1, <4>2 DEF Token
    <3> QED BY <3>1, <3>2
  <2>4. v \in Walk /\ v.node = n /\ v.token = token /\ v.goal = w.goal /\ v.torn = w.torn
    BY <1>3, <1>4, <1>6, <2>3 DEF Walk
  <2>5. Torn(x) \in [Tasks -> {Absent, Idle} \cup Walk] /\ Torn(x)[x] = w
    BY <1>1, TornIs
  <2>6. walk' = [Torn(x) EXCEPT ![x] = v]
    BY <2>1, <2>5
  <2> HIDE DEF v
  <2>7. ~v.torn => v.goal = IF v.node = NULL THEN NULL
                            ELSE Resolve(tree, v.node, IF v.token = <<>> THEN <<>> ELSE v.token \o tok')
    BY <1>8, <1>10, <2>3, <2>4
  <2>8. v \in Walk /\ v.node \in tree.live \cup {NULL} /\ tok' \in Seq(STRING)
    BY <1>6, <2>3, <2>4
  <2> QED BY <1>1, <1>2, <2>6, <2>7, <2>8, HandedKeeps
<1> QED BY <1>9, <1>10

\* chdir ends.
LEMMA SetcwdKeeps ==
    ASSUME VfsInv, NEW x \in Tasks, sys_setcwd_done(x)
    PROVE  VfsInv'
<1>1. /\ walk[x].pc = "walk" /\ walk' = [walk EXCEPT ![x] = Idle]
      /\ cwd' = [cwd EXCEPT ![x] = IF walk[x].node = NULL THEN @ ELSE walk[x].node]
      /\ UNCHANGED <<machine, tree, mtpts, local, tok, lost, orphan>>
  BY DEF sys_setcwd_done, Done
<1>2. walk[x] # Absent /\ Idle # Absent
  BY <1>1 DEF Absent, Idle
<1>3. /\ ~lost /\ Tree(tree) /\ cwd \in [Tasks \cup {Shell} -> Nodes] /\ (\A y \in Tasks : cwd[y] \in tree.live)
      /\ walk \in [Tasks -> {Absent, Idle} \cup Walk] /\ walk[x].node \in tree.live \cup {NULL}
  BY <1>1, <1>2, ProgramIs
<1>4. tree.live \subseteq Nodes
  BY <1>3 DEF Tree, Memory
<1>5. /\ cwd' \in [Tasks \cup {Shell} -> Nodes] /\ cwd'[Shell] = cwd[Shell]
      /\ \A y \in Tasks : cwd'[y] \in tree.live /\ (y # x => cwd'[y] = cwd[y])
  BY <1>1, <1>3, <1>4, ShellApart
<1>6. /\ walk' \in [Tasks -> {Absent, Idle} \cup Walk] /\ walk'[x] = Idle
      /\ \A y \in Tasks : y # x => walk'[y] = walk[y]
  BY <1>1, <1>3
<1>7. \A y \in Tasks : walk'[y] = Absent => cwd'[y] = Root
  BY <1>2, <1>5, <1>6 DEF VfsInv, Walking
<1>8. \A y \in Tasks : walk'[y] \in {walk[y], Absent, Idle}
  BY <1>6
<1> QED BY <1>1, <1>3, <1>5, <1>6, <1>7, <1>8, SettledKeeps

\* run ends: another program starts where this one stands, or none does.
LEMMA RunDoneKeeps ==
    ASSUME VfsInv, NEW x \in Tasks, sys_run_done(x)
    PROVE  VfsInv'
<1>1. /\ walk[x].pc = "walk" /\ UNCHANGED <<machine, tree, mtpts, local, tok, lost, orphan>>
      /\ \/ \E y \in Users : walk' = [walk EXCEPT ![x] = Idle, ![y] = Idle] /\ cwd' = [cwd EXCEPT ![y] = cwd[x]]
         \/ walk' = [walk EXCEPT ![x] = Idle] /\ cwd' = cwd
  BY DEF sys_run_done, Done
<1>2. walk[x] # Absent /\ Idle # Absent
  BY <1>1 DEF Absent, Idle
<1>3. /\ ~lost /\ Tree(tree) /\ cwd \in [Tasks \cup {Shell} -> Nodes] /\ (\A y \in Tasks : cwd[y] \in tree.live)
      /\ walk \in [Tasks -> {Absent, Idle} \cup Walk] /\ machine \in Machines
  BY <1>1, <1>2, ProgramIs
<1>4. Users \subseteq Tasks
  BY <1>3, UsersAre
<1>5. PICK y \in Tasks : /\ walk' \in [Tasks -> {Absent, Idle} \cup Walk] /\ walk'[y] = Idle
                         /\ \A z \in Tasks : walk'[z] \in {walk[z], Idle}
                         /\ cwd' \in [Tasks \cup {Shell} -> Nodes] /\ cwd'[Shell] = cwd[Shell]
                         /\ cwd'[y] \in tree.live /\ \A z \in Tasks \ {y} : cwd'[z] = cwd[z]
  <2>1. CASE walk' = [walk EXCEPT ![x] = Idle] /\ cwd' = cwd
    <3>1. /\ walk' \in [Tasks -> {Absent, Idle} \cup Walk] /\ walk'[x] = Idle
          /\ \A z \in Tasks : walk'[z] \in {walk[z], Idle}
      BY <1>3, <2>1
    <3> QED BY <1>3, <2>1, <3>1
  <2>2. ASSUME NEW y \in Users, walk' = [walk EXCEPT ![x] = Idle, ![y] = Idle], cwd' = [cwd EXCEPT ![y] = cwd[x]]
        PROVE  /\ walk' \in [Tasks -> {Absent, Idle} \cup Walk] /\ walk'[y] = Idle
               /\ \A z \in Tasks : walk'[z] \in {walk[z], Idle}
               /\ cwd' \in [Tasks \cup {Shell} -> Nodes] /\ cwd'[Shell] = cwd[Shell]
               /\ cwd'[y] \in tree.live /\ \A z \in Tasks \ {y} : cwd'[z] = cwd[z]
    <3>1. y \in Tasks /\ y # Shell
      BY <1>4, ShellApart
    <3>2. /\ walk' \in [Tasks -> {Absent, Idle} \cup Walk] /\ walk'[y] = Idle
          /\ \A z \in Tasks : walk'[z] \in {walk[z], Idle}
      BY <1>3, <2>2, <3>1
    <3>3. /\ cwd' \in [Tasks \cup {Shell} -> Nodes] /\ cwd'[Shell] = cwd[Shell]
          /\ cwd'[y] \in tree.live /\ \A z \in Tasks \ {y} : cwd'[z] = cwd[z]
      BY <1>3, <2>2, <3>1
    <3> QED BY <3>2, <3>3
  <2> QED BY <1>1, <1>4, <2>1, <2>2
<1>6. \A z \in Tasks : cwd'[z] \in tree.live
  BY <1>3, <1>5
<1>7. \A z \in Tasks : walk'[z] = Absent => cwd'[z] = Root
  BY <1>2, <1>5 DEF VfsInv, Walking
<1>8. \A z \in Tasks : walk'[z] \in {walk[z], Absent, Idle}
  BY <1>5
<1> QED BY <1>1, <1>3, <1>5, <1>6, <1>7, <1>8, SettledKeeps

\* What open leaves in strtok's position.
LEMMA LeftIs ==
    ASSUME NEW t, NEW from, NEW names \in Seq(STRING)
    PROVE  Left(t, from, names) \in Seq(STRING)
<1> DEFINE S == {i \in 1 .. Len(names) : Visits(t, from, names)[i] = NULL} \cup {Len(names)}
           taken == Min(S)
<1>1. Len(names) \in Nat /\ S \in SUBSET Nat /\ S # {}
  OBVIOUS
<1>2. Left(t, from, names) = SubSeq(names, taken + 1, Len(names))
  BY DEF Left
<1> HIDE DEF S
<1>3. taken \in Nat
  BY <1>1, MinIs
<1> HIDE DEF taken
<1>4. \A a \in Nat : SubSeq(names, a + 1, Len(names)) \in Seq(STRING)
  BY <1>1
<1> QED BY <1>2, <1>3, <1>4

\* open disturbs every look-up there is.
LEMMA OpenKeeps ==
    ASSUME VfsInv, NEW x \in Tasks, NEW path \in machine.paths, sys_open(x, path)
    PROVE  VfsInv'
<1>1. /\ walk[x] = Idle /\ tok' = Left(tree, Root, path.names) /\ walk' = Torn(x)
      /\ UNCHANGED <<machine, tree, mtpts, local, cwd, lost, orphan>>
  BY DEF sys_open
<1>2. walk[x] # Absent /\ walk[x].pc # "walk" /\ \A v \in Walk : v # Absent /\ v # Idle
  BY <1>1 DEF Absent, Idle, Walk
<1>3. /\ ~lost /\ cwd \in [Tasks \cup {Shell} -> Nodes] /\ (\A y \in Tasks : cwd[y] \in tree.live)
      /\ machine \in Machines
  BY <1>2, ProgramIs
<1>4. tok' \in Seq(STRING)
  <2>1. path.names \in Seq(STRING)
    BY <1>3, PathsAre
  <2> QED BY <1>1, <2>1, LeftIs
<1>5. /\ walk' \in [Tasks -> {Absent, Idle} \cup Walk] /\ walk'[x] = walk[x]
      /\ \A y \in Tasks \ {x} : \/ walk'[y] = walk[y] /\ walk[y].pc # "walk"
                                \/ walk[y] \in Walk /\ walk'[y] \in Walk /\ walk'[y].torn = TRUE
                                   /\ walk'[y].node = walk[y].node
      /\ \A y \in Tasks : walk'[y] = Absent <=> walk[y] = Absent
  BY <1>1, TornIs
<1>6. WalkOnTrack'
  BY <1>2, <1>5 DEF WalkOnTrack
<1>7. \A y \in Tasks : walk'[y] = Absent => cwd'[y] = Root
  BY <1>1, <1>5 DEF VfsInv, Walking
<1>8. \A y \in Tasks : walk'[y] \in Walk => walk'[y].node \in tree.live \cup {NULL}
  BY <1>1, <1>2, <1>5 DEF VfsInv, Walking
<1> QED BY <1>1, <1>3, <1>4, <1>5, <1>6, <1>7, <1>8, ProgramsKeep

\* exit takes the programs along that the task has started.
LEMMA ExitKeeps ==
    ASSUME VfsInv, NEW x \in Tasks, sys_exit(x)
    PROVE  VfsInv'
<1> DEFINE gone == {y \in Tasks : \E i, j \in DOMAIN Programs : i <= j /\ Programs[i] = x /\ Programs[j] = y}
<1>1. /\ walk[x] = Idle /\ walk' = [y \in Tasks |-> IF y \in gone THEN Absent ELSE walk[y]]
      /\ cwd' = [y \in DOMAIN cwd |-> IF y \in gone THEN Root ELSE cwd[y]]
      /\ UNCHANGED <<machine, tree, mtpts, local, tok, lost, orphan>>
      /\ gone \subseteq Tasks
  BY DEF sys_exit
<1> HIDE DEF gone
<1>2. walk[x] # Absent
  BY <1>1 DEF Absent, Idle
<1>3. /\ ~lost /\ Tree(tree) /\ cwd \in [Tasks \cup {Shell} -> Nodes] /\ (\A y \in Tasks : cwd[y] \in tree.live)
      /\ walk \in [Tasks -> {Absent, Idle} \cup Walk]
  BY <1>2, ProgramIs
<1>4. Root \in tree.live /\ tree.live \subseteq Nodes
  BY <1>3 DEF Tree, Linked, Memory
<1>5. cwd' \in [Tasks \cup {Shell} -> Nodes] /\ cwd'[Shell] = cwd[Shell]
      /\ \A y \in Tasks : cwd'[y] = IF y \in gone THEN Root ELSE cwd[y]
  BY <1>1, <1>3, <1>4, ShellApart
<1>6. walk' \in [Tasks -> {Absent, Idle} \cup Walk]
      /\ \A y \in Tasks : walk'[y] = IF y \in gone THEN Absent ELSE walk[y]
  BY <1>1, <1>3
<1>7. \A y \in Tasks : walk'[y] = Absent => cwd'[y] = Root
  BY <1>5, <1>6 DEF VfsInv, Walking
<1>8. (\A y \in Tasks : cwd'[y] \in tree.live) /\ \A y \in Tasks : walk'[y] \in {walk[y], Absent, Idle}
  BY <1>3, <1>4, <1>5, <1>6
<1> QED BY <1>1, <1>3, <1>5, <1>6, <1>7, <1>8, SettledKeeps

----------------------------------------------------------------------------
(* The theorems *)

\* The shell that goes on with a freed node, and the stopped model, change nothing.
LEMMA StillKeeps ==
    ASSUME VfsInv, UNCHANGED <<machine, tree, mtpts, local, cwd, tok, walk, lost, orphan>>
    PROVE  VfsInv'
<1>1. Held' /\ Standing'
  BY DEF VfsInv, Held, Standing
<1>2. Walking'
  BY DEF VfsInv, Walking, WalkOnTrack
<1>3. Mounted' /\ Confined'
  BY SameTree
<1> QED BY <1>1, <1>2, <1>3 DEF VfsInv

\* The invariant holds in every state.
LEMMA VfsInvariant == Spec => []VfsInv
<1>1. VfsInv /\ [Next]_vars => VfsInv'
  <2> SUFFICES ASSUME VfsInv, [Next]_vars PROVE VfsInv'
    OBVIOUS
  <2>1. ASSUME NEW path \in machine.paths, kshell_cd(path) \/ kshell_run(path) PROVE VfsInv'
    BY <2>1, CdKeeps, RunKeeps
  <2>2. CASE kshell_stale
    BY <2>2, StillKeeps DEF kshell_stale
  <2>3. ASSUME NEW p \in Parts, \/ vfs_umount_partition(p)
                                \/ \E path \in machine.paths : vfs_mount_partition(p, path)
        PROVE  VfsInv'
    BY <2>3, UmountKeeps, MountKeeps
  <2>4. ASSUME NEW path \in TmpPaths, NEW type \in {"FILE", "DIR"}, tmpfs_create(path, type) PROVE VfsInv'
    BY <2>4, CreateKeeps
  <2>5. ASSUME NEW x \in Tasks, NEW path \in machine.paths, sys_setcwd(x, path) \/ sys_run(x, path) \/ sys_open(x, path)
        PROVE  VfsInv'
    BY <2>5, StartKeeps, OpenKeeps
  <2>6. ASSUME NEW x \in Tasks, WalkToken(x) \/ sys_setcwd_done(x) \/ sys_run_found(x) \/ sys_run_done(x) \/ sys_exit(x)
        PROVE  VfsInv'
    BY <2>6, TokenKeeps, SetcwdKeeps, FoundKeeps, RunDoneKeeps, ExitKeeps
  <2>7. CASE UNCHANGED vars
    BY <2>7, StillKeeps DEF vars
  <2> QED BY <2>1, <2>2, <2>3, <2>4, <2>5, <2>6, <2>7 DEF Next, Step
<1> QED BY <1>1, VfsStart, PTL DEF Spec

\* A path look-up that nothing has disturbed is on its way to the node that its path
\* names, whatever other programs look up.
THEOREM WalksStayOnTrack == Spec => []WalkOnTrack
<1>1. VfsInv => WalkOnTrack
  BY DEF VfsInv, Walking
<1> QED BY <1>1, VfsInvariant, PTL

\* Mounts, unmounts, boot and tmpfs leave one tree; what boot made outside tmpfs stays.
THEOREM TreeStaysSound == Spec => []TreeSound
<1>1. VfsInv => TreeSound
  <2> SUFFICES ASSUME VfsInv PROVE TreeSound
    OBVIOUS
  <2>1. /\ Tree(tree) /\ tree \in Memory /\ tree.live \in SUBSET Nodes /\ tree.node \in [Nodes -> Node]
        /\ Linked(tree)
    BY DEF VfsInv, Held, Tree, Memory
  <2>2. TypeOK
    <3>1. \A n \in Nodes : /\ tree.node[n].type \in Types /\ tree.node[n].parent \in Nodes
                           /\ ToSet(tree.node[n].childs) \subseteq Nodes
      <4> SUFFICES ASSUME NEW n \in Nodes
                   PROVE  /\ tree.node[n].type \in Types /\ tree.node[n].parent \in Nodes
                          /\ ToSet(tree.node[n].childs) \subseteq Nodes
        OBVIOUS
      <4>1. tree.node[n] \in Node /\ ToSet(tree.node[n].childs) \subseteq Nodes
        BY <2>1, KidsAre
      <4> QED BY <4>1 DEF Node
    <3> QED BY <2>1, <3>1 DEF TypeOK, VfsInv, Held
  <2>3. TreeOK
    <3>1. tree.live = {Root} \cup Below(tree, Root)
      BY <2>1, AllBelow
    <3>2. ASSUME NEW n \in tree.live, NEW i \in DOMAIN tree.node[n].childs
          PROVE  /\ tree.node[tree.node[n].childs[i]].parent = n
                 /\ \A j \in DOMAIN tree.node[n].childs : i # j => tree.node[n].childs[i] # tree.node[n].childs[j]
      <4>1. tree.node[n].childs[i] \in Kids(tree, n)
        BY DEF Kids
      <4> QED BY <2>1, <4>1 DEF Linked, Once
    <3> QED BY <3>1, <3>2 DEF TreeOK
  <2> QED BY <2>2, <2>3 DEF TreeSound, VfsInv, Confined
<1> QED BY <1>1, VfsInvariant, PTL

\* Whoever keeps a node across calls keeps one that is still allocated, until an unmount
\* frees the shell's directory or a mount point inside the mount.
THEOREM HoldersStayLive == Spec => []HoldersLive
<1>1. VfsInv => HoldersLive
  <2> SUFFICES ASSUME VfsInv PROVE HoldersLive
    OBVIOUS
  <2>1. CwdLive /\ ShellAgrees
    <3>1. ASSUME ~lost
          PROVE  /\ local \in tree.live /\ local = cwd[Shell]
                 /\ \A x \in Tasks \cup {Shell} : cwd[x] \in tree.live
      <4>1. Visible(tree, local) /\ Tree(tree) /\ local = cwd[Shell] /\ \A x \in Tasks : cwd[x] \in tree.live
        BY <3>1 DEF VfsInv, Standing, Held
      <4> QED BY <4>1, VisibleFound
    <3>2. DOMAIN cwd = Tasks \cup {Shell}
      BY DEF VfsInv, Held
    <3> QED BY <3>1, <3>2 DEF CwdLive, ShellAgrees
  <2>2. MountsLive
    BY DEF VfsInv, Mounted, MountsLive, Full
  <2> QED BY <2>1, <2>2 DEF HoldersLive
<1> QED BY <1>1, VfsInvariant, PTL

=============================================================================
