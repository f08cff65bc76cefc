---------------------------- MODULE MemoryProofs ----------------------------
(***************************************************************************)
(* Frame ownership, for every memory map, every number of programs and     *)
(* every size of words and tables.                                         *)
(***************************************************************************)
EXTENDS Memory, TLAPS

\* Until two calls of frame_alloc overlap: what was returned is marked; a program
\* between search and mark, of which there is one at most, holds an unmarked frame
\* and a copy of its word that is still right.
Pending ==
  /\ \A p \in Programs : pc[p] = "mark" =>
       frame[p] \notin bitmap /\ seen[p] = bitmap \cap Word(frame[p])
  /\ \A p, q \in Programs : pc[p] = "mark" /\ pc[q] = "mark" => p = q

Shape ==
  /\ DOMAIN pc = Programs /\ pc = [p \in Programs |-> pc[p]]
  /\ DOMAIN frame = Programs /\ frame = [p \in Programs |-> frame[p]]
  /\ DOMAIN seen = Programs /\ seen = [p \in Programs |-> seen[p]]

\* The frames pmm_init has marked for the kernel stay marked.
Kept == KernelMarked(map) \subseteq bitmap /\ handed \cap KernelMarked(map) = {}

HandInv ==
  /\ Shape
  /\ ~raced => ~twice /\ handed \subseteq bitmap /\ Kept /\ Pending

\* What boot establishes: the frames it takes are free, different and marked.
LEMMA BootFrames ==
  ASSUME Init
  PROVE  \E f0, f1, f2, f3 \in Int :
           /\ handed = {f0, f1, f2, f3} /\ handed \subseteq bitmap
           /\ KernelMarked(map) \subseteq bitmap /\ handed \cap KernelMarked(map) = {}
           /\ f1 # f2 /\ f1 # f3 /\ f2 # f3
           /\ tables = BootTables(f1, f2, f3)
           /\ trampled = ~({f0, f1, f2, f3, f2 + 1} \subseteq FreeMemory(map))
  <1> DEFINE marks == Reserved(map) \cup KernelMarked(map)
  <1>1. Boot
    BY DEF Init
  <1>2. PICK f0 \in FirstFree(map, marks) :
          LET b0 == marks \cup {f0} \cup RegionStarts(map)
          IN  \E f1 \in FirstFree(map, b0) :
              \E f2 \in FirstFree(map, b0 \cup {f1}) :
              \E f3 \in FirstFree(map, b0 \cup {f1, f2}) :
                /\ bitmap = b0 \cup {f1, f2, f3}
                /\ handed = {f0, f1, f2, f3}
                /\ tables = BootTables(f1, f2, f3)
                /\ trampled = ~({f0, f1, f2, f3, f2 + 1} \subseteq FreeMemory(map))
    BY <1>1 DEF Boot
  <1> DEFINE b0 == marks \cup {f0} \cup RegionStarts(map)
  <1>3. PICK f1 \in FirstFree(map, b0) :
          \E f2 \in FirstFree(map, b0 \cup {f1}) :
          \E f3 \in FirstFree(map, b0 \cup {f1, f2}) :
            /\ bitmap = b0 \cup {f1, f2, f3}
            /\ handed = {f0, f1, f2, f3}
            /\ tables = BootTables(f1, f2, f3)
            /\ trampled = ~({f0, f1, f2, f3, f2 + 1} \subseteq FreeMemory(map))
    BY <1>2
  <1>4. PICK f2 \in FirstFree(map, b0 \cup {f1}) :
          \E f3 \in FirstFree(map, b0 \cup {f1, f2}) :
            /\ bitmap = b0 \cup {f1, f2, f3}
            /\ handed = {f0, f1, f2, f3}
            /\ tables = BootTables(f1, f2, f3)
            /\ trampled = ~({f0, f1, f2, f3, f2 + 1} \subseteq FreeMemory(map))
    BY <1>3
  <1>5. PICK f3 \in FirstFree(map, b0 \cup {f1, f2}) :
            /\ bitmap = b0 \cup {f1, f2, f3}
            /\ handed = {f0, f1, f2, f3}
            /\ tables = BootTables(f1, f2, f3)
            /\ trampled = ~({f0, f1, f2, f3, f2 + 1} \subseteq FreeMemory(map))
    BY <1>4
  <1>6. /\ f0 \in Int /\ f0 \notin marks
        /\ f1 \in Int /\ f1 \notin b0
        /\ f2 \in Int /\ f2 \notin b0 /\ f2 # f1
        /\ f3 \in Int /\ f3 \notin b0 /\ f3 # f1 /\ f3 # f2
    BY DEF FirstFree, Scanned
  <1> QED BY <1>5, <1>6

\* pmm_init and pg_init mark every frame they take.
LEMMA HandInit == Init => HandInv
  <1> SUFFICES ASSUME Init PROVE HandInv
    OBVIOUS
  <1>1. handed \subseteq bitmap /\ Kept
    BY BootFrames DEF Kept
  <1>2. Shape
    BY DEF Init, Shape
  <1>3. \A p \in Programs : pc[p] = "none"
    BY DEF Init
  <1>4. ~twice
    BY DEF Init
  <1> QED BY <1>1, <1>2, <1>3, <1>4 DEF HandInv, Pending

\* A step that moves one program to a place other than the mark and leaves the
\* bitmap alone disturbs nothing.
LEMMA Elsewhere ==
  ASSUME HandInv, NEW p \in Programs, NEW where, where # "mark",
         pc' = [pc EXCEPT ![p] = where], UNCHANGED <<map, alloc, bits>>
  PROVE  HandInv'
  BY DEF HandInv, Shape, Kept, Pending, alloc, bits, Word

\* Every step preserves the invariant.
LEMMA HandNext == HandInv /\ [Next]_vars => HandInv'
  <1> SUFFICES ASSUME HandInv, [Next]_vars PROVE HandInv'
    OBVIOUS
  <1>1. CASE UNCHANGED vars
    BY <1>1 DEF vars, HandInv, Shape, Kept, Pending, Word
  <1>2. ASSUME NEW p \in Programs, ProgramStep(p) PROVE HandInv'
    <2>1. CASE frame_bmp_get_first(p)
      <3>1. CASE \E f \in FirstFree(map, bitmap) :
                   /\ frame' = [frame EXCEPT ![p] = f]
                   /\ seen' = [seen EXCEPT ![p] = bitmap \cap Word(f)]
                   /\ Go(p, "mark")
                   /\ raced' = (raced \/ \E q \in Programs : pc[q] = "mark")
        <4>1. PICK f \in FirstFree(map, bitmap) :
                   /\ frame' = [frame EXCEPT ![p] = f]
                   /\ seen' = [seen EXCEPT ![p] = bitmap \cap Word(f)]
                   /\ pc' = [pc EXCEPT ![p] = "mark"]
                   /\ raced' = (raced \/ \E q \in Programs : pc[q] = "mark")
          BY <3>1 DEF Go
        <4>2. f \notin bitmap
          BY DEF FirstFree
        <4>3. UNCHANGED <<map, bitmap, handed, twice>>
          BY <2>1 DEF frame_bmp_get_first
        <4>4. Shape'
          BY <4>1 DEF HandInv, Shape
        <4>5. ASSUME ~raced' PROVE ~twice' /\ (handed \subseteq bitmap)' /\ Kept' /\ Pending'
          <5>1. ~raced /\ \A q \in Programs : pc[q] # "mark"
            BY <4>1, <4>5
          <5>2. \A q \in Programs : pc'[q] = "mark" => q = p
            BY <4>1, <5>1 DEF HandInv, Shape
          <5>3. frame'[p] = f /\ seen'[p] = bitmap \cap Word(f)
            BY <4>1 DEF HandInv, Shape
          <5> QED BY <4>2, <4>3, <5>1, <5>2, <5>3 DEF HandInv, Kept, Pending, Word
        <4> QED BY <4>4, <4>5 DEF HandInv
      <3>2. CASE UNCHANGED <<alloc, pc, raced>>
        BY <2>1, <3>2 DEF frame_bmp_get_first, alloc, HandInv, Shape, Kept, Pending, Word
      <3> QED BY <2>1, <3>1, <3>2 DEF frame_bmp_get_first
    <2>2. CASE frame_bmp_set(p)
      <3> DEFINE f == frame[p]
      <3>1. /\ pc[p] = "mark"
            /\ bitmap' \in {bitmap \cup {f}, (bitmap \ Word(f)) \cup seen[p] \cup {f}}
            /\ handed' = handed \cup {f}
            /\ twice' = (twice \/ f \in handed)
            /\ seen' = [seen EXCEPT ![p] = {}]
            /\ pc' = [pc EXCEPT ![p] = "use"]
            /\ UNCHANGED <<map, frame, raced>>
        BY <2>2 DEF frame_bmp_set, Go
      <3>2. Shape'
        BY <3>1 DEF HandInv, Shape
      <3>3. ASSUME ~raced' PROVE ~twice' /\ (handed \subseteq bitmap)' /\ Kept' /\ Pending'
        <4>1. f \notin bitmap /\ seen[p] = bitmap \cap Word(f) /\ ~twice /\ handed \subseteq bitmap /\ Kept
          BY <3>1, <3>3 DEF HandInv, Pending
        <4>2. bitmap' = bitmap \cup {f}
          BY <3>1, <4>1
        <4>3. \A q \in Programs : pc'[q] # "mark"
          BY <3>1, <3>3 DEF HandInv, Shape, Pending
        <4> QED BY <3>1, <4>1, <4>2, <4>3 DEF Kept, Pending
      <3> QED BY <3>2, <3>3 DEF HandInv
    <2>3. CASE utask_create(p)
      BY <2>3, Elsewhere DEF utask_create, Allocate, Go
    <2>4. CASE pg_clone_page_dir(p)
      BY <2>4, Elsewhere DEF pg_clone_page_dir, CloneFrom, Allocate, Go
    <2>5. CASE pg_clone_page_table(p)
      BY <2>5, Elsewhere DEF pg_clone_page_table, CloneFrom, Allocate, Go
    <2>6. CASE elf_load_fails(p)
      BY <2>6, Elsewhere DEF elf_load_fails, Go
    <2>7. CASE elf_load_segment(p)
      BY <2>7, Elsewhere DEF elf_load_segment, Allocate, Go
    <2>8. CASE utask_stack(p)
      BY <2>8, Elsewhere DEF utask_stack, Allocate, Go
    <2>9. CASE pg_alloc(p)
      BY <2>9, Elsewhere DEF pg_alloc, Allocate, Go
    <2>10. CASE pg_mk_pgtbl(p)
      BY <2>10, Elsewhere DEF pg_mk_pgtbl, Go
    <2>11. CASE pg_map_pages(p)
      BY <2>11, Elsewhere DEF pg_map_pages, Go
    <2> QED BY <1>2, <2>1, <2>2, <2>3, <2>4, <2>5, <2>6, <2>7, <2>8, <2>9, <2>10, <2>11
            DEF ProgramStep
  <1> QED BY <1>1, <1>2 DEF Next

\* frame_alloc gives out each frame once unless two calls overlap, for every
\* memory map and any number of programs.
THEOREM FrameOwnership == Spec => []HandedOnce
  <1>1. HandInv => HandedOnce
    BY DEF HandInv, HandedOnce
  <1> QED BY HandInit, HandNext, <1>1, PTL DEF Spec

\* Where the memory map ends with the kernel's region, frame_alloc returns no
\* whole frame of the kernel, for every such map, unless two calls overlap.
THEOREM KernelNotHandedOut == Spec => []KernelKept
  <1>1. HandInv => KernelKept
    BY DEF HandInv, Kept, KernelKept, KernelMarked
  <1> QED BY HandInit, HandNext, <1>1, PTL DEF Spec

----------------------------------------------------------------------------
(* Address spaces.  Spaces is what holds until two allocations race or a     *)
(* frame that is not free memory is used.                                    *)
Places == {"none", "find", "mark", "use", "ready", "map", "user", "exited"}
Busy == {"find", "mark", "use"}
UserPages == (Slots \ KernelSlots) \X Slots

Types ==
  /\ map \in Maps
  /\ pc \in [Programs -> Places]
  /\ goal \in [Programs -> {"dir", "table", "page", "pgtbl"}]
  /\ frame \in [Programs -> Int] /\ phys \in [Programs -> Int] /\ cr3 \in [Programs -> Int]
  /\ page \in [Programs -> UserPages]
  /\ DOMAIN slot = Programs /\ slot = [p \in Programs |-> slot[p]]
  /\ DOMAIN given = Programs /\ given = [p \in Programs |-> given[p]]

\* The frames a program's context has been handed and not yet put to use.
HasPhys(p) == pc[p] = "map" \/ (goal[p] = "pgtbl" /\ pc[p] \in Busy)
Holds(p) == {f \in {frame[p], phys[p]} : \/ pc[p] = "use" /\ f = frame[p]
                                         \/ HasPhys(p) /\ f = phys[p]}
Own(p) == Holds(p) \cup UserFrames(p)

\* Every frame has one use: a table or a directory, or one program's page.
OneUse ==
  /\ handed \subseteq FreeMemory(map)
  /\ KerDir \in DOMAIN tables /\ DOMAIN tables \subseteq handed \cup {KerDir}
  /\ \A p \in Programs : Own(p) \subseteq handed \ DOMAIN tables
  /\ \A p, q \in Programs : p # q => Own(p) \cap Own(q) = {}
  /\ \A p \in Programs : pc[p] = "use" =>
       frame[p] \notin UserFrames(p) /\ (HasPhys(p) => frame[p] # phys[p])

\* Every table is in one slot of one directory.
Dirs == {KerDir} \cup {cr3[p] : p \in Programs}
Trees ==
  /\ \A p \in Programs : cr3[p] \in DOMAIN tables
  /\ \A p, q \in Programs : p # q /\ Created(p) => cr3[p] # cr3[q]
  /\ \A c \in Dirs : \A d \in DOMAIN tables[c] : tables[c][d] \in DOMAIN tables \ Dirs
  /\ \A b, c \in Dirs : \A d \in DOMAIN tables[b], e \in DOMAIN tables[c] :
       tables[b][d] = tables[c][e] => b = c /\ d = e
  /\ DOMAIN tables[KerDir] = KernelSlots

\* The user slots of a directory hold what the program was given, the kernel's
\* slots a copy of the kernel's tables.
OwnPages(p) ==
  /\ \A d \in DOMAIN tables[cr3[p]] \ KernelSlots : \A i \in DOMAIN tables[tables[cr3[p]][d]] :
       <<d, i>> \in DOMAIN given[p] /\ tables[tables[cr3[p]][d]][i] = given[p][<<d, i>>]
  /\ \A pg \in DOMAIN given[p] :
       /\ pg \in UserPages /\ Mapped(tables, cr3[p], pg)
       /\ virt_to_phys(tables, cr3[p], pg) = given[p][pg]
SameTable(f, g) == /\ DOMAIN tables[f] = DOMAIN tables[g]
                   /\ \A i \in DOMAIN tables[g] : tables[f][i] = tables[g][i]
Copied(p) == \A d \in DOMAIN tables[cr3[p]] \cap KernelSlots :
               SameTable(tables[cr3[p]][d], tables[KerDir][d])

\* How far a program's context has come.
Progress(p) ==
  /\ goal[p] = "dir" => pc[p] \in {"none"} \cup Busy /\ ~Created(p) /\ DOMAIN given[p] = {}
  /\ goal[p] # "dir" => pc[p] # "none" /\ Created(p)
  /\ goal[p] = "table" => pc[p] \in {"ready", "exited"} \cup Busy
  /\ goal[p] = "table" /\ pc[p] \in Busy =>
       slot[p] \in KernelSlots /\ \A d \in KernelSlots : d < slot[p] => d \in DOMAIN tables[cr3[p]]
  /\ goal[p] \in {"page", "pgtbl"} \/ pc[p] = "ready" => KernelSlots \subseteq DOMAIN tables[cr3[p]]
  /\ goal[p] = "pgtbl" /\ pc[p] \in Busy => page[p][1] \notin DOMAIN tables[cr3[p]]
  /\ pc[p] = "map" => page[p][1] \in DOMAIN tables[cr3[p]]

Spaces == /\ Types /\ OneUse /\ Trees
          /\ \A p \in Programs : OwnPages(p) /\ Copied(p) /\ Progress(p)
SpaceInv == Sound => Spaces

----------------------------------------------------------------------------
(* The operators of the model.                                              *)

\* Storing a table touches no other.
LEMMA WithIs ==
  ASSUME NEW t, NEW f, NEW c
  PROVE  /\ DOMAIN With(t, f, c) = DOMAIN t \cup {f}
         /\ With(t, f, c)[f] = c
         /\ \A g \in DOMAIN t : g # f => With(t, f, c)[g] = t[g]
  BY DEF With

\* The same of an entry.
LEMMA SetIs ==
  ASSUME NEW t, NEW n, NEW f
  PROVE  /\ DOMAIN Set(t, n, f) = DOMAIN t \cup {n}
         /\ Set(t, n, f)[n] = f
         /\ \A k \in DOMAIN t : k # n => Set(t, n, f)[k] = t[k]
  BY DEF Set

\* A new table has no entries.
LEMMA NoEntry == DOMAIN << >> = {}
  OBVIOUS

\* The kernel's slots are numbers.
LEMMA KernelSlotsInt == KernelSlots \subseteq Int
  BY SizeAssumption DEF KernelSlots

\* The loop of pg_clone_page_dir finds the next slot.
LEMMA NextSlot ==
  ASSUME NEW n \in Int, NEW L, L = {k \in KernelSlots : k >= n}, L # {}
  PROVE  /\ (CHOOSE k \in L : \A j \in L : k <= j) \in L
         /\ \A j \in L : (CHOOSE k \in L : \A i \in L : k <= i) <= j
  <1>1. \E k \in L : \A j \in L : k <= j
    <2> DEFINE a == 0  b == Framebuffer \div TableSize  c == HeapStart \div TableSize
    <2>1. KernelSlots = {a, b, c} /\ a \in Int /\ b \in Int /\ c \in Int
      BY SizeAssumption DEF KernelSlots
    <2> HIDE DEF a, b, c
    <2> QED BY <2>1
  <1> QED BY <1>1

\* Free memory is in the address space, and the kernel's directory is not in it.
LEMMA FreeFrames ==
  ASSUME NEW m \in Maps
  PROVE  FreeMemory(m) \subseteq Frames /\ KerDir \notin FreeMemory(m)
  <1>1. FrameRange \in Nat /\ FrameRange > 0
    BY SizeAssumption DEF FrameRange
  <1>2. \A x \in Int : x % FrameRange \in Frames
    BY <1>1 DEF Frames
  <1>3. \A e \in Regions(m) : e.start \in Nat /\ e.pages \in Nat
    <2> DEFINE R == [start : Nat, pages : Nat, type : Nat]
    <2>1. m \in Seq(R)
      BY MapAssumption
    <2>2. \A e \in R : e.start \in Nat /\ e.pages \in Nat
      OBVIOUS
    <2> HIDE DEF R
    <2>3. \A k \in DOMAIN m : m[k] \in R
      BY <2>1
    <2> QED BY <2>2, <2>3 DEF Regions
  <1>4. \A e \in Regions(m) : RegionFrames(e) \subseteq Frames
    BY <1>2, <1>3 DEF RegionFrames, FramesFrom
  <1>5. FreeMemory(m) \subseteq UNION {RegionFrames(e) : e \in Regions(m)}
    BY DEF FreeMemory, Available
  <1>6. KerDir \notin FreeMemory(m)
    BY KerDirAssumption DEF FreeMemory
  <1> QED BY <1>4, <1>5, <1>6

\* Entries base + k that fall within m tables start in one of the m tables.
LEMMA TableHit ==
  ASSUME NEW x \in Int, NEW k \in Slots, NEW m \in Nat,
         x * TableSize + k >= 0, x * TableSize + k < m * TableSize
  PROVE  0 <= x /\ x < m
  <1> USE SizeAssumption DEF Slots
  <1>1. ASSUME x <= -1 PROVE FALSE
    <2>1. (x + 1) * TableSize <= 0
      BY <1>1
    <2>2. (x + 1) * TableSize = x * TableSize + TableSize
      OBVIOUS
    <2> QED BY <2>1, <2>2
  <1>2. ASSUME x >= m PROVE FALSE
    <2>1. (x - m) * TableSize >= 0
      BY <1>2
    <2>2. (x - m) * TableSize = x * TableSize - m * TableSize
      OBVIOUS
    <2>3. x * TableSize \in Int /\ m * TableSize \in Int
      OBVIOUS
    <2> QED BY <2>1, <2>2, <2>3
  <1> QED BY <1>1, <1>2

\* pg_map_pages leaves alone every table that is not one of the next m frames.
LEMMA MapElsewhere ==
  ASSUME NEW t, NEW dir, NEW n, NEW first, NEW num \in Nat, NEW m \in Nat, num <= m * TableSize,
         NEW f \in DOMAIN t, f \in Int, t[dir][n] \in Int, ~(0 <= f - t[dir][n] /\ f - t[dir][n] < m)
  PROVE  /\ DOMAIN map_pages(t, dir, n, first, num)[f] = DOMAIN t[f]
         /\ \A k \in DOMAIN t[f] : map_pages(t, dir, n, first, num)[f][k] = t[f][k]
  <1> DEFINE base == (f - t[dir][n]) * TableSize
             hit == {k \in Slots : base + k >= 0 /\ base + k < num}
  <1>1. hit = {}
    <2> SUFFICES ASSUME NEW k \in Slots, base + k >= 0, base + k < num PROVE FALSE
      OBVIOUS
    <2>1. base \in Int /\ k \in Int /\ m * TableSize \in Int
      BY SizeAssumption DEF Slots
    <2>2. base + k < m * TableSize
      BY <2>1
    <2>3. f - t[dir][n] \in Int
      OBVIOUS
    <2> QED BY <2>2, <2>3, TableHit
  <1>2. map_pages(t, dir, n, first, num)[f] =
          [k \in DOMAIN t[f] \cup hit |-> IF k \in hit THEN (first + base + k) % FrameRange ELSE t[f][k]]
    BY DEF map_pages
  <1> HIDE DEF hit
  <1> QED BY <1>1, <1>2

\* r is t with first in the first entry of table g.
FirstEntry(r, t, g, first) ==
  /\ DOMAIN r = DOMAIN t
  /\ \A f \in DOMAIN t : f # g =>
       DOMAIN r[f] = DOMAIN t[f] /\ \A k \in DOMAIN t[f] : r[f][k] = t[f][k]
  /\ DOMAIN r[g] = DOMAIN t[g] \cup {0} /\ r[g][0] = first
  /\ \A k \in DOMAIN t[g] : k # 0 => r[g][k] = t[g][k]

\* Mapping one page writes the first entry of its table.
LEMMA MapOne ==
  ASSUME NEW t, NEW dir, NEW n, NEW first \in Frames, t[dir][n] \in DOMAIN t, DOMAIN t \subseteq Int
  PROVE  FirstEntry(map_pages(t, dir, n, first, 1), t, t[dir][n], first)
  <1> DEFINE r == map_pages(t, dir, n, first, 1)
             g == t[dir][n]
  <1>1. DOMAIN r = DOMAIN t
    BY DEF map_pages
  <1>2. \A f \in DOMAIN t : f # g =>
          DOMAIN r[f] = DOMAIN t[f] /\ \A k \in DOMAIN t[f] : r[f][k] = t[f][k]
    <2> SUFFICES ASSUME NEW f \in DOMAIN t, f # g
                 PROVE  DOMAIN r[f] = DOMAIN t[f] /\ \A k \in DOMAIN t[f] : r[f][k] = t[f][k]
      OBVIOUS
    <2>1. f \in Int /\ g \in Int /\ ~(0 <= f - g /\ f - g < 1)
      OBVIOUS
    <2>2. 1 \in Nat /\ 1 <= 1 * TableSize
      BY SizeAssumption
    <2> QED BY <2>1, <2>2, MapElsewhere
  <1>3. (g - g) * TableSize = 0
    BY SizeAssumption
  <1>4. {k \in Slots : (g - g) * TableSize + k >= 0 /\ (g - g) * TableSize + k < 1} = {0}
    BY <1>3, SizeAssumption DEF Slots
  <1>5. r[g] = [k \in DOMAIN t[g] \cup {0} |->
                 IF k \in {0} THEN (first + (g - g) * TableSize + k) % FrameRange ELSE t[g][k]]
    BY <1>4 DEF map_pages
  <1>6. (first + (g - g) * TableSize + 0) % FrameRange = first
    BY <1>3, SizeAssumption DEF Frames, FrameRange
  <1> HIDE DEF r, g
  <1>7. /\ DOMAIN r[g] = DOMAIN t[g] \cup {0} /\ r[g][0] = first
        /\ \A k \in DOMAIN t[g] : k # 0 => r[g][k] = t[g][k]
    BY <1>5, <1>6
  <1> QED BY <1>1, <1>2, <1>7 DEF r, g, FirstEntry

----------------------------------------------------------------------------
(* Boot.                                                                     *)

\* The num entries of a new table f do not reach the kernel's directory.
Fits(t, f, num) == /\ KerDir \in DOMAIN t /\ DOMAIN t \subseteq Int
                   /\ f \in Int /\ f # KerDir /\ num \in Nat
                   /\ num <= TableSize \/ (num <= 2 * TableSize /\ KerDir # f + 1)

\* r is t with table f added to slot n of the kernel's directory.
Entered(r, t, n, f) ==
  /\ DOMAIN r = DOMAIN t \cup {f}
  /\ DOMAIN r[KerDir] = DOMAIN t[KerDir] \cup {n}
  /\ r[KerDir][n] = f
  /\ \A d \in DOMAIN t[KerDir] : d # n => r[KerDir][d] = t[KerDir][d]

\* One table of pg_init: it is entered in the kernel's directory, which the
\* mapping itself does not reach.
LEMMA BootTable ==
  ASSUME NEW t, NEW n, NEW f, NEW first, NEW num, Fits(t, f, num)
  PROVE  Entered(map_pages(mk_pgtbl(t, KerDir, n, f), KerDir, n, first, num), t, n, f)
  <1> USE DEF Fits
  <1> DEFINE w == With(t, f, << >>)
             s == Set(t[KerDir], n, f)
             a == With(w, KerDir, s)
             r == map_pages(a, KerDir, n, first, num)
  <1>0. r = map_pages(mk_pgtbl(t, KerDir, n, f), KerDir, n, first, num)
    BY DEF mk_pgtbl
  <1>a. DOMAIN w = DOMAIN t \cup {f}
    BY WithIs
  <1>b. /\ DOMAIN s = DOMAIN t[KerDir] \cup {n} /\ s[n] = f
        /\ \A d \in DOMAIN t[KerDir] : d # n => s[d] = t[KerDir][d]
    BY DEF Set
  <1> HIDE DEF w, s
  <1>1. DOMAIN a = DOMAIN w \cup {KerDir} /\ a[KerDir] = s
    BY DEF With
  <1>2. /\ DOMAIN a[KerDir] = DOMAIN t[KerDir] \cup {n} /\ a[KerDir][n] = f
        /\ \A d \in DOMAIN t[KerDir] : d # n => a[KerDir][d] = t[KerDir][d]
    BY <1>1, <1>b
  <1> HIDE DEF a
  <1>3. DOMAIN r = DOMAIN a
    BY DEF map_pages
  <1>4. /\ DOMAIN r[KerDir] = DOMAIN a[KerDir]
        /\ \A d \in DOMAIN a[KerDir] : r[KerDir][d] = a[KerDir][d]
    <2>1. KerDir \in DOMAIN a /\ KerDir \in Int /\ a[KerDir][n] = f
      BY <1>1, <1>2
    <2>2. CASE num <= TableSize
      <3>1. num <= 1 * TableSize /\ 1 \in Nat /\ ~(0 <= KerDir - f /\ KerDir - f < 1)
        BY <2>1, <2>2, SizeAssumption
      <3> QED BY <2>1, <3>1, MapElsewhere
    <2>3. CASE num <= 2 * TableSize /\ KerDir # f + 1
      <3>1. 2 \in Nat /\ ~(0 <= KerDir - f /\ KerDir - f < 2)
        BY <2>1, <2>3
      <3> QED BY <2>1, <2>3, <3>1, MapElsewhere
    <2> QED BY <2>2, <2>3
  <1> HIDE DEF r
  <1>5. Entered(r, t, n, f)
    BY <1>a, <1>1, <1>2, <1>3, <1>4 DEF Entered
  <1> QED BY <1>0, <1>5

\* The kernel's directory has a table of its own in each of its slots.
Booted(t, f1, f2, f3) ==
  /\ DOMAIN t = {KerDir, f1, f2, f3}
  /\ DOMAIN t[KerDir] = KernelSlots
  /\ \A d \in KernelSlots : t[KerDir][d] \in {f1, f2, f3}
  /\ \A d, e \in KernelSlots : t[KerDir][d] = t[KerDir][e] => d = e

\* What pg_init leaves in the kernel's directory.
LEMMA BootDirectory ==
  ASSUME NEW f1 \in Int, NEW f2 \in Int, NEW f3 \in Int,
         KerDir \in Int, KerDir \notin {f1, f2, f3, f2 + 1}, f1 # f2, f1 # f3, f2 # f3
  PROVE  Booted(BootTables(f1, f2, f3), f1, f2, f3)
  <1> DEFINE t0 == [f \in {KerDir} |-> << >>]
             fb == Framebuffer \div TableSize
             hp == HeapStart \div TableSize
             t1 == map_pages(mk_pgtbl(t0, KerDir, 0, f1), KerDir, 0, 0, TableSize)
             t2 == map_pages(mk_pgtbl(t1, KerDir, fb, f2), KerDir, fb, Framebuffer, 2 * TableSize)
             t3 == map_pages(mk_pgtbl(t2, KerDir, hp, f3), KerDir, hp, HeapStart, TableSize)
  <1>1. BootTables(f1, f2, f3) = t3
    BY DEF BootTables
  <1>2. DOMAIN t0 = {KerDir} /\ DOMAIN t0[KerDir] = {}
    BY NoEntry
  <1>3. /\ TableSize \in Nat /\ 2 * TableSize \in Nat
        /\ f1 # KerDir /\ f2 # KerDir /\ f3 # KerDir /\ KerDir # f2 + 1
    BY SizeAssumption
  <1> HIDE DEF t0, fb, hp, t1, t2, t3
  <1>5. DOMAIN t1 = {KerDir, f1} /\ DOMAIN t1[KerDir] = {0} /\ t1[KerDir][0] = f1
    <2>1. Fits(t0, f1, TableSize)
      BY <1>2, <1>3 DEF Fits
    <2>2. Entered(t1, t0, 0, f1)
      BY <2>1, BootTable, Zenon DEF t1
    <2> QED BY <1>2, <2>2 DEF Entered
  <1>6. /\ DOMAIN t2 = {KerDir, f1, f2} /\ DOMAIN t2[KerDir] = {0, fb}
        /\ t2[KerDir][fb] = f2 /\ (fb # 0 => t2[KerDir][0] = f1)
    <2>1. Fits(t1, f2, 2 * TableSize)
      BY <1>3, <1>5 DEF Fits
    <2>2. Entered(t2, t1, fb, f2)
      BY <2>1, BootTable, Zenon DEF t2
    <2> QED BY <1>5, <2>2 DEF Entered
  <1>7. /\ DOMAIN t3 = {KerDir, f1, f2, f3} /\ DOMAIN t3[KerDir] = {0, fb, hp}
        /\ t3[KerDir][hp] = f3 /\ (hp # fb => t3[KerDir][fb] = f2)
        /\ (hp # 0 /\ fb # 0 => t3[KerDir][0] = f1)
    <2>1. Fits(t2, f3, TableSize)
      BY <1>3, <1>6 DEF Fits
    <2>2. Entered(t3, t2, hp, f3)
      BY <2>1, BootTable, Zenon DEF t3
    <2> QED BY <1>6, <2>2 DEF Entered
  <1>8. KernelSlots = {0, fb, hp}
    BY DEF KernelSlots, fb, hp
  <1>9. /\ \A d \in KernelSlots : t3[KerDir][d] \in {f1, f2, f3}
        /\ \A d, e \in KernelSlots : t3[KerDir][d] = t3[KerDir][e] => d = e
    BY <1>7, <1>8
  <1> QED BY <1>1, <1>7, <1>8, <1>9 DEF Booted

\* A boot that tramples nothing establishes the invariant.
LEMMA SpaceInit == Init => SpaceInv
  <1> SUFFICES ASSUME Init, ~trampled PROVE Spaces
    BY DEF SpaceInv, Sound
  <1>1. PICK f0 \in Int, f1 \in Int, f2 \in Int, f3 \in Int :
          /\ handed = {f0, f1, f2, f3}
          /\ f1 # f2 /\ f1 # f3 /\ f2 # f3
          /\ tables = BootTables(f1, f2, f3)
          /\ trampled = ~({f0, f1, f2, f3, f2 + 1} \subseteq FreeMemory(map))
    BY BootFrames
  <1>2. {f0, f1, f2, f3, f2 + 1} \subseteq FreeMemory(map)
    BY <1>1
  <1>3. map \in Maps /\ KerDir \notin FreeMemory(map) /\ KerDir \in Int
    BY FreeFrames, KerDirAssumption DEF Init
  <1>4. KerDir \notin {f1, f2, f3, f2 + 1}
    BY <1>2, <1>3
  <1>5. /\ DOMAIN tables = {KerDir, f1, f2, f3}
        /\ DOMAIN tables[KerDir] = KernelSlots
        /\ \A d \in KernelSlots : tables[KerDir][d] \in {f1, f2, f3}
        /\ \A d, e \in KernelSlots : tables[KerDir][d] = tables[KerDir][e] => d = e
    <2>1. Booted(BootTables(f1, f2, f3), f1, f2, f3)
      BY <1>1, <1>3, <1>4, BootDirectory, Zenon
    <2> QED BY <1>1, <2>1 DEF Booted
  <1>6. \A p \in Programs : /\ pc[p] = "none" /\ goal[p] = "dir" /\ cr3[p] = KerDir
                            /\ given[p] = << >>
    BY DEF Init
  <1>7. \A p \in Programs : Own(p) = {}
    BY <1>6, NoEntry DEF Own, Holds, HasPhys, UserFrames, Busy
  <1>8. Types
    BY <1>3, PageAssumption DEF Init, Types, Places, UserPages, None
  <1>9. OneUse
    BY <1>1, <1>2, <1>5, <1>6, <1>7 DEF OneUse
  <1>10. Dirs = {KerDir}
    BY <1>6 DEF Dirs
  <1>11. Trees
    BY <1>4, <1>5, <1>6, <1>10 DEF Trees, Created
  <1>12. \A p \in Programs : OwnPages(p) /\ Copied(p)
    BY <1>5, <1>6, NoEntry DEF OwnPages, Copied, SameTable
  <1>13. \A p \in Programs : Progress(p)
    BY <1>6, NoEntry DEF Progress, Created, Busy
  <1> QED BY <1>8, <1>9, <1>11, <1>12, <1>13 DEF Spaces

----------------------------------------------------------------------------
(* Steps that leave every table alone.                                      *)

\* Trees, pages and copies depend on nothing but the tables, the directories and
\* what was given.
LEMMA TablesSame ==
  ASSUME Spaces, UNCHANGED <<tables, cr3, given>>
  PROVE  Trees' /\ \A p \in Programs : OwnPages(p)' /\ Copied(p)'
  BY DEF Spaces, Trees, Dirs, Created, OwnPages, Mapped, Exists, virt_to_phys, UserPages, Slots,
         KernelSlots, Copied, SameTable

\* A step of one program's context that allocates nothing and lets go of nothing
\* but what it gives up.
LEMMA QuietStep ==
  ASSUME Spaces, NEW p \in Programs, Types', pc'[p] # "use", Progress(p)',
         UNCHANGED <<map, handed, tables, cr3, given>>,
         (HasPhys(p)' => phys'[p] \in Holds(p)),
         \A q \in Programs : q # p =>
           /\ pc'[q] = pc[q] /\ goal'[q] = goal[q] /\ frame'[q] = frame[q]
           /\ phys'[q] = phys[q] /\ page'[q] = page[q] /\ slot'[q] = slot[q]
  PROVE  Spaces'
  <1>1. \A q \in Programs : UserFrames(q)' = UserFrames(q)
    BY DEF UserFrames
  <1>2. \A q \in Programs : q # p => Holds(q)' = Holds(q) /\ HasPhys(q)' = HasPhys(q)
    BY DEF Holds, HasPhys
  <1>3. Holds(p)' \subseteq Holds(p)
    BY DEF Holds
  <1>4. \A q \in Programs : Own(q)' \subseteq Own(q)
    BY <1>1, <1>2, <1>3 DEF Own
  <1>5. FreeMemory(map)' = FreeMemory(map)
    OBVIOUS
  <1>6. OneUse'
    <2>1. /\ handed' \subseteq FreeMemory(map)'
          /\ KerDir \in DOMAIN tables' /\ DOMAIN tables' \subseteq handed' \cup {KerDir}
      BY <1>5 DEF Spaces, OneUse
    <2>2. /\ \A q \in Programs : Own(q)' \subseteq handed' \ DOMAIN tables'
          /\ \A q, r \in Programs : q # r => Own(q)' \cap Own(r)' = {}
      BY <1>4 DEF Spaces, OneUse
    <2>3. \A q \in Programs : pc'[q] = "use" =>
            frame'[q] \notin UserFrames(q)' /\ (HasPhys(q)' => frame'[q] # phys'[q])
      BY <1>1, <1>2 DEF Spaces, OneUse
    <2> QED BY <2>1, <2>2, <2>3 DEF OneUse
  <1>7. \A q \in Programs : Progress(q)'
    BY DEF Spaces, Progress, Created, Busy
  <1> QED BY <1>6, <1>7, TablesSame DEF Spaces

\* frame_alloc returns: the frame is in nobody's hands yet.
LEMMA SetStep ==
  ASSUME Spaces, HandInv, ~raced, NEW p \in Programs, frame_bmp_set(p), ~trampled'
  PROVE  Spaces'
  <1> DEFINE f == frame[p]
  <1>1. /\ pc[p] = "mark" /\ handed' = handed \cup {f} /\ f \in FreeMemory(map)
        /\ pc' = [pc EXCEPT ![p] = "use"]
        /\ UNCHANGED <<map, tables, goal, frame, phys, page, slot, cr3, given>>
    BY DEF frame_bmp_set, Go
  <1>2. f \notin handed
    BY <1>1 DEF HandInv, Pending
  <1>3. f # KerDir
    BY <1>1, FreeFrames DEF Spaces, Types
  <1>4. Types'
    BY <1>1 DEF Spaces, Types, Places, UserPages, Slots, KernelSlots
  <1>5. \A q \in Programs : UserFrames(q)' = UserFrames(q)
    BY <1>1 DEF UserFrames
  <1>6. \A q \in Programs : q # p => pc'[q] = pc[q]
    BY <1>1 DEF Spaces, Types
  <1>7. pc'[p] = "use"
    BY <1>1 DEF Spaces, Types
  <1>8. \A q \in Programs : q # p => Holds(q)' = Holds(q) /\ HasPhys(q)' = HasPhys(q)
    BY <1>1, <1>6 DEF Holds, HasPhys
  <1>9. /\ HasPhys(p)' = HasPhys(p) /\ Holds(p)' \subseteq Holds(p) \cup {f}
        /\ (HasPhys(p) => phys[p] \in Holds(p))
    BY <1>1, <1>7 DEF Holds, HasPhys, Busy
  <1>10. \A q \in Programs : /\ Own(q)' \subseteq Own(q) \cup {f}
                             /\ (q # p => Own(q)' = Own(q))
    BY <1>5, <1>8, <1>9 DEF Own
  <1>11. f \notin DOMAIN tables /\ \A q \in Programs : f \notin Own(q)
    BY <1>2, <1>3 DEF Spaces, OneUse
  <1>12. OneUse'
    <2>1. /\ handed' \subseteq FreeMemory(map)'
          /\ KerDir \in DOMAIN tables' /\ DOMAIN tables' \subseteq handed' \cup {KerDir}
      BY <1>1 DEF Spaces, OneUse
    <2>2. \A q \in Programs : Own(q)' \subseteq handed' \ DOMAIN tables'
      BY <1>1, <1>10, <1>11 DEF Spaces, OneUse
    <2>3. \A q, r \in Programs : q # r => Own(q)' \cap Own(r)' = {}
      BY <1>10, <1>11 DEF Spaces, OneUse
    <2>4. \A q \in Programs : pc'[q] = "use" =>
            frame'[q] \notin UserFrames(q)' /\ (HasPhys(q)' => frame'[q] # phys'[q])
      <3>1. frame'[p] \notin UserFrames(p)' /\ (HasPhys(p)' => frame'[p] # phys'[p])
        BY <1>1, <1>5, <1>9, <1>11 DEF Own
      <3> QED BY <1>1, <1>5, <1>6, <1>8, <3>1 DEF Spaces, OneUse
    <2> QED BY <2>1, <2>2, <2>3, <2>4 DEF OneUse
  <1>13. \A q \in Programs : Progress(q)'
    BY <1>1, <1>6, <1>7 DEF Spaces, Progress, Created, Busy
  <1> QED BY <1>1, <1>4, <1>12, <1>13, TablesSame DEF Spaces

----------------------------------------------------------------------------
(* Steps that write tables.                                                 *)

\* A new table in a directory: the frame leaves the context's hands.
LEMMA GrowStep ==
  ASSUME Spaces, NEW p \in Programs, Types', pc[p] = "use", Created(p),
         NEW n, NEW content,
         tables' = With(With(tables, frame[p], content), cr3[p], Set(tables[cr3[p]], n, frame[p])),
         \/ n \in KernelSlots /\ content = tables[tables[KerDir][n]]
         \/ n \notin KernelSlots /\ n \notin DOMAIN tables[cr3[p]] /\ DOMAIN content = {},
         UNCHANGED <<map, handed, cr3, given, frame, phys, page>>,
         pc'[p] # "use", HasPhys(p)' => HasPhys(p),
         \A q \in Programs : q # p => pc'[q] = pc[q] /\ goal'[q] = goal[q] /\ slot'[q] = slot[q],
         DOMAIN tables'[cr3[p]] = DOMAIN tables[cr3[p]] \cup {n} => Progress(p)'
  PROVE  Spaces'
  <1> DEFINE f == frame[p]
             c == cr3[p]
  <1>1. /\ c \in DOMAIN tables /\ c # KerDir /\ c \in Dirs /\ KerDir \in Dirs
        /\ Dirs \subseteq DOMAIN tables /\ KerDir \in DOMAIN tables
    BY DEF Spaces, Trees, Dirs, Created, OneUse
  <1>2. f \in handed /\ f \notin DOMAIN tables /\ f \in Own(p)
    BY DEF Spaces, OneUse, Own, Holds
  <1> DEFINE w == With(tables, f, content)
             s == Set(tables[c], n, f)
  <1>3. /\ DOMAIN w = DOMAIN tables \cup {f} /\ w[f] = content
        /\ \A g \in DOMAIN tables : w[g] = tables[g]
    BY <1>2 DEF With
  <1>4. /\ DOMAIN s = DOMAIN tables[c] \cup {n} /\ s[n] = f
        /\ \A d \in DOMAIN tables[c] : d # n => s[d] = tables[c][d]
    BY DEF Set
  <1>5. tables' = With(w, c, s)
    OBVIOUS
  <1> HIDE DEF w, s
  <1>6. /\ DOMAIN tables' = DOMAIN w \cup {c} /\ tables'[c] = s
        /\ \A g \in DOMAIN w : g # c => tables'[g] = w[g]
    BY <1>5 DEF With
  <1> HIDE DEF f, c
  <1>7. /\ DOMAIN tables' = DOMAIN tables \cup {f} /\ tables'[f] = content
        /\ \A g \in DOMAIN tables : g # c => tables'[g] = tables[g]
        /\ DOMAIN tables'[c] = DOMAIN tables[c] \cup {n} /\ tables'[c][n] = f
        /\ \A d \in DOMAIN tables[c] : d # n => tables'[c][d] = tables[c][d]
    BY <1>1, <1>2, <1>3, <1>4, <1>6
  <1>8. Dirs' = Dirs
    BY DEF Dirs
  <1>9. ASSUME NEW b \in Dirs, NEW d \in DOMAIN tables'[b]
        PROVE  \/ b = c /\ d = n /\ tables'[b][d] = f
               \/ /\ d \in DOMAIN tables[b] /\ tables'[b][d] = tables[b][d] /\ ~(b = c /\ d = n)
                  /\ tables[b][d] \in DOMAIN tables \ Dirs
                  /\ tables'[tables[b][d]] = tables[tables[b][d]]
    <2>1. \A e \in DOMAIN tables[b] :
            tables[b][e] \in DOMAIN tables \ Dirs /\ tables'[tables[b][e]] = tables[tables[b][e]]
      BY <1>1, <1>7 DEF Spaces, Trees
    <2>2. CASE b = c
      BY <1>7, <2>1, <2>2
    <2>3. CASE b # c
      BY <1>1, <1>7, <2>1, <2>3
    <2> QED BY <2>2, <2>3
  <1>10. \A b \in Dirs : \A d \in DOMAIN tables[b] : ~(b = c /\ d = n) =>
           /\ d \in DOMAIN tables'[b] /\ tables'[b][d] = tables[b][d]
           /\ tables'[tables[b][d]] = tables[tables[b][d]]
    BY <1>1, <1>7 DEF Spaces, Trees
  <1>11. OneUse'
    <2>1. \A q \in Programs : UserFrames(q)' = UserFrames(q)
      BY DEF UserFrames
    <2>2. \A q \in Programs : q # p => Holds(q)' = Holds(q) /\ HasPhys(q)' = HasPhys(q)
      BY DEF Holds, HasPhys
    <2>3. Holds(p)' \subseteq Holds(p) /\ f \notin Holds(p)' /\ f \notin UserFrames(p)
      BY DEF Holds, Spaces, OneUse, f
    <2>4. \A q \in Programs : Own(q)' \subseteq Own(q) /\ f \notin Own(q)'
      BY <1>2, <2>1, <2>2, <2>3 DEF Own, Spaces, OneUse
    <2>5. /\ handed' \subseteq FreeMemory(map)'
          /\ KerDir \in DOMAIN tables' /\ DOMAIN tables' \subseteq handed' \cup {KerDir}
      BY <1>1, <1>2, <1>7 DEF Spaces, OneUse
    <2>6. /\ \A q \in Programs : Own(q)' \subseteq handed' \ DOMAIN tables'
          /\ \A q, r \in Programs : q # r => Own(q)' \cap Own(r)' = {}
      BY <1>7, <2>4 DEF Spaces, OneUse
    <2>7. \A q \in Programs : pc'[q] = "use" =>
            frame'[q] \notin UserFrames(q)' /\ (HasPhys(q)' => frame'[q] # phys'[q])
      BY <2>1, <2>2 DEF Spaces, OneUse
    <2> QED BY <2>5, <2>6, <2>7 DEF OneUse
  <1>12. Trees'
    <2>1. /\ \A q \in Programs : cr3'[q] \in DOMAIN tables'
          /\ \A q, r \in Programs : q # r /\ Created(q)' => cr3'[q] # cr3'[r]
      BY <1>7 DEF Spaces, Trees, Created
    <2>2. \A b \in Dirs : \A d \in DOMAIN tables'[b] : tables'[b][d] \in DOMAIN tables' \ Dirs
      BY <1>1, <1>2, <1>7, <1>9
    <2>3. \A a, b \in Dirs : \A d \in DOMAIN tables'[a], e \in DOMAIN tables'[b] :
            tables'[a][d] = tables'[b][e] => a = b /\ d = e
      BY <1>2, <1>9 DEF Spaces, Trees
    <2>4. DOMAIN tables'[KerDir] = KernelSlots
      BY <1>1, <1>7 DEF Spaces, Trees
    <2> QED BY <1>8, <2>1, <2>2, <2>3, <2>4 DEF Trees, KernelSlots
  <1>13. \A q \in Programs : cr3[q] \in Dirs /\ (q # p => cr3[q] # c)
    BY DEF Dirs, c, Spaces, Trees
  <1>14. ASSUME NEW q \in Programs PROVE OwnPages(q)'
    <2> DEFINE b == cr3[q]
    <2>1. b \in Dirs /\ cr3'[q] = b /\ given'[q] = given[q]
      BY <1>13
    <2>2. OwnPages(q)
      BY DEF Spaces
    <2>3. \A d \in DOMAIN tables'[b] \ KernelSlots : \A i \in DOMAIN tables'[tables'[b][d]] :
            <<d, i>> \in DOMAIN given[q] /\ tables'[tables'[b][d]][i] = given[q][<<d, i>>]
      <3> SUFFICES ASSUME NEW d \in DOMAIN tables'[b] \ KernelSlots,
                          NEW i \in DOMAIN tables'[tables'[b][d]]
                   PROVE  <<d, i>> \in DOMAIN given[q] /\ tables'[tables'[b][d]][i] = given[q][<<d, i>>]
        OBVIOUS
      <3>1. CASE b = c /\ d = n /\ tables'[b][d] = f
        BY <3>1, <1>7
      <3>2. CASE d \in DOMAIN tables[b] /\ tables'[b][d] = tables[b][d]
                   /\ tables'[tables[b][d]] = tables[tables[b][d]]
        BY <3>2, <2>2 DEF OwnPages
      <3>3. d \in DOMAIN tables'[b]
        OBVIOUS
      <3> HIDE DEF b
      <3>4. \/ b = c /\ d = n /\ tables'[b][d] = f
            \/ d \in DOMAIN tables[b] /\ tables'[b][d] = tables[b][d]
                 /\ tables'[tables[b][d]] = tables[tables[b][d]]
        BY <2>1, <3>3, <1>9
      <3> QED BY <3>1, <3>2, <3>4
    <2>4. ASSUME NEW pg \in DOMAIN given[q]
          PROVE  /\ pg \in UserPages /\ pg[1] \in DOMAIN tables'[b]
                 /\ pg[2] \in DOMAIN tables'[tables'[b][pg[1]]]
                 /\ tables'[tables'[b][pg[1]]][pg[2]] = given[q][pg]
      <3>1. /\ pg \in UserPages /\ pg[1] \in DOMAIN tables[b]
            /\ pg[2] \in DOMAIN tables[tables[b][pg[1]]]
            /\ tables[tables[b][pg[1]]][pg[2]] = given[q][pg]
        BY <2>2 DEF OwnPages, Mapped, Exists, virt_to_phys
      <3>2. pg[1] \notin KernelSlots
        BY <3>1 DEF UserPages
      <3>3. ~(b = c /\ pg[1] = n)
        BY <3>1, <3>2 DEF c
      <3> HIDE DEF b
      <3> QED BY <2>1, <3>1, <3>3, <1>10
    <2> HIDE DEF b
    <2>5. UserPages' = UserPages /\ KernelSlots' = KernelSlots
      BY DEF UserPages, Slots, KernelSlots
    <2> QED BY <2>1, <2>3, <2>4, <2>5, ZenonT(40) DEF OwnPages, Mapped, Exists, virt_to_phys
  <1>15. ASSUME NEW q \in Programs PROVE Copied(q)'
    <2> DEFINE b == cr3[q]
    <2>1. b \in Dirs /\ cr3'[q] = b
      BY <1>13
    <2>2. Copied(q) /\ DOMAIN tables[KerDir] = KernelSlots
      BY DEF Spaces, Trees
    <2> SUFFICES ASSUME NEW d \in DOMAIN tables'[b] \cap KernelSlots
                 PROVE  /\ DOMAIN tables'[tables'[b][d]] = DOMAIN tables'[tables'[KerDir][d]]
                        /\ \A i \in DOMAIN tables'[tables'[KerDir][d]] :
                             tables'[tables'[b][d]][i] = tables'[tables'[KerDir][d]][i]
      BY <2>1, ZenonT(40) DEF Copied, SameTable, KernelSlots
    <2>3. tables'[KerDir][d] = tables[KerDir][d] /\ tables'[tables[KerDir][d]] = tables[tables[KerDir][d]]
      BY <1>1, <1>10, <2>2
    <2>4. CASE b = c /\ d = n /\ tables'[b][d] = f
      BY <2>3, <2>4, <1>7
    <2>5. CASE d \in DOMAIN tables[b] /\ tables'[b][d] = tables[b][d]
                 /\ tables'[tables[b][d]] = tables[tables[b][d]]
      BY <2>2, <2>3, <2>5 DEF Copied, SameTable
    <2>6. d \in DOMAIN tables'[b]
      OBVIOUS
    <2> HIDE DEF b
    <2>7. \/ b = c /\ d = n /\ tables'[b][d] = f
          \/ d \in DOMAIN tables[b] /\ tables'[b][d] = tables[b][d]
               /\ tables'[tables[b][d]] = tables[tables[b][d]]
      BY <2>1, <2>6, <1>9
    <2> QED BY <2>4, <2>5, <2>7
  <1>16. \A q \in Programs : Progress(q)'
    <2>1. Progress(p)'
      BY <1>7 DEF c
    <2>2. ASSUME NEW q \in Programs, q # p PROVE Progress(q)'
      <3>1. tables'[cr3[q]] = tables[cr3[q]]
        BY <1>7, <1>13, <1>1, <2>2
      <3> QED BY <2>2, <3>1 DEF Spaces, Progress, Created, Busy, KernelSlots
    <2> QED BY <2>1, <2>2
  <1> QED BY <1>11, <1>12, <1>14, <1>15, <1>16 DEF Spaces

\* A new, empty directory.
LEMMA DirStep ==
  ASSUME Spaces, NEW p \in Programs, Types', pc[p] = "use", goal[p] = "dir",
         tables' = With(tables, frame[p], << >>), cr3' = [cr3 EXCEPT ![p] = frame[p]],
         UNCHANGED <<map, handed, given, frame, phys, page>>,
         pc'[p] # "use", ~HasPhys(p)',
         \A q \in Programs : q # p => pc'[q] = pc[q] /\ goal'[q] = goal[q] /\ slot'[q] = slot[q],
         cr3'[p] # KerDir /\ DOMAIN given[p] = {} => Progress(p)'
  PROVE  Spaces'
  <1> DEFINE f == frame[p]
  <1>1. /\ KerDir \in DOMAIN tables /\ Dirs \subseteq DOMAIN tables /\ KerDir \in Dirs
        /\ cr3[p] = KerDir /\ DOMAIN given[p] = {}
    BY DEF Spaces, Trees, Dirs, Created, OneUse, Progress
  <1>2. f \in handed /\ f \notin DOMAIN tables /\ f \in Own(p)
    BY DEF Spaces, OneUse, Own, Holds
  <1>3. /\ DOMAIN tables' = DOMAIN tables \cup {f} /\ DOMAIN tables'[f] = {}
        /\ \A g \in DOMAIN tables : tables'[g] = tables[g]
    BY <1>2, NoEntry DEF With
  <1>4. cr3'[p] = f /\ \A q \in Programs : q # p => cr3'[q] = cr3[q]
    BY DEF Spaces, Types
  <1> HIDE DEF f
  <1>5. Dirs' \subseteq Dirs \cup {f} /\ KerDir \in Dirs'
    BY <1>4 DEF Dirs
  <1>6. \A b \in Dirs : \A d \in DOMAIN tables[b] :
          tables[b][d] \in DOMAIN tables \ Dirs /\ tables'[tables[b][d]] = tables[tables[b][d]]
    BY <1>1, <1>3 DEF Spaces, Trees
  <1>7. OneUse'
    <2>1. \A q \in Programs : UserFrames(q)' = UserFrames(q)
      BY DEF UserFrames
    <2>2. \A q \in Programs : q # p => Holds(q)' = Holds(q) /\ HasPhys(q)' = HasPhys(q)
      BY DEF Holds, HasPhys
    <2>3. Holds(p)' = {} /\ f \notin UserFrames(p)
      BY DEF Holds, Spaces, OneUse, f
    <2>4. \A q \in Programs : Own(q)' \subseteq Own(q) /\ f \notin Own(q)'
      BY <1>2, <2>1, <2>2, <2>3 DEF Own, Spaces, OneUse
    <2>5. /\ handed' \subseteq FreeMemory(map)'
          /\ KerDir \in DOMAIN tables' /\ DOMAIN tables' \subseteq handed' \cup {KerDir}
      BY <1>1, <1>2, <1>3 DEF Spaces, OneUse
    <2>6. /\ \A q \in Programs : Own(q)' \subseteq handed' \ DOMAIN tables'
          /\ \A q, r \in Programs : q # r => Own(q)' \cap Own(r)' = {}
      BY <1>3, <2>4 DEF Spaces, OneUse
    <2>7. \A q \in Programs : pc'[q] = "use" =>
            frame'[q] \notin UserFrames(q)' /\ (HasPhys(q)' => frame'[q] # phys'[q])
      BY <2>1, <2>2 DEF Spaces, OneUse
    <2> QED BY <2>5, <2>6, <2>7 DEF OneUse
  <1>8. Trees'
    <2>1. \A q \in Programs : cr3'[q] \in DOMAIN tables'
      BY <1>3, <1>4 DEF Spaces, Trees
    <2>2. \A q, r \in Programs : q # r /\ Created(q)' => cr3'[q] # cr3'[r]
      BY <1>2, <1>4 DEF Spaces, Trees, Created
    <2>3. \A b \in Dirs' : \A d \in DOMAIN tables'[b] :
            b \in Dirs /\ tables'[b] = tables[b] /\ tables'[b][d] \in DOMAIN tables' \ Dirs'
      BY <1>1, <1>2, <1>3, <1>5, <1>6
    <2>4. \A a, b \in Dirs' : \A d \in DOMAIN tables'[a], e \in DOMAIN tables'[b] :
            tables'[a][d] = tables'[b][e] => a = b /\ d = e
      BY <2>3 DEF Spaces, Trees
    <2>5. DOMAIN tables'[KerDir] = KernelSlots
      BY <1>1, <1>3 DEF Spaces, Trees
    <2> QED BY <2>1, <2>2, <2>3, <2>4, <2>5 DEF Trees, KernelSlots
  <1>9. \A q \in Programs : cr3[q] \in Dirs
    BY DEF Dirs
  <1>10. UserPages' = UserPages /\ KernelSlots' = KernelSlots
    BY DEF UserPages, Slots, KernelSlots
  <1>11. ASSUME NEW q \in Programs, q # p PROVE OwnPages(q)' /\ Copied(q)' /\ Progress(q)'
    <2>1. tables'[cr3[q]] = tables[cr3[q]] /\ cr3'[q] = cr3[q]
      BY <1>1, <1>3, <1>4, <1>9, <1>11
    <2>2. \A d \in DOMAIN tables[cr3[q]] : tables'[tables[cr3[q]][d]] = tables[tables[cr3[q]][d]]
      BY <1>6, <1>9
    <2>3. tables'[KerDir] = tables[KerDir] /\ DOMAIN tables[KerDir] = KernelSlots
            /\ \A d \in KernelSlots : tables'[tables[KerDir][d]] = tables[tables[KerDir][d]]
      BY <1>1, <1>3, <1>6 DEF Spaces, Trees
    <2>4. OwnPages(q)'
      <3>1. OwnPages(q)
        BY DEF Spaces
      <3>2. given'[q] = given[q]
        OBVIOUS
      <3>3. \A pg \in DOMAIN given[q] :
              pg \in UserPages /\ Mapped(tables', cr3[q], pg)
              /\ virt_to_phys(tables', cr3[q], pg) = given[q][pg]
        BY <2>1, <2>2, <3>1 DEF OwnPages, Mapped, Exists, virt_to_phys
      <3>4. \A d \in DOMAIN tables'[cr3[q]] \ KernelSlots : \A i \in DOMAIN tables'[tables'[cr3[q]][d]] :
              <<d, i>> \in DOMAIN given[q] /\ tables'[tables'[cr3[q]][d]][i] = given[q][<<d, i>>]
        <4> SUFFICES ASSUME NEW d \in DOMAIN tables'[cr3[q]] \ KernelSlots,
                            NEW i \in DOMAIN tables'[tables'[cr3[q]][d]]
                     PROVE  /\ <<d, i>> \in DOMAIN given[q]
                            /\ tables'[tables'[cr3[q]][d]][i] = given[q][<<d, i>>]
          OBVIOUS
        <4>1. d \in DOMAIN tables[cr3[q]] /\ tables'[tables'[cr3[q]][d]] = tables[tables[cr3[q]][d]]
          BY <2>1, <2>2
        <4> QED BY <3>1, <4>1 DEF OwnPages
      <3> QED BY <2>1, <3>2, <3>3, <3>4, <1>10 DEF OwnPages
    <2>5. Copied(q)'
      <3>1. Copied(q)
        BY DEF Spaces
      <3> SUFFICES ASSUME NEW d \in DOMAIN tables[cr3[q]] \cap KernelSlots
                   PROVE  SameTable(tables[cr3[q]][d], tables[KerDir][d])'
        BY <2>1, <2>3, <1>10 DEF Copied
      <3>2. SameTable(tables[cr3[q]][d], tables[KerDir][d])
        BY <3>1 DEF Copied
      <3> QED BY <2>1, <2>2, <2>3, <3>2 DEF SameTable
    <2>6. Progress(q)'
      BY <2>1, <1>10, <1>11 DEF Spaces, Progress, Created, Busy
    <2> QED BY <2>4, <2>5, <2>6
  <1>12. OwnPages(p)' /\ Copied(p)'
    BY <1>1, <1>3, <1>4 DEF OwnPages, Copied
  <1>13. Progress(p)'
    BY <1>1, <1>2, <1>4
  <1> QED BY <1>7, <1>8, <1>11, <1>12, <1>13 DEF Spaces

\* The page of a segment or of the stack: only the first entry of the program's
\* own table changes.
LEMMA MapStep ==
  ASSUME Spaces, NEW p \in Programs, pg_map_pages(p)
  PROVE  Spaces'
  <1> DEFINE c == cr3[p]
             n == page[p][1]
             g == tables[c][n]
             f == phys[p]
  <1>1. /\ pc[p] = "map" /\ tables' = map_pages(tables, c, n, f, 1)
        /\ given' = [given EXCEPT ![p] = Set(@, <<n, 0>>, f)]
        /\ pc' = [pc EXCEPT ![p] = IF page[p] = StackPage THEN "user" ELSE "ready"]
        /\ UNCHANGED <<map, handed, goal, frame, phys, page, slot, cr3>>
    BY DEF pg_map_pages, Go, alloc, bits
  <1>2. Types /\ OneUse /\ Trees /\ OwnPages(p) /\ Copied(p) /\ Progress(p)
    BY DEF Spaces
  <1>3. /\ n \in DOMAIN tables[c] /\ n \in Slots \ KernelSlots /\ goal[p] \notin {"dir", "table"}
        /\ KernelSlots \subseteq DOMAIN tables[c] /\ Created(p)
    BY <1>1, <1>2 DEF Progress, Types, UserPages, Busy
  <1>4. c \in Dirs /\ KerDir \in Dirs /\ g \in DOMAIN tables \ Dirs /\ Dirs \subseteq DOMAIN tables
    BY <1>2, <1>3 DEF Dirs, Trees, OneUse
  <1>5. f \in Own(p) /\ f \in handed /\ f \in Frames
    BY <1>1, <1>2, FreeFrames DEF Own, Holds, HasPhys, OneUse, Types
  <1>6. DOMAIN tables \subseteq Int
    BY <1>2, FreeFrames, KerDirAssumption, SizeAssumption DEF OneUse, Types, Frames, FrameRange
  <1>7. FirstEntry(tables', tables, g, f)
    BY <1>1, <1>4, <1>5, <1>6, MapOne, Zenon
  <1>8. /\ given'[p] = Set(given[p], <<n, 0>>, f)
        /\ \A q \in Programs : q # p => given'[q] = given[q] /\ pc'[q] = pc[q]
        /\ pc'[p] \in {"user", "ready"}
    BY <1>1, <1>2 DEF Types
  <1>9. /\ DOMAIN given'[p] = DOMAIN given[p] \cup {<<n, 0>>} /\ given'[p][<<n, 0>>] = f
        /\ \A pg \in DOMAIN given[p] : pg # <<n, 0>> => given'[p][pg] = given[p][pg]
    BY <1>8 DEF Set
  <1>10. Types'
    BY <1>1, <1>2 DEF Types, Places, UserPages, Slots, KernelSlots
  <1> HIDE DEF c, n, g, f
  <1>11. DOMAIN tables' = DOMAIN tables
    BY <1>7 DEF FirstEntry
  <1>12. \A b \in Dirs : DOMAIN tables'[b] = DOMAIN tables[b]
                         /\ \A d \in DOMAIN tables[b] : tables'[b][d] = tables[b][d]
    BY <1>4, <1>7 DEF FirstEntry
  <1>13. ASSUME NEW b \in Dirs, NEW d \in DOMAIN tables[b], ~(b = c /\ d = n)
         PROVE  /\ DOMAIN tables'[tables[b][d]] = DOMAIN tables[tables[b][d]]
                /\ \A i \in DOMAIN tables[tables[b][d]] : tables'[tables[b][d]][i] = tables[tables[b][d]][i]
    <2>1. tables[b][d] # g /\ tables[b][d] \in DOMAIN tables
      BY <1>2, <1>3, <1>4, <1>13 DEF Trees, g
    <2> QED BY <2>1, <1>7 DEF FirstEntry
  <1>14. Dirs' = Dirs
    BY <1>1 DEF Dirs
  <1>15. OneUse'
    <2>1. UserFrames(p)' \subseteq UserFrames(p) \cup {f}
      BY <1>9 DEF UserFrames
    <2>2. \A q \in Programs : q # p =>
            Holds(q)' = Holds(q) /\ HasPhys(q)' = HasPhys(q) /\ UserFrames(q)' = UserFrames(q)
      BY <1>1, <1>8 DEF Holds, HasPhys, UserFrames
    <2>3. Holds(p)' = {} /\ pc'[p] # "use"
      BY <1>1, <1>3, <1>8 DEF Holds, HasPhys, Busy
    <2>4. \A q \in Programs : Own(q)' \subseteq Own(q)
      BY <1>5, <2>1, <2>2, <2>3 DEF Own
    <2>5. /\ handed' \subseteq FreeMemory(map)'
          /\ KerDir \in DOMAIN tables' /\ DOMAIN tables' \subseteq handed' \cup {KerDir}
      BY <1>1, <1>2, <1>11 DEF OneUse
    <2>6. /\ \A q \in Programs : Own(q)' \subseteq handed' \ DOMAIN tables'
          /\ \A q, r \in Programs : q # r => Own(q)' \cap Own(r)' = {}
      BY <1>1, <1>2, <1>11, <2>4 DEF OneUse
    <2>7. \A q \in Programs : pc'[q] = "use" =>
            frame'[q] \notin UserFrames(q)' /\ (HasPhys(q)' => frame'[q] # phys'[q])
      BY <1>1, <1>2, <1>8, <2>2, <2>3 DEF OneUse
    <2> QED BY <2>5, <2>6, <2>7 DEF OneUse
  <1>16. Trees'
    <2>1. /\ \A q \in Programs : cr3'[q] \in DOMAIN tables'
          /\ \A q, r \in Programs : q # r /\ Created(q)' => cr3'[q] # cr3'[r]
      BY <1>1, <1>2, <1>11 DEF Trees, Created
    <2>2. \A b \in Dirs : \A d \in DOMAIN tables'[b] : tables'[b][d] \in DOMAIN tables' \ Dirs
      BY <1>2, <1>11, <1>12 DEF Trees
    <2>3. \A a, b \in Dirs : \A d \in DOMAIN tables'[a], e \in DOMAIN tables'[b] :
            tables'[a][d] = tables'[b][e] => a = b /\ d = e
      BY <1>2, <1>12 DEF Trees
    <2>4. DOMAIN tables'[KerDir] = KernelSlots
      BY <1>2, <1>4, <1>12 DEF Trees
    <2> QED BY <1>14, <2>1, <2>2, <2>3, <2>4 DEF Trees, KernelSlots
  <1>17. /\ \A q \in Programs : cr3'[q] = cr3[q] /\ cr3[q] \in Dirs /\ (q # p => cr3[q] # c)
         /\ UserPages' = UserPages /\ KernelSlots' = KernelSlots
    BY <1>1, <1>2, <1>3 DEF Dirs, c, Trees, UserPages, Slots, KernelSlots
  <1>18. ASSUME NEW q \in Programs PROVE OwnPages(q)'
    <2> DEFINE b == cr3[q]
    <2>1. b \in Dirs /\ cr3'[q] = b /\ OwnPages(q)
      BY <1>17 DEF Spaces
    <2>2. ASSUME NEW d \in DOMAIN tables'[b] \ KernelSlots, NEW i \in DOMAIN tables'[tables'[b][d]]
          PROVE  <<d, i>> \in DOMAIN given'[q] /\ tables'[tables'[b][d]][i] = given'[q][<<d, i>>]
      <3>1. d \in DOMAIN tables[b] /\ tables'[b][d] = tables[b][d]
        BY <2>1, <2>2, <1>12
      <3>2. \A j \in DOMAIN tables[tables[b][d]] :
              <<d, j>> \in DOMAIN given[q] /\ tables[tables[b][d]][j] = given[q][<<d, j>>]
        BY <2>1, <2>2, <3>1 DEF OwnPages
      <3>3. CASE q = p /\ d = n
        <4>1. tables[b][d] = g
          BY <3>3 DEF g, c
        <4>2. i \in DOMAIN tables[g] \cup {0} /\ tables'[g][0] = f
              /\ (i # 0 => i \in DOMAIN tables[g] /\ tables'[g][i] = tables[g][i])
          BY <2>2, <3>1, <4>1, <1>7 DEF FirstEntry
        <4>3. CASE i = 0
          BY <3>1, <3>3, <4>1, <4>2, <4>3, <1>9
        <4>4. CASE i # 0
          <5>1. <<d, i>> # <<n, 0>>
            BY <4>4
          <5> HIDE DEF b
          <5> QED BY <3>1, <3>2, <3>3, <4>1, <4>2, <4>4, <5>1, <1>9
        <4> QED BY <4>3, <4>4
      <3>4. CASE ~(q = p /\ d = n)
        <4>1. ~(b = c /\ d = n)
          BY <3>4, <1>17
        <4>2. i \in DOMAIN tables[tables[b][d]] /\ tables'[tables[b][d]][i] = tables[tables[b][d]][i]
          BY <2>1, <2>2, <3>1, <4>1, <1>13
        <4>3. <<d, i>> \in DOMAIN given[q] /\ tables'[tables'[b][d]][i] = given[q][<<d, i>>]
          BY <3>1, <3>2, <4>2
        <4>4. <<d, i>> \in DOMAIN given'[q] /\ given'[q][<<d, i>>] = given[q][<<d, i>>]
          <5>1. CASE q = p
            <6>1. <<d, i>> # <<n, 0>>
              BY <3>4, <5>1
            <6> QED BY <4>3, <5>1, <6>1, <1>9
          <5>2. CASE q # p
            BY <4>3, <5>2, <1>8
          <5> QED BY <5>1, <5>2
        <4> QED BY <4>3, <4>4
      <3> QED BY <3>3, <3>4
    <2>3. ASSUME NEW pg \in DOMAIN given'[q]
          PROVE  /\ pg \in UserPages /\ pg[1] \in DOMAIN tables'[b]
                 /\ pg[2] \in DOMAIN tables'[tables'[b][pg[1]]]
                 /\ tables'[tables'[b][pg[1]]][pg[2]] = given'[q][pg]
      <3>1. CASE q = p /\ pg = <<n, 0>>
        <4>1. pg[1] = n /\ pg[2] = 0 /\ pg \in UserPages
          BY <3>1, <1>3, SizeAssumption DEF UserPages, Slots
        <4>2. tables'[b][n] = g /\ n \in DOMAIN tables'[b]
          BY <3>1, <2>1, <1>3, <1>12 DEF g, c
        <4>3. 0 \in DOMAIN tables'[g] /\ tables'[g][0] = f
          BY <1>7 DEF FirstEntry
        <4> QED BY <3>1, <4>1, <4>2, <4>3, <1>9
      <3>2. CASE ~(q = p /\ pg = <<n, 0>>)
        <4>1. pg \in DOMAIN given[q] /\ given'[q][pg] = given[q][pg]
          <5>1. CASE q = p
            BY <2>3, <3>2, <5>1, <1>9
          <5>2. CASE q # p
            BY <2>3, <5>2, <1>8
          <5> QED BY <5>1, <5>2
        <4>2. /\ pg \in UserPages /\ pg[1] \in DOMAIN tables[b]
              /\ pg[2] \in DOMAIN tables[tables[b][pg[1]]]
              /\ tables[tables[b][pg[1]]][pg[2]] = given[q][pg]
          BY <2>1, <4>1 DEF OwnPages, Mapped, Exists, virt_to_phys
        <4>3. pg[1] \in DOMAIN tables'[b] /\ tables'[b][pg[1]] = tables[b][pg[1]]
          BY <2>1, <4>2, <1>12
        <4>4. /\ pg[2] \in DOMAIN tables'[tables[b][pg[1]]]
              /\ tables'[tables[b][pg[1]]][pg[2]] = tables[tables[b][pg[1]]][pg[2]]
          <5>1. CASE q = p /\ pg[1] = n
            <6>1. tables[b][pg[1]] = g
              BY <5>1 DEF g, c
            <6>2. pg[2] # 0
              BY <3>2, <4>2, <5>1 DEF UserPages
            <6> QED BY <4>2, <6>1, <6>2, <1>7 DEF FirstEntry
          <5>2. CASE ~(q = p /\ pg[1] = n)
            <6>1. ~(b = c /\ pg[1] = n)
              BY <5>2, <1>17
            <6> QED BY <2>1, <4>2, <6>1, <1>13
          <5> QED BY <5>1, <5>2
        <4> QED BY <4>1, <4>2, <4>3, <4>4
      <3> QED BY <3>1, <3>2
    <2> HIDE DEF b
    <2> QED BY <2>1, <2>2, <2>3, <1>17 DEF OwnPages, Mapped, Exists, virt_to_phys
  <1>19. ASSUME NEW q \in Programs PROVE Copied(q)'
    <2>1. Copied(q) /\ DOMAIN tables[KerDir] = KernelSlots /\ cr3[q] \in Dirs
      BY <1>2, <1>17 DEF Spaces, Trees
    <2> SUFFICES ASSUME NEW d \in DOMAIN tables'[cr3[q]] \cap KernelSlots
                 PROVE  SameTable(tables[cr3[q]][d], tables[KerDir][d])'
      BY <1>17 DEF Copied
    <2>2. d \in DOMAIN tables[cr3[q]] /\ d \in DOMAIN tables[KerDir] /\ d # n
      BY <2>1, <1>3, <1>12
    <2>3. SameTable(tables[cr3[q]][d], tables[KerDir][d])
      BY <2>1, <2>2 DEF Copied
    <2>4. tables'[cr3[q]][d] = tables[cr3[q]][d] /\ tables'[KerDir][d] = tables[KerDir][d]
      BY <2>1, <2>2, <1>4, <1>12
    <2>5. /\ DOMAIN tables'[tables[cr3[q]][d]] = DOMAIN tables[tables[cr3[q]][d]]
          /\ \A i \in DOMAIN tables[tables[cr3[q]][d]] :
               tables'[tables[cr3[q]][d]][i] = tables[tables[cr3[q]][d]][i]
      BY <2>1, <2>2, <1>13
    <2>6. /\ DOMAIN tables'[tables[KerDir][d]] = DOMAIN tables[tables[KerDir][d]]
          /\ \A i \in DOMAIN tables[tables[KerDir][d]] :
               tables'[tables[KerDir][d]][i] = tables[tables[KerDir][d]][i]
      BY <2>2, <1>4, <1>13
    <2> QED BY <2>3, <2>4, <2>5, <2>6, <1>17 DEF SameTable
  <1>20. \A q \in Programs : Progress(q)'
    <2>1. \A q \in Programs : DOMAIN tables'[cr3'[q]] = DOMAIN tables[cr3[q]]
      BY <1>12, <1>17
    <2>2. ASSUME NEW q \in Programs, q # p PROVE Progress(q)'
      <3>1. Progress(q) /\ pc'[q] = pc[q] /\ given'[q] = given[q]
        BY <2>2, <1>8 DEF Spaces
      <3> QED BY <1>1, <1>17, <2>1, <3>1 DEF Progress, Created, Busy
    <2>3. Progress(p)'
      BY <1>1, <1>2, <1>3, <1>8, <1>17, <2>1 DEF Progress, Created, Busy, c
    <2> QED BY <2>2, <2>3
  <1> QED BY <1>10, <1>15, <1>16, <1>18, <1>19, <1>20 DEF Spaces

----------------------------------------------------------------------------
(* Every action.                                                            *)

\* pg_clone_page_dir goes on with the least kernel slot not below n, or is done.
LEMMA CloneNext ==
  ASSUME Spaces, NEW p \in Programs, NEW n \in Int, CloneFrom(p, n)
  PROVE  /\ \A q \in Programs : q # p => pc'[q] = pc[q] /\ goal'[q] = goal[q] /\ slot'[q] = slot[q]
         /\ pc' \in [Programs -> Places] /\ goal' \in [Programs -> {"dir", "table", "page", "pgtbl"}]
         /\ DOMAIN slot' = Programs /\ slot' = [q \in Programs |-> slot'[q]]
         /\ \/ pc'[p] = "ready" /\ goal'[p] = goal[p] /\ \A d \in KernelSlots : d < n
            \/ /\ pc'[p] = "find" /\ goal'[p] = "table"
               /\ slot'[p] \in KernelSlots /\ \A d \in KernelSlots : d < slot'[p] => d < n
  <1>1. Types /\ DOMAIN tables[KerDir] = KernelSlots /\ KernelSlots \subseteq Int
    BY KernelSlotsInt DEF Spaces, Trees
  <1>2. CASE Later(n) = {}
    <2>1. \A d \in KernelSlots : d < n
      BY <1>1, <1>2 DEF Later
    <2>2. pc' = [pc EXCEPT ![p] = "ready"] /\ UNCHANGED <<goal, slot>>
      BY <1>2 DEF CloneFrom, Go
    <2> QED BY <1>1, <2>1, <2>2 DEF Types, Places
  <1>3. CASE Later(n) # {}
    <2> DEFINE k == CHOOSE k \in Later(n) : \A j \in Later(n) : k <= j
    <2>1. Later(n) = {d \in KernelSlots : d >= n}
      BY <1>1 DEF Later
    <2>2. k \in Later(n) /\ \A j \in Later(n) : k <= j
      BY <1>3, <2>1, NextSlot
    <2>3. /\ pc' = [pc EXCEPT ![p] = "find"] /\ goal' = [goal EXCEPT ![p] = "table"]
          /\ slot' = [slot EXCEPT ![p] = k]
      BY <1>3 DEF CloneFrom, Allocate, Go
    <2> HIDE DEF k
    <2>4. k \in KernelSlots /\ \A d \in KernelSlots : d < k => d < n
      <3>1. \A d \in KernelSlots : d \in Int /\ (d >= n => k <= d)
        BY <1>1, <2>1, <2>2
      <3>2. k \in KernelSlots /\ k \in Int
        BY <1>1, <2>1, <2>2
      <3> QED BY <3>1, <3>2
    <2> QED BY <1>1, <2>3, <2>4 DEF Types, Places
  <1> QED BY <1>2, <1>3

\* Every step of a program's context keeps the address spaces right.
LEMMA SpaceNext == HandInv /\ SpaceInv /\ [Next]_vars => SpaceInv'
  <1> SUFFICES ASSUME HandInv, SpaceInv, [Next]_vars, Sound' PROVE Spaces'
    BY DEF SpaceInv
  <1>1. CASE UNCHANGED vars
    <2>1. Spaces
      BY <1>1 DEF SpaceInv, Sound, vars
    <2>2. Types' /\ OneUse' /\ \A p \in Programs : Progress(p)'
      <3>1. UNCHANGED <<map, tables, pc, goal, frame, phys, page, slot, cr3, handed, given>>
        BY <1>1 DEF vars
      <3>2. Types'
        BY <2>1, <3>1 DEF Spaces, Types, UserPages, Slots, KernelSlots
      <3>3. \A p \in Programs : Own(p)' = Own(p) /\ UserFrames(p)' = UserFrames(p)
                                /\ HasPhys(p)' = HasPhys(p)
        BY <3>1 DEF Own, Holds, HasPhys, UserFrames
      <3>4. OneUse'
        BY <2>1, <3>1, <3>3 DEF Spaces, OneUse
      <3>5. \A p \in Programs : Progress(p)'
        BY <2>1, <3>1 DEF Spaces, Progress, Created, Busy
      <3> QED BY <3>2, <3>4, <3>5
    <2>3. UNCHANGED <<tables, cr3, given>>
      BY <1>1 DEF vars
    <2> QED BY <2>1, <2>2, <2>3, TablesSame DEF Spaces
  <1>2. ASSUME NEW p \in Programs, ProgramStep(p) PROVE Spaces'
    <2>0. Sound
      <3>1. CASE frame_bmp_get_first(p)
        <4>1. trampled' = trampled
          BY <3>1 DEF frame_bmp_get_first
        <4>2. raced' = raced \/ raced' = (raced \/ \E q \in Programs : pc[q] = "mark")
          BY <3>1, Zenon DEF frame_bmp_get_first
        <4>3. ~trampled
          BY <4>1 DEF Sound
        <4>4. ASSUME raced' = raced PROVE ~raced
          BY <4>4 DEF Sound
        <4>5. ASSUME raced' = (raced \/ \E q \in Programs : pc[q] = "mark") PROVE ~raced
          BY <4>5, Zenon DEF Sound
        <4>6. ~raced
          BY <4>2, <4>4, <4>5, Zenon DEF Sound
        <4> QED BY <4>3, <4>6 DEF Sound
      <3>2. CASE frame_bmp_set(p)
        BY <3>2, Zenon DEF Sound, frame_bmp_set
      <3>3. CASE UNCHANGED <<raced, trampled>>
        BY <3>3, Zenon DEF Sound
      <3> QED BY <1>2, <3>1, <3>2, <3>3 DEF ProgramStep, utask_create, pg_clone_page_dir,
                pg_clone_page_table, elf_load_fails, elf_load_segment, utask_stack, pg_alloc,
                pg_mk_pgtbl, pg_map_pages, bits
    <2>1. Spaces /\ Types /\ Progress(p) /\ ~raced
      BY <2>0 DEF SpaceInv, Spaces, Sound
    <2>2. CASE utask_create(p)
      <3>1. /\ pc[p] = "none" /\ pc' = [pc EXCEPT ![p] = "find"] /\ goal' = [goal EXCEPT ![p] = "dir"]
            /\ UNCHANGED <<map, tables, frame, phys, page, slot, cr3, given, handed>>
        BY <2>2 DEF utask_create, Allocate, Go, alloc, bits
      <3>2. Types' /\ pc'[p] = "find" /\ goal'[p] = "dir"
        BY <2>1, <3>1 DEF Types, Places, UserPages, Slots, KernelSlots
      <3>3. Progress(p)' /\ ~HasPhys(p)'
        BY <2>1, <3>1, <3>2 DEF Progress, Created, Busy, HasPhys
      <3>4. \A q \in Programs : q # p => pc'[q] = pc[q] /\ goal'[q] = goal[q]
        BY <2>1, <3>1 DEF Types
      <3> QED BY <2>1, <3>1, <3>2, <3>3, <3>4, QuietStep
    <2>3. CASE frame_bmp_get_first(p)
      <3>1. UNCHANGED <<map, tables, goal, phys, page, slot, cr3, given, handed>> /\ pc[p] = "find"
        BY <2>3 DEF frame_bmp_get_first
      <3>2. \/ \E f \in FirstFree(map, bitmap) : frame' = [frame EXCEPT ![p] = f]
                                                 /\ pc' = [pc EXCEPT ![p] = "mark"]
            \/ UNCHANGED <<frame, pc>>
        BY <2>3 DEF frame_bmp_get_first, Go, alloc
      <3>3. FirstFree(map, bitmap) \subseteq Int
        BY DEF FirstFree, Scanned
      <3>4. Types' /\ pc'[p] \in {"find", "mark"}
        BY <2>1, <3>1, <3>2, <3>3 DEF Types, Places, UserPages, Slots, KernelSlots
      <3>5. Progress(p)'
        BY <2>1, <3>1, <3>4 DEF Progress, Created, Busy
      <3>6. HasPhys(p)' => phys'[p] \in Holds(p)
        BY <3>1, <3>4 DEF HasPhys, Holds, Busy
      <3>7. \A q \in Programs : q # p => pc'[q] = pc[q] /\ frame'[q] = frame[q]
        BY <2>1, <3>2 DEF Types
      <3> QED BY <2>1, <3>1, <3>4, <3>5, <3>6, <3>7, QuietStep
    <2>4. CASE frame_bmp_set(p)
      BY <2>1, <2>4, SetStep DEF Sound
    <2>5. CASE pg_clone_page_dir(p)
      <3>1. /\ pc[p] = "use" /\ goal[p] = "dir" /\ CloneFrom(p, 0)
            /\ tables' = With(tables, frame[p], << >>) /\ cr3' = [cr3 EXCEPT ![p] = frame[p]]
            /\ UNCHANGED <<map, handed, given, frame, phys, page>>
        BY <2>5 DEF pg_clone_page_dir, alloc, bits
      <3>2. 0 \in KernelSlots /\ ~(0 < 0) /\ KernelSlots \subseteq Int
        BY KernelSlotsInt DEF KernelSlots
      <3>3. /\ \A q \in Programs : q # p => pc'[q] = pc[q] /\ goal'[q] = goal[q] /\ slot'[q] = slot[q]
            /\ pc' \in [Programs -> Places] /\ goal' \in [Programs -> {"dir", "table", "page", "pgtbl"}]
            /\ DOMAIN slot' = Programs /\ slot' = [q \in Programs |-> slot'[q]]
            /\ pc'[p] = "find" /\ goal'[p] = "table"
            /\ slot'[p] \in KernelSlots /\ \A d \in KernelSlots : d < slot'[p] => d < 0
        BY <2>1, <3>1, <3>2, CloneNext
      <3>4. \A d \in KernelSlots : ~(d < 0)
        BY SizeAssumption DEF KernelSlots
      <3>5. Types'
        BY <2>1, <3>1, <3>3 DEF Types, UserPages, Slots, KernelSlots
      <3>6. ~HasPhys(p)'
        BY <3>3 DEF HasPhys
      <3>7. cr3'[p] # KerDir /\ DOMAIN given[p] = {} => Progress(p)'
        BY <3>1, <3>3, <3>4 DEF Progress, Created, Busy, KernelSlots
      <3> QED BY <2>1, <3>1, <3>3, <3>5, <3>6, <3>7, DirStep
    <2>6. CASE pg_clone_page_table(p)
      <3> DEFINE copy == tables[tables[KerDir][slot[p]]]
      <3>1. /\ pc[p] = "use" /\ goal[p] = "table" /\ CloneFrom(p, slot[p] + 1)
            /\ tables' = With(With(tables, frame[p], copy), cr3[p], Set(tables[cr3[p]], slot[p], frame[p]))
            /\ UNCHANGED <<map, handed, cr3, given, frame, phys, page>>
        BY <2>6 DEF pg_clone_page_table, alloc, bits
      <3>2. /\ slot[p] \in KernelSlots /\ slot[p] \in Int /\ slot[p] + 1 \in Int /\ Created(p)
            /\ \A d \in KernelSlots : d \in Int /\ (d < slot[p] => d \in DOMAIN tables[cr3[p]])
        <4>1. slot[p] \in KernelSlots /\ Created(p)
              /\ \A d \in KernelSlots : d < slot[p] => d \in DOMAIN tables[cr3[p]]
          BY <2>1, <3>1 DEF Progress, Busy
        <4>2. \A d \in KernelSlots : d \in Int
          BY KernelSlotsInt
        <4>3. slot[p] \in Int /\ slot[p] + 1 \in Int
          BY <4>1, <4>2
        <4> QED BY <4>1, <4>2, <4>3, Zenon
      <3>3. /\ \A q \in Programs : q # p => pc'[q] = pc[q] /\ goal'[q] = goal[q] /\ slot'[q] = slot[q]
            /\ pc' \in [Programs -> Places] /\ goal' \in [Programs -> {"dir", "table", "page", "pgtbl"}]
            /\ DOMAIN slot' = Programs /\ slot' = [q \in Programs |-> slot'[q]]
            /\ \/ pc'[p] = "ready" /\ goal'[p] = goal[p] /\ \A d \in KernelSlots : d < slot[p] + 1
               \/ /\ pc'[p] = "find" /\ goal'[p] = "table"
                  /\ slot'[p] \in KernelSlots /\ \A d \in KernelSlots : d < slot'[p] => d < slot[p] + 1
        BY <2>1, <3>1, <3>2, CloneNext
      <3>4. Types'
        BY <2>1, <3>1, <3>3 DEF Types, UserPages, Slots, KernelSlots
      <3>5. ~HasPhys(p)' /\ pc'[p] # "use"
        BY <3>1, <3>3 DEF HasPhys
      <3>6. ASSUME DOMAIN tables'[cr3[p]] = DOMAIN tables[cr3[p]] \cup {slot[p]} PROVE Progress(p)'
        <4>1. \A d \in KernelSlots : d < slot[p] + 1 => d \in DOMAIN tables'[cr3'[p]]
          BY <3>1, <3>2, <3>6
        <4>2. Created(p)' /\ KernelSlots' = KernelSlots
          BY <3>1, <3>2 DEF Created, KernelSlots
        <4> QED BY <3>1, <3>3, <4>1, <4>2 DEF Progress, Busy
      <3> HIDE DEF copy
      <3>7. copy = tables[tables[KerDir][slot[p]]]
        BY DEF copy
      <3> QED BY <2>1, <3>1, <3>2, <3>3, <3>4, <3>5, <3>6, <3>7, GrowStep
    <2>7. CASE elf_load_fails(p)
      <3>1. /\ pc[p] = "ready" /\ pc' = [pc EXCEPT ![p] = "exited"]
            /\ UNCHANGED <<map, tables, goal, frame, phys, page, slot, cr3, given, handed>>
        BY <2>7 DEF elf_load_fails, Go, alloc, bits
      <3>2. Types' /\ pc'[p] = "exited"
        BY <2>1, <3>1 DEF Types, Places, UserPages, Slots, KernelSlots
      <3>3. Progress(p)' /\ ~HasPhys(p)'
        BY <2>1, <3>1, <3>2 DEF Progress, Created, Busy, HasPhys
      <3>4. \A q \in Programs : q # p => pc'[q] = pc[q]
        BY <2>1, <3>1 DEF Types
      <3> QED BY <2>1, <3>1, <3>2, <3>3, <3>4, QuietStep
    <2>8. CASE elf_load_segment(p) \/ utask_stack(p)
      <3>1. /\ pc[p] = "ready" /\ pc' = [pc EXCEPT ![p] = "find"] /\ goal' = [goal EXCEPT ![p] = "page"]
            /\ \E pg \in SegmentPages \cup {StackPage} : page' = [page EXCEPT ![p] = pg]
            /\ UNCHANGED <<map, tables, frame, phys, slot, cr3, given, handed>>
        BY <2>8 DEF elf_load_segment, utask_stack, Allocate, Go, alloc, bits
      <3>2. Types' /\ pc'[p] = "find" /\ goal'[p] = "page"
        BY <2>1, <3>1, PageAssumption DEF Types, Places, UserPages, Slots, KernelSlots
      <3>3. Progress(p)' /\ ~HasPhys(p)'
        BY <2>1, <3>1, <3>2 DEF Progress, Created, Busy, HasPhys
      <3>4. \A q \in Programs : q # p => pc'[q] = pc[q] /\ goal'[q] = goal[q] /\ page'[q] = page[q]
        BY <2>1, <3>1 DEF Types
      <3> QED BY <2>1, <3>1, <3>2, <3>3, <3>4, QuietStep
    <2>9. CASE pg_alloc(p)
      <3>1. /\ pc[p] = "use" /\ goal[p] = "page" /\ phys' = [phys EXCEPT ![p] = frame[p]]
            /\ \/ /\ page[p][1] \in DOMAIN tables[cr3[p]]
                  /\ pc' = [pc EXCEPT ![p] = "map"] /\ goal' = goal
               \/ /\ page[p][1] \notin DOMAIN tables[cr3[p]]
                  /\ pc' = [pc EXCEPT ![p] = "find"] /\ goal' = [goal EXCEPT ![p] = "pgtbl"]
            /\ UNCHANGED <<map, tables, frame, page, slot, cr3, given, handed>>
        BY <2>9 DEF pg_alloc, Allocate, Go, Exists, alloc, bits
      <3>2. /\ Types' /\ phys'[p] = frame[p]
            /\ \/ pc'[p] = "map" /\ goal'[p] = "page" /\ page[p][1] \in DOMAIN tables[cr3[p]]
               \/ pc'[p] = "find" /\ goal'[p] = "pgtbl" /\ page[p][1] \notin DOMAIN tables[cr3[p]]
        BY <2>1, <3>1 DEF Types, Places, UserPages, Slots, KernelSlots
      <3>3. Progress(p)' /\ phys'[p] \in Holds(p)
        BY <2>1, <3>1, <3>2 DEF Progress, Created, Busy, Holds
      <3>4. \A q \in Programs : q # p => pc'[q] = pc[q] /\ goal'[q] = goal[q] /\ phys'[q] = phys[q]
        BY <2>1, <3>1 DEF Types
      <3>5. pc'[p] # "use"
        BY <3>2
      <3> QED BY <2>1, <3>1, <3>2, <3>3, <3>4, <3>5, QuietStep
    <2>10. CASE pg_mk_pgtbl(p)
      <3> DEFINE n == page[p][1]
      <3>1. /\ pc[p] = "use" /\ goal[p] = "pgtbl" /\ pc' = [pc EXCEPT ![p] = "map"]
            /\ tables' = With(With(tables, frame[p], << >>), cr3[p], Set(tables[cr3[p]], n, frame[p]))
            /\ UNCHANGED <<map, handed, goal, cr3, given, frame, phys, page, slot>>
        BY <2>10 DEF pg_mk_pgtbl, mk_pgtbl, Go, alloc, bits
      <3>2. /\ Types' /\ pc'[p] = "map"
            /\ \A q \in Programs : q # p => pc'[q] = pc[q] /\ goal'[q] = goal[q] /\ slot'[q] = slot[q]
        BY <2>1, <3>1 DEF Types, Places, UserPages, Slots, KernelSlots
      <3>3. n \notin KernelSlots /\ n \notin DOMAIN tables[cr3[p]] /\ Created(p) /\ HasPhys(p)
            /\ KernelSlots \subseteq DOMAIN tables[cr3[p]]
        BY <2>1, <3>1 DEF Types, UserPages, Progress, Busy, HasPhys
      <3>4. DOMAIN tables'[cr3[p]] = DOMAIN tables[cr3[p]] \cup {n} => Progress(p)'
        BY <3>1, <3>2, <3>3 DEF Progress, Created, Busy, KernelSlots
      <3> HIDE DEF n
      <3> QED BY <2>1, <3>1, <3>2, <3>3, <3>4, NoEntry, GrowStep
    <2>11. CASE pg_map_pages(p)
      BY <2>1, <2>11, MapStep
    <2> QED BY <1>2, <2>2, <2>3, <2>4, <2>5, <2>6, <2>7, <2>8, <2>9, <2>10, <2>11 DEF ProgramStep
  <1> QED BY <1>1, <1>2 DEF Next

\* The address spaces of programs do not share a frame or a page table with each
\* other or with the kernel's directory (pg_make_user_page_dir, pg_alloc,
\* pg_map_pages), for any number of programs, segments and memory maps, until
\* two allocations race or a frame outside free memory is used.
THEOREM Isolation == Spec => []Isolated
  <1>1. ASSUME Spaces PROVE Isolated
    <2> SUFFICES ASSUME NEW p \in Programs, NEW q \in Programs, p # q
                 PROVE  /\ \A f \in UserFrames(p) : ~Reaches(cr3[q], f) /\ ~Reaches(KerDir, f)
                        /\ Created(p) =>
                             \A d \in DOMAIN tables[cr3[p]], e \in DOMAIN tables[cr3[q]] :
                               tables[cr3[p]][d] # tables[cr3[q]][e]
      BY DEF Isolated
    <2>1. \A f : Reaches(cr3[q], f) => f \in UserFrames(q)
      <3> SUFFICES ASSUME NEW d \in DOMAIN tables[cr3[q]] \ KernelSlots,
                          NEW i \in DOMAIN tables[tables[cr3[q]][d]]
                   PROVE  tables[tables[cr3[q]][d]][i] \in UserFrames(q)
        BY DEF Reaches
      <3>1. <<d, i>> \in DOMAIN given[q] /\ tables[tables[cr3[q]][d]][i] = given[q][<<d, i>>]
        BY <1>1 DEF Spaces, OwnPages
      <3> QED BY <3>1 DEF UserFrames
    <2>2. UserFrames(p) \cap UserFrames(q) = {}
      BY <1>1 DEF Spaces, OneUse, Own
    <2>3. \A f : ~Reaches(KerDir, f)
      BY <1>1 DEF Spaces, Trees, Reaches
    <2>4. Created(p) => \A d \in DOMAIN tables[cr3[p]], e \in DOMAIN tables[cr3[q]] :
                          tables[cr3[p]][d] # tables[cr3[q]][e]
      BY <1>1 DEF Spaces, Trees, Dirs
    <2> QED BY <2>1, <2>2, <2>3, <2>4
  <1>2. SpaceInv => Isolated
    BY <1>1 DEF SpaceInv, Isolated
  <1> QED BY HandInit, HandNext, SpaceInit, SpaceNext, <1>2, PTL DEF Spec

\* Every page a program was given resolves to its frame in the program's own
\* directory, and a finished directory maps what the kernel's does
\* (pg_clone_page_dir), for any number of programs, segments and memory maps,
\* under the same provisos.
THEOREM SpacesStayRight == Spec => []SpacesRight
  <1>1. ASSUME Spaces PROVE PageInPlace
    BY <1>1 DEF Spaces, OwnPages, PageInPlace
  <1>2. ASSUME Spaces PROVE KernelMapped
    <2> SUFFICES ASSUME NEW p \in Programs, Created(p), goal[p] \notin {"dir", "table"},
                        NEW d \in DOMAIN tables[KerDir], NEW i \in DOMAIN tables[tables[KerDir][d]]
                 PROVE  /\ Mapped(tables, cr3[p], <<d, i>>)
                        /\ virt_to_phys(tables, cr3[p], <<d, i>>) = virt_to_phys(tables, KerDir, <<d, i>>)
      BY DEF KernelMapped
    <2>1. d \in KernelSlots /\ d \in DOMAIN tables[cr3[p]]
      BY <1>2 DEF Spaces, Trees, Types, Progress
    <2>2. SameTable(tables[cr3[p]][d], tables[KerDir][d])
      BY <1>2, <2>1 DEF Spaces, Copied
    <2> QED BY <2>1, <2>2 DEF SameTable, Mapped, Exists, virt_to_phys
  <1>3. SpaceInv => SpacesRight
    BY <1>1, <1>2 DEF SpaceInv, SpacesRight, PageInPlace, KernelMapped
  <1> QED BY HandInit, HandNext, SpaceInit, SpaceNext, <1>3, PTL DEF Spec
=============================================================================
