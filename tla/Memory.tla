------------------------------- MODULE Memory -------------------------------
(***************************************************************************)
(* Physical frames and page tables (kernel/mem/pmm.c, paging.c) as their   *)
(* users drive them: boot, utask_create, which clones the kernel's page    *)
(* directory, and utask_exec, which maps the segments of a program and its *)
(* stack (exec/elf.c).  All of it runs with interrupts enabled, so that    *)
(* the allocations of several programs interleave.                         *)
(*                                                                         *)
(* Addresses are counted in pages of 4 KiB.  A page <<d, i>> is slot i of  *)
(* the page table in slot d of a directory.  A table or a directory is the *)
(* function of its present entries to frames.                              *)
(***************************************************************************)
EXTENDS Integers, FiniteSets, SequencesExt

CONSTANTS Programs,
          Maps,           \* multiboot memory maps to boot with
          WordBits,       \* frames per word of the bitmap: 32
          TableSize,      \* entries of a table: 1024
          KernelStart,    \* where the kernel is loaded: 1 MiB
          KernelFrames,   \* whole frames of the kernel image
          Placement,      \* frames from there on that pmalloc uses
          KerDir,         \* the frame of ker_page_dir, in the image
          HeapStart, Framebuffer,
          SegmentPages,   \* pages the segments of programs ask for
          StackPage,      \* 0xF000000
          MaxSegments     \* bound: segments of a program

VARIABLES map,            \* the memory map of this machine
          bitmap,         \* frames whose bit is set
          tables,         \* contents of the frames used as table or directory
          pc, goal,       \* where a program's context stands, what it allocates for
          seen, frame,    \* its copy of a word of the bitmap, the frame found in it
          phys, page,     \* arguments of its pg_map_pages
          slot,           \* loop variable of pg_clone_page_dir
          loaded,         \* segments loaded so far
          cr3,            \* its page directory
          handed,         \* history: frames frame_alloc has returned
          given,          \* history: the frame last given to each page
          twice,          \* history: a frame was returned twice
          raced,          \* history: two calls of frame_alloc overlapped
          trampled,       \* history: a frame that is not free memory was returned or written
          panicked

bits == <<bitmap, handed, twice, raced, trampled>>
alloc == <<seen, frame>>
vars == <<map, bitmap, tables, pc, goal, seen, frame, phys, page, slot, loaded,
          cr3, handed, given, twice, raced, trampled, panicked>>

FrameRange == TableSize * TableSize
Frames == 0..(FrameRange - 1)
Slots == 0..(TableSize - 1)
None == -1

\* The boot maps these slots for the kernel only (no PG_USER).
KernelSlots == {0, Framebuffer \div TableSize, HeapStart \div TableSize}

ASSUME MapAssumption == Maps \subseteq Seq([start : Nat, pages : Nat, type : Nat])
ASSUME SizeAssumption == TableSize \in Nat \ {0} /\ {HeapStart, Framebuffer} \subseteq Nat

\* Programs and their stack are linked outside the kernel's slots.
ASSUME PageAssumption == SegmentPages \cup {StackPage} \subseteq (Slots \ KernelSlots) \X Slots

----------------------------------------------------------------------------
(* pmm.c.  An entry of the memory map has its first page, its whole pages   *)
(* and its type; only type 1 is available.  Addresses are 32 bits wide.     *)
FramesFrom(start, n) == {(start + k) % FrameRange : k \in 0..(n - 1)}
RegionFrames(e) == FramesFrom(e.start, e.pages)
Regions(m) == {m[k] : k \in DOMAIN m}

ASSUME KerDirAssumption == KerDir \in Int /\ KerDir \in FramesFrom(KernelStart, KernelFrames)

\* In pages: the code adds up bytes and divides.
memory_size(m) == FoldLeft(LAMBDA sum, e : IF e.type = 1 THEN sum + e.pages ELSE sum, 0, m)

\* The loops of pmm_init.  The second one marks the kernel's frames from the
\* start of the map's last entry.
Available(m) == UNION {RegionFrames(e) : e \in {r \in Regions(m) : r.type = 1}}
Reserved(m) == UNION {RegionFrames(e) : e \in {r \in Regions(m) : r.type # 1}}
KernelMarked_short(m) == FramesFrom(Last(m).start, KernelFrames - 1)
KernelMarked(m) == FramesFrom(Last(m).start, KernelFrames)
RegionStarts(m) == {e.start : e \in {r \in Regions(m) : r.type % 2 = 0}}

\* frame_bmp_get_first looks at the whole words below memory_size.
Scanned(m) == 0..((memory_size(m) \div WordBits) * WordBits - 1)
FirstFree_any(m, b) == {f \in Scanned(m) : \A g \in Scanned(m) : f <= g}
FirstFree(m, b) == {f \in Scanned(m) \ b : \A g \in Scanned(m) \ b : f <= g}
Word(f) == {g \in Frames : g \div WordBits = f \div WordBits}

----------------------------------------------------------------------------
(* paging.c.  The kernel uses frames as tables through the mapping of low    *)
(* memory, in which the memory below the kernel lies.                       *)
Exists(t, dir, n) == n \in DOMAIN t[dir]

Mapped(t, dir, pg) == Exists(t, dir, pg[1]) /\ pg[2] \in DOMAIN t[t[dir][pg[1]]]
virt_to_phys(t, dir, pg) == t[t[dir][pg[1]]][pg[2]]

With(t, f, contents) == [g \in DOMAIN t \cup {f} |-> IF g = f THEN contents ELSE t[g]]
Set(tbl, n, f) == [k \in DOMAIN tbl \cup {n} |-> IF k = n THEN f ELSE tbl[k]]

mk_pgtbl(t, dir, n, f) == With(With(t, f, << >>), dir, Set(t[dir], n, f))

map_pages_short(t, dir, n, first, num) ==
  [f \in DOMAIN t |->
    LET base == (f - t[dir][n]) * TableSize
        hit == {k \in Slots : base + k >= 0 /\ base + k < num - 1}
    IN  [k \in DOMAIN t[f] \cup hit |->
          IF k \in hit THEN (first + base + k) % FrameRange ELSE t[f][k]]]

\* pg_map_pages with a table in place: entries are written from slot 0 of that
\* table, whatever page was asked for and whether or not it was mapped; past its
\* end they go to the frame behind it.
map_pages(t, dir, n, first, num) ==
  [f \in DOMAIN t |->
    LET base == (f - t[dir][n]) * TableSize
        hit == {k \in Slots : base + k >= 0 /\ base + k < num}
    IN  [k \in DOMAIN t[f] \cup hit |->
          IF k \in hit THEN (first + base + k) % FrameRange ELSE t[f][k]]]

----------------------------------------------------------------------------
\* Memory nothing else lives in.
FreeMemory(m) == Available(m) \ (FramesFrom(KernelStart, KernelFrames) \cup Placement)

\* The tables pg_init makes for low memory, the framebuffer and the heap.
BootTables(f1, f2, f3) ==
  LET t0 == [f \in {KerDir} |-> << >>]
      fb == Framebuffer \div TableSize
      hp == HeapStart \div TableSize
      t1 == map_pages(mk_pgtbl(t0, KerDir, 0, f1), KerDir, 0, 0, TableSize)
      t2 == map_pages(mk_pgtbl(t1, KerDir, fb, f2), KerDir, fb, Framebuffer, 2 * TableSize)
  IN  map_pages(mk_pgtbl(t2, KerDir, hp, f3), KerDir, hp, HeapStart, TableSize)

\* pmm_init and pg_init.  The boot allocates one frame that nobody uses, then
\* those of the tables; the framebuffer's entries run into the frame behind its
\* table.  A machine on which an allocation finds no frame panics.
Boot ==
  LET marks == Reserved(map) \cup KernelMarked(map)
  IN  \E f0 \in FirstFree(map, marks) :
        LET b0 == marks \cup {f0} \cup RegionStarts(map)
        IN  \E f1 \in FirstFree(map, b0) :
            \E f2 \in FirstFree(map, b0 \cup {f1}) :
            \E f3 \in FirstFree(map, b0 \cup {f1, f2}) :
              /\ bitmap = b0 \cup {f1, f2, f3}
              /\ handed = {f0, f1, f2, f3}
              /\ tables = BootTables(f1, f2, f3)
              /\ trampled = ~({f0, f1, f2, f3, f2 + 1} \subseteq FreeMemory(map))

Init ==
  /\ map \in Maps
  /\ Boot
  /\ pc = [p \in Programs |-> "none"]
  /\ goal = [p \in Programs |-> "dir"]
  /\ seen = [p \in Programs |-> {}]
  /\ frame = [p \in Programs |-> None]
  /\ phys = [p \in Programs |-> None]
  /\ page = [p \in Programs |-> StackPage]
  /\ slot = [p \in Programs |-> 0]
  /\ loaded = [p \in Programs |-> 0]
  /\ cr3 = [p \in Programs |-> KerDir]
  /\ given = [p \in Programs |-> << >>]
  /\ twice = FALSE /\ raced = FALSE
  /\ panicked = FALSE

Go(p, where) == pc' = [pc EXCEPT ![p] = where]
Allocate(p, what) == Go(p, "find") /\ goal' = [goal EXCEPT ![p] = what]

----------------------------------------------------------------------------
(* frame_alloc: the search and the setting of the bit are separate.         *)
frame_bmp_get_first(p) ==
  /\ pc[p] = "find"
  /\ \/ \E f \in FirstFree(map, bitmap) :
          /\ frame' = [frame EXCEPT ![p] = f]
          /\ seen' = [seen EXCEPT ![p] = bitmap \cap Word(f)]
          /\ Go(p, "mark")
          /\ raced' = (raced \/ \E q \in Programs : pc[q] = "mark")
          /\ UNCHANGED panicked
     \/ /\ FirstFree(map, bitmap) = {}          \* panic("No free frames !")
        /\ panicked' = TRUE
        /\ UNCHANGED <<alloc, pc, raced>>
  /\ UNCHANGED <<map, bitmap, tables, goal, phys, page, slot, loaded, cr3, handed,
                 given, twice, trampled>>

\* The word is set in memory, or stored from the copy the search has loaded.
frame_bmp_set(p) ==
  LET f == frame[p]
  IN  /\ pc[p] = "mark"
      /\ bitmap' \in {bitmap \cup {f}, (bitmap \ Word(f)) \cup seen[p] \cup {f}}
      /\ seen' = [seen EXCEPT ![p] = {}]
      /\ handed' = handed \cup {f}
      /\ twice' = (twice \/ f \in handed)
      /\ trampled' = (trampled \/ f \notin FreeMemory(map))
      /\ Go(p, "use")
      /\ UNCHANGED <<map, tables, goal, frame, phys, page, slot, loaded, cr3, given,
                     raced, panicked>>

----------------------------------------------------------------------------
(* utask_create: pg_make_user_page_dir.                                     *)
utask_create(p) ==
  /\ pc[p] = "none"
  /\ Allocate(p, "dir")
  /\ UNCHANGED <<map, tables, alloc, phys, page, slot, loaded, cr3, given, bits, panicked>>

\* The loop of pg_clone_page_dir goes on to the next present entry.
Later(n) == {k \in DOMAIN tables[KerDir] : k >= n}
CloneFrom(p, n) ==
  IF Later(n) = {} THEN Go(p, "ready") /\ UNCHANGED <<goal, slot>>
  ELSE /\ Allocate(p, "table")
       /\ slot' = [slot EXCEPT ![p] = CHOOSE k \in Later(n) : \A j \in Later(n) : k <= j]

pg_clone_page_dir(p) ==
  /\ pc[p] = "use" /\ goal[p] = "dir"
  /\ tables' = With(tables, frame[p], << >>)
  /\ cr3' = [cr3 EXCEPT ![p] = frame[p]]
  /\ CloneFrom(p, 0)
  /\ UNCHANGED <<map, alloc, phys, page, loaded, given, bits, panicked>>

pg_clone_page_table(p) ==
  LET copy == tables[tables[KerDir][slot[p]]]
  IN  /\ pc[p] = "use" /\ goal[p] = "table"
      /\ tables' = With(With(tables, frame[p], copy),
                        cr3[p], Set(tables[cr3[p]], slot[p], frame[p]))
      /\ CloneFrom(p, slot[p] + 1)
      /\ UNCHANGED <<map, alloc, phys, page, loaded, cr3, given, bits, panicked>>

----------------------------------------------------------------------------
(* utask_exec: the task runs, with its own directory current.               *)
\* elf_load refuses the file, or its entry point is 0: the task exits and nothing is given back.
elf_load_fails(p) ==
  /\ pc[p] = "ready"
  /\ Go(p, "exited")
  /\ UNCHANGED <<map, tables, goal, alloc, phys, page, slot, loaded, cr3, given, bits, panicked>>

\* elf_load_segments: the next segment, one page for each.
elf_load_segment(p) ==
  /\ pc[p] = "ready" /\ loaded[p] < MaxSegments
  /\ \E pg \in SegmentPages : page' = [page EXCEPT ![p] = pg]
  /\ loaded' = [loaded EXCEPT ![p] = @ + 1]
  /\ Allocate(p, "page")
  /\ UNCHANGED <<map, tables, alloc, phys, slot, cr3, given, bits, panicked>>

\* The segments are done: utask_exec allocates the stack.
utask_stack(p) ==
  /\ pc[p] = "ready"
  /\ page' = [page EXCEPT ![p] = StackPage]
  /\ Allocate(p, "page")
  /\ UNCHANGED <<map, tables, alloc, phys, slot, loaded, cr3, given, bits, panicked>>

\* pg_alloc has its frame; a table may have to be made first.
pg_alloc(p) ==
  /\ pc[p] = "use" /\ goal[p] = "page"
  /\ phys' = [phys EXCEPT ![p] = frame[p]]
  /\ IF Exists(tables, cr3[p], page[p][1]) THEN Go(p, "map") /\ UNCHANGED goal
     ELSE Allocate(p, "pgtbl")
  /\ UNCHANGED <<map, tables, alloc, page, slot, loaded, cr3, given, bits, panicked>>

pg_mk_pgtbl_ker(p) ==
  /\ pc[p] = "use" /\ goal[p] = "pgtbl"
  /\ tables' = With(mk_pgtbl(tables, cr3[p], page[p][1], frame[p]),
                    KerDir, Set(tables[KerDir], page[p][1], frame[p]))
  /\ Go(p, "map")
  /\ UNCHANGED <<map, goal, alloc, phys, page, slot, loaded, cr3, given, bits, panicked>>

pg_mk_pgtbl(p) ==
  /\ pc[p] = "use" /\ goal[p] = "pgtbl"
  /\ tables' = mk_pgtbl(tables, cr3[p], page[p][1], frame[p])
  /\ Go(p, "map")
  /\ UNCHANGED <<map, goal, alloc, phys, page, slot, loaded, cr3, given, bits, panicked>>

\* The mapping, and the copy of the segment to its page: if that page is not the
\* one that was mapped, the copy faults.
pg_map_pages(p) ==
  /\ pc[p] = "map"
  /\ tables' = map_pages(tables, cr3[p], page[p][1], phys[p], 1)
  /\ given' = [given EXCEPT ![p] = Set(@, <<page[p][1], 0>>, phys[p])]
  /\ panicked' = ~Mapped(tables', cr3[p], page[p])
  /\ Go(p, IF page[p] = StackPage THEN "user" ELSE "ready")
  /\ UNCHANGED <<map, goal, alloc, phys, page, slot, loaded, cr3, bits>>

ProgramStep(p) ==
  \/ utask_create(p) \/ frame_bmp_get_first(p) \/ frame_bmp_set(p)
  \/ pg_clone_page_dir(p) \/ pg_clone_page_table(p)
  \/ elf_load_fails(p) \/ elf_load_segment(p) \/ utask_stack(p)
  \/ pg_alloc(p) \/ pg_mk_pgtbl(p) \/ pg_map_pages(p)

Next == ~panicked /\ \E p \in Programs : ProgramStep(p)

Spec == Init /\ [][Next]_vars

----------------------------------------------------------------------------
\* What follows a race of two allocations, or the use of memory that belongs to
\* something else, is decided by that; the properties speak of what is before.
Sound == ~raced /\ ~trampled

\* frame_alloc returns no frame a second time, whatever the memory map, unless
\* two calls overlap: the boot's marks, the search and the bit agree.
HandedOnce == ~raced => ~twice

\* Where the memory map ends with the region the kernel is loaded to, no whole
\* frame of the kernel is ever returned (the marking loop of pmm_init).
KernelKept ==
  ~raced /\ Last(map).start = KernelStart => handed \cap FramesFrom(KernelStart, KernelFrames) = {}

\* What a program can reach is not in the kernel's slots: pg_alloc makes the
\* others with PG_USER.
Reaches(dir, f) ==
  \E d \in DOMAIN tables[dir] \ KernelSlots : \E i \in DOMAIN tables[tables[dir][d]] : tables[tables[dir][d]][i] = f
Created(p) == cr3[p] # KerDir
UserFrames(p) == {given[p][pg] : pg \in DOMAIN given[p]}

\* What was mapped for one program is neither in another program's address
\* space nor in the kernel's, from which later programs are cloned, and no two
\* directories share a page table.
Isolated ==
  Sound =>
    \A p, q \in Programs : p # q =>
      /\ \A f \in UserFrames(p) : ~Reaches(cr3[q], f) /\ ~Reaches(KerDir, f)
      /\ Created(p) =>
           \A d \in DOMAIN tables[cr3[p]], e \in DOMAIN tables[cr3[q]] :
             tables[cr3[p]][d] # tables[cr3[q]][e]

\* A page a program was given resolves, in its own directory, to the frame it was
\* given last, also after later segments, its stack and other programs' pages.
PageInPlace ==
  Sound =>
    \A p \in Programs : \A pg \in DOMAIN given[p] :
      Mapped(tables, cr3[p], pg) /\ virt_to_phys(tables, cr3[p], pg) = given[p][pg]

\* A finished directory maps low memory, framebuffer and heap as the kernel's
\* own does: an interrupt or system call in any program finds the kernel.
KernelMapped ==
  Sound =>
    \A p \in Programs : Created(p) /\ goal[p] \notin {"dir", "table"} =>
      \A d \in DOMAIN tables[KerDir] : \A i \in DOMAIN tables[tables[KerDir][d]] :
        /\ Mapped(tables, cr3[p], <<d, i>>)
        /\ virt_to_phys(tables, cr3[p], <<d, i>>) = virt_to_phys(tables, KerDir, <<d, i>>)

\* A program's address space is what the loader and the kernel put there: its own
\* pages where it was given them, the kernel's where every handler expects them.
SpacesRight == PageInPlace /\ KernelMapped
=============================================================================
