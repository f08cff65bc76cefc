-------------------------------- MODULE Heap --------------------------------
(***************************************************************************)
(* The kernel heap (kernel/mem/heap.c): first fit on a sorted, doubly      *)
(* linked list of free blocks that heap_free coalesces, and a list of the  *)
(* allocated blocks that remembers their sizes.  List nodes come from      *)
(* pmalloc and are never reused.  Each call is one step here.              *)
(*                                                                         *)
(* Page 0 is mapped, so the code's accesses through a NULL node reach low  *)
(* memory: it is one more node, whose contents are not a block of the heap.*)
(***************************************************************************)
EXTENDS Integers, FiniteSets

CONSTANTS HeapSize,       \* HEAP_INITIAL_SIZE; addresses count from HEAP_START
          Screen,         \* size of the first block: the back buffer of vesa_init
          Sizes,          \* what callers pass to kmalloc
          W,              \* size_t is computed modulo 2^32
          MaxNodes        \* bound: nodes made by pmalloc

ASSUME SizeAssumption == /\ HeapSize \in Nat /\ Screen \in 1..(HeapSize - 1)
                         /\ W \in Nat /\ W > HeapSize + 1
                         /\ Sizes \subseteq Nat /\ MaxNodes \in Nat \ {0, 1}

VARIABLES node,           \* the list nodes, by their number
          made,           \* nodes made so far
          free_ll, alloc_ll,
          held,           \* history: <<addr, size>> the callers own
          stale,          \* history: coalescing has left a prev link wrong
          low_used,       \* history: a free has used low memory as a node
          lost            \* history: a free did not find its block's size

vars == <<node, made, free_ll, alloc_ll, held, stale, low_used, lost>>

NULL == 0
Wild == MaxNodes + 1      \* what low memory holds before the code writes there
Nodes == 1..MaxNodes
Ends == HeapSize + 1      \* an address above every block

Block(a, s, p, n) == [addr |-> a, size |-> s, prev |-> p, next |-> n]

\* heap_create, and the first kmalloc of the boot, which is never freed.
Init ==
  /\ node = [n \in 0..MaxNodes |->
                CASE n = 1 -> Block(Screen, HeapSize - Screen, NULL, NULL)
                  [] n = 2 -> Block(0, Screen, NULL, NULL)
                  [] n = NULL -> Block(Ends, 0, Wild, Wild)
                  [] OTHER -> Block(0, 0, NULL, NULL)]
  /\ made = 2 /\ free_ll = 1 /\ alloc_ll = 2
  /\ held = {<<0, Screen>>}
  /\ stale = FALSE /\ low_used = FALSE /\ lost = FALSE

----------------------------------------------------------------------------
(* Following next from a node, and the first node of S met on the way.      *)
Hops(start) ==
  LET hop[k \in 0..MaxNodes] ==
        IF k = 0 THEN start
        ELSE IF hop[k - 1] \in Nodes THEN node[hop[k - 1]].next ELSE NULL
  IN  hop

\* Empty if the walk never ends.
First(start, S) ==
  LET hop == Hops(start)
  IN  {hop[k] : k \in {j \in 0..MaxNodes : /\ hop[j] \in S
                                          /\ \A i \in 0..(j - 1) : hop[i] \notin S}}

OnList(start) == LET hop == Hops(start) IN {hop[k] : k \in 0..MaxNodes} \ {NULL, Wild}

heap_first_fit_any(size) == First(free_ll, {NULL} \cup Nodes)

heap_first_fit(size) == First(free_ll, {NULL} \cup {n \in Nodes : node[n].size >= size})

\* Every free block's successor points back to it.
BackLinked == \A n \in OnList(free_ll) :
                node[n].next \in Nodes => node[node[n].next].prev = n

----------------------------------------------------------------------------
(* heap_alloc                                                               *)

Saved_not_linked(a, n, addr, size) == [node EXCEPT ![a] = Block(addr, size, n, NULL)]

\* heap_save_allocated_block: node a becomes the last of the list that ends in n.
Saved(a, n, addr, size) ==
  [node EXCEPT ![n].next = a, ![a] = Block(addr, size, n, NULL)]

\* A block that fits exactly leaves the list.
Unlinked(nodes, n) ==
  LET p == nodes[n].prev
      q == nodes[n].next
      ahead == IF p # NULL THEN [nodes EXCEPT ![p].next = q] ELSE nodes
  IN  IF q # NULL THEN [ahead EXCEPT ![q].prev = p] ELSE ahead

heap_alloc(size) ==
  \E n \in heap_first_fit(size) \ {NULL} :
    /\ made < MaxNodes
    /\ made' = made + 1
    /\ \E tail \in First(alloc_ll, {m \in Nodes : node[m].next = NULL}) :
         LET saved == Saved(made', tail, node[n].addr, size)
         IN  IF size < saved[n].size
             THEN /\ node' = [saved EXCEPT ![n].addr = (@ + size) % W, ![n].size = @ - size]
                  /\ UNCHANGED free_ll
             ELSE /\ node' = Unlinked(saved, n)
                  /\ free_ll' = IF saved[n].prev = NULL THEN saved[n].next ELSE free_ll
    /\ held' = held \cup {<<node[n].addr, size>>}
    /\ UNCHANGED <<alloc_ll, stale, low_used, lost>>

----------------------------------------------------------------------------
(* heap_free                                                                *)

\* heap_forget_allocated_block: the node with that address leaves the list (the
\* head stays in place); -1 is returned if there is none.
Forgotten(a) == IF a = NULL THEN node
                ELSE [node EXCEPT ![node[a].next].prev = node[a].prev,
                                  ![node[a].prev].next = node[a].next]
SizeOf(a) == IF a = NULL THEN W - 1 ELSE node[a].size

\* The new node f goes in front of the free block n.
Inserted(nodes, f, n, addr, size) ==
  LET p == nodes[n].prev
      filled == [nodes EXCEPT ![f] = Block(addr, size, p, n), ![n].prev = f]
  IN  IF p # NULL THEN [filled EXCEPT ![p].next = f] ELSE filled

MergedNext_lost(nodes, f) ==
  LET q == nodes[f].next
  IN  IF (nodes[f].addr + nodes[f].size) % W = nodes[q].addr
      THEN [nodes EXCEPT ![f].next = nodes[q].next]
      ELSE nodes
\* Coalescing, with the next block and then with the previous one.
MergedNext(nodes, f) ==
  LET q == nodes[f].next
  IN  IF (nodes[f].addr + nodes[f].size) % W = nodes[q].addr
      THEN [nodes EXCEPT ![f].size = (@ + nodes[q].size) % W, ![f].next = nodes[q].next]
      ELSE nodes
MergedPrev(nodes, f) ==
  LET p == nodes[f].prev
  IN  IF (nodes[p].addr + nodes[p].size) % W = nodes[f].addr
      THEN [nodes EXCEPT ![p].size = (@ + nodes[f].size) % W, ![p].next = nodes[f].next]
      ELSE nodes

heap_free(addr) ==
  \E n \in First(free_ll, {NULL} \cup {m \in Nodes : node[m].addr >= addr}),
     a \in First(alloc_ll, {NULL} \cup {m \in Nodes : node[m].addr = addr}) :
    LET f == made + 1
        rest == Forgotten(a)
        listed == Inserted(rest, f, n, addr, SizeOf(a))
    IN  /\ f <= MaxNodes /\ made' = f
        /\ rest[n].prev # Wild       \* a page fault otherwise
        /\ node' = MergedPrev(MergedNext(listed, f), f)
        /\ free_ll' = IF rest[n].prev = NULL THEN f ELSE free_ll
        /\ stale' = (stale \/ ~BackLinked')
        /\ low_used' = (low_used \/ n = NULL)
        /\ lost' = (lost \/ a = NULL)
        /\ UNCHANGED alloc_ll

kmalloc == \E size \in Sizes : heap_alloc(size)
kfree == \E b \in held \ {<<0, Screen>>} : heap_free(b[1]) /\ held' = held \ {b}

Next == kmalloc \/ kfree

Spec == Init /\ [][Next]_vars

----------------------------------------------------------------------------
Bytes(addr, size) == addr..(addr + size - 1)
FreeBytes == UNION {Bytes(node[n].addr, node[n].size) : n \in OnList(free_ll)}
HeldBytes == UNION {Bytes(b[1], b[2]) : b \in held}
Overlap(b, c) == Bytes(b[1], b[2]) \cap Bytes(c[1], c[2]) # {}

InHeap(b) == b.addr \in Nat /\ b.size \in Nat /\ b.addr + b.size <= HeapSize

\* As long as every free found the size of its block, every block handed out
\* lies inside the heap, and so does every block on a list, even after links
\* went stale and blocks were handed out twice.
InBounds ==
  ~lost => /\ \A b \in held : b[1] + b[2] <= HeapSize
           /\ \A n \in Nodes : InHeap(node[n])

\* As long as no free has used low memory, stale links or not, a free finds the
\* block on the list of allocated blocks.
SizeFound ==
  ~low_used => \A b \in held : NULL \notin First(alloc_ll, {NULL} \cup {m \in Nodes : node[m].addr = b[1]})

\* Until links are stale or low memory is used, every byte of the heap is either
\* on the free list or owned by one caller: nothing is handed out twice,
\* nothing is lost.
Intact == ~stale /\ ~low_used
Conserved ==
  Intact => /\ FreeBytes \cap HeldBytes = {}
            /\ FreeBytes \cup HeldBytes = 0..(HeapSize - 1)
            /\ \A b, c \in held : b # c => ~Overlap(b, c)

\* Until then the free list is sorted, doubly linked, and two neighbours never
\* touch.
Coalesced ==
  Intact => /\ BackLinked
            /\ \A n \in OnList(free_ll) :
                 node[n].next \in Nodes =>
                   node[n].addr + node[n].size < node[node[n].next].addr

\* kmalloc and kfree keep the books: every byte is free or held by one caller,
\* and the free list that says so is sorted, linked both ways and coalesced.
\* It is so as long as no caller asks for 0 bytes: an empty block shares its
\* address with the next one handed out, and a free finds the wrong size.
FreeListRight == Conserved /\ Coalesced

\* heap.h: "Linked list of free blocks".
FreeListIsFree == FreeBytes \cap HeldBytes = {}
=============================================================================
