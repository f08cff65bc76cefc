----------------------------- MODULE HeapProofs -----------------------------
(***************************************************************************)
(* What the heap keeps for every heap size, every request and every order  *)
(* of calls, in three layers that each rest on the one before.             *)
(*                                                                         *)
(* Bounds: as long as every free finds its block's size, nothing beyond    *)
(* the end is handed out.  The invariant is about all nodes, on a list or  *)
(* not: it does not depend on what the links are.                          *)
(*                                                                         *)
(* Books: until low memory is used, the list of the allocated blocks is a  *)
(* doubly linked list that holds every block the callers own, whatever     *)
(* became of the links of the free list.                                   *)
(*                                                                         *)
(* Ledger: until a link is stale, the blocks of the two lists tile the     *)
(* heap, and the free list is sorted and coalesced.                        *)
(***************************************************************************)
EXTENDS Heap, FiniteSetTheorems, WellFoundedInduction, TLAPS

\* What a link may hold, and a node.
Pointers == 0..(MaxNodes + 1)
Record == [addr : Nat, size : Nat, prev : Pointers, next : Pointers]

\* Every node is well-typed and inside the heap, low memory is as the boot left
\* its first two words.
Sound(nodes) ==
  /\ nodes \in [0..MaxNodes -> Record]
  /\ \A n \in Nodes : nodes[n].addr + nodes[n].size <= HeapSize
  /\ nodes[NULL].addr = Ends /\ nodes[NULL].size = 0

\* Until a size is lost, nodes and held blocks are inside the heap.
BoundsInv ==
  /\ lost \in BOOLEAN
  /\ ~lost => /\ Sound(node)
              /\ made \in 0..MaxNodes
              /\ held \subseteq Nat \X Nat
              /\ \A b \in held : b[1] + b[2] <= HeapSize

\* A walk stops at a node it was looking for.
LEMMA FirstIn ==
  ASSUME NEW start, NEW S PROVE First(start, S) \subseteq S
  BY DEF First

\* Address arithmetic does not wrap inside the heap.
LEMMA NoWrap ==
  ASSUME NEW k \in 0..HeapSize PROVE k % W = k
  <1>1. k \in 0..(W - 1) /\ W \in Nat /\ W > 0
    BY SizeAssumption
  <1> QED BY <1>1

\* Writing the links of a node, or through a pointer to no node, is harmless.
LEMMA LinksSound ==
  ASSUME NEW nodes, Sound(nodes), NEW n, NEW p \in Pointers
  PROVE  /\ Sound([nodes EXCEPT ![n].next = p])
         /\ Sound([nodes EXCEPT ![n].prev = p])
  <1>1. CASE n \in 0..MaxNodes
    <2>1. /\ [nodes[n] EXCEPT !.next = p] \in Record
          /\ [nodes[n] EXCEPT !.prev = p] \in Record
      BY <1>1 DEF Sound, Record
    <2>2. /\ [nodes EXCEPT ![n].next = p] \in [0..MaxNodes -> Record]
          /\ [nodes EXCEPT ![n].prev = p] \in [0..MaxNodes -> Record]
      BY <2>1 DEF Sound
    <2>3. \A m \in 0..MaxNodes :
            /\ [nodes EXCEPT ![n].next = p][m].addr = nodes[m].addr
            /\ [nodes EXCEPT ![n].next = p][m].size = nodes[m].size
            /\ [nodes EXCEPT ![n].prev = p][m].addr = nodes[m].addr
            /\ [nodes EXCEPT ![n].prev = p][m].size = nodes[m].size
      BY <1>1 DEF Sound, Record
    <2> QED BY <2>2, <2>3, SizeAssumption DEF Sound, Nodes, NULL
  <1>2. CASE n \notin 0..MaxNodes
    <2>1. [nodes EXCEPT ![n].next = p] = nodes /\ [nodes EXCEPT ![n].prev = p] = nodes
      BY <1>2 DEF Sound
    <2> QED BY <2>1
  <1> QED BY <1>1, <1>2

\* So is filling in a node with a block of the heap.
LEMMA BlockSound ==
  ASSUME NEW nodes, Sound(nodes), NEW n \in Nodes, NEW a \in Nat, NEW s \in Nat,
         a + s <= HeapSize, NEW p \in Pointers, NEW q \in Pointers
  PROVE  Sound([nodes EXCEPT ![n] = Block(a, s, p, q)])
  <1>1. Block(a, s, p, q) \in Record
    BY DEF Block, Record
  <1>2. n \in 0..MaxNodes /\ n # NULL
    BY SizeAssumption DEF Nodes, NULL
  <1>3. [nodes EXCEPT ![n] = Block(a, s, p, q)] \in [0..MaxNodes -> Record]
    BY <1>1, <1>2 DEF Sound
  <1> QED BY <1>2, <1>3, SizeAssumption DEF Sound, Nodes, NULL, Block

\* The fields of a node of a sound heap.
LEMMA NodeFields ==
  ASSUME NEW nodes, Sound(nodes), NEW n \in 0..MaxNodes
  PROVE  /\ nodes[n].addr \in Nat /\ nodes[n].size \in Nat
         /\ nodes[n].prev \in Pointers /\ nodes[n].next \in Pointers
  BY DEF Sound, Record

\* Resizing a node to another block of the heap is harmless.
LEMMA ResizeSound ==
  ASSUME NEW nodes, Sound(nodes), NEW n \in Nodes, NEW a \in Nat, NEW s \in Nat,
         a + s <= HeapSize
  PROVE  Sound([nodes EXCEPT ![n].addr = a, ![n].size = s])
  <1> DEFINE g == [nodes EXCEPT ![n].addr = a, ![n].size = s]
  <1>1. n \in 0..MaxNodes /\ n # NULL
    BY SizeAssumption DEF Nodes, NULL
  <1>2. g \in [0..MaxNodes -> Record]
    BY <1>1 DEF Sound, Record
  <1>3. g[n].addr = a /\ g[n].size = s /\ \A m \in 0..MaxNodes : m # n => g[m] = nodes[m]
    BY <1>1 DEF Sound, Record
  <1> HIDE DEF g
  <1>4. Sound(g)
    BY <1>1, <1>2, <1>3, SizeAssumption DEF Sound, Nodes, NULL
  <1> QED BY <1>4 DEF g

\* So is growing it within the heap.
LEMMA GrowSound ==
  ASSUME NEW nodes, Sound(nodes), NEW n \in Nodes, NEW s \in Nat,
         nodes[n].addr + s <= HeapSize, NEW q \in Pointers
  PROVE  Sound([nodes EXCEPT ![n].size = s, ![n].next = q])
  <1> DEFINE g == [nodes EXCEPT ![n].size = s, ![n].next = q]
  <1>1. n \in 0..MaxNodes /\ n # NULL
    BY SizeAssumption DEF Nodes, NULL
  <1>2. g \in [0..MaxNodes -> Record]
    BY <1>1 DEF Sound, Record
  <1>3. g[n].addr = nodes[n].addr /\ g[n].size = s
        /\ \A m \in 0..MaxNodes : m # n => g[m] = nodes[m]
    BY <1>1 DEF Sound, Record
  <1> HIDE DEF g
  <1>4. Sound(g)
    BY <1>1, <1>2, <1>3, SizeAssumption DEF Sound, Nodes, NULL
  <1> QED BY <1>4 DEF g

\* The list surgery of heap_alloc and heap_free keeps the heap sound.
LEMMA SavedSound ==
  ASSUME Sound(node), NEW a \in Nodes, NEW n \in Nodes, NEW addr \in Nat,
         NEW size \in Nat, addr + size <= HeapSize
  PROVE  Sound(Saved(a, n, addr, size))
  <1>1. a \in Pointers /\ n \in Pointers /\ NULL \in Pointers
    BY SizeAssumption DEF Nodes, Pointers, NULL
  <1> DEFINE linked == [node EXCEPT ![n].next = a]
  <1>2. Sound(linked)
    BY <1>1, LinksSound
  <1>3. Saved(a, n, addr, size) = [linked EXCEPT ![a] = Block(addr, size, n, NULL)]
    BY DEF Saved
  <1> HIDE DEF linked
  <1>4. Sound([linked EXCEPT ![a] = Block(addr, size, n, NULL)])
    BY <1>1, <1>2, BlockSound
  <1> QED BY <1>3, <1>4

\* A block that leaves the free list takes only links with it.
LEMMA UnlinkedSound ==
  ASSUME NEW nodes, Sound(nodes), NEW n \in Nodes
  PROVE  Sound(Unlinked(nodes, n))
  <1> DEFINE p == nodes[n].prev
             q == nodes[n].next
             ahead == IF p # NULL THEN [nodes EXCEPT ![p].next = q] ELSE nodes
  <1>1. p \in Pointers /\ q \in Pointers
    BY NodeFields, SizeAssumption DEF Nodes
  <1>2. Sound(ahead)
    BY <1>1, LinksSound
  <1>3. Unlinked(nodes, n) = IF q # NULL THEN [ahead EXCEPT ![q].prev = p] ELSE ahead
    BY DEF Unlinked
  <1> HIDE DEF p, q, ahead
  <1>4. Sound([ahead EXCEPT ![q].prev = p])
    BY <1>1, <1>2, LinksSound
  <1> QED BY <1>2, <1>3, <1>4

\* So does a block that leaves the list of allocated blocks; its neighbour may be
\* low memory, whose links are written then.
LEMMA ForgottenSound ==
  ASSUME Sound(node), NEW a \in Nodes
  PROVE  Sound(Forgotten(a))
  <1> DEFINE p == node[a].prev
             q == node[a].next
             ahead == [node EXCEPT ![q].prev = p]
  <1>1. p \in Pointers /\ q \in Pointers /\ a # NULL
    BY NodeFields, SizeAssumption DEF Nodes, NULL
  <1>2. Sound(ahead)
    BY <1>1, LinksSound
  <1>3. Forgotten(a) = [ahead EXCEPT ![p].next = q]
    BY <1>1 DEF Forgotten
  <1> HIDE DEF p, q, ahead
  <1>4. Sound([ahead EXCEPT ![p].next = q])
    BY <1>1, <1>2, LinksSound
  <1> QED BY <1>3, <1>4

\* A block put in front of a free one, or of low memory, keeps the heap sound.
LEMMA InsertedSound ==
  ASSUME NEW nodes, Sound(nodes), NEW f \in Nodes, NEW n \in 0..MaxNodes,
         NEW addr \in Nat, NEW size \in Nat, addr + size <= HeapSize
  PROVE  Sound(Inserted(nodes, f, n, addr, size))
  <1> DEFINE p == nodes[n].prev
             made1 == [nodes EXCEPT ![f] = Block(addr, size, p, n)]
             filled == [made1 EXCEPT ![n].prev = f]
  <1>1. p \in Pointers /\ n \in Pointers /\ f \in Pointers
    BY NodeFields, SizeAssumption DEF Nodes, Pointers
  <1>2. Sound(made1)
    BY <1>1, BlockSound
  <1>3. Sound(filled)
    <2> HIDE DEF made1
    <2> QED BY <1>1, <1>2, LinksSound
  <1>4. Inserted(nodes, f, n, addr, size) = IF p # NULL THEN [filled EXCEPT ![p].next = f] ELSE filled
    BY DEF Inserted
  <1> HIDE DEF p, filled
  <1>5. Sound([filled EXCEPT ![p].next = f])
    BY <1>1, <1>3, LinksSound
  <1> QED BY <1>3, <1>4, <1>5

\* Coalescing with a neighbour yields a block of the heap: it ends where the
\* neighbour, or the new block, ended.  Low memory is never a neighbour.
LEMMA MergedNextSound ==
  ASSUME NEW nodes, Sound(nodes), NEW f \in Nodes, nodes[f].next \in 0..MaxNodes
  PROVE  Sound(MergedNext(nodes, f))
  <1> DEFINE q == nodes[f].next
             s == nodes[f].size + nodes[q].size
  <1>1. nodes[f].addr \in Nat /\ nodes[f].size \in Nat /\ nodes[f].addr + nodes[f].size <= HeapSize
    BY NodeFields, SizeAssumption DEF Sound, Nodes
  <1>2. (nodes[f].addr + nodes[f].size) % W = nodes[f].addr + nodes[f].size
    BY <1>1, NoWrap, SizeAssumption
  <1>3. CASE nodes[f].addr + nodes[f].size = nodes[q].addr
    <2>1. q \in Nodes
      BY <1>1, <1>3, SizeAssumption DEF Sound, Nodes, NULL, Ends
    <2>2. nodes[q].size \in Nat /\ nodes[q].next \in Pointers /\ nodes[q].addr + nodes[q].size <= HeapSize
      BY <2>1, NodeFields, SizeAssumption DEF Nodes, Sound
    <2>3. s \in Nat /\ s <= HeapSize /\ nodes[f].addr + s <= HeapSize
      BY <1>1, <1>3, <2>2, SizeAssumption
    <2>4. s % W = s
      BY <2>3, NoWrap, SizeAssumption
    <2> HIDE DEF q
    <2>5. Sound([nodes EXCEPT ![f].size = s, ![f].next = nodes[q].next])
      <3> HIDE DEF s
      <3> QED BY <2>2, <2>3, GrowSound
    <2>6. MergedNext(nodes, f) = [nodes EXCEPT ![f].size = s % W, ![f].next = nodes[q].next]
      BY <1>2, <1>3 DEF MergedNext, q
    <2> QED BY <2>4, <2>5, <2>6
  <1>4. CASE nodes[f].addr + nodes[f].size # nodes[q].addr
    BY <1>2, <1>4 DEF MergedNext
  <1> QED BY <1>3, <1>4

\* The same for the block in front of the new one.
LEMMA MergedPrevSound ==
  ASSUME NEW nodes, Sound(nodes), NEW f \in Nodes, nodes[f].prev \in 0..MaxNodes
  PROVE  Sound(MergedPrev(nodes, f))
  <1> DEFINE p == nodes[f].prev
             s == nodes[p].size + nodes[f].size
  <1>1. /\ nodes[f].addr \in Nat /\ nodes[f].size \in Nat /\ nodes[f].next \in Pointers
        /\ nodes[f].addr + nodes[f].size <= HeapSize
    BY NodeFields, SizeAssumption DEF Sound, Nodes
  <1>2. CASE p = NULL
    <2>1. nodes[p].addr + nodes[p].size = Ends /\ Ends % W = Ends /\ Ends > nodes[f].addr
      BY <1>1, <1>2, SizeAssumption, SMTT(30) DEF Sound, Ends
    <2>2. (nodes[p].addr + nodes[p].size) % W # nodes[f].addr
      BY <1>1, <2>1, SizeAssumption DEF Ends
    <2> QED BY <2>2 DEF MergedPrev
  <1>3. CASE p # NULL
    <2>1. p \in Nodes
      BY <1>3, SizeAssumption DEF Nodes, NULL
    <2>2. nodes[p].addr \in Nat /\ nodes[p].size \in Nat /\ nodes[p].addr + nodes[p].size <= HeapSize
      BY <2>1, NodeFields, SizeAssumption DEF Nodes, Sound
    <2>3. (nodes[p].addr + nodes[p].size) % W = nodes[p].addr + nodes[p].size
      <3> HIDE DEF p
      <3> QED BY <2>2, NoWrap, SizeAssumption, SMTT(30)
    <2>4. CASE nodes[p].addr + nodes[p].size = nodes[f].addr
      <3>1. s \in Nat /\ s <= HeapSize /\ nodes[p].addr + s <= HeapSize
        BY <1>1, <2>2, <2>4, SizeAssumption
      <3>2. s % W = s
        BY <3>1, NoWrap, SizeAssumption
      <3> HIDE DEF p
      <3>3. Sound([nodes EXCEPT ![p].size = s, ![p].next = nodes[f].next])
        <4> HIDE DEF s
        <4> QED BY <1>1, <2>1, <3>1, GrowSound
      <3>4. MergedPrev(nodes, f) = [nodes EXCEPT ![p].size = s % W, ![p].next = nodes[f].next]
        BY <2>3, <2>4 DEF MergedPrev, p
      <3> QED BY <3>2, <3>3, <3>4
    <2>5. CASE nodes[p].addr + nodes[p].size # nodes[f].addr
      BY <2>3, <2>5 DEF MergedPrev
    <2> QED BY <2>4, <2>5
  <1> QED BY <1>2, <1>3

----------------------------------------------------------------------------
\* heap_create and the boot's first block satisfy the invariant.
LEMMA BoundsInit == Init => BoundsInv
  <1> SUFFICES ASSUME Init PROVE BoundsInv
    OBVIOUS
  <1>1. node \in [0..MaxNodes -> Record]
    BY SizeAssumption DEF Init, Record, Pointers, Block, NULL, Wild, Ends
  <1>2. \A n \in Nodes : node[n].addr + node[n].size <= HeapSize
    BY SizeAssumption DEF Init, Block, NULL, Nodes
  <1>3. node[NULL].addr = Ends /\ node[NULL].size = 0
    BY SizeAssumption DEF Init, Block, NULL
  <1>4. Sound(node)
    BY <1>1, <1>2, <1>3 DEF Sound
  <1>5. made \in 0..MaxNodes /\ lost = FALSE /\ held = {<<0, Screen>>}
    BY SizeAssumption DEF Init
  <1>6. held \subseteq Nat \X Nat /\ \A b \in held : b[1] + b[2] <= HeapSize
    BY <1>5, SizeAssumption
  <1> QED BY <1>4, <1>5, <1>6 DEF BoundsInv

\* heap_alloc hands out a part of the free block it found and keeps the rest.
LEMMA BoundsAlloc ==
  ASSUME BoundsInv, ~lost, NEW size \in Sizes, heap_alloc(size)
  PROVE  BoundsInv'
  <1>1. PICK n \in heap_first_fit(size) \ {NULL} :
          /\ made < MaxNodes
          /\ made' = made + 1
          /\ \E tail \in First(alloc_ll, {m \in Nodes : node[m].next = NULL}) :
               LET saved == Saved(made', tail, node[n].addr, size)
               IN  IF size < saved[n].size
                   THEN /\ node' = [saved EXCEPT ![n].addr = (@ + size) % W, ![n].size = @ - size]
                        /\ UNCHANGED free_ll
                   ELSE /\ node' = Unlinked(saved, n)
                        /\ free_ll' = IF saved[n].prev = NULL THEN saved[n].next ELSE free_ll
          /\ held' = held \cup {<<node[n].addr, size>>}
          /\ UNCHANGED <<alloc_ll, stale, low_used, lost>>
    BY DEF heap_alloc
  <1>2. n \in Nodes /\ node[n].size >= size
    BY <1>1, FirstIn DEF heap_first_fit
  <1>3. PICK tail \in First(alloc_ll, {m \in Nodes : node[m].next = NULL}) :
          LET saved == Saved(made', tail, node[n].addr, size)
          IN  IF size < saved[n].size
              THEN node' = [saved EXCEPT ![n].addr = (@ + size) % W, ![n].size = @ - size]
              ELSE node' = Unlinked(saved, n)
    BY <1>1
  <1> DEFINE saved == Saved(made', tail, node[n].addr, size)
  <1>4. tail \in Nodes /\ made' \in Nodes
    BY <1>1, <1>3, FirstIn, SizeAssumption DEF BoundsInv, Nodes
  <1>5. /\ Sound(node) /\ size \in Nat /\ node[n].addr \in Nat /\ node[n].size \in Nat
        /\ node[n].addr + size <= HeapSize
    BY <1>2, NodeFields, SizeAssumption, SMTT(30) DEF BoundsInv, Sound, Nodes
  <1>6. Sound(saved)
    BY <1>4, <1>5, SavedSound
  <1>7. IF size < saved[n].size
        THEN node' = [saved EXCEPT ![n].addr = (saved[n].addr + size) % W,
                                   ![n].size = saved[n].size - size]
        ELSE node' = Unlinked(saved, n)
    BY <1>3
  <1> HIDE DEF saved
  <1>8. saved[n].addr \in Nat /\ saved[n].size \in Nat /\ saved[n].addr + saved[n].size <= HeapSize
    BY <1>2, <1>6, NodeFields, SizeAssumption DEF Sound, Nodes
  <1>9. Sound(node')
    <2>1. CASE size < saved[n].size
      <3> DEFINE a == saved[n].addr + size
                 s == saved[n].size - size
      <3>1. a \in Nat /\ s \in Nat /\ a <= HeapSize /\ a + s <= HeapSize
        BY <1>5, <1>8, <2>1, SizeAssumption
      <3>2. a % W = a
        BY <3>1, NoWrap, SizeAssumption
      <3>3. node' = [saved EXCEPT ![n].addr = a, ![n].size = s]
        BY <1>7, <2>1, <3>2
      <3> HIDE DEF a, s
      <3>4. Sound([saved EXCEPT ![n].addr = a, ![n].size = s])
        BY <1>2, <1>6, <3>1, ResizeSound
      <3> QED BY <3>3, <3>4
    <2>2. CASE ~(size < saved[n].size)
      <3>1. Sound(Unlinked(saved, n))
        BY <1>2, <1>6, UnlinkedSound
      <3> QED BY <1>7, <2>2, <3>1
    <2> QED BY <2>1, <2>2
  <1>10. made' \in 0..MaxNodes
    BY <1>4, SizeAssumption DEF Nodes
  <1>11. held' \subseteq Nat \X Nat /\ \A b \in held' : b[1] + b[2] <= HeapSize
    BY <1>1, <1>5 DEF BoundsInv
  <1>12. Sound(node)'
    BY <1>9 DEF Sound, Nodes, NULL, Ends, Record, Pointers
  <1> QED BY <1>1, <1>10, <1>11, <1>12 DEF BoundsInv

\* The new node of heap_free lies between two nodes, low memory included.
LEMMA InsertedLinks ==
  ASSUME NEW nodes, Sound(nodes), NEW f \in Nodes, NEW n \in 0..MaxNodes,
         NEW addr \in Nat, NEW size \in Nat, nodes[n].prev \in 0..MaxNodes
  PROVE  /\ Inserted(nodes, f, n, addr, size)[f].next \in 0..MaxNodes
         /\ Inserted(nodes, f, n, addr, size)[f].prev \in 0..MaxNodes
  <1> DEFINE p == nodes[n].prev
             filled == [nodes EXCEPT ![f] = Block(addr, size, p, n), ![n].prev = f]
  <1>1. f \in 0..MaxNodes
    BY SizeAssumption DEF Nodes
  <1>2. /\ filled[f].next = n
        /\ filled[f].prev \in {p, f}
        /\ DOMAIN filled = 0..MaxNodes
    BY <1>1 DEF Sound, Block
  <1>3. Inserted(nodes, f, n, addr, size) = IF p # NULL THEN [filled EXCEPT ![p].next = f] ELSE filled
    BY DEF Inserted
  <1>4. filled \in [0..MaxNodes -> Record]
    <2>1. Block(addr, size, p, n) \in Record /\ f \in Pointers
      BY <1>1, SizeAssumption DEF Block, Record, Pointers
    <2>2. [nodes EXCEPT ![f] = Block(addr, size, p, n)] \in [0..MaxNodes -> Record]
      BY <1>1, <2>1 DEF Sound
    <2> QED BY <2>1, <2>2 DEF Record
  <1> HIDE DEF p, filled
  <1> QED BY <1>1, <1>2, <1>3, <1>4 DEF Record, p

\* Coalescing with the next block leaves the link to the previous one.
LEMMA MergedNextPrev ==
  ASSUME NEW nodes, Sound(nodes), NEW f \in Nodes
  PROVE  MergedNext(nodes, f)[f].prev = nodes[f].prev
  BY SizeAssumption DEF MergedNext, Sound, Record, Nodes

\* A heap_free that finds its block's size keeps every block inside the heap.
LEMMA BoundsFree ==
  ASSUME BoundsInv, ~lost, NEW b \in held, heap_free(b[1]), held' = held \ {b}, ~lost'
  PROVE  BoundsInv'
  <1>1. PICK n \in First(free_ll, {NULL} \cup {m \in Nodes : node[m].addr >= b[1]}),
             a \in First(alloc_ll, {NULL} \cup {m \in Nodes : node[m].addr = b[1]}) :
          LET f == made + 1
              rest == Forgotten(a)
              listed == Inserted(rest, f, n, b[1], SizeOf(a))
          IN  /\ f <= MaxNodes /\ made' = f
              /\ rest[n].prev # Wild
              /\ node' = MergedPrev(MergedNext(listed, f), f)
              /\ free_ll' = IF rest[n].prev = NULL THEN f ELSE free_ll
              /\ stale' = (stale \/ ~BackLinked')
              /\ low_used' = (low_used \/ n = NULL)
              /\ lost' = (lost \/ a = NULL)
              /\ UNCHANGED alloc_ll
    BY DEF heap_free
  <1> DEFINE f == made + 1
             rest == Forgotten(a)
             listed == Inserted(rest, f, n, b[1], SizeOf(a))
             merged == MergedNext(listed, f)
  <1>2. /\ f <= MaxNodes /\ made' = f /\ rest[n].prev # Wild
        /\ node' = MergedPrev(merged, f) /\ lost' = (lost \/ a = NULL)
    BY <1>1
  <1>3. a \in Nodes /\ node[a].addr = b[1]
    BY <1>2, FirstIn
  <1>4. n \in 0..MaxNodes
    BY FirstIn, SizeAssumption DEF Nodes, NULL
  <1>5. f \in Nodes
    BY <1>2, SizeAssumption DEF BoundsInv, Nodes
  <1>6. Sound(node) /\ Sound(rest)
    BY <1>3, ForgottenSound DEF BoundsInv
  <1>7. b[1] \in Nat /\ SizeOf(a) \in Nat /\ b[1] + SizeOf(a) <= HeapSize
    BY <1>3, <1>6, NodeFields, SizeAssumption DEF SizeOf, Sound, Nodes, NULL
  <1> HIDE DEF rest, f
  <1>8. Sound(listed)
    BY <1>4, <1>5, <1>6, <1>7, InsertedSound
  <1>9. rest[n].prev \in 0..MaxNodes
    <2>1. rest[n].prev \in Pointers
      BY <1>4, <1>6, NodeFields
    <2>2. rest[n].prev # Wild
      BY <1>2
    <2> HIDE DEF listed, merged
    <2> QED BY <2>1, <2>2, SizeAssumption DEF Pointers, Wild
  <1>10. listed[f].next \in 0..MaxNodes /\ listed[f].prev \in 0..MaxNodes
    BY <1>4, <1>5, <1>6, <1>7, <1>9, InsertedLinks
  <1> HIDE DEF listed
  <1>11. Sound(merged)
    BY <1>5, <1>8, <1>10, MergedNextSound
  <1>12. merged[f].prev \in 0..MaxNodes
    BY <1>5, <1>8, <1>10, MergedNextPrev
  <1> HIDE DEF merged
  <1>13. Sound(MergedPrev(merged, f))
    BY <1>5, <1>11, <1>12, MergedPrevSound
  <1>14. Sound(node')
    BY <1>2, <1>13
  <1>15. Sound(node)'
    BY <1>14 DEF Sound, Nodes, NULL, Ends, Record, Pointers
  <1>16. made' \in 0..MaxNodes
    BY <1>2, <1>5, SizeAssumption DEF Nodes
  <1> QED BY <1>2, <1>3, <1>15, <1>16 DEF BoundsInv

\* Every step keeps every block inside the heap, or loses a size.
LEMMA BoundsStep == BoundsInv /\ [Next]_vars => BoundsInv'
  <1> SUFFICES ASSUME BoundsInv, [Next]_vars PROVE BoundsInv'
    OBVIOUS
  <1>1. CASE UNCHANGED vars
    BY <1>1 DEF vars, BoundsInv, Sound
  <1>2. CASE Next /\ lost
    <2>1. lost' = TRUE
      BY <1>2 DEF Next, kmalloc, kfree, heap_alloc, heap_free, BoundsInv
    <2> QED BY <2>1 DEF BoundsInv
  <1>3. CASE kmalloc /\ ~lost
    BY <1>3, BoundsAlloc DEF kmalloc
  <1>4. CASE kfree /\ ~lost
    <2>1. PICK b \in held : heap_free(b[1]) /\ held' = held \ {b}
      BY <1>4 DEF kfree
    <2>2. lost' \in BOOLEAN
      BY <2>1 DEF heap_free
    <2>3. CASE ~lost'
      BY <1>4, <2>1, <2>3, BoundsFree
    <2>4. CASE lost'
      BY <2>2, <2>4 DEF BoundsInv
    <2> QED BY <2>3, <2>4
  <1> QED BY <1>1, <1>2, <1>3, <1>4 DEF Next

\* Until a free fails to find its block's size, no block, handed out or free,
\* reaches beyond the heap, whatever became of the links.
THEOREM HeapInBounds == Spec => []InBounds
  <1>1. BoundsInv => InBounds
    <2> SUFFICES ASSUME BoundsInv, ~lost
                 PROVE  /\ \A b \in held : b[1] + b[2] <= HeapSize
                        /\ \A n \in Nodes : InHeap(node[n])
      BY DEF InBounds
    <2>1. Sound(node)
      BY DEF BoundsInv
    <2>2. ASSUME NEW n \in Nodes PROVE InHeap(node[n])
      <3>1. n \in 0..MaxNodes
        BY SizeAssumption DEF Nodes
      <3>2. node[n].addr \in Nat /\ node[n].size \in Nat
        BY <2>1, <3>1, NodeFields
      <3> QED BY <2>1, <3>2 DEF Sound, InHeap
    <2> QED BY <2>2 DEF BoundsInv
  <1> QED BY BoundsInit, BoundsStep, <1>1, PTL DEF Spec

----------------------------------------------------------------------------
(* Walking a list.                                                          *)

\* A set of numbers that is not empty has a least element.
LEMMA NatMin ==
  ASSUME NEW S \in SUBSET Nat, S # {}
  PROVE  \E n \in S : \A m \in S : n <= m
  <1> DEFINE R == OpToRel(<, Nat)
  <1>1. IsWellFoundedOn(R, Nat)
    BY NatLessThanWellFounded, Zenon
  <1>2. \A x, y \in Nat : x < y => <<x, y>> \in R
    BY DEF OpToRel
  <1> HIDE DEF R
  <1>3. \E x \in S : \A y \in S : ~ (<<y, x>> \in R)
    BY <1>1, WFMin
  <1>4. \A x, y \in Nat : ~(x < y) => y <= x
    OBVIOUS
  <1> QED BY <1>2, <1>3, <1>4

\* Induction over the hops of a walk, as a fact about sets.
LEMMA HopInduction ==
  ASSUME NEW S, 0 \in S, \A k \in 1..MaxNodes : k - 1 \in S => k \in S
  PROVE  \A k \in 0..MaxNodes : k \in S
  <1> SUFFICES ASSUME NEW k0 \in 0..MaxNodes, k0 \notin S PROVE FALSE
    OBVIOUS
  <1> DEFINE T == {k \in 0..MaxNodes : k \notin S}
  <1>1. T \in SUBSET Nat /\ T # {}
    OBVIOUS
  <1>2. PICK k \in T : \A m \in T : k <= m
    BY <1>1, NatMin
  <1>3. k \in 1..MaxNodes
    BY <1>2
  <1>4. k - 1 \in 0..MaxNodes /\ ~(k <= k - 1)
    BY <1>3, SizeAssumption
  <1>5. k - 1 \in S
    BY <1>2, <1>4
  <1> QED BY <1>2, <1>3, <1>5

\* One hop.
Hopped(nodes, v) == IF v \in Nodes THEN nodes[v].next ELSE NULL

\* w is the walk from start.
IsWalk(nodes, start, w) ==
  w[0] = start /\ \A k \in 1..MaxNodes : w[k] = Hopped(nodes, w[k - 1])

\* The equation that defines Hops.
Solves(nodes, start, f) ==
  f = [k \in 0..MaxNodes |-> IF k = 0 THEN start ELSE Hopped(nodes, f[k - 1])]

\* It has a solution.
LEMMA WalkExists ==
  ASSUME NEW nodes, NEW start PROVE \E f : Solves(nodes, start, f)
  <1> DEFINE Sol(f, n) == f = [k \in 0..n |-> IF k = 0 THEN start ELSE Hopped(nodes, f[k - 1])]
             S == {n \in Nat : \E f : Sol(f, n)}
  <1>1. 0 \in S
    <2>1. Sol([k \in 0..0 |-> start], 0)
      OBVIOUS
    <2> QED BY <2>1
  <1>2. \A n \in 1..MaxNodes : n - 1 \in S => n \in S
    <2> SUFFICES ASSUME NEW n \in 1..MaxNodes, n - 1 \in S PROVE n \in S
      OBVIOUS
    <2>1. PICK f : Sol(f, n - 1)
      OBVIOUS
    <2> DEFINE g == [k \in 0..n |-> IF k = n THEN Hopped(nodes, f[n - 1]) ELSE f[k]]
    <2>2. n \in Nat /\ n > 0
      BY SizeAssumption
    <2>3. \A k \in 0..(n-1) : g[k] = f[k] /\ f[k] = IF k = 0 THEN start ELSE Hopped(nodes, f[k - 1])
      BY <2>1, <2>2
    <2>4. \A k \in 0..n : g[k] = IF k = 0 THEN start ELSE Hopped(nodes, g[k - 1])
      <3> SUFFICES ASSUME NEW k \in 0..n PROVE g[k] = IF k = 0 THEN start ELSE Hopped(nodes, g[k - 1])
        OBVIOUS
      <3>1. CASE k = n
        BY <2>2, <2>3, <3>1
      <3>2. CASE k # n /\ k # 0
        <4>1. k \in 0..(n-1) /\ k - 1 \in 0..(n-1)
          BY <3>2, <2>2
        <4> HIDE DEF g
        <4> QED BY <4>1, <2>3, <3>2
      <3>3. CASE k # n /\ k = 0
        <4>1. k \in 0..(n-1)
          BY <3>3, <2>2
        <4> HIDE DEF g
        <4> QED BY <4>1, <2>3, <3>3
      <3> QED BY <3>1, <3>2, <3>3
    <2>5. g = [k \in 0..n |-> g[k]]
      OBVIOUS
    <2>6. Sol(g, n)
      <3> HIDE DEF g
      <3> QED BY <2>4, <2>5
    <2> QED BY <2>2, <2>6
  <1> HIDE DEF S
  <1>3. MaxNodes \in S
    BY <1>1, <1>2, SizeAssumption, HopInduction
  <1> QED BY <1>3 DEF S, Solves

\* The function Hops defines is the walk.
LEMMA WalkUnfolds ==
  ASSUME NEW nodes, NEW start, NEW f,
         f = CHOOSE h : h = [k \in 0..MaxNodes |->
               IF k = 0 THEN start ELSE IF h[k - 1] \in Nodes THEN nodes[h[k - 1]].next ELSE NULL]
  PROVE  IsWalk(nodes, start, f)
  <1> DEFINE P(h) == h = [k \in 0..MaxNodes |->
               IF k = 0 THEN start ELSE IF h[k - 1] \in Nodes THEN nodes[h[k - 1]].next ELSE NULL]
  <1>1. \E h : P(h)
    <2>1. \E h : Solves(nodes, start, h)
      BY WalkExists
    <2> QED BY <2>1 DEF Hopped, Solves
  <1>2. P(CHOOSE h : P(h))
    <2> HIDE DEF P
    <2> QED BY <1>1
  <1>3. f = CHOOSE h : P(h)
    OBVIOUS
  <1>4. P(f)
    <2> HIDE DEF P
    <2> QED BY <1>2, <1>3
  <1>5. f = [k \in 0..MaxNodes |-> IF k = 0 THEN start ELSE Hopped(nodes, f[k - 1])]
    BY <1>4 DEF Hopped
  <1>6. 0 \in 0..MaxNodes /\ \A k \in 1..MaxNodes : k \in 0..MaxNodes /\ k # 0
    BY SizeAssumption
  <1> QED BY <1>5, <1>6 DEF IsWalk

\* So it is now and in the next state.
LEMMA HopsWalk ==
  ASSUME NEW start
  PROVE  IsWalk(node, start, Hops(start))
  <1> DEFINE f == Hops(start)
  <1>1. f = CHOOSE h : h = [k \in 0..MaxNodes |->
               IF k = 0 THEN start ELSE IF h[k - 1] \in Nodes THEN node[h[k - 1]].next ELSE NULL]
    BY DEF Hops
  <1> HIDE DEF f
  <1>2. IsWalk(node, start, f)
    BY <1>1, WalkUnfolds
  <1> QED BY <1>2 DEF f

\* The same for the free list of the next state.
LEMMA FreeWalkNext ==
  \E w : /\ IsWalk(node', free_ll', w)
         /\ OnList(free_ll)' = {w[k] : k \in 0..MaxNodes} \ {NULL, Wild}
  <1> DEFINE f == Hops(free_ll)'
  <1>1. f = CHOOSE h : h = [k \in 0..MaxNodes |->
               IF k = 0 THEN free_ll' ELSE IF h[k - 1] \in Nodes THEN node'[h[k - 1]].next ELSE NULL]
    BY DEF Hops, Nodes, NULL
  <1>2. OnList(free_ll)' = {f[k] : k \in 0..MaxNodes} \ {NULL, Wild}
    BY DEF OnList, NULL, Wild
  <1> HIDE DEF f
  <1>3. IsWalk(node', free_ll', f)
    BY <1>1, WalkUnfolds
  <1> QED BY <1>2, <1>3

\* S is the set of nodes of a doubly linked list that starts at h; the ranks r
\* grow along next.  Nothing is said of the prev of the head.
Chain(nodes, S, h, r) ==
  /\ h \in S \cup {NULL} /\ (h = NULL => S = {})
  /\ \A t \in S : /\ nodes[t].next \in S \cup {NULL} /\ nodes[t].next # h
                  /\ nodes[t].next # NULL => /\ r[t] < r[nodes[t].next]
                                             /\ nodes[nodes[t].next].prev = t
  /\ \A t \in S \ {h} : nodes[t].prev \in S /\ nodes[nodes[t].prev].next = t

\* The same without the back links.
Line(nodes, S, h, r) ==
  /\ h \in S \cup {NULL} /\ (h = NULL => S = {})
  /\ \A t \in S : /\ nodes[t].next \in S \cup {NULL} /\ nodes[t].next # h
                  /\ nodes[t].next # NULL => r[t] < r[nodes[t].next]
  /\ \A t \in S \ {h} : \E u \in S : nodes[u].next = t

\* A list is one.
LEMMA ChainLine ==
  ASSUME NEW nodes, NEW S, NEW h, NEW r, Chain(nodes, S, h, r)
  PROVE  Line(nodes, S, h, r)
  BY DEF Chain, Line

\* With the right back links it is a list.
LEMMA LineChain ==
  ASSUME NEW nodes, NEW S \in SUBSET Nodes, NEW h, NEW r, Line(nodes, S, h, r),
         \A t \in S : nodes[t].next # NULL => nodes[nodes[t].next].prev = t
  PROVE  Chain(nodes, S, h, r)
  <1>1. NULL \notin S
    BY DEF Nodes, NULL
  <1>2. ASSUME NEW t \in S \ {h} PROVE nodes[t].prev \in S /\ nodes[nodes[t].prev].next = t
    <2>1. PICK u \in S : nodes[u].next = t
      BY DEF Line
    <2>2. nodes[t].prev = u
      BY <1>1, <2>1
    <2> QED BY <2>1, <2>2
  <1> QED BY <1>2 DEF Chain, Line

\* A walk stays in a set that is closed under next, and at NULL once it is there.
LEMMA WalkClosed ==
  ASSUME NEW nodes, NEW S \in SUBSET Nodes, NEW h \in S \cup {NULL}, NEW w, IsWalk(nodes, h, w),
         \A t \in S : nodes[t].next \in S \cup {NULL}
  PROVE  \A k \in 0..MaxNodes : w[k] \in S \cup {NULL}
  <1> DEFINE K == {k \in Nat : w[k] \in S \cup {NULL}}
  <1>1. 0 \in K
    BY DEF IsWalk
  <1>2. \A k \in 1..MaxNodes : k - 1 \in K => k \in K
    <2> SUFFICES ASSUME NEW k \in 1..MaxNodes, k - 1 \in K PROVE k \in K
      OBVIOUS
    <2>1. w[k] = Hopped(nodes, w[k - 1]) /\ w[k - 1] \in S \cup {NULL} /\ k \in Nat
      BY SizeAssumption DEF IsWalk
    <2>2. \A t \in S : Hopped(nodes, t) = nodes[t].next
      BY DEF Hopped
    <2>3. Hopped(nodes, NULL) = NULL
      BY DEF Hopped, NULL, Nodes
    <2> QED BY <2>1, <2>2, <2>3
  <1> HIDE DEF K
  <1>3. \A k \in 0..MaxNodes : k \in K
    BY <1>1, <1>2, HopInduction
  <1> QED BY <1>3 DEF K

\* The walk w visits the nodes of S, one after the other.
Visits(nodes, S, w) ==
  /\ \A k \in 0..MaxNodes : w[k] \in S \cup {NULL}
  /\ \A k \in 1..MaxNodes : w[k] # NULL => w[k - 1] \in S /\ nodes[w[k - 1]].next = w[k]
  /\ \A t \in S : \E k \in 0..MaxNodes : w[k] = t

\* The walk of a list meets each of its nodes.
LEMMA WalkLine ==
  ASSUME NEW nodes, NEW S \in SUBSET Nodes, NEW h, NEW r \in [0..MaxNodes -> Nat],
         Line(nodes, S, h, r), NEW w, IsWalk(nodes, h, w)
  PROVE  Visits(nodes, S, w)
  <1>1. /\ w[0] = h
        /\ \A k \in 1..MaxNodes : w[k] = Hopped(nodes, w[k - 1])
    BY DEF IsWalk
  <1>2. \A t \in S : Hopped(nodes, t) = nodes[t].next /\ r[t] \in Nat
    BY SizeAssumption DEF Hopped, Nodes
  <1>3. Hopped(nodes, NULL) = NULL /\ NULL \notin S
    BY DEF Hopped, NULL, Nodes
  <1>4. \A k \in 0..MaxNodes : w[k] \in S \cup {NULL}
    BY WalkClosed DEF Line
  <1>5. \A k \in 1..MaxNodes : w[k] # NULL =>
          /\ w[k - 1] \in S /\ w[k] \in S /\ nodes[w[k - 1]].next = w[k]
          /\ r[w[k - 1]] < r[w[k]]
    <2> SUFFICES ASSUME NEW k \in 1..MaxNodes, w[k] # NULL
                 PROVE  /\ w[k - 1] \in S /\ w[k] \in S /\ nodes[w[k - 1]].next = w[k]
                        /\ r[w[k - 1]] < r[w[k]]
      OBVIOUS
    <2>1. k - 1 \in 0..MaxNodes /\ k \in 0..MaxNodes
      BY SizeAssumption
    <2>2. w[k - 1] \in S /\ w[k] \in S
      BY <1>1, <1>3, <1>4, <2>1
    <2> QED BY <1>1, <1>2, <2>2 DEF Line
  <1>6. w[MaxNodes] = NULL
    <2> SUFFICES ASSUME w[MaxNodes] # NULL PROVE FALSE
      OBVIOUS
    <2>1. \A k \in 0..MaxNodes : w[k] \in S
      <3> DEFINE K == {j \in Nat : w[MaxNodes - j] \in S}
      <3>1. 0 \in K
        <4>1. MaxNodes - 0 = MaxNodes /\ MaxNodes \in 0..MaxNodes
          BY SizeAssumption
        <4> QED BY <1>4, <4>1
      <3>2. \A j \in 1..MaxNodes : j - 1 \in K => j \in K
        <4> SUFFICES ASSUME NEW j \in 1..MaxNodes, j - 1 \in K PROVE j \in K
          OBVIOUS
        <4> DEFINE k == MaxNodes - (j - 1)
        <4>1. k \in 1..MaxNodes /\ k - 1 = MaxNodes - j /\ j \in Nat
          BY SizeAssumption
        <4>2. w[k] \in S
          OBVIOUS
        <4> HIDE DEF k
        <4>3. w[k - 1] \in S
          BY <1>3, <1>5, <4>1, <4>2
        <4> QED BY <4>1, <4>3
      <3> HIDE DEF K
      <3>3. \A j \in 0..MaxNodes : j \in K
        BY <3>1, <3>2, HopInduction
      <3> SUFFICES ASSUME NEW k \in 0..MaxNodes PROVE w[k] \in S
        OBVIOUS
      <3>4. MaxNodes - k \in 0..MaxNodes /\ MaxNodes - (MaxNodes - k) = k
        BY SizeAssumption
      <3>5. MaxNodes - k \in K
        BY <3>3, <3>4
      <3> QED BY <3>4, <3>5 DEF K
    <2>2. \A k \in 0..MaxNodes : \A j \in 0..(k - 1) : r[w[j]] < r[w[k]]
      <3> DEFINE K == {k \in Nat : \A j \in 0..(k - 1) : r[w[j]] < r[w[k]]}
      <3>1. 0 \in K
        OBVIOUS
      <3>2. \A k \in 1..MaxNodes : k - 1 \in K => k \in K
        <4> SUFFICES ASSUME NEW k \in 1..MaxNodes, k - 1 \in K PROVE k \in K
          OBVIOUS
        <4>1. k \in Nat /\ k - 1 \in 0..MaxNodes /\ k \in 0..MaxNodes
          BY SizeAssumption
        <4>2. r[w[k - 1]] < r[w[k]]
          BY <1>3, <1>5, <2>1, <4>1
        <4>3. \A j \in 0..(k - 2) : r[w[j]] < r[w[k - 1]]
          <5>1. (k - 1) - 1 = k - 2
            BY <4>1
          <5> QED BY <5>1
        <4>4. \A j \in 0..MaxNodes : r[w[j]] \in Nat
          BY <1>2, <2>1
        <4>5. \A j \in 0..(k - 1) : r[w[j]] < r[w[k]]
          <5> SUFFICES ASSUME NEW j \in 0..(k - 1) PROVE r[w[j]] < r[w[k]]
            OBVIOUS
          <5>1. j \in 0..MaxNodes /\ (j = k - 1 \/ j \in 0..(k - 2))
            BY <4>1, SizeAssumption
          <5>2. r[w[j]] \in Nat /\ r[w[k]] \in Nat /\ r[w[k - 1]] \in Nat
            BY <4>1, <4>4, <5>1
          <5> QED BY <4>2, <4>3, <5>1, <5>2
        <4> QED BY <4>1, <4>5
      <3> HIDE DEF K
      <3>3. \A k \in 0..MaxNodes : k \in K
        BY <3>1, <3>2, HopInduction
      <3> QED BY <3>3 DEF K
    <2> DEFINE f == [k \in 0..MaxNodes |-> w[k]]
    <2>3. f \in [0..MaxNodes -> Nodes]
      BY <2>1
    <2>4. IsFiniteSet(0..MaxNodes) /\ Cardinality(0..MaxNodes) = MaxNodes + 1
      BY FS_Interval, SizeAssumption
    <2>5. IsFiniteSet(Nodes) /\ Cardinality(Nodes) < MaxNodes + 1
      <3>1. IsFiniteSet(1..MaxNodes) /\ Cardinality(1..MaxNodes) = MaxNodes
        BY FS_Interval, SizeAssumption
      <3> QED BY <3>1, SizeAssumption DEF Nodes
    <2>6. PICK x, y \in 0..MaxNodes : x # y /\ f[x] = f[y]
      <3> HIDE DEF f
      <3> QED BY <2>3, <2>4, <2>5, FS_PigeonHole
    <2>7. w[x] = w[y] /\ r[w[x]] \in Nat
      BY <1>2, <2>1, <2>6
    <2>8. x \in 0..(y - 1) \/ y \in 0..(x - 1)
      BY <2>6, SizeAssumption
    <2> QED BY <2>2, <2>7, <2>8
  <1>7. \A t \in S : \E k \in 0..MaxNodes : w[k] = t
    <2> DEFINE Missed == {t \in S : \A k \in 0..MaxNodes : w[k] # t}
    <2> SUFFICES ASSUME Missed # {} PROVE FALSE
      OBVIOUS
    <2>1. PICK t \in Missed : \A u \in Missed : r[t] <= r[u]
      <3> DEFINE R == {r[t] : t \in Missed}
      <3>1. R \in SUBSET Nat /\ R # {}
        BY <1>2
      <3>2. PICK n \in R : \A m \in R : n <= m
        BY <3>1, NatMin
      <3> QED BY <3>2
    <2>2. t \in S /\ \A k \in 0..MaxNodes : w[k] # t
      OBVIOUS
    <2>3. t # h
      BY <1>1, <2>2, SizeAssumption
    <2>4. PICK u \in S : nodes[u].next = t
      BY <2>2, <2>3 DEF Line
    <2>5. r[u] < r[t] /\ r[u] \in Nat /\ r[t] \in Nat
      BY <1>2, <1>3, <2>2, <2>4 DEF Line
    <2>6. u \notin Missed
      BY <2>1, <2>5
    <2>7. PICK k \in 0..MaxNodes : w[k] = u
      BY <2>4, <2>6
    <2>8. k + 1 \in 1..MaxNodes /\ (k + 1) - 1 = k
      <3>1. k # MaxNodes
        BY <1>3, <1>6, <2>4, <2>7
      <3> QED BY <3>1, SizeAssumption
    <2>9. w[k + 1] = t
      BY <1>1, <1>2, <2>4, <2>7, <2>8
    <2>10. k + 1 \in 0..MaxNodes
      BY <2>8
    <2> QED BY <2>2, <2>9, <2>10
  <1> QED BY <1>4, <1>5, <1>7 DEF Visits

\* What the first node of T on a list is: the nodes in front of it are not in T.
LEMMA FirstOnChain ==
  ASSUME NEW S \in SUBSET Nodes, NEW h, NEW r \in [0..MaxNodes -> Nat], Chain(node, S, h, r),
         NEW T, NEW n \in First(h, T)
  PROVE  /\ n \in T /\ n \in S \cup {NULL}
         /\ n \in S \ {h} => node[n].prev \notin T
  <1> DEFINE w == Hops(h)
  <1>1. IsWalk(node, h, w)
    BY HopsWalk
  <1>2. PICK k \in 0..MaxNodes : n = w[k] /\ w[k] \in T /\ \A i \in 0..(k - 1) : w[i] \notin T
    BY DEF First
  <1> HIDE DEF w
  <1>3. /\ \A j \in 0..MaxNodes : w[j] \in S \cup {NULL}
        /\ \A j \in 1..MaxNodes : w[j] # NULL => w[j - 1] \in S /\ node[w[j - 1]].next = w[j]
    <2>1. Visits(node, S, w)
      BY <1>1, ChainLine, WalkLine
    <2> QED BY <2>1 DEF Visits
  <1>4. ASSUME n \in S \ {h} PROVE node[n].prev \notin T
    <2>1. k # 0 /\ n # NULL
      BY <1>1, <1>2, <1>4 DEF IsWalk, Nodes, NULL
    <2>2. k \in 1..MaxNodes /\ k - 1 \in 0..(k - 1)
      BY <2>1, SizeAssumption
    <2>3. w[k - 1] \in S /\ node[w[k - 1]].next = n /\ w[k - 1] \notin T
      BY <1>2, <1>3, <2>1, <2>2
    <2>4. node[n].prev = w[k - 1]
      BY <2>1, <2>3 DEF Chain
    <2> QED BY <2>3, <2>4
  <1> QED BY <1>2, <1>3, <1>4

\* A search of a list for something that is there does not come back empty-handed.
LEMMA FirstFound ==
  ASSUME NEW S \in SUBSET Nodes, NEW h, NEW r \in [0..MaxNodes -> Nat], Chain(node, S, h, r),
         NEW T, NEW t \in S, t \in T
  PROVE  NULL \notin First(h, T \cup {NULL})
  <1> DEFINE w == Hops(h)
  <1>1. IsWalk(node, h, w)
    BY HopsWalk
  <1> SUFFICES ASSUME NULL \in First(h, T \cup {NULL}) PROVE FALSE
    OBVIOUS
  <1>2. PICK k \in 0..MaxNodes : w[k] = NULL /\ \A i \in 0..(k - 1) : w[i] \notin T \cup {NULL}
    BY DEF First
  <1> HIDE DEF w
  <1>0. Visits(node, S, w)
    BY <1>1, ChainLine, WalkLine
  <1>3. PICK j \in 0..MaxNodes : w[j] = t
    BY <1>0 DEF Visits
  <1>4. /\ \A i \in 1..MaxNodes : w[i] # NULL => w[i - 1] \in S
        /\ NULL \notin S
    BY <1>0 DEF Nodes, NULL, Visits
  <1> DEFINE K == {i \in Nat : k + i <= MaxNodes => w[k + i] = NULL}
  <1>5. 0 \in K
    BY <1>2, SizeAssumption
  <1>6. \A i \in 1..MaxNodes : i - 1 \in K => i \in K
    <2> SUFFICES ASSUME NEW i \in 1..MaxNodes, i - 1 \in K, k + i <= MaxNodes PROVE w[k + i] = NULL
      BY SizeAssumption
    <2>1. k + i \in 1..MaxNodes /\ (k + i) - 1 = k + (i - 1) /\ k + (i - 1) <= MaxNodes
      BY SizeAssumption
    <2>2. w[(k + i) - 1] = NULL
      BY <2>1
    <2> QED BY <1>4, <2>1, <2>2
  <1> HIDE DEF K
  <1>7. \A i \in 0..MaxNodes : i \in K
    BY <1>5, <1>6, HopInduction
  <1>8. j \in 0..(k - 1) \/ (j - k \in 0..MaxNodes /\ k + (j - k) = j)
    BY SizeAssumption
  <1>9. CASE j \in 0..(k - 1)
    BY <1>2, <1>3, <1>9
  <1>10. CASE j - k \in 0..MaxNodes /\ k + (j - k) = j
    <2>1. j - k \in K /\ j <= MaxNodes
      BY <1>7, <1>10, SizeAssumption
    <2>2. w[j] = NULL
      BY <1>10, <2>1 DEF K
    <2> QED BY <1>3, <1>4, <2>2
  <1> QED BY <1>8, <1>9, <1>10

----------------------------------------------------------------------------
(* What the writes to the nodes change.                                     *)

\* The nodes, well-typed.
Heaps == [0..MaxNodes -> Record]

\* g is h but for the next of node n.
SetsNext(g, h, n, p) ==
  /\ g \in Heaps
  /\ \A m \in 0..MaxNodes : /\ g[m].addr = h[m].addr /\ g[m].size = h[m].size /\ g[m].prev = h[m].prev
                            /\ g[m].next = IF m = n THEN p ELSE h[m].next
\* g is h but for the prev of node n.
SetsPrev(g, h, n, p) ==
  /\ g \in Heaps
  /\ \A m \in 0..MaxNodes : /\ g[m].addr = h[m].addr /\ g[m].size = h[m].size /\ g[m].next = h[m].next
                            /\ g[m].prev = IF m = n THEN p ELSE h[m].prev
\* g is h but for node n, which is filled in.
SetsBlock(g, h, n, b) == g \in Heaps /\ g[n] = b /\ \A m \in 0..MaxNodes : m # n => g[m] = h[m]
\* g is h but for the address and the size of node n.
Resizes(g, h, n, a, s) ==
  /\ g \in Heaps
  /\ \A m \in 0..MaxNodes : /\ g[m].prev = h[m].prev /\ g[m].next = h[m].next
                            /\ g[m].addr = IF m = n THEN a ELSE h[m].addr
                            /\ g[m].size = IF m = n THEN s ELSE h[m].size
\* g is h but for the size and the next of node n.
Grows(g, h, n, s, q) ==
  /\ g \in Heaps
  /\ \A m \in 0..MaxNodes : /\ g[m].prev = h[m].prev /\ g[m].addr = h[m].addr
                            /\ g[m].next = IF m = n THEN q ELSE h[m].next
                            /\ g[m].size = IF m = n THEN s ELSE h[m].size

\* The writes do that.
LEMMA Writes ==
  ASSUME NEW h \in Heaps, NEW n \in 0..MaxNodes, NEW p \in Pointers
  PROVE  /\ SetsNext([h EXCEPT ![n].next = p], h, n, p)
         /\ SetsPrev([h EXCEPT ![n].prev = p], h, n, p)
  <1>1. /\ [h[n] EXCEPT !.next = p] \in Record
        /\ [h[n] EXCEPT !.prev = p] \in Record
    BY DEF Heaps, Record
  <1>2. /\ [h EXCEPT ![n].next = p] \in Heaps
        /\ [h EXCEPT ![n].prev = p] \in Heaps
    BY <1>1 DEF Heaps
  <1>3. \A m \in 0..MaxNodes :
          LET g == [h EXCEPT ![n].next = p]
          IN  /\ g[m].addr = h[m].addr /\ g[m].size = h[m].size /\ g[m].prev = h[m].prev
              /\ g[m].next = IF m = n THEN p ELSE h[m].next
    BY DEF Heaps, Record
  <1>4. \A m \in 0..MaxNodes :
          LET g == [h EXCEPT ![n].prev = p]
          IN  /\ g[m].addr = h[m].addr /\ g[m].size = h[m].size /\ g[m].next = h[m].next
              /\ g[m].prev = IF m = n THEN p ELSE h[m].prev
    BY DEF Heaps, Record
  <1> QED BY <1>2, <1>3, <1>4 DEF SetsNext, SetsPrev

\* So do those that fill in a node.
LEMMA WritesBlock ==
  ASSUME NEW h \in Heaps, NEW n \in 0..MaxNodes, NEW b \in Record
  PROVE  SetsBlock([h EXCEPT ![n] = b], h, n, b)
  BY DEF Heaps, SetsBlock

\* So do those that resize one.
LEMMA WritesSize ==
  ASSUME NEW h \in Heaps, NEW n \in 0..MaxNodes, NEW a \in Nat, NEW s \in Nat, NEW q \in Pointers
  PROVE  /\ Resizes([h EXCEPT ![n].addr = a, ![n].size = s], h, n, a, s)
         /\ Grows([h EXCEPT ![n].size = s, ![n].next = q], h, n, s, q)
  <1> DEFINE g == [h EXCEPT ![n].addr = a, ![n].size = s]
             f == [h EXCEPT ![n].size = s, ![n].next = q]
  <1>1. g \in Heaps /\ f \in Heaps
    BY DEF Heaps, Record
  <1>2. \A m \in 0..MaxNodes : /\ g[m].prev = h[m].prev /\ g[m].next = h[m].next
                               /\ g[m].addr = IF m = n THEN a ELSE h[m].addr
                               /\ g[m].size = IF m = n THEN s ELSE h[m].size
    BY DEF Heaps, Record
  <1>3. \A m \in 0..MaxNodes : /\ f[m].prev = h[m].prev /\ f[m].addr = h[m].addr
                               /\ f[m].next = IF m = n THEN q ELSE h[m].next
                               /\ f[m].size = IF m = n THEN s ELSE h[m].size
    BY DEF Heaps, Record
  <1> HIDE DEF g, f
  <1>4. Resizes(g, h, n, a, s) /\ Grows(f, h, n, s, q)
    BY <1>1, <1>2, <1>3 DEF Resizes, Grows
  <1> QED BY <1>4 DEF g, f

\* heap_save_allocated_block.
IsSaved(g, a, n, addr, size) ==
  /\ g \in Heaps
  /\ \A m \in 0..MaxNodes : m # a => /\ g[m].addr = node[m].addr /\ g[m].size = node[m].size
                                     /\ g[m].prev = node[m].prev
                                     /\ g[m].next = IF m = n THEN a ELSE node[m].next
  /\ g[a].addr = addr /\ g[a].size = size /\ g[a].prev = n /\ g[a].next = NULL

\* heap_save_allocated_block, field by field.
LEMMA SavedFields ==
  ASSUME node \in Heaps, NEW a \in Nodes, NEW n \in Nodes, a # n, NEW addr \in Nat, NEW size \in Nat
  PROVE  IsSaved(Saved(a, n, addr, size), a, n, addr, size)
  <1>1. a \in Pointers /\ n \in Pointers /\ NULL \in Pointers /\ a \in 0..MaxNodes /\ n \in 0..MaxNodes
    BY SizeAssumption DEF Nodes, Pointers, NULL
  <1> DEFINE linked == [node EXCEPT ![n].next = a]
             b == Block(addr, size, n, NULL)
             g == Saved(a, n, addr, size)
  <1>2. SetsNext(linked, node, n, a)
    BY <1>1, Writes
  <1>3. g = [linked EXCEPT ![a] = b]
    BY DEF Saved
  <1>4. b \in Record
    BY <1>1 DEF Block, Record
  <1>5. b.addr = addr /\ b.size = size /\ b.prev = n /\ b.next = NULL
    BY DEF Block
  <1> HIDE DEF linked, b, g
  <1>6. SetsBlock(g, linked, a, b)
    <2>1. linked \in Heaps
      BY <1>2 DEF SetsNext
    <2> QED BY <1>1, <1>3, <1>4, <2>1, WritesBlock
  <1>7. IsSaved(g, a, n, addr, size)
    BY <1>2, <1>5, <1>6 DEF IsSaved, SetsNext, SetsBlock
  <1> QED BY <1>7 DEF g

\* A block that leaves the free list.
IsUnlinked(g, h, n) ==
  /\ g \in Heaps
  /\ \A m \in Nodes : /\ g[m].addr = h[m].addr /\ g[m].size = h[m].size
                      /\ g[m].next = IF m = h[n].prev THEN h[n].next ELSE h[m].next
                      /\ g[m].prev = IF m = h[n].next THEN h[n].prev ELSE h[m].prev

\* A block leaves the free list, field by field.
LEMMA UnlinkedFields ==
  ASSUME NEW h \in Heaps, NEW n \in Nodes, h[n].prev \in 0..MaxNodes, h[n].next \in 0..MaxNodes
  PROVE  IsUnlinked(Unlinked(h, n), h, n)
  <1> DEFINE p == h[n].prev
             q == h[n].next
             ahead == IF p # NULL THEN [h EXCEPT ![p].next = q] ELSE h
             g == Unlinked(h, n)
  <1>1. g = IF q # NULL THEN [ahead EXCEPT ![q].prev = p] ELSE ahead
    BY DEF Unlinked
  <1>2. p \in Pointers /\ q \in Pointers /\ p \in 0..MaxNodes /\ q \in 0..MaxNodes
    BY SizeAssumption DEF Pointers
  <1>3. SetsNext([h EXCEPT ![p].next = q], h, p, q)
    <2> HIDE DEF p, q
    <2> QED BY <1>2, Writes
  <1>4. /\ ahead \in Heaps
        /\ \A m \in Nodes : /\ ahead[m].addr = h[m].addr /\ ahead[m].size = h[m].size
                            /\ ahead[m].prev = h[m].prev
                            /\ ahead[m].next = IF m = p THEN q ELSE h[m].next
    <2>1. \A m \in Nodes : m \in 0..MaxNodes /\ m # NULL
      BY SizeAssumption DEF Nodes, NULL
    <2> HIDE DEF p, q
    <2> QED BY <1>3, <2>1 DEF SetsNext
  <1> HIDE DEF ahead
  <1>5. SetsPrev([ahead EXCEPT ![q].prev = p], ahead, q, p)
    <2> HIDE DEF p, q
    <2> QED BY <1>2, <1>4, Writes
  <1> HIDE DEF p, q, g
  <1>6. /\ g \in Heaps
        /\ \A m \in Nodes : /\ g[m].addr = ahead[m].addr /\ g[m].size = ahead[m].size
                            /\ g[m].next = ahead[m].next
                            /\ g[m].prev = IF m = q THEN p ELSE ahead[m].prev
    <2>1. \A m \in Nodes : m \in 0..MaxNodes /\ m # NULL
      BY SizeAssumption DEF Nodes, NULL
    <2> QED BY <1>1, <1>4, <1>5, <2>1 DEF SetsPrev
  <1>7. IsUnlinked(g, h, n)
    BY <1>4, <1>6 DEF IsUnlinked, p, q
  <1> QED BY <1>7 DEF g

\* heap_forget_allocated_block.
IsForgotten(g, a) ==
  /\ g \in Heaps
  /\ \A m \in 0..MaxNodes : /\ g[m].addr = node[m].addr /\ g[m].size = node[m].size
                            /\ g[m].next = IF m = node[a].prev THEN node[a].next ELSE node[m].next
                            /\ g[m].prev = IF m = node[a].next THEN node[a].prev ELSE node[m].prev

\* heap_forget_allocated_block, field by field.
LEMMA ForgottenFields ==
  ASSUME node \in Heaps, NEW a \in Nodes, node[a].prev \in 0..MaxNodes, node[a].next \in 0..MaxNodes
  PROVE  IsForgotten(Forgotten(a), a)
  <1> DEFINE p == node[a].prev
             q == node[a].next
             ahead == [node EXCEPT ![q].prev = p]
             g == Forgotten(a)
  <1>1. a # NULL /\ p \in Pointers /\ q \in Pointers /\ p \in 0..MaxNodes /\ q \in 0..MaxNodes
    BY SizeAssumption DEF Pointers, Nodes, NULL
  <1>2. g = [ahead EXCEPT ![p].next = q]
    BY <1>1 DEF Forgotten
  <1> HIDE DEF p, q, g
  <1>3. SetsPrev(ahead, node, q, p)
    BY <1>1, Writes
  <1> HIDE DEF ahead
  <1>4. SetsNext(g, ahead, p, q)
    BY <1>1, <1>2, <1>3, Writes DEF SetsPrev
  <1>5. IsForgotten(g, a)
    BY <1>3, <1>4 DEF SetsPrev, SetsNext, IsForgotten, p, q
  <1> QED BY <1>5 DEF g

\* The new free block f in front of n.
IsInserted(g, h, f, n, addr, size) ==
  /\ g \in Heaps
  /\ \A m \in Nodes : m # f => /\ g[m].addr = h[m].addr /\ g[m].size = h[m].size
                               /\ g[m].next = IF m = h[n].prev THEN f ELSE h[m].next
                               /\ g[m].prev = IF m = n THEN f ELSE h[m].prev
  /\ g[f].addr = addr /\ g[f].size = size /\ g[f].prev = h[n].prev /\ g[f].next = n
  /\ g[NULL].addr = h[NULL].addr /\ g[NULL].size = h[NULL].size

\* A node enters the free list, field by field.
LEMMA InsertedFields ==
  ASSUME NEW h \in Heaps, NEW f \in Nodes, NEW n \in Nodes, f # n, h[n].prev \in 0..MaxNodes,
         h[n].prev # f, NEW addr \in Nat, NEW size \in Nat
  PROVE  IsInserted(Inserted(h, f, n, addr, size), h, f, n, addr, size)
  <1> DEFINE p == h[n].prev
             b == Block(addr, size, p, n)
             made1 == [h EXCEPT ![f] = b]
             filled == [made1 EXCEPT ![n].prev = f]
             g == Inserted(h, f, n, addr, size)
  <1>1. /\ p \in Pointers /\ n \in Pointers /\ f \in Pointers /\ f \in 0..MaxNodes /\ n \in 0..MaxNodes
        /\ p \in 0..MaxNodes /\ NULL \in 0..MaxNodes /\ NULL \notin Nodes
        /\ \A m \in Nodes : m \in 0..MaxNodes
    BY SizeAssumption DEF Pointers, Nodes, NULL
  <1>2. b \in Record
    BY <1>1 DEF Block, Record
  <1>3. b.addr = addr /\ b.size = size /\ b.prev = p /\ b.next = n
    BY DEF Block
  <1>4. g = IF p # NULL THEN [filled EXCEPT ![p].next = f] ELSE filled
    BY DEF Inserted
  <1> HIDE DEF b, g
  <1>5. SetsBlock(made1, h, f, b)
    BY <1>1, <1>2, WritesBlock
  <1> HIDE DEF made1
  <1>6. SetsPrev(filled, made1, n, f)
    <2>1. made1 \in Heaps
      BY <1>5 DEF SetsBlock
    <2> QED BY <1>1, <2>1, Writes
  <1> HIDE DEF filled
  <1>7. SetsNext([filled EXCEPT ![p].next = f], filled, p, f)
    <2>1. filled \in Heaps
      BY <1>6 DEF SetsPrev
    <2> HIDE DEF p
    <2> QED BY <1>1, <2>1, Writes
  <1>8. /\ g \in Heaps
        /\ \A m \in 0..MaxNodes : /\ g[m].addr = filled[m].addr /\ g[m].size = filled[m].size
                                  /\ g[m].prev = filled[m].prev
                                  /\ g[m].next = IF m = p /\ p # NULL THEN f ELSE filled[m].next
    <2> HIDE DEF p
    <2> QED BY <1>4, <1>6, <1>7 DEF SetsNext, SetsPrev
  <1>9. f # p
    OBVIOUS
  <1>10. IsInserted(g, h, f, n, addr, size)
    <2>1. ASSUME NEW m \in Nodes, m # f
          PROVE  /\ g[m].addr = h[m].addr /\ g[m].size = h[m].size
                 /\ g[m].next = IF m = p THEN f ELSE h[m].next
                 /\ g[m].prev = IF m = n THEN f ELSE h[m].prev
      <3> HIDE DEF p
      <3>1. made1[m] = h[m] /\ m \in 0..MaxNodes /\ m # NULL
        BY <1>1, <1>5, <2>1 DEF SetsBlock
      <3>2. /\ filled[m].addr = h[m].addr /\ filled[m].size = h[m].size /\ filled[m].next = h[m].next
            /\ filled[m].prev = IF m = n THEN f ELSE h[m].prev
        BY <1>6, <3>1 DEF SetsPrev
      <3> QED BY <1>8, <3>1, <3>2
    <2>2. g[f].addr = addr /\ g[f].size = size /\ g[f].prev = p /\ g[f].next = n
      <3> HIDE DEF p
      <3> QED BY <1>1, <1>3, <1>5, <1>6, <1>8, <1>9 DEF SetsBlock, SetsPrev
    <2>3. g[NULL].addr = h[NULL].addr /\ g[NULL].size = h[NULL].size
      <3> HIDE DEF p
      <3> QED BY <1>1, <1>5, <1>6, <1>8 DEF SetsBlock, SetsPrev
    <2>4. g \in Heaps
      BY <1>8
    <2> QED BY <2>1, <2>2, <2>3, <2>4, Zenon DEF IsInserted, p
  <1> QED BY <1>10 DEF g

\* Coalescing joins two blocks that touch: m takes the bytes and the next of q.
Joins(g, h, m, q) == Grows(g, h, m, h[m].size + h[q].size, h[q].next)

\* Coalescing with the next block, field by field.
LEMMA MergedNextFields ==
  ASSUME NEW h, Sound(h), NEW f \in Nodes, h[f].next \in Nodes
  PROVE  LET q == h[f].next
         IN  IF h[f].addr + h[f].size = h[q].addr THEN Joins(MergedNext(h, f), h, f, q)
             ELSE MergedNext(h, f) = h
  <1> DEFINE q == h[f].next
             s == h[f].size + h[q].size
  <1>0. f \in 0..MaxNodes /\ q \in 0..MaxNodes /\ h \in Heaps
    BY SizeAssumption DEF Nodes, Sound, Heaps
  <1>1. h[f].addr \in Nat /\ h[f].size \in Nat /\ h[f].addr + h[f].size <= HeapSize
    BY <1>0, NodeFields DEF Sound
  <1>2. (h[f].addr + h[f].size) % W = h[f].addr + h[f].size
    BY <1>1, NoWrap, SizeAssumption
  <1>3. CASE h[f].addr + h[f].size = h[q].addr
    <2>1. h[q].size \in Nat /\ h[q].next \in Pointers /\ h[q].addr + h[q].size <= HeapSize
      BY <1>0, NodeFields DEF Sound
    <2>2. s \in Nat /\ s <= HeapSize
      BY <1>1, <1>3, <2>1, SizeAssumption
    <2>3. s % W = s
      BY <2>2, NoWrap, SizeAssumption
    <2>4. MergedNext(h, f) = [h EXCEPT ![f].size = s % W, ![f].next = h[q].next]
      BY <1>2, <1>3 DEF MergedNext
    <2> HIDE DEF q
    <2>5. Grows([h EXCEPT ![f].size = s, ![f].next = h[q].next], h, f, s, h[q].next)
      <3> HIDE DEF s
      <3> QED BY <1>0, <1>1, <2>1, <2>2, WritesSize
    <2>6. Joins(MergedNext(h, f), h, f, q)
      BY <2>3, <2>4, <2>5 DEF Joins
    <2> QED BY <1>3, <2>6 DEF q
  <1>4. CASE h[f].addr + h[f].size # h[q].addr
    BY <1>2, <1>4 DEF MergedNext
  <1> QED BY <1>3, <1>4

\* The same with the block in front; low memory never touches a block.
LEMMA MergedPrevFields ==
  ASSUME NEW h, Sound(h), NEW f \in Nodes, h[f].prev \in 0..MaxNodes
  PROVE  LET p == h[f].prev
         IN  IF p # NULL /\ h[p].addr + h[p].size = h[f].addr THEN Joins(MergedPrev(h, f), h, p, f)
             ELSE MergedPrev(h, f) = h
  <1> DEFINE p == h[f].prev
             s == h[p].size + h[f].size
  <1>0. f \in 0..MaxNodes /\ h \in Heaps
    BY SizeAssumption DEF Nodes, Sound, Heaps
  <1>1. /\ h[f].addr \in Nat /\ h[f].size \in Nat /\ h[f].next \in Pointers
        /\ h[f].addr + h[f].size <= HeapSize
    BY <1>0, NodeFields DEF Sound
  <1>2. CASE p = NULL
    <2>1. h[p].addr + h[p].size = Ends /\ Ends % W = Ends /\ Ends > h[f].addr
      BY <1>1, <1>2, SizeAssumption, SMTT(30) DEF Sound, Ends
    <2>2. (h[p].addr + h[p].size) % W # h[f].addr
      BY <1>1, <2>1, SizeAssumption DEF Ends
    <2> QED BY <1>2, <2>2 DEF MergedPrev
  <1>3. CASE p # NULL
    <2>1. p \in Nodes
      BY <1>3, SizeAssumption DEF Nodes, NULL
    <2>2. h[p].addr \in Nat /\ h[p].size \in Nat /\ h[p].addr + h[p].size <= HeapSize
      BY <2>1, NodeFields, SizeAssumption DEF Nodes, Sound
    <2>3. (h[p].addr + h[p].size) % W = h[p].addr + h[p].size
      <3> HIDE DEF p
      <3> QED BY <2>2, NoWrap, SizeAssumption, SMTT(30)
    <2>4. CASE h[p].addr + h[p].size = h[f].addr
      <3>1. s \in Nat /\ s <= HeapSize
        BY <1>1, <2>2, <2>4, SizeAssumption
      <3>2. s % W = s
        BY <3>1, NoWrap, SizeAssumption
      <3>3. MergedPrev(h, f) = [h EXCEPT ![p].size = s % W, ![p].next = h[f].next]
        BY <2>3, <2>4 DEF MergedPrev
      <3>4. Grows([h EXCEPT ![p].size = s, ![p].next = h[f].next], h, p, s, h[f].next)
        <4>1. p \in 0..MaxNodes
          OBVIOUS
        <4> HIDE DEF p, s
        <4> QED BY <1>0, <1>1, <2>2, <3>1, <4>1, WritesSize
      <3>5. Joins(MergedPrev(h, f), h, p, f)
        <4> HIDE DEF p
        <4> QED BY <3>2, <3>3, <3>4 DEF Joins
      <3> QED BY <1>3, <2>4, <3>5
    <2>5. CASE h[p].addr + h[p].size # h[f].addr
      BY <2>3, <2>5 DEF MergedPrev
    <2> QED BY <2>4, <2>5
  <1> QED BY <1>2, <1>3

----------------------------------------------------------------------------
(* The list of the allocated blocks.  Nodes are appended at its end, so they *)
(* are in the order they were made.                                         *)

\* The order of the allocated blocks' list: the order the nodes were made in.
Number == [n \in 0..MaxNodes |-> n]

\* g finds the node of a held block: an address that was handed out twice has
\* two.
Found(A, g) == /\ g \in [held -> A]
               /\ \A b \in held : node[g[b]].addr = b[1]
               /\ \A b, c \in held : b # c => g[b] # g[c]
\* A is the list of the allocated blocks, F the set of all nodes that were ever
\* on the free list, stale links or not.
Books(A, F) ==
  /\ A \subseteq 1..made /\ F \subseteq 1..made /\ A \cap F = {}
  /\ alloc_ll = 2 /\ Chain(node, A, alloc_ll, Number) /\ node[2].addr = 0
  /\ free_ll \in F \cup {NULL}
  /\ \A n \in F : /\ node[n].addr > 0
                  /\ node[n].prev \in F \cup {NULL} /\ node[n].next \in F \cup {NULL}
  /\ \A b \in held : b = <<0, Screen>> \/ b[1] > 0
  /\ \E g : Found(A, g)
\* The books are right until a free uses low memory.
BooksInv == ~low_used => ~lost /\ \E A, F \in SUBSET Nodes : Books(A, F)

\* What heap_alloc does to the nodes: n is the block it found, tail the end of
\* the list of the allocated blocks.
Takes(A, F, size, n, tail) ==
  LET a == made + 1
      p == node[n].prev
      q == node[n].next
  IN  /\ n \in F /\ n \in heap_first_fit(size) /\ node[n].size >= size
      /\ tail \in A /\ node[tail].next = NULL
      /\ made' = a /\ a \in Nodes
      /\ held' = held \cup {<<node[n].addr, size>>}
      /\ node' \in Heaps
      /\ node'[a].addr = node[n].addr /\ node'[a].size = size
      /\ node'[a].prev = tail /\ node'[a].next = NULL
      /\ \A m \in A : /\ node'[m].addr = node[m].addr /\ node'[m].size = node[m].size
                      /\ node'[m].prev = node[m].prev
                      /\ node'[m].next = IF m = tail THEN a ELSE node[m].next
      /\ \/ /\ size < node[n].size /\ free_ll' = free_ll
            /\ \A m \in F : /\ node'[m].prev = node[m].prev /\ node'[m].next = node[m].next
                            /\ m # n => node'[m].addr = node[m].addr /\ node'[m].size = node[m].size
            /\ node'[n].addr = node[n].addr + size /\ node'[n].size = node[n].size - size
         \/ /\ size = node[n].size /\ free_ll' = IF p = NULL THEN q ELSE free_ll
            /\ \A m \in F : /\ node'[m].addr = node[m].addr /\ node'[m].size = node[m].size
                            /\ node'[m].next = IF m = p THEN q ELSE node[m].next
                            /\ node'[m].prev = IF m = q THEN p ELSE node[m].prev

\* The walk of the free list, from whatever links, stays among its nodes.
LEMMA FreeWalk ==
  ASSUME NEW A \in SUBSET Nodes, NEW F \in SUBSET Nodes, Books(A, F), NEW T, NEW n \in First(free_ll, T)
  PROVE  n \in F \cup {NULL}
  <1> DEFINE w == Hops(free_ll)
  <1>1. IsWalk(node, free_ll, w)
    BY HopsWalk
  <1>2. PICK k \in 0..MaxNodes : n = w[k]
    BY DEF First
  <1> HIDE DEF w
  <1>3. \A k2 \in 0..MaxNodes : w[k2] \in F \cup {NULL}
    BY <1>1, WalkClosed DEF Books
  <1> QED BY <1>2, <1>3

\* The ranks are numbers.
LEMMA NumberType == Number \in [0..MaxNodes -> Nat] /\ \A n \in Nodes : Number[n] = n
  BY SizeAssumption DEF Number, Nodes

\* heap_alloc does so.
LEMMA AllocTakes ==
  ASSUME BoundsInv, ~lost, NEW A \in SUBSET Nodes, NEW F \in SUBSET Nodes, Books(A, F),
         NEW size \in Sizes, heap_alloc(size)
  PROVE  \E n, tail : Takes(A, F, size, n, tail)
  <1>1. PICK n \in heap_first_fit(size) \ {NULL} :
          /\ made < MaxNodes
          /\ made' = made + 1
          /\ \E tail \in First(alloc_ll, {m \in Nodes : node[m].next = NULL}) :
               LET saved == Saved(made', tail, node[n].addr, size)
               IN  IF size < saved[n].size
                   THEN /\ node' = [saved EXCEPT ![n].addr = (@ + size) % W, ![n].size = @ - size]
                        /\ UNCHANGED free_ll
                   ELSE /\ node' = Unlinked(saved, n)
                        /\ free_ll' = IF saved[n].prev = NULL THEN saved[n].next ELSE free_ll
          /\ held' = held \cup {<<node[n].addr, size>>}
          /\ UNCHANGED <<alloc_ll, stale, low_used, lost>>
    BY DEF heap_alloc
  <1>2. n \in Nodes /\ node[n].size >= size /\ n \in F
    <2>1. n \in Nodes /\ node[n].size >= size
      BY <1>1, FirstIn DEF heap_first_fit
    <2> QED BY <1>1, <2>1, FreeWalk DEF heap_first_fit
  <1>3. PICK tail \in First(alloc_ll, {m \in Nodes : node[m].next = NULL}) :
          LET saved == Saved(made', tail, node[n].addr, size)
          IN  IF size < saved[n].size
              THEN node' = [saved EXCEPT ![n].addr = (@ + size) % W, ![n].size = @ - size]
                   /\ free_ll' = free_ll
              ELSE node' = Unlinked(saved, n)
                   /\ free_ll' = IF saved[n].prev = NULL THEN saved[n].next ELSE free_ll
    BY <1>1
  <1>4. tail \in A /\ node[tail].next = NULL
    <2>1. Chain(node, A, alloc_ll, Number)
      BY DEF Books
    <2>2. tail \in Nodes /\ node[tail].next = NULL
      BY FirstIn
    <2>3. tail \in A \cup {NULL}
      BY <2>1, NumberType, FirstOnChain
    <2> QED BY <2>2, <2>3 DEF Nodes, NULL
  <1> DEFINE a == made + 1
             saved == Saved(a, tail, node[n].addr, size)
  <1>5. /\ made \in Nat /\ a \in Nodes /\ a \notin A \cup F /\ size \in Nat
        /\ \A m \in A \cup F : m \in Nodes /\ m \in 0..MaxNodes /\ m # a
    BY <1>1, SizeAssumption DEF Books, BoundsInv, Nodes
  <1>6. /\ Sound(node) /\ node \in Heaps /\ node[n].addr \in Nat /\ node[n].size \in Nat
        /\ node[n].addr + node[n].size <= HeapSize
        /\ node[n].prev \in F \cup {NULL} /\ node[n].next \in F \cup {NULL}
    BY <1>2, <1>5, NodeFields DEF BoundsInv, Sound, Books, Heaps
  <1>7. IsSaved(saved, a, tail, node[n].addr, size)
    BY <1>4, <1>5, <1>6, SavedFields
  <1>8. IF size < saved[n].size
        THEN /\ node' = [saved EXCEPT ![n].addr = (saved[n].addr + size) % W,
                                      ![n].size = saved[n].size - size]
             /\ free_ll' = free_ll
        ELSE /\ node' = Unlinked(saved, n)
             /\ free_ll' = IF saved[n].prev = NULL THEN saved[n].next ELSE free_ll
    BY <1>1, <1>3
  <1> HIDE DEF saved
  <1>9. n \in 0..MaxNodes /\ n # tail /\ n # a /\ n \notin A /\ tail # NULL /\ a # NULL
        /\ NULL \in 0..MaxNodes /\ \A m \in F : m # tail /\ m \notin A
    BY <1>2, <1>4, <1>5, SizeAssumption DEF Books, Nodes, NULL
  <1>10. /\ saved[n].addr = node[n].addr /\ saved[n].size = node[n].size
         /\ saved[n].prev = node[n].prev /\ saved[n].next = node[n].next /\ saved \in Heaps
    BY <1>7, <1>9 DEF IsSaved
  <1>11. CASE size < node[n].size
    <2> DEFINE x == node[n].addr + size
               s == node[n].size - size
    <2>1. x \in Nat /\ s \in Nat /\ x <= HeapSize
      BY <1>5, <1>6, <1>11, SizeAssumption
    <2>2. x % W = x
      BY <2>1, NoWrap, SizeAssumption
    <2>3. node' = [saved EXCEPT ![n].addr = x, ![n].size = s] /\ free_ll' = free_ll
      BY <1>8, <1>10, <1>11, <2>2
    <2> HIDE DEF x, s
    <2>4. Resizes(node', saved, n, x, s)
      <3>1. NULL \in Pointers
        BY SizeAssumption DEF Pointers, NULL
      <3> QED BY <1>9, <1>10, <2>1, <2>3, <3>1, WritesSize
    <2>5. /\ node' \in Heaps
          /\ node'[a].addr = node[n].addr /\ node'[a].size = size
          /\ node'[a].prev = tail /\ node'[a].next = NULL
      BY <1>5, <1>7, <1>9, <2>4, SizeAssumption DEF Resizes, IsSaved, Nodes
    <2>6. \A m \in A : /\ node'[m].addr = node[m].addr /\ node'[m].size = node[m].size
                       /\ node'[m].prev = node[m].prev
                       /\ node'[m].next = IF m = tail THEN a ELSE node[m].next
      BY <1>5, <1>7, <1>9, <2>4 DEF Resizes, IsSaved
    <2>7. \A m \in F : /\ node'[m].prev = node[m].prev /\ node'[m].next = node[m].next
                       /\ m # n => node'[m].addr = node[m].addr /\ node'[m].size = node[m].size
      BY <1>5, <1>7, <1>9, <2>4 DEF Resizes, IsSaved
    <2>8. node'[n].addr = node[n].addr + size /\ node'[n].size = node[n].size - size
      BY <1>9, <2>4 DEF Resizes, x, s
    <2>9. Takes(A, F, size, n, tail)
      BY <1>1, <1>2, <1>4, <1>5, <1>11, <2>3, <2>5, <2>6, <2>7, <2>8 DEF Takes
    <2> QED BY <2>9
  <1>12. CASE ~(size < node[n].size)
    <2>1. /\ node' = Unlinked(saved, n) /\ size = node[n].size
          /\ free_ll' = IF node[n].prev = NULL THEN node[n].next ELSE free_ll
      BY <1>2, <1>5, <1>6, <1>8, <1>10, <1>12
    <2>2. IsUnlinked(node', saved, n)
      <3>1. saved[n].prev \in 0..MaxNodes /\ saved[n].next \in 0..MaxNodes
        BY <1>5, <1>6, <1>9, <1>10
      <3> QED BY <1>2, <1>10, <2>1, <3>1, UnlinkedFields
    <2>3. /\ node' \in Heaps
          /\ node'[a].addr = node[n].addr /\ node'[a].size = size
          /\ node'[a].prev = tail /\ node'[a].next = NULL
      BY <1>5, <1>6, <1>7, <1>9, <1>10, <2>2 DEF IsUnlinked, IsSaved
    <2>4. \A m \in A : /\ node'[m].addr = node[m].addr /\ node'[m].size = node[m].size
                       /\ node'[m].prev = node[m].prev
                       /\ node'[m].next = IF m = tail THEN a ELSE node[m].next
      <3> SUFFICES ASSUME NEW m \in A
                   PROVE  /\ node'[m].addr = node[m].addr /\ node'[m].size = node[m].size
                          /\ node'[m].prev = node[m].prev
                          /\ node'[m].next = IF m = tail THEN a ELSE node[m].next
        OBVIOUS
      <3>1. m # saved[n].prev /\ m # saved[n].next
        BY <1>6, <1>9, <1>10 DEF Nodes, NULL
      <3> QED BY <1>5, <1>7, <2>2, <3>1 DEF IsUnlinked, IsSaved
    <2>5. \A m \in F : /\ node'[m].addr = node[m].addr /\ node'[m].size = node[m].size
                       /\ node'[m].next = IF m = node[n].prev THEN node[n].next ELSE node[m].next
                       /\ node'[m].prev = IF m = node[n].next THEN node[n].prev ELSE node[m].prev
      BY <1>5, <1>7, <1>9, <1>10, <2>2 DEF IsUnlinked, IsSaved
    <2>6. Takes(A, F, size, n, tail)
      BY <1>1, <1>2, <1>4, <1>5, <1>12, <2>1, <2>3, <2>4, <2>5 DEF Takes
    <2> QED BY <2>6
  <1> QED BY <1>11, <1>12

\* What heap_free does to the nodes: n is the free block behind the freed one, a
\* the node that remembers its size.
Gives(A, F, b, n, a) ==
  LET f == made + 1
      p == node[n].prev
      s == node[a].size
      behind == b[1] + s = node[n].addr
      ahead == p # NULL /\ node[p].addr + node[p].size = b[1]
      pa == node[a].prev
      qa == node[a].next
  IN  /\ n \in F /\ n \in First(free_ll, {NULL} \cup {m \in Nodes : node[m].addr >= b[1]})
      /\ a \in A \ {2} /\ node[a].addr = b[1] /\ p \in F \cup {NULL}
      /\ made' = f /\ f \in Nodes
      /\ free_ll' = IF p = NULL THEN f ELSE free_ll
      /\ node' \in Heaps
      /\ node'[f].addr = b[1] /\ node'[f].size = s + (IF behind THEN node[n].size ELSE 0)
      /\ node'[f].prev = p
      /\ node'[f].next = IF behind THEN (IF n = p THEN f ELSE node[n].next) ELSE n
      /\ \A m \in A : /\ node'[m].addr = node[m].addr /\ node'[m].size = node[m].size
                      /\ node'[m].next = IF m = pa THEN qa ELSE node[m].next
                      /\ node'[m].prev = IF m = qa THEN pa ELSE node[m].prev
      /\ \A m \in F : /\ node'[m].addr = node[m].addr
                      /\ node'[m].prev = IF m = n THEN f ELSE node[m].prev
                      /\ node'[m].size = IF m = p /\ ahead THEN node[m].size + node'[f].size
                                         ELSE node[m].size
                      /\ node'[m].next = IF m = p THEN IF ahead THEN node'[f].next ELSE f
                                         ELSE node[m].next

\* heap_free does so, unless it uses low memory.
LEMMA FreeGives ==
  ASSUME BoundsInv, ~lost, ~low_used', NEW A \in SUBSET Nodes, NEW F \in SUBSET Nodes, Books(A, F),
         NEW b \in held, b # <<0, Screen>>, heap_free(b[1])
  PROVE  ~lost' /\ \E n, a : Gives(A, F, b, n, a)
  <1>1. PICK n \in First(free_ll, {NULL} \cup {m \in Nodes : node[m].addr >= b[1]}),
             a \in First(alloc_ll, {NULL} \cup {m \in Nodes : node[m].addr = b[1]}) :
          LET f == made + 1
              rest == Forgotten(a)
              listed == Inserted(rest, f, n, b[1], SizeOf(a))
          IN  /\ f <= MaxNodes /\ made' = f
              /\ rest[n].prev # Wild
              /\ node' = MergedPrev(MergedNext(listed, f), f)
              /\ free_ll' = IF rest[n].prev = NULL THEN f ELSE free_ll
              /\ stale' = (stale \/ ~BackLinked')
              /\ low_used' = (low_used \/ n = NULL)
              /\ lost' = (lost \/ a = NULL)
              /\ UNCHANGED alloc_ll
    BY DEF heap_free
  <1>2. n \in F /\ n # NULL
    <2>1. n # NULL
      BY <1>1
    <2>2. n \in F \cup {NULL}
      BY FreeWalk
    <2> QED BY <2>1, <2>2
  <1>3. a \in A /\ a # NULL /\ node[a].addr = b[1]
    <2>1. Chain(node, A, alloc_ll, Number)
      BY DEF Books
    <2>2. PICK g : Found(A, g)
      BY DEF Books
    <2>3. g[b] \in A /\ g[b] \in {m \in Nodes : node[m].addr = b[1]}
      BY <2>2 DEF Found
    <2>4. NULL \notin First(alloc_ll, {m \in Nodes : node[m].addr = b[1]} \cup {NULL})
      BY <2>1, <2>3, NumberType, FirstFound
    <2>5. {NULL} \cup {m \in Nodes : node[m].addr = b[1]} = {m \in Nodes : node[m].addr = b[1]} \cup {NULL}
      OBVIOUS
    <2>6. a # NULL
      BY <1>1, <2>4, <2>5
    <2>7. a \in A \cup {NULL}
      BY <1>1, <2>1, NumberType, FirstOnChain
    <2>8. a \in {NULL} \cup {m \in Nodes : node[m].addr = b[1]}
      BY <1>1, FirstIn
    <2> QED BY <2>6, <2>7, <2>8
  <1> DEFINE f == made + 1
             p == node[n].prev
             pa == node[a].prev
             qa == node[a].next
             s == node[a].size
             rest == Forgotten(a)
             listed == Inserted(rest, f, n, b[1], s)
             merged == MergedNext(listed, f)
  <1>4. /\ f \in Nodes /\ made' = f /\ node' = MergedPrev(merged, f)
        /\ free_ll' = IF rest[n].prev = NULL THEN f ELSE free_ll
        /\ ~lost'
    <2>1. SizeOf(a) = s
      BY <1>3 DEF SizeOf
    <2>2. f \in Nodes
      BY <1>1, SizeAssumption DEF BoundsInv, Nodes
    <2> QED BY <1>1, <1>3, <2>1, <2>2
  <1>5. /\ f \notin A \cup F /\ \A m \in A \cup F : m # f /\ m # NULL /\ m \in 0..MaxNodes /\ m \in Nodes
        /\ NULL \in 0..MaxNodes /\ f # NULL /\ \A m \in F : m \notin A
    BY <1>4, SizeAssumption DEF Books, BoundsInv, Nodes, NULL
  <1>6. a # 2 /\ b[1] > 0
    BY <1>3 DEF Books
  <1>7. pa \in A /\ qa \in A \cup {NULL} /\ p \in F \cup {NULL}
    BY <1>2, <1>3, <1>6 DEF Books, Chain
  <1>8. Sound(node) /\ node \in Heaps /\ b[1] \in Nat /\ s \in Nat /\ b[1] + s <= HeapSize
    BY <1>3, <1>5, NodeFields DEF BoundsInv, Sound, Heaps
  <1>9. IsForgotten(rest, a)
    BY <1>3, <1>5, <1>7, <1>8, ForgottenFields
  <1>10. Sound(rest)
    BY <1>3, <1>8, ForgottenSound
  <1> HIDE DEF rest
  <1>11. rest[n].prev = p /\ rest \in Heaps
    BY <1>2, <1>5, <1>7, <1>9 DEF IsForgotten
  <1>12. IsInserted(listed, rest, f, n, b[1], s)
    <2>1. n \in Nodes /\ f # n /\ rest[n].prev \in 0..MaxNodes /\ rest[n].prev # f
      BY <1>2, <1>5, <1>7, <1>11
    <2> HIDE DEF f, p, s
    <2> QED BY <1>4, <1>8, <1>11, <2>1, InsertedFields
  <1>13. Sound(listed)
    <2>1. n \in 0..MaxNodes
      BY <1>2, <1>5
    <2> HIDE DEF f, s
    <2> QED BY <1>4, <1>8, <1>10, <2>1, InsertedSound
  <1> HIDE DEF listed
  <1> HIDE DEF f, s, p, pa, qa
  <1>14. /\ listed[f].addr = b[1] /\ listed[f].size = s /\ listed[f].prev = p /\ listed[f].next = n
         /\ \A m \in A : /\ listed[m].addr = node[m].addr /\ listed[m].size = node[m].size
                         /\ listed[m].next = IF m = pa THEN qa ELSE node[m].next
                         /\ listed[m].prev = IF m = qa THEN pa ELSE node[m].prev
    <2>1. \A m \in A : m \in Nodes /\ m \in 0..MaxNodes /\ m # f /\ m # n /\ m # rest[n].prev
      BY <1>2, <1>5, <1>7, <1>11
    <2> QED BY <1>9, <1>11, <1>12, <2>1 DEF IsInserted, IsForgotten, pa, qa
  <1>15. \A m \in F : /\ listed[m].addr = node[m].addr /\ listed[m].size = node[m].size
                      /\ listed[m].next = IF m = p THEN f ELSE node[m].next
                      /\ listed[m].prev = IF m = n THEN f ELSE node[m].prev
    <2>1. \A m \in F : m \in Nodes /\ m \in 0..MaxNodes /\ m # f /\ m # pa /\ m # qa
      BY <1>5, <1>7
    <2>2. \A m \in F : rest[m].addr = node[m].addr /\ rest[m].size = node[m].size
                       /\ rest[m].next = node[m].next /\ rest[m].prev = node[m].prev
      BY <1>9, <2>1 DEF IsForgotten, pa, qa
    <2> QED BY <1>11, <1>12, <2>1, <2>2 DEF IsInserted
  <1> DEFINE behind == b[1] + s = node[n].addr
             ahead == p # NULL /\ node[p].addr + node[p].size = b[1]
  <1>16. /\ Sound(merged)
         /\ merged[f].addr = b[1] /\ merged[f].prev = p
         /\ merged[f].size = s + (IF behind THEN node[n].size ELSE 0)
         /\ merged[f].next = IF behind THEN (IF n = p THEN f ELSE node[n].next) ELSE n
         /\ \A m \in A \cup F : /\ merged[m].addr = listed[m].addr /\ merged[m].size = listed[m].size
                                /\ merged[m].prev = listed[m].prev /\ merged[m].next = listed[m].next
    <2>1. listed[f].next \in Nodes /\ listed[f].next \in 0..MaxNodes
      BY <1>2, <1>5, <1>14
    <2>2. Sound(merged)
      BY <1>4, <1>13, <2>1, MergedNextSound
    <2>3. IF behind THEN Joins(merged, listed, f, n) ELSE merged = listed
      <3>1. IF listed[f].addr + listed[f].size = listed[listed[f].next].addr
            THEN Joins(merged, listed, f, listed[f].next) ELSE merged = listed
        BY <1>4, <1>13, <2>1, MergedNextFields
      <3> QED BY <1>2, <1>14, <1>15, <3>1
    <2> HIDE DEF merged
    <2>4. CASE behind
      <3>1. Grows(merged, listed, f, listed[f].size + listed[n].size, listed[n].next)
        BY <2>3, <2>4 DEF Joins
      <3>2. f \in 0..MaxNodes
        BY <1>4, SizeAssumption DEF Nodes
      <3> QED BY <1>2, <1>5, <1>14, <1>15, <2>2, <2>4, <3>1, <3>2 DEF Grows
    <2>5. CASE ~behind
      BY <1>8, <1>14, <2>2, <2>3, <2>5
    <2> QED BY <2>4, <2>5
  <1> HIDE DEF merged
  <1>17. /\ node' \in Heaps
         /\ node'[f].addr = b[1] /\ node'[f].prev = p /\ node'[f].size = merged[f].size
         /\ node'[f].next = merged[f].next
         /\ \A m \in A \cup F :
              /\ node'[m].addr = merged[m].addr /\ node'[m].prev = merged[m].prev
              /\ node'[m].size = IF m = p /\ ahead THEN node[m].size + merged[f].size ELSE merged[m].size
              /\ node'[m].next = IF m = p /\ ahead THEN merged[f].next ELSE merged[m].next
    <2>1. merged[f].prev \in 0..MaxNodes /\ f \in 0..MaxNodes /\ merged \in Heaps
      BY <1>4, <1>5, <1>7, <1>16, SizeAssumption DEF Nodes, Sound, Heaps
    <2>2. IF ahead THEN Joins(node', merged, p, f) ELSE node' = merged
      <3>1. IF merged[f].prev # NULL /\ merged[merged[f].prev].addr + merged[merged[f].prev].size = merged[f].addr
            THEN Joins(node', merged, merged[f].prev, f) ELSE node' = merged
        BY <1>4, <1>16, <2>1, MergedPrevFields
      <3>2. p # NULL => merged[p].addr = node[p].addr /\ merged[p].size = node[p].size
        BY <1>7, <1>15, <1>16
      <3> QED BY <1>16, <3>1, <3>2
    <2>3. CASE ahead
      <3>1. Grows(node', merged, p, merged[p].size + merged[f].size, merged[f].next)
        BY <2>2, <2>3 DEF Joins
      <3>2. p \in F /\ f # p /\ merged[p].size = node[p].size
        BY <1>5, <1>7, <1>15, <1>16, <2>3
      <3> HIDE DEF ahead
      <3> QED BY <1>5, <1>16, <2>1, <2>3, <3>1, <3>2 DEF Grows
    <2>4. CASE ~ahead
      <3>1. node' = merged
        BY <2>2, <2>4
      <3> HIDE DEF ahead
      <3> QED BY <1>16, <2>1, <2>4, <3>1
    <2> QED BY <2>3, <2>4
  <1>18. \A m \in A : /\ node'[m].addr = node[m].addr /\ node'[m].size = node[m].size
                      /\ node'[m].next = IF m = pa THEN qa ELSE node[m].next
                      /\ node'[m].prev = IF m = qa THEN pa ELSE node[m].prev
    <2>1. \A m \in A : m # p
      BY <1>5, <1>7
    <2> HIDE DEF ahead
    <2> QED BY <1>14, <1>16, <1>17, <2>1
  <1>19. \A m \in F : /\ node'[m].addr = node[m].addr
                      /\ node'[m].prev = IF m = n THEN f ELSE node[m].prev
                      /\ node'[m].size = IF m = p /\ ahead THEN node[m].size + node'[f].size
                                         ELSE node[m].size
                      /\ node'[m].next = IF m = p THEN IF ahead THEN node'[f].next ELSE f
                                         ELSE node[m].next
    <2> HIDE DEF ahead
    <2> QED BY <1>15, <1>16, <1>17
  <1>20. Gives(A, F, b, n, a)
    <2>1. free_ll' = IF p = NULL THEN f ELSE free_ll
      BY <1>4, <1>11
    <2>2. node'[f].size = s + (IF behind THEN node[n].size ELSE 0)
          /\ node'[f].next = IF behind THEN (IF n = p THEN f ELSE node[n].next) ELSE n
      BY <1>16, <1>17
    <2>3. a \in A \ {2} /\ made' = f /\ f \in Nodes /\ node' \in Heaps /\ node'[f].addr = b[1] /\ node'[f].prev = p
      BY <1>3, <1>4, <1>6, <1>17
    <2> QED BY <1>1, <1>2, <1>3, <1>7, <1>18, <1>19, <2>1, <2>2, <2>3
         DEF Gives, f, p, pa, qa, s
  <1> QED BY <1>4, <1>20

\* Appending a node to a list.
LEMMA ChainAppend ==
  ASSUME NEW h, NEW g, NEW S \in SUBSET Nodes, NEW hd, NEW r, Chain(h, S, hd, r),
         NEW tail \in S, h[tail].next = NULL, NEW a \in Nodes, a \notin S, r[tail] < r[a],
         \A m \in S : g[m].prev = h[m].prev /\ g[m].next = IF m = tail THEN a ELSE h[m].next,
         g[a].prev = tail, g[a].next = NULL
  PROVE  Chain(g, S \cup {a}, hd, r)
  <1>1. NULL \notin S /\ a # NULL /\ hd \in S /\ a # hd
    <2>1. NULL \notin Nodes
      BY DEF Nodes, NULL
    <2>2. hd \in S
      BY <2>1 DEF Chain
    <2> QED BY <2>1, <2>2
  <1>2. \A t \in S \cup {a} : /\ g[t].next \in S \cup {a} \cup {NULL} /\ g[t].next # hd
                              /\ g[t].next # NULL => r[t] < r[g[t].next] /\ g[g[t].next].prev = t
    <2> SUFFICES ASSUME NEW t \in S \cup {a}
                 PROVE  /\ g[t].next \in S \cup {a} \cup {NULL} /\ g[t].next # hd
                        /\ g[t].next # NULL => r[t] < r[g[t].next] /\ g[g[t].next].prev = t
      OBVIOUS
    <2>1. CASE t = a
      BY <1>1, <2>1
    <2>2. CASE t = tail
      BY <1>1, <2>2
    <2>3. CASE t \in S \ {tail}
      BY <1>1, <2>3 DEF Chain
    <2> QED BY <2>1, <2>2, <2>3
  <1>3. \A t \in (S \cup {a}) \ {hd} : g[t].prev \in S \cup {a} /\ g[g[t].prev].next = t
    <2> SUFFICES ASSUME NEW t \in (S \cup {a}) \ {hd} PROVE g[t].prev \in S \cup {a} /\ g[g[t].prev].next = t
      OBVIOUS
    <2>1. CASE t = a
      BY <2>1
    <2>2. CASE t \in S
      BY <1>1, <2>2 DEF Chain
    <2> QED BY <2>1, <2>2
  <1> QED BY <1>1, <1>2, <1>3 DEF Chain

\* Taking a node other than the head out of a list.
LEMMA ChainUnlink ==
  ASSUME NEW h, NEW g, NEW S \in SUBSET Nodes, NEW hd, NEW r \in [0..MaxNodes -> Nat], Chain(h, S, hd, r),
         NEW x \in S, x # hd,
         \A m \in S \ {x} : /\ g[m].next = IF m = h[x].prev THEN h[x].next ELSE h[m].next
                            /\ g[m].prev = IF m = h[x].next THEN h[x].prev ELSE h[m].prev
  PROVE  Chain(g, S \ {x}, hd, r)
  <1> DEFINE p == h[x].prev
             y == h[x].next
  <1>1. p \in S /\ h[p].next = x /\ y \in S \cup {NULL} /\ y # hd
    BY DEF Chain
  <1>2. NULL \notin S /\ \A t \in S : r[t] \in Nat
    BY SizeAssumption DEF Nodes, NULL
  <1>3. r[p] < r[x] /\ (y # NULL => r[x] < r[y] /\ h[y].prev = x)
    BY <1>1, <1>2 DEF Chain
  <1>4. p # x /\ y # x /\ (y # NULL => y # p /\ r[p] < r[y])
    <2> HIDE DEF p, y
    <2>1. r[p] \in Nat /\ r[x] \in Nat /\ (y # NULL => r[y] \in Nat)
      BY <1>1, <1>2
    <2>2. p # x /\ (y # NULL => r[p] < r[y])
      BY <1>3, <2>1
    <2>3. y # x
      BY <1>2, <1>3, <2>1
    <2> QED BY <2>1, <2>2, <2>3
  <1>5. \A t \in S \ {x} : t # p => h[t].next # x
    BY <1>2 DEF Chain
  <1>6. \A t \in S \ {x} : t # y /\ t # hd => h[t].prev # x
    BY DEF Chain
  <1>7. \A m \in S \ {x} : /\ g[m].next = IF m = p THEN y ELSE h[m].next
                           /\ g[m].prev = IF m = y THEN p ELSE h[m].prev
    OBVIOUS
  <1> HIDE DEF p, y
  <1>8. hd \in (S \ {x}) \cup {NULL} /\ (hd = NULL => S \ {x} = {})
    BY DEF Chain
  <1>9. ASSUME NEW t \in S \ {x}
        PROVE  /\ g[t].next \in (S \ {x}) \cup {NULL} /\ g[t].next # hd
               /\ g[t].next # NULL => r[t] < r[g[t].next] /\ g[g[t].next].prev = t
    <2>1. CASE t = p
      BY <1>1, <1>4, <1>7, <2>1
    <2>2. CASE t # p
      <3>1. g[t].next = h[t].next /\ h[t].next # x
        BY <1>5, <1>7, <2>2
      <3>2. h[t].next \in (S \ {x}) \cup {NULL} /\ h[t].next # hd
            /\ (h[t].next # NULL => r[t] < r[h[t].next] /\ h[h[t].next].prev = t)
        BY <3>1 DEF Chain
      <3>3. h[t].next # NULL => h[t].next # y
        BY <1>3, <3>2
      <3> QED BY <1>7, <3>1, <3>2, <3>3
    <2> QED BY <2>1, <2>2
  <1>10. ASSUME NEW t \in (S \ {x}) \ {hd} PROVE g[t].prev \in S \ {x} /\ g[g[t].prev].next = t
    <2>1. CASE t = y
      BY <1>1, <1>4, <1>7, <2>1
    <2>2. CASE t # y
      <3>1. g[t].prev = h[t].prev /\ h[t].prev \in S \ {x} /\ h[h[t].prev].next = t
        BY <1>6, <1>7, <2>2 DEF Chain
      <3>2. h[t].prev # p
        BY <1>1, <3>1
      <3> QED BY <1>7, <3>1, <3>2
    <2> QED BY <2>1, <2>2
  <1> QED BY <1>8, <1>9, <1>10 DEF Chain

\* heap_alloc keeps the books of the allocated blocks.
LEMMA BooksAlloc ==
  ASSUME BoundsInv, ~lost, NEW A \in SUBSET Nodes, NEW F \in SUBSET Nodes, Books(A, F),
         NEW size \in Sizes, NEW n, NEW tail, Takes(A, F, size, n, tail), alloc_ll' = alloc_ll,
         NEW a, a = made'
  PROVE  A \cup {a} \in SUBSET Nodes /\ Books(A \cup {a}, F)'
  <1>1. /\ a = made + 1 /\ a \in Nodes /\ a \notin A \cup F /\ made \in Nat /\ tail < a /\ 2 \in A /\ a # 2
        /\ a \in 1..a /\ 1..made \subseteq 1..a /\ NULL \notin Nodes
    BY SizeAssumption DEF Books, BoundsInv, Nodes, Takes, Chain, NULL
  <1>2. Chain(node', A \cup {a}, 2, Number)
    <2>1. Chain(node, A, 2, Number) /\ tail \in A /\ node[tail].next = NULL
      BY DEF Books, Takes
    <2>2. Number[tail] < Number[a]
      BY <1>1, <2>1, NumberType
    <2>3. \A m \in A : node'[m].prev = node[m].prev /\ node'[m].next = IF m = tail THEN a ELSE node[m].next
      BY <1>1 DEF Takes
    <2>4. node'[a].prev = tail /\ node'[a].next = NULL
      BY <1>1 DEF Takes
    <2> QED BY <1>1, <2>1, <2>2, <2>3, <2>4, ChainAppend
  <1>3. /\ alloc_ll' = 2 /\ node'[2].addr = 0 /\ free_ll' \in F \cup {NULL}
    BY <1>1 DEF Books, Takes
  <1>4. ASSUME NEW m \in F
        PROVE  node'[m].addr > 0 /\ node'[m].prev \in F \cup {NULL} /\ node'[m].next \in F \cup {NULL}
    <2>1. n \in F /\ node[n].addr \in Nat /\ size \in Nat /\ node[n].addr > 0
      <3>1. n \in F /\ n \in 0..MaxNodes
        BY SizeAssumption DEF Takes, Nodes
      <3> QED BY <3>1, NodeFields, SizeAssumption DEF BoundsInv, Books
    <2>2. node[n].addr + size > 0
      BY <2>1
    <2>3. node'[m].addr > 0
      BY <2>1, <2>2 DEF Books, Takes
    <2>4. node'[m].prev \in F \cup {NULL} /\ node'[m].next \in F \cup {NULL}
      BY <2>1 DEF Books, Takes
    <2> QED BY <2>3, <2>4
  <1>5. \A b \in held' : b = <<0, Screen>> \/ b[1] > 0
    BY DEF Books, Takes
  <1>6. \E g : Found(A \cup {a}, g)'
    <2>1. PICK g : Found(A, g)
      BY DEF Books
    <2> DEFINE new == <<node[n].addr, size>>
               g2 == [b \in held' |-> IF b = new THEN a ELSE g[b]]
    <2>2. held' = held \cup {new} /\ node'[a].addr = node[n].addr /\ new[1] = node[n].addr
          /\ \A m \in A : node'[m].addr = node[m].addr
      BY <1>1 DEF Takes
    <2> HIDE DEF new
    <2>3. g2 \in [held' -> A \cup {a}] /\ \A b \in held' : node'[g2[b]].addr = b[1]
      BY <2>1, <2>2 DEF Found
    <2>4. \A b, c \in held' : b # c => g2[b] # g2[c]
      BY <1>1, <2>1, <2>2 DEF Found
    <2> HIDE DEF g2
    <2>5. PICK g3 : g3 = g2
      OBVIOUS
    <2>6. Found(A \cup {a}, g3)'
      BY <2>3, <2>4, <2>5 DEF Found
    <2> QED BY <2>6
  <1>7. A \cup {a} \subseteq 1..made' /\ F \subseteq 1..made' /\ (A \cup {a}) \cap F = {}
    BY <1>1 DEF Books
  <1>8. Chain(node, A \cup {a}, alloc_ll, Number)'
    BY <1>2, <1>3
  <1> QED BY <1>1, <1>2, <1>3, <1>4, <1>5, <1>6, <1>7, <1>8 DEF Books

\* heap_free keeps them: if the block it forgets was found for another caller of
\* the same address, that one has the node of the freed block instead.
LEMMA BooksFree ==
  ASSUME BoundsInv, ~lost, NEW A \in SUBSET Nodes, NEW F \in SUBSET Nodes, Books(A, F),
         NEW b \in held, b # <<0, Screen>>, held' = held \ {b}, NEW n, NEW a, Gives(A, F, b, n, a),
         alloc_ll' = alloc_ll, NEW f, f = made'
  PROVE  F \cup {f} \in SUBSET Nodes /\ Books(A \ {a}, F \cup {f})'
  <1>1. /\ f = made + 1 /\ f \in Nodes /\ f \notin A \cup F /\ made \in Nat /\ 2 \in A /\ f # 2
        /\ f \in 1..f /\ 1..made \subseteq 1..f /\ NULL \notin Nodes /\ a \in A /\ a # 2 /\ n \in F
    BY SizeAssumption DEF Books, BoundsInv, Nodes, Gives, Chain, NULL
  <1>2. Chain(node', A \ {a}, 2, Number)
    <2>1. Chain(node, A, 2, Number)
      BY DEF Books
    <2>2. \A m \in A \ {a} : /\ node'[m].next = IF m = node[a].prev THEN node[a].next ELSE node[m].next
                             /\ node'[m].prev = IF m = node[a].next THEN node[a].prev ELSE node[m].prev
      BY DEF Gives
    <2> QED BY <1>1, <2>1, <2>2, NumberType, ChainUnlink
  <1>3. /\ alloc_ll' = 2 /\ node'[2].addr = 0 /\ free_ll' \in F \cup {f} \cup {NULL}
    BY <1>1 DEF Books, Gives
  <1>4. b[1] > 0
    BY DEF Books
  <1>5. ASSUME NEW m \in F \cup {f}
        PROVE  /\ node'[m].addr > 0
               /\ node'[m].prev \in F \cup {f} \cup {NULL} /\ node'[m].next \in F \cup {f} \cup {NULL}
    <2>0. node'[f].next \in F \cup {f} \cup {NULL} /\ node'[f].prev \in F \cup {NULL} /\ node'[f].addr = b[1]
      <3>1. node[n].next \in F \cup {NULL}
        BY <1>1 DEF Books
      <3>2. node'[f].next \in {f, node[n].next, n} /\ node'[f].prev \in F \cup {NULL} /\ node'[f].addr = b[1]
        BY <1>1 DEF Gives
      <3> QED BY <1>1, <3>1, <3>2
    <2>1. CASE m = f
      BY <1>4, <2>0, <2>1
    <2>2. CASE m \in F
      <3>1. node'[m].addr = node[m].addr
        BY <1>1, <2>2 DEF Gives
      <3>2. node'[m].prev \in F \cup {f} \cup {NULL}
        BY <1>1, <2>2 DEF Gives, Books
      <3>3. node'[m].next \in {node[m].next, f, node'[f].next}
        BY <1>1, <2>2 DEF Gives
      <3> QED BY <2>0, <2>2, <3>1, <3>2, <3>3 DEF Books
    <2> QED BY <2>1, <2>2
  <1>6. \A c \in held' : c = <<0, Screen>> \/ c[1] > 0
    BY DEF Books
  <1>7. \E g : Found(A \ {a}, g)'
    <2>1. PICK g : Found(A, g)
      BY DEF Books
    <2> DEFINE g2 == [c \in held' |-> IF g[c] = a THEN g[b] ELSE g[c]]
    <2>2. node[a].addr = b[1] /\ \A m \in A : node'[m].addr = node[m].addr
      BY DEF Gives
    <2>3. ASSUME NEW c \in held' PROVE g2[c] \in A \ {a} /\ node[g2[c]].addr = c[1]
      <3>1. c \in held /\ c # b /\ g[c] \in A /\ g[b] \in A /\ g[c] # g[b]
            /\ node[g[c]].addr = c[1] /\ node[g[b]].addr = b[1]
        BY <2>1 DEF Found
      <3>2. CASE g[c] = a
        BY <2>2, <3>1, <3>2
      <3>3. CASE g[c] # a
        BY <3>1, <3>3
      <3> QED BY <3>2, <3>3
    <2>4. ASSUME NEW c \in held', NEW d \in held', c # d PROVE g2[c] # g2[d]
      BY <2>1, <2>4 DEF Found
    <2>5. g2 \in [held' -> A \ {a}]
      BY <2>3
    <2> HIDE DEF g2
    <2>6. PICK g3 : g3 = g2
      OBVIOUS
    <2>7. \A c \in held' : node'[g3[c]].addr = c[1]
      BY <2>2, <2>3, <2>6
    <2>8. Found(A \ {a}, g3)'
      BY <2>4, <2>5, <2>6, <2>7 DEF Found
    <2> QED BY <2>8
  <1>8. A \ {a} \subseteq 1..made' /\ F \cup {f} \subseteq 1..made' /\ (A \ {a}) \cap (F \cup {f}) = {}
    BY <1>1 DEF Books
  <1>9. Chain(node, A \ {a}, alloc_ll, Number)'
    BY <1>2, <1>3
  <1> QED BY <1>1, <1>3, <1>5, <1>6, <1>7, <1>8, <1>9 DEF Books

\* The boot's first block is on the list.
LEMMA BooksInit == Init => BooksInv
  <1> SUFFICES ASSUME Init PROVE BooksInv
    OBVIOUS
  <1>1. /\ node[1] = Block(Screen, HeapSize - Screen, NULL, NULL) /\ node[2] = Block(0, Screen, NULL, NULL)
        /\ made = 2 /\ free_ll = 1 /\ alloc_ll = 2 /\ held = {<<0, Screen>>} /\ lost = FALSE
        /\ 1 \in Nodes /\ 2 \in Nodes
    BY SizeAssumption DEF Init, NULL, Nodes
  <1>2. /\ node[1].addr = Screen /\ node[1].prev = NULL /\ node[1].next = NULL
        /\ node[2].addr = 0 /\ node[2].prev = NULL /\ node[2].next = NULL /\ Screen > 0
    BY <1>1, SizeAssumption DEF Block
  <1>3. Chain(node, {2}, 2, Number)
    BY <1>2 DEF Chain, NULL
  <1> DEFINE g == [b \in held |-> 2]
  <1>4. Found({2}, g)
    BY <1>1, <1>2 DEF Found
  <1> HIDE DEF g
  <1>5. Books({2}, {1})
    BY <1>1, <1>2, <1>3, <1>4, SizeAssumption DEF Books
  <1> QED BY <1>1, <1>5 DEF BooksInv

\* The books are kept until low memory is used.
LEMMA BooksStep == BoundsInv /\ BooksInv /\ [Next]_vars => BooksInv'
  <1> SUFFICES ASSUME BoundsInv, BooksInv, [Next]_vars, ~low_used' PROVE BooksInv'
    BY DEF BooksInv
  <1>1. CASE UNCHANGED vars
    <2>1. /\ node' = node /\ made' = made /\ free_ll' = free_ll /\ alloc_ll' = alloc_ll
          /\ held' = held /\ low_used' = low_used /\ lost' = lost
      BY <1>1 DEF vars
    <2>2. ~lost' /\ \E A, F \in SUBSET Nodes : Books(A, F)
      BY <2>1 DEF BooksInv
    <2>3. PICK A, F \in SUBSET Nodes : Books(A, F)
      BY <2>2
    <2>4. PICK g : Found(A, g)
      BY <2>3 DEF Books
    <2>5. Found(A, g)'
      BY <2>1, <2>4 DEF Found
    <2>6. Books(A, F)'
      BY <2>1, <2>3, <2>5 DEF Books
    <2> QED BY <2>2, <2>3, <2>6 DEF BooksInv, Nodes
  <1>2. CASE Next
    <2>1. ~low_used
      BY <1>2 DEF Next, kmalloc, kfree, heap_alloc, heap_free
    <2>2. ~lost /\ \E A, F \in SUBSET Nodes : Books(A, F)
      BY <2>1 DEF BooksInv
    <2>3. PICK A, F \in SUBSET Nodes : Books(A, F)
      BY <2>2
    <2>4. CASE kmalloc
      <3>1. PICK size \in Sizes : heap_alloc(size)
        BY <2>4 DEF kmalloc
      <3>2. PICK n, tail : Takes(A, F, size, n, tail)
        BY <2>2, <2>3, <3>1, AllocTakes
      <3>3. alloc_ll' = alloc_ll /\ lost' = lost
        BY <3>1 DEF heap_alloc
      <3>4. PICK a : a = made'
        OBVIOUS
      <3>5. A \cup {a} \in SUBSET Nodes /\ Books(A \cup {a}, F)'
        BY <2>2, <2>3, <3>2, <3>3, <3>4, BooksAlloc
      <3> QED BY <2>2, <2>3, <3>3, <3>5 DEF BooksInv, Nodes
    <2>5. CASE kfree
      <3>1. PICK b \in held \ {<<0, Screen>>} : heap_free(b[1]) /\ held' = held \ {b}
        BY <2>5 DEF kfree
      <3>2. ~lost' /\ \E n, a : Gives(A, F, b, n, a)
        BY <2>2, <2>3, <3>1, FreeGives
      <3>3. PICK n, a : Gives(A, F, b, n, a)
        BY <3>2
      <3>4. alloc_ll' = alloc_ll
        BY <3>1 DEF heap_free
      <3>5. PICK f : f = made'
        OBVIOUS
      <3>6. F \cup {f} \in SUBSET Nodes /\ Books(A \ {a}, F \cup {f})'
        BY <2>2, <2>3, <3>1, <3>3, <3>4, <3>5, BooksFree
      <3>7. A \ {a} \in SUBSET Nodes
        BY <2>3
      <3> QED BY <3>2, <3>6, <3>7 DEF BooksInv, Nodes
    <2> QED BY <1>2, <2>4, <2>5 DEF Next
  <1> QED BY <1>1, <1>2

\* As long as no free has used low memory, whatever became of the links of the
\* free list, kfree finds its block on the list of the allocated blocks.
THEOREM SizesFound == Spec => []SizeFound
  <1>1. BooksInv => SizeFound
    <2> SUFFICES ASSUME BooksInv, ~low_used, NEW b \in held
                 PROVE  NULL \notin First(alloc_ll, {NULL} \cup {m \in Nodes : node[m].addr = b[1]})
      BY DEF SizeFound
    <2>1. PICK A, F \in SUBSET Nodes : Books(A, F)
      BY DEF BooksInv
    <2>2. PICK g : Found(A, g)
      BY <2>1 DEF Books
    <2>3. g[b] \in A /\ g[b] \in {m \in Nodes : node[m].addr = b[1]}
      BY <2>2 DEF Found
    <2>4. Chain(node, A, alloc_ll, Number)
      BY <2>1 DEF Books
    <2>5. NULL \notin First(alloc_ll, {m \in Nodes : node[m].addr = b[1]} \cup {NULL})
      BY <2>3, <2>4, NumberType, FirstFound
    <2>6. {NULL} \cup {m \in Nodes : node[m].addr = b[1]} = {m \in Nodes : node[m].addr = b[1]} \cup {NULL}
      OBVIOUS
    <2> QED BY <2>5, <2>6
  <1> QED BY BoundsInit, BoundsStep, BooksInit, BooksStep, <1>1, PTL DEF Spec

----------------------------------------------------------------------------
(* The blocks, free and allocated, tile the heap.                           *)

\* The blocks lo[n]..hi[n]-1 of P are not empty, do not overlap and leave no gap.
Tiles(P, lo, hi) ==
  /\ \A n \in P : lo[n] \in Nat /\ hi[n] \in Nat /\ lo[n] < hi[n] /\ hi[n] <= HeapSize
  /\ \A m, n \in P : m # n => hi[m] <= lo[n] \/ hi[n] <= lo[m]
  /\ \A x \in 0..(HeapSize - 1) : \E n \in P : lo[n] <= x /\ x < hi[n]

\* A block gets another node.
LEMMA TilesRename ==
  ASSUME NEW P, NEW lo, NEW hi, NEW lo2, NEW hi2, Tiles(P, lo, hi), NEW a \in P, NEW f, f \notin P,
         lo2[f] = lo[a], hi2[f] = hi[a], \A m \in P \ {a} : lo2[m] = lo[m] /\ hi2[m] = hi[m]
  PROVE  Tiles((P \ {a}) \cup {f}, lo2, hi2)
  <1> DEFINE Q == (P \ {a}) \cup {f}
  <1>1. \A n \in Q : lo2[n] \in Nat /\ hi2[n] \in Nat /\ lo2[n] < hi2[n] /\ hi2[n] <= HeapSize
    BY DEF Tiles
  <1>2. \A m, n \in Q : m # n => hi2[m] <= lo2[n] \/ hi2[n] <= lo2[m]
    BY DEF Tiles
  <1>3. ASSUME NEW x \in 0..(HeapSize - 1) PROVE \E n \in Q : lo2[n] <= x /\ x < hi2[n]
    <2>1. PICK n \in P : lo[n] <= x /\ x < hi[n]
      BY DEF Tiles
    <2>2. CASE n = a
      BY <2>1, <2>2
    <2>3. CASE n # a
      BY <2>1, <2>3
    <2> QED BY <2>2, <2>3
  <1> QED BY <1>1, <1>2, <1>3 DEF Tiles

\* Two blocks that touch become one.
LEMMA TilesJoin ==
  ASSUME NEW P, NEW lo, NEW hi, NEW lo2, NEW hi2, Tiles(P, lo, hi), NEW x \in P, NEW y \in P, x # y,
         hi[x] = lo[y], \A m \in P \ {y} : lo2[m] = lo[m] /\ hi2[m] = IF m = x THEN hi[y] ELSE hi[m]
  PROVE  Tiles(P \ {y}, lo2, hi2)
  <1>0. \A n \in P : lo[n] \in Nat /\ hi[n] \in Nat /\ lo[n] < hi[n] /\ hi[n] <= HeapSize
    BY DEF Tiles
  <1>1. \A n \in P \ {y} : lo2[n] \in Nat /\ hi2[n] \in Nat /\ lo2[n] < hi2[n] /\ hi2[n] <= HeapSize
    BY <1>0, SizeAssumption
  <1>2. ASSUME NEW m \in P \ {x, y} PROVE hi[m] <= lo[x] \/ hi[y] <= lo[m]
    <2>1. hi[m] <= lo[x] \/ hi[x] <= lo[m]
      BY DEF Tiles
    <2>2. hi[m] <= lo[y] \/ hi[y] <= lo[m]
      BY DEF Tiles
    <2>3. lo[m] < hi[m] /\ lo[m] \in Nat /\ hi[m] \in Nat /\ lo[y] \in Nat
      BY <1>0
    <2> QED BY <2>1, <2>2, <2>3
  <1>3. ASSUME NEW m \in P \ {y}, NEW n \in P \ {y}, m # n PROVE hi2[m] <= lo2[n] \/ hi2[n] <= lo2[m]
    <2>1. CASE m = x
      BY <1>2, <1>3, <2>1
    <2>2. CASE n = x
      BY <1>2, <1>3, <2>2
    <2>3. CASE m # x /\ n # x
      BY <1>3, <2>3 DEF Tiles
    <2> QED BY <2>1, <2>2, <2>3
  <1>4. ASSUME NEW z \in 0..(HeapSize - 1) PROVE \E n \in P \ {y} : lo2[n] <= z /\ z < hi2[n]
    <2>1. PICK n \in P : lo[n] <= z /\ z < hi[n]
      BY DEF Tiles
    <2>2. CASE n \in {x, y}
      <3>1. lo2[x] <= z /\ z < hi2[x] /\ x \in P \ {y}
        BY <1>0, <2>1, <2>2
      <3> QED BY <3>1
    <2>3. CASE n \notin {x, y}
      BY <2>1, <2>3
    <2> QED BY <2>2, <2>3
  <1> QED BY <1>1, <1>3, <1>4 DEF Tiles

\* A block is cut in two.
LEMMA TilesSplit ==
  ASSUME NEW P, NEW lo, NEW hi, NEW lo2, NEW hi2, Tiles(P, lo, hi), NEW n \in P, NEW a, a \notin P,
         NEW c \in Nat, lo[n] < c, c < hi[n],
         lo2[a] = lo[n], hi2[a] = c, lo2[n] = c, hi2[n] = hi[n],
         \A m \in P \ {n} : lo2[m] = lo[m] /\ hi2[m] = hi[m]
  PROVE  Tiles(P \cup {a}, lo2, hi2)
  <1>0. \A m \in P : lo[m] \in Nat /\ hi[m] \in Nat /\ lo[m] < hi[m] /\ hi[m] <= HeapSize
    BY DEF Tiles
  <1>1. \A m \in P \cup {a} : lo2[m] \in Nat /\ hi2[m] \in Nat /\ lo2[m] < hi2[m] /\ hi2[m] <= HeapSize
    BY <1>0, SizeAssumption
  <1>2. \A m \in P \ {n} : hi[m] <= lo[n] \/ hi[n] <= lo[m]
    BY DEF Tiles
  <1>3. ASSUME NEW m \in P \cup {a}, NEW k \in P \cup {a}, m # k PROVE hi2[m] <= lo2[k] \/ hi2[k] <= lo2[m]
    <2>1. CASE m \in {n, a} /\ k \in {n, a}
      BY <1>0, <1>3, <2>1
    <2>2. CASE m \in {n, a} /\ k \notin {n, a}
      BY <1>0, <1>2, <2>2
    <2>3. CASE m \notin {n, a} /\ k \in {n, a}
      BY <1>0, <1>2, <2>3
    <2>4. CASE m \notin {n, a} /\ k \notin {n, a}
      BY <1>3, <2>4 DEF Tiles
    <2> QED BY <2>1, <2>2, <2>3, <2>4
  <1>4. ASSUME NEW z \in 0..(HeapSize - 1) PROVE \E m \in P \cup {a} : lo2[m] <= z /\ z < hi2[m]
    <2>1. PICK m \in P : lo[m] <= z /\ z < hi[m]
      BY DEF Tiles
    <2>2. CASE m # n
      BY <2>1, <2>2
    <2>3. CASE m = n
      <3>1. (lo2[a] <= z /\ z < hi2[a]) \/ (lo2[n] <= z /\ z < hi2[n])
        BY <1>0, <2>1, <2>3
      <3> QED BY <3>1
    <2> QED BY <2>2, <2>3
  <1> QED BY <1>1, <1>3, <1>4 DEF Tiles

----------------------------------------------------------------------------
(* The free list, as long as no link is stale.                              *)

\* Where the block of a node begins and ends.
Lo == [n \in 0..MaxNodes |-> node[n].addr]
Hi == [n \in 0..MaxNodes |-> node[n].addr + node[n].size]

\* L is the free list: sorted, and two of its blocks never touch.  Its blocks and
\* those of the list A, which the callers hold, tile the heap.
Ledger(A, L) ==
  /\ Chain(node, L, free_ll, Lo) /\ (free_ll # NULL => node[free_ll].prev = NULL)
  /\ \A n \in L : node[n].next # NULL => Hi[n] < Lo[node[n].next]
  /\ Tiles(A \cup L, Lo, Hi)
  /\ held = {<<node[n].addr, node[n].size>> : n \in A}
\* There is such a free list until a link is stale or low memory is used.
LedgerInv == Intact => \E A, F \in SUBSET Nodes : Books(A, F) /\ \E L \in SUBSET F : Ledger(A, L)

\* Where a block begins and ends, now and after a step.
LEMMA LoHi ==
  /\ \A m \in 0..MaxNodes : Lo[m] = node[m].addr /\ Hi[m] = node[m].addr + node[m].size
  /\ \A m \in 0..MaxNodes : Lo'[m] = node'[m].addr /\ Hi'[m] = node'[m].addr + node'[m].size
  /\ BoundsInv /\ ~lost => Lo \in [0..MaxNodes -> Nat] /\ Hi \in [0..MaxNodes -> Nat]
  /\ node' \in Heaps => Lo' \in [0..MaxNodes -> Nat] /\ Hi' \in [0..MaxNodes -> Nat]
  <1>1. BoundsInv /\ ~lost => Lo \in [0..MaxNodes -> Nat] /\ Hi \in [0..MaxNodes -> Nat]
    BY NodeFields DEF Lo, Hi, BoundsInv
  <1>2. node' \in Heaps => Lo' \in [0..MaxNodes -> Nat] /\ Hi' \in [0..MaxNodes -> Nat]
    BY DEF Lo, Hi, Heaps, Record
  <1> QED BY <1>1, <1>2 DEF Lo, Hi

\* The head leaves a list.
LEMMA ChainPop ==
  ASSUME NEW h, NEW g, NEW S \in SUBSET Nodes, NEW x \in S, NEW r \in [0..MaxNodes -> Nat], Chain(h, S, x, r),
         \A m \in S \ {x} : g[m].next = h[m].next /\ (m # h[x].next => g[m].prev = h[m].prev)
  PROVE  Chain(g, S \ {x}, h[x].next, r)
  <1> DEFINE y == h[x].next
  <1>1. NULL \notin S /\ y \in S \cup {NULL} /\ y # x /\ \A t \in S : r[t] \in Nat
    BY SizeAssumption DEF Chain, Nodes, NULL
  <1>2. y = NULL => S \ {x} = {}
    <2> SUFFICES ASSUME y = NULL, S \ {x} # {} PROVE FALSE
      OBVIOUS
    <2> DEFINE R == {r[t] : t \in S \ {x}}
    <2>1. R \in SUBSET Nat /\ R # {}
      BY <1>1
    <2>2. PICK k \in R : \A m \in R : k <= m
      BY <2>1, NatMin
    <2>3. PICK t \in S \ {x} : r[t] = k
      BY <2>2
    <2>4. h[t].prev \in S /\ h[h[t].prev].next = t
      BY <2>3 DEF Chain
    <2>5. h[t].prev # x /\ r[h[t].prev] < r[t]
      BY <1>1, <2>3, <2>4 DEF Chain
    <2>6. r[h[t].prev] \in R
      BY <2>4, <2>5
    <2>7. k <= r[h[t].prev] /\ k \in Nat /\ r[h[t].prev] \in Nat
      BY <1>1, <2>1, <2>2, <2>4, <2>6
    <2> QED BY <2>3, <2>5, <2>7
  <1>3. \A t \in S \ {x} : h[t].next # y \/ y = NULL
    BY <1>1 DEF Chain
  <1>4. \A t \in S \ {x} : t # y => h[t].prev \in S \ {x} /\ h[h[t].prev].next = t
    BY <1>1 DEF Chain
  <1>5. ASSUME NEW t \in S \ {x}
        PROVE  /\ g[t].next \in (S \ {x}) \cup {NULL} /\ (g[t].next # y \/ y = NULL)
               /\ g[t].next # NULL => r[t] < r[g[t].next] /\ g[g[t].next].prev = t
    BY <1>1, <1>3 DEF Chain
  <1>6. \A t \in (S \ {x}) \ {y} : g[t].prev \in S \ {x} /\ g[g[t].prev].next = t
    BY <1>4
  <1> HIDE DEF y
  <1>7. \A t \in S \ {x} : /\ g[t].next \in (S \ {x}) \cup {NULL} /\ g[t].next # y
                           /\ g[t].next # NULL => r[t] < r[g[t].next] /\ g[g[t].next].prev = t
    BY <1>2, <1>5
  <1>8. Chain(g, S \ {x}, y, r)
    BY <1>1, <1>2, <1>6, <1>7 DEF Chain
  <1> QED BY <1>8 DEF y

\* The block that heap_first_fit finds is on the free list.
LEMMA FitOnList ==
  ASSUME BoundsInv, ~lost, NEW A, NEW L \in SUBSET Nodes, Ledger(A, L), NEW size,
         NEW n \in heap_first_fit(size), n # NULL
  PROVE  n \in L
  <1>1. Chain(node, L, free_ll, Lo) /\ Lo \in [0..MaxNodes -> Nat]
    BY LoHi DEF Ledger
  <1>2. n \in L \cup {NULL}
    BY <1>1, FirstOnChain DEF heap_first_fit
  <1> QED BY <1>2

\* heap_alloc that cuts a block in two.
LEMMA LedgerSplit ==
  ASSUME BoundsInv, ~lost, NEW A \in SUBSET Nodes, NEW F \in SUBSET Nodes, Books(A, F),
         NEW L \in SUBSET F, Ledger(A, L), NEW size \in Nat, size > 0,
         NEW n, NEW tail, Takes(A, F, size, n, tail), size < node[n].size, NEW a, a = made'
  PROVE  Ledger(A \cup {a}, L)'
  <1>1. /\ n \in L /\ n \in F /\ a = made + 1 /\ a \in Nodes /\ a \notin A \cup F /\ NULL \notin Nodes
        /\ A \subseteq Nodes /\ L \subseteq Nodes /\ A \cap L = {}
    <2>1. n \in F /\ n \in heap_first_fit(size) /\ a = made + 1 /\ a \in Nodes
      BY DEF Takes
    <2>2. n # NULL /\ NULL \notin Nodes
      BY <2>1 DEF Nodes, NULL
    <2>3. n \in L
      BY <2>1, <2>2, FitOnList
    <2>4. a \notin A \cup F /\ A \cap L = {}
      BY <2>1, SizeAssumption DEF Books, BoundsInv, Nodes
    <2> QED BY <2>1, <2>2, <2>3, <2>4
  <1>2. \A m \in Nodes : m \in 0..MaxNodes
    BY SizeAssumption DEF Nodes
  <1>3. /\ free_ll' = free_ll
        /\ \A m \in L : node'[m].prev = node[m].prev /\ node'[m].next = node[m].next
        /\ \A m \in L \ {n} : Lo'[m] = Lo[m] /\ Hi'[m] = Hi[m]
        /\ Lo'[n] = Lo[n] + size /\ Hi'[n] = Hi[n]
        /\ Lo[n] \in Nat /\ Hi[n] \in Nat /\ Lo[n] + size < Hi[n]
    <2>1. /\ free_ll' = free_ll
          /\ \A m \in F : /\ node'[m].prev = node[m].prev /\ node'[m].next = node[m].next
                          /\ m # n => node'[m].addr = node[m].addr /\ node'[m].size = node[m].size
          /\ node'[n].addr = node[n].addr + size /\ node'[n].size = node[n].size - size
      BY DEF Takes
    <2>2. node[n].addr \in Nat /\ node[n].size \in Nat
      BY <1>1, <1>2, NodeFields DEF BoundsInv
    <2>3. \A m \in L : Lo[m] = node[m].addr /\ Hi[m] = node[m].addr + node[m].size
                       /\ Lo'[m] = node'[m].addr /\ Hi'[m] = node'[m].addr + node'[m].size
      BY <1>1, <1>2, LoHi
    <2>4. Lo'[n] = node[n].addr + size /\ Hi'[n] = (node[n].addr + size) + (node[n].size - size)
      BY <1>1, <2>1, <2>3
    <2>5. Lo[n] = node[n].addr /\ Hi[n] = node[n].addr + node[n].size
      BY <1>1, <2>3
    <2>6. (node[n].addr + size) + (node[n].size - size) = node[n].addr + node[n].size
          /\ node[n].addr + size < node[n].addr + node[n].size /\ node[n].addr + node[n].size \in Nat
      BY <2>2
    <2> QED BY <2>1, <2>2, <2>3, <2>4, <2>5, <2>6
  <1>4. \A m \in L : Lo[m] \in Nat /\ Hi[m] \in Nat /\ Lo[m] < Hi[m]
    BY DEF Ledger, Tiles
  <1>5. \A m \in L : node'[m].next # NULL => Hi'[m] < Lo'[node'[m].next]
    <2> SUFFICES ASSUME NEW m \in L, node'[m].next # NULL PROVE Hi'[m] < Lo'[node'[m].next]
      OBVIOUS
    <2>1. node'[m].next \in L /\ node'[m].next = node[m].next /\ Hi[m] < Lo[node[m].next]
      BY <1>3 DEF Ledger, Chain
    <2>2. Hi'[m] = Hi[m] /\ Lo[node[m].next] <= Lo'[node[m].next]
      BY <1>3, <1>4, <2>1
    <2>3. Lo'[node[m].next] \in Nat /\ Lo[node[m].next] \in Nat /\ Hi[m] \in Nat
      BY <1>3, <1>4, <2>1
    <2> QED BY <2>1, <2>2, <2>3
  <1>6. Chain(node', L, free_ll', Lo')
    <2>1. ASSUME NEW m \in L
          PROVE  /\ node'[m].next \in L \cup {NULL} /\ node'[m].next # free_ll'
                 /\ node'[m].next # NULL => /\ Lo'[m] < Lo'[node'[m].next]
                                            /\ node'[node'[m].next].prev = m
      <3>1. /\ node'[m].next \in L \cup {NULL} /\ node'[m].next # free_ll'
            /\ node'[m].next # NULL => node'[node'[m].next].prev = m
        BY <1>3 DEF Ledger, Chain
      <3>2. node'[m].next # NULL => Lo'[m] < Lo'[node'[m].next]
        <4> SUFFICES ASSUME node'[m].next # NULL PROVE Lo'[m] < Lo'[node'[m].next]
          OBVIOUS
        <4>1. Hi'[m] < Lo'[node'[m].next] /\ node'[m].next \in L
          BY <1>5, <3>1
        <4>2. \A k \in L : Lo'[k] \in Nat /\ Hi'[k] \in Nat /\ Lo'[k] < Hi'[k]
          BY <1>3, <1>4
        <4> QED BY <4>1, <4>2
      <3> QED BY <3>1, <3>2
    <2>2. \A m \in L \ {free_ll'} : node'[m].prev \in L /\ node'[node'[m].prev].next = m
      BY <1>3 DEF Ledger, Chain
    <2>3. free_ll' \in L \cup {NULL} /\ (free_ll' = NULL => L = {})
      BY <1>3 DEF Ledger, Chain
    <2> QED BY <2>1, <2>2, <2>3 DEF Chain
  <1>7. free_ll' # NULL => node'[free_ll'].prev = NULL
    BY <1>3 DEF Ledger, Chain
  <1>8. /\ Lo'[a] = Lo[n] /\ Hi'[a] = Lo[n] + size
        /\ \A m \in A : Lo'[m] = Lo[m] /\ Hi'[m] = Hi[m]
    <2>1. /\ node'[a].addr = node[n].addr /\ node'[a].size = size
          /\ \A m \in A : node'[m].addr = node[m].addr /\ node'[m].size = node[m].size
      BY <1>1 DEF Takes
    <2>2. a \in 0..MaxNodes /\ n \in 0..MaxNodes /\ \A m \in A : m \in 0..MaxNodes
      BY <1>1, <1>2
    <2> QED BY <2>1, <2>2, LoHi
  <1>9. Tiles((A \cup L) \cup {a}, Lo', Hi')
    <2>1. Tiles(A \cup L, Lo, Hi)
      BY DEF Ledger
    <2>2. PICK c \in Nat : c = Lo[n] + size
      BY <1>3
    <2>3. Lo[n] < c /\ c < Hi[n]
      BY <1>3, <2>2
    <2>4. \A m \in (A \cup L) \ {n} : Lo'[m] = Lo[m] /\ Hi'[m] = Hi[m]
      BY <1>3, <1>8
    <2>5. n \in A \cup L /\ a \notin A \cup L /\ Lo'[a] = Lo[n] /\ Hi'[a] = c /\ Lo'[n] = c /\ Hi'[n] = Hi[n]
      BY <1>1, <1>3, <1>8, <2>2
    <2> QED BY <2>1, <2>3, <2>4, <2>5, TilesSplit
  <1>10. Tiles((A \cup {a}) \cup L, Lo', Hi')
    <2>1. (A \cup {a}) \cup L = (A \cup L) \cup {a}
      OBVIOUS
    <2> QED BY <1>9, <2>1
  <1>11. held' = {<<node'[m].addr, node'[m].size>> : m \in A \cup {a}}
    <2>1. held' = {<<node[m].addr, node[m].size>> : m \in A} \cup {<<node[n].addr, size>>}
      BY DEF Ledger, Takes
    <2>2. \A m \in A : node'[m].addr = node[m].addr /\ node'[m].size = node[m].size
      BY DEF Takes
    <2>3. node'[a].addr = node[n].addr /\ node'[a].size = size
      BY <1>1 DEF Takes
    <2> QED BY <2>1, <2>2, <2>3
  <1> QED BY <1>5, <1>6, <1>7, <1>10, <1>11 DEF Ledger

\* heap_alloc that hands out a whole block.
LEMMA LedgerExact ==
  ASSUME BoundsInv, ~lost, NEW A \in SUBSET Nodes, NEW F \in SUBSET Nodes, Books(A, F),
         NEW L \in SUBSET F, Ledger(A, L), NEW size \in Nat,
         NEW n, NEW tail, Takes(A, F, size, n, tail), ~(size < node[n].size), NEW a, a = made'
  PROVE  Ledger(A \cup {a}, L \ {n})'
  <1>1. /\ n \in L /\ n \in F /\ a = made + 1 /\ a \in Nodes /\ a \notin A \cup F /\ NULL \notin Nodes
        /\ A \subseteq Nodes /\ L \subseteq Nodes /\ A \cap L = {}
    <2>1. n \in F /\ n \in heap_first_fit(size) /\ a = made + 1 /\ a \in Nodes
      BY DEF Takes
    <2>2. n # NULL /\ NULL \notin Nodes
      BY <2>1 DEF Nodes, NULL
    <2>3. n \in L
      BY <2>1, <2>2, FitOnList
    <2>4. a \notin A \cup F /\ A \cap L = {}
      BY <2>1, SizeAssumption DEF Books, BoundsInv, Nodes
    <2> QED BY <2>1, <2>2, <2>3, <2>4
  <1>2. \A m \in Nodes : m \in 0..MaxNodes
    BY SizeAssumption DEF Nodes
  <1> DEFINE p == node[n].prev
             q == node[n].next
  <1>3. /\ size = node[n].size /\ free_ll' = IF p = NULL THEN q ELSE free_ll
        /\ \A m \in L : /\ node'[m].next = IF m = p THEN q ELSE node[m].next
                        /\ node'[m].prev = IF m = q THEN p ELSE node[m].prev
        /\ \A m \in A \cup F : node'[m].addr = node[m].addr /\ node'[m].size = node[m].size
    BY DEF Takes
  <1>4. /\ Lo'[a] = Lo[n] /\ Hi'[a] = Hi[n]
        /\ \A m \in A \cup L : Lo'[m] = Lo[m] /\ Hi'[m] = Hi[m]
    <2>1. node'[a].addr = node[n].addr /\ node'[a].size = size
      BY <1>1 DEF Takes
    <2>2. a \in 0..MaxNodes /\ n \in 0..MaxNodes /\ \A m \in A \cup L : m \in 0..MaxNodes
      BY <1>1, <1>2
    <2> HIDE DEF p, q
    <2> QED BY <1>3, <2>1, <2>2, LoHi, SMTT(30)
  <1>5. /\ Chain(node, L, free_ll, Lo) /\ Lo \in [0..MaxNodes -> Nat]
        /\ (free_ll # NULL => node[free_ll].prev = NULL)
    BY LoHi DEF Ledger
  <1>6. /\ q \in L \cup {NULL} /\ q # n /\ p # n
        /\ n = free_ll => p = NULL
        /\ n # free_ll => p \in L /\ p # NULL
        /\ Lo[n] \in Nat
    <2>1. q \in L \cup {NULL} /\ (q # NULL => Lo[n] < Lo[q]) /\ Lo[n] \in Nat
      BY <1>1, <1>2, <1>5 DEF Chain
    <2>2. n # free_ll => p \in L /\ node[p].next = n
      BY <1>1, <1>5 DEF Chain
    <2>3. n = free_ll => p = NULL
      BY <1>1, <1>5
    <2>4. q # n
      BY <1>1, <2>1
    <2> QED BY <1>1, <2>1, <2>2, <2>3, <2>4
  <1>7. Chain(node', L \ {n}, free_ll', Lo)
    <2>1. CASE n = free_ll
      <3>1. free_ll' = q
        BY <1>3, <1>6, <2>1
      <3>2. \A m \in L \ {n} : node'[m].next = node[m].next /\ (m # q => node'[m].prev = node[m].prev)
        BY <1>1, <1>3, <1>6, <2>1
      <3>3. Chain(node, L, n, Lo)
        BY <1>5, <2>1
      <3>4. Chain(node', L \ {n}, q, Lo)
        BY <1>1, <1>5, <3>2, <3>3, ChainPop
      <3> QED BY <3>1, <3>4
    <2>2. CASE n # free_ll
      <3>1. free_ll' = free_ll
        BY <1>3, <1>6, <2>2
      <3>2. \A m \in L \ {n} : /\ node'[m].next = IF m = node[n].prev THEN node[n].next ELSE node[m].next
                               /\ node'[m].prev = IF m = node[n].next THEN node[n].prev ELSE node[m].prev
        BY <1>3
      <3>3. Chain(node', L \ {n}, free_ll, Lo)
        BY <1>1, <1>5, <2>2, <3>2, ChainUnlink
      <3> QED BY <3>1, <3>3
    <2> QED BY <2>1, <2>2
  <1>8. Chain(node', L \ {n}, free_ll', Lo')
    <2>1. \A m \in L : Lo'[m] = Lo[m]
      BY <1>4
    <2> HIDE DEF p, q
    <2> QED BY <1>7, <2>1 DEF Chain
  <1>9. free_ll' # NULL => node'[free_ll'].prev = NULL
    <2>1. CASE n = free_ll
      BY <1>1, <1>3, <1>6, <2>1
    <2>2. CASE n # free_ll
      <3>1. free_ll' = free_ll /\ free_ll \in L \cup {NULL} /\ (free_ll # q \/ q = NULL)
        BY <1>1, <1>3, <1>5, <1>6, <2>2 DEF Chain
      <3>2. free_ll' = free_ll /\ free_ll \in L \cup {NULL}
        BY <1>3, <1>5, <1>6, <2>2 DEF Chain
      <3>3. free_ll # NULL => node'[free_ll].prev = node[free_ll].prev
        BY <1>3, <3>1, <3>2
      <3> QED BY <1>5, <3>2, <3>3
    <2> QED BY <2>1, <2>2
  <1>10. \A m \in L : Lo[m] \in Nat /\ Hi[m] \in Nat /\ Lo[m] < Hi[m]
    BY DEF Ledger, Tiles
  <1>11. ASSUME NEW m \in L \ {n}, node'[m].next # NULL PROVE Hi'[m] < Lo'[node'[m].next]
    <2>0. node'[m].next \in L \ {n}
      BY <1>8, <1>11 DEF Chain
    <2>1. CASE m = p
      <3>1. node'[m].next = q /\ q \in L
        BY <1>3, <1>11, <2>0, <2>1
      <3>2. Hi[m] < Lo[n] /\ Hi[n] < Lo[q]
        <4>0. n # free_ll
          BY <1>1, <1>6, <2>1
        <4>1. p \in L /\ node[p].next = n
          BY <1>1, <1>5, <4>0 DEF Chain
        <4>2. n # NULL /\ q # NULL
          BY <1>1, <3>1
        <4> QED BY <1>1, <2>1, <4>1, <4>2 DEF Ledger
      <3>3. Hi[m] < Lo[q]
        BY <1>1, <1>10, <3>1, <3>2
      <3> QED BY <1>4, <3>1, <3>3
    <2>2. CASE m # p
      <3>1. node'[m].next = node[m].next /\ node[m].next \in L
        BY <1>3, <2>0, <2>2
      <3>2. Hi[m] < Lo[node[m].next]
        BY <1>11, <3>1 DEF Ledger
      <3> QED BY <1>4, <3>1, <3>2
    <2> QED BY <2>1, <2>2
  <1>12. Tiles((A \cup {a}) \cup (L \ {n}), Lo', Hi')
    <2>1. Tiles(A \cup L, Lo, Hi)
      BY DEF Ledger
    <2>2. n \in A \cup L /\ a \notin A \cup L /\ \A m \in (A \cup L) \ {n} : Lo'[m] = Lo[m] /\ Hi'[m] = Hi[m]
      BY <1>1, <1>4
    <2>3. Tiles(((A \cup L) \ {n}) \cup {a}, Lo', Hi')
      <3> HIDE DEF p, q
      <3> QED BY <1>4, <2>1, <2>2, TilesRename
    <2>4. ((A \cup L) \ {n}) \cup {a} = (A \cup {a}) \cup (L \ {n})
      BY <1>1
    <2> QED BY <2>3, <2>4
  <1>13. held' = {<<node'[m].addr, node'[m].size>> : m \in A \cup {a}}
    <2>1. held' = {<<node[m].addr, node[m].size>> : m \in A} \cup {<<node[n].addr, size>>}
      BY DEF Ledger, Takes
    <2>2. \A m \in A : node'[m].addr = node[m].addr /\ node'[m].size = node[m].size
      BY DEF Takes
    <2>3. node'[a].addr = node[n].addr /\ node'[a].size = size
      BY <1>1 DEF Takes
    <2> QED BY <2>1, <2>2, <2>3
  <1> QED BY <1>8, <1>9, <1>11, <1>12, <1>13 DEF Ledger

\* The block that heap_free puts back lies between its neighbours on the free list.
LEMMA FreedBetween ==
  ASSUME BoundsInv, ~lost, NEW A \in SUBSET Nodes, NEW F \in SUBSET Nodes, Books(A, F),
         NEW L \in SUBSET F, Ledger(A, L), NEW b \in held, NEW n, NEW a, Gives(A, F, b, n, a)
  PROVE  /\ n \in L /\ a \in A /\ n # a /\ b = <<node[a].addr, node[a].size>>
         /\ Lo[a] = b[1] /\ Hi[a] <= Lo[n]
         /\ IF n = free_ll THEN node[n].prev = NULL
            ELSE /\ node[n].prev \in L /\ node[n].prev # n /\ node[node[n].prev].next = n
                 /\ Hi[node[n].prev] <= Lo[a]
  <1> DEFINE T == {NULL} \cup {m \in Nodes : node[m].addr >= b[1]}
             p == node[n].prev
  <1>1. /\ n \in F /\ n \in First(free_ll, T) /\ a \in A /\ node[a].addr = b[1]
        /\ NULL \notin Nodes /\ \A m \in Nodes : m \in 0..MaxNodes
        /\ L \subseteq Nodes /\ A \cap L = {}
    <2>1. n \in F /\ n \in First(free_ll, T) /\ a \in A /\ node[a].addr = b[1]
      BY DEF Gives
    <2>2. NULL \notin Nodes /\ \A m \in Nodes : m \in 0..MaxNodes
      BY SizeAssumption DEF Nodes, NULL
    <2>3. A \cap L = {}
      BY DEF Books
    <2> HIDE DEF T
    <2> QED BY <2>1, <2>2, <2>3
  <1>2. Chain(node, L, free_ll, Lo) /\ Lo \in [0..MaxNodes -> Nat] /\ Tiles(A \cup L, Lo, Hi)
    BY LoHi DEF Ledger
  <1>3. n \in L /\ (n # free_ll => p \notin T) /\ n \in T
    <2>1. /\ n \in T /\ n \in L \cup {NULL}
          /\ n \in L \ {free_ll} => node[n].prev \notin T
      BY <1>1, <1>2, FirstOnChain
    <2> QED BY <1>1, <2>1
  <1>4. \A m \in A \cup L : Lo[m] = node[m].addr /\ Hi[m] = node[m].addr + node[m].size
                            /\ node[m].addr \in Nat /\ node[m].size \in Nat
    BY <1>1, LoHi, NodeFields DEF BoundsInv
  <1>5. \A m \in A \cup L : Lo[m] \in Nat /\ Hi[m] \in Nat /\ Lo[m] < Hi[m]
    BY <1>2 DEF Tiles
  <1>6. \A m, k \in A \cup L : m # k => Hi[m] <= Lo[k] \/ Hi[k] <= Lo[m]
    BY <1>2 DEF Tiles
  <1>7. b = <<node[a].addr, node[a].size>>
    <2>1. PICK m \in A : b = <<node[m].addr, node[m].size>>
      BY DEF Ledger
    <2>2. Lo[m] = Lo[a]
      BY <1>1, <1>4, <2>1
    <2>3. m = a
      BY <1>1, <1>5, <1>6, <2>2
    <2> QED BY <2>1, <2>3
  <1>8. n # a /\ Lo[a] = b[1] /\ Lo[n] >= b[1]
    BY <1>1, <1>3, <1>4
  <1>9. Hi[a] <= Lo[n]
    <2>1. Hi[a] <= Lo[n] \/ Hi[n] <= Lo[a]
      BY <1>1, <1>3, <1>6, <1>8
    <2>2. Lo[n] < Hi[n] /\ Lo[n] \in Nat /\ Hi[n] \in Nat /\ Lo[a] \in Nat /\ Hi[a] \in Nat
      BY <1>1, <1>3, <1>5
    <2> QED BY <1>8, <2>1, <2>2
  <1>10. CASE n = free_ll
    BY <1>1, <1>3, <1>7, <1>8, <1>9, <1>10 DEF Ledger
  <1>11. CASE n # free_ll
    <2>1. p \in L /\ node[p].next = n
      BY <1>2, <1>3, <1>11 DEF Chain
    <2>2. p # n
      <3>1. Lo[p] < Lo[n]
        BY <1>1, <1>2, <1>3, <2>1 DEF Chain
      <3> HIDE DEF p
      <3> QED BY <1>3, <1>5, <3>1
    <2>3. p \notin T
      BY <1>3, <1>11
    <2> HIDE DEF p
    <2>4. p # a /\ ~(Lo[p] >= Lo[a])
      BY <1>1, <1>4, <1>8, <2>1, <2>3
    <2>5. Hi[a] <= Lo[p] \/ Hi[p] <= Lo[a]
      BY <1>1, <1>6, <2>1, <2>4
    <2>6. Lo[a] < Hi[a] /\ Lo[a] \in Nat /\ Hi[a] \in Nat /\ Lo[p] \in Nat
      BY <1>1, <1>5, <2>1
    <2>7. Hi[p] <= Lo[a]
      BY <2>4, <2>5, <2>6
    <2> QED BY <1>1, <1>3, <1>7, <1>8, <1>9, <1>11, <2>1, <2>2, <2>7 DEF p
  <1> QED BY <1>10, <1>11

\* The freed block a takes the node f.  It takes the free block n behind it along
\* (Eaten) if it touches it, and goes along with the free block p in front of it
\* (not Kept) if it touches that one.
Settles(P, lo, hi, lo2, hi2, a, n, f, p, Eaten, Kept) ==
  /\ a \in P /\ n \in P /\ a # n /\ f \notin P /\ p # a /\ p # n
  /\ \/ Eaten = {n} /\ hi[a] = lo[n] /\ hi2[f] = hi[n]
     \/ Eaten = {} /\ hi2[f] = hi[a]
  /\ \/ Kept = {} /\ p \in P /\ hi[p] = lo[a] /\ hi2[p] = hi2[f]
     \/ Kept = {f} /\ (p \in P => hi2[p] = hi[p])
  /\ lo2[f] = lo[a] /\ \A m \in P : lo2[m] = lo[m] /\ (m # p => hi2[m] = hi[m])

\* The blocks still tile the heap.
LEMMA TilesFreed ==
  ASSUME NEW P, NEW lo, NEW hi, NEW lo2, NEW hi2, NEW a, NEW n, NEW f, NEW p, NEW Eaten, NEW Kept,
         Tiles(P, lo, hi), Settles(P, lo, hi, lo2, hi2, a, n, f, p, Eaten, Kept)
  PROVE  Tiles(((P \ {a}) \ Eaten) \cup Kept, lo2, hi2)
  <1> SUFFICES ASSUME a \in P, n \in P, a # n, f \notin P, p # a, p # n,
                      \/ Eaten = {n} /\ hi[a] = lo[n] /\ hi2[f] = hi[n]
                      \/ Eaten = {} /\ hi2[f] = hi[a],
                      \/ Kept = {} /\ p \in P /\ hi[p] = lo[a] /\ hi2[p] = hi2[f]
                      \/ Kept = {f} /\ (p \in P => hi2[p] = hi[p]),
                      lo2[f] = lo[a], \A m \in P : lo2[m] = lo[m] /\ (m # p => hi2[m] = hi[m])
               PROVE  Tiles(((P \ {a}) \ Eaten) \cup Kept, lo2, hi2)
    BY DEF Settles
  <1> DEFINE P1 == (P \ {a}) \cup {f}
             lo1 == [m \in P \cup {f} |-> IF m = f THEN lo[a] ELSE lo[m]]
             hi1 == [m \in P \cup {f} |-> IF m = f THEN hi[a] ELSE hi[m]]
             hi3 == [m \in P \cup {f} |-> IF m = f THEN hi2[f] ELSE hi[m]]
  <1>1. Tiles(P1, lo1, hi1)
    <2>1. lo1[f] = lo[a] /\ hi1[f] = hi[a] /\ \A m \in P \ {a} : lo1[m] = lo[m] /\ hi1[m] = hi[m]
      OBVIOUS
    <2> HIDE DEF lo1, hi1
    <2> QED BY <2>1, TilesRename
  <1>2. /\ \A m \in P1 : m \in P \cup {f} /\ lo1[m] = IF m = f THEN lo[a] ELSE lo[m]
        /\ \A m \in P1 : hi1[m] = IF m = f THEN hi[a] ELSE hi[m]
        /\ \A m \in P1 : hi3[m] = IF m = f THEN hi2[f] ELSE hi[m]
        /\ f \in P1 /\ n \in P1 /\ n # f
    OBVIOUS
  <1> HIDE DEF lo1, hi1, hi3
  <1>3. Tiles(P1 \ Eaten, lo1, hi3)
    <2>1. CASE Eaten = {n} /\ hi[a] = lo[n] /\ hi2[f] = hi[n]
      <3>1. hi1[f] = lo1[n] /\ \A m \in P1 \ {n} : lo1[m] = lo1[m] /\ hi3[m] = IF m = f THEN hi1[n] ELSE hi1[m]
        BY <1>2, <2>1
      <3> HIDE DEF P1
      <3>2. Tiles(P1 \ {n}, lo1, hi3)
        BY <1>1, <1>2, <3>1, TilesJoin
      <3> QED BY <2>1, <3>2
    <2>2. CASE Eaten = {} /\ hi2[f] = hi[a]
      <3>1. \A m \in P1 : hi3[m] = hi1[m]
        BY <1>2, <2>2
      <3>2. P1 \ Eaten = P1
        BY <2>2
      <3> HIDE DEF P1
      <3>3. Tiles(P1, lo1, hi3)
        BY <1>1, <3>1 DEF Tiles
      <3> QED BY <3>2, <3>3
    <2> QED BY <2>1, <2>2
  <1> DEFINE P2 == P1 \ Eaten
  <1>4. f \in P2 /\ (p \in P => p \in P2) /\ P2 \subseteq P1 /\ n # p /\ f \notin P
    OBVIOUS
  <1>5. \A m \in P2 : m # f => m \in P
    OBVIOUS
  <1>6. CASE Kept = {} /\ p \in P /\ hi[p] = lo[a] /\ hi2[p] = hi2[f]
    <2>1. p # f /\ p \in P2
      BY <1>4, <1>6
    <2>2. hi3[p] = lo1[f] /\ \A m \in P2 \ {f} : lo2[m] = lo1[m] /\ hi2[m] = IF m = p THEN hi3[f] ELSE hi3[m]
      <3> HIDE DEF P1, P2
      <3> QED BY <1>2, <1>4, <1>5, <1>6, <2>1
    <2>3. Tiles(P2 \ {f}, lo2, hi2)
      <3> HIDE DEF P2
      <3>1. Tiles(P2, lo1, hi3)
        BY <1>3 DEF P2
      <3> QED BY <1>4, <2>1, <2>2, <3>1, TilesJoin
    <2>4. P2 \ {f} = ((P \ {a}) \ Eaten) \cup Kept
      BY <1>6
    <2> QED BY <2>3, <2>4
  <1>7. CASE Kept = {f} /\ (p \in P => hi2[p] = hi[p])
    <2>1. \A m \in P2 : lo2[m] = lo1[m] /\ hi2[m] = hi3[m]
      <3> HIDE DEF P1, P2
      <3> QED BY <1>2, <1>4, <1>5, <1>7
    <2>2. Tiles(P2, lo2, hi2)
      <3> HIDE DEF P2
      <3>1. Tiles(P2, lo1, hi3)
        BY <1>3 DEF P2
      <3> QED BY <2>1, <3>1 DEF Tiles
    <2>3. P2 = ((P \ {a}) \ Eaten) \cup Kept
      BY <1>7
    <2> QED BY <2>2, <2>3
  <1> QED BY <1>6, <1>7

\* In the list L the freed block f goes between p and n.
Goes(h, g, L, head, lo, hi, lo2, hi2, n, p, f, head2, Eaten, Kept) ==
  /\ \A m \in L : lo[m] \in Nat /\ hi[m] \in Nat /\ lo[m] < hi[m]
  /\ \A m \in L : h[m].next # NULL => hi[m] < lo[h[m].next]
  /\ n \in L /\ IF n = head THEN p = NULL ELSE p \in L /\ p # n /\ h[p].next = n
  /\ f \in Nodes /\ f \notin L /\ head2 = (IF p = NULL THEN f ELSE head)
  /\ lo2[f] \in Nat /\ hi2[f] \in Nat /\ lo2[f] < hi2[f]
  /\ \/ Eaten = {n} /\ hi2[f] = hi[n] /\ g[f].next = h[n].next
     \/ Eaten = {} /\ hi2[f] < lo[n] /\ g[f].next = n
  /\ \/ Kept = {} /\ p \in L /\ hi[p] = lo2[f] /\ hi2[p] = hi2[f] /\ g[p].next = g[f].next
     \/ Kept = {f} /\ (p \in L => hi[p] < lo2[f] /\ hi2[p] = hi[p] /\ g[p].next = f)
  /\ \A m \in L : lo2[m] = lo[m] /\ (m # p => hi2[m] = hi[m] /\ g[m].next = h[m].next)

\* Two blocks of the list S that follow one another do not touch.
Spaced(nodes, S, lo, hi) == \A m \in S : nodes[m].next # NULL => hi[m] < lo[nodes[m].next]

\* It is a list again, and two of its blocks never touch.
LEMMA FreedLine ==
  ASSUME NEW h, NEW g, NEW L \in SUBSET Nodes, NEW head, NEW lo, NEW hi, NEW lo2, NEW hi2, NEW n, NEW p, NEW f,
         NEW head2, NEW Eaten, NEW Kept, Chain(h, L, head, lo),
         Goes(h, g, L, head, lo, hi, lo2, hi2, n, p, f, head2, Eaten, Kept)
  PROVE  Line(g, (L \ Eaten) \cup Kept, head2, lo2) /\ Spaced(g, (L \ Eaten) \cup Kept, lo2, hi2)
  <1> SUFFICES ASSUME \A m \in L : lo[m] \in Nat /\ hi[m] \in Nat /\ lo[m] < hi[m],
                      \A m \in L : h[m].next # NULL => hi[m] < lo[h[m].next],
                      n \in L, IF n = head THEN p = NULL ELSE p \in L /\ p # n /\ h[p].next = n,
                      f \in Nodes, f \notin L, head2 = IF p = NULL THEN f ELSE head,
                      lo2[f] \in Nat, hi2[f] \in Nat, lo2[f] < hi2[f],
                      \/ Eaten = {n} /\ hi2[f] = hi[n] /\ g[f].next = h[n].next
                      \/ Eaten = {} /\ hi2[f] < lo[n] /\ g[f].next = n,
                      \/ Kept = {} /\ p \in L /\ hi[p] = lo2[f] /\ hi2[p] = hi2[f] /\ g[p].next = g[f].next
                      \/ Kept = {f} /\ (p \in L => hi[p] < lo2[f] /\ hi2[p] = hi[p] /\ g[p].next = f),
                      \A m \in L : lo2[m] = lo[m] /\ (m # p => hi2[m] = hi[m] /\ g[m].next = h[m].next)
               PROVE  Line(g, (L \ Eaten) \cup Kept, head2, lo2) /\ Spaced(g, (L \ Eaten) \cup Kept, lo2, hi2)
    BY DEF Goes
  <1> DEFINE y == g[f].next
             L2 == (L \ Eaten) \cup Kept
  <1>1. NULL \notin Nodes /\ NULL \notin L /\ n # NULL /\ f # NULL
    <2>1. NULL \notin Nodes
      BY DEF Nodes, NULL
    <2> QED BY <2>1
  <1>2. /\ \A t \in L : h[t].next \in L \cup {NULL} /\ h[t].next # head
        /\ \A t \in L : h[t].next # NULL => lo[t] < lo[h[t].next] /\ h[h[t].next].prev = t
        /\ \A t \in L \ {head} : h[t].prev \in L /\ h[h[t].prev].next = t
        /\ head \in L
    BY <1>1 DEF Chain
  <1>3. \A t \in L : h[t].next = n => t = p
    BY <1>1, <1>2
  <1>4. h[n].next # n /\ (p \in L => h[n].next # p)
    <2>1. h[n].next # n
      BY <1>1, <1>2
    <2>2. ASSUME p \in L, h[n].next = p PROVE FALSE
      <3>1. lo[n] < lo[p] /\ lo[p] < lo[n] /\ lo[p] \in Nat /\ lo[n] \in Nat
        BY <1>1, <1>2, <2>2
      <3> QED BY <3>1
    <2> QED BY <2>1, <2>2
  <1>5. /\ y \in (L \ Eaten) \cup {NULL} /\ y # head2 /\ y # f /\ (p \in L => y # p)
        /\ y # NULL => hi2[f] < lo[y]
    <2>1. CASE Eaten = {n} /\ hi2[f] = hi[n] /\ g[f].next = h[n].next
      <3>1. y \in (L \ Eaten) \cup {NULL} /\ y # head /\ (y # NULL => hi2[f] < lo[y])
        BY <1>2, <1>4, <2>1
      <3> QED BY <1>1, <1>4, <2>1, <3>1
    <2>2. CASE Eaten = {} /\ hi2[f] < lo[n] /\ g[f].next = n
      BY <1>1, <2>2
    <2> QED BY <2>1, <2>2
  <1>6. /\ \A t \in L \ Eaten : t # p => g[t].next = h[t].next /\ g[t].next \in (L \ Eaten) \cup {NULL}
        /\ p \in L => p \in L \ Eaten /\ p # NULL
        /\ p \in L \/ p = NULL
    <2>1. \A t \in L \ Eaten : t # p => g[t].next = h[t].next /\ g[t].next \in L \cup {NULL} /\ g[t].next # n
      BY <1>2, <1>3
    <2>2. Eaten = {n} \/ Eaten = {}
      OBVIOUS
    <2>3. p \in L => p \in L \ Eaten /\ p # NULL
      BY <1>1, <2>2
    <2> QED BY <2>1, <2>2, <2>3
  <1>7. ASSUME NEW m \in L2
        PROVE  /\ g[m].next \in L2 \cup {NULL} /\ g[m].next # head2
               /\ g[m].next # NULL => lo2[m] < lo2[g[m].next] /\ hi2[m] < lo2[g[m].next]
    <2> HIDE DEF y
    <2>1. CASE m = f
      <3>1. g[m].next = y /\ y \in L2 \cup {NULL} /\ y # head2
        BY <1>5, <2>1 DEF y
      <3>2. y # NULL => hi2[f] < lo2[y] /\ lo2[y] \in Nat
        BY <1>5
      <3> QED BY <2>1, <3>1, <3>2
    <2>2. CASE m \in L \ Eaten /\ m # p
      <3>1. g[m].next = h[m].next /\ g[m].next \in L2 \cup {NULL} /\ g[m].next # head /\ g[m].next # f
        BY <1>1, <1>2, <1>6, <2>2
      <3>2. g[m].next # NULL => hi[m] < lo[g[m].next] /\ lo[m] < lo[g[m].next] /\ g[m].next \in L
        BY <1>2, <2>2, <3>1
      <3>3. lo2[m] = lo[m] /\ hi2[m] = hi[m] /\ \A t \in L : lo2[t] = lo[t]
        BY <2>2
      <3> HIDE DEF L2
      <3> QED BY <3>1, <3>2, <3>3
    <2>3. CASE m = p /\ p \in L
      <3>1. CASE Kept = {} /\ hi[p] = lo2[f] /\ hi2[p] = hi2[f] /\ g[p].next = g[f].next
        <4>1. g[m].next = y /\ y \in L2 \cup {NULL} /\ y # head2
          BY <1>5, <2>3, <3>1 DEF y
        <4>2. y # NULL => hi2[m] < lo2[y] /\ lo2[y] \in Nat
          BY <1>5, <2>3, <3>1
        <4>3. lo2[m] \in Nat /\ hi2[m] \in Nat /\ lo2[m] < hi2[m]
          BY <2>3, <3>1
        <4> HIDE DEF L2
        <4> QED BY <4>1, <4>2, <4>3
      <3>2. CASE Kept = {f} /\ hi[p] < lo2[f] /\ hi2[p] = hi[p] /\ g[p].next = f
        <4>1. g[m].next = f /\ f \in L2 /\ f # head2
          BY <1>1, <1>2, <2>3, <3>2
        <4>2. hi2[m] < lo2[f] /\ lo2[m] \in Nat /\ hi2[m] \in Nat /\ lo2[m] < hi2[m]
          BY <2>3, <3>2
        <4> HIDE DEF L2
        <4> QED BY <4>1, <4>2
      <3> QED BY <2>3, <3>1, <3>2
    <2> QED BY <2>1, <2>2, <2>3
  <1>8. ASSUME NEW t \in L2, t # head2 PROVE \E u \in L2 : g[u].next = t
    <2>1. CASE t = y
      <3>1. CASE f \in Kept
        BY <2>1, <3>1
      <3>2. CASE p \in L /\ g[p].next = g[f].next
        BY <1>6, <2>1, <3>2
      <3> QED BY <3>1, <3>2
    <2>2. CASE t = f
      <3>1. p \in L /\ Kept = {f}
        BY <1>6, <1>8, <2>2
      <3> QED BY <1>6, <2>2, <3>1
    <2>3. CASE t # y /\ t # f
      <3>1. t \in L \ Eaten
        BY <2>3
      <3>2. t # n /\ t # head
        <4>1. t # n
          BY <2>3, <3>1
        <4> QED BY <1>6, <1>8, <4>1
      <3>3. PICK u \in L : h[u].next = t
        BY <1>2, <3>1, <3>2
      <3>4. u # p
        BY <1>6, <3>2, <3>3
      <3>5. u \notin Eaten
        BY <2>3, <3>3
      <3> QED BY <3>3, <3>4, <3>5
    <2> QED BY <2>1, <2>2, <2>3
  <1>9. head2 \in L2
    <2>1. CASE p = NULL
      BY <1>1, <2>1
    <2>2. CASE p \in L
      <3>1. head2 = head /\ head # n
        BY <1>1, <2>2
      <3> QED BY <1>2, <3>1
    <2> QED BY <1>6, <2>1, <2>2
  <1> HIDE DEF L2
  <1>10. Line(g, L2, head2, lo2)
    <2>1. head2 # NULL
      BY <1>1, <1>2
    <2> QED BY <1>7, <1>8, <1>9, <2>1 DEF Line
  <1> QED BY <1>7, <1>10 DEF L2, Spaced

\* Where the blocks begin and end, and what follows them, after heap_free.
Placed(A, L, n, a, f, p) ==
  /\ f \in Nodes /\ f \notin A \cup L /\ free_ll' = (IF p = NULL THEN f ELSE free_ll)
  /\ Lo'[f] = Lo[a] /\ node'[f].prev = p
  /\ IF Hi[a] = Lo[n] THEN Hi'[f] = Hi[n] /\ node'[f].next = node[n].next
     ELSE Hi'[f] = Hi[a] /\ node'[f].next = n
  /\ IF p # NULL /\ Hi[p] = Lo[a] THEN Hi'[p] = Hi'[f] /\ node'[p].next = node'[f].next
     ELSE p # NULL => Hi'[p] = Hi[p] /\ node'[p].next = f
  /\ \A m \in A \cup L : Lo'[m] = Lo[m] /\ (m # p => Hi'[m] = Hi[m])
  /\ \A m \in L : m # p => node'[m].next = node[m].next

\* So heap_free places them.
LEMMA FreedBlocks ==
  ASSUME BoundsInv, ~lost, NEW A \in SUBSET Nodes, NEW F \in SUBSET Nodes, Books(A, F),
         NEW L \in SUBSET F, Ledger(A, L), NEW b \in held, NEW n, NEW a, Gives(A, F, b, n, a),
         NEW f, f = made', NEW p, p = node[n].prev
  PROVE  Placed(A, L, n, a, f, p)
  <1>1. /\ n \in L /\ a \in A /\ b[1] = Lo[a] /\ p # n /\ p \in L \cup {NULL}
        /\ p # NULL => Hi[p] <= Lo[a]
    BY FreedBetween, SizeAssumption DEF Nodes, NULL
  <1>2. /\ made' = made + 1 /\ f \in Nodes /\ free_ll' = (IF p = NULL THEN f ELSE free_ll)
        /\ node'[f].addr = b[1] /\ node'[f].prev = p /\ node' \in Heaps
        /\ node'[f].size = node[a].size + (IF b[1] + node[a].size = node[n].addr THEN node[n].size ELSE 0)
        /\ node'[f].next = IF b[1] + node[a].size = node[n].addr THEN (IF n = p THEN f ELSE node[n].next) ELSE n
    BY DEF Gives
  <1>3. /\ \A m \in A : node'[m].addr = node[m].addr /\ node'[m].size = node[m].size
        /\ \A m \in F : node'[m].addr = node[m].addr
        /\ \A m \in F : m # p => node'[m].size = node[m].size /\ node'[m].next = node[m].next
    BY DEF Gives
  <1>4. p \in F => IF node[p].addr + node[p].size = b[1]
                   THEN node'[p].size = node[p].size + node'[f].size /\ node'[p].next = node'[f].next
                   ELSE node'[p].size = node[p].size /\ node'[p].next = f
    <2>1. p \in F => p # NULL
      BY SizeAssumption DEF Nodes, NULL
    <2> QED BY <2>1, <1>2, SMTT(30) DEF Gives
  <1>5. NULL \notin Nodes /\ \A m \in Nodes : m \in 0..MaxNodes
    BY SizeAssumption DEF Nodes, NULL
  <1>6. f \notin A \cup L /\ A \cap L = {}
    <2>1. A \subseteq 1..made /\ F \subseteq 1..made /\ A \cap F = {} /\ made \in Nat
      BY DEF Books, BoundsInv
    <2>2. f \notin A \cup F
      BY <1>2, <2>1
    <2> QED BY <2>1, <2>2
  <1>7. \A m \in A \cup L : /\ Lo[m] = node[m].addr /\ Hi[m] = node[m].addr + node[m].size
                            /\ node[m].addr \in Nat /\ node[m].size \in Nat
                            /\ Lo'[m] = node'[m].addr /\ Hi'[m] = node'[m].addr + node'[m].size
    BY <1>5, LoHi, NodeFields DEF BoundsInv
  <1>8. Lo'[f] = node'[f].addr /\ Hi'[f] = node'[f].addr + node'[f].size
    BY <1>2, <1>5, LoHi
  <1>9. \A m \in A \cup L : Lo'[m] = Lo[m] /\ (m # p => Hi'[m] = Hi[m])
    BY <1>3, <1>7
  <1>10. /\ Lo'[f] = Lo[a]
         /\ IF Hi[a] = Lo[n] THEN Hi'[f] = Hi[n] /\ node'[f].next = node[n].next
            ELSE Hi'[f] = Hi[a] /\ node'[f].next = n
    <2>1. /\ Lo[n] = node[n].addr /\ Hi[n] = node[n].addr + node[n].size
          /\ Lo[a] = node[a].addr /\ Hi[a] = node[a].addr + node[a].size
          /\ node[n].addr \in Nat /\ node[n].size \in Nat /\ node[a].addr \in Nat /\ node[a].size \in Nat
      BY <1>1, <1>7
    <2>2. CASE Hi[a] = Lo[n]
      <3>1. node'[f].size = node[a].size + node[n].size /\ node'[f].next = node[n].next
        BY <1>1, <1>2, <2>1, <2>2
      <3>2. Hi'[f] = node[a].addr + (node[a].size + node[n].size)
        BY <1>1, <1>2, <1>8, <2>1, <3>1
      <3>3. Hi'[f] = Hi[n]
        BY <2>1, <2>2, <3>2
      <3> QED BY <1>1, <1>2, <1>8, <2>2, <3>1, <3>3
    <2>3. CASE Hi[a] # Lo[n]
      <3>1. node'[f].size = node[a].size + 0 /\ node'[f].next = n
        BY <1>1, <1>2, <2>1, <2>3
      <3>2. Hi'[f] = Hi[a]
        BY <1>1, <1>2, <1>8, <2>1, <3>1
      <3> QED BY <1>1, <1>2, <1>8, <2>3, <3>1, <3>2
    <2> QED BY <2>2, <2>3
  <1>11. IF p # NULL /\ Hi[p] = Lo[a] THEN Hi'[p] = Hi'[f] /\ node'[p].next = node'[f].next
         ELSE p # NULL => Hi'[p] = Hi[p] /\ node'[p].next = f
    <2>1. CASE p = NULL
      BY <2>1
    <2>2. CASE p # NULL
      <3>1. p \in L /\ p \in F
        BY <1>1, <2>2
      <3>2. /\ Lo[p] = node[p].addr /\ Hi[p] = node[p].addr + node[p].size
            /\ node[p].addr \in Nat /\ node[p].size \in Nat
            /\ Hi'[p] = node'[p].addr + node'[p].size /\ node'[p].addr = node[p].addr
        BY <1>3, <1>7, <3>1, SMTT(30)
      <3>3. CASE Hi[p] = Lo[a]
        <4>1. node'[p].size = node[p].size + node'[f].size /\ node'[p].next = node'[f].next
          BY <1>1, <1>4, <3>1, <3>2, <3>3
        <4>2. node'[f].size \in Nat /\ Hi'[f] = (node[p].addr + node[p].size) + node'[f].size
          <5>1. node'[f].size \in Nat
            BY <1>2, <1>5 DEF Heaps, Record
          <5> QED BY <1>1, <1>2, <1>8, <3>2, <3>3, <5>1
        <4>3. Hi'[p] = Hi'[f]
          BY <3>2, <4>1, <4>2
        <4> QED BY <2>2, <3>3, <4>1, <4>3
      <3>4. CASE Hi[p] # Lo[a]
        BY <1>1, <1>4, <3>1, <3>2, <3>4
      <3> QED BY <3>3, <3>4
    <2> QED BY <2>1, <2>2
  <1> QED BY <1>2, <1>3, <1>6, <1>9, <1>10, <1>11 DEF Placed

\* The nodes that the walk of the free list meets after a step.
LEMMA LineNext ==
  ASSUME NEW L \in SUBSET Nodes, Line(node', L, free_ll', Lo'), Lo' \in [0..MaxNodes -> Nat]
  PROVE  OnList(free_ll)' = L
  <1>1. PICK w : IsWalk(node', free_ll', w) /\ OnList(free_ll)' = {w[k] : k \in 0..MaxNodes} \ {NULL, Wild}
    BY FreeWalkNext
  <1>2. Visits(node', L, w)
    BY <1>1, WalkLine
  <1>3. NULL \notin L /\ Wild \notin L
    BY SizeAssumption DEF Nodes, NULL, Wild
  <1>4. (\A k \in 0..MaxNodes : w[k] \in L \cup {NULL}) /\ (\A t \in L : \E k \in 0..MaxNodes : w[k] = t)
    BY <1>2 DEF Visits
  <1> QED BY <1>1, <1>3, <1>4

\* There is a free list after the node f has taken the place of a.
Relisted(A, F, f, a) == \E L2 \in SUBSET (F \cup {f}) : Ledger(A \ {a}, L2)'

\* heap_free, unless it leaves a link stale.
LEMMA LedgerFree ==
  ASSUME BoundsInv, ~lost, NEW A \in SUBSET Nodes, NEW F \in SUBSET Nodes, Books(A, F),
         NEW L \in SUBSET F, Ledger(A, L), NEW b \in held, NEW n, NEW a, Gives(A, F, b, n, a),
         held' = held \ {b}, BackLinked', NEW f, f = made'
  PROVE  Relisted(A, F, f, a)
  <1> PICK p : p = node[n].prev
    OBVIOUS
  <1>1. /\ f \in Nodes /\ f \notin A \cup L /\ free_ll' = (IF p = NULL THEN f ELSE free_ll)
        /\ Lo'[f] = Lo[a] /\ node'[f].prev = p
        /\ IF Hi[a] = Lo[n] THEN Hi'[f] = Hi[n] /\ node'[f].next = node[n].next
           ELSE Hi'[f] = Hi[a] /\ node'[f].next = n
        /\ IF p # NULL /\ Hi[p] = Lo[a] THEN Hi'[p] = Hi'[f] /\ node'[p].next = node'[f].next
           ELSE p # NULL => Hi'[p] = Hi[p] /\ node'[p].next = f
        /\ \A m \in A \cup L : Lo'[m] = Lo[m] /\ (m # p => Hi'[m] = Hi[m])
        /\ \A m \in L : m # p => node'[m].next = node[m].next
    <2>1. Placed(A, L, n, a, f, p)
      BY FreedBlocks
    <2> QED BY <2>1 DEF Placed
  <1>2. /\ n \in L /\ a \in A /\ n # a /\ b = <<node[a].addr, node[a].size>>
        /\ Hi[a] <= Lo[n]
        /\ IF n = free_ll THEN p = NULL
           ELSE p \in L /\ p # n /\ node[p].next = n /\ Hi[p] <= Lo[a]
    BY FreedBetween
  <1>3. NULL \notin Nodes /\ L \in SUBSET Nodes /\ A \cap L = {}
    <2>1. NULL \notin Nodes
      BY DEF Nodes, NULL
    <2> QED BY <2>1 DEF Books
  <1>4. /\ Chain(node, L, free_ll, Lo) /\ Tiles(A \cup L, Lo, Hi)
        /\ free_ll # NULL => node[free_ll].prev = NULL
        /\ \A m \in L : node[m].next # NULL => Hi[m] < Lo[node[m].next]
        /\ held = {<<node[m].addr, node[m].size>> : m \in A}
    BY DEF Ledger
  <1>5. \A m \in A \cup L : Lo[m] \in Nat /\ Hi[m] \in Nat /\ Lo[m] < Hi[m]
    BY <1>4 DEF Tiles
  <1> DEFINE Eaten == IF Hi[a] = Lo[n] THEN {n} ELSE {}
             Kept == IF p # NULL /\ Hi[p] = Lo[a] THEN {} ELSE {f}
  <1> PICK E, K : E = Eaten /\ K = Kept
    OBVIOUS
  <1>6. /\ \/ E = {n} /\ Hi[a] = Lo[n] /\ Hi'[f] = Hi[n] /\ node'[f].next = node[n].next
           \/ E = {} /\ Hi[a] < Lo[n] /\ Hi'[f] = Hi[a] /\ node'[f].next = n
        /\ p \in L \/ p = NULL
        /\ \/ K = {} /\ p \in L /\ Hi[p] = Lo[a] /\ Hi'[p] = Hi'[f] /\ node'[p].next = node'[f].next
           \/ K = {f} /\ (p \in L => Hi[p] < Lo[a] /\ Hi'[p] = Hi[p] /\ node'[p].next = f)
    <2>1. Hi[a] <= Lo[n] /\ Hi[a] \in Nat /\ Lo[n] \in Nat /\ Lo[a] \in Nat
      BY <1>2, <1>5
    <2>2. p \in L => p # NULL /\ Hi[p] \in Nat /\ Hi[p] <= Lo[a]
      BY <1>2, <1>3, <1>5
    <2>3. p \in L \/ p = NULL
      BY <1>2
    <2>4. \/ E = {n} /\ Hi[a] = Lo[n] /\ Hi'[f] = Hi[n] /\ node'[f].next = node[n].next
          \/ E = {} /\ Hi[a] < Lo[n] /\ Hi'[f] = Hi[a] /\ node'[f].next = n
      <3>1. CASE Hi[a] = Lo[n]
        BY <1>1, <3>1
      <3>2. CASE Hi[a] # Lo[n]
        <4>1. Hi[a] < Lo[n]
          BY <2>1, <3>2
        <4> QED BY <1>1, <3>2, <4>1
      <3> QED BY <3>1, <3>2
    <2>5. \/ K = {} /\ p \in L /\ Hi[p] = Lo[a] /\ Hi'[p] = Hi'[f] /\ node'[p].next = node'[f].next
          \/ K = {f} /\ (p \in L => Hi[p] < Lo[a] /\ Hi'[p] = Hi[p] /\ node'[p].next = f)
      <3>1. CASE p # NULL /\ Hi[p] = Lo[a]
        BY <1>1, <2>3, <3>1
      <3>2. CASE p = NULL
        BY <1>3, <3>2
      <3>3. CASE p # NULL /\ Hi[p] # Lo[a]
        <4>1. Hi[p] < Lo[a]
          BY <2>1, <2>2, <2>3, <3>3
        <4> QED BY <1>1, <3>3, <4>1
      <3> QED BY <3>1, <3>2, <3>3
    <2> QED BY <2>3, <2>4, <2>5
  <1> HIDE DEF Eaten, Kept
  <1> PICK L2 : L2 = (L \ E) \cup K
    OBVIOUS
  <1>7. /\ Line(node', L2, free_ll', Lo')
        /\ \A m \in L2 : node'[m].next # NULL => Hi'[m] < Lo'[node'[m].next]
    <2>1. /\ Lo'[f] \in Nat /\ Hi'[f] \in Nat /\ Lo'[f] < Hi'[f]
      <3>1. /\ Lo[a] \in Nat /\ Hi[a] \in Nat /\ Lo[a] < Hi[a]
            /\ Lo[n] \in Nat /\ Hi[n] \in Nat /\ Lo[n] < Hi[n]
        BY <1>2, <1>5
      <3> QED BY <1>1, <1>6, <3>1
    <2>2. \/ E = {n} /\ Hi'[f] = Hi[n] /\ node'[f].next = node[n].next
          \/ E = {} /\ Hi'[f] < Lo[n] /\ node'[f].next = n
      BY <1>6
    <2>3. \/ K = {} /\ p \in L /\ Hi[p] = Lo'[f] /\ Hi'[p] = Hi'[f] /\ node'[p].next = node'[f].next
          \/ K = {f} /\ (p \in L => Hi[p] < Lo'[f] /\ Hi'[p] = Hi[p] /\ node'[p].next = f)
      BY <1>1, <1>6
    <2>4. \A m \in L : Lo'[m] = Lo[m] /\ (m # p => Hi'[m] = Hi[m] /\ node'[m].next = node[m].next)
      BY <1>1
    <2>5. IF n = free_ll THEN p = NULL ELSE p \in L /\ p # n /\ node[p].next = n
      BY <1>2
    <2>6. f \in Nodes /\ f \notin L /\ n \in L /\ free_ll' = IF p = NULL THEN f ELSE free_ll
      BY <1>1, <1>2
    <2>7. \A m \in L : Lo[m] \in Nat /\ Hi[m] \in Nat /\ Lo[m] < Hi[m]
      BY <1>5
    <2>8. Goes(node, node', L, free_ll, Lo, Hi, Lo', Hi', n, p, f, free_ll', E, K)
      BY <1>4, <2>1, <2>2, <2>3, <2>4, <2>5, <2>6, <2>7 DEF Goes
    <2>9. Line(node', L2, free_ll', Lo') /\ Spaced(node', L2, Lo', Hi')
      BY <1>3, <1>4, <2>8, FreedLine
    <2> QED BY <2>9 DEF Spaced
  <1>8. L2 \in SUBSET (F \cup {f}) /\ L2 \in SUBSET Nodes
    BY <1>1, <1>3, <1>6
  <1>9. Chain(node', L2, free_ll', Lo')
    <2>1. Lo' \in [0..MaxNodes -> Nat]
      BY LoHi DEF Gives
    <2>2. OnList(free_ll)' = L2
      BY <1>7, <1>8, <2>1, LineNext
    <2>3. \A t \in L2 : node'[t].next \in Nodes => node'[node'[t].next].prev = t
      BY <2>2 DEF BackLinked, Nodes
    <2>4. \A t \in L2 : node'[t].next \in Nodes \cup {NULL}
      BY <1>7, <1>8 DEF Line
    <2>5. \A t \in L2 : node'[t].next # NULL => node'[node'[t].next].prev = t
      BY <2>3, <2>4
    <2> QED BY <1>7, <1>8, <2>5, LineChain
  <1>10. free_ll' # NULL => node'[free_ll'].prev = NULL
    <2>1. CASE p = NULL
      BY <1>1, <2>1
    <2>2. CASE p \in L
      <3>1. free_ll' = free_ll /\ free_ll # n /\ free_ll \in L
        BY <1>1, <1>2, <1>3, <1>4, <2>2 DEF Chain
      <3>2. node'[free_ll].prev = node[free_ll].prev
        BY <3>1 DEF Gives
      <3> QED BY <1>4, <3>1, <3>2
    <2> QED BY <1>6, <2>1, <2>2
  <1>11. Tiles((A \ {a}) \cup L2, Lo', Hi')
    <2>1. \/ E = {n} /\ Hi[a] = Lo[n] /\ Hi'[f] = Hi[n]
          \/ E = {} /\ Hi'[f] = Hi[a]
      BY <1>6
    <2>2. p \in A \cup L => p \in L
      <3>1. p \in L \/ p = NULL
        BY <1>6
      <3> QED BY <1>3, <3>1
    <2>3. \/ K = {} /\ p \in A \cup L /\ Hi[p] = Lo[a] /\ Hi'[p] = Hi'[f]
          \/ K = {f} /\ (p \in A \cup L => Hi'[p] = Hi[p])
      BY <1>6, <2>2
    <2>4. p # a /\ p # n
      BY <1>2, <1>3
    <2>5. /\ f \notin A \cup L /\ a \in A \cup L /\ n \in A \cup L /\ a # n /\ Lo'[f] = Lo[a]
          /\ \A m \in A \cup L : Lo'[m] = Lo[m] /\ (m # p => Hi'[m] = Hi[m])
      BY <1>1, <1>2
    <2>6. Tiles((((A \cup L) \ {a}) \ E) \cup K, Lo', Hi')
      <3>1. Settles(A \cup L, Lo, Hi, Lo', Hi', a, n, f, p, E, K)
        BY <2>1, <2>3, <2>4, <2>5 DEF Settles
      <3> QED BY <1>4, <3>1, TilesFreed
    <2>7. (((A \cup L) \ {a}) \ E) \cup K = (A \ {a}) \cup L2
      <3>1. (E = {n} \/ E = {}) /\ n \in L /\ a \notin L
        BY <1>2, <1>3, <1>6
      <3> QED BY <1>3, <3>1
    <2> QED BY <2>6, <2>7
  <1>12. held' = {<<node'[m].addr, node'[m].size>> : m \in A \ {a}}
    <2>1. \A m \in A : node'[m].addr = node[m].addr /\ node'[m].size = node[m].size
      BY DEF Gives
    <2>2. \A m \in A \ {a} : Lo[m] # Lo[a]
      <3>1. \A m, k \in A \cup L : m # k => Hi[m] <= Lo[k] \/ Hi[k] <= Lo[m]
        BY <1>4 DEF Tiles
      <3> QED BY <1>2, <1>5, <3>1
    <2>3. \A m \in A : Lo[m] = node[m].addr
      BY SizeAssumption, LoHi DEF Nodes
    <2>4. \A m \in A \ {a} : <<node[m].addr, node[m].size>> # b
      BY <1>2, <2>2, <2>3
    <2> QED BY <1>2, <1>4, <2>1, <2>4
  <1>13. Ledger(A \ {a}, L2)'
    BY <1>7, <1>9, <1>10, <1>11, <1>12 DEF Ledger
  <1> QED BY <1>8, <1>13 DEF Relisted

\* At the boot the first block is held and the rest of the heap is free.
LEMMA LedgerInit == Init => LedgerInv
  <1> SUFFICES ASSUME Init PROVE LedgerInv
    OBVIOUS
  <1>1. /\ node[1] = Block(Screen, HeapSize - Screen, NULL, NULL) /\ node[2] = Block(0, Screen, NULL, NULL)
        /\ made = 2 /\ free_ll = 1 /\ alloc_ll = 2 /\ held = {<<0, Screen>>}
        /\ 1 \in Nodes /\ 2 \in Nodes
    BY SizeAssumption DEF Init, NULL, Nodes
  <1>2. /\ node[1].addr = Screen /\ node[1].size = HeapSize - Screen /\ node[1].prev = NULL /\ node[1].next = NULL
        /\ node[2].addr = 0 /\ node[2].size = Screen /\ node[2].prev = NULL /\ node[2].next = NULL
    BY <1>1, SizeAssumption DEF Block
  <1>3. Chain(node, {2}, 2, Number) /\ Chain(node, {1}, 1, Lo)
    BY <1>2 DEF Chain, NULL
  <1> DEFINE g == [b \in held |-> 2]
  <1>4. Found({2}, g)
    BY <1>1, <1>2 DEF Found
  <1> HIDE DEF g
  <1>5. Books({2}, {1})
    BY <1>1, <1>2, <1>3, <1>4, SizeAssumption DEF Books
  <1>6. Lo[1] = Screen /\ Hi[1] = HeapSize /\ Lo[2] = 0 /\ Hi[2] = Screen
    <2>1. 1 \in 0..MaxNodes /\ 2 \in 0..MaxNodes
      BY SizeAssumption
    <2>2. Hi[1] = Screen + (HeapSize - Screen) /\ Hi[2] = 0 + Screen /\ Lo[1] = Screen /\ Lo[2] = 0
      BY <1>2, <2>1, LoHi
    <2> QED BY <2>2, SizeAssumption
  <1>7. Tiles({2} \cup {1}, Lo, Hi)
    <2>1. \A x \in 0..(HeapSize - 1) : \E m \in {2} \cup {1} : Lo[m] <= x /\ x < Hi[m]
      BY <1>6, SizeAssumption
    <2> QED BY <1>6, <2>1, SizeAssumption DEF Tiles
  <1>8. held = {<<node[m].addr, node[m].size>> : m \in {2}}
    BY <1>1, <1>2
  <1>9. Ledger({2}, {1})
    BY <1>1, <1>2, <1>3, <1>7, <1>8 DEF Ledger
  <1> QED BY <1>1, <1>5, <1>9 DEF LedgerInv

\* The ledger is kept until a link is stale or low memory is used.
LEMMA LedgerStep ==
  ASSUME 0 \notin Sizes, BoundsInv, BooksInv, LedgerInv, [Next]_vars PROVE LedgerInv'
  <1> SUFFICES ASSUME ~low_used', ~stale' PROVE LedgerInv'
    BY DEF LedgerInv, Intact
  <1>1. CASE UNCHANGED vars
    <2>1. /\ node' = node /\ made' = made /\ free_ll' = free_ll /\ alloc_ll' = alloc_ll
          /\ held' = held /\ low_used' = low_used /\ stale' = stale
      BY <1>1 DEF vars
    <2>2. PICK A, F \in SUBSET Nodes : Books(A, F) /\ \E L \in SUBSET F : Ledger(A, L)
      BY <2>1 DEF LedgerInv, Intact
    <2>3. PICK L \in SUBSET F : Ledger(A, L)
      BY <2>2
    <2>4. PICK g : Found(A, g)
      BY <2>2 DEF Books
    <2>5. Found(A, g)'
      BY <2>1, <2>4 DEF Found
    <2>6. Books(A, F)'
      BY <2>1, <2>2, <2>5 DEF Books
    <2>7. Lo' = Lo /\ Hi' = Hi
      BY <2>1 DEF Lo, Hi
    <2>8. Ledger(A, L)'
      BY <2>1, <2>3, <2>7 DEF Ledger
    <2> QED BY <2>2, <2>6, <2>8 DEF LedgerInv, Nodes
  <1>2. CASE Next
    <2>1. ~low_used /\ ~stale
      <3>1. ~low_used
        BY <1>2 DEF Next, kmalloc, kfree, heap_alloc, heap_free
      <3>2. kmalloc => stale' = stale
        BY DEF kmalloc, heap_alloc
      <3>3. kfree => stale' = (stale \/ ~BackLinked')
        BY DEF kfree, heap_free
      <3>4. kmalloc => ~stale
        BY <3>2
      <3>5. kfree => ~stale
        BY <3>3, Zenon
      <3> QED BY <1>2, <3>1, <3>4, <3>5 DEF Next
    <2>2. PICK A, F \in SUBSET Nodes : Books(A, F) /\ \E L \in SUBSET F : Ledger(A, L)
      BY <2>1 DEF LedgerInv, Intact
    <2>3. PICK L \in SUBSET F : Ledger(A, L)
      BY <2>2
    <2>4. ~lost
      BY <2>1 DEF BooksInv
    <2>5. CASE kmalloc
      <3>1. PICK size \in Sizes : heap_alloc(size)
        BY <2>5 DEF kmalloc
      <3>2. size \in Nat /\ size > 0
        BY SizeAssumption
      <3>3. PICK n, tail : Takes(A, F, size, n, tail)
        BY <2>2, <2>4, <3>1, AllocTakes
      <3>4. alloc_ll' = alloc_ll /\ lost' = lost
        BY <3>1 DEF heap_alloc
      <3>5. PICK a : a = made'
        OBVIOUS
      <3>6. A \cup {a} \in SUBSET Nodes /\ Books(A \cup {a}, F)'
        BY <2>2, <2>4, <3>1, <3>3, <3>4, <3>5, BooksAlloc
      <3>7. CASE size < node[n].size
        <4>1. Ledger(A \cup {a}, L)'
          BY <2>2, <2>3, <2>4, <3>2, <3>3, <3>5, <3>7, LedgerSplit
        <4> QED BY <2>2, <2>3, <3>6, <4>1 DEF LedgerInv, Nodes
      <3>8. CASE ~(size < node[n].size)
        <4>1. Ledger(A \cup {a}, L \ {n})'
          BY <2>2, <2>3, <2>4, <3>2, <3>3, <3>5, <3>8, LedgerExact
        <4>2. L \ {n} \in SUBSET F
          BY <2>3
        <4> QED BY <2>2, <3>6, <4>1, <4>2 DEF LedgerInv, Nodes
      <3> QED BY <3>7, <3>8
    <2>6. CASE kfree
      <3>1. PICK b \in held \ {<<0, Screen>>} : heap_free(b[1]) /\ held' = held \ {b}
        BY <2>6 DEF kfree
      <3>2. ~lost' /\ \E n, a : Gives(A, F, b, n, a)
        BY <2>2, <2>4, <3>1, FreeGives
      <3>3. PICK n, a : Gives(A, F, b, n, a)
        BY <3>2
      <3>4. alloc_ll' = alloc_ll /\ BackLinked'
        BY <3>1 DEF heap_free
      <3>5. PICK f : f = made'
        OBVIOUS
      <3>6. F \cup {f} \in SUBSET Nodes /\ Books(A \ {a}, F \cup {f})'
        BY <2>2, <2>4, <3>1, <3>3, <3>4, <3>5, BooksFree
      <3>7. A \ {a} \in SUBSET Nodes
        BY <2>2
      <3>8. \E L2 \in SUBSET (F \cup {f}) : Ledger(A \ {a}, L2)'
        <4>1. b \in held /\ held' = held \ {b} /\ Books(A, F)
          BY <2>2, <3>1
        <4>2. Relisted(A, F, f, a)
          BY <2>3, <2>4, <3>3, <3>4, <3>5, <4>1, LedgerFree
        <4> QED BY <4>2 DEF Relisted
      <3> QED BY <3>6, <3>7, <3>8 DEF LedgerInv, Nodes
    <2> QED BY <1>2, <2>5, <2>6 DEF Next
  <1> QED BY <1>1, <1>2

\* The free list is the walk of the list in the ledger.
LEMMA FreeListWalk ==
  ASSUME BoundsInv, ~lost, NEW A, NEW L \in SUBSET Nodes, Ledger(A, L)
  PROVE  OnList(free_ll) = L
  <1> PICK w : w = Hops(free_ll)
    OBVIOUS
  <1>1. IsWalk(node, free_ll, w)
    BY HopsWalk
  <1>2. Line(node, L, free_ll, Lo) /\ Lo \in [0..MaxNodes -> Nat]
    BY ChainLine, LoHi DEF Ledger
  <1>3. Visits(node, L, w)
    BY <1>1, <1>2, WalkLine
  <1>4. OnList(free_ll) = {w[k] : k \in 0..MaxNodes} \ {NULL, Wild}
    BY DEF OnList
  <1>5. NULL \notin L /\ Wild \notin L
    BY SizeAssumption DEF Nodes, NULL, Wild
  <1>6. (\A k \in 0..MaxNodes : w[k] \in L \cup {NULL}) /\ (\A t \in L : \E k \in 0..MaxNodes : w[k] = t)
    BY <1>3 DEF Visits
  <1> QED BY <1>4, <1>5, <1>6

\* What the ledger says of the bytes and of the links.
LEMMA LedgerRight ==
  ASSUME BoundsInv, BooksInv, LedgerInv PROVE FreeListRight
  <1> SUFFICES ASSUME Intact PROVE FreeListRight
    BY DEF FreeListRight, Conserved, Coalesced
  <1>1. PICK A, F \in SUBSET Nodes : Books(A, F) /\ \E L \in SUBSET F : Ledger(A, L)
    BY DEF LedgerInv
  <1>2. PICK L \in SUBSET F : Ledger(A, L)
    BY <1>1
  <1>3. ~lost
    BY DEF BooksInv, Intact
  <1>4. OnList(free_ll) = L
    BY <1>2, <1>3, FreeListWalk
  <1>5. Tiles(A \cup L, Lo, Hi) /\ A \cap L = {} /\ held = {<<node[m].addr, node[m].size>> : m \in A}
    BY <1>1, <1>2 DEF Ledger, Books
  <1>6. \A m \in A \cup L : /\ Lo[m] = node[m].addr /\ Hi[m] = node[m].addr + node[m].size
                            /\ node[m].addr \in Nat /\ node[m].size \in Nat /\ Hi[m] <= HeapSize
    <2>1. \A m \in A \cup L : m \in 0..MaxNodes
      BY <1>1, <1>2, SizeAssumption DEF Nodes
    <2>2. \A m \in A \cup L : Hi[m] <= HeapSize
      BY <1>5 DEF Tiles
    <2> QED BY <1>3, <2>1, <2>2, LoHi, NodeFields DEF BoundsInv
  <1>7. \A m \in A \cup L : \A x : x \in Bytes(node[m].addr, node[m].size) <=>
                              x \in 0..(HeapSize - 1) /\ Lo[m] <= x /\ x < Hi[m]
    BY <1>6, SizeAssumption DEF Bytes
  <1>8. \A x : x \in FreeBytes <=> \E m \in L : x \in Bytes(node[m].addr, node[m].size)
    BY <1>4 DEF FreeBytes
  <1>9. \A x : x \in HeldBytes <=> \E m \in A : x \in Bytes(node[m].addr, node[m].size)
    <2>1. \A m \in A : <<node[m].addr, node[m].size>> \in held
      BY <1>5
    <2>2. \A b \in held : \E m \in A : b = <<node[m].addr, node[m].size>>
      BY <1>5
    <2>3. \A x : x \in HeldBytes <=> \E b \in held : x \in Bytes(b[1], b[2])
      BY DEF HeldBytes
    <2>4. \A m \in A : \A b : b = <<node[m].addr, node[m].size>> => Bytes(b[1], b[2]) = Bytes(node[m].addr, node[m].size)
      OBVIOUS
    <2> SUFFICES ASSUME NEW x PROVE x \in HeldBytes <=> \E m \in A : x \in Bytes(node[m].addr, node[m].size)
      OBVIOUS
    <2>5. ASSUME x \in HeldBytes PROVE \E m \in A : x \in Bytes(node[m].addr, node[m].size)
      <3>1. PICK b \in held : x \in Bytes(b[1], b[2])
        BY <2>3, <2>5
      <3>2. PICK m \in A : b = <<node[m].addr, node[m].size>>
        BY <2>2
      <3> QED BY <2>4, <3>1, <3>2
    <2>6. ASSUME NEW m \in A, x \in Bytes(node[m].addr, node[m].size) PROVE x \in HeldBytes
      <3>1. PICK b : b = <<node[m].addr, node[m].size>>
        OBVIOUS
      <3>2. b \in held /\ x \in Bytes(b[1], b[2])
        BY <2>1, <2>4, <2>6, <3>1
      <3> QED BY <2>3, <3>2
    <2> QED BY <2>5, <2>6
  <1>10. \A m, k \in A \cup L : m # k => \A x : ~(x \in Bytes(node[m].addr, node[m].size)
                                                /\ x \in Bytes(node[k].addr, node[k].size))
    <2> SUFFICES ASSUME NEW m \in A \cup L, NEW k \in A \cup L, m # k, NEW x,
                        x \in Bytes(node[m].addr, node[m].size), x \in Bytes(node[k].addr, node[k].size)
                 PROVE  FALSE
      OBVIOUS
    <2>1. x \in 0..(HeapSize - 1) /\ Lo[m] <= x /\ x < Hi[m] /\ Lo[k] <= x /\ x < Hi[k]
      BY <1>7
    <2>2. Hi[m] <= Lo[k] \/ Hi[k] <= Lo[m]
      BY <1>5 DEF Tiles
    <2>3. Lo[m] \in Nat /\ Hi[m] \in Nat /\ Lo[k] \in Nat /\ Hi[k] \in Nat /\ x \in Int
      BY <1>6, <2>1, SizeAssumption
    <2> QED BY <2>1, <2>2, <2>3
  <1>11. FreeBytes \cap HeldBytes = {}
    BY <1>5, <1>8, <1>9, <1>10
  <1>12. FreeBytes \cup HeldBytes = 0..(HeapSize - 1)
    <2>1. \A x \in 0..(HeapSize - 1) : \E m \in A \cup L : Lo[m] <= x /\ x < Hi[m]
      BY <1>5 DEF Tiles
    <2>2. \A x \in 0..(HeapSize - 1) : x \in FreeBytes \cup HeldBytes
      BY <1>7, <1>8, <1>9, <2>1
    <2>3. \A x \in FreeBytes \cup HeldBytes : x \in 0..(HeapSize - 1)
      BY <1>7, <1>8, <1>9
    <2> QED BY <2>2, <2>3
  <1>13. \A b, c \in held : b # c => ~Overlap(b, c)
    <2> SUFFICES ASSUME NEW b \in held, NEW c \in held, b # c PROVE ~Overlap(b, c)
      OBVIOUS
    <2>1. PICK m \in A : b = <<node[m].addr, node[m].size>>
      BY <1>5
    <2>2. PICK k \in A : c = <<node[k].addr, node[k].size>>
      BY <1>5
    <2>3. m # k
      BY <2>1, <2>2
    <2>4. b[1] = node[m].addr /\ b[2] = node[m].size /\ c[1] = node[k].addr /\ c[2] = node[k].size
      BY <2>1, <2>2
    <2> QED BY <1>10, <2>3, <2>4 DEF Overlap
  <1>14. Conserved
    BY <1>11, <1>12, <1>13 DEF Conserved
  <1>15. Coalesced
    <2>1. /\ \A m \in L : node[m].next \in L \cup {NULL} /\ (node[m].next # NULL => node[node[m].next].prev = m)
          /\ \A m \in L : node[m].next # NULL => Hi[m] < Lo[node[m].next]
      BY <1>2 DEF Ledger, Chain
    <2>2. NULL \notin Nodes
      BY DEF Nodes, NULL
    <2>3. BackLinked
      BY <1>4, <2>1, <2>2 DEF BackLinked
    <2>4. \A m \in L : node[m].next \in Nodes => node[m].addr + node[m].size < node[node[m].next].addr
      BY <1>6, <2>1, <2>2
    <2> QED BY <1>4, <2>3, <2>4 DEF Coalesced
  <1> QED BY <1>14, <1>15 DEF FreeListRight

\* If no caller asks for 0 bytes, then until a link is stale or low memory is
\* used every byte of the heap is free or held by exactly one caller, and the
\* free list is sorted, linked both ways and coalesced, whatever kmalloc and
\* kfree are called with and in which order.
THEOREM FreeListStaysRight ==
  ASSUME 0 \notin Sizes
  PROVE  Spec => []FreeListRight
  <1>1. BoundsInv /\ BooksInv /\ LedgerInv /\ [Next]_vars => LedgerInv'
    BY LedgerStep
  <1>2. BoundsInv /\ BooksInv /\ LedgerInv => FreeListRight
    BY LedgerRight
  <1> QED BY BoundsInit, BoundsStep, BooksInit, BooksStep, LedgerInit, <1>1, <1>2, PTL DEF Spec
=============================================================================
