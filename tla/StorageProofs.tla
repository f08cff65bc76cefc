--------------------------- MODULE StorageProofs ----------------------------
(***************************************************************************)
(* Proofs about the file table, about a tmpfs file and about the disk.     *)
(* For any number of tasks, files and calls of FileTable: Base             *)
(* holds while no slot past the end of a list was used, however the table  *)
(* was moved: every open descriptor is on one list at one place, and the   *)
(* table has a slot for each.  Table holds until an entry is moved: every  *)
(* descriptor resolves to the node it was opened on.                       *)
(* For the disk: every number of readers, every request, every size of the *)
(* drive and of its count register, and every timeout.                     *)
(***************************************************************************)
EXTENDS FileTable, TmpFile, Ata, FiniteSetTheorems, SequenceTheorems, TLAPS

ListOf(S) == [data : [Slots -> S \cup {NULL}], used : Nat]
OneRef == [node : Node, ref_count : {1}]
Descriptor == [gft_index : Nat, read : BOOLEAN, opened : Node]

Types ==
  /\ made \in 0..MaxFds
  /\ gft \in ListOf(OneRef) /\ gft.used \in 1..(made + 1)
  /\ open \subseteq Descriptors /\ fd \in [open -> Descriptor]
  /\ files \in [Tasks -> ListOf(Descriptors)]
  /\ \A t \in Tasks : files[t].used \in 0..made

Listed ==
  /\ \A t \in Tasks : \A i \in 0..(files[t].used - 1) : files[t].data[i] \in open
  /\ \A t, u \in Tasks : \A i \in 0..(files[t].used - 1), j \in 0..(files[u].used - 1) :
       files[t].data[i] = files[u].data[j] => t = u /\ i = j
  /\ \A d \in open : \E t \in Tasks : \E i \in 0..(files[t].used - 1) : files[t].data[i] = d

\* Nothing was ever stored past the end of a list.
Ended == \A t \in Tasks : \A i \in Slots : i >= files[t].used => files[t].data[i] = NULL

Counted == Cardinality(open) <= gft.used - 1

\* A ring buffer is opened as a task's first descriptor and never moves up.
RingsFirst ==
  \A t \in Tasks : \A i \in 1..(files[t].used - 1) : fd[files[t].data[i]].opened.kind # "ring"

Base == Types /\ Listed /\ Ended /\ Counted /\ RingsFirst

\* A task without standard input has no descriptor at all.
Started == /\ stdio \in [Tasks -> Nat]
           /\ \A t \in Tasks : stdio[t] = 0 => files[t].used = 0

Table ==
  /\ \A d \in open : /\ fd[d].gft_index \in 1..(gft.used - 1)
                     /\ gft.data[fd[d].gft_index] \in OneRef
                     /\ gft.data[fd[d].gft_index].node = fd[d].opened
  /\ \A c, d \in open : c # d => fd[c].gft_index # fd[d].gft_index
  /\ \A i \in 1..(gft.used - 1) : \E d \in open : fd[d].gft_index = i

FileInv == /\ shifted \in BOOLEAN /\ past_end \in BOOLEAN
           /\ ~past_end => Base /\ Started
           /\ ~shifted /\ ~past_end => Table /\ ~deaf

\* Appending to a list changes no earlier slot.
LEMMA Pushed ==
  ASSUME NEW S, NEW l \in ListOf(S), NEW e \in S, l.used <= MaxFds
  PROVE  /\ list_push(l, e) \in ListOf(S)
         /\ list_push(l, e).used = l.used + 1
         /\ list_push(l, e).data[l.used] = e
         /\ \A i \in Slots : i # l.used => list_push(l, e).data[i] = l.data[i]
  BY FdAssumption DEF list_push, ListOf, Slots

\* Deleting an element moves the later ones down by one.
LEMMA Deleted ==
  ASSUME NEW S, NEW l \in ListOf(S), NEW n \in Nat, n <= l.used,
         1 <= l.used, l.used <= MaxFds + 1
  PROVE  /\ list_delete(l, n) \in ListOf(S)
         /\ list_delete(l, n).used = l.used - 1
         /\ \A i \in Slots : list_delete(l, n).data[i] =
                               IF n <= i /\ i < l.used THEN l.data[i + 1] ELSE l.data[i]
  <1> DEFINE f == [i \in Slots |-> IF n <= i /\ i < l.used THEN l.data[i + 1] ELSE l.data[i]]
  <1>1. list_delete(l, n) = [data |-> f, used |-> l.used - 1]
    BY DEF list_delete, ListOf
  <1>2. l.data \in [Slots -> S \cup {NULL}] /\ l.used \in Nat
    BY DEF ListOf
  <1>3. \A i \in Slots : i < l.used => i + 1 \in Slots
    BY <1>2, FdAssumption DEF Slots
  <1>4. f \in [Slots -> S \cup {NULL}]
    BY <1>2, <1>3
  <1>5. l.used - 1 \in Nat
    BY <1>2
  <1> QED BY <1>1, <1>4, <1>5 DEF ListOf

\* There are finitely many descriptors.
LEMMA OpenFinite ==
  ASSUME NEW S \in SUBSET Descriptors PROVE IsFiniteSet(S) /\ Cardinality(S) \in Nat
  <1>1. IsFiniteSet(Descriptors)
    BY FdAssumption, FS_Interval, 1 \in Int, MaxFds \in Int DEF Descriptors
  <1> QED BY <1>1, FS_Subset, FS_CardinalityType

\* gft_init establishes the invariant.
LEMMA FileInit == Init => FileInv
  <1> SUFFICES ASSUME Init PROVE FileInv
    OBVIOUS
  <1>1. /\ make_list \in ListOf(OneRef) /\ make_list \in ListOf(Descriptors)
        /\ make_list.used = 0 /\ \A i \in Slots : make_list.data[i] = NULL
    BY DEF make_list, ListOf
  <1>2. gft \in ListOf(OneRef) /\ gft.used = 1
    BY <1>1 DEF Init, make_list, ListOf
  <1>3. open = {} /\ fd \in [open -> Descriptor]
    BY DEF Init, open
  <1>4. \A t \in Tasks : files[t] = make_list
    BY DEF Init
  <1>5. Types
    BY <1>1, <1>2, <1>3, <1>4, FdAssumption DEF Types, Init
  <1>6. Listed /\ Ended /\ RingsFirst
    BY <1>1, <1>3, <1>4 DEF Listed, Ended, RingsFirst
  <1>7. Counted
    BY <1>2, <1>3, FS_EmptySet DEF Counted
  <1>8. Started
    BY <1>1, <1>4 DEF Started, Init
  <1>9. Table
    BY <1>2, <1>3 DEF Table
  <1> QED BY <1>5, <1>6, <1>7, <1>8, <1>9 DEF FileInv, Base, Init

\* fd_open appends an entry, and a descriptor that is on no list.
LEMMA OpenStep ==
  ASSUME Base, NEW t \in Tasks, NEW node \in Node, NEW reads \in BOOLEAN,
         fd_open(t, node, reads), node.kind = "ring" => files[t].used = 0
  PROVE  Base' /\ (Table => Table')
  <1> DEFINE e == [node |-> node, ref_count |-> 1]
  <1>1. PICK d \in Fresh :
          /\ made < MaxFds /\ made' = made + 1
          /\ gft' = list_push(gft, e)
          /\ fd' = [c \in open \cup {d} |->
               IF c = d THEN [gft_index |-> gft.used, read |-> reads, opened |-> node]
               ELSE fd[c]]
          /\ files' = [files EXCEPT ![t] = list_push(@, d)]
    BY DEF fd_open
  <1>2. d \in Descriptors /\ d \notin open
    BY DEF Fresh
  <1>3. e \in OneRef /\ e.node = node
    BY DEF OneRef
  <1> HIDE DEF e
  <1>4. Types
    BY DEF Base
  <1>5. /\ gft' \in ListOf(OneRef) /\ gft'.used = gft.used + 1 /\ gft'.data[gft.used] = e
        /\ \A i \in Slots : i # gft.used => gft'.data[i] = gft.data[i]
    <2>1. gft \in ListOf(OneRef) /\ gft.used <= MaxFds
      BY <1>1, <1>4, FdAssumption DEF Types
    <2> QED BY <1>1, <1>3, <2>1, Pushed
  <1>6. /\ files'[t] \in ListOf(Descriptors) /\ files'[t].used = files[t].used + 1
        /\ files'[t].data[files[t].used] = d
        /\ \A i \in Slots : i # files[t].used => files'[t].data[i] = files[t].data[i]
    <2>1. files[t] \in ListOf(Descriptors) /\ files[t].used <= MaxFds
      BY <1>4, FdAssumption DEF Types
    <2>2. files'[t] = list_push(files[t], d)
      BY <1>1, <1>4 DEF Types
    <2> QED BY <1>2, <2>1, <2>2, Pushed
  <1>7. \A u \in Tasks : u # t => files'[u] = files[u]
    BY <1>1, <1>4 DEF Types
  <1>8. open' = open \cup {d}
    BY <1>1 DEF open
  <1>9. /\ fd'[d] = [gft_index |-> gft.used, read |-> reads, opened |-> node]
        /\ \A c \in open : fd'[c] = fd[c]
    BY <1>1, <1>2
  <1>10. Types'
    <2>1. fd' \in [open' -> Descriptor]
      BY <1>1, <1>4, <1>8, <1>9 DEF Types, Descriptor, ListOf
    <2>2. files' \in [Tasks -> ListOf(Descriptors)]
      BY <1>1, <1>4, <1>6, <1>7 DEF Types
    <2>3. open' \subseteq Descriptors /\ made' \in 0..MaxFds /\ gft'.used \in 1..(made' + 1)
      BY <1>1, <1>2, <1>4, <1>5, <1>8, FdAssumption DEF Types
    <2>4. \A u \in Tasks : files'[u].used \in 0..made'
      BY <1>1, <1>4, <1>6, <1>7 DEF Types
    <2> QED BY <1>5, <2>1, <2>2, <2>3, <2>4 DEF Types, ListOf, Slots, Descriptors, Descriptor, OneRef, Node
  <1>11. \A u \in Tasks : \A i \in 0..(files'[u].used - 1) :
           \/ u = t /\ i = files[t].used /\ files'[u].data[i] = d
           \/ i \in 0..(files[u].used - 1) /\ files'[u].data[i] = files[u].data[i]
                /\ files[u].data[i] \in open
    <2> SUFFICES ASSUME NEW u \in Tasks, NEW i \in 0..(files'[u].used - 1)
                 PROVE  \/ u = t /\ i = files[t].used /\ files'[u].data[i] = d
                        \/ i \in 0..(files[u].used - 1) /\ files'[u].data[i] = files[u].data[i]
                             /\ files[u].data[i] \in open
      OBVIOUS
    <2>1. files[u].used \in Nat /\ files[u].used <= MaxFds
      BY <1>4, FdAssumption DEF Types
    <2>2. ASSUME i \in 0..(files[u].used - 1) PROVE files[u].data[i] \in open /\ i \in Slots
      BY <2>1, <2>2, FdAssumption DEF Base, Listed, Slots
    <2>3. CASE u # t
      BY <1>7, <2>2, <2>3
    <2>4. CASE u = t
      <3>1. i \in 0..(files[t].used - 1) \/ i = files[t].used
        BY <1>6, <2>1, <2>4
      <3>2. i \in 0..(files[t].used - 1) => i # files[t].used
        BY <2>1, <2>4
      <3> QED BY <1>6, <2>2, <2>4, <3>1, <3>2
    <2> QED BY <2>3, <2>4
  <1>12. Listed'
    <2>1. \A u \in Tasks : \A i \in 0..(files'[u].used - 1) : files'[u].data[i] \in open'
      BY <1>11, <1>8
    <2>2. ASSUME NEW u \in Tasks, NEW v \in Tasks,
                 NEW i \in 0..(files'[u].used - 1), NEW j \in 0..(files'[v].used - 1),
                 files'[u].data[i] = files'[v].data[j]
          PROVE  u = v /\ i = j
      BY <1>11, <2>2, <1>2 DEF Base, Listed
    <2>3. ASSUME NEW c \in open'
          PROVE  \E u \in Tasks : \E i \in 0..(files'[u].used - 1) : files'[u].data[i] = c
      <3>1. CASE c = d
        <4>1. files[t].used \in 0..(files'[t].used - 1)
          BY <1>4, <1>6 DEF Types
        <4> QED BY <3>1, <4>1, <1>6
      <3>2. CASE c \in open
        <4>1. PICK u \in Tasks : \E i \in 0..(files[u].used - 1) : files[u].data[i] = c
          BY <3>2 DEF Base, Listed
        <4>2. PICK i \in 0..(files[u].used - 1) : files[u].data[i] = c
          BY <4>1
        <4>3. i \in 0..(files'[u].used - 1) /\ files'[u].data[i] = files[u].data[i]
          BY <1>4, <1>6, <1>7, FdAssumption DEF Types, Slots
        <4> QED BY <4>2, <4>3
      <3> QED BY <3>1, <3>2, <1>8
    <2> QED BY <2>1, <2>2, <2>3 DEF Listed
  <1>13. Ended'
    <2> SUFFICES ASSUME NEW u \in Tasks, NEW i \in Slots, i >= files'[u].used
                 PROVE  files'[u].data[i] = NULL
      BY DEF Ended, Slots
    <2>1. CASE u = t
      BY <2>1, <1>4, <1>6 DEF Base, Ended, Types, Slots
    <2>2. CASE u # t
      BY <2>2, <1>7 DEF Base, Ended
    <2> QED BY <2>1, <2>2
  <1>14. Counted'
    <2>1. Cardinality(open') = Cardinality(open) + 1
      BY <1>2, <1>4, <1>8, OpenFinite, FS_AddElement DEF Types
    <2>2. Cardinality(open) \in Nat /\ gft.used \in Nat
      BY <1>4, OpenFinite DEF Types
    <2> QED BY <1>5, <2>1, <2>2 DEF Base, Counted
  <1>15. RingsFirst'
    <2> SUFFICES ASSUME NEW u \in Tasks, NEW i \in 1..(files'[u].used - 1)
                 PROVE  fd'[files'[u].data[i]].opened.kind # "ring"
      BY DEF RingsFirst
    <2>1. i \in 0..(files'[u].used - 1) /\ i # 0
      OBVIOUS
    <2>2. CASE u = t /\ i = files[t].used /\ files'[u].data[i] = d
      BY <2>1, <2>2, <1>9
    <2>3. CASE i \in 0..(files[u].used - 1) /\ files'[u].data[i] = files[u].data[i]
                /\ files[u].data[i] \in open
      <3>1. i \in 1..(files[u].used - 1)
        BY <2>1, <2>3
      <3> QED BY <2>3, <3>1, <1>9 DEF Base, RingsFirst
    <2> QED BY <2>1, <2>2, <2>3, <1>11
  <1>16. ASSUME Table PROVE Table'
    <2>1. gft.used \in Slots /\ gft.used \in Nat /\ gft.used >= 1
      BY <1>4, FdAssumption DEF Types, Slots
    <2>2. \A c \in open : /\ fd[c].gft_index \in 1..(gft.used - 1)
                          /\ fd[c].gft_index \in Slots /\ fd[c].gft_index # gft.used
      BY <1>4, <1>16, FdAssumption DEF Table, Types, Slots
    <2>3. \A c \in open' : /\ fd'[c].gft_index \in 1..(gft'.used - 1)
                           /\ gft'.data[fd'[c].gft_index] \in OneRef
                           /\ gft'.data[fd'[c].gft_index].node = fd'[c].opened
      <3>1. ASSUME NEW c \in open
            PROVE  /\ fd'[c].gft_index \in 1..(gft'.used - 1)
                   /\ gft'.data[fd'[c].gft_index] = gft.data[fd[c].gft_index]
                   /\ fd'[c].opened = fd[c].opened
        BY <1>5, <1>9, <2>1, <2>2
      <3>2. /\ fd'[d].gft_index = gft.used /\ fd'[d].opened = node
        BY <1>9
      <3> QED BY <3>1, <3>2, <1>3, <1>5, <1>8, <1>16, <2>1 DEF Table
    <2>4. \A c, b \in open' : c # b => fd'[c].gft_index # fd'[b].gft_index
      BY <1>8, <1>9, <1>16, <2>1, <2>2 DEF Table
    <2>5. \A i \in 1..(gft'.used - 1) : \E c \in open' : fd'[c].gft_index = i
      <3> SUFFICES ASSUME NEW i \in 1..(gft'.used - 1) PROVE \E c \in open' : fd'[c].gft_index = i
        OBVIOUS
      <3>1. i = gft.used \/ i \in 1..(gft.used - 1)
        BY <1>5, <2>1
      <3> QED BY <3>1, <1>8, <1>9, <1>16 DEF Table
    <2> QED BY <2>3, <2>4, <2>5 DEF Table, OneRef, Node
  <1> QED BY <1>10, <1>12, <1>13, <1>14, <1>15, <1>16 DEF Base

\* What a close does to the table, stale or not: it deletes one entry at most.
LEMMA TableClosed ==
  ASSUME Types, gft.used >= 2, NEW k \in Nat, NEW g \in FdClosed(k)
  PROVE  g \in ListOf(OneRef) /\ g.used \in {gft.used, gft.used - 1}
  <1>1. gft \in ListOf(OneRef) /\ gft.used \in Nat /\ gft.used <= MaxFds + 1
    BY FdAssumption DEF Types
  <1>2. list_delete(gft, k) \in ListOf(OneRef)
          /\ list_delete(gft, k).used \in {gft.used, gft.used - 1}
    <2>1. CASE k > gft.used
      BY <1>1, <2>1 DEF list_delete
    <2>2. CASE k <= gft.used
      BY <1>1, <2>2, Deleted
    <2> QED BY <1>1, <2>1, <2>2
  <1>3. list_get(gft, k) = NULL \/ list_get(gft, k).ref_count = 1
    <2>1. CASE k <= gft.used
      <3>1. k \in Slots
        BY <1>1, <2>1, FdAssumption DEF Slots
      <3>2. gft.data[k] \in OneRef \cup {NULL}
        BY <1>1, <3>1 DEF ListOf
      <3> QED BY <1>1, <2>1, <3>2 DEF list_get, OneRef
    <2>2. CASE k > gft.used
      BY <2>2 DEF list_get
    <2> QED BY <1>1, <2>1, <2>2
  <1>4. g \in {gft, list_delete(gft, k)}
    BY <1>3 DEF FdClosed
  <1> QED BY <1>1, <1>2, <1>4

\* A close takes the descriptor off its only list, whatever entry it deletes.
LEMMA CloseStep ==
  ASSUME Base, NEW t \in Tasks, NEW n \in Slots, sys_close(t, n)
  PROVE  /\ Base'
         /\ Table /\ fd[list_get(files[t], n)].gft_index = gft.used - 1 => Table'
  <1> DEFINE d == list_get(files[t], n)
             k == fd[d].gft_index
  <1>1. /\ d # NULL /\ gft' \in FdClosed(k)
        /\ fd' = [c \in open \ {d} |-> fd[c]]
        /\ files' = [files EXCEPT ![t] = list_delete(@, n)]
        /\ made' = made
    BY DEF sys_close
  <1>2. Types
    BY DEF Base
  <1>3. /\ files[t] \in ListOf(Descriptors) /\ files[t].used \in Nat /\ files[t].used <= MaxFds + 1
        /\ gft \in ListOf(OneRef) /\ gft.used \in Nat /\ gft.used <= MaxFds + 1 /\ n \in Nat
    BY <1>2, FdAssumption DEF Types, Slots
  <1>4. n < files[t].used /\ d = files[t].data[n]
    <2>1. n <= files[t].used /\ d = files[t].data[n]
      BY <1>1, <1>3 DEF list_get
    <2>2. n # files[t].used
      BY <1>1, <2>1 DEF Base, Ended
    <2> QED BY <1>3, <2>1, <2>2
  <1>5. d \in open
    BY <1>3, <1>4 DEF Base, Listed
  <1>6. k \in Nat
    BY <1>2, <1>5 DEF Types, Descriptor
  <1> HIDE DEF d, k
  <1>7. Cardinality(open \ {d}) = Cardinality(open) - 1 /\ Cardinality(open) \in Nat
          /\ Cardinality(open \ {d}) \in Nat
    <2>1. open \in SUBSET Descriptors /\ open \ {d} \in SUBSET Descriptors
      BY <1>2 DEF Types
    <2> QED BY <1>5, <2>1, OpenFinite, FS_RemoveElement
  <1>8. gft.used >= 2
    BY <1>3, <1>7 DEF Base, Counted
  <1>9. gft' \in ListOf(OneRef) /\ gft'.used \in {gft.used, gft.used - 1}
    BY <1>1, <1>2, <1>6, <1>8, TableClosed
  <1>10. /\ files'[t] \in ListOf(Descriptors) /\ files'[t].used = files[t].used - 1
         /\ \A i \in Slots : files'[t].data[i] =
              IF n <= i /\ i < files[t].used THEN files[t].data[i + 1] ELSE files[t].data[i]
    <2>1. files'[t] = list_delete(files[t], n)
      BY <1>1, <1>2 DEF Types
    <2> QED BY <1>3, <1>4, <2>1, Deleted
  <1>11. \A u \in Tasks : u # t => files'[u] = files[u]
    BY <1>1, <1>2 DEF Types
  <1>12. open' = open \ {d} /\ \A c \in open' : fd'[c] = fd[c]
    BY <1>1 DEF open
  <1>13. Types'
    <2>1. fd' \in [open' -> Descriptor] /\ open' \subseteq Descriptors
      BY <1>1, <1>2, <1>12 DEF Types
    <2>2. files' \in [Tasks -> ListOf(Descriptors)]
      BY <1>1, <1>2, <1>10, <1>11 DEF Types
    <2>3. made' \in 0..MaxFds /\ gft'.used \in 1..(made' + 1)
      BY <1>1, <1>2, <1>8, <1>9 DEF Types
    <2>4. \A u \in Tasks : files'[u].used \in 0..made'
      BY <1>1, <1>2, <1>4, <1>10, <1>11, <1>3 DEF Types
    <2> QED BY <1>9, <2>1, <2>2, <2>3, <2>4 DEF Types, ListOf, Slots, Descriptors, Descriptor, OneRef, Node
  <1> DEFINE Old(u, i) == IF u = t /\ i >= n THEN i + 1 ELSE i
  <1>14. ASSUME NEW u \in Tasks, NEW i \in 0..(files'[u].used - 1)
         PROVE  /\ Old(u, i) \in 0..(files[u].used - 1)
                /\ files'[u].data[i] = files[u].data[Old(u, i)]
                /\ ~(u = t /\ Old(u, i) = n)
    <2>1. CASE u = t
      <3>1. i \in Nat /\ i < files[t].used - 1
        BY <2>1, <1>3, <1>10
      <3>2. i \in Slots
        BY <3>1, <1>3, FdAssumption DEF Slots
      <3>3. files'[t].data[i] = IF n <= i THEN files[t].data[i + 1] ELSE files[t].data[i]
        BY <3>1, <3>2, <1>3, <1>10
      <3> QED BY <2>1, <3>1, <3>3, <1>3, <1>4
    <2>2. CASE u # t
      BY <2>2, <1>11
    <2> QED BY <2>1, <2>2
  <1>15. n \in 0..(files[t].used - 1)
    BY <1>3, <1>4
  <1>16. \A u \in Tasks : \A i \in 0..(files'[u].used - 1) :
           files[u].data[Old(u, i)] # d /\ files[u].data[Old(u, i)] \in open
    BY <1>4, <1>14, <1>15 DEF Base, Listed
  <1>17. Listed'
    <2>1. \A u \in Tasks : \A i \in 0..(files'[u].used - 1) : files'[u].data[i] \in open'
      BY <1>12, <1>14, <1>16
    <2>2. ASSUME NEW u \in Tasks, NEW v \in Tasks,
                 NEW i \in 0..(files'[u].used - 1), NEW j \in 0..(files'[v].used - 1),
                 files'[u].data[i] = files'[v].data[j]
          PROVE  u = v /\ i = j
      <3>1. u = v /\ Old(u, i) = Old(v, j)
        <4>1. PICK a : a = Old(u, i)
          OBVIOUS
        <4>2. PICK b : b = Old(v, j)
          OBVIOUS
        <4>3. a \in 0..(files[u].used - 1) /\ b \in 0..(files[v].used - 1)
              /\ files'[u].data[i] = files[u].data[a] /\ files'[v].data[j] = files[v].data[b]
          BY <1>14, <4>1, <4>2
        <4>4. files[u].data[a] = files[v].data[b]
          BY <2>2, <4>3
        <4>5. \A x, y \in Tasks : \A p \in 0..(files[x].used - 1), q \in 0..(files[y].used - 1) :
                 files[x].data[p] = files[y].data[q] => x = y /\ p = q
          BY DEF Base, Listed
        <4>6. u = v /\ a = b
          BY <4>3, <4>4, <4>5
        <4> QED BY <4>1, <4>2, <4>6
      <3>2. i \in Int /\ j \in Int
        OBVIOUS
      <3> QED BY <3>1, <3>2, <1>3
    <2>3. ASSUME NEW c \in open'
          PROVE  \E u \in Tasks : \E i \in 0..(files'[u].used - 1) : files'[u].data[i] = c
      <3>1. PICK u \in Tasks : \E i \in 0..(files[u].used - 1) : files[u].data[i] = c
        BY <1>12 DEF Base, Listed
      <3>2. PICK i \in 0..(files[u].used - 1) : files[u].data[i] = c
        BY <3>1
      <3>3. ~(u = t /\ i = n)
        BY <3>2, <1>4, <1>12
      <3> DEFINE j == IF u = t /\ i > n THEN i - 1 ELSE i
      <3>4. i \in Int /\ files[u].used \in Nat /\ (u = t => files'[u].used = files[u].used - 1)
              /\ (u # t => files'[u].used = files[u].used)
        BY <1>2, <1>10, <1>11 DEF Types
      <3>5. j \in 0..(files'[u].used - 1)
        BY <3>3, <3>4, <1>3, <1>4
      <3>6. Old(u, j) = i
        BY <3>3, <3>4, <1>3
      <3>7. files'[u].data[j] = c
        BY <3>2, <3>5, <3>6, <1>14
      <3> QED BY <3>5, <3>7
    <2> QED BY <2>1, <2>2, <2>3 DEF Listed
  <1>18. Ended'
    <2> SUFFICES ASSUME NEW u \in Tasks, NEW i \in Slots, i >= files'[u].used
                 PROVE  files'[u].data[i] = NULL
      BY DEF Ended, Slots
    <2>1. CASE u = t
      <3>1. \A j \in Slots : j >= files[t].used => files[t].data[j] = NULL
        BY DEF Base, Ended
      <3>2. i >= files[t].used - 1 /\ i \in Nat
        BY <2>1, <1>10 DEF Slots
      <3>3. CASE i = files[t].used - 1
        <4>1. i + 1 \in Slots
          BY <1>3, <3>2, <3>3, FdAssumption DEF Slots
        <4>2. files[t].data[i + 1] = NULL
          BY <1>3, <3>1, <3>2, <3>3, <4>1
        <4> QED BY <2>1, <3>2, <3>3, <4>2, <1>3, <1>4, <1>10
      <3>4. CASE i >= files[t].used
        BY <2>1, <3>1, <3>4, <1>3, <1>10, <3>2
      <3> QED BY <1>3, <3>2, <3>3, <3>4
    <2>2. CASE u # t
      BY <2>2, <1>11 DEF Base, Ended
    <2> QED BY <2>1, <2>2
  <1>19. Counted'
    BY <1>3, <1>7, <1>9, <1>12 DEF Base, Counted
  <1>20. RingsFirst'
    <2> SUFFICES ASSUME NEW u \in Tasks, NEW i \in 1..(files'[u].used - 1)
                 PROVE  fd'[files'[u].data[i]].opened.kind # "ring"
      BY DEF RingsFirst
    <2>1. i \in 0..(files'[u].used - 1) /\ i \in Nat /\ i >= 1
      OBVIOUS
    <2>2. Old(u, i) \in 1..(files[u].used - 1)
      BY <2>1, <1>14
    <2>3. files'[u].data[i] = files[u].data[Old(u, i)] /\ files'[u].data[i] \in open'
      BY <2>1, <1>12, <1>14, <1>16
    <2> HIDE DEF Old
    <2> QED BY <2>2, <2>3, <1>12 DEF Base, RingsFirst
  <1>21. ASSUME Table, k = gft.used - 1 PROVE Table'
    <2>1. k \in 1..(gft.used - 1) /\ gft.data[k] \in OneRef
      BY <1>5, <1>21 DEF Table, k
    <2>2. gft' = list_delete(gft, k)
      <3>1. list_get(gft, k) = gft.data[k]
        BY <1>3, <2>1 DEF list_get
      <3>2. gft.data[k] # NULL /\ gft.data[k].ref_count = 1
        BY <2>1, NullAssumption DEF OneRef, Entry
      <3> QED BY <1>1, <3>1, <3>2 DEF FdClosed
    <2>3. gft'.used = gft.used - 1 /\ \A i \in 0..(gft.used - 2) : gft'.data[i] = gft.data[i]
      <3>1. /\ gft'.used = gft.used - 1
            /\ \A i \in Slots : gft'.data[i] =
                 IF k <= i /\ i < gft.used THEN gft.data[i + 1] ELSE gft.data[i]
        <4>1. 1 <= gft.used /\ k <= gft.used
          BY <1>3, <1>8, <2>1
        <4> QED BY <1>3, <1>6, <2>2, <4>1, Deleted
      <3>2. \A i \in 0..(gft.used - 2) : i \in Slots /\ ~(k <= i)
        BY <1>3, <1>21, FdAssumption DEF Slots
      <3> QED BY <3>1, <3>2
    <2>4. \A c \in open' : c \in open /\ fd[c].gft_index # k
      BY <1>5, <1>12, <1>21 DEF Table, k
    <2>5. \A c \in open' : fd[c].gft_index \in 1..(gft.used - 2)
      <3>1. \A c \in open' : fd[c].gft_index \in 1..(gft.used - 1)
        BY <2>4, <1>21 DEF Table
      <3>2. \A c \in open' : fd[c].gft_index # gft.used - 1
        BY <2>4, <1>21
      <3> QED BY <3>1, <3>2, <1>3
    <2>6. \A c \in open' : /\ fd'[c].gft_index \in 1..(gft'.used - 1)
                           /\ gft'.data[fd'[c].gft_index] = gft.data[fd[c].gft_index]
      BY <2>5, <2>3, <1>3, <1>12
    <2>7. \A i \in 1..(gft'.used - 1) : \E c \in open' : fd'[c].gft_index = i
      <3> SUFFICES ASSUME NEW i \in 1..(gft'.used - 1)
                   PROVE  \E c \in open' : fd'[c].gft_index = i
        OBVIOUS
      <3>1. i \in 1..(gft.used - 1) /\ i # k
        BY <1>3, <1>21, <2>3
      <3>2. PICK c \in open : fd[c].gft_index = i
        BY <3>1, <1>21 DEF Table
      <3>3. c # d
        BY <3>1, <3>2 DEF k
      <3> QED BY <3>2, <3>3, <1>12
    <2> QED BY <2>4, <2>6, <2>7, <1>12, <1>21 DEF Table, OneRef, Node
  <1> QED BY <1>13, <1>17, <1>18, <1>19, <1>20, <1>21 DEF Base, d, k

\* Until an entry is moved, a read that finds a ring buffer reads descriptor 0.
LEMMA RingIsZero ==
  ASSUME Base, Table, NEW t \in Tasks, NEW n \in Slots, sys_read(t, n) PROVE FALSE
  <1> DEFINE d == list_get(files[t], n)
             e == list_get(gft, fd[d].gft_index)
  <1>1. d # NULL /\ e.node.kind = "ring" /\ n # 0
    BY DEF sys_read
  <1>2. files[t].used \in Nat /\ n \in Nat /\ gft.used \in Nat
    BY DEF Base, Types, Slots
  <1>3. n < files[t].used /\ d = files[t].data[n]
    <2>1. n <= files[t].used /\ d = files[t].data[n]
      <3>1. ~(n > files[t].used) /\ d = files[t].data[n]
        BY <1>1, Zenon DEF list_get
      <3> QED BY <1>2, <3>1
    <2>2. n # files[t].used
      BY <1>1, <2>1 DEF Base, Ended
    <2> QED BY <1>2, <2>1, <2>2
  <1>4. n \in 1..(files[t].used - 1) /\ n \in 0..(files[t].used - 1)
    BY <1>1, <1>2, <1>3
  <1>5. d \in open /\ fd[d].opened.kind # "ring"
    BY <1>3, <1>4 DEF Base, Listed, RingsFirst
  <1>6. e = gft.data[fd[d].gft_index]
    BY <1>2, <1>5 DEF list_get, Table
  <1> QED BY <1>1, <1>5, <1>6 DEF Table

\* Every call preserves the invariant; the calls that use a slot past the end
\* leave it.
LEMMA FileNext == FileInv /\ [Next]_vars => FileInv'
  <1> SUFFICES ASSUME FileInv, [Next]_vars PROVE FileInv'
    OBVIOUS
  <1>1. CASE UNCHANGED vars
    BY <1>1 DEF vars, FileInv, Base, Types, Listed, Ended, Counted, RingsFirst, Started, Table, open
  <1>2. ASSUME NEW t \in Tasks, TaskStep(t), ~deaf PROVE FileInv'
    <2>1. ASSUME NEW node \in Node, NEW reads \in BOOLEAN, fd_open(t, node, reads),
                 node.kind = "ring" => stdio[t] = 0, Started => stdio' \in [Tasks -> Nat],
                 stdio'[t] # 0, \A u \in Tasks : u # t => stdio'[u] = stdio[u]
          PROVE  FileInv'
      <3>1. shifted' = shifted /\ past_end' = past_end /\ deaf' = deaf
        BY <2>1 DEF fd_open
      <3>2. ASSUME Base, Started PROVE Base' /\ (Table => Table')
        BY <2>1, <3>2, OpenStep DEF Started
      <3>3. ASSUME Base, Started PROVE Started'
        <4>1. \A u \in Tasks : u # t => files'[u] = files[u]
          BY <2>1, <3>3 DEF fd_open, Base, Types
        <4> QED BY <4>1, <2>1, <3>3 DEF Started
      <3> QED BY <3>1, <3>2, <3>3 DEF FileInv
    <2>2. CASE ktask_create(t)
      <3>1. CASE ~past_end
        <4>1. Started
          BY <3>1 DEF FileInv
        <4>2. /\ stdio' \in [Tasks -> Nat] /\ stdio'[t] # 0
              /\ \A u \in Tasks : u # t => stdio'[u] = stdio[u]
          BY <2>2, <4>1 DEF ktask_create, Started
        <4>3. CASE stdio[t] = 0
          <5>1. fd_open(t, Ring(t), TRUE) /\ Ring(t) \in Node
            BY <2>2, <4>3 DEF ktask_create, Node
          <5> QED BY <2>1, <4>2, <4>3, <5>1
        <4>4. CASE stdio[t] # 0
          <5>1. fd_open(t, Console, FALSE) /\ Console \in Node /\ Console.kind # "ring"
            BY <2>2, <4>4 DEF ktask_create, Node, Console
          <5> QED BY <2>1, <4>2, <5>1
        <4> QED BY <4>3, <4>4
      <3>2. CASE past_end
        <4>1. shifted' = shifted /\ past_end' = past_end
          BY <2>2 DEF ktask_create, fd_open
        <4> QED BY <3>2, <4>1 DEF FileInv
      <3> QED BY <3>1, <3>2
    <2>3. CASE sys_open(t)
      <3>1. PICK f \in Files, reads \in BOOLEAN : fd_open(t, File(f), reads)
        BY <2>3 DEF sys_open
      <3>2. File(f) \in Node /\ File(f).kind # "ring"
        BY DEF Node, File
      <3>3. stdio[t] = 3 /\ stdio' = stdio
        BY <2>3 DEF sys_open
      <3> QED BY <2>1, <3>1, <3>2, <3>3 DEF Started
    <2>4. ASSUME NEW n \in Slots, sys_close(t, n) PROVE FileInv'
      <3>1. /\ shifted' \in BOOLEAN /\ past_end' \in BOOLEAN /\ deaf' = deaf
            /\ (shifted => shifted') /\ (past_end => past_end')
        BY <2>4, Zenon DEF sys_close, FileInv
      <3>2. ~shifted' => fd[list_get(files[t], n)].gft_index = gft.used - 1
        BY <2>4, Zenon DEF sys_close
      <3>3. ASSUME Base, Started PROVE Started'
        <4>1. \A u \in Tasks : u # t => files'[u] = files[u]
          BY <2>4, <3>3 DEF sys_close, Base, Types
        <4>2. stdio' = stdio /\ stdio[t] = 3
          BY <2>4 DEF sys_close
        <4> QED BY <4>1, <4>2, <3>3 DEF Started
      <3>4. ASSUME Base PROVE Base' /\ (Table /\ ~shifted' => Table')
        BY <2>4, <3>2, <3>4, CloseStep
      <3> QED BY <3>1, <3>3, <3>4, <1>2 DEF FileInv
    <2>5. CASE sys_close_past_end(t)
      BY <2>5 DEF sys_close_past_end, FileInv
    <2>6. ASSUME NEW n \in Slots, sys_read(t, n) PROVE FileInv'
      <3>1. UNCHANGED <<gft, files, fd, made, stdio, shifted, past_end>>
        BY <2>6 DEF sys_read
      <3>2. (Base' <=> Base) /\ (Table' <=> Table) /\ (Started' <=> Started)
        BY <3>1 DEF Base, Types, Listed, Ended, Counted, RingsFirst, Started, Table, open
      <3>3. ~(~shifted /\ ~past_end)
        BY <2>6, RingIsZero DEF FileInv
      <3> QED BY <3>1, <3>2, <3>3 DEF FileInv
    <2> QED BY <1>2, <2>2, <2>3, <2>4, <2>5, <2>6 DEF TaskStep
  <1> QED BY <1>1, <1>2 DEF Next

\* Until an entry of the global file table is moved, every open descriptor
\* resolves to the node it was opened on, and no slot is shared or leaked.
THEOREM Resolution == Spec => []Resolves
  <1>1. FileInv => Resolves
    BY NullAssumption DEF FileInv, Table, Resolves, OneRef, Entry
  <1> QED BY FileInit, FileNext, <1>1, PTL DEF Spec

\* Until an entry is moved, no read waits for the keyboard with interrupts
\* disabled: only descriptor 0 of a task can lead to a ring buffer.
THEOREM NotDeaf == Spec => []DeafOnlyIfShifted
  <1>1. FileInv => DeafOnlyIfShifted
    BY DEF FileInv, DeafOnlyIfShifted
  <1> QED BY FileInit, FileNext, <1>1, PTL DEF Spec

\* The descriptors on a task's list are as many as the list is long.
LEMMA HeldCount ==
  ASSUME Base, NEW t \in Tasks PROVE Cardinality(Held(t)) = files[t].used
  <1> DEFINE I == 0..(files[t].used - 1)
             f == [i \in I |-> files[t].data[i]]
  <1>1. files[t].used \in Nat
    BY DEF Base, Types
  <1>2. IsFiniteSet(I) /\ Cardinality(I) = files[t].used
    <2>1. 0 \in Int /\ files[t].used - 1 \in Int
      BY <1>1
    <2>2. /\ IsFiniteSet(I)
          /\ Cardinality(I) = IF 0 > files[t].used - 1 THEN 0 ELSE (files[t].used - 1) - 0 + 1
      BY ONLY <2>1, FS_Interval
    <2> QED BY <1>1, <2>2
  <1>3. Held(t) = {files[t].data[i] : i \in I}
    BY DEF Held
  <1>4. \A i, j \in I : files[t].data[i] = files[t].data[j] => i = j
    BY DEF Base, Listed
  <1> HIDE DEF I
  <1>5. f \in [I -> Held(t)] /\ \A i, j \in I : f[i] = f[j] => i = j
    BY <1>3, <1>4
  <1>6. \A h \in Held(t) : \E i \in I : f[i] = h
    BY <1>3
  <1>7. f \in Bijection(I, Held(t))
    BY <1>5, <1>6 DEF Bijection, Injection, Surjection, IsInjective
  <1> QED BY <1>2, <1>7, FS_Bijection DEF ExistsBijection

\* Whatever entries stale indices have closed, the table has a slot for every
\* open descriptor, and every open descriptor is on one list, at one place.
THEOREM ListsStayRight == Spec => []ListsRight
  <1>1. FileInv => ListsRight
    <2> SUFFICES ASSUME Base PROVE ListsRight
      BY DEF FileInv, ListsRight, OneSlotPerOpen, ListsHoldOpen
    <2>1. OneSlotPerOpen
      BY DEF OneSlotPerOpen, Base, Counted
    <2>2. \A t \in Tasks : Held(t) \subseteq open /\ Cardinality(Held(t)) = files[t].used
      BY HeldCount DEF Held, Base, Listed
    <2>3. open \subseteq UNION {Held(t) : t \in Tasks}
      BY DEF Base, Listed, Held
    <2>4. \A t, u \in Tasks : t # u => Held(t) \cap Held(u) = {}
      BY DEF Base, Listed, Held
    <2> QED BY <2>1, <2>2, <2>3, <2>4 DEF ListsRight, ListsHoldOpen
  <1> QED BY FileInit, FileNext, <1>1, PTL DEF Spec

----------------------------------------------------------------------------
(* The contents of a tmpfs file *)

\* The smaller of two numbers.
LEMMA MinTwo == ASSUME NEW a \in Int, NEW b \in Int PROVE Min({a, b}) = IF a <= b THEN a ELSE b
  BY DEF Min

\* The greater of two numbers.
LEMMA MaxTwo == ASSUME NEW a \in Int, NEW b \in Int PROVE Max({a, b}) = IF a <= b THEN b ELSE a
  BY DEF Max

\* A file written once holds that write and nothing else; the memory of the
\* larger of two writes holds both.
TmpInv ==
  /\ sizes \in Seq(1..MaxWrite)
  /\ spill \in BOOLEAN /\ stray \in BOOLEAN
  /\ Len(sizes) = 0 => tmem = <<>> /\ tsize = 0 /\ ~stray
  /\ Len(sizes) = 1 => tsize = sizes[1] /\ tmem = [i \in 1..sizes[1] |-> 1] /\ ~stray
  /\ TwoWritesFit /\ ReadsBack

\* The block krealloc returns has the length asked for.
LEMMA ReallocLength ==
  ASSUME NEW n \in Nat, NEW s \in Seq(Nat)
  PROVE  krealloc(s, n) \in Seq(Nat) /\ Len(krealloc(s, n)) = n
  <1>1. Zeros(n) \in Seq(Nat) /\ Len(Zeros(n)) = n
    BY SMT DEF Zeros
  <1> HIDE DEF Zeros
  <1>2. s \o Zeros(n) \in Seq(Nat) /\ Len(s \o Zeros(n)) = Len(s) + n
    BY <1>1, ConcatProperties
  <1>3. Len(s) \in Nat
    BY LenProperties
  <1>4. /\ \A i \in 1..n : i \in 1..Len(s \o Zeros(n))
        /\ krealloc(s, n) = SubSeq(s \o Zeros(n), 1, n)
    BY <1>2, <1>3 DEF krealloc
  <1> HIDE DEF krealloc
  <1> QED BY <1>2, <1>4, SubSeqProperties

\* A write that finds the memory large enough, or makes it so.
LEMMA WriteKeeps ==
  ASSUME TmpInv, NEW n \in 1..MaxWrite, tmpfs_vfs_write(n)
  PROVE  TmpInv'
  <1> DEFINE fresh == IF tmem = <<>> THEN Zeros(n) ELSE tmem
             mem == IF tsize < n THEN krealloc(fresh, n) ELSE fresh
             k == Len(sizes) + 1
  <1>1. /\ tmem' = [i \in DOMAIN mem |-> IF i <= n THEN k ELSE mem[i]]
        /\ spill' = (spill \/ n > Len(mem))
        /\ stray' = (stray \/ (tsize < n /\ n > Len(fresh)))
        /\ tsize' = tsize + n /\ sizes' = Append(sizes, n) /\ tread' = <<>>
    BY DEF tmpfs_vfs_write
  <1>2. /\ sizes' \in Seq(1..MaxWrite) /\ Len(sizes') = k /\ Len(sizes) \in Nat
        /\ sizes'[k] = n
    BY <1>1, AppendProperties, LenProperties DEF TmpInv
  <1>3. Zeros(n) \in Seq(Nat) /\ Len(Zeros(n)) = n /\ DOMAIN Zeros(n) = 1..n
    BY SMT DEF Zeros
  <1>4. n \in Nat /\ n >= 1
    BY TmpConstants
  <1>5. spill' \in BOOLEAN /\ stray' \in BOOLEAN /\ ReadsBack'
    BY <1>1 DEF TmpInv, ReadsBack
  <1>6. CASE Len(sizes) = 0
    <2>1. fresh = Zeros(n) /\ tsize = 0
      BY <1>6 DEF TmpInv
    <2>2. mem = krealloc(Zeros(n), n) /\ mem \in Seq(Nat) /\ Len(mem) = n
      BY <1>3, <1>4, <2>1, ReallocLength
    <2>3. DOMAIN mem = 1..n
      BY <2>2, LenProperties
    <2> HIDE DEF mem, fresh
    <2>4. tmem' = [i \in 1..n |-> 1]
      BY <1>1, <1>4, <1>6, <2>3
    <2>5. ~stray'
      BY <1>1, <1>3, <1>4, <1>6, <2>1 DEF TmpInv
    <2>6. TwoWritesFit'
      BY <1>1, <1>2, <1>4, <1>6, <2>2 DEF TmpInv, TwoWritesFit
    <2> QED BY <1>1, <1>2, <1>4, <1>5, <1>6, <2>1, <2>4, <2>5, <2>6 DEF TmpInv
  <1>7. CASE Len(sizes) = 1
    <2>1. sizes[1] \in Nat /\ sizes[1] >= 1
      <3>1. sizes[1] \in 1..MaxWrite
        <4>1. sizes \in Seq(1..MaxWrite) /\ 1 \in 1..Len(sizes)
          BY <1>7 DEF TmpInv
        <4> QED BY <4>1, ElementOfSeq
      <3> QED BY <3>1, TmpConstants
    <2>2. tsize = sizes[1] /\ tmem = [i \in 1..tsize |-> 1]
      BY <1>7 DEF TmpInv
    <2>3. tmem \in Seq(Nat) /\ Len(tmem) = tsize
      BY <2>1, <2>2, SMT
    <2>4. fresh = tmem
      BY <2>1, <2>2, <2>3
    <2>5. n <= Len(mem)
      BY <1>4, <2>1, <2>2, <2>3, <2>4, ReallocLength
    <2> HIDE DEF mem, fresh
    <2>6. TwoWritesFit'
      BY <1>1, <1>2, <1>4, <1>7, <2>3, <2>5 DEF TmpInv, TwoWritesFit
    <2> QED BY <1>2, <1>5, <1>7, <2>6 DEF TmpInv
  <1>8. CASE Len(sizes) > 1
    BY <1>2, <1>5, <1>8 DEF TmpInv, TwoWritesFit
  <1>9. Len(sizes) = 0 \/ Len(sizes) = 1 \/ Len(sizes) > 1
    <2>1. \A i \in Nat : i = 0 \/ i = 1 \/ i > 1
      OBVIOUS
    <2> QED BY <1>2, <2>1, Zenon
  <1> QED BY <1>6, <1>7, <1>8, <1>9

\* A read changes the contents nowhere, and of a file written once it returns
\* what it counts.
LEMMA ReadKeeps ==
  ASSUME TmpInv, NEW offset \in 0..1, NEW n \in 1..MaxWrite, tmpfs_vfs_read(offset, n)
  PROVE  TmpInv'
  <1> DEFINE count == IF offset >= tsize THEN 0 ELSE ReadSize(offset, n)
  <1>1. /\ stray' = (stray \/ (count > 0 /\ offset + count > Len(tmem)))
        /\ tread' = <<offset, SubSeq(tmem, offset + 1, Min({offset + count, Len(tmem)})), count>>
        /\ UNCHANGED <<tsize, tmem, sizes, spill>>
    BY DEF tmpfs_vfs_read
  <1>2. offset \in Nat /\ n \in Nat /\ n >= 1
    BY TmpConstants
  <1>3. TwoWritesFit' /\ stray' \in BOOLEAN
    BY <1>1 DEF TmpInv, TwoWritesFit
  <1>4. CASE Len(sizes) = 1
    <2> PICK s : s = sizes[1]
      OBVIOUS
    <2>1. s \in Nat /\ s >= 1
      <3>1. sizes[1] \in 1..MaxWrite
        <4>1. sizes \in Seq(1..MaxWrite) /\ 1 \in 1..Len(sizes)
          BY <1>4 DEF TmpInv
        <4> QED BY <4>1, ElementOfSeq
      <3> QED BY <3>1, TmpConstants
    <2>2. tsize = s /\ tmem = [i \in 1..s |-> 1] /\ ~stray
      BY <1>4 DEF TmpInv
    <2>3. tmem \in Seq(Nat) /\ Len(tmem) = s /\ \A i \in 1..s : tmem[i] = 1
      BY <2>1, <2>2, SMT
    <2> PICK c : c = count
      OBVIOUS
    <2>4. c \in Nat /\ (offset >= s => c = 0) /\ (offset < s => offset + c <= s)
      BY <1>2, <2>1, <2>2 DEF ReadSize
    <2>13. /\ stray' = (stray \/ (c > 0 /\ offset + c > s))
           /\ tread' = <<offset, SubSeq(tmem, offset + 1, Min({offset + c, s})), c>>
      BY <1>1, <2>3
    <2> HIDE DEF count
    <2>5. Min({offset + c, s}) = IF offset >= s THEN s ELSE offset + c
      BY <1>2, <2>1, <2>4, MinTwo
    <2>6. Max({0, s - offset}) = IF offset >= s THEN 0 ELSE s - offset
      BY <1>2, <2>1, MaxTwo
    <2>7. Min({c, Max({0, s - offset})}) = c
      <3> PICK m : m = Max({0, s - offset})
        OBVIOUS
      <3>1. m \in Int /\ c \in Int /\ c <= m
        BY <1>2, <2>1, <2>4, <2>6
      <3>2. Min({c, m}) = c
        BY <3>1, MinTwo
      <3> QED BY <3>2
    <2>8. SubSeq(tmem, offset + 1, Min({offset + c, s})) = [i \in 1..c |-> 1]
      <3>1. CASE offset >= s
        <4>1. SubSeq(tmem, offset + 1, s) = <<>>
          BY <1>2, <2>1, <3>1, SubSeqEmpty
        <4>2. c = 0 /\ Min({offset + c, s}) = s
          BY <2>4, <2>5, <3>1
        <4>3. [i \in 1..0 |-> 1] = <<>>
          OBVIOUS
        <4> QED BY <4>1, <4>2, <4>3
      <3>2. CASE offset < s
        <4> DEFINE t == SubSeq(tmem, offset + 1, offset + c)
        <4>1. \A i \in (offset + 1)..(offset + c) : i \in 1..Len(tmem)
          BY <1>2, <2>1, <2>3, <2>4, <3>2
        <4>2. /\ t \in Seq(Nat) /\ Len(t) = c
              /\ \A i \in 1..c : t[i] = tmem[offset + i]
          BY <1>2, <2>1, <2>3, <2>4, <3>2, <4>1, SubSeqProperties
        <4>3. t \in [1..c -> Nat] /\ \A i \in 1..c : t[i] = 1
          <5>1. \A i \in 1..c : t[i] = 1
            BY <1>2, <2>1, <2>3, <2>4, <3>2, <4>2
          <5> HIDE DEF t
          <5>2. t \in [1..Len(t) -> Nat]
            BY <4>2, LenProperties
          <5> QED BY <4>2, <5>1, <5>2
        <4>4. t = [i \in 1..c |-> 1]
          <5> HIDE DEF t
          <5> QED BY <4>3
        <4>5. Min({offset + c, s}) = offset + c
          BY <1>2, <2>1, <2>5, <3>2
        <4> QED BY <4>4, <4>5
      <3>3. offset >= s \/ offset < s
        BY <1>2, <2>1
      <3> QED BY <3>1, <3>2, <3>3
    <2>9. ~stray'
      <3>1. ~(c > 0 /\ offset + c > s)
        BY <1>2, <2>1, <2>4
      <3> QED BY <2>2, <2>13, <3>1
    <2>10. tread' = <<offset, [i \in 1..c |-> 1], c>>
      BY <2>8, <2>13
    <2>11. Len([i \in 1..c |-> 1]) = c
      BY <2>4, SMT
    <2>12. ReadsBack'
      <3>1. tread'[1] = offset /\ tread'[2] = [i \in 1..c |-> 1] /\ tread'[3] = c
        BY <2>10
      <3>2. sizes'[1] = s
        BY <1>1
      <3> QED BY <2>7, <2>9, <2>11, <3>1, <3>2 DEF ReadsBack
    <2> QED BY <1>1, <1>3, <1>4, <2>2, <2>9, <2>12 DEF TmpInv
  <1>5. CASE Len(sizes) = 0
    <2>1. count = 0 /\ stray' = stray
      BY <1>1, <1>2, <1>5 DEF TmpInv
    <2> QED BY <1>1, <1>3, <1>5, <2>1 DEF TmpInv, ReadsBack
  <1>6. CASE Len(sizes) # 0 /\ Len(sizes) # 1
    BY <1>1, <1>3, <1>6 DEF TmpInv, ReadsBack
  <1> QED BY <1>4, <1>5, <1>6

\* Whatever the sizes and the order of writes and reads: what is read of a file
\* written once is what was written, and two writes stay within its memory.
THEOREM TmpStaysRight == TmpSpec => []TmpRight
  <1>1. TmpInit => TmpInv
    <2>1. <<>> \in Seq(1..MaxWrite) /\ Len(<<>>) = 0
      BY EmptySeq, Zenon
    <2>2. TmpInit => TwoWritesFit /\ ReadsBack
      BY DEF TmpInit, TwoWritesFit, ReadsBack
    <2>3. TmpInit => /\ sizes \in Seq(1..MaxWrite) /\ Len(sizes) = 0 /\ tmem = <<>> /\ tsize = 0
                     /\ spill \in BOOLEAN /\ stray \in BOOLEAN /\ ~stray
      BY <2>1, Zenon DEF TmpInit
    <2>4. 0 # 1
      OBVIOUS
    <2> QED BY <2>2, <2>3, <2>4, Zenon DEF TmpInv
  <1>2. TmpInv /\ [TmpNext]_tmpVars => TmpInv'
    <2>1. TmpInv /\ UNCHANGED tmpVars => TmpInv'
      BY DEF tmpVars, TmpInv, TwoWritesFit, ReadsBack
    <2> QED BY <2>1, WriteKeeps, ReadKeeps DEF TmpNext
  <1>3. TmpInv => TmpRight
    BY DEF TmpInv, TmpRight
  <1> QED BY <1>1, <1>2, <1>3, PTL DEF TmpSpec

----------------------------------------------------------------------------
(* The disk *)

Calls == {"prepare", "command", "check", "data", "done"}
CallRec == [pc : Calls, offset : Nat, size : Nat \ {0}, start : Nat, n : Nat \ {0},
            buf : Seq(Nat) \cup {"garbage"}]
IdleCall == [pc |-> "idle"]
Under(t) == call[t].pc \notin {"idle", "done"}

\* The probe: what is present among the drives done with, and that the drive it
\* polls has not answered in the polls it was given before the soft reset.
ProbeInv ==
    /\ bus \in [Drives -> [kind : Kinds, polls : Nat]]
    /\ probe \in [drive : Nat, pc : {"reset", "identify", "poll"}, timeout : Nat, polls : Nat]
    /\ probe.timeout > 0 /\ probe.timeout + probe.polls = Timeout
    /\ probe.pc # "reset" => probe.drive \in Drives
    /\ probe.pc # "poll" => probe.polls = 0
    /\ probe.pc = "poll" => probe.polls <= Here.polls \/ Here.polls >= Timeout - ResetAt
    /\ probe.pc = "poll" => Here.kind # "none"
    /\ present = {d \in Drives : /\ d < probe.drive
                                 /\ bus[d].kind = "ata" /\ bus[d].polls < Timeout - ResetAt}

\* the sectors a call asks for
Geometry(r) == /\ r.start = r.offset \div Bytes
               /\ r.n = (r.offset + r.size) \div Bytes - r.start + 1

\* a call that is not idle: its types, its sectors, and bytes in its buffer
CallGood(r) == r \in CallRec /\ Geometry(r) /\ (r.pc # "done" => r.buf \in Seq(Nat))

\* what a call has read when the drive is at a sector: everything before it
Filled(r, lba) ==
    /\ lba >= r.start
    /\ r.buf \in Seq(Nat) /\ Len(r.buf) = Bytes * (lba - r.start)
    /\ \A i \in 1 .. Len(r.buf) : r.buf[i] = Bytes * r.start + i - 1

\* what a call hands out
Wanted(r) == [i \in 1 .. r.size |-> r.offset + i - 1]

\* The call under way and the drive: the registers and the command carry its
\* sectors, the buffer holds those read, and the drive has no more of them to
\* give than the call will take.
CallInv(t) ==
    LET r == call[t] IN
    /\ r.pc \in {"prepare", "command", "check"} => r.buf = <<>>
    /\ r.pc = "command" => regs.lba = r.start /\ regs.count = r.n % CountMod
    /\ r.pc \in {"check", "data"} /\ dev.st \in {"busy", "drq"} =>
         /\ Filled(r, dev.lba)
         /\ dev.left >= 1 /\ dev.lba + dev.left <= r.start + r.n
    /\ r.pc = "done" => r.buf = "garbage" \/ r.buf = Wanted(r)

\* Without an overlap one call is under way at most, and without one under way, or
\* with one that waits for the drive, the drive has nothing to give.
ReadTypes ==
    /\ call \in [Readers -> {IdleCall} \cup CallRec]
    /\ \A t \in Readers : call[t].pc # "idle" => CallGood(call[t])
    /\ dev \in [st : {"idle", "busy", "drq", "err", "abrt"}, lba : Nat, left : Nat]
    /\ regs \in [lba : Nat, count : Nat]
    /\ mixed \in BOOLEAN
Alone == \A t, u \in Readers : Under(t) /\ Under(u) => t = u
ReadInv == ~mixed => Alone /\ Drained /\ \A t \in Readers : CallInv(t)

AtaInv == ProbeInv /\ ReadTypes /\ ReadInv

----------------------------------------------------------------------------
(* The probe *)

\* The constants' part that the probe needs.
LEMMA ProbeConstants ==
    /\ ResetAt \in Nat /\ ResetAt > 0 /\ Timeout \in Nat /\ ResetAt < Timeout
    /\ Drives \subseteq Nat
    /\ \A a \in Nat, b \in Drives : a <= b => a \in Drives
<1>1. PICK last \in 0 .. 3 : Drives = 0 .. last
  BY AtaConstants
<1> QED BY <1>1, AtaConstants

\* The next drive is taken when the last one has answered, or will not any more.
LEMMA NextStep ==
    ASSUME ProbeInv, bus' = bus, probe.drive \in Drives,
           probe' = NextDrive(probe.drive),
           present' = present \cup
               (IF Here.kind = "ata" /\ Here.polls < Timeout - ResetAt THEN {probe.drive} ELSE {})
    PROVE  ProbeInv'
<1>1. probe.drive \in Nat /\ probe.drive + 1 \in Nat /\ Timeout \in Nat /\ Timeout > 0
  BY ProbeConstants DEF ProbeInv
<1>2. /\ probe'.drive = probe.drive + 1 /\ probe'.pc = "reset" /\ probe'.timeout = Timeout
      /\ probe'.polls = 0
      /\ probe' \in [drive : Nat, pc : {"reset", "identify", "poll"}, timeout : Nat, polls : Nat]
  BY <1>1 DEF NextDrive
<1>3. present' = {d \in Drives : /\ d < probe.drive + 1
                                 /\ bus[d].kind = "ata" /\ bus[d].polls < Timeout - ResetAt}
  <2>1. \A d \in Drives : d < probe.drive + 1 <=> d < probe.drive \/ d = probe.drive
    BY <1>1, ProbeConstants
  <2>2. present = {d \in Drives : /\ d < probe.drive
                                  /\ bus[d].kind = "ata" /\ bus[d].polls < Timeout - ResetAt}
    BY DEF ProbeInv
  <2> QED BY <2>1, <2>2 DEF Here
<1>4. bus' \in [Drives -> [kind : Kinds, polls : Nat]]
  BY DEF ProbeInv
<1> QED BY <1>1, <1>2, <1>3, <1>4 DEF ProbeInv

\* ATA_init keeps ProbeInv.
LEMMA ProbeStep == ProbeInv /\ AtaProbe => ProbeInv'
<1> SUFFICES ASSUME ProbeInv, AtaProbe PROVE ProbeInv'
  OBVIOUS
<1> DEFINE P == [drive : Nat, pc : {"reset", "identify", "poll"}, timeout : Nat, polls : Nat]
<1>0. probe \in P /\ Timeout \in Nat /\ ResetAt \in Nat
  BY ProbeConstants DEF ProbeInv
<1>1. CASE ata_select
  <2>1. probe' = [probe EXCEPT !.pc = "identify"] /\ bus' = bus /\ present' = present
        /\ probe.drive \in Drives /\ probe.pc = "reset"
    BY <1>1 DEF ata_select
  <2>2. probe' \in P
    BY <1>0, <2>1, Zenon
  <2>3. probe'.pc = "identify" /\ probe'.drive = probe.drive /\ probe'.timeout = probe.timeout
        /\ probe'.polls = probe.polls
    BY <1>0, <2>1
  <2> HIDE DEF P
  <2> QED BY <2>1, <2>2, <2>3 DEF ProbeInv, P
<1>2. CASE ata_identify
  <2>1. bus' = bus /\ present' = present /\ probe.pc = "identify" /\ probe.drive \in Drives
    BY <1>2 DEF ata_identify, ProbeInv
  <2>2. CASE Here.kind = "none"
    <3>1. probe' = NextDrive(probe.drive)
      BY <1>2, <2>2 DEF ata_identify
    <3> QED BY <2>1, <2>2, <3>1, NextStep
  <2>3. CASE Here.kind # "none"
    <3>1. probe' = [probe EXCEPT !.pc = "poll"]
      BY <1>2, <2>3 DEF ata_identify
    <3>2. probe' \in P
      BY <1>0, <3>1, Zenon
    <3>3. probe'.pc = "poll" /\ probe'.drive = probe.drive /\ probe'.timeout = probe.timeout
          /\ probe'.polls = probe.polls
      BY <1>0, <3>1
    <3>4. Here' = Here /\ Here.polls \in Nat /\ probe.polls = 0
      BY <2>1, <3>3 DEF Here, ProbeInv
    <3> HIDE DEF P
    <3>5. 0 <= Here.polls
      BY <3>4
    <3> QED BY <2>1, <2>3, <3>2, <3>3, <3>4, <3>5 DEF ProbeInv, P
  <2> QED BY <2>2, <2>3
<1>3. CASE ata_poll
  <2>1. bus' = bus /\ probe.pc = "poll" /\ probe.drive \in Drives /\ Here.polls \in Nat
        /\ probe.timeout \in Nat /\ probe.polls \in Nat /\ probe.timeout > 0
        /\ probe.timeout + probe.polls = Timeout
        /\ (probe.polls <= Here.polls \/ Here.polls >= Timeout - ResetAt)
    BY <1>3 DEF ata_poll, ProbeInv, Here
  <2>2. CASE Answered
    <3>1. Here.polls < Timeout - ResetAt
      BY <1>0, <2>1, <2>2 DEF Answered
    <3> QED BY <1>3, <2>1, <2>2, <3>1, NextStep DEF ata_poll
  <2>3. CASE ~Answered
    <3>1. present' = present /\ probe' = ata_timeout(probe.timeout - 1)
      BY <1>3, <2>3 DEF ata_poll
    <3>2. probe.polls + 1 <= Here.polls \/ Here.polls >= Timeout - ResetAt
      BY <1>0, <2>1, <2>3 DEF Answered
    <3>3. CASE probe.timeout = 1
      <4>1. ~(Here.polls < Timeout - ResetAt)
        BY <1>0, <2>1, <3>2, <3>3, ProbeConstants
      <4>2. probe' = NextDrive(probe.drive)
        BY <3>1, <3>3 DEF ata_timeout
      <4> QED BY <2>1, <3>1, <4>1, <4>2, NextStep
    <3>4. CASE probe.timeout # 1
      <4>1. probe' = [probe EXCEPT !.timeout = probe.timeout - 1, !.polls = probe.polls + 1]
        BY <2>1, <3>1, <3>4 DEF ata_timeout
      <4>2. probe.timeout - 1 \in Nat /\ probe.timeout - 1 > 0 /\ probe.polls + 1 \in Nat
        BY <2>1, <3>4
      <4>3. probe' \in P
        BY <1>0, <4>1, <4>2, Zenon
      <4>4. probe'.pc = "poll" /\ probe'.drive = probe.drive
            /\ probe'.timeout = probe.timeout - 1 /\ probe'.polls = probe.polls + 1
        BY <1>0, <2>1, <4>1
      <4>5. Here' = Here
        BY <2>1, <4>4 DEF Here
      <4> HIDE DEF P
      <4>6. probe'.timeout + probe'.polls = Timeout
        BY <2>1, <4>4
      <4> QED BY <2>1, <3>1, <3>2, <4>2, <4>3, <4>4, <4>5, <4>6 DEF ProbeInv, P
    <3> QED BY <3>3, <3>4
  <2> QED BY <2>2, <2>3
<1> QED BY <1>1, <1>2, <1>3 DEF AtaProbe

\* When all drives are probed, ProbeInv is what PresentExact says.
LEMMA ProbeDone == ProbeInv => PresentExact
<1> SUFFICES ASSUME ProbeInv, Probed
             PROVE  present = {d \in Drives : bus[d].kind = "ata" /\ bus[d].polls < Timeout - ResetAt}
  BY DEF PresentExact
<1>1. probe.drive \in Nat /\ probe.drive \notin Drives
  BY DEF ProbeInv, Probed
<1>2. \A d \in Drives : d < probe.drive
  BY <1>1, ProbeConstants
<1> QED BY <1>2 DEF ProbeInv

----------------------------------------------------------------------------
(* Reads *)

\* A call that is not idle has all its fields.
LEMMA CallFields ==
    ASSUME ReadTypes, NEW t \in Readers, call[t].pc # "idle"
    PROVE  CallGood(call[t]) /\ call[t] \in CallRec
BY DEF ReadTypes, CallGood

\* A step of the only call under way: the others hold nothing that it can disturb.
LEMMA OneCall ==
    ASSUME ReadTypes, ReadInv, ~mixed, NEW t \in Readers,
           \A u \in Readers \ {t} : ~Under(u),
           NEW r, call' = [call EXCEPT ![t] = r], CallInv(t)', Drained'
    PROVE  ReadInv'
<1>1. \A u \in Readers \ {t} : call'[u] = call[u]
  BY DEF ReadTypes
<1>2. ASSUME NEW u \in Readers PROVE CallInv(u)'
  <2>1. CASE u = t
    BY <2>1
  <2>2. CASE u # t
    <3>1. call'[u] = call[u] /\ call[u].pc \in {"idle", "done"}
      BY <1>1, <2>2 DEF Under
    <3>2. CallInv(u)
      BY DEF ReadInv
    <3> QED BY <3>1, <3>2 DEF CallInv, Wanted
  <2> QED BY <2>1, <2>2
<1>3. Alone'
  BY <1>1 DEF Alone, Under
<1> QED BY <1>2, <1>3 DEF ReadInv

\* Only the call that is under way is.
LEMMA Others ==
    ASSUME ReadInv, ~mixed, NEW t \in Readers, Under(t)
    PROVE  CallInv(t) /\ \A u \in Readers \ {t} : ~Under(u)
BY DEF ReadInv, Alone

\* The sectors of a request: at least one, and enough for its bytes.
LEMMA SpanFits ==
    ASSUME NEW o \in Nat, NEW z \in Nat \ {0}
    PROVE  LET start == o \div Bytes
               n == (o + z) \div Bytes - start + 1
           IN  /\ start \in Nat /\ n \in Nat \ {0}
               /\ (o % Bytes) + z <= Bytes * n
               /\ Bytes * start + (o % Bytes) = o /\ o % Bytes \in {0, 1}
BY DEF Bytes

\* What the drive makes of the count register is no more than the call will take.
LEMMA CountFits ==
    ASSUME NEW n \in Nat \ {0}
    PROVE  LET count == n % CountMod
               left == IF count = 0 THEN CountMod ELSE count
           IN  count \in Nat /\ left \in Nat /\ left >= 1 /\ left <= n
<1>1. CountMod \in Nat \ {0}
  BY AtaConstants
<1>2. n % CountMod \in 0 .. CountMod - 1
  BY <1>1
<1>3. CASE n < CountMod
  <2>1. n % CountMod = n
    BY <1>1, <1>3
  <2> QED BY <1>1, <2>1
<1>4. CASE n >= CountMod
  BY <1>1, <1>2, <1>4
<1> QED BY <1>1, <1>3, <1>4

\* ATA_read_b starts a call.
LEMMA StartStep ==
    ASSUME ReadTypes, ReadInv, NEW t \in Readers, NEW q \in Requests, ATA_read_b(t, q[1], q[2])
    PROVE  ReadTypes' /\ ReadInv'
<1> DEFINE o == q[1]
           z == q[2]
           start == o \div Bytes
           n == (o + z) \div Bytes - start + 1
           r == [pc |-> "prepare", offset |-> o, size |-> z, start |-> start, n |-> n, buf |-> <<>>]
<1>1. o \in Nat /\ z \in Nat \ {0}
  BY AtaConstants
<1>2. start \in Nat /\ n \in Nat \ {0}
  BY <1>1, SpanFits
<1>3. call[t].pc = "idle" /\ call' = [call EXCEPT ![t] = r] /\ dev' = dev /\ regs' = regs
  BY DEF ATA_read_b
<1>4. mixed' = (mixed \/ \E s \in Readers : call[s].pc \notin {"idle", "done"})
  BY DEF ATA_read_b
<1>5. mixed' \in BOOLEAN
  BY <1>4, Zenon
<1>6. r.start = r.offset \div Bytes /\ r.n = (r.offset + r.size) \div Bytes - r.start + 1
  OBVIOUS
<1> HIDE DEF o, z, start, n
<1>7. r \in CallRec /\ r.pc = "prepare" /\ r.buf = <<>>
  BY <1>1, <1>2 DEF CallRec, Calls
<1> HIDE DEF r
<1>8. ReadTypes'
  <2>1. CallGood(r)
    <3>1. <<>> \in Seq(Nat)
      OBVIOUS
    <3> QED BY <1>6, <1>7, <3>1 DEF CallGood, Geometry
  <2>2. call' \in [Readers -> {IdleCall} \cup CallRec]
    BY <1>3, <1>7 DEF ReadTypes
  <2>3. \A u \in Readers : call'[u] = IF u = t THEN r ELSE call[u]
    BY <1>3 DEF ReadTypes
  <2>4. \A u \in Readers : call'[u].pc # "idle" => CallGood(call'[u])
    BY <2>1, <2>3 DEF ReadTypes
  <2> QED BY <1>3, <1>5, <2>2, <2>4 DEF ReadTypes
<1>9. ASSUME ~mixed' PROVE ReadInv'
  <2>1. ~mixed /\ \A s \in Readers : ~Under(s)
    BY <1>4, <1>9, Zenon DEF Under
  <2>2. call'[t] = r
    BY <1>3 DEF ReadTypes
  <2>3. CallInv(t)'
    BY <1>6, <1>7, <2>2 DEF CallInv
  <2>4. Drained'
    <3>1. dev.st \in {"idle", "err", "abrt"}
      BY <2>1 DEF ReadInv, Drained, Under
    <3> QED BY <1>3, <3>1 DEF Drained
  <2> QED BY <1>3, <2>1, <2>3, <2>4, OneCall
<1>10. mixed' => ReadInv'
  BY DEF ReadInv
<1> QED BY <1>5, <1>8, <1>9, <1>10

\* A step of the call under way keeps the types if it leaves a call and a drive.
LEMMA CallTypes ==
    ASSUME ReadTypes, NEW t \in Readers, NEW r, CallGood(r), call' = [call EXCEPT ![t] = r],
           dev' \in [st : {"idle", "busy", "drq", "err", "abrt"}, lba : Nat, left : Nat],
           regs' \in [lba : Nat, count : Nat], mixed' = mixed
    PROVE  ReadTypes' /\ call'[t] = r
<1>1. r \in CallRec
  BY DEF CallGood
<1>2. call' \in [Readers -> {IdleCall} \cup CallRec]
  BY <1>1 DEF ReadTypes
<1>3. \A u \in Readers : call'[u] = IF u = t THEN r ELSE call[u]
  BY DEF ReadTypes
<1>4. \A u \in Readers : call'[u].pc # "idle" => CallGood(call'[u])
  BY <1>3 DEF ReadTypes
<1> QED BY <1>2, <1>3, <1>4 DEF ReadTypes

\* ATA_PIO_prepare writes the registers of an idle drive.
LEMMA PrepareStep ==
    ASSUME ReadTypes, ReadInv, NEW t \in Readers, ATA_PIO_prepare(t)
    PROVE  ReadTypes' /\ ReadInv'
<1> DEFINE r == [call[t] EXCEPT !.pc = "command"]
<1>1. /\ call[t].pc = "prepare" /\ call' = [call EXCEPT ![t] = r] /\ dev' = dev /\ mixed' = mixed
      /\ regs' = [lba |-> call[t].start, count |-> call[t].n % CountMod]
      /\ dev.st \notin {"busy", "drq"}
  BY DEF ATA_PIO_prepare
<1>2. call[t] \in CallRec /\ CallGood(call[t])
  BY <1>1, CallFields
<1>3. r \in CallRec
  <2>1. "command" \in Calls
    BY DEF Calls
  <2> QED BY <1>2, <2>1, Zenon DEF CallRec
<1>4. /\ r.pc = "command" /\ r.buf = call[t].buf /\ r.offset = call[t].offset
      /\ r.size = call[t].size /\ r.start = call[t].start /\ r.n = call[t].n
  BY <1>2 DEF CallRec
<1> HIDE DEF r
<1>5. call[t].start \in Nat /\ call[t].n \in Nat \ {0}
  BY <1>2 DEF CallRec
<1>6. regs' \in [lba : Nat, count : Nat] /\ regs'.lba = call[t].start /\ regs'.count = call[t].n % CountMod
  <2>1. call[t].n % CountMod \in Nat
    BY <1>5, CountFits
  <2> QED BY <1>1, <1>5, <2>1
<1>7. ReadTypes' /\ call'[t] = r
  <2>1. CallGood(r)
    BY <1>1, <1>2, <1>3, <1>4 DEF CallGood, Geometry
  <2> QED BY <1>1, <2>1, <1>6, CallTypes DEF ReadTypes
<1>8. ASSUME ~mixed PROVE ReadInv'
  <2>1. CallInv(t) /\ \A u \in Readers \ {t} : ~Under(u)
    BY <1>1, <1>8, Others DEF Under
  <2>2. CallInv(t)'
    BY <1>1, <1>4, <1>6, <1>7, <2>1 DEF CallInv
  <2>3. Drained'
    <3>1. dev.st \in {"idle", "err", "abrt"}
      BY <1>1 DEF ReadTypes
    <3> QED BY <1>1, <3>1 DEF Drained
  <2> QED BY <1>1, <1>8, <2>1, <2>2, <2>3, OneCall
<1> QED BY <1>1, <1>7, <1>8 DEF ReadInv

\* The command starts the drive at the first sector of the call.
LEMMA CommandStep ==
    ASSUME ReadTypes, ReadInv, NEW t \in Readers, AtaCommand(t)
    PROVE  ReadTypes' /\ ReadInv'
<1> DEFINE r == [call[t] EXCEPT !.pc = "check"]
           left == IF regs.count = 0 THEN CountMod ELSE regs.count
<1>1. /\ call[t].pc = "command" /\ call' = [call EXCEPT ![t] = r] /\ regs' = regs /\ mixed' = mixed
      /\ dev' = [st |-> "busy", lba |-> regs.lba, left |-> left]
  BY DEF AtaCommand
<1>2. call[t] \in CallRec /\ CallGood(call[t])
  BY <1>1, CallFields
<1>3. r \in CallRec
  <2>1. "check" \in Calls
    BY DEF Calls
  <2> QED BY <1>2, <2>1, Zenon DEF CallRec
<1>4. /\ r.pc = "check" /\ r.buf = call[t].buf /\ r.offset = call[t].offset
      /\ r.size = call[t].size /\ r.start = call[t].start /\ r.n = call[t].n
  BY <1>2 DEF CallRec
<1> HIDE DEF r
<1>5. call[t].start \in Nat /\ call[t].n \in Nat \ {0}
  BY <1>2 DEF CallRec
<1>6. regs.lba \in Nat /\ left \in Nat
  BY AtaConstants DEF ReadTypes
<1>7. ASSUME ~mixed
      PROVE  regs.lba = call[t].start /\ left >= 1 /\ left <= call[t].n
             /\ CallInv(t) /\ \A u \in Readers \ {t} : ~Under(u)
  <2>1. CallInv(t) /\ \A u \in Readers \ {t} : ~Under(u)
    BY <1>1, <1>7, Others DEF Under
  <2>2. regs.lba = call[t].start /\ regs.count = call[t].n % CountMod
    BY <1>1, <2>1 DEF CallInv
  <2> QED BY <1>5, <2>1, <2>2, CountFits
<1> HIDE DEF left
<1>8. /\ dev' \in [st : {"idle", "busy", "drq", "err", "abrt"}, lba : Nat, left : Nat]
      /\ dev'.st = "busy" /\ dev'.lba = regs.lba /\ dev'.left = left
  BY <1>1, <1>6
<1>9. ReadTypes' /\ call'[t] = r
  <2>1. CallGood(r)
    BY <1>1, <1>2, <1>3, <1>4 DEF CallGood, Geometry
  <2> QED BY <1>1, <1>8, <2>1, CallTypes DEF ReadTypes
<1>10. ASSUME ~mixed PROVE ReadInv'
  <2>1. r.buf = <<>>
    BY <1>1, <1>4, <1>7, <1>10 DEF CallInv
  <2>2. Filled(r, dev'.lba)
    <3>1. r.buf \in Seq(Nat) /\ Len(r.buf) = 0
      BY <2>1
    <3>2. dev'.lba = r.start /\ r.start \in Nat
      BY <1>4, <1>5, <1>7, <1>8, <1>10
    <3> QED BY <3>1, <3>2 DEF Filled, Bytes
  <2>3. dev'.left >= 1 /\ dev'.lba + dev'.left <= r.start + r.n
    BY <1>4, <1>5, <1>6, <1>7, <1>8, <1>10
  <2>4. CallInv(t)'
    BY <1>4, <1>9, <2>1, <2>2, <2>3 DEF CallInv, Filled
  <2>5. Drained'
    BY <1>4, <1>9 DEF Drained
  <2> QED BY <1>1, <1>7, <1>10, <2>4, <2>5, OneCall
<1> QED BY <1>1, <1>9, <1>10 DEF ReadInv

\* ATA_check_for_errors gives up on an aborted command, and goes on otherwise.
LEMMA CheckStep ==
    ASSUME ReadTypes, ReadInv, NEW t \in Readers, ATA_check_for_errors(t)
    PROVE  ReadTypes' /\ ReadInv'
<1>1. call[t].pc = "check" /\ dev' = dev /\ regs' = regs /\ mixed' = mixed
  BY DEF ATA_check_for_errors
<1>2. call[t] \in CallRec /\ CallGood(call[t])
  BY <1>1, CallFields
<1>3. CASE dev.st = "abrt"
  <2> DEFINE r == [call[t] EXCEPT !.pc = "done", !.buf = "garbage"]
  <2>1. call' = [call EXCEPT ![t] = r]
    BY <1>3 DEF ATA_check_for_errors, Finish
  <2>2. r \in CallRec
    <3>1. "done" \in Calls
      BY DEF Calls
    <3> QED BY <1>2, <3>1, Zenon DEF CallRec
  <2>3. /\ r.pc = "done" /\ r.buf = "garbage" /\ r.offset = call[t].offset
        /\ r.size = call[t].size /\ r.start = call[t].start /\ r.n = call[t].n
    BY <1>2 DEF CallRec
  <2> HIDE DEF r
  <2>4. ReadTypes' /\ call'[t] = r
    <3>1. CallGood(r)
      BY <1>2, <2>2, <2>3 DEF CallGood, Geometry
    <3> QED BY <1>1, <2>1, <3>1, CallTypes DEF ReadTypes
  <2>5. ASSUME ~mixed PROVE ReadInv'
    <3>1. CallInv(t) /\ \A u \in Readers \ {t} : ~Under(u)
      BY <1>1, <2>5, Others DEF Under
    <3>2. CallInv(t)'
      BY <1>1, <2>3, <2>4, <3>1 DEF CallInv
    <3>3. Drained'
      BY <1>1, <1>3 DEF Drained
    <3> QED BY <2>1, <2>5, <3>1, <3>2, <3>3, OneCall
  <2> QED BY <1>1, <2>4, <2>5 DEF ReadInv
<1>4. CASE dev.st # "abrt"
  <2> DEFINE r == [call[t] EXCEPT !.pc = "data"]
  <2>1. call' = [call EXCEPT ![t] = r]
    BY <1>4 DEF ATA_check_for_errors
  <2>2. r \in CallRec
    <3>1. "data" \in Calls
      BY DEF Calls
    <3> QED BY <1>2, <3>1, Zenon DEF CallRec
  <2>3. /\ r.pc = "data" /\ r.buf = call[t].buf /\ r.offset = call[t].offset
        /\ r.size = call[t].size /\ r.start = call[t].start /\ r.n = call[t].n
    BY <1>2 DEF CallRec
  <2> HIDE DEF r
  <2>4. ReadTypes' /\ call'[t] = r
    <3>1. CallGood(r)
      BY <1>1, <1>2, <2>2, <2>3 DEF CallGood, Geometry
    <3> QED BY <1>1, <2>1, <3>1, CallTypes DEF ReadTypes
  <2>5. ASSUME ~mixed PROVE ReadInv'
    <3>1. CallInv(t) /\ \A u \in Readers \ {t} : ~Under(u)
      BY <1>1, <2>5, Others DEF Under
    <3>2. CallInv(t)'
      BY <1>1, <2>3, <2>4, <3>1 DEF CallInv, Filled
    <3>3. Drained'
      BY <2>3, <2>4 DEF Drained
    <3> QED BY <2>1, <2>5, <3>1, <3>2, <3>3, OneCall
  <2> QED BY <1>1, <2>4, <2>5 DEF ReadInv
<1> QED BY <1>3, <1>4

\* What memcpy takes out of the sectors read are the bytes asked for, when the
\* sectors are the right ones.
LEMMA CutIs ==
    ASSUME NEW r, CallGood(r), NEW b \in Seq(Nat), Len(b) = Bytes * r.n
    PROVE  /\ Cut(r, b) \in Seq(Nat)
           /\ (\A i \in 1 .. Len(b) : b[i] = Bytes * r.start + i - 1) => Cut(r, b) = Wanted(r)
<1> DEFINE o == r.offset
           z == r.size
           a == o % Bytes
<1>1. /\ o \in Nat /\ z \in Nat \ {0} /\ r.start \in Nat /\ r.n \in Nat
      /\ r.start = o \div Bytes /\ r.n = (o + z) \div Bytes - r.start + 1
  BY DEF CallGood, CallRec, Geometry
<1> HIDE DEF o, z
<1>2. a + z <= Bytes * r.n /\ Bytes * r.start + a = o /\ a \in {0, 1}
  BY <1>1, SpanFits
<1> HIDE DEF a
<1>3. Cut(r, b) = SubSeq(b, a + 1, a + z)
  BY DEF Cut, a, o, z
<1>4. a + 1 \in Int /\ a + z \in Int /\ a + 1 <= a + z /\ a + z <= Len(b) /\ (a + z) - (a + 1) + 1 = z
  BY <1>1, <1>2
<1>5. \A i \in a + 1 .. a + z : b[i] \in Nat
  BY <1>2, <1>4
<1>6. /\ SubSeq(b, a + 1, a + z) \in Seq(Nat)
      /\ Len(SubSeq(b, a + 1, a + z)) =
           IF a + 1 <= a + z THEN (a + z) - (a + 1) + 1 ELSE 0
      /\ \A i \in 1 .. (a + z) - (a + 1) + 1 : SubSeq(b, a + 1, a + z)[i] = b[(a + 1) + i - 1]
  BY <1>4, <1>5, SubSeqProperties
<1>7. Len(SubSeq(b, a + 1, a + z)) = z
  BY <1>4, <1>6
<1>8. Wanted(r) \in Seq(Nat) /\ Len(Wanted(r)) = z /\ \A i \in 1 .. z : Wanted(r)[i] = o + i - 1
  <2>1. Wanted(r) = [i \in 1 .. z |-> o + i - 1]
    BY DEF Wanted, o, z
  <2>2. \A i \in 1 .. z : o + i - 1 \in Nat
    BY <1>1
  <2> QED BY <1>1, <2>1, <2>2
<1>9. ASSUME \A i \in 1 .. Len(b) : b[i] = Bytes * r.start + i - 1
      PROVE  Cut(r, b) = Wanted(r)
  <2>1. ASSUME NEW i \in 1 .. z PROVE SubSeq(b, a + 1, a + z)[i] = Wanted(r)[i]
    <3>1. SubSeq(b, a + 1, a + z)[i] = b[a + i]
      <4>1. (a + 1) + i - 1 = a + i
        BY <1>1, <1>2
      <4> QED BY <1>4, <1>6, <4>1
    <3>2. a + i \in 1 .. Len(b)
      BY <1>1, <1>2, <1>4
    <3>3. b[a + i] = Bytes * r.start + (a + i) - 1
      BY <1>9, <3>2
    <3>4. Bytes * r.start + (a + i) - 1 = o + i - 1
      BY <1>1, <1>2 DEF Bytes
    <3> QED BY <1>8, <3>1, <3>3, <3>4
  <2> QED BY <1>3, <1>6, <1>7, <1>8, <2>1, SeqEqual
<1> QED BY <1>3, <1>6, <1>9

\* One more word behind what was read.
LEMMA WordAppended ==
    ASSUME NEW b \in Seq(Nat), NEW lba \in Nat
    PROVE  LET c == b \o Word(lba)
           IN  /\ c \in Seq(Nat) /\ Len(c) = Len(b) + 2
               /\ \A i \in 1 .. Len(b) : c[i] = b[i]
               /\ c[Len(b) + 1] = Bytes * lba /\ c[Len(b) + 2] = Bytes * lba + 1
<1> DEFINE w == Word(lba)
<1>1. w \in Seq(Nat) /\ Len(w) = 2 /\ w[1] = Bytes * lba /\ w[2] = Bytes * lba + 1
  BY DEF Word, Bytes
<1> HIDE DEF w
<1>2. Len(b) \in Nat
  OBVIOUS
<1>3. /\ b \o w \in Seq(Nat) /\ Len(b \o w) = Len(b) + Len(w)
      /\ \A i \in 1 .. Len(b) + Len(w) : (b \o w)[i] = IF i <= Len(b) THEN b[i] ELSE w[i - Len(b)]
  BY <1>1, ConcatProperties
<1>4. (b \o w)[Len(b) + 1] = w[1] /\ (b \o w)[Len(b) + 2] = w[2]
  BY <1>1, <1>2, <1>3
<1>5. \A i \in 1 .. Len(b) : (b \o w)[i] = b[i]
  BY <1>1, <1>2, <1>3
<1> QED BY <1>1, <1>3, <1>4, <1>5 DEF w

\* The word taken is the next of the call's, and the buffer holds all before the next.
LEMMA WordFills ==
    ASSUME NEW r, CallGood(r), NEW lba \in Nat, Filled(r, lba), NEW s,
           s.start = r.start, s.buf = r.buf \o Word(lba)
    PROVE  Filled(s, lba + 1)
<1> DEFINE b == r.buf
           c == r.buf \o Word(lba)
<1>0. r.start \in Nat /\ lba >= r.start /\ Len(b) = 2 * (lba - r.start)
  BY DEF CallGood, CallRec, Filled, Bytes
<1>1. b \in Seq(Nat) /\ \A i \in 1 .. Len(b) : b[i] = Bytes * r.start + i - 1
  BY DEF Filled
<1>2. /\ c \in Seq(Nat) /\ Len(c) = Len(b) + 2
      /\ \A i \in 1 .. Len(b) : c[i] = b[i]
      /\ c[Len(b) + 1] = Bytes * lba /\ c[Len(b) + 2] = Bytes * lba + 1
  BY <1>1, WordAppended
<1> HIDE DEF b, c
<1>3. Len(b) \in Nat
  BY <1>1
<1> DEFINE Sums(x, y) == 2 * x + (2 * (y - x) + 1) - 1 = 2 * y /\ 2 * x + (2 * (y - x) + 2) - 1 = 2 * y + 1
<1>4. \A x, y \in Nat : Sums(x, y)
  OBVIOUS
<1>5. Sums(r.start, lba)
  BY <1>0, <1>4
<1>6. Len(c) = Bytes * ((lba + 1) - r.start) /\ lba + 1 >= r.start
  <2>1. Len(c) = Len(b) + 2
    BY <1>2
  <2> QED BY <1>0, <2>1 DEF Bytes
<1>7. ASSUME NEW i \in 1 .. Len(c) PROVE c[i] = Bytes * r.start + i - 1
  <2>1. i \in 1 .. Len(b) \/ i = Len(b) + 1 \/ i = Len(b) + 2
    BY <1>2, <1>3, <1>7, SMTT(30)
  <2>2. CASE i \in 1 .. Len(b)
    BY <1>1, <1>2, <2>2
  <2>3. CASE i = Len(b) + 1
    <3>1. Bytes * r.start + i - 1 = Bytes * lba
      <4>1. i = 2 * (lba - r.start) + 1
        BY <1>0, <2>3
      <4> QED BY <1>5, <4>1 DEF Bytes
    <3> QED BY <1>2, <2>3, <3>1
  <2>4. CASE i = Len(b) + 2
    <3>1. Bytes * r.start + i - 1 = Bytes * lba + 1
      <4>1. i = 2 * (lba - r.start) + 2
        BY <1>0, <2>4
      <4> QED BY <1>5, <4>1 DEF Bytes
    <3> QED BY <1>2, <2>4, <3>1
  <2> QED BY <2>1, <2>2, <2>3, <2>4
<1>8. s.buf = c /\ s.start = r.start
  BY DEF c
<1>9. s.buf \in Seq(Nat) /\ Len(s.buf) = Bytes * ((lba + 1) - s.start) /\ lba + 1 >= s.start
  BY <1>2, <1>6, <1>8
<1>10. \A i \in 1 .. Len(s.buf) : s.buf[i] = Bytes * s.start + i - 1
  BY <1>7, <1>8
<1> QED BY <1>9, <1>10, Zenon DEF Filled

\* ATA_PIO_read takes a word, and hands out the bytes asked for with the last one.
LEMMA DataStep ==
    ASSUME ReadTypes, ReadInv, NEW t \in Readers, ATA_PIO_read(t)
    PROVE  ReadTypes' /\ ReadInv'
<1> DEFINE b == call[t].buf \o Word(dev.lba)
<1>1. /\ call[t].pc = "data" /\ dev.st = "drq" /\ regs' = regs /\ mixed' = mixed
      /\ dev' = IF dev.left > 1 THEN [st |-> "busy", lba |-> dev.lba + 1, left |-> dev.left - 1]
                ELSE [dev EXCEPT !.st = "idle"]
  BY DEF ATA_PIO_read
<1>2. call[t] \in CallRec /\ CallGood(call[t]) /\ call[t].buf \in Seq(Nat)
  BY <1>1, CallFields DEF CallGood
<1>3. dev.lba \in Nat /\ dev.left \in Nat
  BY DEF ReadTypes
<1>4. b \in Seq(Nat)
  BY <1>2, <1>3, WordAppended
<1>5. /\ dev' \in [st : {"idle", "busy", "drq", "err", "abrt"}, lba : Nat, left : Nat]
      /\ dev.left > 1 => dev'.st = "busy" /\ dev'.lba = dev.lba + 1 /\ dev'.left = dev.left - 1
      /\ ~(dev.left > 1) => dev'.st = "idle"
  BY <1>1, <1>3 DEF ReadTypes
<1>6. ASSUME ~mixed
      PROVE  /\ CallInv(t) /\ \A u \in Readers \ {t} : ~Under(u)
             /\ Filled(call[t], dev.lba) /\ dev.left >= 1
             /\ dev.lba + dev.left <= call[t].start + call[t].n
  <2>1. CallInv(t) /\ \A u \in Readers \ {t} : ~Under(u)
    BY <1>1, <1>6, Others DEF Under
  <2> QED BY <1>1, <2>1 DEF CallInv
<1>7. call[t].start \in Nat /\ call[t].n \in Nat
  BY <1>2 DEF CallRec
<1>8. CASE Len(b) = Bytes * call[t].n
  <2> DEFINE c == Cut(call[t], b)
             r == [call[t] EXCEPT !.pc = "done", !.buf = c]
  <2>1. call' = [call EXCEPT ![t] = r]
    BY <1>8 DEF ATA_PIO_read, Finish
  <2>2. c \in Seq(Nat)
    BY <1>2, <1>4, <1>8, CutIs
  <2>3. ASSUME ~mixed PROVE c = Wanted(call[t]) /\ ~(dev.left > 1)
    <3> DEFINE s == [start |-> call[t].start, buf |-> b]
    <3>1. Filled(s, dev.lba + 1)
      BY <1>2, <1>3, <1>6, <2>3, WordFills
    <3>2. Len(b) = Bytes * ((dev.lba + 1) - call[t].start) /\ dev.lba + 1 >= call[t].start
          /\ \A i \in 1 .. Len(b) : b[i] = Bytes * call[t].start + i - 1
      BY <3>1 DEF Filled
    <3> HIDE DEF b, s
    <3>3. ~(dev.left > 1)
      <4>1. 2 * call[t].n = 2 * ((dev.lba + 1) - call[t].start)
        BY <1>8, <3>2 DEF Bytes
      <4>2. dev.lba + dev.left <= call[t].start + call[t].n
        BY <1>6, <2>3
      <4> QED BY <1>3, <1>7, <4>1, <4>2
    <3> QED BY <1>2, <1>4, <1>8, <3>2, <3>3, CutIs
  <2> HIDE DEF b, c
  <2>4. r \in CallRec
    <3>1. "done" \in Calls
      BY DEF Calls
    <3> QED BY <1>2, <2>2, <3>1, Zenon DEF CallRec
  <2>5. /\ r.pc = "done" /\ r.buf = c /\ r.offset = call[t].offset
        /\ r.size = call[t].size /\ r.start = call[t].start /\ r.n = call[t].n
    BY <1>2 DEF CallRec
  <2> HIDE DEF r
  <2>6. ReadTypes' /\ call'[t] = r
    <3>1. CallGood(r)
      BY <1>2, <2>4, <2>5 DEF CallGood, Geometry
    <3> QED BY <1>1, <1>5, <2>1, <3>1, CallTypes DEF ReadTypes
  <2>7. ASSUME ~mixed PROVE ReadInv'
    <3>1. CallInv(t)'
      <4>1. r.buf = Wanted(r)
        BY <2>3, <2>5, <2>7 DEF Wanted
      <4> QED BY <2>5, <2>6, <4>1 DEF CallInv, Wanted
    <3>2. Drained'
      BY <1>5, <2>3, <2>7 DEF Drained
    <3> QED BY <1>6, <2>1, <2>7, <3>1, <3>2, OneCall
  <2> QED BY <1>1, <2>6, <2>7 DEF ReadInv
<1>9. CASE Len(b) # Bytes * call[t].n
  <2> DEFINE r == [call[t] EXCEPT !.buf = b]
  <2>1. call' = [call EXCEPT ![t] = r]
    BY <1>9 DEF ATA_PIO_read
  <2> HIDE DEF b
  <2>2. r \in CallRec
    BY <1>2, <1>4, Zenon DEF CallRec
  <2>3. /\ r.pc = "data" /\ r.buf = b /\ r.offset = call[t].offset
        /\ r.size = call[t].size /\ r.start = call[t].start /\ r.n = call[t].n
    BY <1>1, <1>2 DEF CallRec
  <2> HIDE DEF r
  <2>4. ReadTypes' /\ call'[t] = r
    <3>1. CallGood(r)
      BY <1>2, <1>4, <2>2, <2>3 DEF CallGood, Geometry
    <3> QED BY <1>1, <1>5, <2>1, <3>1, CallTypes DEF ReadTypes
  <2>5. ASSUME ~mixed PROVE ReadInv'
    <3>1. ASSUME dev'.st \in {"busy", "drq"}
          PROVE  Filled(r, dev'.lba) /\ dev'.left >= 1 /\ dev'.lba + dev'.left <= r.start + r.n
      <4>1. dev.left > 1 /\ dev'.lba = dev.lba + 1 /\ dev'.left = dev.left - 1
        BY <1>5, <3>1
      <4>2. Filled(r, dev.lba + 1)
        BY <1>2, <1>3, <1>6, <2>3, <2>5, WordFills DEF b
      <4>3. dev'.left >= 1 /\ dev'.lba + dev'.left <= r.start + r.n
        BY <1>3, <1>6, <1>7, <2>3, <2>5, <4>1
      <4> QED BY <4>1, <4>2, <4>3
    <3>2. CallInv(t)'
      BY <2>3, <2>4, <3>1 DEF CallInv, Filled
    <3>3. Drained'
      BY <2>3, <2>4 DEF Drained
    <3> QED BY <1>6, <2>1, <2>5, <3>2, <3>3, OneCall
  <2> QED BY <1>1, <2>4, <2>5 DEF ReadInv
<1> QED BY <1>8, <1>9

\* The caller has its bytes, and may read again.
LEMMA DoneStep ==
    ASSUME ReadTypes, ReadInv, NEW t \in Readers, AtaDone(t)
    PROVE  ReadTypes' /\ ReadInv'
<1>1. /\ call[t].pc = "done" /\ call' = [call EXCEPT ![t] = IdleCall]
      /\ dev' = dev /\ regs' = regs /\ mixed' = mixed
  BY DEF AtaDone, IdleCall
<1>2. IdleCall.pc = "idle"
  BY DEF IdleCall
<1>3. \A u \in Readers : call'[u] = IF u = t THEN IdleCall ELSE call[u]
  BY <1>1 DEF ReadTypes
<1>4. call' \in [Readers -> {IdleCall} \cup CallRec]
  BY <1>1 DEF ReadTypes
<1>5. \A u \in Readers : call'[u].pc # "idle" => CallGood(call'[u])
  BY <1>2, <1>3 DEF ReadTypes
<1>6. ReadTypes'
  BY <1>1, <1>4, <1>5 DEF ReadTypes
<1>7. ASSUME ~mixed PROVE ReadInv'
  <2>1. Alone'
    BY <1>2, <1>3, <1>7 DEF ReadInv, Alone, Under
  <2>2. Drained'
    <3>1. \A u \in Readers : call'[u].pc \in {"idle", "done", "prepare"} =>
                             call[u].pc \in {"idle", "done", "prepare"}
      BY <1>1, <1>3
    <3> QED BY <1>1, <1>7, <3>1 DEF ReadInv, Drained
  <2>3. ASSUME NEW u \in Readers PROVE CallInv(u)'
    <3>1. CASE u = t
      BY <1>2, <1>3, <3>1 DEF CallInv
    <3>2. CASE u # t
      BY <1>1, <1>3, <1>7, <3>2 DEF ReadInv, CallInv, Filled, Wanted
    <3> QED BY <3>1, <3>2
  <2> QED BY <2>1, <2>2, <2>3 DEF ReadInv
<1> QED BY <1>1, <1>6, <1>7 DEF ReadInv

\* The drive answers.
LEMMA DriveStep ==
    ASSUME ReadTypes, ReadInv, AtaDrive
    PROVE  ReadTypes' /\ ReadInv'
<1>1. dev.st = "busy" /\ regs' = regs /\ call' = call /\ mixed' = mixed
  BY DEF AtaDrive
<1>2. PICK st \in {"drq", "err", "abrt"} : dev' = [dev EXCEPT !.st = st]
  BY DEF AtaDrive
<1>3. dev'.lba = dev.lba /\ dev'.left = dev.left
      /\ dev' \in [st : {"idle", "busy", "drq", "err", "abrt"}, lba : Nat, left : Nat]
  BY <1>2 DEF ReadTypes
<1>4. ReadTypes'
  BY <1>1, <1>3 DEF ReadTypes
<1>5. ASSUME ~mixed PROVE ReadInv'
  <2>1. Alone'
    BY <1>1, <1>5 DEF ReadInv, Alone, Under
  <2>2. Drained'
    BY <1>1, <1>5 DEF ReadInv, Drained
  <2>3. ASSUME NEW u \in Readers PROVE CallInv(u)'
    <3>1. CallInv(u)
      BY <1>5 DEF ReadInv
    <3> QED BY <1>1, <1>3, <3>1 DEF CallInv, Filled, Wanted
  <2> QED BY <2>1, <2>2, <2>3 DEF ReadInv
<1> QED BY <1>1, <1>4, <1>5 DEF ReadInv

\* A step that touches nothing of the reads.
LEMMA ReadsKept == ReadTypes /\ ReadInv /\ UNCHANGED readVars => ReadTypes' /\ ReadInv'
<1> SUFFICES ASSUME ReadTypes, ReadInv, UNCHANGED readVars PROVE ReadTypes' /\ ReadInv'
  OBVIOUS
<1>1. dev' = dev /\ regs' = regs /\ call' = call /\ mixed' = mixed
  BY DEF readVars
<1>2. ReadTypes'
  BY <1>1 DEF ReadTypes
<1>3. ASSUME NEW t \in Readers, CallInv(t) PROVE CallInv(t)'
  BY <1>1, <1>3 DEF CallInv, Filled, Wanted
<1>4. Alone => Alone'
  BY <1>1 DEF Alone, Under
<1>5. Drained => Drained'
  BY <1>1 DEF Drained
<1> QED BY <1>1, <1>2, <1>3, <1>4, <1>5 DEF ReadInv

\* A read leaves what ATA_init has found alone.
LEMMA ProbeKept == ProbeInv /\ UNCHANGED probeVars => ProbeInv'
BY DEF ProbeInv, probeVars, Here

\* AtaInv is inductive.
LEMMA AtaInductive == AtaInv /\ [AtaProbe \/ (Probed /\ ReadNext)]_ataVars => AtaInv'
<1> SUFFICES ASSUME AtaInv, [AtaProbe \/ (Probed /\ ReadNext)]_ataVars PROVE AtaInv'
  OBVIOUS
<1> USE DEF AtaInv
<1>1. CASE AtaProbe
  <2>1. UNCHANGED readVars
    BY <1>1 DEF AtaProbe, ata_select, ata_identify, ata_poll
  <2> QED BY <1>1, <2>1, ProbeStep, ReadsKept
<1>2. ASSUME NEW t \in Readers, AtaReader(t) PROVE AtaInv'
  <2>1. UNCHANGED probeVars
    BY <1>2 DEF AtaReader, ATA_PIO_prepare, AtaCommand, ATA_check_for_errors, ATA_PIO_read, AtaDone
  <2> QED BY <1>2, <2>1, ProbeKept, PrepareStep, CommandStep, CheckStep, DataStep, DoneStep DEF AtaReader
<1>3. ASSUME NEW t \in Readers, NEW q \in Requests, ATA_read_b(t, q[1], q[2]) PROVE AtaInv'
  <2>1. UNCHANGED probeVars
    BY <1>3 DEF ATA_read_b
  <2> QED BY <1>3, <2>1, ProbeKept, StartStep
<1>4. CASE AtaDrive
  <2>1. UNCHANGED probeVars
    BY <1>4 DEF AtaDrive
  <2> QED BY <1>4, <2>1, ProbeKept, DriveStep
<1>5. CASE UNCHANGED ataVars
  <2>1. UNCHANGED probeVars /\ UNCHANGED readVars
    BY <1>5 DEF ataVars, probeVars, readVars
  <2> QED BY <2>1, ProbeKept, ReadsKept
<1> QED BY <1>1, <1>2, <1>3, <1>4, <1>5 DEF ReadNext

\* ATA_init starts with the first drive and nothing found; no read is under way.
LEMMA AtaStart == AtaInit => AtaInv
<1> SUFFICES ASSUME AtaInit PROVE AtaInv
  OBVIOUS
<1>1. ProbeInv
  <2>1. 0 .. Slowest \subseteq Nat
    BY AtaConstants
  <2>2. bus \in [Drives -> [kind : Kinds, polls : Nat]]
    BY <2>1 DEF AtaInit
  <2>3. probe = NextDrive(-1)
    BY DEF AtaInit
  <2>4. /\ probe \in [drive : Nat, pc : {"reset", "identify", "poll"}, timeout : Nat, polls : Nat]
        /\ probe.drive = 0 /\ probe.pc = "reset" /\ probe.timeout = Timeout /\ probe.polls = 0
    BY <2>3, ProbeConstants DEF NextDrive
  <2>5. \A d \in Drives : ~(d < 0)
    BY ProbeConstants
  <2>6. present = {}
    BY DEF AtaInit
  <2>7. present = {d \in Drives : /\ d < probe.drive
                                  /\ bus[d].kind = "ata" /\ bus[d].polls < Timeout - ResetAt}
    BY <2>4, <2>5, <2>6
  <2>8. probe.timeout > 0 /\ probe.timeout + probe.polls = Timeout
    BY <2>4, ProbeConstants
  <2> QED BY <2>2, <2>4, <2>7, <2>8 DEF ProbeInv
<1>2. /\ dev = [st |-> "idle", lba |-> 0, left |-> 0] /\ regs = [lba |-> 0, count |-> 0]
      /\ call = [t \in Readers |-> IdleCall] /\ mixed = FALSE
  BY DEF AtaInit, ReadIdle, IdleCall
<1>3. \A t \in Readers : call[t].pc = "idle"
  BY <1>2 DEF IdleCall
<1>4. ReadTypes
  <2>1. call \in [Readers -> {IdleCall} \cup CallRec]
    BY <1>2
  <2>2. mixed \in BOOLEAN
    BY <1>2
  <2> QED BY <1>2, <1>3, <2>1, <2>2 DEF ReadTypes
<1>5. ReadInv
  <2>1. dev.st = "idle"
    BY <1>2
  <2> QED BY <1>3, <2>1 DEF ReadInv, Alone, Under, Drained, CallInv
<1> QED BY <1>1, <1>4, <1>5 DEF AtaInv

\* The driver at work (kernel/drivers/ata.c): once ATA_init is done it has found
\* exactly the drives that answered in time (PresentExact), a call of ATA_read_b
\* that no other overlapped hands out the bytes asked for unless the drive aborted
\* it (ReadRight), and leaves the drive with nothing to give (Drained); for every
\* drive, request and width of the count register.
THEOREM DriveStaysRight == AtaSpec => []DriveRight
<1>1. AtaInit => AtaInv
  BY AtaStart
<1>2. AtaInv /\ [AtaProbe \/ (Probed /\ ReadNext)]_ataVars => AtaInv'
  BY AtaInductive
<1>3. AtaInv => DriveRight
  <2> SUFFICES ASSUME AtaInv PROVE DriveRight
    OBVIOUS
  <2>1. PresentExact
    BY ProbeDone DEF AtaInv
  <2>2. ASSUME ~mixed PROVE Drained /\ \A t \in Readers : CallInv(t)
    BY <2>2 DEF AtaInv, ReadInv
  <2>3. Drained
    BY <2>2 DEF Drained
  <2>4. ReadRight
    BY <2>2 DEF ReadRight, CallInv, Wanted
  <2> QED BY <2>1, <2>3, <2>4 DEF DriveRight
<1> QED BY <1>1, <1>2, <1>3, PTL DEF AtaSpec
=============================================================================
