----------------------------- MODULE FileTable -----------------------------
(***************************************************************************)
(* Open files: the global file table and the descriptor list of each task  *)
(* (kernel/fs/file_descriptor.c, file_ops.c), both arrays of kernel/ds/    *)
(* list.c, which close the gap when an element is deleted.  Every call     *)
(* here runs between cli and set_eflags: it is one step.                   *)
(***************************************************************************)
EXTENDS Integers, FiniteSets

CONSTANTS Tasks, Files,
          NULL,
          MaxFds          \* bound: calls of fd_open

ASSUME FdAssumption == MaxFds \in Nat

VARIABLES gft,            \* the global file table, a list of entries
          files,          \* task->file_descriptors, a list of descriptors
          fd,             \* the file_descriptor_t structures kfree has not taken
          made,           \* descriptors made so far
          stdio,          \* standard descriptors ktask_create has opened
          shifted,        \* history: a deletion moved other entries of gft
          past_end,       \* history: a slot past the end of a list was used
          deaf            \* history: a read waits with interrupts disabled

vars == <<gft, files, fd, made, stdio, shifted, past_end, deaf>>

\* What can be opened: the ring buffer of a task, the console or a file (one of
\* which may be the NULL that open passes on when the path names nothing).
Ring(t) == [kind |-> "ring", of |-> t]
Console == [kind |-> "con", of |-> NULL]
File(f) == [kind |-> "file", of |-> f]
Node == {Console} \cup {Ring(t) : t \in Tasks} \cup {File(f) : f \in Files}
Entry == [node : Node, ref_count : Nat]

ASSUME NullAssumption == NULL \notin Entry /\ NULL \notin Nat

----------------------------------------------------------------------------
(* ds/list.c.  A slot never written holds what kmalloc returned: NULL here  *)
(* stands for that unknown value, too.                                      *)
Slots == 0..(MaxFds + 1)
make_list == [data |-> [i \in Slots |-> NULL], used |-> 0]

list_push(l, e) == [data |-> [l.data EXCEPT ![l.used] = e], used |-> l.used + 1]

list_delete(l, index) ==
  IF index > l.used THEN l
  ELSE [data |-> [i \in Slots |-> IF index <= i /\ i < l.used THEN l.data[i + 1] ELSE l.data[i]],
        used |-> l.used - 1]

list_get(l, index) == IF index > l.used THEN NULL ELSE l.data[index]

----------------------------------------------------------------------------
\* gft_init: slot 0 is left unused.  No task has been created.
Init ==
  /\ gft = [make_list EXCEPT !.used = 1]
  /\ files = [t \in Tasks |-> make_list]
  /\ fd = << >> /\ made = 0
  /\ stdio = [t \in Tasks |-> 0]
  /\ shifted = FALSE /\ past_end = FALSE /\ deaf = FALSE

Descriptors == 1..MaxFds
open == DOMAIN fd

\* Addresses are interchangeable: the least one that is free stands for
\* whichever kmalloc returns.
Fresh == {d \in Descriptors \ open : \A c \in Descriptors \ open : d <= c}

fd_open_next_slot(t, node, reads) ==
  \E d \in Fresh :
    /\ made < MaxFds /\ made' = made + 1
    /\ gft' = list_push(gft, [node |-> node, ref_count |-> 1])
    /\ fd' = [c \in open \cup {d} |->
               IF c = d THEN [gft_index |-> gft'.used, read |-> reads, opened |-> node]
               ELSE fd[c]]
    /\ files' = [files EXCEPT ![t] = list_push(@, d)]
    /\ UNCHANGED <<shifted, past_end, deaf>>

\* fd_open and gft_add, and the push on the task's list that always follows.
\* gft_entry_exists returns 0 at once: every call makes an entry.
fd_open(t, node, reads) ==
  \E d \in Fresh :
    /\ made < MaxFds /\ made' = made + 1
    /\ gft' = list_push(gft, [node |-> node, ref_count |-> 1])
    /\ fd' = [c \in open \cup {d} |->
               IF c = d THEN [gft_index |-> gft.used, read |-> reads, opened |-> node]
               ELSE fd[c]]
    /\ files' = [files EXCEPT ![t] = list_push(@, d)]
    /\ UNCHANGED <<shifted, past_end, deaf>>

\* ktask_create opens stdin, stdout and stderr, with interrupts enabled between.
ktask_create(t) ==
  /\ stdio[t] < 3
  /\ stdio' = [stdio EXCEPT ![t] = @ + 1]
  /\ IF stdio[t] = 0 THEN fd_open(t, Ring(t), TRUE) ELSE fd_open(t, Console, FALSE)

\* The result of vfs_node_from_path is not tested.
sys_open(t) ==
  /\ stdio[t] = 3
  /\ \E f \in Files, reads \in BOOLEAN : fd_open(t, File(f), reads)
  /\ UNCHANGED stdio

\* fd_close on the table: the entry at that index loses its reference.  If the
\* index has no entry, the count is some other word of memory.
FdClosed_again(index) ==
  LET e == list_get(gft, index)
  IN  IF e = NULL THEN {gft, list_delete(gft, index)}
      ELSE {list_delete(list_delete(gft, index), index)}
FdClosed(index) ==
  LET e == list_get(gft, index)
  IN  IF e = NULL THEN {gft, list_delete(gft, index)}
      ELSE IF e.ref_count = 1 THEN {list_delete(gft, index)}
      ELSE {[gft EXCEPT !.data[index].ref_count = @ - 1]}

sys_close(t, n) ==
  LET d == list_get(files[t], n)
  IN  /\ stdio[t] = 3
      /\ d # NULL
      /\ gft' \in FdClosed(fd[d].gft_index)
      /\ fd' = [c \in open \ {d} |-> fd[c]]
      /\ files' = [files EXCEPT ![t] = list_delete(@, n)]
      /\ shifted' = (shifted \/ fd[d].gft_index # gft.used - 1)
      /\ past_end' = (past_end \/ n = files[t].used)
      /\ UNCHANGED <<made, stdio, deaf>>

\* list_get lets the index one past the end through: the word there need not be
\* NULL, and is then closed as if it were a descriptor.
sys_close_past_end(t) ==
  /\ stdio[t] = 3
  /\ list_get(files[t], files[t].used) = NULL
  /\ gft' \in {gft} \cup {list_delete(gft, i) : i \in 1..gft.used}
  /\ files' = [files EXCEPT ![t] = list_delete(@, files[t].used)]
  /\ past_end' = TRUE
  /\ UNCHANGED <<fd, made, stdio, shifted, deaf>>

sys_read_stdin_deaf(t, n) ==
  LET d == list_get(files[t], n)
      e == list_get(gft, fd[d].gft_index)
  IN  /\ stdio[t] = 3
      /\ d # NULL
      /\ fd[d].read
      /\ e # NULL
      /\ e.node.kind = "ring" /\ n = 0
      /\ deaf' = TRUE
      /\ UNCHANGED <<gft, files, fd, made, stdio, shifted, past_end>>

\* read disables interrupts unless the descriptor is 0.  On an empty ring buffer
\* it waits: then no keystroke and no tick ever comes.  Other reads change
\* nothing here.
sys_read(t, n) ==
  LET d == list_get(files[t], n)
      e == list_get(gft, fd[d].gft_index)
  IN  /\ stdio[t] = 3
      /\ d # NULL
      /\ fd[d].read
      /\ e # NULL
      /\ e.node.kind = "ring" /\ n # 0
      /\ deaf' = TRUE
      /\ UNCHANGED <<gft, files, fd, made, stdio, shifted, past_end>>

TaskStep(t) == \/ ktask_create(t)
               \/ sys_open(t)
               \/ \E n \in Slots : sys_close(t, n)
               \/ sys_close_past_end(t)
               \/ \E n \in Slots : sys_read(t, n)

Next == ~deaf /\ \E t \in Tasks : TaskStep(t)

Spec == Init /\ [][Next]_vars

----------------------------------------------------------------------------
\* The runs stop where a slot past the end was used: memory that is no part of
\* a list decides what follows, and no property speaks of it.
InLists == ~past_end

\* Until an entry of the table is moved, every open descriptor resolves to the
\* node it was opened on (fd_to_node), and no slot is shared or leaked.
Resolves ==
  ~shifted /\ ~past_end =>
    /\ \A d \in open : /\ fd[d].gft_index \in 1..(gft.used - 1)
                       /\ gft.data[fd[d].gft_index] # NULL
                       /\ gft.data[fd[d].gft_index].node = fd[d].opened
    /\ \A c, d \in open : c # d => fd[c].gft_index # fd[d].gft_index
    /\ \A i \in 1..(gft.used - 1) : \E d \in open : fd[d].gft_index = i

\* Even when stale indices close the wrong entries, the table never has fewer
\* entries than there are open descriptors: the reserved slot 0 is never deleted.
OneSlotPerOpen == ~past_end => Cardinality(open) <= gft.used - 1

\* The descriptor lists hold open descriptors, each at one place: closing one
\* renumbers others but loses none and leaves no freed one behind.
Held(t) == {files[t].data[i] : i \in 0..(files[t].used - 1)}
ListsHoldOpen ==
  ~past_end => /\ \A t \in Tasks : Held(t) \subseteq open /\ Cardinality(Held(t)) = files[t].used
               /\ UNION {Held(t) : t \in Tasks} = open
               /\ \A t, u \in Tasks : t # u => Held(t) \cap Held(u) = {}

\* Opening and closing keep both kinds of lists, the table's and each task's, in
\* step with the descriptors that are open.
ListsRight == OneSlotPerOpen /\ ListsHoldOpen

\* Until an entry is moved, the comment of read holds: nobody waits for the
\* keyboard with interrupts disabled.
DeafOnlyIfShifted == ~shifted /\ ~past_end => ~deaf
=============================================================================
