-------------------------------- MODULE Vfs --------------------------------
(***************************************************************************)
(* The tree of nodes of kernel/fs/vfs.c with the file systems that fill it *)
(* (initrd, devfs, tmpfs, mounted ext2 partitions), the two users of its   *)
(* paths (the kernel shell and running programs), and the position that    *)
(* strtok keeps in static storage.                                         *)
(*                                                                         *)
(* A path is [abs |-> leading slash, names |-> components]; that strtok    *)
(* yields the components is checked in module Strings.  The name of a node *)
(* is a sequence of components too, because vfs_make_node may give a node  *)
(* a name with slashes in it: <<"a", "b">> is the name "a/b".              *)
(* The shell runs its commands while no program exists: it polls until     *)
(* the task it started, and with it its children, is gone.                 *)
(***************************************************************************)
EXTENDS Integers, Sequences, FiniteSets, SequencesExt

CONSTANTS MaxNodes,   \* bound on the nodes the heap can hold
          Programs,   \* sequence of the program tasks, each started by the one before
          Parts,      \* partitions of the drives
          Disk,       \* [Parts -> [linux, ext2, entries]], what the drive holds
          Archive,    \* the entries of the boot module, in archive order
          TmpPaths,   \* the paths given to tmpfs_create
          Machines    \* [parts, paths, tmp, users]: its partitions, the paths that
                      \* the user and programs name, bounds on the nodes made by
                      \* tmpfs_create and on the programs at a time

Nodes == 1 .. MaxNodes
NULL == 0
Root == 1
Tasks == ToSet(Programs)
Shell == "shell"
Types == {"FILE", "DIR", "CDEV", "MTPT"}
Dots == {".", ".."}

\* strtok yields no empty component
IsPath(path) == path.abs \in BOOLEAN /\ path.names \in Seq(STRING \ {""})

\* an entry lies in the root directory (up = 0) or in one listed before it
IsListing(entries) ==
    \A i \in DOMAIN entries : LET e == entries[i] IN
        /\ e.name \in STRING /\ e.type \in Types /\ e.ox \in BOOLEAN /\ e.up \in 0 .. i - 1
        /\ e.up # 0 => entries[e.up].name \notin Dots

\* 17 nodes and two for each archive entry are what boot makes
ASSUME VfsConstants ==
    /\ MaxNodes \in Nat /\ 17 + 2 * Len(Archive) <= MaxNodes
    /\ Programs \in Seq(STRING \ {Shell})
    /\ \A m \in Machines : /\ m.parts \subseteq Parts /\ m.tmp \in Nat
                             /\ m.users \in 0 .. Len(Programs) /\ \A path \in m.paths : IsPath(path)
    /\ \A p \in Parts : Len(Disk[p].entries) \in Nat /\ IsListing(Disk[p].entries)
                         /\ Disk[p].entries \in Seq({Disk[p].entries[i] : i \in DOMAIN Disk[p].entries})
    /\ Archive \in Seq({Archive[i] : i \in DOMAIN Archive})
    /\ \A i \in DOMAIN Archive : Archive[i].names \in Seq(STRING \ {".."})
                                /\ Archive[i].type \in {"FILE", "DIR"}
    /\ \A path \in TmpPaths : IsPath(path) /\ path.names # <<>>

\* the names that boot gives are strings: the provers have to be told
ASSUME VfsNames ==
    {"", "bin", "etc", "mnt", "home", "dev", "tmp", "yuun", "document.txt", "program.c",
     "com1", "com2", "com3", "com4", "con", "initrd", "0"} \subseteq STRING

VARIABLES machine, \* the machine that was booted
          tree,    \* [node, live]: the contents of node memory, the allocated nodes
          mtpts,   \* drv->mtpts: the node a partition is mounted on
          local,   \* the shell's variable cwd
          cwd,     \* cwd_node of the shell's task and of the programs
          tok,     \* what strtok's static pointer still has in front of it
          walk,    \* the path look-up a program is in
          lost,    \* ghost: an unmount has freed the shell's working directory
          orphan,  \* ghost: partitions whose mount point another unmount has freed
          wild     \* memory was changed through such a node: the model stops

vars == <<machine, tree, mtpts, local, cwd, tok, walk, lost, orphan, wild>>

Node == [name : Seq(STRING), type : Types, parent : Nodes, childs : Seq(Nodes),
         ox : BOOLEAN]
Idle == [pc |-> "idle"]
Absent == [pc |-> "absent"]

----------------------------------------------------------------------------
(* Nodes *)

\* kmalloc: the first free node; kfree leaves the contents in place
NewNode(t) == CHOOSE n \in Nodes \ t.live : \A m \in Nodes \ t.live : n <= m

\* the permission bits are reduced to the one that utask_create tests
vfs_create_node(parent, name, type) ==
    [name |-> name, type |-> type, parent |-> parent, childs |-> <<>>,
     ox |-> type = "DIR"]

vfs_add_child(t, parent, name, type) ==
    LET n == NewNode(t) IN
    [live |-> t.live \cup {n},
     node |-> [t.node EXCEPT ![n] = vfs_create_node(parent, name, type),
                             ![parent].childs = Append(@, n)]]

Below(t, n) ==
    LET reach[k \in 0 .. MaxNodes] ==
            IF k = 0 THEN ToSet(t.node[n].childs)
            ELSE LET above == reach[k - 1]
                 IN  above \cup UNION {ToSet(t.node[m].childs) : m \in above}
    IN  reach[MaxNodes]

\* mutant: the nodes below are unlinked and not given back
vfs_free_child_nodes_variant(t, n) == [t EXCEPT !.node[n].childs = <<>>]

Blank == [name |-> <<>>, type |-> "FILE", parent |-> Root, childs |-> <<>>, ox |-> FALSE]

\* The link of a child is read after the child was freed: kfree kept it.  Only
\* kshell_stale reads a freed node after that.
vfs_free_child_nodes(t, n) ==
    LET gone == Below(t, n) IN
    [live |-> t.live \ gone,
     node |-> [m \in Nodes |-> IF m \in gone THEN Blank
                               ELSE IF m = n THEN [t.node[n] EXCEPT !.childs = <<>>]
                               ELSE t.node[m]]]

\* the places of the children with a name
Named(t, parent, name) ==
    {i \in DOMAIN t.node[parent].childs : t.node[t.node[parent].childs[i]].name = name}

\* mutant: the last of two children with one name
vfs_get_child_by_name_variant(t, parent, name) ==
    IF name = <<".">> THEN parent
    ELSE IF name = <<"..">> THEN t.node[parent].parent
    ELSE IF Named(t, parent, name) = {} THEN NULL
    ELSE t.node[parent].childs[Max(Named(t, parent, name))]

vfs_get_child_by_name(t, parent, name) ==
    IF name = <<".">> THEN parent
    ELSE IF name = <<"..">> THEN t.node[parent].parent
    ELSE IF Named(t, parent, name) = {} THEN NULL
    ELSE t.node[parent].childs[Min(Named(t, parent, name))]

\* the nodes that vfs_node_from_path comes to when nothing interrupts it
Visits(t, from, names) ==
    LET at[i \in 0 .. Len(names)] ==
            IF i = 0 THEN from
            ELSE LET before == at[i - 1]
                 IN  IF before = NULL THEN NULL ELSE vfs_get_child_by_name(t, before, <<names[i]>>)
    IN  at

Resolve(t, from, names) == Visits(t, from, names)[Len(names)]

\* what strtok has left after that: the tokens after the first that names nothing
Left(t, from, names) ==
    LET at == Visits(t, from, names)
        taken == Min({i \in 1 .. Len(names) : at[i] = NULL} \cup {Len(names)})
    IN  SubSeq(names, taken + 1, Len(names))

From(path, rel) == IF path.abs THEN Root ELSE rel
vfs_node_from_path(t, rel, path) == Resolve(t, From(path, rel), path.names)

\* strtok passes over the empty component behind a slash that ends a name
Tokens(name) == IF name # <<>> /\ Last(name) = "" THEN Front(name) ELSE name

\* n, its parent, and so on up to the root, which is its own parent
Up(t, n) == LET up[k \in 0 .. MaxNodes] == IF k = 0 THEN n ELSE t.node[up[k - 1]].parent IN up
IsRoot(t, n) == t.node[n].parent = n
Depth(t, n) == CHOOSE k \in 0 .. MaxNodes : /\ IsRoot(t, Up(t, n)[k])
                                            /\ \A j \in 0 .. k - 1 : ~IsRoot(t, Up(t, n)[j])

\* the components from the root, whose own name is "/", down to n
vfs_abs_path_to(t, n) ==
    LET path[k \in 0 .. MaxNodes] ==
            IF k = 0 THEN <<>> ELSE Tokens(t.node[Up(t, n)[k - 1]].name) \o path[k - 1]
    IN  path[Depth(t, n)]

\* One round of the loop of vfs_make_node.
Enter(s, token, type) ==
    LET child == vfs_get_child_by_name(s.t, s.cur, token) IN
    IF child # NULL THEN [s EXCEPT !.cur = child]
    ELSE [t |-> vfs_add_child(s.t, s.cur, token, type), cur |-> NewNode(s.t)]

\* The first strtok splits at '/', the second at ' ': only two tokens come out,
\* and the slash that ends the name of a directory stays in the second one.
vfs_make_node(t, root, names, type) ==
    LET start == [t |-> t, cur |-> root]
        first == IF names = <<>> THEN start ELSE Enter(start, <<Head(names)>>, type)
        end == IF Len(names) <= 1 THEN first
               ELSE Enter(first, Tail(names) \o (IF type = "DIR" THEN <<"">> ELSE <<>>), type)
        typed == [end.t EXCEPT !.node[end.cur].type = type]
    IN  IF type = "FILE" THEN vfs_free_child_nodes(typed, end.cur) ELSE typed

----------------------------------------------------------------------------
(* What boot puts into the tree *)

AddAll(t, parent, names, type) ==
    LET after[i \in 0 .. Len(names)] ==
            IF i = 0 THEN t ELSE vfs_add_child(after[i - 1], parent, <<names[i]>>, type)
    IN  after[Len(names)]

vfs_dummy ==
    LET root == [live |-> {Root},
                 node |-> [n \in Nodes |-> IF n = Root THEN vfs_create_node(Root, <<>>, "DIR")
                                           ELSE Blank]]
        top  == AddAll(root, Root, <<"bin", "etc", "mnt", "home", "dev", "tmp">>, "DIR")
        home == vfs_node_from_path(top, Root, [abs |-> TRUE, names |-> <<"home">>])
    IN  AddAll(AddAll(top, home, <<"yuun">>, "DIR"), NewNode(top),
               <<"document.txt", "program.c">>, "FILE")

\* serial_init for the four ports, then console_init
devfs_register_dev(t, root) == AddAll(t, root, <<"com1", "com2", "com3", "com4", "con">>, "CDEV")

tar_parse(t, module, archive) ==
    LET after[i \in 0 .. Len(archive)] ==
            IF i = 0 THEN t ELSE vfs_make_node(after[i - 1], module, archive[i].names, archive[i].type)
    IN  after[Len(archive)]

initrd_init(t) ==
    LET dir == vfs_add_child(t, Root, <<"initrd">>, "DIR")
        mod == vfs_add_child(dir, NewNode(t), <<"0">>, "DIR")
    IN  tar_parse(mod, NewNode(dir), Archive)

BootTree ==
    LET dev == vfs_node_from_path(vfs_dummy, Root, [abs |-> TRUE, names |-> <<"dev">>])
    IN  initrd_init(devfs_register_dev(vfs_dummy, dev))

TmpRoot == vfs_node_from_path(BootTree, Root, [abs |-> TRUE, names |-> <<"tmp">>])

\* kmain, then the first lines of kshell: the shell stands in the root
Init ==
    /\ machine \in Machines
    /\ tree = BootTree
    /\ mtpts = [p \in Parts |-> NULL]
    /\ local = Root
    /\ cwd = [x \in Tasks \cup {Shell} |-> Root]
    /\ tok = <<>>
    /\ walk = [x \in Tasks |-> Absent]
    /\ lost = FALSE /\ orphan = {} /\ wild = FALSE

----------------------------------------------------------------------------
(* The kernel shell; strtok's position is not read across its commands *)

Users == {Programs[i] : i \in 1 .. machine.users}
\* mutant: the shell does not wait for the task it started
NoProgram_variant == TRUE

NoProgram == \A x \in Tasks : walk[x] = Absent

\* cd: the shell's variable moves, then sys_setcwd looks the absolute path up again
kshell_cd(path) ==
    /\ NoProgram
    /\ LET n == vfs_node_from_path(tree, local, path)
           found == n # NULL /\ tree.node[n].type \in {"DIR", "MTPT"}
           there == IF found THEN n ELSE local
           again == Resolve(tree, Root, vfs_abs_path_to(tree, there))
       IN  /\ lost => path.abs /\ found
           /\ local' = there
           /\ cwd' = [cwd EXCEPT ![Shell] = IF again = NULL THEN @ ELSE again]
           /\ lost' = FALSE
    /\ UNCHANGED <<machine, tree, mtpts, tok, walk, orphan, wild>>

\* vfs_ext2_populate: entries in the order of the directories; up is the index
\* of the entry of the directory they are in, 0 for the root directory
Listed(s, mtpt, e) ==
    LET n == NewNode(s.t)
        t2 == vfs_add_child(s.t, IF e.up = 0 THEN mtpt ELSE s.ids[e.up], <<e.name>>, e.type)
    IN  IF e.name \in Dots THEN [s EXCEPT !.ids = Append(@, NULL)]
        ELSE [t |-> [t2 EXCEPT !.node[n].ox = e.ox], ids |-> Append(s.ids, n)]

vfs_ext2_populate(t, mtpt, entries) ==
    LET after[i \in 0 .. Len(entries)] ==
            IF i = 0 THEN [t |-> t, ids |-> <<>>] ELSE Listed(after[i - 1], mtpt, entries[i])
    IN  after[Len(entries)].t

\* bounds the model: the code does not test what kmalloc returns
HeapHas(n) == Cardinality(tree.live) + n <= MaxNodes

\* mount: every error return of vfs_mount_partition leaves the tree alone
vfs_mount_partition(p, path) ==
    LET mtpt == vfs_node_from_path(tree, local, path)
        full == vfs_ext2_populate(tree, mtpt, Disk[p].entries)
    IN  /\ NoProgram
        /\ lost => path.abs
        /\ p \in machine.parts
        /\ mtpts[p] = NULL /\ Disk[p].linux /\ Disk[p].ext2
        /\ mtpt # NULL /\ tree.node[mtpt].childs = <<>>
        /\ HeapHas(Len(Disk[p].entries))
        /\ tree' = [full EXCEPT !.node[mtpt].type = "MTPT"]
        /\ mtpts' = [mtpts EXCEPT ![p] = mtpt]
        /\ UNCHANGED <<machine, local, cwd, tok, walk, lost, orphan, wild>>

vfs_umount_partition(p) ==
    /\ NoProgram
    /\ mtpts[p] # NULL /\ p \notin orphan
    /\ LET t == vfs_free_child_nodes(tree, mtpts[p]) IN
       /\ tree' = [t EXCEPT !.node[mtpts[p]].type = "DIR"]
       /\ mtpts' = [mtpts EXCEPT ![p] = NULL]
       /\ lost' = (lost \/ local \in Below(tree, mtpts[p]))
       /\ orphan' = orphan \cup {q \in Parts : mtpts[q] \in Below(tree, mtpts[p])}
    /\ UNCHANGED <<machine, local, cwd, tok, walk, wild>>

\* utask_create refuses a node whose permissions have bit VFS_DIR (0x1) set
Runnable(n) == n # NULL /\ ~tree.node[n].ox

\* ktask_create gives the new task its parent's cwd
Start(x, parent) ==
    /\ walk' = [walk EXCEPT ![x] = Idle]
    /\ cwd' = [cwd EXCEPT ![x] = cwd[parent]]

kshell_run(path) ==
    LET n == vfs_node_from_path(tree, local, path) IN
    /\ NoProgram /\ ~lost /\ machine.users > 0
    /\ n # NULL /\ Runnable(Resolve(tree, Root, vfs_abs_path_to(tree, n)))
    /\ Start(Head(Programs), Shell)
    /\ UNCHANGED <<machine, tree, mtpts, local, tok, lost, orphan, wild>>

\* The shell goes on with a freed working directory or mount point: a relative
\* path, a program that inherits it, an unmount of an orphan.  Once other
\* allocations have taken the memory these write into foreign nodes.
kshell_stale ==
    /\ NoProgram
    /\ \/ lost
       \/ \E p \in orphan : mtpts[p] # NULL
    /\ wild' = TRUE
    /\ UNCHANGED <<machine, tree, mtpts, local, cwd, tok, walk, lost, orphan>>

----------------------------------------------------------------------------
(* tmpfs *)

Created == {n \in tree.live : \E k \in 0 .. 1 : n \in ToSet(
                IF k = 0 THEN tree.node[TmpRoot].childs
                ELSE FlattenSeq([i \in DOMAIN tree.node[TmpRoot].childs |->
                                   tree.node[tree.node[TmpRoot].childs[i]].childs]))}

\* The path is refused when it is absolute or has ".."; all but the last
\* component name the parent; an existing node of that name is not looked for
tmpfs_create(path, type) ==
    LET parent == Resolve(tree, TmpRoot, Front(path.names)) IN
    /\ NoProgram /\ HeapHas(1)
    /\ Cardinality(Created) < machine.tmp
    /\ ~path.abs /\ ".." \notin ToSet(path.names)
    /\ parent # NULL
    /\ tree' = vfs_add_child(tree, parent, <<Last(path.names)>>, type)
    /\ UNCHANGED <<machine, mtpts, local, cwd, tok, walk, lost, orphan, wild>>

----------------------------------------------------------------------------
(* Programs: system calls run with interrupts enabled, so a look-up is one  *)
(* step per token and every strtok call takes the position from the others  *)

Torn(x) == [y \in Tasks |-> IF y # x /\ walk[y].pc = "walk"
                            THEN [walk[y] EXCEPT !.torn = TRUE] ELSE walk[y]]

Begin(x, why, path) ==
    LET from == From(path, cwd[x]) IN
    /\ tok' = IF path.names = <<>> THEN <<>> ELSE Tail(path.names)
    /\ walk' = [Torn(x) EXCEPT ![x] =
                  [pc |-> "walk", for |-> why, node |-> from,
                   token |-> IF path.names = <<>> THEN <<>> ELSE <<Head(path.names)>>,
                   goal |-> Resolve(tree, from, path.names), torn |-> FALSE]]

sys_setcwd(x, path) ==
    /\ walk[x] = Idle
    /\ Begin(x, "setcwd", path)
    /\ UNCHANGED <<machine, tree, mtpts, local, cwd, lost, orphan, wild>>

sys_run(x, path) ==
    /\ walk[x] = Idle
    /\ Begin(x, "run", path)
    /\ UNCHANGED <<machine, tree, mtpts, local, cwd, lost, orphan, wild>>

\* mutant: strtok does not move on
WalkToken_variant(x) ==
    LET n == vfs_get_child_by_name(tree, walk[x].node, walk[x].token) IN
    /\ walk[x].pc = "walk" /\ walk[x].token # <<>> /\ walk[x].node # NULL
    /\ walk' = [Torn(x) EXCEPT ![x].node = n, ![x].token = IF tok = <<>> THEN <<>> ELSE <<Head(tok)>>]
    /\ UNCHANGED <<machine, tree, mtpts, local, cwd, tok, lost, orphan, wild>>

\* one round of the loop of vfs_node_from_path
WalkToken(x) ==
    LET w == walk[x]
        n == vfs_get_child_by_name(tree, w.node, w.token)
    IN  /\ w.pc = "walk" /\ w.token # <<>> /\ w.node # NULL
        /\ IF n = NULL
           THEN /\ walk' = [walk EXCEPT ![x].node = NULL]
                /\ UNCHANGED tok
           ELSE /\ tok' = IF tok = <<>> THEN <<>> ELSE Tail(tok)
                /\ walk' = [Torn(x) EXCEPT ![x].node = n,
                              ![x].token = IF tok = <<>> THEN <<>> ELSE <<Head(tok)>>]
        /\ UNCHANGED <<machine, tree, mtpts, local, cwd, lost, orphan, wild>>

Done(x, why) == /\ walk[x].pc = "walk" /\ walk[x].for = why
                /\ walk[x].token = <<>> \/ walk[x].node = NULL

sys_setcwd_done(x) ==
    /\ Done(x, "setcwd")
    /\ cwd' = [cwd EXCEPT ![x] = IF walk[x].node = NULL THEN @ ELSE walk[x].node]
    /\ walk' = [walk EXCEPT ![x] = Idle]
    /\ UNCHANGED <<machine, tree, mtpts, local, tok, lost, orphan, wild>>

\* the absolute path of the node found is looked up again in utask_create
sys_run_found(x) ==
    /\ Done(x, "run") /\ walk[x].node # NULL
    /\ Begin(x, "exec", [abs |-> TRUE, names |-> vfs_abs_path_to(tree, walk[x].node)])
    /\ UNCHANGED <<machine, tree, mtpts, local, cwd, lost, orphan, wild>>

\* a task is started when the node can be run and there is a task left
sys_run_done(x) ==
    /\ \/ Done(x, "run") /\ walk[x].node = NULL
       \/ Done(x, "exec")
    /\ \/ \E y \in Users : /\ walk[y] = Absent
                           /\ Runnable(walk[x].node)
                           /\ walk' = [walk EXCEPT ![x] = Idle, ![y] = Idle]
                           /\ cwd' = [cwd EXCEPT ![y] = cwd[x]]
       \/ /\ ~Runnable(walk[x].node) \/ \A y \in Users : walk[y] # Absent
          /\ walk' = [walk EXCEPT ![x] = Idle]
          /\ UNCHANGED cwd
    /\ UNCHANGED <<machine, tree, mtpts, local, tok, lost, orphan, wild>>

\* open runs with interrupts disabled and looks the path up from the root
sys_open(x, path) ==
    /\ walk[x] = Idle
    /\ tok' = Left(tree, Root, path.names)
    /\ walk' = Torn(x)
    /\ UNCHANGED <<machine, tree, mtpts, local, cwd, lost, orphan, wild>>

\* the task and, by the recursion of mt_task_terminate, the tasks it started
sys_exit(x) ==
    LET gone == {y \in Tasks : \E i, j \in DOMAIN Programs :
                    i <= j /\ Programs[i] = x /\ Programs[j] = y} IN
    /\ walk[x] = Idle
    /\ walk' = [y \in Tasks |-> IF y \in gone THEN Absent ELSE walk[y]]
    /\ cwd' = [y \in DOMAIN cwd |-> IF y \in gone THEN Root ELSE cwd[y]]
    /\ UNCHANGED <<machine, tree, mtpts, local, tok, lost, orphan, wild>>

Step ==
    \/ \E path \in machine.paths : kshell_cd(path) \/ kshell_run(path)
    \/ kshell_stale
    \/ \E p \in Parts : \/ vfs_umount_partition(p)
                        \/ \E path \in machine.paths : vfs_mount_partition(p, path)
    \/ \E path \in TmpPaths, type \in {"FILE", "DIR"} : tmpfs_create(path, type)
    \/ \E x \in Tasks :
         \/ \E path \in machine.paths : sys_setcwd(x, path) \/ sys_run(x, path) \/ sys_open(x, path)
         \/ WalkToken(x) \/ sys_setcwd_done(x) \/ sys_run_found(x) \/ sys_run_done(x)
         \/ sys_exit(x)

Next == (~wild /\ Step) \/ (wild /\ UNCHANGED vars)

Spec == Init /\ [][Next]_vars

----------------------------------------------------------------------------
(* Properties *)

\* Every link of the tree, of the mount table and of the tasks names a node.
TypeOK ==
    /\ tree.live \subseteq Nodes /\ DOMAIN tree.node = Nodes
    /\ \A n \in Nodes : /\ tree.node[n].type \in Types /\ tree.node[n].parent \in Nodes
                         /\ ToSet(tree.node[n].childs) \subseteq Nodes
    /\ mtpts \in [Parts -> Nodes \cup {NULL}]
    /\ local \in Nodes /\ cwd \in [Tasks \cup {Shell} -> Nodes]

\* Whatever is mounted, unmounted and created, the allocated nodes are exactly
\* the tree below the root: each is once in the child list of its parent, and
\* no list holds a node that vfs_free_node has given back.
TreeOK ==
    /\ tree.live = {Root} \cup Below(tree, Root)
    /\ \A n \in tree.live : \A i \in DOMAIN tree.node[n].childs :
          /\ tree.node[tree.node[n].childs[i]].parent = n
          /\ \A j \in DOMAIN tree.node[n].childs :
                i # j => tree.node[n].childs[i] # tree.node[n].childs[j]

Ancestors(n) == {Up(tree, n)[k] : k \in 0 .. Depth(tree, n)}

\* a name with a slash, or an earlier sibling of the same name
Hidden(n) ==
    LET childs == tree.node[tree.node[n].parent].childs IN
    \/ Len(tree.node[n].name) > 1
    \/ \E i, j \in DOMAIN childs : i < j /\ childs[j] = n
                                  /\ tree.node[childs[i]].name = tree.node[n].name

\* vfs_abs_path_to and vfs_node_from_path are inverse, which the shell's cd,
\* run and sys_run rely on, except below a node that its name does not find.
PathInverse ==
    \A n \in tree.live :
        (\A m \in Ancestors(n) : ~Hidden(m))
        <=> Resolve(tree, Root, vfs_abs_path_to(tree, n)) = n

\* Nodes are created through tmpfs only below its root: apart from mount points,
\* what boot made elsewhere keeps the children boot gave it.
TmpConfined ==
    \A n \in BootTree.live \ {TmpRoot} :
        (\A p \in Parts : n # mtpts[p]) => tree.node[n].childs = BootTree.node[n].childs

\* nothing but "." and "..": on its mount point another partition can be mounted
Bare(p) == \A i \in DOMAIN Disk[p].entries :
              Disk[p].entries[i].up = 0 => Disk[p].entries[i].name \in Dots

\* A mount point stays an allocated node until its own umount; the exception is a
\* partition mounted inside another one that is unmounted first.  It is of type
\* VFS_MTPT and serves one partition, unless one of the drive's is empty.
MountsLive ==
    \A p \in Parts \ orphan : mtpts[p] # NULL =>
        /\ mtpts[p] \in tree.live
        /\ (\A q \in machine.parts : ~Bare(q)) =>
              /\ tree.node[mtpts[p]].type = "MTPT"
              /\ \A q \in Parts \ (orphan \cup {p}) : mtpts[q] # mtpts[p]

\* A task's working directory, and the shell's own variable, name a freed node
\* only after the partition that the shell stood in was unmounted.
CwdLive ==
    ~lost => {local} \cup {cwd[x] : x \in DOMAIN cwd} \subseteq tree.live

\* The shell's variable and the cwd_node of its task are the same node, though
\* cd finds the second one by looking the absolute path of the first one up.
ShellAgrees == ~lost => local = cwd[Shell]

\* A path look-up whose strtok position no other look-up has taken is on its
\* way to the node its path names.
WalkOnTrack ==
    \A x \in Tasks : walk[x].pc = "walk" /\ ~walk[x].torn =>
        walk[x].goal = IF walk[x].node = NULL THEN NULL
                       ELSE Resolve(tree, walk[x].node,
                                    IF walk[x].token = <<>> THEN <<>> ELSE walk[x].token \o tok)

\* An archive entry is found by its path exactly when it lies in the top
\* directory, or is a file in a directory of that: vfs_make_node puts the rest
\* of a longer path, or a path and its last slash, into one name.
ArchiveDepth ==
    \A i \in DOMAIN Archive :
        (vfs_node_from_path(tree, Root, [abs |-> TRUE, names |-> <<"initrd", "0">> \o Archive[i].names])
           # NULL)
        <=> \/ Len(Archive[i].names) <= 1
            \/ Len(Archive[i].names) = 2 /\ Archive[i].type = "FILE"

\* Mounts, unmounts, boot and tmpfs leave one tree, with no dangling and no stray
\* node, whatever order they come in.
TreeSound == TypeOK /\ TreeOK /\ TmpConfined

\* Paths and nodes correspond: printing a path and looking it up are inverse, and
\* the archive's entries are found where vfs_make_node can put them.
PathsRight == PathInverse /\ ArchiveDepth

\* Everything that keeps a node across calls (mount points, working directories,
\* the shell's variable) keeps one that is still allocated, through every umount
\* but the two that CwdLive and MountsLive except.
HoldersLive == CwdLive /\ MountsLive /\ ShellAgrees
============================================================================
