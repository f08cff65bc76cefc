----------------------------- MODULE Scheduler -----------------------------
(***************************************************************************)
(* The task list, the round-robin scheduler and the task life cycle        *)
(* (kernel/multitasking/scheduler.c, task.c, task_switch.s), together with *)
(* their callers: kmain, the kernel shell and the exit, run and wait       *)
(* system calls.                                                           *)
(*                                                                         *)
(* One processor executes one context at a time.  System calls go through  *)
(* a trap gate, so kernel code runs with interrupts enabled unless it says *)
(* cli, and the timer interrupt (Tick) may arrive between any two steps.   *)
(* A step is one access to the shared task structures, in program order.   *)
(***************************************************************************)
EXTENDS Integers, Sequences, FiniteSets

CONSTANTS TCBs,                     \* addresses kmalloc may return for a task_t
          NULL,
          Idle, Test, Cleaner,      \* the TCBs made by mt_init
          MAX_PID,
          DEFAULT_TIME_SLICE,
          TermPids,                 \* what the operator types after "term"
          UserRuns,                 \* do user programs call run and wait?
          MaxSpawns,                \* bound: tasks created after mt_init
          MaxDepth                  \* bound: nested calls of mt_task_terminate

ASSUME BootAssumption ==
  /\ {Idle, Test, Cleaner} \subseteq TCBs
  /\ Idle # Test /\ Idle # Cleaner /\ Test # Cleaner
  /\ NULL \notin TCBs /\ IsFiniteSet(TCBs)
ASSUME NumberAssumption ==
  /\ MAX_PID \in Nat /\ DEFAULT_TIME_SLICE \in Nat \ {0}
  /\ TermPids \subseteq Nat /\ UserRuns \in BOOLEAN
  /\ MaxSpawns \in Nat /\ MaxDepth \in Nat

VARIABLES tcb,                      \* the task_t structures, by address
          allocated,                \* the addresses not given back by kfree
          terminated_tasks, cur_task, fg_task,
          next_pid,                 \* the static _pid of gen_pid
          cpu,                      \* whose kernel stack is in %esp
          interrupts,               \* the interrupt flag
          ctx,                      \* the kernel context living on each stack
          torn,                     \* history: a tick has hit a Window, or the cleaner was terminated
          spawns                    \* history: tasks created so far (bound)

vars == <<tcb, allocated, terminated_tasks, cur_task, fg_task, next_pid,
          cpu, interrupts, ctx, torn, spawns>>
lists == <<tcb, allocated, terminated_tasks>>
history == <<torn, spawns>>

Pointers == TCBs \cup {NULL}
States == {"TS_SUS", "TS_RDY", "TS_RUN", "TS_FIN"}
Entries == {"ker_idle", "cleaner", "kshell", "utask_exec"}

\* Where a context stands: the next line of its code that it will execute.
Labels == {"hlt", "kmain", "clean", "destroy", "prompt", "user",
           "gen_pid", "inc_pid", "create", "find_tail", "link", "backlink",
           "set_fg", "wait", "reset_fg", "find_term",
           "unlink_prev", "unlink_next", "push", "push_first", "push_next",
           "push_prev", "push_head", "scan",
           "pick", "switch_save", "switch_load"}

\* Inside these windows a timer tick separates accesses that belong together:
\* the look-up of mt_task_terminate_pid from the use of its result,
\* mt_task_terminate from its first store to its last, gen_pid and mt_push_task
\* from the read to the store it decides, and the task mt_schedule has picked
\* from the stack switch of mt_switch_task to it.
Windows == {"find_term", "unlink_prev", "unlink_next", "push", "push_first",
            "push_next", "push_prev", "push_head", "scan",
            "inc_pid", "find_tail", "link", "backlink", "switch_save", "switch_load"}

\* tasks is assigned once, in mt_push_task, for the first task of mt_init.
tasks == Idle

----------------------------------------------------------------------------
(* Walking the list from a node: every hop follows next.  Corrupted lists   *)
(* may be cyclic; as many hops as there are TCBs visit all there is.        *)
MaxHops == Cardinality(TCBs)

Hops(start) ==
  LET hop[k \in 0..MaxHops] ==
        IF k = 0 THEN start
        ELSE IF hop[k - 1] \in TCBs THEN tcb[hop[k - 1]].next ELSE NULL
  IN  hop

Reach(start) == LET hop == Hops(start) IN {hop[k] : k \in 0..MaxHops} \ {NULL}

\* The first node of S on the way from start, or NULL.
First(start, S) ==
  LET hop == Hops(start)
      hits == {k \in 0..MaxHops : hop[k] \in S /\ \A j \in 0..(k - 1) : hop[j] \notin S}
      firsts == {hop[k] : k \in hits}
  IN  IF firsts = {} THEN NULL ELSE CHOOSE t \in firsts : TRUE

mt_get_task_by_pid(p) == First(tasks, {t \in TCBs : tcb[t].pid = p})

mt_pick_first_task ==
  LET n == First(tcb[tasks].next, {t \in TCBs : tcb[t].state # "TS_FIN"})
  IN  IF n = NULL THEN tasks ELSE n

\* TS_FIN is skipped here although nothing ever assigns it.
mt_pick_next_task ==
  LET n == First(tcb[cur_task].next, {t \in TCBs : tcb[t].state # "TS_FIN"})
  IN  IF n = NULL THEN tasks ELSE n

----------------------------------------------------------------------------
(* What a step does to the context that is running.                         *)
me == ctx[cpu]
At(l) == me.pc = l
\* A context whose pointers were lost (only after a torn update) faults: it
\* takes no further step of its own.
Using(l, ps) == At(l) /\ NULL \notin ps
Goto(l) == ctx' = [ctx EXCEPT ![cpu].pc = l]
GotoWith(l, p) == ctx' = [ctx EXCEPT ![cpu].pc = l, ![cpu].ptr = p]
Return == CASE me.entry = "kshell" -> "prompt"
            [] me.entry = "ker_idle" -> "hlt"
            [] OTHER -> "user"

NewTask(p, pp, s) ==
  [pid |-> p, ppid |-> pp, state |-> "TS_RDY", next |-> NULL, prev |-> NULL,
   remaining |-> DEFAULT_TIME_SLICE, esp |-> [who |-> s, halts |-> FALSE]]
NewContext(e, l) ==
  [pc |-> l, entry |-> e, ptr |-> NULL, new |-> NULL, pid |-> 0, frames |-> << >>]

\* mt_init has run; kmain, on what is now the stack of kernel_idle, is about
\* to spawn the shell.
Init ==
  /\ tcb = [t \in TCBs |->
       CASE t = Idle    -> [NewTask(0, 0, Idle) EXCEPT !.next = Test]
         [] t = Test    -> [NewTask(1, 0, Test) EXCEPT !.next = Cleaner, !.prev = Idle]
         [] t = Cleaner -> [NewTask(2, 0, Cleaner) EXCEPT !.prev = Test]
         [] OTHER       -> NewTask(0, 0, t)]
  /\ allocated = {Idle, Test, Cleaner}
  /\ terminated_tasks = NULL
  /\ cur_task = tasks
  /\ fg_task = NULL
  /\ next_pid = 3
  /\ cpu = Idle
  /\ interrupts = TRUE
  /\ ctx = [t \in TCBs |->
       CASE t = Idle    -> NewContext("ker_idle", "kmain")
         [] t = Cleaner -> NewContext("cleaner", "clean")
         [] OTHER       -> NewContext("ker_idle", "hlt")]
  /\ torn = FALSE
  /\ spawns = 0

----------------------------------------------------------------------------
(* mt_spawn_ktask / mt_spawn_utask: gen_pid, ktask_create, mt_push_task.    *)

Spawn ==
  /\ \/ At("kmain")
     \/ At("prompt")
     \/ At("user") /\ UserRuns
  /\ spawns < MaxSpawns
  /\ Goto("gen_pid")
  /\ spawns' = spawns + 1
  /\ UNCHANGED <<lists, cur_task, fg_task, next_pid, cpu, interrupts, torn>>

\* The search for an unused pid, made once when _pid passes MAX_PID.
FirstUnusedPid ==
  LET firsts == {p \in 0..MaxHops : /\ mt_get_task_by_pid(p) = NULL
                                    /\ \A q \in 0..(p - 1) : mt_get_task_by_pid(q) # NULL}
  IN  IF firsts = {} THEN 0 ELSE CHOOSE p \in firsts : TRUE

gen_pid ==
  /\ At("gen_pid")
  /\ LET p == IF next_pid > MAX_PID THEN FirstUnusedPid ELSE next_pid
     IN  ctx' = [ctx EXCEPT ![cpu].pc = "inc_pid", ![cpu].pid = p]
  /\ UNCHANGED <<lists, cur_task, fg_task, next_pid, cpu, interrupts, history>>

inc_pid_lost ==
  /\ At("inc_pid")
  /\ next_pid' = me.pid
  /\ Goto("create")
  /\ UNCHANGED <<lists, cur_task, fg_task, cpu, interrupts, history>>

inc_pid ==
  /\ At("inc_pid")
  /\ next_pid' = me.pid + 1
  /\ Goto("create")
  /\ UNCHANGED <<lists, cur_task, fg_task, cpu, interrupts, history>>

\* The parent is the caller (kmain passes pid 0).  A creation without parent
\* fails; otherwise kmalloc returns any block that is not in use.
Parent == IF me.entry = "ker_idle" THEN 0 ELSE tcb[cur_task].pid

ktask_create ==
  /\ At("create")
  /\ UNCHANGED <<terminated_tasks, cur_task, fg_task, next_pid, cpu, interrupts, history>>
  /\ \/ /\ mt_get_task_by_pid(Parent) = NULL /\ me.pid # 0
        /\ Goto(Return)
        /\ UNCHANGED <<tcb, allocated>>
     \/ /\ mt_get_task_by_pid(Parent) # NULL \/ me.pid = 0
        /\ \E t \in TCBs \ allocated :
             LET e == IF me.entry = "ker_idle" THEN "kshell" ELSE "utask_exec"
                 l == IF e = "kshell" THEN "prompt" ELSE "user"
             IN  /\ allocated' = allocated \cup {t}
                 /\ tcb' = [tcb EXCEPT ![t] =
                      [NewTask(me.pid, Parent, t) EXCEPT !.prev = tcb[t].prev]]
                 /\ ctx' = [ctx EXCEPT ![t] = NewContext(e, l),
                                       ![cpu].new = t, ![cpu].ptr = tasks,
                                       ![cpu].pc = "find_tail"]

mt_push_task_find ==
  /\ Using("find_tail", {me.ptr})
  /\ LET n == tcb[me.ptr].next
     IN  IF n = NULL THEN Goto("link") ELSE GotoWith("find_tail", n)
  /\ UNCHANGED <<lists, cur_task, fg_task, next_pid, cpu, interrupts, history>>

mt_push_task_link ==
  /\ Using("link", {me.ptr, me.new})
  /\ tcb' = [tcb EXCEPT ![me.ptr].next = me.new]
  /\ Goto("backlink")
  /\ UNCHANGED <<allocated, terminated_tasks, cur_task, fg_task, next_pid, cpu, interrupts, history>>

\* Last store of mt_push_task; the spawner returns the pid of the new task.
\* The shell goes on to wait for it, kmain hangs, a program continues.
mt_push_task_backlink ==
  /\ Using("backlink", {me.ptr, me.new})
  /\ tcb' = [tcb EXCEPT ![me.new].prev = me.ptr]
  /\ ctx' = [ctx EXCEPT ![cpu].pc = IF me.entry = "kshell" THEN "set_fg" ELSE Return,
                        ![cpu].pid = tcb[me.new].pid,
                        ![cpu].ptr = tasks]
  /\ UNCHANGED <<allocated, terminated_tasks, cur_task, fg_task, next_pid, cpu, interrupts, history>>

----------------------------------------------------------------------------
(* sys_wait, and the same code inlined in kshell.                           *)

\* A program waits for the task it ran last.
sys_wait ==
  /\ At("user") /\ me.new # NULL
  /\ GotoWith("set_fg", tasks)
  /\ UNCHANGED <<lists, cur_task, fg_task, next_pid, cpu, interrupts, history>>

\* One hop of mt_get_task_by_pid(me.pid).
Found == me.ptr = NULL \/ (me.ptr # NULL /\ tcb[me.ptr].pid = me.pid)

Hop ==
  /\ At("set_fg") \/ At("wait") \/ At("find_term")
  /\ ~Found
  /\ GotoWith(me.pc, tcb[me.ptr].next)
  /\ UNCHANGED <<lists, cur_task, fg_task, next_pid, cpu, interrupts, history>>

wait_set_fg ==
  /\ At("set_fg") /\ Found
  /\ fg_task' = me.ptr
  /\ GotoWith("wait", tasks)
  /\ UNCHANGED <<lists, cur_task, next_pid, cpu, interrupts, history>>

wait_poll_again ==
  /\ At("wait") /\ Found
  /\ IF me.ptr # NULL THEN Goto("reset_fg") ELSE GotoWith("wait", tasks)
  /\ UNCHANGED <<lists, cur_task, fg_task, next_pid, cpu, interrupts, history>>

wait_poll ==
  /\ At("wait") /\ Found
  /\ IF me.ptr = NULL THEN Goto("reset_fg") ELSE GotoWith("wait", tasks)
  /\ UNCHANGED <<lists, cur_task, fg_task, next_pid, cpu, interrupts, history>>

wait_reset_fg ==
  /\ At("reset_fg")
  /\ fg_task' = cur_task
  /\ Goto(Return)
  /\ UNCHANGED <<lists, cur_task, next_pid, cpu, interrupts, history>>

----------------------------------------------------------------------------
(* mt_task_terminate.  frames is the stack of its calls, the innermost      *)
(* last: t is the argument, i the loop variable.                            *)

depth == Len(me.frames)
top == me.frames[depth]
Terminating(l) == At(l) /\ depth > 0
Call(t) == ctx' = [ctx EXCEPT ![cpu].pc = "unlink_prev",
                              ![cpu].frames = Append(@, [t |-> t, i |-> NULL])]

\* The next field of a TCB, and a store through a pointer; one through NULL misses every TCB.
Load(p) == IF p = NULL THEN NULL ELSE tcb[p].next
Stored(p, q, field) == IF p = NULL THEN tcb
                       ELSE IF field = "next" THEN [tcb EXCEPT ![p].next = q]
                       ELSE [tcb EXCEPT ![p].prev = q]

\* The shell's "term": mt_task_terminate_pid looks the pid up.
kshell_term ==
  /\ At("prompt")
  /\ \E p \in TermPids :
       ctx' = [ctx EXCEPT ![cpu].pc = "find_term", ![cpu].pid = p, ![cpu].ptr = tasks]
  /\ UNCHANGED <<lists, cur_task, fg_task, next_pid, cpu, interrupts, history>>

mt_task_terminate_pid ==
  /\ At("find_term") /\ Found
  /\ IF me.ptr = NULL THEN Goto("prompt") ELSE Call(me.ptr)
  /\ UNCHANGED <<lists, cur_task, fg_task, next_pid, cpu, interrupts, history>>

sys_exit ==
  /\ At("user")
  /\ Call(cur_task)
  /\ UNCHANGED <<lists, cur_task, fg_task, next_pid, cpu, interrupts, history>>

\* Return from the innermost call: the outer loop advances to i->next, the
\* outermost call returns to the shell or into sys_exit.
TerminateReturn ==
  LET outer == SubSeq(me.frames, 1, depth - 1)
  IN  IF depth = 1
      THEN ctx' = [ctx EXCEPT ![cpu].frames = outer,
                     ![cpu].pc = IF me.entry = "kshell" THEN "prompt" ELSE "pick"]
      ELSE ctx' = [ctx EXCEPT ![cpu].pc = "scan",
                     ![cpu].frames = [outer EXCEPT ![depth - 1].i = Load(@)]]

terminate_any_pid ==
  /\ Terminating("unlink_prev")
  /\ tcb' = Stored(tcb[top.t].prev, tcb[top.t].next, "next")
  /\ Goto("unlink_next")
  /\ UNCHANGED <<allocated, terminated_tasks, cur_task, fg_task, next_pid, cpu, interrupts, history>>

terminate_still_linked ==
  /\ Terminating("unlink_prev")
  /\ IF tcb[top.t].pid = 0 THEN TerminateReturn ELSE Goto("unlink_next")
  /\ UNCHANGED <<lists, cur_task, fg_task, next_pid, cpu, interrupts, history>>

\* PID 0 is refused.
terminate_unlink_prev ==
  /\ Terminating("unlink_prev")
  /\ IF tcb[top.t].pid = 0
     THEN TerminateReturn /\ UNCHANGED <<tcb, torn>>
     ELSE /\ tcb' = Stored(tcb[top.t].prev, tcb[top.t].next, "next")
          /\ torn' = (torn \/ top.t = Cleaner)
          /\ Goto("unlink_next")
  /\ UNCHANGED <<allocated, terminated_tasks, cur_task, fg_task, next_pid, cpu, interrupts, spawns>>

terminate_unlink_next ==
  /\ Terminating("unlink_next")
  /\ tcb' = Stored(tcb[top.t].next, tcb[top.t].prev, "prev")
  /\ Goto("push")
  /\ UNCHANGED <<allocated, terminated_tasks, cur_task, fg_task, next_pid, cpu, interrupts, history>>

terminate_push ==
  /\ Terminating("push")
  /\ IF terminated_tasks = NULL
     THEN terminated_tasks' = top.t /\ Goto("push_first")
     ELSE UNCHANGED terminated_tasks /\ Goto("push_next")
  /\ UNCHANGED <<tcb, allocated, cur_task, fg_task, next_pid, cpu, interrupts, history>>

\* The last store of either branch also starts the loop at the head of tasks.
ScanFrom(i) == ctx' = [ctx EXCEPT ![cpu].pc = "scan",
                         ![cpu].frames[depth].i = i]

terminate_push_first ==
  /\ Terminating("push_first")
  /\ tcb' = [tcb EXCEPT ![top.t].next = NULL, ![top.t].prev = NULL]
  /\ ScanFrom(tasks)
  /\ UNCHANGED <<allocated, terminated_tasks, cur_task, fg_task, next_pid, cpu, interrupts, history>>

terminate_push_next ==
  /\ Terminating("push_next")
  /\ tcb' = [tcb EXCEPT ![top.t].next = terminated_tasks]
  /\ Goto("push_prev")
  /\ UNCHANGED <<allocated, terminated_tasks, cur_task, fg_task, next_pid, cpu, interrupts, history>>

terminate_push_prev_lost ==
  /\ Terminating("push_prev")
  /\ Goto("push_head")
  /\ UNCHANGED <<lists, cur_task, fg_task, next_pid, cpu, interrupts, history>>

terminate_push_prev ==
  /\ Terminating("push_prev")
  /\ tcb' = Stored(terminated_tasks, top.t, "prev")
  /\ Goto("push_head")
  /\ UNCHANGED <<allocated, terminated_tasks, cur_task, fg_task, next_pid, cpu, interrupts, history>>

terminate_push_head ==
  /\ Terminating("push_head")
  /\ terminated_tasks' = top.t
  /\ ScanFrom(tasks)
  /\ UNCHANGED <<tcb, allocated, cur_task, fg_task, next_pid, cpu, interrupts, history>>

\* A task whose parent is t is terminated too.
terminate_scan ==
  /\ Terminating("scan")
  /\ IF top.i = NULL THEN TerminateReturn
     ELSE IF tcb[top.i].ppid = tcb[top.t].pid
     THEN depth < MaxDepth /\ Call(top.i)
     ELSE ScanFrom(tcb[top.i].next)
  /\ UNCHANGED <<lists, cur_task, fg_task, next_pid, cpu, interrupts, history>>

----------------------------------------------------------------------------
(* The cleaner: one pass over terminated_tasks with interrupts disabled.    *)

cleaner_start ==
  /\ At("clean")
  /\ terminated_tasks # NULL
  /\ interrupts' = FALSE
  /\ GotoWith("destroy", terminated_tasks)
  /\ UNCHANGED <<lists, cur_task, fg_task, next_pid, cpu, history>>

cleaner_destroy_next ==
  /\ At("destroy") /\ me.ptr # NULL
  /\ allocated' = allocated \ {tcb[me.ptr].next}
  /\ GotoWith("destroy", tcb[me.ptr].next)
  /\ UNCHANGED <<tcb, terminated_tasks, cur_task, fg_task, next_pid, cpu, interrupts, history>>

cleaner_destroy ==
  /\ At("destroy") /\ me.ptr # NULL
  /\ allocated' = allocated \ {me.ptr}
  /\ GotoWith("destroy", tcb[me.ptr].next)
  /\ UNCHANGED <<tcb, terminated_tasks, cur_task, fg_task, next_pid, cpu, interrupts, history>>

cleaner_done ==
  /\ At("destroy") /\ me.ptr = NULL
  /\ terminated_tasks' = NULL
  /\ interrupts' = TRUE
  /\ Goto("clean")
  /\ UNCHANGED <<tcb, allocated, cur_task, fg_task, next_pid, cpu, history>>

----------------------------------------------------------------------------
(* mt_schedule and mt_switch_task.                                          *)

Rescheduled_no_slice(n) == [tcb EXCEPT ![cur_task].remaining = @ - 1,
                              ![n].state = "TS_RUN",
                              ![cur_task].state = IF @ = "TS_FIN" THEN @ ELSE "TS_SUS"]

\* The bookkeeping of mt_schedule when it switches from cur_task to n.
Rescheduled(n) ==
  LET refilled == [tcb EXCEPT ![cur_task].remaining = DEFAULT_TIME_SLICE]
      started == [refilled EXCEPT ![n].state = "TS_RUN"]
  IN  [started EXCEPT ![cur_task].state = IF @ = "TS_FIN" THEN @ ELSE "TS_SUS"]

SliceLeft == tcb[cur_task].state = "TS_RUN" /\ tcb[cur_task].remaining - 1 > 0

\* Load a saved stack pointer: its context goes on where it stopped, or returns
\* into the hlt loop of sys_exit.
Resume(esp) == /\ cpu' = esp.who
               /\ ctx' = [ctx EXCEPT ![esp.who].pc = IF esp.halts THEN "hlt" ELSE @]

\* The timer interrupt: mt_schedule and the switch, with interrupts disabled.
Tick ==
  /\ interrupts
  /\ \/ /\ SliceLeft
        /\ tcb' = [tcb EXCEPT ![cur_task].remaining = @ - 1]
        /\ UNCHANGED <<cur_task, cpu, ctx, torn>>
     \/ /\ ~SliceLeft
        /\ LET n == mt_pick_next_task
               saved == [Rescheduled(n) EXCEPT ![cur_task].esp = [who |-> cpu, halts |-> FALSE]]
           IN  /\ tcb' = saved
               /\ cur_task' = n
               /\ Resume(saved[n].esp)
        /\ torn' = (torn \/ me.pc \in Windows)
  /\ UNCHANGED <<allocated, terminated_tasks, fg_task, next_pid, interrupts, spawns>>

\* sys_exit calls mt_schedule with interrupts enabled: three separate steps.
exit_pick ==
  /\ At("pick")
  /\ IF SliceLeft
     THEN tcb' = [tcb EXCEPT ![cur_task].remaining = @ - 1] /\ Goto("hlt")
     ELSE tcb' = Rescheduled(mt_pick_next_task) /\ GotoWith("switch_save", mt_pick_next_task)
  /\ UNCHANGED <<allocated, terminated_tasks, cur_task, fg_task, next_pid, cpu, interrupts, history>>

exit_switch_wrong_esp ==
  /\ Using("switch_save", {me.ptr})
  /\ tcb' = [tcb EXCEPT ![me.ptr].esp = [who |-> cpu, halts |-> TRUE]]
  /\ cur_task' = me.ptr
  /\ Goto("switch_load")
  /\ UNCHANGED <<allocated, terminated_tasks, fg_task, next_pid, cpu, interrupts, history>>

\* Were this context resumed, it would return to the hlt loop of sys_exit.
exit_switch_save ==
  /\ Using("switch_save", {me.ptr})
  /\ tcb' = [tcb EXCEPT ![cur_task].esp = [who |-> cpu, halts |-> TRUE]]
  /\ cur_task' = me.ptr
  /\ Goto("switch_load")
  /\ UNCHANGED <<allocated, terminated_tasks, fg_task, next_pid, cpu, interrupts, history>>

exit_switch_load ==
  /\ Using("switch_load", {me.ptr})
  /\ Resume(tcb[me.ptr].esp)
  /\ UNCHANGED <<lists, cur_task, fg_task, next_pid, interrupts, history>>

----------------------------------------------------------------------------
mt_spawn == \/ Spawn \/ gen_pid \/ inc_pid \/ ktask_create
            \/ mt_push_task_find \/ mt_push_task_link \/ mt_push_task_backlink
waiting == sys_wait \/ Hop \/ wait_set_fg \/ wait_poll \/ wait_reset_fg
mt_task_terminate ==
  \/ terminate_unlink_prev \/ terminate_unlink_next \/ terminate_push
  \/ terminate_push_first \/ terminate_push_next \/ terminate_push_prev
  \/ terminate_push_head \/ terminate_scan
cleaner == cleaner_start \/ cleaner_destroy \/ cleaner_done
mt_schedule_exit == exit_pick \/ exit_switch_save \/ exit_switch_load

\* A step of the context that owns the processor.
Step == \/ mt_spawn \/ waiting \/ kshell_term \/ mt_task_terminate_pid
        \/ sys_exit \/ mt_task_terminate \/ cleaner \/ mt_schedule_exit

Next == Step \/ Tick

Spec == Init /\ [][Next]_vars

\* The timer keeps ticking, and kernel code makes progress in the slices its
\* task is given.  When a program exits, runs or waits, and what is typed at
\* the prompt, is nobody's duty.
KernelStep == \/ gen_pid \/ inc_pid \/ ktask_create \/ mt_push_task_find
              \/ mt_push_task_link \/ mt_push_task_backlink
              \/ Hop \/ wait_set_fg \/ wait_poll \/ wait_reset_fg
              \/ mt_task_terminate_pid \/ mt_task_terminate \/ cleaner
              \/ mt_schedule_exit

FairSpec == /\ Spec
            /\ WF_vars(Tick)
            /\ \A t \in TCBs : SF_vars(KernelStep /\ cpu = t)

----------------------------------------------------------------------------
Task == [pid : Nat, ppid : Nat, state : States, next : Pointers, prev : Pointers,
         remaining : 1..DEFAULT_TIME_SLICE, esp : [who : TCBs, halts : BOOLEAN]]
Frame == [t : TCBs, i : Pointers]
Context == [pc : Labels, entry : Entries, ptr : Pointers, new : Pointers,
            pid : Nat, frames : Seq(Frame)]

\* Types; remaining is the part of its slice a task has left.
TypeOK ==
  /\ tcb \in [TCBs -> Task]
  /\ allocated \subseteq TCBs
  /\ terminated_tasks \in Pointers /\ cur_task \in TCBs /\ fg_task \in Pointers
  /\ next_pid \in Nat
  /\ cpu \in TCBs
  /\ interrupts \in BOOLEAN
  /\ ctx \in [TCBs -> Context]
  /\ torn \in BOOLEAN /\ spawns \in 0..MaxSpawns

\* Under every interleaving, the torn ones included, kernel_idle is never freed
\* and never enters terminated_tasks, and no next pointer leads back to it: the
\* fallback of mt_pick_next_task is always a task that exists.
IdleImmortal ==
  /\ Idle \in allocated /\ tcb[Idle].pid = 0
  /\ terminated_tasks # Idle
  /\ \A t \in TCBs : tcb[t].next # Idle

\* The strengthening of IdleImmortal that every step preserves: no context holds
\* kernel_idle as the task it created, as the task the cleaner destroys next, or
\* as the task that mt_task_terminate unlinks (pid 0 was refused before).
Unlinking == {"unlink_next", "push", "push_first", "push_next", "push_prev", "push_head"}
SafeContext(c) ==
  /\ c.new # Idle
  /\ c.pc = "destroy" => c.ptr # Idle
  /\ c.pc \in Unlinking /\ Len(c.frames) > 0 => c.frames[Len(c.frames)].t # Idle
IdleInv == IdleImmortal /\ \A t \in TCBs : SafeContext(ctx[t])

Live == Reach(tasks)
Zombies == Reach(terminated_tasks)

NotTorn == ~torn
Settled == ~torn /\ me.pc \notin Windows /\ interrupts

\* As long as no tick has hit a window and nobody has terminated the cleaner
\* (which would free the stack it runs on), every allocated TCB is on exactly one
\* of the two lists and no list holds freed memory: mt_push_task, the unlinking
\* of mt_task_terminate and the cleaner neither lose a task nor free one early.
Partition ==
  Settled => Live \cap Zombies = {} /\ allocated = Live \cup Zombies

\* Up to the same events, both lists end and prev inverts next on
\* tasks: what mt_task_terminate needs to unlink any task in constant time.
WellLinked ==
  Settled => /\ Hops(tasks)[MaxHops] = NULL
             /\ Hops(terminated_tasks)[MaxHops] = NULL
             /\ \A t \in Live : tcb[t].next # NULL => tcb[tcb[t].next].prev = t

\* The two lists of tasks are sound until one of these events: they hold
\* every allocated TCB once, they end, and their links agree.
ListsSound == Partition /\ WellLinked

\* Up to the same events, mt_switch_task pairs stacks with tasks:
\* the processor is on the stack of cur_task, whose TCB is allocated, and every
\* other live task will resume on its own stack.
OwnStack ==
  Settled => /\ cpu = cur_task /\ cpu \in allocated
             /\ \A t \in Live \ {cur_task} : tcb[t].esp.who = t

\* gen_pid gives distinct pids to the tasks on the list up to and including the
\* first pid it hands out after passing MAX_PID (it searches only once).  Where
\* programs run programs, only up to MAX_PID: the search does not see a pid
\* handed out to a spawner that has not created its task yet.
PidsLeft == spawns + 3 <= MAX_PID + (IF UserRuns THEN 1 ELSE 2)
UniquePids ==
  Settled /\ PidsLeft => \A t, u \in Live : t # u => tcb[t].pid # tcb[u].pid

\* Up to the same events, the links mt_task_terminate writes through are right,
\* also when it meets a task for the second time: its loop follows the next of a
\* child it has just moved to terminated_tasks, and goes on there.
UnlinkSound ==
  ~torn /\ At("unlink_prev") /\ tcb[top.t].pid # 0 =>
    /\ tcb[top.t].prev \in Live \cup Zombies \cup {NULL}
    /\ \A u \in Live \cup Zombies : tcb[u].next = top.t <=> tcb[top.t].prev = u

\* A task put on terminated_tasks is deleted by the cleaner, unless a tick hits
\* a window or the cleaner is terminated first.
CleanerDeletes ==
  \A t \in TCBs : (t \in Zombies /\ ~torn) ~> (t \notin allocated \/ torn)

\* Round robin: every task on the list runs again, or leaves the list.
EveryTaskRuns ==
  \A t \in TCBs : (t \in Live) ~> (cur_task = t \/ t \notin Live \/ torn)

\* sys_wait and the shell's wait loop return once the task waited for is gone.
WaitReturns ==
  \A t \in TCBs :
    (ctx[t].pc = "wait" /\ mt_get_task_by_pid(ctx[t].pid) = NULL /\ t \in Live)
      ~> (ctx[t].pc # "wait" \/ t \notin Live \/ torn)

----------------------------------------------------------------------------
(* What comments of scheduler.c say of its variables; the runs that check   *)
(* these find them violated.                                                *)

\* "The currently running task": outside the switch itself, the processor runs
\* on the stack of cur_task, and a task on the list resumes on its own.
CurTaskIsRunning ==
  me.pc # "switch_load" =>
    cpu = cur_task /\ \A t \in Live \ {cur_task} : tcb[t].esp.who = t

=============================================================================
