--------------------------- MODULE SchedulerProofs ---------------------------
(***************************************************************************)
(* Proofs about Scheduler, for every set of TCBs, every bound and every    *)
(* interleaving, the torn ones included.                                   *)
(*                                                                         *)
(* First type correctness: one lemma per building block of the actions,    *)
(* one case per action.  Then the immortality of kernel_idle, through the  *)
(* inductive invariant IdleInv, laid out the same way.                     *)
(***************************************************************************)
EXTENDS Scheduler, FiniteSetTheorems, TLAPS

\* Every label a step may store in a program counter is one.
LEMMA LabelFacts ==
  {"hlt", "kmain", "clean", "destroy", "prompt", "user", "gen_pid", "inc_pid", "create", "find_tail", "link", "backlink", "set_fg", "wait", "reset_fg", "find_term", "unlink_prev", "unlink_next", "push", "push_first", "push_next", "push_prev", "push_head", "scan", "pick", "switch_save", "switch_load"}
    \subseteq Labels
  BY DEF Labels

\* The fields of a well-typed TCB.
LEMMA TaskFields ==
  ASSUME TypeOK, NEW t \in TCBs
  PROVE  /\ tcb[t] \in Task
         /\ tcb[t].pid \in Nat /\ tcb[t].ppid \in Nat
         /\ tcb[t].state \in States
         /\ tcb[t].next \in Pointers /\ tcb[t].prev \in Pointers
         /\ tcb[t].remaining \in 1..DEFAULT_TIME_SLICE
         /\ tcb[t].esp \in [who : TCBs, halts : BOOLEAN]
         /\ tcb[t].esp.who \in TCBs
  BY DEF TypeOK, Task

\* Storing pointers in the links of a TCB keeps it well-typed.
LEMMA TaskLinks ==
  ASSUME NEW a \in Task, NEW p \in Pointers, NEW q \in Pointers
  PROVE  /\ [a EXCEPT !.next = p] \in Task
         /\ [a EXCEPT !.prev = q] \in Task
         /\ [a EXCEPT !.next = p, !.prev = q] \in Task
  BY DEF Task

\* The fields of a well-typed context.
LEMMA ContextFields ==
  ASSUME TypeOK, NEW t \in TCBs
  PROVE  /\ ctx[t] \in Context
         /\ ctx[t].pc \in Labels /\ ctx[t].entry \in Entries
         /\ ctx[t].ptr \in Pointers /\ ctx[t].new \in Pointers
         /\ ctx[t].pid \in Nat /\ ctx[t].frames \in Seq(Frame)
  BY DEF TypeOK, Context

\* Moving the program counter keeps the contexts well-typed.
LEMMA GotoType ==
  ASSUME TypeOK, NEW l \in Labels, Goto(l)
  PROVE  ctx' \in [TCBs -> Context]
  <1>1. [ctx[cpu] EXCEPT !.pc = l] \in Context
    BY ContextFields DEF Context, TypeOK
  <1> QED BY <1>1 DEF Goto, TypeOK

\* So does moving it and keeping a pointer in a register.
LEMMA GotoWithType ==
  ASSUME TypeOK, NEW l \in Labels, NEW p \in Pointers, GotoWith(l, p)
  PROVE  ctx' \in [TCBs -> Context]
  <1>1. [ctx[cpu] EXCEPT !.pc = l, !.ptr = p] \in Context
    BY ContextFields DEF Context, TypeOK
  <1> QED BY <1>1 DEF GotoWith, TypeOK

\* Loading a saved stack pointer resumes a context that exists.
LEMMA ResumeType ==
  ASSUME TypeOK, NEW e \in [who : TCBs, halts : BOOLEAN], Resume(e)
  PROVE  cpu' \in TCBs /\ ctx' \in [TCBs -> Context]
  <1> DEFINE c == [ctx[e.who] EXCEPT !.pc = IF e.halts THEN "hlt" ELSE @]
  <1>1. e.who \in TCBs
    OBVIOUS
  <1>2. c \in Context
    BY <1>1, ContextFields, LabelFacts DEF Context, TypeOK
  <1> QED BY <1>1, <1>2 DEF Resume, TypeOK

\* A call of mt_task_terminate pushes a well-typed frame.
LEMMA CallType ==
  ASSUME TypeOK, NEW t \in TCBs, Call(t)
  PROVE  ctx' \in [TCBs -> Context]
  <1>1. [t |-> t, i |-> NULL] \in Frame
    BY DEF Frame, Pointers
  <1>2. Append(ctx[cpu].frames, [t |-> t, i |-> NULL]) \in Seq(Frame)
    BY <1>1, ContextFields DEF TypeOK
  <1>3. [ctx[cpu] EXCEPT !.pc = "unlink_prev",
            !.frames = Append(@, [t |-> t, i |-> NULL])] \in Context
    BY <1>2, ContextFields, LabelFacts DEF Context, TypeOK
  <1> QED BY <1>3 DEF Call, TypeOK

\* The frame of the innermost call of mt_task_terminate.
LEMMA TopType ==
  ASSUME TypeOK, depth > 0
  PROVE  depth \in Nat /\ top \in Frame /\ top.t \in TCBs /\ top.i \in Pointers
  <1>1. me.frames \in Seq(Frame)
    BY ContextFields DEF me, TypeOK
  <1>2. depth \in Nat
    BY <1>1 DEF depth
  <1>3. top \in Frame
    BY <1>1, <1>2 DEF depth, top
  <1> QED BY <1>2, <1>3 DEF Frame

\* Setting the loop variable of that call keeps the contexts well-typed.
LEMMA ScanFromType ==
  ASSUME TypeOK, depth > 0, NEW p \in Pointers, ScanFrom(p)
  PROVE  ctx' \in [TCBs -> Context]
  <1>1. me.frames \in Seq(Frame)
    BY ContextFields DEF me, TypeOK
  <1>2. [top EXCEPT !.i = p] \in Frame
    BY TopType DEF Frame
  <1>3. [me.frames EXCEPT ![depth] = [top EXCEPT !.i = p]] \in Seq(Frame)
    BY <1>1, <1>2, TopType DEF depth
  <1>4. [ctx[cpu] EXCEPT !.pc = "scan", !.frames[depth].i = p] \in Context
    BY <1>3, ContextFields, LabelFacts DEF Context, TypeOK, me, top
  <1> QED BY <1>4 DEF ScanFrom, TypeOK

\* So does returning from it, to an outer call or to its first caller.
LEMMA TerminateReturnType ==
  ASSUME TypeOK, depth > 0, TerminateReturn
  PROVE  ctx' \in [TCBs -> Context]
  <1> DEFINE outer == SubSeq(me.frames, 1, depth - 1)
  <1>1. me.frames \in Seq(Frame)
    BY ContextFields DEF me, TypeOK
  <1>2. outer \in Seq(Frame) /\ Len(outer) = depth - 1
    BY <1>1, TopType DEF depth
  <1>3. CASE depth = 1
    <2>1. [ctx[cpu] EXCEPT !.frames = outer,
             !.pc = IF me.entry = "kshell" THEN "prompt" ELSE "pick"] \in Context
      BY <1>2, ContextFields, LabelFacts DEF Context, TypeOK
    <2> QED BY <2>1, <1>3 DEF TerminateReturn, TypeOK
  <1>4. CASE depth # 1
    <2>1. depth - 1 \in 1..Len(outer)
      BY <1>2, <1>4, TopType
    <2>2. outer[depth - 1] \in Frame
      BY <1>2, <2>1
    <2>3. Load(outer[depth - 1].i) \in Pointers
      BY <2>2, TaskFields DEF Frame, Pointers, Load
    <2>4. [outer[depth - 1] EXCEPT !.i = Load(@)] \in Frame
      BY <2>2, <2>3 DEF Frame
    <2>5. [outer EXCEPT ![depth - 1].i = Load(@)] \in Seq(Frame)
      BY <1>2, <2>1, <2>4
    <2>6. [ctx[cpu] EXCEPT !.pc = "scan",
             !.frames = [outer EXCEPT ![depth - 1].i = Load(@)]] \in Context
      BY <2>5, ContextFields, LabelFacts DEF Context, TypeOK
    <2> QED BY <2>6, <1>4 DEF TerminateReturn, TypeOK
  <1> QED BY <1>3, <1>4

\* A store through a pointer that may be NULL keeps the TCBs well-typed.
LEMMA StoredType ==
  ASSUME TypeOK, NEW p \in Pointers, NEW q \in Pointers, NEW f
  PROVE  Stored(p, q, f) \in [TCBs -> Task]
  <1>1. CASE p = NULL
    BY <1>1 DEF Stored, TypeOK
  <1>2. CASE p # NULL
    <2>1. p \in TCBs
      BY <1>2 DEF Pointers
    <2>2. [tcb[p] EXCEPT !.next = q] \in Task /\ [tcb[p] EXCEPT !.prev = q] \in Task
      BY <2>1, TaskFields DEF Task
    <2> QED BY <1>2, <2>1, <2>2 DEF Stored, TypeOK
  <1> QED BY <1>1, <1>2

\* What a walk along next returns is NULL or one of the nodes looked for.
LEMMA FirstType ==
  ASSUME NEW s, NEW S PROVE First(s, S) \in S \cup {NULL}
  BY DEF First

\* mt_pick_next_task always returns a task.
LEMMA PickType == mt_pick_next_task \in TCBs
  <1>1. First(tcb[cur_task].next, {t \in TCBs : tcb[t].state # "TS_FIN"}) \in TCBs \cup {NULL}
    BY FirstType
  <1> QED BY <1>1, BootAssumption DEF mt_pick_next_task, tasks

\* The bookkeeping of mt_schedule keeps the TCBs well-typed.
LEMMA RescheduledType ==
  ASSUME TypeOK, NEW n \in TCBs
  PROVE  Rescheduled(n) \in [TCBs -> Task]
  <1> DEFINE refilled == [tcb EXCEPT ![cur_task].remaining = DEFAULT_TIME_SLICE]
             started == [refilled EXCEPT ![n].state = "TS_RUN"]
  <1>1. cur_task \in TCBs /\ tcb \in [TCBs -> Task]
    BY DEF TypeOK
  <1>2. [tcb[cur_task] EXCEPT !.remaining = DEFAULT_TIME_SLICE] \in Task
    BY <1>1, NumberAssumption DEF Task
  <1>3. refilled \in [TCBs -> Task]
    BY <1>1, <1>2
  <1>4. [refilled[n] EXCEPT !.state = "TS_RUN"] \in Task
    BY <1>3 DEF Task, States
  <1>5. started \in [TCBs -> Task]
    BY <1>3, <1>4
  <1>6. [started[cur_task] EXCEPT !.state = IF @ = "TS_FIN" THEN @ ELSE "TS_SUS"] \in Task
    BY <1>1, <1>5 DEF Task, States
  <1>7. Rescheduled(n) = [started EXCEPT ![cur_task].state = IF @ = "TS_FIN" THEN @ ELSE "TS_SUS"]
    BY DEF Rescheduled
  <1> HIDE DEF started
  <1> QED BY <1>1, <1>5, <1>6, <1>7

\* A store to a link of a TCB that exists keeps the TCBs well-typed.
LEMMA StoreType ==
  ASSUME TypeOK, NEW p \in TCBs, NEW q \in Pointers
  PROVE  /\ [tcb EXCEPT ![p].next = q] \in [TCBs -> Task]
         /\ [tcb EXCEPT ![p].prev = q] \in [TCBs -> Task]
  <1>1. [tcb[p] EXCEPT !.next = q] \in Task /\ [tcb[p] EXCEPT !.prev = q] \in Task
    BY TaskFields DEF Task
  <1> QED BY <1>1 DEF TypeOK

\* So does saving a stack pointer in a TCB.
LEMMA SaveType ==
  ASSUME NEW f \in [TCBs -> Task], NEW p \in TCBs, NEW h \in BOOLEAN, NEW w \in TCBs
  PROVE  [f EXCEPT ![p].esp = [who |-> w, halts |-> h]] \in [TCBs -> Task]
  <1>1. [who |-> w, halts |-> h] \in [who : TCBs, halts : BOOLEAN]
    OBVIOUS
  <1>2. [f[p] EXCEPT !.esp = [who |-> w, halts |-> h]] \in Task
    BY <1>1 DEF Task
  <1> QED BY <1>2

\* So does using up one tick of a slice that has more than one left.
LEMMA SliceType ==
  ASSUME TypeOK, SliceLeft
  PROVE  [tcb EXCEPT ![cur_task].remaining = @ - 1] \in [TCBs -> Task]
  <1>1. cur_task \in TCBs
    BY DEF TypeOK
  <1>2. tcb[cur_task].remaining - 1 \in 1..DEFAULT_TIME_SLICE
    BY <1>1, TaskFields, NumberAssumption DEF SliceLeft
  <1>3. [tcb[cur_task] EXCEPT !.remaining = @ - 1] \in Task
    BY <1>1, <1>2, TaskFields DEF Task
  <1> QED BY <1>1, <1>3 DEF TypeOK

\* The search for an unused pid returns a number.
LEMMA PidType == FirstUnusedPid \in Nat
  <1>1. MaxHops \in Nat
    BY BootAssumption, FS_CardinalityType DEF MaxHops
  <1>2. 0..MaxHops \subseteq Nat
    BY <1>1
  <1> QED BY <1>2 DEF FirstUnusedPid

\* ktask_create fills in a well-typed TCB.
LEMMA NewTaskType ==
  ASSUME NEW p \in Nat, NEW q \in Nat, NEW s \in TCBs, NEW r \in Pointers
  PROVE  NewTask(p, q, s) \in Task /\ [NewTask(p, q, s) EXCEPT !.prev = r] \in Task
  <1>1. [who |-> s, halts |-> FALSE] \in [who : TCBs, halts : BOOLEAN]
    OBVIOUS
  <1>2. NULL \in Pointers /\ DEFAULT_TIME_SLICE \in 1..DEFAULT_TIME_SLICE
    BY NumberAssumption DEF Pointers
  <1> QED BY <1>1, <1>2 DEF NewTask, Task, States

\* The stack it prepares is a well-typed context.
LEMMA NewContextType ==
  ASSUME NEW e \in Entries, NEW l \in Labels
  PROVE  NewContext(e, l) \in Context
  <1>1. << >> \in Seq(Frame)
    OBVIOUS
  <1> QED BY <1>1 DEF NewContext, Context, Pointers

\* The running context, and the pointers every action may use.
\* The variables a step reads most often have their types.
LEMMA Running ==
  ASSUME TypeOK
  PROVE  /\ cpu \in TCBs /\ me \in Context /\ ctx[cpu] \in Context
         /\ me.ptr \in Pointers /\ me.new \in Pointers /\ me.pid \in Nat
         /\ Idle \in TCBs /\ tasks \in TCBs /\ tasks \in Pointers /\ NULL \in Pointers
         /\ TCBs \subseteq Pointers /\ cur_task \in TCBs
  BY ContextFields, BootAssumption DEF TypeOK, me, tasks, Pointers

\* Where a system call returns to is a label.
LEMMA ReturnLabel == Return \in Labels
  BY LabelFacts DEF Return

\* Every step of the running context preserves the types.
LEMMA TypeStep ==
  ASSUME TypeOK, Step PROVE TypeOK'
  <1>1. CASE Spawn
    <2>1. ctx' \in [TCBs -> Context]
      BY <1>1, Running, LabelFacts, GotoType DEF Spawn
    <2> QED BY <1>1, <2>1, Running, NumberAssumption DEF Spawn, TypeOK, lists
  <1>2. CASE gen_pid
    <2> DEFINE p == IF next_pid > MAX_PID THEN FirstUnusedPid ELSE next_pid
    <2>1. p \in Nat
      BY PidType DEF TypeOK
    <2>2. [ctx[cpu] EXCEPT !.pc = "inc_pid", !.pid = p] \in Context
      BY <2>1, Running, LabelFacts DEF Context
    <2>3. ctx' = [ctx EXCEPT ![cpu] = [ctx[cpu] EXCEPT !.pc = "inc_pid", !.pid = p]]
      BY <1>2 DEF gen_pid
    <2>4. ctx' \in [TCBs -> Context]
      BY <2>2, <2>3, Running DEF TypeOK
    <2> QED BY <1>2, <2>4 DEF gen_pid, TypeOK, lists, history
  <1>3. CASE inc_pid
    <2>1. ctx' \in [TCBs -> Context]
      BY <1>3, Running, LabelFacts, GotoType DEF inc_pid
    <2> QED BY <1>3, <2>1, Running DEF inc_pid, TypeOK, lists, history
  <1>4. CASE ktask_create
    <2>1. CASE Goto(Return) /\ UNCHANGED <<tcb, allocated>>
      BY <1>4, <2>1, GotoType, ReturnLabel DEF ktask_create, TypeOK, history
    <2>2. CASE ~(Goto(Return) /\ UNCHANGED <<tcb, allocated>>)
      <3> DEFINE e == IF me.entry = "ker_idle" THEN "kshell" ELSE "utask_exec"
                 l == IF e = "kshell" THEN "prompt" ELSE "user"
      <3>1. PICK t \in TCBs \ allocated :
              /\ allocated' = allocated \cup {t}
              /\ tcb' = [tcb EXCEPT ![t] =
                   [NewTask(me.pid, Parent, t) EXCEPT !.prev = tcb[t].prev]]
              /\ ctx' = [ctx EXCEPT ![t] = NewContext(e, l),
                                    ![cpu].new = t, ![cpu].ptr = tasks,
                                    ![cpu].pc = "find_tail"]
        BY <1>4, <2>2 DEF ktask_create
      <3>2. Parent \in Nat
        BY Running, TaskFields DEF Parent
      <3>3. tcb' \in [TCBs -> Task]
        BY <3>1, <3>2, Running, NewTaskType, TaskFields DEF TypeOK
      <3>4. NewContext(e, l) \in Context
        BY NewContextType, LabelFacts DEF Entries
      <3> DEFINE f == [ctx EXCEPT ![t] = NewContext(e, l)]
      <3>5. f \in [TCBs -> Context]
        BY <3>4 DEF TypeOK
      <3>6. [f[cpu] EXCEPT !.new = t, !.ptr = tasks, !.pc = "find_tail"] \in Context
        BY <3>5, Running, LabelFacts DEF Context
      <3>7. ctx' = [f EXCEPT ![cpu] = [f[cpu] EXCEPT !.new = t, !.ptr = tasks, !.pc = "find_tail"]]
        BY <3>1
      <3>8. ctx' \in [TCBs -> Context]
        <4> HIDE DEF f
        <4> QED BY <3>5, <3>6, <3>7, Running
      <3> QED BY <1>4, <3>1, <3>3, <3>8 DEF ktask_create, TypeOK, history
    <2> QED BY <2>1, <2>2
  <1>5. CASE mt_push_task_find
    <2>1. ctx' \in [TCBs -> Context]
      BY <1>5, Running, LabelFacts, GotoType, GotoWithType, TaskFields DEF mt_push_task_find, Using, Pointers
    <2> QED BY <1>5, <2>1, Running DEF mt_push_task_find, TypeOK, lists, history
  <1>6. CASE mt_push_task_link
    <2>1. ctx' \in [TCBs -> Context]
      BY <1>6, Running, LabelFacts, GotoType DEF mt_push_task_link
    <2> QED BY <1>6, <2>1, Running, StoreType DEF mt_push_task_link, TypeOK, Using, Pointers, history
  <1>7. CASE mt_push_task_backlink
    <2> DEFINE l == IF me.entry = "kshell" THEN "set_fg" ELSE Return
    <2>1. l \in Labels /\ me.new \in TCBs /\ me.ptr \in Pointers
      BY <1>7, ReturnLabel, LabelFacts, Running DEF mt_push_task_backlink, Using, Pointers
    <2>2. tcb[me.new].pid \in Nat
      BY <2>1, TaskFields
    <2>3. [ctx[cpu] EXCEPT !.pc = l, !.pid = tcb[me.new].pid, !.ptr = tasks] \in Context
      BY <2>1, <2>2, Running DEF Context
    <2>4. ctx' = [ctx EXCEPT ![cpu] =
                   [ctx[cpu] EXCEPT !.pc = l, !.pid = tcb[me.new].pid, !.ptr = tasks]]
      BY <1>7 DEF mt_push_task_backlink
    <2>5. ctx' \in [TCBs -> Context]
      BY <2>3, <2>4, Running DEF TypeOK
    <2> QED BY <1>7, <2>1, <2>5, StoreType DEF mt_push_task_backlink, TypeOK, history
  <1>8. CASE sys_wait
    <2>1. ctx' \in [TCBs -> Context]
      BY <1>8, Running, LabelFacts, GotoWithType DEF sys_wait
    <2> QED BY <1>8, <2>1, Running DEF sys_wait, TypeOK, lists, history
  <1>9. CASE Hop
    <2>1. me.ptr \in TCBs /\ me.pc \in Labels
      BY <1>9, Running DEF Hop, Found, Pointers, Context
    <2>2. ctx' \in [TCBs -> Context]
      BY <1>9, <2>1, TaskFields, GotoWithType DEF Hop
    <2> QED BY <1>9, <2>2 DEF Hop, TypeOK, lists, history
  <1>10. CASE wait_set_fg
    <2>1. ctx' \in [TCBs -> Context]
      BY <1>10, Running, LabelFacts, GotoWithType DEF wait_set_fg
    <2> QED BY <1>10, <2>1, Running DEF wait_set_fg, TypeOK, lists, history
  <1>11. CASE wait_poll
    <2>1. ctx' \in [TCBs -> Context]
      BY <1>11, Running, LabelFacts, GotoType, GotoWithType DEF wait_poll
    <2> QED BY <1>11, <2>1, Running DEF wait_poll, TypeOK, lists, history
  <1>12. CASE wait_reset_fg
    <2>1. ctx' \in [TCBs -> Context]
      BY <1>12, Running, ReturnLabel, GotoType DEF wait_reset_fg
    <2> QED BY <1>12, <2>1, Running DEF wait_reset_fg, TypeOK, lists, history
  <1>13. CASE kshell_term
    <2>1. PICK p \in TermPids :
            ctx' = [ctx EXCEPT ![cpu].pc = "find_term", ![cpu].pid = p, ![cpu].ptr = tasks]
      BY <1>13 DEF kshell_term
    <2>2. [ctx[cpu] EXCEPT !.pc = "find_term", !.pid = p, !.ptr = tasks] \in Context
      BY NumberAssumption, Running, LabelFacts DEF Context
    <2>3. ctx' = [ctx EXCEPT ![cpu] = [ctx[cpu] EXCEPT !.pc = "find_term", !.pid = p, !.ptr = tasks]]
      BY <2>1
    <2>4. ctx' \in [TCBs -> Context]
      BY <2>2, <2>3, Running DEF TypeOK
    <2> QED BY <1>13, <2>4 DEF kshell_term, TypeOK, lists, history
  <1>14. CASE mt_task_terminate_pid
    <2>1. ctx' \in [TCBs -> Context]
      BY <1>14, Running, LabelFacts, GotoType, CallType DEF mt_task_terminate_pid, Pointers
    <2> QED BY <1>14, <2>1, Running DEF mt_task_terminate_pid, TypeOK, lists, history
  <1>15. CASE sys_exit
    <2>1. ctx' \in [TCBs -> Context]
      BY <1>15, Running, CallType DEF sys_exit
    <2> QED BY <1>15, <2>1, Running DEF sys_exit, TypeOK, lists, history
  <1>16. CASE terminate_unlink_prev
    <2>1. ctx' \in [TCBs -> Context]
      BY <1>16, Running, LabelFacts, GotoType, TopType, TerminateReturnType DEF terminate_unlink_prev, Terminating
    <2>2. tcb' \in [TCBs -> Task]
      BY <1>16, Running, TopType, TaskFields, StoredType DEF terminate_unlink_prev, TypeOK, Terminating
    <2>3. torn' \in BOOLEAN
      <3>1. torn' = torn \/ torn' = (torn \/ top.t = Cleaner)
        BY <1>16, Zenon DEF terminate_unlink_prev
      <3> QED BY <3>1 DEF TypeOK
    <2> QED BY <1>16, <2>1, <2>2, <2>3 DEF terminate_unlink_prev, TypeOK
  <1>17. CASE terminate_unlink_next
    <2>1. ctx' \in [TCBs -> Context]
      BY <1>17, Running, LabelFacts, GotoType DEF terminate_unlink_next
    <2> QED BY <1>17, <2>1, Running, TopType, TaskFields, StoredType DEF terminate_unlink_next, TypeOK, Terminating, history
  <1>18. CASE terminate_push
    <2>1. ctx' \in [TCBs -> Context]
      BY <1>18, Running, LabelFacts, GotoType DEF terminate_push
    <2> QED BY <1>18, <2>1, Running, TopType DEF terminate_push, TypeOK, Terminating, history
  <1>19. CASE terminate_push_first
    <2>1. ctx' \in [TCBs -> Context]
      BY <1>19, Running, ScanFromType DEF terminate_push_first, Terminating
    <2>2. top.t \in TCBs
      BY <1>19, TopType DEF terminate_push_first, Terminating
    <2>3. [tcb[top.t] EXCEPT !.next = NULL, !.prev = NULL] \in Task
      BY <2>2, TaskFields, TaskLinks, Running
    <2>4. tcb' = [tcb EXCEPT ![top.t] = [tcb[top.t] EXCEPT !.next = NULL, !.prev = NULL]]
      BY <1>19 DEF terminate_push_first
    <2>5. tcb' \in [TCBs -> Task]
      BY <2>2, <2>3, <2>4 DEF TypeOK
    <2> QED BY <1>19, <2>1, <2>5 DEF terminate_push_first, TypeOK, history
  <1>20. CASE terminate_push_next
    <2>1. ctx' \in [TCBs -> Context]
      BY <1>20, Running, LabelFacts, GotoType DEF terminate_push_next
    <2> QED BY <1>20, <2>1, Running, TopType, StoreType DEF terminate_push_next, TypeOK, Terminating, history
  <1>21. CASE terminate_push_prev
    <2>1. ctx' \in [TCBs -> Context]
      BY <1>21, Running, LabelFacts, GotoType DEF terminate_push_prev
    <2> QED BY <1>21, <2>1, Running, TopType, StoredType DEF terminate_push_prev, TypeOK, Terminating, history
  <1>22. CASE terminate_push_head
    <2>1. ctx' \in [TCBs -> Context]
      BY <1>22, Running, ScanFromType DEF terminate_push_head, Terminating
    <2> QED BY <1>22, <2>1, Running, TopType DEF terminate_push_head, TypeOK, Terminating, history
  <1>23. CASE terminate_scan
    <2>1. ctx' \in [TCBs -> Context]
      BY <1>23, Running, TopType, TaskFields, CallType, ScanFromType, TerminateReturnType DEF terminate_scan, Terminating, Pointers
    <2> QED BY <1>23, <2>1, Running DEF terminate_scan, TypeOK, lists, history
  <1>24. CASE cleaner_start
    <2>1. terminated_tasks \in Pointers
      BY DEF TypeOK
    <2>2. ctx' \in [TCBs -> Context]
      BY <1>24, <2>1, LabelFacts, GotoWithType DEF cleaner_start
    <2> QED BY <1>24, <2>2 DEF cleaner_start, TypeOK, lists, history
  <1>25. CASE cleaner_destroy
    <2>1. ctx' \in [TCBs -> Context]
      BY <1>25, Running, LabelFacts, GotoWithType, TaskFields DEF cleaner_destroy, Pointers
    <2> QED BY <1>25, <2>1, Running DEF cleaner_destroy, TypeOK, history
  <1>26. CASE cleaner_done
    <2>1. ctx' \in [TCBs -> Context]
      BY <1>26, Running, LabelFacts, GotoType DEF cleaner_done
    <2> QED BY <1>26, <2>1, Running DEF cleaner_done, TypeOK, history
  <1>27. CASE exit_pick
    <2>1. CASE SliceLeft
      BY <1>27, <2>1, SliceType, LabelFacts, GotoType DEF exit_pick, TypeOK, history
    <2>2. CASE ~SliceLeft
      <3>1. ctx' \in [TCBs -> Context]
        BY <1>27, <2>2, PickType, Running, LabelFacts, GotoWithType DEF exit_pick
      <3>2. tcb' \in [TCBs -> Task]
        BY <1>27, <2>2, PickType, RescheduledType DEF exit_pick
      <3> QED BY <1>27, <3>1, <3>2 DEF exit_pick, TypeOK, history
    <2> QED BY <2>1, <2>2
  <1>28. CASE exit_switch_save
    <2>1. ctx' \in [TCBs -> Context]
      BY <1>28, LabelFacts, GotoType DEF exit_switch_save
    <2>2. me.ptr \in TCBs
      BY <1>28, Running DEF exit_switch_save, Using, Pointers
    <2>3. tcb' \in [TCBs -> Task]
      BY <1>28, SaveType, Running DEF exit_switch_save, TypeOK
    <2> QED BY <1>28, <2>1, <2>2, <2>3 DEF exit_switch_save, TypeOK, history
  <1>29. CASE exit_switch_load
    <2>1. me.ptr \in TCBs
      BY <1>29, Running DEF exit_switch_load, Using, Pointers
    <2>2. cpu' \in TCBs /\ ctx' \in [TCBs -> Context]
      BY <1>29, <2>1, TaskFields, ResumeType DEF exit_switch_load
    <2> QED BY <1>29, <2>2 DEF exit_switch_load, TypeOK, lists, history
  <1> QED
    BY <1>1, <1>2, <1>3, <1>4, <1>5, <1>6, <1>7, <1>8, <1>9, <1>10, <1>11, <1>12, <1>13, <1>14, <1>15, <1>16, <1>17, <1>18, <1>19, <1>20, <1>21, <1>22, <1>23, <1>24, <1>25, <1>26, <1>27, <1>28, <1>29
    DEF Step, mt_spawn, waiting, mt_task_terminate, cleaner, mt_schedule_exit

\* The timer interrupt preserves the types.
LEMMA TypeTick ==
  ASSUME TypeOK, Tick PROVE TypeOK'
  <1>1. CASE SliceLeft /\ tcb' = [tcb EXCEPT ![cur_task].remaining = @ - 1]
                       /\ UNCHANGED <<cur_task, cpu, ctx, torn>>
    BY <1>1, SliceType DEF Tick, TypeOK
  <1>2. CASE ~SliceLeft
    <2> DEFINE n == mt_pick_next_task
               saved == [Rescheduled(n) EXCEPT ![cur_task].esp = [who |-> cpu, halts |-> FALSE]]
    <2>1. n \in TCBs
      BY PickType
    <2>2. saved \in [TCBs -> Task]
      BY <2>1, RescheduledType, SaveType, Running
    <2>3. tcb' = saved /\ cur_task' = n /\ Resume(saved[n].esp) /\ torn' = (torn \/ me.pc \in Windows)
      BY <1>2 DEF Tick
    <2>4. saved[n].esp \in [who : TCBs, halts : BOOLEAN]
      <3> HIDE DEF n, saved
      <3> QED BY <2>1, <2>2 DEF Task
    <2>5. cpu' \in TCBs /\ ctx' \in [TCBs -> Context]
      <3> HIDE DEF n, saved
      <3> QED BY <2>3, <2>4, ResumeType
    <2>6. torn' \in BOOLEAN
      BY <2>3
    <2> HIDE DEF n, saved
    <2> QED BY <2>1, <2>2, <2>3, <2>5, <2>6 DEF Tick, TypeOK
  <1> QED BY <1>1, <1>2 DEF Tick

\* The state mt_init leaves is well-typed.
LEMMA TypeInit == Init => TypeOK
  <1> SUFFICES ASSUME Init PROVE TypeOK
    OBVIOUS
  <1> DEFINE idle == [NewTask(0, 0, Idle) EXCEPT !.next = Test]
             test == [NewTask(1, 0, Test) EXCEPT !.next = Cleaner, !.prev = Idle]
             clean == [NewTask(2, 0, Cleaner) EXCEPT !.prev = Test]
  <1>1. \A s \in TCBs : NewTask(0, 0, s) \in Task /\ NewTask(1, 0, s) \in Task /\ NewTask(2, 0, s) \in Task
    BY NewTaskType DEF Pointers
  <1>2. idle \in Task /\ test \in Task /\ clean \in Task
    BY <1>1, TaskLinks, BootAssumption DEF Pointers
  <1>3. tcb = [t \in TCBs |-> CASE t = Idle -> idle [] t = Test -> test
                                [] t = Cleaner -> clean [] OTHER -> NewTask(0, 0, t)]
    BY DEF Init
  <1>4. tcb \in [TCBs -> Task]
    <2> HIDE DEF idle, test, clean
    <2> QED BY <1>1, <1>2, <1>3
  <1>5. /\ NewContext("ker_idle", "kmain") \in Context
        /\ NewContext("cleaner", "clean") \in Context
        /\ NewContext("ker_idle", "hlt") \in Context
    BY NewContextType, LabelFacts DEF Entries
  <1>6. ctx \in [TCBs -> Context]
    BY <1>5 DEF Init
  <1>7. interrupts \in BOOLEAN /\ torn \in BOOLEAN
    BY DEF Init
  <1>8. spawns \in 0..MaxSpawns
    BY NumberAssumption DEF Init
  <1> QED BY <1>4, <1>6, <1>7, <1>8, BootAssumption DEF Init, TypeOK, Pointers, tasks

\* Type correctness of the scheduler, under every interleaving.
THEOREM TypeCorrect == Spec => []TypeOK
  <1>1. TypeOK /\ [Next]_vars => TypeOK'
    <2> SUFFICES ASSUME TypeOK, [Next]_vars PROVE TypeOK'
      OBVIOUS
    <2>1. CASE UNCHANGED vars
      BY <2>1 DEF vars, TypeOK
    <2> QED BY <2>1, TypeStep, TypeTick DEF Next
  <1> QED BY TypeInit, <1>1, PTL DEF Spec

----------------------------------------------------------------------------
(* kernel_idle is immortal.                                                 *)

\* The state mt_init leaves satisfies the inductive invariant.
LEMMA IdleInit == Init => IdleInv
  <1> SUFFICES ASSUME Init PROVE IdleInv
    OBVIOUS
  <1>1. \A t \in TCBs : tcb[t].next # Idle
    BY BootAssumption DEF Init, NewTask
  <1>2. tcb[Idle].pid = 0
    BY BootAssumption DEF Init, NewTask
  <1>3. \A t \in TCBs : ctx[t].new = NULL /\ ctx[t].pc \in {"kmain", "clean", "hlt"}
    BY BootAssumption DEF Init, NewContext
  <1>4. \A t \in TCBs : SafeContext(ctx[t])
    BY <1>3, BootAssumption DEF SafeContext, Unlinking
  <1> QED BY <1>1, <1>2, <1>4, BootAssumption DEF Init, IdleInv, IdleImmortal

\* Moving the program counter keeps the contexts safe, if it enters an unlinking
\* line only with a victim other than kernel_idle.
LEMMA GotoSafe ==
  ASSUME TypeOK, IdleInv, NEW l, Goto(l), l # "destroy",
         l \in Unlinking => depth > 0 /\ top.t # Idle
  PROVE  \A t \in TCBs : SafeContext(ctx'[t])
  BY ContextFields DEF IdleInv, Goto, SafeContext, TypeOK, Context, depth, top, me

\* So does keeping a pointer, if the cleaner does not keep kernel_idle.
LEMMA GotoWithSafe ==
  ASSUME TypeOK, IdleInv, NEW l, NEW p, GotoWith(l, p), p # Idle \/ l # "destroy", l \notin Unlinking
  PROVE  \A t \in TCBs : SafeContext(ctx'[t])
  BY ContextFields DEF IdleInv, GotoWith, SafeContext, TypeOK, Context

\* A call of mt_task_terminate is safe: the pid test comes before any store.
LEMMA CallSafe ==
  ASSUME TypeOK, IdleInv, NEW t, Call(t)
  PROVE  \A u \in TCBs : SafeContext(ctx'[u])
  BY ContextFields DEF IdleInv, Call, SafeContext, TypeOK, Context, Unlinking

\* The loop of mt_task_terminate is safe: it only reads.
LEMMA ScanFromSafe ==
  ASSUME TypeOK, IdleInv, NEW p, ScanFrom(p)
  PROVE  \A u \in TCBs : SafeContext(ctx'[u])
  BY ContextFields DEF IdleInv, ScanFrom, SafeContext, TypeOK, Context, Unlinking

\* So is its return.
LEMMA TerminateReturnSafe ==
  ASSUME TypeOK, IdleInv, TerminateReturn
  PROVE  \A u \in TCBs : SafeContext(ctx'[u])
  <1>1. ctx'[cpu].pc \in {"prompt", "pick", "scan"} /\ ctx'[cpu].new = ctx[cpu].new
    BY ContextFields DEF TerminateReturn, TypeOK, Context
  <1>2. \A u \in TCBs \ {cpu} : ctx'[u] = ctx[u]
    BY DEF TerminateReturn, TypeOK
  <1>3. SafeContext(ctx'[cpu])
    BY <1>1 DEF SafeContext, IdleInv, TypeOK, Unlinking
  <1> QED BY <1>2, <1>3 DEF IdleInv

\* Resuming a context leaves it as it was, or puts it in the hlt loop.
LEMMA ResumeSafe ==
  ASSUME TypeOK, IdleInv, NEW e \in [who : TCBs, halts : BOOLEAN], Resume(e)
  PROVE  \A u \in TCBs : SafeContext(ctx'[u])
  BY ContextFields DEF IdleInv, Resume, SafeContext, TypeOK, Context, Unlinking

\* A store of anything but kernel_idle to a next field leads no list to it.
LEMMA StoredSafe ==
  ASSUME TypeOK, IdleInv, NEW p \in Pointers, NEW q \in Pointers, NEW f, q # Idle \/ f # "next"
  PROVE  /\ \A u \in TCBs : Stored(p, q, f)[u].next # Idle
         /\ Stored(p, q, f)[Idle].pid = 0
  BY BootAssumption, TaskFields DEF IdleInv, IdleImmortal, Stored, Pointers, TypeOK, Task

\* mt_schedule touches neither links nor pids.
LEMMA RescheduledSafe ==
  ASSUME TypeOK, IdleInv, NEW n \in TCBs
  PROVE  /\ \A u \in TCBs : Rescheduled(n)[u].next # Idle
         /\ Rescheduled(n)[Idle].pid = 0
  <1> DEFINE refilled == [tcb EXCEPT ![cur_task].remaining = DEFAULT_TIME_SLICE]
             started == [refilled EXCEPT ![n].state = "TS_RUN"]
             swapped == [started EXCEPT ![cur_task].state = IF @ = "TS_FIN" THEN @ ELSE "TS_SUS"]
  <1>1. tcb \in [TCBs -> Task] /\ Idle \in TCBs
    BY BootAssumption DEF TypeOK
  <1>2. \A u \in TCBs : refilled[u].next = tcb[u].next /\ refilled[u].pid = tcb[u].pid
    BY <1>1 DEF Task
  <1>3. \A u \in TCBs : started[u].next = refilled[u].next /\ started[u].pid = refilled[u].pid
    BY <1>1 DEF Task
  <1>4. \A u \in TCBs : swapped[u].next = started[u].next /\ swapped[u].pid = started[u].pid
    BY <1>1 DEF Task
  <1>5. Rescheduled(n) = swapped
    BY DEF Rescheduled
  <1> HIDE DEF refilled, started, swapped
  <1> QED BY <1>1, <1>2, <1>3, <1>4, <1>5 DEF IdleInv, IdleImmortal

\* A system call returns to no line that unlinks or destroys a task.
LEMMA ReturnSafe == Return # "destroy" /\ Return \notin Unlinking
  BY DEF Return, Unlinking

\* Every step of the running context preserves the inductive invariant.
LEMMA IdleStep ==
  ASSUME TypeOK, IdleInv, Step PROVE IdleInv'
  <1>1. CASE Spawn
    <2>1. \A t \in TCBs : SafeContext(ctx'[t])
      BY <1>1, Running, GotoSafe DEF Spawn, Unlinking
    <2> QED BY <1>1, <2>1, Running DEF Spawn, IdleInv, IdleImmortal, lists
  <1>2. CASE gen_pid
    <2>1. \A t \in TCBs : SafeContext(ctx'[t])
      BY <1>2, ContextFields DEF gen_pid, IdleInv, SafeContext, Unlinking, TypeOK, Context
    <2> QED BY <1>2, <2>1 DEF gen_pid, IdleInv, IdleImmortal, lists
  <1>3. CASE inc_pid
    <2>1. \A t \in TCBs : SafeContext(ctx'[t])
      BY <1>3, Running, GotoSafe DEF inc_pid, Unlinking
    <2> QED BY <1>3, <2>1, Running DEF inc_pid, IdleInv, IdleImmortal, lists
  <1>4. CASE ktask_create
    <2>1. CASE Goto(Return) /\ UNCHANGED <<tcb, allocated>>
      BY <1>4, <2>1, GotoSafe, ReturnSafe DEF ktask_create, IdleInv, IdleImmortal
    <2>2. CASE ~(Goto(Return) /\ UNCHANGED <<tcb, allocated>>)
      <3> DEFINE e == IF me.entry = "ker_idle" THEN "kshell" ELSE "utask_exec"
                 l == IF e = "kshell" THEN "prompt" ELSE "user"
      <3>1. PICK t \in TCBs \ allocated :
              /\ allocated' = allocated \cup {t}
              /\ tcb' = [tcb EXCEPT ![t] =
                   [NewTask(me.pid, Parent, t) EXCEPT !.prev = tcb[t].prev]]
              /\ ctx' = [ctx EXCEPT ![t] = NewContext(e, l),
                                    ![cpu].new = t, ![cpu].ptr = tasks,
                                    ![cpu].pc = "find_tail"]
        BY <1>4, <2>2 DEF ktask_create
      <3>2. t # Idle
        BY <3>1 DEF IdleInv, IdleImmortal
      <3>3. \A u \in TCBs : tcb'[u].next # Idle
        BY <3>1, BootAssumption DEF IdleInv, IdleImmortal, NewTask, TypeOK
      <3>4. tcb'[Idle].pid = 0
        BY <3>1, <3>2, BootAssumption DEF IdleInv, IdleImmortal, TypeOK
      <3> DEFINE f == [ctx EXCEPT ![t] = NewContext(e, l)]
      <3>5. f \in [TCBs -> Context]
        BY NewContextType, LabelFacts DEF TypeOK, Entries
      <3>6. \A u \in TCBs : SafeContext(f[u])
        BY BootAssumption DEF IdleInv, SafeContext, NewContext, TypeOK, Unlinking
      <3>7. ctx' = [f EXCEPT ![cpu].new = t, ![cpu].ptr = tasks, ![cpu].pc = "find_tail"]
        BY <3>1
      <3>8. \A u \in TCBs : SafeContext(ctx'[u])
        <4> HIDE DEF f
        <4> QED BY <3>2, <3>5, <3>6, <3>7, Running DEF SafeContext, Unlinking, Context
      <3> QED BY <1>4, <3>1, <3>3, <3>4, <3>8 DEF ktask_create, IdleInv, IdleImmortal
    <2> QED BY <2>1, <2>2
  <1>5. CASE mt_push_task_find
    <2>1. \A t \in TCBs : SafeContext(ctx'[t])
      BY <1>5, Running, GotoSafe, GotoWithSafe DEF mt_push_task_find, Unlinking
    <2> QED BY <1>5, <2>1, Running DEF mt_push_task_find, IdleInv, IdleImmortal, lists
  <1>6. CASE mt_push_task_link
    <2>1. \A t \in TCBs : SafeContext(ctx'[t])
      BY <1>6, GotoSafe DEF mt_push_task_link, Unlinking
    <2>2. me.ptr \in TCBs /\ me.new # Idle
      BY <1>6, Running DEF mt_push_task_link, Using, Pointers, IdleInv, SafeContext, me
    <2>3. \A u \in TCBs : tcb'[u].next # Idle /\ tcb'[u].pid = tcb[u].pid
      BY <1>6, <2>2, TaskFields DEF mt_push_task_link, IdleInv, IdleImmortal, TypeOK, Task
    <2> QED BY <1>6, <2>1, <2>3, Running DEF mt_push_task_link, IdleInv, IdleImmortal
  <1>7. CASE mt_push_task_backlink
    <2>1. \A t \in TCBs : SafeContext(ctx'[t])
      BY <1>7, ReturnSafe, ContextFields
      DEF mt_push_task_backlink, IdleInv, SafeContext, Unlinking, TypeOK, Context
    <2>2. me.new \in TCBs
      BY <1>7, Running DEF mt_push_task_backlink, Using, Pointers
    <2>3. \A u \in TCBs : tcb'[u].next = tcb[u].next /\ tcb'[u].pid = tcb[u].pid
      BY <1>7, <2>2, TaskFields DEF mt_push_task_backlink, TypeOK, Task
    <2> QED BY <1>7, <2>1, <2>3, Running DEF mt_push_task_backlink, IdleInv, IdleImmortal
  <1>8. CASE sys_wait
    <2>1. \A t \in TCBs : SafeContext(ctx'[t])
      BY <1>8, Running, GotoWithSafe DEF sys_wait, Unlinking
    <2> QED BY <1>8, <2>1, Running DEF sys_wait, IdleInv, IdleImmortal, lists
  <1>9. CASE Hop
    <2>1. \A t \in TCBs : SafeContext(ctx'[t])
      BY <1>9, GotoWithSafe DEF Hop, At, Unlinking
    <2> QED BY <1>9, <2>1 DEF Hop, IdleInv, IdleImmortal, lists
  <1>10. CASE wait_set_fg
    <2>1. \A t \in TCBs : SafeContext(ctx'[t])
      BY <1>10, Running, GotoWithSafe DEF wait_set_fg, Unlinking
    <2> QED BY <1>10, <2>1, Running DEF wait_set_fg, IdleInv, IdleImmortal, lists
  <1>11. CASE wait_poll
    <2>1. \A t \in TCBs : SafeContext(ctx'[t])
      BY <1>11, Running, GotoSafe, GotoWithSafe DEF wait_poll, Unlinking
    <2> QED BY <1>11, <2>1, Running DEF wait_poll, IdleInv, IdleImmortal, lists
  <1>12. CASE wait_reset_fg
    <2>1. \A t \in TCBs : SafeContext(ctx'[t])
      BY <1>12, GotoSafe, ReturnSafe DEF wait_reset_fg
    <2> QED BY <1>12, <2>1 DEF wait_reset_fg, IdleInv, IdleImmortal, lists
  <1>13. CASE kshell_term
    <2>1. \A t \in TCBs : SafeContext(ctx'[t])
      BY <1>13, ContextFields DEF kshell_term, IdleInv, SafeContext, Unlinking, TypeOK, Context
    <2> QED BY <1>13, <2>1 DEF kshell_term, IdleInv, IdleImmortal, lists
  <1>14. CASE mt_task_terminate_pid
    <2>1. \A t \in TCBs : SafeContext(ctx'[t])
      BY <1>14, Running, GotoSafe, CallSafe DEF mt_task_terminate_pid, Unlinking
    <2> QED BY <1>14, <2>1, Running DEF mt_task_terminate_pid, IdleInv, IdleImmortal, lists
  <1>15. CASE sys_exit
    <2>1. \A t \in TCBs : SafeContext(ctx'[t])
      BY <1>15, Running, CallSafe DEF sys_exit
    <2> QED BY <1>15, <2>1, Running DEF sys_exit, IdleInv, IdleImmortal, lists
  <1>16. CASE terminate_unlink_prev
    <2>0. depth > 0 /\ top.t \in TCBs /\ top.i \in Pointers
      BY <1>16, TopType DEF terminate_unlink_prev, Terminating
    <2>1. CASE tcb[top.t].pid = 0
      BY <1>16, <2>1, TerminateReturnSafe DEF terminate_unlink_prev, IdleInv, IdleImmortal
    <2>2. CASE tcb[top.t].pid # 0
      <3>1. top.t # Idle
        BY <2>2 DEF IdleInv, IdleImmortal
      <3>2. \A t \in TCBs : SafeContext(ctx'[t])
        BY <1>16, <2>0, <2>2, <3>1, GotoSafe DEF terminate_unlink_prev
      <3>3. tcb[top.t].next # Idle
        BY <2>0 DEF IdleInv, IdleImmortal
      <3>4. /\ \A u \in TCBs : tcb'[u].next # Idle
            /\ tcb'[Idle].pid = 0
        BY <1>16, <2>0, <2>2, <3>3, StoredSafe, TaskFields DEF terminate_unlink_prev
      <3> QED BY <1>16, <3>2, <3>4 DEF terminate_unlink_prev, IdleInv, IdleImmortal
    <2> QED BY <2>1, <2>2
  <1>17. CASE terminate_unlink_next
    <2>0. depth > 0 /\ top.t \in TCBs /\ top.i \in Pointers
      BY <1>17, TopType DEF terminate_unlink_next, Terminating
    <2>1. top.t # Idle
      BY <1>17, <2>0, Running DEF terminate_unlink_next, Terminating, At, IdleInv, SafeContext, Unlinking, me, top, depth
    <2>2. \A t \in TCBs : SafeContext(ctx'[t])
      BY <1>17, <2>0, <2>1, GotoSafe DEF terminate_unlink_next
    <2>3. (\A u \in TCBs : tcb'[u].next # Idle) /\ tcb'[Idle].pid = 0
      BY <1>17, <2>0, StoredSafe, TaskFields DEF terminate_unlink_next
    <2> QED BY <1>17, <2>1, <2>2, <2>3 DEF terminate_unlink_next, IdleInv, IdleImmortal
  <1>18. CASE terminate_push
    <2>0. depth > 0 /\ top.t \in TCBs /\ top.i \in Pointers
      BY <1>18, TopType DEF terminate_push, Terminating
    <2>1. top.t # Idle
      BY <1>18, <2>0, Running DEF terminate_push, Terminating, At, IdleInv, SafeContext, Unlinking, me, top, depth
    <2>2. \A t \in TCBs : SafeContext(ctx'[t])
      BY <1>18, <2>0, <2>1, GotoSafe DEF terminate_push
    <2> QED BY <1>18, <2>1, <2>2 DEF terminate_push, IdleInv, IdleImmortal
  <1>19. CASE terminate_push_first
    <2>0. depth > 0 /\ top.t \in TCBs /\ top.i \in Pointers
      BY <1>19, TopType DEF terminate_push_first, Terminating
    <2>1. top.t # Idle
      BY <1>19, <2>0, Running DEF terminate_push_first, Terminating, At, IdleInv, SafeContext, Unlinking, me, top, depth
    <2>2. \A t \in TCBs : SafeContext(ctx'[t])
      BY <1>19, <2>0, <2>1, ScanFromSafe DEF terminate_push_first
    <2>3. (\A u \in TCBs : tcb'[u].next # Idle) /\ tcb'[Idle].pid = 0
      BY <1>19, <2>0, Running, TaskFields, BootAssumption DEF terminate_push_first, IdleInv, IdleImmortal, TypeOK, Task
    <2> QED BY <1>19, <2>1, <2>2, <2>3 DEF terminate_push_first, IdleInv, IdleImmortal
  <1>20. CASE terminate_push_next
    <2>0. depth > 0 /\ top.t \in TCBs /\ top.i \in Pointers
      BY <1>20, TopType DEF terminate_push_next, Terminating
    <2>1. top.t # Idle
      BY <1>20, <2>0, Running DEF terminate_push_next, Terminating, At, IdleInv, SafeContext, Unlinking, me, top, depth
    <2>2. \A t \in TCBs : SafeContext(ctx'[t])
      BY <1>20, <2>0, <2>1, GotoSafe DEF terminate_push_next
    <2>3. (\A u \in TCBs : tcb'[u].next # Idle) /\ tcb'[Idle].pid = 0
      BY <1>20, <2>0, Running, TaskFields DEF terminate_push_next, IdleInv, IdleImmortal, TypeOK, Task
    <2> QED BY <1>20, <2>1, <2>2, <2>3 DEF terminate_push_next, IdleInv, IdleImmortal
  <1>21. CASE terminate_push_prev
    <2>0. depth > 0 /\ top.t \in TCBs /\ top.i \in Pointers
      BY <1>21, TopType DEF terminate_push_prev, Terminating
    <2>1. top.t # Idle
      BY <1>21, <2>0, Running DEF terminate_push_prev, Terminating, At, IdleInv, SafeContext, Unlinking, me, top, depth
    <2>2. \A t \in TCBs : SafeContext(ctx'[t])
      BY <1>21, <2>0, <2>1, GotoSafe DEF terminate_push_prev
    <2>3. (\A u \in TCBs : tcb'[u].next # Idle) /\ tcb'[Idle].pid = 0
      BY <1>21, <2>0, Running, StoredSafe DEF terminate_push_prev, TypeOK
    <2> QED BY <1>21, <2>1, <2>2, <2>3 DEF terminate_push_prev, IdleInv, IdleImmortal
  <1>22. CASE terminate_push_head
    <2>0. depth > 0 /\ top.t \in TCBs /\ top.i \in Pointers
      BY <1>22, TopType DEF terminate_push_head, Terminating
    <2>1. top.t # Idle
      BY <1>22, <2>0, Running DEF terminate_push_head, Terminating, At, IdleInv, SafeContext, Unlinking, me, top, depth
    <2>2. \A t \in TCBs : SafeContext(ctx'[t])
      BY <1>22, <2>0, <2>1, ScanFromSafe DEF terminate_push_head
    <2> QED BY <1>22, <2>1, <2>2 DEF terminate_push_head, IdleInv, IdleImmortal
  <1>23. CASE terminate_scan
    <2>1. \A t \in TCBs : SafeContext(ctx'[t])
      BY <1>23, Running, CallSafe, ScanFromSafe, TerminateReturnSafe DEF terminate_scan
    <2> QED BY <1>23, <2>1, Running DEF terminate_scan, IdleInv, IdleImmortal, lists
  <1>24. CASE cleaner_start
    <2>1. \A t \in TCBs : SafeContext(ctx'[t])
      BY <1>24, GotoWithSafe DEF cleaner_start, IdleInv, IdleImmortal, Unlinking
    <2> QED BY <1>24, <2>1 DEF cleaner_start, IdleInv, IdleImmortal, lists
  <1>25. CASE cleaner_destroy
    <2>1. me.ptr \in TCBs /\ me.ptr # Idle
      BY <1>25, Running DEF cleaner_destroy, At, IdleInv, SafeContext, Pointers, me
    <2>2. \A t \in TCBs : SafeContext(ctx'[t])
      BY <1>25, <2>1, GotoWithSafe DEF cleaner_destroy, IdleInv, IdleImmortal, Unlinking
    <2> QED BY <1>25, <2>1, <2>2 DEF cleaner_destroy, IdleInv, IdleImmortal
  <1>26. CASE cleaner_done
    <2>1. \A t \in TCBs : SafeContext(ctx'[t])
      BY <1>26, Running, GotoSafe DEF cleaner_done, Unlinking
    <2> QED BY <1>26, <2>1, BootAssumption DEF cleaner_done, IdleInv, IdleImmortal, lists
  <1>27. CASE exit_pick
    <2>1. CASE SliceLeft
      <3>1. \A u \in TCBs : tcb'[u].next = tcb[u].next /\ tcb'[u].pid = tcb[u].pid
        BY <1>27, <2>1, TaskFields DEF exit_pick, TypeOK, Task
      <3>2. \A t \in TCBs : SafeContext(ctx'[t])
        BY <1>27, <2>1, GotoSafe DEF exit_pick, Unlinking
      <3> QED BY <1>27, <3>1, <3>2, Running DEF exit_pick, IdleInv, IdleImmortal
    <2>2. CASE ~SliceLeft
      <3>1. (\A u \in TCBs : tcb'[u].next # Idle) /\ tcb'[Idle].pid = 0
        BY <1>27, <2>2, PickType, RescheduledSafe DEF exit_pick
      <3>2. \A t \in TCBs : SafeContext(ctx'[t])
        BY <1>27, <2>2, GotoWithSafe DEF exit_pick, Unlinking
      <3> QED BY <1>27, <3>1, <3>2 DEF exit_pick, IdleInv, IdleImmortal
    <2> QED BY <2>1, <2>2
  <1>28. CASE exit_switch_save
    <2>1. \A t \in TCBs : SafeContext(ctx'[t])
      BY <1>28, GotoSafe DEF exit_switch_save, Unlinking
    <2>2. \A u \in TCBs : tcb'[u].next = tcb[u].next /\ tcb'[u].pid = tcb[u].pid
      BY <1>28, TaskFields DEF exit_switch_save, TypeOK, Task
    <2> QED BY <1>28, <2>1, <2>2, Running DEF exit_switch_save, IdleInv, IdleImmortal
  <1>29. CASE exit_switch_load
    <2>1. me.ptr \in TCBs
      BY <1>29, Running DEF exit_switch_load, Using, Pointers
    <2>2. \A t \in TCBs : SafeContext(ctx'[t])
      BY <1>29, <2>1, TaskFields, ResumeSafe DEF exit_switch_load
    <2> QED BY <1>29, <2>2 DEF exit_switch_load, IdleInv, IdleImmortal, lists
  <1> QED
    BY <1>1, <1>2, <1>3, <1>4, <1>5, <1>6, <1>7, <1>8, <1>9, <1>10, <1>11, <1>12, <1>13, <1>14, <1>15, <1>16, <1>17, <1>18, <1>19, <1>20, <1>21, <1>22, <1>23, <1>24, <1>25, <1>26, <1>27, <1>28, <1>29
    DEF Step, mt_spawn, waiting, mt_task_terminate, cleaner, mt_schedule_exit

\* The timer interrupt preserves the inductive invariant.
LEMMA IdleTick ==
  ASSUME TypeOK, IdleInv, Tick PROVE IdleInv'
  <1>1. CASE SliceLeft /\ tcb' = [tcb EXCEPT ![cur_task].remaining = @ - 1]
                       /\ UNCHANGED <<cur_task, cpu, ctx, torn>>
    <2>1. \A u \in TCBs : tcb'[u].next = tcb[u].next /\ tcb'[u].pid = tcb[u].pid
      BY <1>1, TaskFields DEF TypeOK, Task
    <2> QED BY <1>1, <2>1, Running DEF Tick, IdleInv, IdleImmortal
  <1>2. CASE ~SliceLeft
    <2> DEFINE n == mt_pick_next_task
               f == Rescheduled(n)
               saved == [f EXCEPT ![cur_task].esp = [who |-> cpu, halts |-> FALSE]]
    <2>1. n \in TCBs /\ f \in [TCBs -> Task]
      BY PickType, RescheduledType
    <2>2. (\A u \in TCBs : f[u].next # Idle) /\ f[Idle].pid = 0
      BY <2>1, RescheduledSafe
    <2>3. saved \in [TCBs -> Task]
      BY <2>1, SaveType, Running
    <2>4. tcb' = saved /\ Resume(saved[n].esp)
      BY <1>2 DEF Tick
    <2> HIDE DEF n, f
    <2>5. (\A u \in TCBs : saved[u].next # Idle) /\ saved[Idle].pid = 0
      BY <2>1, <2>2, Running DEF Task
    <2> HIDE DEF saved
    <2>6. saved[n].esp \in [who : TCBs, halts : BOOLEAN]
      BY <2>1, <2>3 DEF Task
    <2>7. \A t \in TCBs : SafeContext(ctx'[t])
      BY <2>4, <2>6, ResumeSafe
    <2> QED BY <2>4, <2>5, <2>7 DEF Tick, IdleInv, IdleImmortal
  <1> QED BY <1>1, <1>2 DEF Tick

\* kernel_idle is never freed, never terminated and always the head of the task
\* list, whatever the timer interrupts and whatever the operator terminates.
THEOREM IdleNeverDies == Spec => []IdleImmortal
  <1>1. TypeOK /\ IdleInv /\ [Next]_vars => IdleInv'
    <2> SUFFICES ASSUME TypeOK, IdleInv, [Next]_vars PROVE IdleInv'
      OBVIOUS
    <2>1. CASE UNCHANGED vars
      BY <2>1 DEF vars, IdleInv, IdleImmortal, SafeContext
    <2> QED BY <2>1, IdleStep, IdleTick DEF Next
  <1>2. IdleInv => IdleImmortal
    BY DEF IdleInv
  <1> QED BY TypeCorrect, IdleInit, <1>1, <1>2, PTL DEF Spec
=============================================================================
