----------------------------- MODULE Interrupts -----------------------------
(***************************************************************************)
(* Interrupt entry and exit (kernel/cpu: pic.c, idt.c, irq.c, isr.c and    *)
(* the assembler stubs), the order in which boot arms the two drivers, and *)
(* the timer countdown behind pit_sleep.                                   *)
(*                                                                         *)
(* The interrupt controllers are modelled from how the code programs them: *)
(* a line that is requested and not masked is delivered when no line of    *)
(* its priority or a higher one is in service; an end of interrupt clears  *)
(* the line of highest priority in service; a request that vanishes is     *)
(* delivered as line 7, or as line 15 with only the cascade in service.    *)
(***************************************************************************)
EXTENDS Integers, Sequences, FiniteSets, SequencesExt

CONSTANTS Ticks   \* the arguments of pit_sleep

ASSUME TicksAssumption == Ticks \subseteq Nat

Lines == 0 .. 15
Cascade == 2
Devices == {0, 1}   \* the timer and the keyboard
Syscall == 128

VARIABLES step,      \* how far kmain has come
          ifl,       \* the interrupt flag
          irr,       \* requested lines
          inService, \* lines in service in the two controllers
          masked,    \* masked lines
          handlers,  \* irq_handlers: the lines that have one
          frames,    \* the interrupt frames on the stack, innermost last
          panicked,
          dropped,   \* ghost: lines delivered while they had no handler
          timer,     \* pit_infos->timer_value
          sleep      \* [on, want, slept]: the pit_sleep under way; slept is a ghost

intVars == <<step, ifl, irr, inService, masked, handlers, frames, panicked, dropped, timer, sleep>>

----------------------------------------------------------------------------
(* Frames.  A frame is written down in the order of the pushes.            *)

\* what the processor pushes, with the error code of the exceptions that have one
CpuPush(v) == <<"ss", "esp", "eflags", "cs", "eip">>
              \o IF v \in {8, 10, 11, 12, 13, 14, 17, 30} THEN <<"err_code">> ELSE <<>>

isr_gen_handlers(v) ==
    IF v \in {8} \cup (10 .. 14) \cup {17, 30} THEN <<"int_num">> ELSE <<"err_code", "int_num">>

irq_gen_handlers(v) == <<"err_code", "int_num">>

isr_common_handler_wrapper == <<"edi", "esi", "ebp", "ebx", "edx", "ecx", "eax", "ds", "es", "fs", "gs">>
isr_common_handler_pops == <<"gs", "fs", "es", "ds", "eax", "ecx", "edx", "ebx", "ebp", "esi", "edi">>
irq_common_handler_wrapper == <<"edi", "esi", "ebp", "ebx", "edx", "ecx", "eax", "ds", "es", "fs", "gs">>
irq_common_handler_pop_and_iret ==
    <<"gs", "fs", "es", "ds", "eax", "ecx", "edx", "ebx", "ebp", "esi", "edi">>

\* what the C handlers take the frame for, in the order of addresses
registers_t == <<"gs", "fs", "es", "ds", "eax", "ecx", "edx", "ebx", "ebp", "esi", "edi",
                 "int_num", "err_code", "eip", "cs", "eflags", "esp", "ss">>

\* the gates of idt_init: which stub a vector enters, and whether it clears IF
idt_init == [v \in (0 .. 47) \cup {Syscall} |->
               [stub |-> IF v \in 32 .. 47 THEN "irq" ELSE "isr", trap |-> v = Syscall]]

Pushed(v) ==
    CpuPush(v) \o IF idt_init[v].stub = "irq"
                  THEN irq_gen_handlers(v) \o irq_common_handler_wrapper
                  ELSE isr_gen_handlers(v) \o isr_common_handler_wrapper
Pops(v) == IF idt_init[v].stub = "irq" THEN irq_common_handler_pop_and_iret
           ELSE isr_common_handler_pops

\* isr0 to isr31 and the irq stubs start with cli, isr32 does not
EnterFlag(v) == IF idt_init[v].trap THEN ifl ELSE FALSE

\* isr_common_handler: the exceptions above 0x12 are ignored
isr_common_handler(v) == CASE v \in 0 .. 18 -> "panic"
                           [] v = Syscall   -> "syscall"
                           [] OTHER         -> "ignore"

----------------------------------------------------------------------------
(* The interrupt controllers *)

Master == 0 .. 7
Slave == 8 .. 15

\* io_outb(PIC_n_CMD, 0x20)
Eoi(lines, pic) ==
    LET held == lines \cap pic
    IN  lines \ {l \in held : \A m \in held : l <= m}

\* mutant: one command for either controller
pic_eoi_variant(lines, irq) == IF irq >= 8 THEN Eoi(lines, Slave) ELSE Eoi(lines, Master)

pic_eoi(lines, irq) == IF irq >= 8 THEN Eoi(Eoi(lines, Slave), Master) ELSE Eoi(lines, Master)

\* The tests are true when the line is in service, which is when it is not spurious
pic_is_irq7_sus == 7 \in inService
pic_is_irq15_sus == 15 \in inService

pic_unmask(lines, irq) == lines \ {irq}

Requested == {l \in irr \ masked : \A s \in inService : l < s}

Interrupt(v) ==
    /\ frames' = Append(frames, [vector |-> v, ifl |-> ifl])
    /\ ifl' = EnterFlag(v)

\* the stub of the requested line of highest priority is entered
irq_deliver ==
    /\ ifl /\ ~panicked /\ Requested # {}
    /\ LET l == CHOOSE x \in Requested : \A y \in Requested : x <= y IN
       /\ Interrupt(32 + l)
       /\ irr' = irr \ {l}
       /\ inService' = inService \cup {l}
    /\ UNCHANGED <<step, masked, handlers, panicked, dropped, timer, sleep>>

irq_spurious(l) ==
    /\ ifl /\ ~panicked /\ Requested = {} /\ step > 2
    /\ \A s \in inService : s > (IF l = 15 THEN Cascade ELSE l)
    /\ Interrupt(32 + l)
    /\ inService' = inService \cup (IF l = 15 THEN {Cascade} ELSE {})
    /\ UNCHANGED <<step, irr, masked, handlers, panicked, dropped, timer, sleep>>

irq_request(l) ==
    /\ irr' = irr \cup {l} /\ irr' # irr
    /\ UNCHANGED <<step, ifl, inService, masked, handlers, frames, panicked, dropped, timer, sleep>>

----------------------------------------------------------------------------
(* Handlers *)

Top == Last(frames)
In(v) == frames # <<>> /\ Top.vector = v

\* the call of mt_schedule is modelled in Scheduler
pit_event ==
    /\ timer' = IF timer > 0 THEN timer - 1 ELSE timer
    /\ sleep' = [sleep EXCEPT !.slept = IF sleep.on /\ @ < sleep.want THEN @ + 1 ELSE @]

\* The end of interrupt goes out before the handler runs; iret takes IF from the frame.
irq_common_handler(l) ==
    LET sus == (l = 7 /\ pic_is_irq7_sus) \/ (l = 15 /\ pic_is_irq15_sus) IN
    /\ In(32 + l) /\ ~panicked
    /\ inService' = CASE sus /\ l = 7  -> inService
                      [] sus /\ l = 15 -> Eoi(inService, Master)
                      [] OTHER         -> pic_eoi(inService, l)
    /\ dropped' = IF sus \/ l \in handlers \/ l \notin Devices THEN dropped ELSE dropped \cup {l}
    /\ IF ~sus /\ l = 0 /\ l \in handlers THEN pit_event ELSE UNCHANGED <<timer, sleep>>
    /\ frames' = Front(frames)
    /\ ifl' = Top.ifl
    /\ UNCHANGED <<step, irr, masked, handlers, panicked>>

\* an instruction that faults, with no interrupt handler running
exception(v) ==
    /\ ~panicked /\ step > 2
    /\ \A i \in DOMAIN frames : frames[i].vector = Syscall
    /\ panicked' = (isr_common_handler(v) = "panic")
    /\ ifl' = (ifl /\ ~panicked')
    /\ UNCHANGED <<step, irr, inService, masked, handlers, frames, dropped, timer, sleep>>

syscall_enter ==
    /\ frames = <<>> /\ ~panicked /\ step = 7 /\ ~sleep.on
    /\ Interrupt(Syscall)
    /\ UNCHANGED <<step, irr, inService, masked, handlers, panicked, dropped, timer, sleep>>

syscall_return ==
    /\ In(Syscall) /\ ~panicked
    /\ frames' = Front(frames) /\ ifl' = Top.ifl
    /\ UNCHANGED <<step, irr, inService, masked, handlers, panicked, dropped, timer, sleep>>

----------------------------------------------------------------------------
(* kmain, as far as interrupts go: each step is one of its calls *)

Running(n) == step = n /\ frames = <<>> /\ ~panicked /\ step' = n + 1

\* all lines but the cascade are masked
pic_init ==
    /\ Running(1)
    /\ masked' = Lines \ {Cascade} /\ inService' = {} /\ irr' = {}
    /\ UNCHANGED <<ifl, handlers, frames, panicked, dropped, timer, sleep>>

\* idt_init ends with sti
idt_load ==
    /\ Running(2)
    /\ ifl' = TRUE
    /\ UNCHANGED <<irr, inService, masked, handlers, frames, panicked, dropped, timer, sleep>>

pit_init ==
    /\ Running(3)
    /\ timer' = 0
    /\ masked' = pic_unmask(masked, 0)
    /\ UNCHANGED <<ifl, irr, inService, handlers, frames, panicked, dropped, sleep>>

irq_register(n, l) ==
    /\ Running(n)
    /\ handlers' = handlers \cup {l}
    /\ UNCHANGED <<ifl, irr, inService, masked, frames, panicked, dropped, timer, sleep>>

kbd_unmask(n) ==
    /\ Running(n)
    /\ masked' = pic_unmask(masked, 1)
    /\ UNCHANGED <<ifl, irr, inService, handlers, frames, panicked, dropped, timer, sleep>>

kmain == pic_init \/ idt_load \/ pit_init \/ irq_register(4, 0) \/ irq_register(5, 1) \/ kbd_unmask(6)

\* by ATA_init, in kmain, and by the shell's command, which runs while no
\* program exists; nobody else sleeps
pit_sleep(t) ==
    /\ step = 7 /\ frames = <<>> /\ ~panicked /\ ~sleep.on
    /\ timer' = t
    /\ sleep' = [on |-> TRUE, want |-> t, slept |-> 0]
    /\ UNCHANGED <<step, ifl, irr, inService, masked, handlers, frames, panicked, dropped>>

pit_sleep_end ==
    /\ sleep.on /\ frames = <<>> /\ ~panicked /\ timer = 0
    /\ sleep' = [sleep EXCEPT !.on = FALSE]
    /\ UNCHANGED <<step, ifl, irr, inService, masked, handlers, frames, panicked, dropped, timer>>

IntInit ==
    /\ step = 1 /\ ifl = FALSE /\ irr = {} /\ inService = {} /\ masked = Lines
    /\ handlers = {} /\ frames = <<>> /\ panicked = FALSE /\ dropped = {}
    /\ timer = 0 /\ sleep = [on |-> FALSE, want |-> 0, slept |-> 0]

IrqHandler == \E l \in Lines : irq_common_handler(l)

IntNext ==
    \/ kmain
    \/ \E t \in Ticks : pit_sleep(t)
    \/ pit_sleep_end
    \/ \E l \in Devices : irq_request(l)
    \/ irq_deliver
    \/ \E l \in {7, 15} : irq_spurious(l)
    \/ IrqHandler
    \/ \E v \in {14, 19} : exception(v)
    \/ syscall_enter \/ syscall_return
    \/ panicked /\ UNCHANGED intVars

IntSpec == IntInit /\ [][IntNext]_intVars

----------------------------------------------------------------------------
(* Properties *)

\* For every vector the stub completes the frame the processor pushed to exactly
\* the layout of registers_t, and the pops undo the pushes, so that a handler
\* reads int_num and err_code in their places and iret finds eip.
FrameMatches ==
    step > 2 => \A v \in DOMAIN idt_init :
        /\ Reverse(Pushed(v)) = registers_t
        /\ SubSeq(registers_t, 1, Len(Pops(v))) = Pops(v)
        /\ SubSeq(registers_t, Len(Pops(v)) + 3, Len(registers_t)) = Reverse(CpuPush(0))

\* Outside the handlers no line is in service, in spite of the inverted tests
\* for spurious interrupts: nothing is shut out by a missing end of interrupt.
NothingStuck ==
    (\A i \in DOMAIN frames : frames[i].vector = Syscall) => inService = {}

\* Interrupt handlers do not nest: above a system call the stack holds at most
\* one frame, and interrupts are off while it is there.
OneFrame ==
    /\ Len(frames) <= 2
    /\ \A i \in DOMAIN frames : frames[i].vector # Syscall => i = Len(frames) /\ ~ifl
    /\ Len(frames) = 2 => frames[1].vector = Syscall

\* Only timer ticks are lost for want of a handler: pit_init opens its line
\* before it registers, kbd_init after.
DroppedTicksOnly == dropped \subseteq {0}

\* A sleeper is let go after the number of ticks it asked for and not earlier.
SleepInTime ==
    /\ sleep.on => timer = sleep.want - sleep.slept
    /\ ~sleep.on => sleep.slept = sleep.want

\* A requested timer tick is delivered: no other line, no spurious interrupt and
\* no system call holds it up for ever.
TickDelivered == (step > 3 /\ 0 \in irr) ~> (0 \notin irr \/ panicked)

\* Every sleep ends, at boot (while drives are probed) and in the shell.
SleepEnds == sleep.on ~> (~sleep.on \/ panicked)

\* Entry, delivery and return of interrupts fit together: frames pop as they were
\* pushed, handlers do not nest, no line stays in service, no request but early
\* timer ticks is dropped, and a sleep counts every tick once.
InterruptsSound == FrameMatches /\ OneFrame /\ NothingStuck /\ DroppedTicksOnly /\ SleepInTime
=============================================================================
