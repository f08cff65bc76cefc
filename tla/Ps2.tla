-------------------------------- MODULE Ps2 --------------------------------
(***************************************************************************)
(* The PS/2 controller: kernel/drivers/ps2.c with the initialisation of    *)
(* the keyboard (kbd_init, which kmain calls) and the mouse (mouse_init).  *)
(* The code is a script of polled reads and writes, kept in `todo'; a byte *)
(* is the set of its bits.  The controller and its devices are modelled    *)
(* from what the code expects of them; a write may meet a busy controller  *)
(* and an answer may come late.                                            *)
(***************************************************************************)
EXTENDS Integers, Sequences, FiniteSets

CONSTANTS Hardware,   \* the machines: [dual, ok, port, dev]
          Polls,      \* polls until a write gives up (512)
          Tries,      \* repetitions of a command without an answer (20)
          MaxFaults   \* bound on the writes and answers that are not in time

ASSUME Ps2Constants == Polls \in Nat \ {0} /\ Tries \in Nat /\ MaxFaults \in Nat

ACK == {1, 3, 4, 5, 6, 7}
RESET_ACK == {1, 3, 5, 7}
CTRLR_TEST_SUCCESS == {0, 2, 4, 6}
CTRLR_TEST_FAIL == 2 .. 7
RESET == 0 .. 7
IDENTIFY == {1, 4, 5, 6, 7}
SCAN_ENABLE == {2, 4, 5, 6, 7}
SCAN_DISABLE == {0, 2, 4, 5, 6, 7}
SAMPLE_RATE == {0, 1, 4, 5, 6, 7}
RESOLUTION == {3, 5, 6, 7}
INT(ch) == ch - 1                   \* bits of the configuration byte
CLK(ch) == ch + 3
TRANSLATION == 6

VARIABLES hw,       \* the machine
          ctl,      \* [cfg, due, last, to]: configuration, answers on their way, the byte
                    \* a read returns when there is none, and who gets the next data byte: a device, or 0, the configuration
          ps,       \* [entry, phase, ch, todo, got, cfg, dual]: where the code is
          channels, \* ps2_channels
          driver,   \* the drivers started
          result,   \* what ps2_init returned
          cli2,     \* interrupts are disabled
          faults    \* how many writes and answers were not in time

ps2Vars == <<hw, ctl, ps, channels, driver, result, cli2, faults>>

Cmd(v) == [op |-> "cmd", v |-> v]
Data(v) == [op |-> "data", v |-> v]
Inb == [op |-> "in"]
Dev(ch, v) == [op |-> "dev", ch |-> ch, v |-> v, t |-> Tries]
Ack(d) == [d EXCEPT !.op = "ack"]
Port2(ch) == IF ch = 2 THEN <<Cmd("port2in")>> ELSE <<>>
Enable(ch) == Cmd(IF ch = 1 THEN "enable1" ELSE "enable2")

----------------------------------------------------------------------------
(* The hardware *)

DeviceAnswer(dev, v) ==
    CASE dev = "none" -> <<>>
      [] v = RESET -> <<ACK, RESET_ACK>> \o (IF dev = "mouse" THEN <<{}>> ELSE <<>>)
      [] v = IDENTIFY -> <<ACK>> \o (IF dev = "mouse" THEN <<{}>> ELSE <<{0, 1, 3, 5, 7}, {0, 1, 7}>>)
      [] OTHER -> <<ACK>>

\* A controller with one channel does not know the commands for the second.
CtlAccept(w) ==
    LET answer(bytes) == [ctl EXCEPT !.due = @ \o bytes]
        verdict(ok) == IF ok THEN {} ELSE {0}
    IN  CASE w.op = "data" /\ ctl.to = 0 -> [ctl EXCEPT !.cfg = w.v, !.to = 1]
          [] w.op = "data" -> [answer(DeviceAnswer(hw.dev[ctl.to], w.v)) EXCEPT !.to = 1]
          [] w.v = "disable1" -> [ctl EXCEPT !.cfg = @ \cup {CLK(1)}]
          [] w.v = "enable1" -> [ctl EXCEPT !.cfg = @ \ {CLK(1)}]
          [] w.v = "disable2" /\ hw.dual -> [ctl EXCEPT !.cfg = @ \cup {CLK(2)}]
          [] w.v = "enable2" /\ hw.dual -> [ctl EXCEPT !.cfg = @ \ {CLK(2)}]
          [] w.v = "readcfg" -> answer(<<ctl.cfg>>)
          [] w.v = "writecfg" -> [ctl EXCEPT !.to = 0]
          [] w.v = "ctrlrtest" -> answer(<<IF hw.ok THEN CTRLR_TEST_SUCCESS ELSE CTRLR_TEST_FAIL>>)
          [] w.v = "test1" -> answer(<<verdict(hw.port[1])>>)
          [] w.v = "test2" /\ hw.dual -> answer(<<verdict(hw.port[2])>>)
          [] w.v = "port2in" /\ hw.dual -> [ctl EXCEPT !.to = 2]
          [] OTHER -> ctl

----------------------------------------------------------------------------
(* Polled writes and reads *)

NextOp == Head(ps.todo)
Doing(ops) == ps.todo # <<>> /\ NextOp.op \in ops
ps2Other == <<hw, channels, driver, result, cli2>>

\* `while (busy && t-- > 0)': the counter ends at zero if the controller is
\* ready at the last poll, and below zero, which is not zero, if it never is.
TimedOut(n) == n = Polls

\* n polls find the controller busy.  The write that gives up is not made, the
\* one to a controller that is never ready is made and lost; no caller looks.
ps2_outb(n) ==
    /\ Doing({"cmd", "data"})
    /\ ps' = [ps EXCEPT !.todo = Tail(@)]
    /\ ctl' = IF TimedOut(n) \/ n > Polls THEN ctl ELSE CtlAccept(NextOp)
    /\ faults' = faults + (IF n >= Polls THEN 1 ELSE 0)
    /\ faults' <= MaxFaults
    /\ UNCHANGED ps2Other

\* The loop waits while there is a byte: it polls to the end when the answer is
\* there and reads it, and reads at once, whatever is left, when it is late.
ps2_inb(late) == IF late \/ ctl.due = <<>> THEN ctl.last ELSE Head(ctl.due)

Read(late) ==
    /\ late => ctl.due # <<>>
    /\ ctl' = [ctl EXCEPT !.last = ps2_inb(late), !.due = IF late \/ @ = <<>> THEN @ ELSE Tail(@)]
    /\ faults' = faults + (IF late THEN 1 ELSE 0)
    /\ faults' <= MaxFaults
    /\ UNCHANGED ps2Other

ps2_expect(late) ==
    /\ Doing({"in"}) /\ Read(late)
    /\ ps' = [ps EXCEPT !.todo = Tail(@), !.got = Append(@, ps2_inb(late))]

ps2_dev_cmd ==
    /\ Doing({"dev"})
    /\ ps' = [ps EXCEPT !.todo = Port2(NextOp.ch) \o <<Data(NextOp.v), Ack(NextOp)>> \o Tail(@)]
    /\ UNCHANGED <<ctl, faults, ps2Other>>

Again(d) == [d EXCEPT !.op = "dev", !.t = @ - 1]

\* repeated until the device answers ACK or the counter is used up
ps2_dev_ack(late) ==
    /\ Doing({"ack"}) /\ Read(late)
    /\ ps' = [ps EXCEPT !.todo = (IF ps2_inb(late) # ACK /\ NextOp.t > 0 THEN <<Again(NextOp)>> ELSE <<>>)
                                 \o Tail(@)]

----------------------------------------------------------------------------
(* ps2_init, kbd_init, mouse_init: each action is what the code computes   *)
(* between two exchanges with the controller                               *)

At(phase) == ps.todo = <<>> /\ ps.phase = phase
Goto(phase, ops) == [ps EXCEPT !.phase = phase, !.todo = ops, !.got = <<>>]
bus2 == <<hw, ctl, faults>>

ps2_start ==
    /\ At("start")
    /\ cli2' = TRUE
    /\ ps' = Goto("config", <<Cmd("disable1"), Cmd("disable2"), Inb, Cmd("readcfg"), Inb>>)
    /\ UNCHANGED <<bus2, channels, driver, result>>

ps2_config ==
    LET cfg == ps.got[2] \ {INT(1), INT(2), TRANSLATION} IN
    /\ At("config")
    /\ ps' = [Goto("tested", <<Cmd("writecfg"), Data(cfg), Cmd("ctrlrtest"), Inb>>)
                EXCEPT !.cfg = cfg, !.dual = CLK(2) \notin ps.got[2]]
    /\ UNCHANGED <<bus2, channels, driver, result, cli2>>

\* a failed test returns with interrupts disabled
ps2_tested ==
    /\ At("tested")
    /\ IF ps.got[1] = CTRLR_TEST_FAIL
       THEN ps' = Goto("end", <<>>) /\ result' = 1
       ELSE /\ ps' = Goto("dual", <<Cmd("writecfg"), Data(ps.cfg)>> \o
                        IF ps.dual THEN <<>> ELSE <<Cmd("enable2"), Cmd("readcfg"), Inb, Cmd("disable2")>>)
            /\ UNCHANGED result
    /\ UNCHANGED <<bus2, channels, driver, cli2>>

ps2_dual ==
    LET two == ps.dual \/ CLK(2) \notin ps.got[1] IN
    /\ At("dual")
    /\ ps' = [Goto("ports", <<Cmd("test1"), Inb>> \o IF two THEN <<Cmd("test2"), Inb>> ELSE <<>>)
                EXCEPT !.dual = two]
    /\ UNCHANGED <<bus2, channels, driver, result, cli2>>

\* mutant: the second channel goes by the first one's result
PortsPassed_variant == {ch \in {1, 2} : ch <= Len(ps.got) /\ ps.got[1] = {}}

PortsPassed == {ch \in {1, 2} : ch <= Len(ps.got) /\ ps.got[ch] = {}}

ps2_present ==
    /\ At("ports")
    /\ channels' = PortsPassed
    /\ ps' = [Goto("reset", <<>>) EXCEPT !.ch = 1]
    /\ UNCHANGED <<bus2, driver, result, cli2>>

\* the first channel's device is reset too, but not asked for the result
ps2_reset ==
    /\ At("reset")
    /\ ps' = IF ps.ch \notin channels THEN Goto("acked", <<>>)
             ELSE Goto("acked", <<Enable(ps.ch)>> \o Port2(ps.ch) \o <<Data(RESET)>> \o
                                IF ps.ch = 1 THEN <<Inb>> ELSE <<Inb, Inb, Cmd("disable2")>>)
    /\ UNCHANGED <<bus2, channels, driver, result, cli2>>

AckSuccess(a) == \/ a[1] = RESET_ACK /\ a[2] \in {ACK, {}}
                 \/ a[2] = RESET_ACK /\ a[1] \in {ACK, {}}

ps2_acked ==
    /\ At("acked")
    /\ channels' = IF Len(ps.got) = 2 /\ ~AckSuccess(ps.got) THEN channels \ {2} ELSE channels
    /\ ps' = IF ps.ch = 1 THEN [Goto("reset", <<>>) EXCEPT !.ch = 2] ELSE [Goto("identify", <<>>) EXCEPT !.ch = 1]
    /\ UNCHANGED <<bus2, driver, result, cli2>>

ps2_identify ==
    /\ At("identify") /\ ps.ch \in channels
    /\ ps' = Goto("attach", <<Enable(ps.ch), Dev(ps.ch, SCAN_DISABLE), Dev(ps.ch, IDENTIFY), Inb, Inb>>)
    /\ UNCHANGED <<bus2, channels, driver, result, cli2>>

\* 0xFFFF, 0x41AB, 0xC1AB, 0x83AB and 0 stand for keyboards, all else for a mouse
ps2_device_driver(b1, b2) ==
    IF \/ b1 = 0 .. 7 /\ b2 = 0 .. 7
       \/ b1 = {0, 1, 3, 5, 7} /\ b2 \in {{0, 6}, {0, 6, 7}, {0, 1, 7}}
       \/ b1 = {} /\ b2 = {}
    THEN "kbd" ELSE "mouse"

ReadConfig == <<Cmd("readcfg"), Inb>>

ps2_attach ==
    /\ At("attach")
    /\ ps' = Goto(ps2_device_driver(ps.got[1], ps.got[2]), ReadConfig)
    /\ UNCHANGED <<bus2, channels, driver, result, cli2>>

KbdConfig(cfg, ch) == (cfg \cup {INT(ch), TRANSLATION}) \ {CLK(ch)}

kbd_init ==
    /\ At("kbd")
    /\ ps' = Goto("attached", <<Cmd("writecfg"), Data(KbdConfig(ps.got[1], ps.ch)), Dev(ps.ch, SCAN_ENABLE), Inb>>)
    /\ driver' = driver \cup {<<"kbd", ps.ch>>}
    /\ UNCHANGED <<bus2, channels, result, cli2>>

mouse_init ==
    LET cfg == (ps.got[1] \cup {INT(ps.ch)}) \ {CLK(ps.ch)} IN
    /\ At("mouse")
    /\ ps' = Goto("attached", <<Cmd("writecfg"), Data(cfg), Dev(ps.ch, SCAN_ENABLE)>>
                     \o <<Dev(ps.ch, SAMPLE_RATE)>> \o Port2(ps.ch) \o <<Data({4, 6})>>
                     \o <<Dev(ps.ch, RESOLUTION)>> \o Port2(ps.ch) \o <<Data({})>>)
    /\ driver' = driver \cup {<<"mouse", ps.ch>>}
    /\ UNCHANGED <<bus2, channels, result, cli2>>

set_eflags == FALSE

\* the next channel; the flags are restored after the second one
ps2_next ==
    /\ At("attached") \/ (At("identify") /\ ps.ch \notin channels)
    /\ IF ps.entry = "ps2_init" /\ ps.ch = 1
       THEN ps' = [Goto("identify", <<>>) EXCEPT !.ch = 2] /\ UNCHANGED <<result, cli2>>
       ELSE ps' = Goto("end", <<>>) /\ result' = 0 /\ cli2' = set_eflags
    /\ UNCHANGED <<bus2, channels, driver>>

Ps2Step ==
    \/ ps2_start \/ ps2_config \/ ps2_tested \/ ps2_dual \/ ps2_present \/ ps2_reset \/ ps2_acked
    \/ ps2_identify \/ ps2_attach \/ kbd_init \/ mouse_init \/ ps2_next \/ ps2_dev_cmd
    \/ \E n \in 0 .. Polls + 1 : ps2_outb(n)
    \/ \E late \in BOOLEAN : ps2_expect(late) \/ ps2_dev_ack(late)

Ps2Ended == ps.phase = "end"
Ps2Stops == Ps2Ended /\ UNCHANGED ps2Vars

\* kmain calls kbd_init(1); its call of ps2_init is commented out
Ps2Start(entry) ==
    [entry |-> entry, ch |-> 1,
     phase |-> CASE entry = "ps2_init" -> "start" [] entry = "kbd_init" -> "kbd" [] OTHER -> "end",
     todo |-> IF entry = "kbd_init" THEN ReadConfig ELSE <<>>, got |-> <<>>, cfg |-> {}, dual |-> FALSE]

FirmwareCfg == {INT(1), 2, TRANSLATION} \cup (IF hw.dual THEN {CLK(2)} ELSE {})

Ps2Init(machines, entries) ==
    /\ hw \in machines
    /\ ctl = [cfg |-> FirmwareCfg, due |-> <<>>, last |-> {}, to |-> 1]
    /\ \E entry \in entries : ps = Ps2Start(entry)
    /\ channels = {} /\ driver = {} /\ result = -1 /\ cli2 = FALSE /\ faults = 0

----------------------------------------------------------------------------
(* Properties *)

\* kbd_init and ps2_init end on every machine, whatever is late or lost.
Ps2Ends == (ps.phase # "end") ~> (ps.phase = "end")

\* ps2_init enables interrupts again unless the controller's test fails.
IntsBack == Ps2Ended => (cli2 <=> result = 1)

\* The keyboard works after kbd_init(1) if everything is in time: port 1 is
\* clocked, translated and interrupts; nothing else changes.
KbdReady == Ps2Ended /\ ps.entry = "kbd_init" /\ faults = 0 =>
                ctl.cfg = (FirmwareCfg \cup {INT(1), TRANSLATION}) \ {CLK(1)}

\* A second device answers its reset, and so seems to do one that is not there when
\* the first channel's mouse has: only the first of its three bytes was read.
SecondHeard == hw.dev[2] # "none" \/ (hw.port[1] /\ hw.dev[1] = "mouse")

\* With two channels and everything in time, ps2_init finds the channels whose
\* port passes its test, the second only if it hears an answer to its reset.
ChannelsRight ==
    Ps2Ended /\ result = 0 /\ ps.entry = "ps2_init" /\ faults = 0 /\ hw.dual =>
        channels = {ch \in {1, 2} : hw.port[ch] /\ (ch = 2 => SecondHeard)}

\* Set-up against a controller that is late, silent or refuses: interrupts come
\* back on, a keyboard that answered reports keys, working channels are found.
ControllerRight == IntsBack /\ KbdReady /\ ChannelsRight
=============================================================================
