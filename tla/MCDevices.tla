----------------------------- MODULE MCDevices -----------------------------
EXTENDS Interrupts, Input, Ata, Ps2, Terminal, Spinlock, TLC

\* a, backspace (which shares a's slot), enter, shift, the left bracket (which
\* shares the slot of shift)
MCKeys == {30, 14, 28, 42, 26}
KeyMap(a, b) == (30 :> a) @@ (14 :> "BS") @@ (28 :> "NL") @@ (42 :> NUL) @@ (26 :> b)
MCLayouts == [en |-> [plain |-> KeyMap("a", "["), cap |-> KeyMap("A", "{")],
              fr |-> [plain |-> KeyMap("q", "^"), cap |-> KeyMap("Q", "..")]]
MCMoves == {<<-3, 0>>, <<-2, 1>>, <<3, -1>>, <<0, -2>>, <<-1, 3>>}
MCRequests == {<<1, 1>>, <<1, 3>>, <<1, 5>>, <<6, 2>>}
Machine(two, ok, port1, port2, dev1, dev2) ==
    [dual |-> two, ok |-> ok, port |-> <<port1, port2>>, dev |-> <<dev1, dev2>>]
MCHardware == {Machine(TRUE, TRUE, TRUE, TRUE, "kbd", "mouse"),
               Machine(FALSE, TRUE, TRUE, FALSE, "kbd", "none"),
               Machine(TRUE, TRUE, TRUE, FALSE, "none", "mouse"),
               Machine(TRUE, TRUE, FALSE, TRUE, "kbd", "none"),
               Machine(TRUE, TRUE, TRUE, TRUE, "mouse", "none"),
               Machine(TRUE, FALSE, TRUE, TRUE, "kbd", "mouse")}

VARIABLE part   \* the component this behaviour is about

vars == <<part, intVars, inputVars, ataVars, ps2Vars, termVars, spinVars>>

Init == /\ part \in {"int", "kbd", "mouse", "probe", "read", "ps2", "term", "spin"}
        /\ IntInit /\ InputInit /\ SpinInit
        /\ IF part = "probe" THEN AtaInit ELSE ReadInit
        /\ IF part = "ps2" THEN Ps2Init(Hardware, {"ps2_init", "kbd_init"})
           ELSE Ps2Init({Machine(TRUE, TRUE, TRUE, TRUE, "kbd", "mouse")}, {"none"})
        /\ IF part = "term" THEN TermInit(Terms) ELSE TermInit({"vesa"})

\* A step of one component leaves the others alone.
IntPart(A) == part = "int" /\ A /\ UNCHANGED <<part, inputVars, ataVars, ps2Vars, termVars, spinVars>>
InputPart(p, A) == part = p /\ A /\ UNCHANGED <<part, intVars, ataVars, ps2Vars, termVars, spinVars>>
AtaPart(p, A) == part = p /\ A /\ UNCHANGED <<part, intVars, inputVars, ps2Vars, termVars, spinVars>>
Ps2Part(A) == part = "ps2" /\ A /\ UNCHANGED <<part, intVars, inputVars, ataVars, termVars, spinVars>>
TermPart(A) == part = "term" /\ A /\ UNCHANGED <<part, intVars, inputVars, ataVars, ps2Vars, spinVars>>
SpinPart(A) == part = "spin" /\ A /\ UNCHANGED <<part, intVars, inputVars, ataVars, ps2Vars, termVars>>

Next == \/ IntPart(IntNext)
        \/ InputPart("kbd", KbdNext)
        \/ InputPart("mouse", MouseNext)
        \/ AtaPart("probe", AtaProbe \/ ProbeStops)
        \/ AtaPart("read", ReadNext \/ ReadStops)
        \/ Ps2Part(Ps2Step \/ Ps2Stops)
        \/ TermPart(TermNext)
        \/ SpinPart(SpinNext \/ SpinStuck)

Spec == /\ Init /\ [][Next]_vars
        /\ SF_vars(IntPart(kmain))
        /\ WF_vars(IntPart(irq_request(0)))
        /\ WF_vars(IntPart(irq_deliver))
        /\ WF_vars(IntPart(IrqHandler))
        /\ SF_vars(IntPart(pit_sleep_end))
        /\ WF_vars(AtaPart("probe", AtaProbe))
        /\ WF_vars(AtaPart("read", AtaDrive))
        /\ \A t \in Readers : WF_vars(AtaPart("read", AtaReader(t)))
        /\ WF_vars(Ps2Part(Ps2Step))

\* Every wait of the drivers ends: ticks are delivered, sleeps and the probe of the
\* drives end, reads return, and the PS/2 start-up comes to its end.
DriversEnd == TickDelivered /\ SleepEnds /\ ProbeEnds /\ ReadReturns /\ Ps2Ends
=============================================================================
