---------------------------- MODULE DeviceProofs ----------------------------
(***************************************************************************)
(* Proofs about the parts next to the hardware, each under the             *)
(* specification of its own module: the spinlock, the mouse, the entry and *)
(* exit of interrupts, line input from the keyboard, and the terminals.    *)
(***************************************************************************)
EXTENDS Spinlock, Input, Interrupts, Terminal, FiniteSetTheorems,
        SequenceTheorems, WellFoundedInduction, TLAPS

----------------------------------------------------------------------------
(* Spinlock *)

\* Before a task has come through the slow path none is inside through it, and a
\* task inside excludes the others and keeps the lock taken.
SpinInv ==
    /\ slow \in Nat
    /\ spc \in [Tasks2 -> {"out", "spin", "try", "in", "slow"}]
    /\ slow = 0 => /\ \A t \in Tasks2 : spc[t] # "slow"
                   /\ \A t \in Tasks2 : spc[t] = "in" => lock = 1
                   /\ \A t, u \in Tasks2 : spc[t] = "in" /\ spc[u] = "in" => t = u

\* spinlock_acquire, the spin loop and spinlock_release keep SpinInv: the first
\* slow-path entry makes slow positive and so takes the promise back.
LEMMA SpinStep == SpinInv /\ [SpinNext]_spinVars => SpinInv'
<1> SUFFICES ASSUME SpinInv, [SpinNext]_spinVars PROVE SpinInv'
  OBVIOUS
<1> USE DEF SpinInv
<1>1. CASE UNCHANGED spinVars
  BY <1>1 DEF spinVars
<1>2. ASSUME NEW t \in Tasks2, spinlock_acquire(t) PROVE SpinInv'
  BY <1>2 DEF spinlock_acquire
<1>3. ASSUME NEW t \in Tasks2, spin(t) PROVE SpinInv'
  BY <1>3 DEF spin
<1>4. ASSUME NEW t \in Tasks2, spin_bts(t) PROVE SpinInv'
  <2>1. CASE lock = 0
    BY <1>4, <2>1 DEF spin_bts
  <2>2. CASE lock # 0
    <3>1. slow' = slow + 1 /\ slow' \in Nat /\ slow' # 0
      BY <1>4, <2>2 DEF spin_bts
    <3>2. spc' \in [Tasks2 -> {"out", "spin", "try", "in", "slow"}]
      BY <1>4, <2>2 DEF spin_bts
    <3> QED BY <3>1, <3>2
  <2> QED BY <2>1, <2>2
<1>5. ASSUME NEW t \in Tasks2, spinlock_release(t) PROVE SpinInv'
  BY <1>5 DEF spinlock_release
<1> QED BY <1>1, <1>2, <1>3, <1>4, <1>5 DEF SpinNext

\* For any set of tasks: until a task leaves the inverted loop of
\* spinlock_acquire, at most one is between acquire and release.
THEOREM LockExcludes == SpinSpec => []FirstExclusive
<1>1. SpinInit => SpinInv
  BY DEF SpinInit, SpinInv
<1>2. SpinInv => FirstExclusive
  <2> SUFFICES ASSUME SpinInv, slow = 0
               PROVE  LET inside == {t \in Tasks2 : spc[t] = "in"} IN
                      Cardinality(inside) <= 1 /\ (inside # {} => lock = 1)
    BY DEF FirstExclusive
  <2> DEFINE inside == {t \in Tasks2 : spc[t] = "in"}
  <2>1. inside # {} => lock = 1
    BY DEF SpinInv
  <2>2. CASE inside = {}
    BY <2>1, <2>2, FS_EmptySet
  <2>3. CASE inside # {}
    <3>1. PICK t \in Tasks2 : spc[t] = "in"
      BY <2>3
    <3>2. inside = {t}
      BY <3>1 DEF SpinInv
    <3>3. Cardinality({t}) = 1
      BY FS_Singleton
    <3> QED BY <2>1, <3>2, <3>3
  <2> QED BY <2>2, <2>3
<1> QED BY <1>1, <1>2, SpinStep, PTL DEF SpinSpec

----------------------------------------------------------------------------
(* Mouse *)

\* The steps that a packet can carry: the sign is taken from the first byte only
\* when the second looks negative.
Carried == -Half .. 2 * Half - 1

\* the variables of mouse.c
MouseState == [byte : 0 .. 2, xs : BOOLEAN, ys : BOOLEAN, vx : Int, x : 0 .. MaxX, y : 0 .. MaxY]

\* Between packets the pointer is where it belongs.  Within one, mouse.c has the
\* signs and, after the second byte, the horizontal step of this very packet, and
\* the pointer will belong where the step leads.
MouseInv ==
    /\ m \in MouseState
    /\ at \in [x : 0 .. MaxX, y : 0 .. MaxY]
    /\ phase \in 0 .. 2
    /\ packet \in [dx : Int, dy : Int]
    /\ slipped \in BOOLEAN
    /\ ~slipped =>
         /\ m.byte = phase
         /\ phase = 0 => m.x = at.x /\ m.y = at.y
         /\ phase # 0 => /\ packet.dx \in Carried /\ packet.dy \in Carried
                         /\ m.xs = (packet.dx < 0) /\ m.ys = (packet.dy < 0)
                         /\ at.x = Clamp(m.x + packet.dx, MaxX)
                         /\ at.y = Clamp(m.y - packet.dy, MaxY)
         /\ phase = 2 => m.vx = packet.dx

\* A clamped position is on the screen.
LEMMA ClampIn == ASSUME NEW v \in Int, NEW max \in Nat PROVE Clamp(v, max) \in 0 .. max
BY DEF Clamp

\* The low byte of a step is a byte.
LEMMA LowIn == ASSUME NEW d \in Int PROVE Low(d) \in 0 .. 2 * Half - 1
<1>1. 2 * Half \in Nat \ {0}
  BY InputConstants
<1>2. \A n \in Nat \ {0} : d % n \in 0 .. n - 1
  OBVIOUS
<1> QED BY <1>1, <1>2 DEF Low

\* A remainder is determined by its range.
LEMMA ModOnce ==
    ASSUME NEW n \in Nat \ {0}, NEW r \in 0 .. n - 1
    PROVE  r % n = r /\ (r - n) % n = r
OBVIOUS

\* The sign bit and the low byte give the step back, for every step that a packet
\* can carry: what mouse_event computes with its (int8_t) cast.
LEMMA StepCarried == ASSUME NEW d \in Carried PROVE Signed(d < 0, Low(d)) = d
<1>1. 2 * Half \in Nat \ {0} /\ Half \in Nat \ {0}
  BY InputConstants
<1>2. CASE d >= 0
  <2>1. d \in 0 .. 2 * Half - 1
    BY <1>1, <1>2 DEF Carried
  <2>2. Low(d) = d
    BY <1>1, <2>1, ModOnce DEF Low
  <2> QED BY <1>1, <1>2, <2>1, <2>2 DEF Signed
<1>3. CASE d < 0
  <2> DEFINE r == d + 2 * Half
  <2>1. r \in 0 .. 2 * Half - 1 /\ r >= Half /\ d = r - 2 * Half
    BY <1>1, <1>3 DEF Carried
  <2> HIDE DEF r
  <2>2. Low(d) = r
    BY <1>1, <2>1, ModOnce DEF Low
  <2> QED BY <1>1, <1>3, <2>1, <2>2 DEF Signed
<1> QED BY <1>2, <1>3 DEF Carried

\* Whatever byte mouse_event is given, its variables keep their types and the
\* pointer stays on the screen.
LEMMA EventTypes ==
    ASSUME m \in MouseState, NEW p \in 0 .. 2 * Half - 1,
           NEW over \in BOOLEAN, NEW xs \in BOOLEAN, NEW ys \in BOOLEAN,
           mouse_event(p, over, xs, ys)
    PROVE  m' \in MouseState
<1>1. Half \in Nat \ {0} /\ MaxX \in Nat /\ MaxY \in Nat
  BY InputConstants
<1>2. Signed(m.xs, p) \in Int /\ Signed(m.ys, p) \in Int
  BY <1>1 DEF Signed
<1>3. Clamp(m.x + m.vx, MaxX) \in 0 .. MaxX /\ Clamp(m.y - Signed(m.ys, p), MaxY) \in 0 .. MaxY
  <2>1. m.x + m.vx \in Int /\ m.y - Signed(m.ys, p) \in Int
    BY <1>1, <1>2 DEF MouseState
  <2> QED BY <1>1, <2>1, ClampIn
<1>4. CASE m.byte = 0 /\ over
  BY <1>4 DEF mouse_event
<1>5. CASE m.byte = 0 /\ ~over
  <2>1. m' = [m EXCEPT !.byte = 1, !.xs = xs, !.ys = ys]
    BY <1>5 DEF mouse_event
  <2>2. 1 \in 0 .. 2
    OBVIOUS
  <2> QED BY <2>1, <2>2, Zenon DEF MouseState
<1>6. CASE m.byte = 1
  <2>1. m' = [m EXCEPT !.byte = 2, !.vx = Signed(m.xs, p)]
    BY <1>6 DEF mouse_event
  <2>2. 2 \in 0 .. 2
    OBVIOUS
  <2> QED BY <1>2, <2>1, <2>2, Zenon DEF MouseState
<1>7. CASE m.byte = 2
  <2>1. m' = [m EXCEPT !.byte = 0, !.x = Clamp(m.x + m.vx, MaxX),
                       !.y = Clamp(m.y - Signed(m.ys, p), MaxY)]
    BY <1>7 DEF mouse_event
  <2>2. 0 \in 0 .. 2
    OBVIOUS
  <2> QED BY <1>3, <2>1, <2>2, Zenon DEF MouseState
<1> QED BY <1>4, <1>5, <1>6, <1>7 DEF MouseState

\* The first byte of a packet.  Without overflow bit and with a step that a packet
\* can carry, the signs and the place the pointer will belong to fit the packet.
LEMMA PacketStep ==
    ASSUME MouseInv, NEW d \in Moves, NEW over \in BOOLEAN, mouse_packet(d[1], d[2], over)
    PROVE  MouseInv'
<1> DEFINE dx == d[1]
           dy == d[2]
<1>1. dx \in 1 - 2 * Half .. 2 * Half - 1 /\ dy \in 1 - 2 * Half .. 2 * Half - 1
      /\ Half \in Nat \ {0} /\ MaxX \in Nat /\ MaxY \in Nat
  BY InputConstants
<1>2. /\ phase = 0 /\ phase' = 1 /\ packet' = [dx |-> dx, dy |-> dy]
      /\ at' = IF slipped' THEN [x |-> 0, y |-> 0]
               ELSE [x |-> Clamp(at.x + dx, MaxX), y |-> Clamp(at.y - dy, MaxY)]
      /\ mouse_event(0, over, dx < 0, dy < 0)
  BY DEF mouse_packet
<1>3. slipped' = (slipped \/ over \/ dx < -Half \/ dy < -Half)
  BY DEF mouse_packet
<1>4. slipped' \in BOOLEAN
  BY <1>3, Zenon
<1>5. ~slipped' => ~slipped /\ ~over /\ ~(dx < -Half) /\ ~(dy < -Half)
  BY <1>3, Zenon
<1> HIDE DEF dx, dy
<1>6. m' \in MouseState
  <2>1. 0 \in 0 .. 2 * Half - 1 /\ (dx < 0) \in BOOLEAN /\ (dy < 0) \in BOOLEAN /\ m \in MouseState
    BY <1>1 DEF MouseInv
  <2> QED BY <1>2, <2>1, EventTypes
<1>7. at' \in [x : 0 .. MaxX, y : 0 .. MaxY]
  <2>1. at.x + dx \in Int /\ at.y - dy \in Int
    BY <1>1 DEF MouseInv
  <2>2. Clamp(at.x + dx, MaxX) \in 0 .. MaxX /\ Clamp(at.y - dy, MaxY) \in 0 .. MaxY
    BY <1>1, <2>1, ClampIn
  <2> QED BY <1>1, <1>2, <2>2
<1>8. packet' \in [dx : Int, dy : Int] /\ phase' \in 0 .. 2
  BY <1>1, <1>2
<1>9. ASSUME ~slipped'
      PROVE  /\ m'.byte = phase'
             /\ packet'.dx \in Carried /\ packet'.dy \in Carried
             /\ m'.xs = (packet'.dx < 0) /\ m'.ys = (packet'.dy < 0)
             /\ at'.x = Clamp(m'.x + packet'.dx, MaxX)
             /\ at'.y = Clamp(m'.y - packet'.dy, MaxY)
  <2>1. m.byte = 0 /\ ~over /\ m.x = at.x /\ m.y = at.y
    BY <1>2, <1>5, <1>9 DEF MouseInv
  <2>2. m' = [m EXCEPT !.byte = 1, !.xs = (dx < 0), !.ys = (dy < 0)]
    BY <1>2, <2>1 DEF mouse_event
  <2>3. m'.byte = 1 /\ m'.xs = (dx < 0) /\ m'.ys = (dy < 0) /\ m'.x = m.x /\ m'.y = m.y
    BY <2>2 DEF MouseInv
  <2>4. dx \in Carried /\ dy \in Carried
    BY <1>1, <1>5, <1>9 DEF Carried
  <2>5. at'.x = Clamp(at.x + dx, MaxX) /\ at'.y = Clamp(at.y - dy, MaxY)
    BY <1>2, <1>9
  <2>6. packet'.dx = dx /\ packet'.dy = dy
    BY <1>2
  <2> QED BY <1>2, <2>1, <2>3, <2>4, <2>5, <2>6
<1> QED BY <1>2, <1>4, <1>6, <1>7, <1>8, <1>9 DEF MouseInv

\* The second and the third byte.  In step with the mouse, mouse_event recovers
\* the two parts of the step, and the third byte moves the pointer by them.
LEMMA DataStep == MouseInv /\ mouse_data => MouseInv'
<1> SUFFICES ASSUME MouseInv, mouse_data PROVE MouseInv'
  OBVIOUS
<1>1. Half \in Nat \ {0} /\ MaxX \in Nat /\ MaxY \in Nat
  BY InputConstants
<1> DEFINE p == Low(IF phase = 1 THEN packet.dx ELSE packet.dy)
<1>2. /\ phase \in {1, 2} /\ phase' = (phase + 1) % 3
      /\ packet' = IF phase = 2 THEN [dx |-> 0, dy |-> 0] ELSE packet
      /\ at' = at /\ slipped' = slipped
  BY DEF mouse_data
<1>3. PICK o \in BOOLEAN, xs \in BOOLEAN, ys \in BOOLEAN : mouse_event(p, o, xs, ys)
  BY DEF mouse_data
<1>4. p \in 0 .. 2 * Half - 1
  <2>1. (IF phase = 1 THEN packet.dx ELSE packet.dy) \in Int
    BY DEF MouseInv
  <2> QED BY <2>1, LowIn
<1>5. phase' = IF phase = 1 THEN 2 ELSE 0
  BY <1>2
<1>6. packet' \in [dx : Int, dy : Int]
  BY <1>2 DEF MouseInv
<1>7. m' \in MouseState
  <2>1. m \in MouseState
    BY DEF MouseInv
  <2> QED BY <1>3, <1>4, <2>1, EventTypes
<1>8. ASSUME ~slipped, phase = 1
      PROVE  m'.byte = 2 /\ m'.vx = packet.dx /\ m'.xs = m.xs /\ m'.ys = m.ys
             /\ m'.x = m.x /\ m'.y = m.y /\ packet' = packet
  <2>1. m.byte = 1 /\ packet.dx \in Carried /\ m.xs = (packet.dx < 0)
    BY <1>8 DEF MouseInv
  <2>2. Signed(m.xs, p) = packet.dx
    BY <1>8, <2>1, StepCarried
  <2> HIDE DEF p
  <2>3. m' = [m EXCEPT !.byte = 2, !.vx = Signed(m.xs, p)]
    BY <1>3, <2>1 DEF mouse_event
  <2> QED BY <1>2, <1>8, <2>2, <2>3 DEF MouseInv
<1>9. ASSUME ~slipped, phase = 2
      PROVE  m'.byte = 0 /\ m'.x = at.x /\ m'.y = at.y
  <2>1. m.byte = 2 /\ packet.dy \in Carried /\ m.ys = (packet.dy < 0) /\ m.vx = packet.dx
    BY <1>9 DEF MouseInv
  <2>2. Signed(m.ys, p) = packet.dy
    BY <1>9, <2>1, StepCarried
  <2> HIDE DEF p
  <2>3. m' = [m EXCEPT !.byte = 0, !.x = Clamp(m.x + m.vx, MaxX),
                       !.y = Clamp(m.y - Signed(m.ys, p), MaxY)]
    BY <1>3, <2>1 DEF mouse_event
  <2>4. at.x = Clamp(m.x + packet.dx, MaxX) /\ at.y = Clamp(m.y - packet.dy, MaxY)
    BY <1>9 DEF MouseInv
  <2> QED BY <2>1, <2>2, <2>3, <2>4 DEF MouseInv
<1> HIDE DEF p
<1>10. CASE slipped
  BY <1>2, <1>5, <1>6, <1>7, <1>10 DEF MouseInv
<1>11. CASE ~slipped /\ phase = 1
  BY <1>2, <1>5, <1>6, <1>7, <1>8, <1>11 DEF MouseInv
<1>12. CASE ~slipped /\ phase = 2
  BY <1>2, <1>5, <1>6, <1>7, <1>9, <1>12 DEF MouseInv
<1> QED BY <1>2, <1>10, <1>11, <1>12

\* For every byte width, screen and set of steps that a packet's sign and byte can
\* express: the pointer stays on the screen whatever mouse_event is fed, and is
\* where the mouse moved it until a packet overflows or steps too far.
THEOREM PointerStaysRight == MouseSpec => []PointerRight
<1>1. InputInit => MouseInv
  <2>1. MaxX \in Nat /\ MaxY \in Nat
    BY InputConstants
  <2> SUFFICES ASSUME InputInit PROVE MouseInv
    OBVIOUS
  <2>2. m \in MouseState /\ at \in [x : 0 .. MaxX, y : 0 .. MaxY] /\ packet \in [dx : Int, dy : Int]
    BY <2>1 DEF InputInit, MouseState
  <2>3. phase = 0 /\ slipped = FALSE /\ m.byte = 0 /\ m.x = at.x /\ m.y = at.y
    BY DEF InputInit
  <2>4. phase \in 0 .. 2 /\ phase # 2
    BY <2>3
  <2>5. slipped \in BOOLEAN
    BY <2>3, Zenon
  <2> QED BY <2>2, <2>3, <2>4, <2>5, Zenon DEF MouseInv
<1>2. MouseInv /\ [MouseNext]_inputVars => MouseInv'
  <2> SUFFICES ASSUME MouseInv, [MouseNext]_inputVars PROVE MouseInv'
    OBVIOUS
  <2>1. CASE mouse_data
    BY <2>1, DataStep
  <2>2. ASSUME NEW d \in Moves, NEW over \in BOOLEAN, mouse_packet(d[1], d[2], over)
        PROVE  MouseInv'
    BY <2>2, PacketStep
  <2>3. CASE UNCHANGED inputVars
    BY <2>3 DEF inputVars, MouseInv
  <2> QED BY <2>1, <2>2, <2>3 DEF MouseNext
<1>3. MouseInv => PointerRight
  <2> SUFFICES ASSUME MouseInv PROVE PointerRight
    OBVIOUS
  <2>1. PointerOnScreen
    BY DEF MouseInv, MouseState, PointerOnScreen
  <2>2. PointerFollows
    BY Zenon DEF MouseInv, PointerFollows
  <2> QED BY <2>1, <2>2 DEF PointerRight
<1> QED BY <1>1, <1>2, <1>3, PTL DEF MouseSpec

----------------------------------------------------------------------------
(* Interrupts *)

\* the lines that reach a stub: the two devices' and the two spurious ones
Arrivals == {0, 1, 7, 15}

\* what the controllers have in service while the stub of a line runs
Held(l) == IF l = 15 THEN {Cascade} ELSE IF l = 7 THEN {} ELSE {l}

\* the stack outside the handlers of the lines: empty, or a system call's frame
Bases == {<<>>} \cup {<<[vector |-> Syscall, ifl |-> b]>> : b \in BOOLEAN}

\* Either no handler runs and no line is in service, or one does, on top of such a
\* stack, with interrupts off and its own line in service; the keyboard's line
\* arrives only after its handler is registered.
StackInv ==
    \/ frames \in Bases /\ inService = {}
    \/ \E s \in Bases, l \in Arrivals, b \in BOOLEAN :
          /\ frames = Append(s, [vector |-> 32 + l, ifl |-> b])
          /\ inService = Held(l) /\ ~ifl
          /\ l = 1 => 1 \in handlers

\* kmain registers the keyboard's handler before it opens its line, and nobody
\* sleeps before it is through.
BootInv ==
    /\ step \in 1 .. 7
    /\ irr \subseteq Devices
    /\ ifl \in BOOLEAN
    /\ step <= 6 => 1 \in masked
    /\ step >= 6 => 1 \in handlers
    /\ step < 7 => ~sleep.on

\* the types of the countdown, and SleepInTime
ClockInv ==
    /\ timer \in Nat
    /\ sleep \in [on : BOOLEAN, want : Nat, slept : Nat]
    /\ SleepInTime

IntInv == StackInv /\ BootInv /\ DroppedTicksOnly /\ ClockInv

\* Pushing a frame and taking it off again.
Pushes(s, f) ==
    LET t == Append(s, f)
    IN  /\ t # <<>> /\ Front(t) = s /\ Last(t) = f
        /\ Len(t) = Len(s) + 1 /\ Len(s) \in 0 .. 1
        /\ \A i \in 1 .. Len(s) : t[i] = s[i] /\ s[i].vector = Syscall
        /\ t[Len(t)] = f

\* What Front and Last give back of a sequence that was appended to.
LEMMA FrontLast ==
    ASSUME NEW S, NEW s \in Seq(S), NEW f \in S
    PROVE  Front(Append(s, f)) = s /\ Last(Append(s, f)) = f
<1> DEFINE t == Append(s, f)
<1>1. /\ t \in Seq(S) /\ Len(t) = Len(s) + 1
      /\ \A i \in 1 .. Len(s) : t[i] = s[i]
      /\ t[Len(s) + 1] = f
  BY AppendProperties
<1>2. Len(s) \in Nat
  OBVIOUS
<1> HIDE DEF t
<1>3. Last(t) = f
  BY <1>1 DEF Last
<1>4. \A i \in 1 .. Len(s) : t[i] \in S
  BY <1>1, <1>2
<1>5. /\ SubSeq(t, 1, Len(s)) \in Seq(S)
      /\ Len(SubSeq(t, 1, Len(s))) = IF 1 <= Len(s) THEN Len(s) - 1 + 1 ELSE 0
      /\ \A i \in 1 .. Len(s) - 1 + 1 : SubSeq(t, 1, Len(s))[i] = t[1 + i - 1]
  BY <1>2, <1>4, SubSeqProperties
<1>6. Len(SubSeq(t, 1, Len(s))) = Len(s)
  BY <1>2, <1>5
<1>7. \A i \in 1 .. Len(s) : SubSeq(t, 1, Len(s))[i] = s[i]
  BY <1>1, <1>2, <1>5
<1>8. SubSeq(t, 1, Len(s)) = s
  BY <1>5, <1>6, <1>7, SeqEqual
<1>9. Len(t) - 1 = Len(s)
  BY <1>1, <1>2
<1>10. Front(t) = s
  BY <1>8, <1>9 DEF Front
<1> QED BY <1>3, <1>10 DEF t

\* A stack outside the handlers is a sequence, and one of the same kind as any frame.
LEMMA BaseSeq == ASSUME NEW s \in Bases, NEW f PROVE \E S : s \in Seq(S) /\ f \in S
<1>1. CASE s = <<>>
  <2>1. s \in Seq({f})
    BY <1>1
  <2> QED BY <2>1
<1>2. ASSUME NEW b \in BOOLEAN, s = <<[vector |-> Syscall, ifl |-> b]>>
      PROVE  \E S : s \in Seq(S) /\ f \in S
  <2> DEFINE g == [vector |-> Syscall, ifl |-> b]
  <2> HIDE DEF g
  <2>1. s = <<g>>
    BY <1>2 DEF g
  <2>2. s \in Seq({g, f})
    BY <2>1
  <2> QED BY <2>2
<1> QED BY <1>1, <1>2 DEF Bases

\* On every stack outside the handlers a frame is pushed and popped like that.
LEMMA FramePops == ASSUME NEW s \in Bases, NEW f PROVE Pushes(s, f)
<1>1. PICK S : s \in Seq(S) /\ f \in S
  BY BaseSeq
<1>2. Len(s) \in 0 .. 1 /\ \A i \in 1 .. Len(s) : s[i].vector = Syscall
  BY DEF Bases
<1>3. /\ Append(s, f) # <<>> /\ Len(Append(s, f)) = Len(s) + 1
      /\ \A i \in 1 .. Len(s) : Append(s, f)[i] = s[i]
      /\ Append(s, f)[Len(s) + 1] = f
  BY <1>1, AppendProperties
<1>4. Front(Append(s, f)) = s /\ Last(Append(s, f)) = f
  BY <1>1, FrontLast
<1> QED BY <1>2, <1>3, <1>4 DEF Pushes

\* The end of interrupt that irq_common_handler sends clears exactly what the line
\* has in service, the spurious lines' included.
LEMMA EoiClears ==
    ASSUME NEW l \in Arrivals
    PROVE  pic_eoi(Held(l), l) = {} /\ 7 \notin Held(l) /\ 15 \notin Held(l)
<1>1. CASE l = 0
  BY <1>1 DEF pic_eoi, Eoi, Held, Master, Slave
<1>2. CASE l = 1
  BY <1>2 DEF pic_eoi, Eoi, Held, Master, Slave
<1>3. CASE l = 7
  BY <1>3 DEF pic_eoi, Eoi, Held, Master, Slave
<1>4. CASE l = 15
  BY <1>4 DEF pic_eoi, Eoi, Held, Master, Slave, Cascade
<1> QED BY <1>1, <1>2, <1>3, <1>4 DEF Arrivals

\* With interrupts on, on an empty stack or directly in a system call, no handler
\* of a line runs.
LEMMA Outside ==
    ASSUME StackInv, ifl \/ frames = <<>> \/ In(Syscall)
    PROVE  frames \in Bases /\ inService = {}
<1> SUFFICES ASSUME NEW s \in Bases, NEW l \in Arrivals, NEW b \in BOOLEAN,
                    frames = Append(s, [vector |-> 32 + l, ifl |-> b]), ~ifl
             PROVE  FALSE
  BY DEF StackInv
<1> DEFINE f == [vector |-> 32 + l, ifl |-> b]
<1>1. f.vector # Syscall
  BY DEF Arrivals, Syscall
<1> HIDE DEF f
<1>2. frames = Append(s, f)
  BY DEF f
<1>3. frames # <<>> /\ Top = f
  BY <1>2, FramePops DEF Pushes, Top
<1> QED BY <1>1, <1>3 DEF In

\* In the handler of a line: the frame on top is that line's, what is below it is a
\* stack outside the handlers, and what is in service is the line's own.
LEMMA Handling ==
    ASSUME StackInv, NEW l \in Lines, In(32 + l)
    PROVE  \E s \in Bases, b \in BOOLEAN :
              /\ frames = Append(s, [vector |-> 32 + l, ifl |-> b])
              /\ Front(frames) = s /\ Top.ifl = b
              /\ l \in Arrivals /\ inService = Held(l) /\ ~ifl
              /\ l = 1 => 1 \in handlers
<1>1. CASE frames \in Bases
  <2>1. frames # <<>> /\ Top.vector = 32 + l
    BY DEF In
  <2>2. PICK b \in BOOLEAN : frames = <<[vector |-> Syscall, ifl |-> b]>>
    BY <1>1, <2>1 DEF Bases
  <2>3. Top.vector = Syscall
    BY <2>2 DEF Top, Last
  <2> QED BY <2>1, <2>3 DEF Syscall, Lines
<1>2. ASSUME NEW s \in Bases, NEW k \in Arrivals, NEW b \in BOOLEAN,
             frames = Append(s, [vector |-> 32 + k, ifl |-> b]),
             inService = Held(k), ~ifl, k = 1 => 1 \in handlers
      PROVE  \E s1 \in Bases, b1 \in BOOLEAN :
                /\ frames = Append(s1, [vector |-> 32 + l, ifl |-> b1])
                /\ Front(frames) = s1 /\ Top.ifl = b1
                /\ l \in Arrivals /\ inService = Held(l) /\ ~ifl
                /\ l = 1 => 1 \in handlers
  <2> DEFINE f == [vector |-> 32 + k, ifl |-> b]
  <2>1. f.vector = 32 + k /\ f.ifl = b
    OBVIOUS
  <2>2. frames = Append(s, f)
    BY <1>2
  <2> HIDE DEF f
  <2>3. Front(frames) = s /\ Top = f
    BY <2>2, FramePops DEF Pushes, Top
  <2>4. 32 + k = 32 + l
    BY <2>1, <2>3 DEF In
  <2>5. k = l
    BY <2>4 DEF Arrivals, Lines
  <2> QED BY <1>2, <2>1, <2>3, <2>5
<1> QED BY <1>1, <1>2 DEF StackInv

\* An interrupt that arrives outside the handlers puts its frame on such a stack
\* and turns interrupts off.
LEMMA Arrives ==
    ASSUME NEW l \in Arrivals, frames \in Bases, ifl \in BOOLEAN,
           Interrupt(32 + l), inService' = Held(l), l = 1 => 1 \in handlers'
    PROVE  StackInv'
<1>1. frames' = Append(frames, [vector |-> 32 + l, ifl |-> ifl])
  BY DEF Interrupt
<1>2. ~ifl'
  <2>1. 32 + l \in 32 .. 47
    BY DEF Arrivals
  <2>2. 32 + l # Syscall
    BY <2>1 DEF Syscall
  <2>3. idt_init[32 + l].trap = (32 + l = Syscall)
    BY <2>1 DEF idt_init
  <2> QED BY <2>2, <2>3 DEF Interrupt, EnterFlag
<1> QED BY <1>1, <1>2, Zenon DEF StackInv

\* The line that is delivered is one of the two devices', open and requested.
LEMMA Delivered ==
    ASSUME irr \subseteq Devices, Requested # {}
    PROVE  LET l == CHOOSE x \in Requested : \A y \in Requested : x <= y
           IN  l \in {0, 1} /\ l \notin masked
<1>1. Requested \subseteq {0, 1} /\ \A x \in Requested : x \notin masked
  BY DEF Requested, Devices
<1>2. \E x \in Requested : \A y \in Requested : x <= y
  <2>1. CASE 0 \in Requested
    <3>1. \A y \in Requested : 0 <= y
      BY <1>1
    <3> QED BY <2>1, <3>1
  <2>2. CASE 0 \notin Requested
    <3>1. \A y \in Requested : y = 1
      BY <1>1, <2>2
    <3>2. PICK x \in Requested : TRUE
      OBVIOUS
    <3>3. x = 1 /\ \A y \in Requested : x <= y
      BY <3>1
    <3> QED BY <3>3
  <2> QED BY <2>1, <2>2
<1>3. (CHOOSE x \in Requested : \A y \in Requested : x <= y) \in Requested
  BY <1>2, Zenon
<1> QED BY <1>1, <1>3, Zenon

\* What irq_common_handler leaves: the stack below the frame, nothing in service.
LEMMA Returns ==
    ASSUME StackInv, NEW l \in Lines, irq_common_handler(l)
    PROVE  frames' \in Bases /\ inService' = {} /\ ifl' \in BOOLEAN
           /\ l \in Arrivals /\ (l = 1 => 1 \in handlers)
<1>1. In(32 + l)
  BY DEF irq_common_handler
<1>2. PICK s \in Bases, b \in BOOLEAN :
          /\ Front(frames) = s /\ Top.ifl = b
          /\ l \in Arrivals /\ inService = Held(l)
          /\ l = 1 => 1 \in handlers
  BY <1>1, Handling
<1>3. frames' = s /\ ifl' = b
  BY <1>2 DEF irq_common_handler
<1>4. pic_eoi(Held(l), l) = {} /\ 7 \notin Held(l) /\ 15 \notin Held(l)
  BY <1>2, EoiClears
<1>5. inService' = {}
  BY <1>2, <1>4 DEF irq_common_handler, pic_is_irq7_sus, pic_is_irq15_sus
<1> QED BY <1>2, <1>3, <1>5

\* Every step keeps the stack in its shape.
LEMMA StackStep == StackInv /\ BootInv /\ IntNext => StackInv'
<1> SUFFICES ASSUME StackInv, BootInv, IntNext PROVE StackInv'
  OBVIOUS
<1>1. CASE kmain
  <2>1. frames = <<>>
    BY <1>1 DEF kmain, pic_init, idt_load, pit_init, irq_register, kbd_unmask, Running
  <2>2. inService = {}
    BY <2>1, Outside
  <2>3. frames' = <<>> /\ inService' = {}
    BY <1>1, <2>1, <2>2 DEF kmain, pic_init, idt_load, pit_init, irq_register, kbd_unmask
  <2> QED BY <2>3 DEF StackInv, Bases
<1>2. CASE irq_deliver
  <2> DEFINE l == CHOOSE x \in Requested : \A y \in Requested : x <= y
  <2>1. l \in {0, 1} /\ l \notin masked
    BY <1>2, Delivered DEF irq_deliver, BootInv
  <2>2. Interrupt(32 + l) /\ inService' = inService \cup {l} /\ handlers' = handlers /\ ifl
    BY <1>2 DEF irq_deliver
  <2> HIDE DEF l
  <2>3. frames \in Bases /\ inService = {}
    BY <2>2, Outside
  <2>4. inService' = Held(l) /\ l \in Arrivals
    BY <2>1, <2>2, <2>3 DEF Held, Arrivals
  <2>5. l = 1 => 1 \in handlers'
    BY <2>1, <2>2 DEF BootInv
  <2>6. ifl \in BOOLEAN
    BY DEF BootInv
  <2> QED BY <2>2, <2>3, <2>4, <2>5, <2>6, Arrives
<1>3. ASSUME NEW l \in {7, 15}, irq_spurious(l) PROVE StackInv'
  <2>1. Interrupt(32 + l) /\ ifl /\ inService' = inService \cup (IF l = 15 THEN {Cascade} ELSE {})
    BY <1>3 DEF irq_spurious
  <2>2. frames \in Bases /\ inService = {}
    BY <2>1, Outside
  <2>3. inService' = Held(l) /\ l \in Arrivals /\ l # 1
    BY <2>1, <2>2 DEF Held, Arrivals
  <2>4. ifl \in BOOLEAN
    BY DEF BootInv
  <2> QED BY <2>1, <2>2, <2>3, <2>4, Arrives
<1>4. CASE IrqHandler
  BY <1>4, Returns DEF IrqHandler, StackInv
<1>5. CASE syscall_enter
  <2>1. frames = <<>> /\ frames' = Append(frames, [vector |-> Syscall, ifl |-> ifl])
        /\ inService' = inService
    BY <1>5 DEF syscall_enter, Interrupt
  <2>2. inService = {}
    BY <2>1, Outside
  <2>3. ifl \in BOOLEAN
    BY DEF BootInv
  <2>4. frames' = <<[vector |-> Syscall, ifl |-> ifl]>>
    BY <2>1
  <2>5. frames' \in Bases
    BY <2>3, <2>4, Zenon DEF Bases
  <2> QED BY <2>1, <2>2, <2>5 DEF StackInv
<1>6. CASE syscall_return
  <2>1. In(Syscall) /\ frames' = Front(frames) /\ inService' = inService /\ frames # <<>>
    BY <1>6 DEF syscall_return, In
  <2>2. frames \in Bases /\ inService = {}
    BY <2>1, Outside
  <2>3. PICK b \in BOOLEAN : frames = <<[vector |-> Syscall, ifl |-> b]>>
    BY <2>1, <2>2 DEF Bases
  <2>4. frames' = <<>>
    BY <2>1, <2>3 DEF Front
  <2> QED BY <2>1, <2>2, <2>4 DEF StackInv, Bases
<1>7. ASSUME NEW v \in {14, 19}, exception(v) PROVE StackInv'
  <2>1. frames' = frames /\ inService' = inService /\ handlers' = handlers
    BY <1>7 DEF exception
  <2>2. ifl' => ifl
    BY <1>7, Zenon DEF exception
  <2> QED BY <2>1, <2>2, Zenon DEF StackInv
<1>8. ASSUME frames' = frames, inService' = inService, handlers' = handlers, ifl' = ifl
      PROVE  StackInv'
  BY <1>8, Zenon DEF StackInv
<1>9. ASSUME NEW t \in Ticks, pit_sleep(t) PROVE StackInv'
  BY <1>8, <1>9 DEF pit_sleep
<1>10. CASE pit_sleep_end
  BY <1>8, <1>10 DEF pit_sleep_end
<1>11. ASSUME NEW l \in Devices, irq_request(l) PROVE StackInv'
  BY <1>8, <1>11 DEF irq_request
<1>12. CASE panicked /\ UNCHANGED intVars
  BY <1>8, <1>12 DEF intVars
<1> QED BY <1>1, <1>2, <1>3, <1>4, <1>5, <1>6, <1>7, <1>9, <1>10, <1>11, <1>12 DEF IntNext

\* The order of kmain's calls keeps BootInv; nothing else moves masks and handlers.
LEMMA BootStep == StackInv /\ BootInv /\ ClockInv /\ IntNext => BootInv'
<1> SUFFICES ASSUME StackInv, BootInv, ClockInv, IntNext PROVE BootInv'
  OBVIOUS
<1>1. CASE kmain
  <2>1. CASE pic_init
    BY <2>1 DEF pic_init, Running, BootInv, Lines, Cascade
  <2>2. CASE idt_load
    BY <2>2 DEF idt_load, Running, BootInv
  <2>3. CASE pit_init
    BY <2>3 DEF pit_init, Running, BootInv, pic_unmask
  <2>4. CASE irq_register(4, 0) \/ irq_register(5, 1)
    BY <2>4 DEF irq_register, Running, BootInv
  <2>5. CASE kbd_unmask(6)
    BY <2>5 DEF kbd_unmask, Running, BootInv
  <2> QED BY <1>1, <2>1, <2>2, <2>3, <2>4, <2>5 DEF kmain
<1>2. ASSUME step' = step, irr' \subseteq Devices, ifl' \in BOOLEAN, masked' = masked,
             handlers' = handlers, step < 7 => ~sleep'.on
      PROVE  BootInv'
  BY <1>2 DEF BootInv
<1>3. CASE irq_deliver
  <2>1. ifl' \in BOOLEAN
    BY <1>3 DEF irq_deliver, Interrupt, EnterFlag, BootInv
  <2> QED BY <1>2, <1>3, <2>1 DEF irq_deliver, BootInv
<1>4. ASSUME NEW l \in {7, 15}, irq_spurious(l) PROVE BootInv'
  <2>1. ifl' \in BOOLEAN
    BY <1>4 DEF irq_spurious, Interrupt, EnterFlag, BootInv
  <2> QED BY <1>2, <1>4, <2>1 DEF irq_spurious, BootInv
<1>5. ASSUME NEW l \in Lines, irq_common_handler(l) PROVE BootInv'
  <2>1. ifl' \in BOOLEAN
    BY <1>5, Returns
  <2>2. step < 7 => ~sleep'.on
    <3>1. sleep'.on = sleep.on
      BY <1>5 DEF irq_common_handler, pit_event, ClockInv
    <3> QED BY <3>1 DEF BootInv
  <2> QED BY <1>2, <1>5, <2>1, <2>2 DEF irq_common_handler, BootInv
<1>6. CASE syscall_enter
  <2>1. ifl' \in BOOLEAN
    BY <1>6 DEF syscall_enter, Interrupt, EnterFlag, BootInv
  <2> QED BY <1>2, <1>6, <2>1 DEF syscall_enter, BootInv
<1>7. CASE syscall_return
  <2>1. frames # <<>> /\ In(Syscall) /\ ifl' = Top.ifl
    BY <1>7 DEF syscall_return, In
  <2>2. PICK b \in BOOLEAN : frames = <<[vector |-> Syscall, ifl |-> b]>>
    BY <2>1, Outside DEF Bases
  <2>3. ifl' \in BOOLEAN
    BY <2>1, <2>2 DEF Top, Last
  <2> QED BY <1>2, <1>7, <2>3 DEF syscall_return, BootInv
<1>8. ASSUME NEW v \in {14, 19}, exception(v) PROVE BootInv'
  <2>1. ifl' \in BOOLEAN
    BY <1>8, Zenon DEF exception
  <2> QED BY <1>2, <1>8, <2>1 DEF exception, BootInv
<1>9. ASSUME NEW t \in Ticks, pit_sleep(t) PROVE BootInv'
  BY <1>2, <1>9 DEF pit_sleep, BootInv
<1>10. CASE pit_sleep_end
  BY <1>2, <1>10 DEF pit_sleep_end, BootInv
<1>11. ASSUME NEW l \in Devices, irq_request(l) PROVE BootInv'
  BY <1>2, <1>11 DEF irq_request, BootInv
<1>12. CASE panicked /\ UNCHANGED intVars
  BY <1>2, <1>12 DEF intVars, BootInv
<1> QED BY <1>1, <1>3, <1>4, <1>5, <1>6, <1>7, <1>8, <1>9, <1>10, <1>11, <1>12
        DEF IntNext, IrqHandler

\* Only irq_common_handler drops a line, and it runs for the keyboard's only when
\* that one has its handler.
LEMMA DropStep == StackInv /\ DroppedTicksOnly /\ IntNext => DroppedTicksOnly'
<1> SUFFICES ASSUME StackInv, DroppedTicksOnly, IntNext PROVE DroppedTicksOnly'
  OBVIOUS
<1>1. ASSUME NEW l \in Lines, irq_common_handler(l) PROVE DroppedTicksOnly'
  <2>1. l = 1 => 1 \in handlers
    BY <1>1, Returns
  <2>2. dropped' = dropped \/ (l \in {0} /\ dropped' = dropped \cup {l})
    BY <1>1, <2>1 DEF irq_common_handler, Devices
  <2> QED BY <2>2 DEF DroppedTicksOnly
<1>2. CASE dropped' = dropped
  BY <1>2 DEF DroppedTicksOnly
<1> QED BY <1>1, <1>2
        DEF IntNext, kmain, pic_init, idt_load, pit_init, irq_register, kbd_unmask, pit_sleep,
            pit_sleep_end, irq_request, irq_deliver, irq_spurious, IrqHandler, exception,
            syscall_enter, syscall_return, intVars

\* Only the tick, the start and the end of a sleep, and pit_init, which runs before
\* any sleep, touch the countdown, and they keep it at what is left of the sleep.
LEMMA ClockStep == BootInv /\ ClockInv /\ IntNext => ClockInv'
<1> SUFFICES ASSUME BootInv, ClockInv, IntNext PROVE ClockInv'
  OBVIOUS
<1>1. CASE timer' = timer /\ sleep' = sleep
  BY <1>1 DEF ClockInv, SleepInTime
<1>2. CASE pit_event
  <2>1. CASE sleep.on /\ sleep.slept < sleep.want
    <3>1. timer = sleep.want - sleep.slept /\ timer > 0
      BY <2>1 DEF ClockInv, SleepInTime
    <3>2. timer' = timer - 1 /\ sleep' = [sleep EXCEPT !.slept = sleep.slept + 1]
      BY <1>2, <2>1, <3>1 DEF pit_event
    <3>3. sleep'.on = sleep.on /\ sleep'.want = sleep.want /\ sleep'.slept = sleep.slept + 1
      BY <3>2 DEF ClockInv
    <3>4. sleep.slept + 1 \in Nat
      BY DEF ClockInv
    <3>5. sleep' \in [on : BOOLEAN, want : Nat, slept : Nat]
      BY <3>2, <3>4, Zenon DEF ClockInv
    <3> QED BY <2>1, <3>1, <3>2, <3>3, <3>5 DEF ClockInv, SleepInTime
  <2>2. CASE ~(sleep.on /\ sleep.slept < sleep.want)
    <3>1. sleep' = sleep
      BY <1>2, <2>2 DEF pit_event, ClockInv
    <3>2. timer' \in Nat
      BY <1>2 DEF pit_event, ClockInv
    <3>3. sleep.on => timer' = timer
      BY <1>2, <2>2 DEF pit_event, ClockInv, SleepInTime
    <3> QED BY <3>1, <3>2, <3>3 DEF ClockInv, SleepInTime
  <2> QED BY <2>1, <2>2
<1>3. CASE pit_init
  <2>1. ~sleep.on /\ sleep' = sleep /\ timer' = 0
    BY <1>3 DEF pit_init, Running, BootInv
  <2> QED BY <2>1 DEF ClockInv, SleepInTime
<1>4. ASSUME NEW t \in Ticks, pit_sleep(t) PROVE ClockInv'
  <2>1. t \in Nat
    BY TicksAssumption
  <2>2. timer' = t /\ sleep' = [on |-> TRUE, want |-> t, slept |-> 0]
    BY <1>4 DEF pit_sleep
  <2>3. sleep' \in [on : BOOLEAN, want : Nat, slept : Nat]
    BY <2>1, <2>2
  <2>4. sleep'.on /\ sleep'.want = t /\ sleep'.slept = 0
    BY <2>2
  <2> QED BY <2>1, <2>2, <2>3, <2>4 DEF ClockInv, SleepInTime
<1>5. CASE pit_sleep_end
  <2>1. sleep.on /\ timer = 0 /\ timer' = timer /\ sleep' = [sleep EXCEPT !.on = FALSE]
    BY <1>5 DEF pit_sleep_end
  <2>2. sleep.slept = sleep.want
    BY <2>1 DEF ClockInv, SleepInTime
  <2>3. sleep' \in [on : BOOLEAN, want : Nat, slept : Nat]
    BY <2>1, Zenon DEF ClockInv
  <2>4. sleep'.on = FALSE /\ sleep'.slept = sleep.slept /\ sleep'.want = sleep.want
    BY <2>1 DEF ClockInv
  <2> QED BY <2>1, <2>2, <2>3, <2>4 DEF ClockInv, SleepInTime
<1>6. IntNext => \/ timer' = timer /\ sleep' = sleep
                 \/ pit_event \/ pit_init \/ pit_sleep_end \/ \E t \in Ticks : pit_sleep(t)
  BY DEF IntNext, kmain, pic_init, idt_load, irq_register, kbd_unmask, irq_request, irq_deliver,
         irq_spurious, IrqHandler, irq_common_handler, exception, syscall_enter, syscall_return,
         intVars
<1> QED BY <1>1, <1>2, <1>3, <1>4, <1>5, <1>6

----------------------------------------------------------------------------
(* Frames *)

\* the words of a frame
Words == {"ss", "esp", "eflags", "cs", "eip", "err_code", "int_num", "edi", "esi", "ebp",
          "ebx", "edx", "ecx", "eax", "ds", "es", "fs", "gs"}

\* Two sequences joined are a third one that has their elements.
LEMMA JoinIs ==
    ASSUME NEW s \in Seq(Words), NEW t \in Seq(Words), NEW u \in Seq(Words),
           Len(u) = Len(s) + Len(t), \A i \in 1 .. Len(u) : (s \o t)[i] = u[i]
    PROVE  s \o t = u
<1>1. s \o t \in Seq(Words) /\ Len(s \o t) = Len(u)
  BY ConcatProperties
<1> QED BY <1>1, SeqEqual

\* A part of a sequence is the one that has its elements.
LEMMA PartIs ==
    ASSUME NEW s \in Seq(Words), NEW a \in Int, NEW b \in Int, NEW u \in Seq(Words),
           1 <= a, a <= b, b <= Len(s), Len(u) = b - a + 1,
           \A i \in 1 .. Len(u) : s[a + i - 1] = u[i]
    PROVE  SubSeq(s, a, b) = u
<1>1. \A i \in a .. b : s[i] \in Words
  OBVIOUS
<1>2. /\ SubSeq(s, a, b) \in Seq(Words)
      /\ Len(SubSeq(s, a, b)) = IF a <= b THEN b - a + 1 ELSE 0
      /\ \A i \in 1 .. b - a + 1 : SubSeq(s, a, b)[i] = s[a + i - 1]
  BY <1>1, SubSeqProperties
<1>3. Len(SubSeq(s, a, b)) = Len(u) /\ \A i \in 1 .. Len(u) : SubSeq(s, a, b)[i] = u[i]
  BY <1>2
<1> QED BY <1>2, <1>3, SeqEqual

\* A sequence backwards is the one that has its elements in the other order.
LEMMA BackIs ==
    ASSUME NEW s \in Seq(Words), NEW u \in Seq(Words), Len(u) = Len(s),
           \A i \in 1 .. Len(s) : s[(Len(s) - i) + 1] = u[i]
    PROVE  Reverse(s) = u
<1>1. \A i \in 1 .. Len(s) : s[(Len(s) - i) + 1] \in Words
  OBVIOUS
<1>2. Reverse(s) \in Seq(Words) /\ Len(Reverse(s)) = Len(s)
  BY <1>1 DEF Reverse
<1>3. \A i \in 1 .. Len(s) : Reverse(s)[i] = u[i]
  BY DEF Reverse
<1> QED BY <1>2, <1>3, SeqEqual

\* what every stub has pushed when it calls its C handler
FullFrame == <<"ss", "esp", "eflags", "cs", "eip", "err_code", "int_num", "edi", "esi", "ebp",
               "ebx", "edx", "ecx", "eax", "ds", "es", "fs", "gs">>

\* The stubs of the exceptions with an error code leave the push of one to the
\* processor, all others push a word in its place.
LEMMA PushedFull == ASSUME NEW v \in DOMAIN idt_init PROVE Pushed(v) = FullFrame
<1> DEFINE P5 == <<"ss", "esp", "eflags", "cs", "eip">>
           P6 == <<"ss", "esp", "eflags", "cs", "eip", "err_code">>
           G1 == <<"int_num">>
           G2 == <<"err_code", "int_num">>
           W11 == <<"edi", "esi", "ebp", "ebx", "edx", "ecx", "eax", "ds", "es", "fs", "gs">>
           W12 == <<"int_num", "edi", "esi", "ebp", "ebx", "edx", "ecx", "eax", "ds", "es", "fs", "gs">>
           W13 == <<"err_code", "int_num", "edi", "esi", "ebp", "ebx", "edx", "ecx", "eax",
                    "ds", "es", "fs", "gs">>
<1>1. /\ P5 \in Seq(Words) /\ P6 \in Seq(Words) /\ G1 \in Seq(Words) /\ G2 \in Seq(Words)
      /\ W11 \in Seq(Words) /\ W12 \in Seq(Words) /\ W13 \in Seq(Words)
  BY DEF Words
<1>2. FullFrame \in Seq(Words)
  BY DEF Words, FullFrame
<1>3. P5 \o <<"err_code">> = P6
  <2>1. <<"err_code">> \in Seq(Words)
    BY DEF Words
  <2>2. Len(P6) = Len(P5) + Len(<<"err_code">>)
    OBVIOUS
  <2>3. \A i \in 1 .. Len(P6) : (P5 \o <<"err_code">>)[i] = P6[i]
    OBVIOUS
  <2> HIDE DEF P5, P6
  <2> QED BY <1>1, <2>1, <2>2, <2>3, JoinIs
<1>4. P5 \o <<>> = P5
  <2> HIDE DEF P5
  <2> QED BY <1>1, ConcatEmptySeq
<1>5. G1 \o W11 = W12
  <2>1. Len(W12) = Len(G1) + Len(W11)
    OBVIOUS
  <2>2. \A i \in 1 .. Len(W12) : (G1 \o W11)[i] = W12[i]
    OBVIOUS
  <2> HIDE DEF G1, W11, W12
  <2> QED BY <1>1, <2>1, <2>2, JoinIs, ZenonT(40)
<1>6. G2 \o W11 = W13
  <2>1. Len(W13) = Len(G2) + Len(W11)
    OBVIOUS
  <2>2. \A i \in 1 .. Len(W13) : (G2 \o W11)[i] = W13[i]
    OBVIOUS
  <2> HIDE DEF G2, W11, W13
  <2> QED BY <1>1, <2>1, <2>2, JoinIs
<1>7. P6 \o W12 = FullFrame
  <2>1. Len(FullFrame) = Len(P6) + Len(W12)
    BY DEF FullFrame
  <2>2. \A i \in 1 .. Len(FullFrame) : (P6 \o W12)[i] = FullFrame[i]
    BY DEF FullFrame
  <2> HIDE DEF P6, W12
  <2> QED BY <1>1, <1>2, <2>1, <2>2, JoinIs, SMTT(30)
<1>8. P5 \o W13 = FullFrame
  <2>1. Len(FullFrame) = Len(P5) + Len(W13)
    BY DEF FullFrame
  <2>2. \A i \in 1 .. Len(FullFrame) : (P5 \o W13)[i] = FullFrame[i]
    BY DEF FullFrame
  <2> HIDE DEF P5, W13
  <2> QED BY <1>1, <1>2, <2>1, <2>2, JoinIs, ZenonT(40)
<1>9. /\ v \in (0 .. 47) \cup {Syscall} /\ Syscall = 128
      /\ idt_init[v].stub = IF v \in 32 .. 47 THEN "irq" ELSE "isr"
  BY DEF idt_init, Syscall
<1>10. irq_common_handler_wrapper = W11 /\ isr_common_handler_wrapper = W11
  BY DEF irq_common_handler_wrapper, isr_common_handler_wrapper
<1>11. CASE v \in {8, 10, 11, 12, 13, 14, 17, 30}
  <2>1. CpuPush(v) = P6
    BY <1>3, <1>11 DEF CpuPush
  <2>2. isr_gen_handlers(v) = G1 /\ idt_init[v].stub = "isr"
    BY <1>9, <1>11 DEF isr_gen_handlers
  <2> HIDE DEF P5, P6, G1, G2, W11, W12, W13
  <2> QED BY <1>5, <1>7, <1>10, <2>1, <2>2 DEF Pushed
<1>12. CASE v \notin {8, 10, 11, 12, 13, 14, 17, 30}
  <2>1. CpuPush(v) = P5
    BY <1>4, <1>12 DEF CpuPush
  <2>2. isr_gen_handlers(v) = G2 /\ irq_gen_handlers(v) = G2
    BY <1>9, <1>12 DEF isr_gen_handlers, irq_gen_handlers
  <2> HIDE DEF P5, P6, G1, G2, W11, W12, W13
  <2> QED BY <1>6, <1>8, <1>10, <2>1, <2>2 DEF Pushed
<1> QED BY <1>11, <1>12

\* Every stub hands its C handler a frame in the layout of registers_t and takes
\* off what it put on.
LEMMA FramesMatch == FrameMatches
<1> SUFFICES ASSUME NEW v \in DOMAIN idt_init
             PROVE  /\ Reverse(Pushed(v)) = registers_t
                    /\ SubSeq(registers_t, 1, Len(Pops(v))) = Pops(v)
                    /\ SubSeq(registers_t, Len(Pops(v)) + 3, Len(registers_t)) = Reverse(CpuPush(0))
  BY DEF FrameMatches
<1> DEFINE pops == <<"gs", "fs", "es", "ds", "eax", "ecx", "edx", "ebx", "ebp", "esi", "edi">>
           iret == <<"eip", "cs", "eflags", "esp", "ss">>
<1>1. registers_t \in Seq(Words) /\ pops \in Seq(Words) /\ iret \in Seq(Words)
  BY DEF Words, registers_t
<1>2. Reverse(Pushed(v)) = registers_t
  <2>1. FullFrame \in Seq(Words) /\ Len(FullFrame) = 18 /\ Len(registers_t) = 18
    BY DEF Words, FullFrame, registers_t
  <2>2. \A i \in 1 .. 18 : FullFrame[(18 - i) + 1] = registers_t[i]
    BY DEF FullFrame, registers_t
  <2>3. Reverse(FullFrame) = registers_t
    BY <1>1, <2>1, <2>2, BackIs
  <2> QED BY <2>3, PushedFull
<1>3. Pops(v) = pops /\ Len(pops) = 11 /\ Len(iret) = 5 /\ Len(registers_t) = 18
  BY DEF Pops, irq_common_handler_pop_and_iret, isr_common_handler_pops, registers_t
<1>4. SubSeq(registers_t, 1, 11) = pops
  <2>1. \A i \in 1 .. 11 : registers_t[1 + i - 1] = pops[i]
    BY DEF registers_t
  <2> HIDE DEF pops
  <2> QED BY <1>1, <1>3, <2>1, PartIs
<1>5. SubSeq(registers_t, 14, 18) = iret
  <2>1. \A i \in 1 .. 5 : registers_t[14 + i - 1] = iret[i]
    BY DEF registers_t
  <2> HIDE DEF iret
  <2> QED BY <1>1, <1>3, <2>1, PartIs
<1>6. Reverse(CpuPush(0)) = iret
  <2> DEFINE P5 == <<"ss", "esp", "eflags", "cs", "eip">>
  <2>1. P5 \in Seq(Words) /\ Len(P5) = 5 /\ Len(iret) = 5 /\ iret \in Seq(Words)
    BY DEF Words
  <2>2. CpuPush(0) = P5 \o <<>>
    BY DEF CpuPush
  <2>3. \A i \in 1 .. 5 : P5[(5 - i) + 1] = iret[i]
    OBVIOUS
  <2> HIDE DEF P5, iret
  <2>4. CpuPush(0) = P5
    BY <2>1, <2>2, ConcatEmptySeq
  <2>5. Reverse(P5) = iret
    BY <2>1, <2>3, BackIs
  <2> QED BY <2>4, <2>5
<1> HIDE DEF pops, iret
<1> QED BY <1>2, <1>3, <1>4, <1>5, <1>6

\* For any set of sleeping times: frames fit their handlers, handlers do not nest,
\* no line stays in service in spite of the inverted spurious tests, only timer
\* ticks are dropped, and sleeps last as many ticks as they were asked for.
THEOREM InterruptsStaySound == IntSpec => []InterruptsSound
<1>1. IntInit => IntInv
  <2> SUFFICES ASSUME IntInit PROVE IntInv
    OBVIOUS
  <2>1. StackInv
    BY DEF IntInit, StackInv, Bases
  <2>2. sleep \in [on : BOOLEAN, want : Nat, slept : Nat] /\ ~sleep.on /\ sleep.slept = sleep.want
    BY DEF IntInit
  <2>3. BootInv
    <3>1. ifl \in BOOLEAN
      BY Zenon DEF IntInit
    <3> QED BY <2>2, <3>1 DEF IntInit, BootInv, Lines
  <2>4. ClockInv
    BY <2>2 DEF IntInit, ClockInv, SleepInTime
  <2> QED BY <2>1, <2>3, <2>4 DEF IntInit, IntInv, DroppedTicksOnly
<1>2. IntInv /\ [IntNext]_intVars => IntInv'
  <2> SUFFICES ASSUME IntInv, [IntNext]_intVars PROVE IntInv'
    OBVIOUS
  <2>1. CASE IntNext
    BY <2>1, StackStep, BootStep, DropStep, ClockStep DEF IntInv
  <2>2. CASE UNCHANGED intVars
    <3>1. StackInv'
      BY <2>2, Zenon DEF IntInv, StackInv, intVars
    <3>2. BootInv' /\ DroppedTicksOnly' /\ ClockInv'
      BY <2>2 DEF IntInv, BootInv, DroppedTicksOnly, ClockInv, SleepInTime, intVars
    <3> QED BY <3>1, <3>2 DEF IntInv
  <2> QED BY <2>1, <2>2
<1>3. IntInv => InterruptsSound
  <2> SUFFICES ASSUME IntInv PROVE OneFrame /\ NothingStuck
    BY FramesMatch DEF IntInv, ClockInv, InterruptsSound
  <2>1. CASE frames \in Bases /\ inService = {}
    <3>1. CASE frames = <<>>
      BY <2>1, <3>1 DEF OneFrame, NothingStuck
    <3>2. ASSUME NEW b \in BOOLEAN, frames = <<[vector |-> Syscall, ifl |-> b]>>
          PROVE  OneFrame /\ NothingStuck
      BY <2>1, <3>2 DEF OneFrame, NothingStuck
    <3> QED BY <2>1, <3>1, <3>2 DEF Bases
  <2>2. ASSUME NEW s \in Bases, NEW l \in Arrivals, NEW b \in BOOLEAN,
               frames = Append(s, [vector |-> 32 + l, ifl |-> b]), ~ifl
        PROVE  OneFrame /\ NothingStuck
    <3> DEFINE f == [vector |-> 32 + l, ifl |-> b]
    <3>1. f.vector # Syscall
      BY DEF Arrivals, Syscall
    <3>2. frames = Append(s, f)
      BY <2>2
    <3> HIDE DEF f
    <3>3. /\ Len(frames) = Len(s) + 1 /\ Len(s) \in 0 .. 1 /\ frames[Len(frames)] = f
          /\ \A i \in 1 .. Len(s) : frames[i] = s[i] /\ s[i].vector = Syscall
      BY <3>2, FramePops DEF Pushes
    <3>4. DOMAIN frames = 1 .. Len(frames)
      <4>1. PICK S : s \in Seq(S) /\ f \in S
        BY BaseSeq
      <4> QED BY <3>2, <4>1, AppendProperties
    <3>5. OneFrame
      BY <2>2, <3>3, <3>4 DEF OneFrame
    <3>6. NothingStuck
      BY <3>1, <3>3, <3>4 DEF NothingStuck
    <3> QED BY <3>5, <3>6
  <2> QED BY <2>1, <2>2 DEF IntInv, StackInv
<1> QED BY <1>1, <1>2, <1>3, PTL DEF IntSpec

----------------------------------------------------------------------------
(* Line input *)

\* A set of numbers that is not empty has a least element.
LEMMA NatMin ==
    ASSUME NEW S \in SUBSET Nat, S # {}
    PROVE  \E n \in S : \A k \in S : n <= k
<1> DEFINE R == OpToRel(<, Nat)
<1>1. IsWellFoundedOn(R, Nat)
  BY NatLessThanWellFounded, Zenon
<1>2. \A x, y \in Nat : x < y => <<x, y>> \in R
  BY DEF OpToRel
<1> HIDE DEF R
<1>3. \E x \in S : \A y \in S : ~ (<<y, x>> \in R)
  BY <1>1, WFMin
<1>4. \A x, y \in Nat : ~(x < y) => y <= x
  OBVIOUS
<1> QED BY <1>2, <1>3, <1>4

\* Induction up to a number, as a fact about sets.
LEMMA UpTo ==
    ASSUME NEW N \in Nat, NEW S, 0 \in S, \A k \in 1 .. N : k - 1 \in S => k \in S
    PROVE  \A k \in 0 .. N : k \in S
<1> SUFFICES ASSUME NEW k0 \in 0 .. N, k0 \notin S PROVE FALSE
  OBVIOUS
<1> DEFINE T == {k \in 0 .. N : k \notin S}
<1>1. T \in SUBSET Nat /\ T # {}
  OBVIOUS
<1>2. PICK k \in T : \A j \in T : k <= j
  BY <1>1, NatMin
<1>3. k \in 1 .. N
  BY <1>2
<1>4. k - 1 \in 0 .. N /\ ~(k <= k - 1)
  BY <1>3
<1>5. k - 1 \in S
  BY <1>2, <1>4
<1> QED BY <1>2, <1>3, <1>5

\* What one key does to a line.
EditStep(s, ch) == IF ch # "BS" THEN Append(s, ch) ELSE IF s = <<>> THEN <<>> ELSE Front(s)

\* f holds the lines that the first keys make, up to N of them.
Edits(keys, N, f) == f = [n \in 0 .. N |-> IF n = 0 THEN <<>> ELSE EditStep(f[n - 1], keys[n])]

\* There are such lines.
LEMMA EditsExist == ASSUME NEW keys, NEW N \in Nat PROVE \E f : Edits(keys, N, f)
<1> DEFINE S == {n \in Nat : \E f : Edits(keys, n, f)}
<1>1. 0 \in S
  <2>1. Edits(keys, 0, [n \in 0 .. 0 |-> <<>>])
    BY DEF Edits
  <2> QED BY <2>1
<1>2. \A n \in 1 .. N : n - 1 \in S => n \in S
  <2> SUFFICES ASSUME NEW n \in 1 .. N, n - 1 \in S PROVE n \in S
    OBVIOUS
  <2>1. PICK f : Edits(keys, n - 1, f)
    OBVIOUS
  <2> DEFINE g == [k \in 0 .. n |-> IF k = n THEN EditStep(f[n - 1], keys[n]) ELSE f[k]]
  <2>2. n \in Nat /\ n > 0
    OBVIOUS
  <2>3. \A k \in 0 .. (n - 1) : g[k] = f[k] /\ f[k] = IF k = 0 THEN <<>> ELSE EditStep(f[k - 1], keys[k])
    BY <2>1, <2>2 DEF Edits
  <2>4. \A k \in 0 .. n : g[k] = IF k = 0 THEN <<>> ELSE EditStep(g[k - 1], keys[k])
    <3> SUFFICES ASSUME NEW k \in 0 .. n PROVE g[k] = IF k = 0 THEN <<>> ELSE EditStep(g[k - 1], keys[k])
      OBVIOUS
    <3>1. CASE k = n
      BY <2>2, <2>3, <3>1
    <3>2. CASE k # n /\ k # 0
      <4>1. k \in 0 .. (n - 1) /\ k - 1 \in 0 .. (n - 1)
        BY <2>2, <3>2
      <4> HIDE DEF g
      <4> QED BY <2>3, <3>2, <4>1
    <3>3. CASE k # n /\ k = 0
      <4>1. k \in 0 .. (n - 1)
        BY <2>2, <3>3
      <4> HIDE DEF g
      <4> QED BY <2>3, <3>3, <4>1
    <3> QED BY <3>1, <3>2, <3>3
  <2>5. g = [k \in 0 .. n |-> g[k]]
    OBVIOUS
  <2>6. Edits(keys, n, g)
    <3> HIDE DEF g
    <3> QED BY <2>4, <2>5 DEF Edits
  <2> QED BY <2>2, <2>6
<1> HIDE DEF S
<1>3. N \in S
  BY <1>1, <1>2, UpTo
<1> QED BY <1>3 DEF S

\* The lines that a longer text begins with are those of the shorter one.
LEMMA EditsAgree ==
    ASSUME NEW keys, NEW more, NEW N \in Nat, NEW M \in Nat, N <= M, NEW f, NEW g,
           Edits(keys, N, f), Edits(more, M, g), \A i \in 1 .. N : more[i] = keys[i]
    PROVE  f[N] = g[N]
<1> DEFINE S == {n \in Nat : f[n] = g[n]}
<1>1. 0 \in S
  BY DEF Edits
<1>2. \A n \in 1 .. N : n - 1 \in S => n \in S
  <2> SUFFICES ASSUME NEW n \in 1 .. N, n - 1 \in S PROVE n \in S
    OBVIOUS
  <2>1. f[n] = EditStep(f[n - 1], keys[n])
    BY DEF Edits
  <2>2. n \in 0 .. M /\ n # 0
    OBVIOUS
  <2>3. g[n] = EditStep(g[n - 1], more[n])
    BY <2>2 DEF Edits
  <2> QED BY <2>1, <2>3
<1> HIDE DEF S
<1>3. N \in S
  BY <1>1, <1>2, UpTo
<1> QED BY <1>3 DEF S

\* The last of them is the edited text.
LEMMA EditedLast ==
    ASSUME NEW keys, Len(keys) \in Nat
    PROVE  \E f : Edits(keys, Len(keys), f) /\ Edited(keys) = f[Len(keys)]
<1> DEFINE P(h) == h = [n \in 0 .. Len(keys) |->
                          IF n = 0 THEN <<>>
                          ELSE IF keys[n] # "BS" THEN Append(h[n - 1], keys[n])
                          ELSE IF h[n - 1] = <<>> THEN <<>> ELSE Front(h[n - 1])]
           f == CHOOSE h : P(h)
<1>1. \E h : P(h)
  <2>1. \E h : Edits(keys, Len(keys), h)
    BY EditsExist
  <2> QED BY <2>1 DEF Edits, EditStep
<1>2. P(f)
  <2> HIDE DEF P
  <2> QED BY <1>1
<1>3. Edited(keys) = f[Len(keys)]
  BY DEF Edited
<1> HIDE DEF f
<1>4. Edits(keys, Len(keys), f)
  BY <1>2 DEF Edits, EditStep
<1> QED BY <1>3, <1>4

\* No keys make an empty line.
LEMMA EditedEmpty == Edited(<<>>) = <<>>
<1>1. Len(<<>>) = 0
  OBVIOUS
<1>2. PICK f : Edits(<<>>, Len(<<>>), f) /\ Edited(<<>>) = f[Len(<<>>)]
  BY <1>1, EditedLast
<1> QED BY <1>1, <1>2 DEF Edits

\* One more key edits the line once more.
LEMMA EditedAppend ==
    ASSUME NEW S, NEW keys \in Seq(S), NEW x \in S
    PROVE  Edited(Append(keys, x)) = EditStep(Edited(keys), x)
<1> DEFINE more == Append(keys, x)
           N == Len(keys)
<1>1. N \in Nat /\ Len(more) = N + 1 /\ more[N + 1] = x /\ \A i \in 1 .. N : more[i] = keys[i]
  BY AppendProperties, LenProperties
<1> HIDE DEF more, N
<1>2. PICK f : Edits(keys, N, f) /\ Edited(keys) = f[N]
  BY <1>1, EditedLast DEF N
<1>3. PICK g : Edits(more, Len(more), g) /\ Edited(more) = g[Len(more)]
  BY <1>1, EditedLast
<1>4. N + 1 \in Nat /\ N <= N + 1 /\ Edits(more, N + 1, g) /\ Edited(more) = g[N + 1]
  BY <1>1, <1>3
<1>5. f[N] = g[N]
  BY <1>1, <1>2, <1>4, EditsAgree
<1>6. g[N + 1] = EditStep(g[N], more[N + 1])
  <2>1. N + 1 \in 0 .. (N + 1) /\ N + 1 # 0 /\ (N + 1) - 1 = N
    BY <1>1
  <2>2. g[N + 1] = EditStep(g[(N + 1) - 1], more[N + 1])
    BY <1>4, <2>1 DEF Edits
  <2> QED BY <2>1, <2>2
<1> QED BY <1>1, <1>2, <1>4, <1>5, <1>6 DEF more

\* The characters of the layouts, and those that stay in a line.
KeyChars == {Layouts[n].plain[k] : n \in DOMAIN Layouts, k \in Keys}
              \cup {Layouts[n].cap[k] : n \in DOMAIN Layouts, k \in Keys}
KeptChars == KeyChars \ {"NL", "BS"}

\* What a key is read as when only its own slot is set.
OwnChar(k) == KeyChar(k, Slot(k) = Slot(Shift))

\* kbd_last_key names a key whenever a slot is set or scank is reading one.
KeysKnown ==
    /\ layout \in DOMAIN Layouts /\ rd \in {"poll", "get", "clear"}
    /\ raced \in BOOLEAN /\ unread \in BOOLEAN
    /\ typed \in Seq(KeyChars) /\ str \in Seq(KeptChars)
    /\ lastKey \notin Keys => down = {} /\ rd = "poll"
    /\ rd = "clear" => c \in KeyChars

\* The line holds all that was typed but for a last character x.
AllBut(x) == \E keys \in Seq(KeyChars) : typed = Append(keys, x) /\ str = Edited(keys)

\* Until an event comes too early: no key is down and all is read; or a key was lost
\* when its slot was cleared with that of a newline, and the next event is too early;
\* or a key waits to be read; or it has been read and not yet been put in the line.
KeyReads ==
    \/ rd = "poll" /\ ~unread /\ down = {} /\ str = Edited(typed)
    \/ rd = "poll" /\ unread /\ down = {}
    \/ rd # "clear" /\ unread /\ down = {Slot(lastKey)} /\ AllBut(OwnChar(lastKey))
    \/ rd = "clear" /\ ~unread /\ down \subseteq {Slot(lastKey)} /\ AllBut(c)

KbdInv == KeysKnown /\ (~raced => KeyReads)

\* A key has a character of a layout.
LEMMA CharKnown ==
    ASSUME layout \in DOMAIN Layouts, NEW k \in Keys, NEW b PROVE KeyChar(k, b) \in KeyChars
<1>1. Layouts[layout].plain[k] \in {Layouts[n].plain[j] : n \in DOMAIN Layouts, j \in Keys}
  OBVIOUS
<1>2. Layouts[layout].cap[k] \in {Layouts[n].cap[j] : n \in DOMAIN Layouts, j \in Keys}
  OBVIOUS
<1>3. Layouts[layout].plain[k] \in KeyChars /\ Layouts[layout].cap[k] \in KeyChars
  BY <1>1, <1>2 DEF KeyChars
<1> QED BY <1>3 DEF KeyChar

\* The keyboard interrupt.
LEMMA EventStep ==
    ASSUME KbdInv, NEW k \in Keys, NEW pressed \in BOOLEAN, kbd_event(k, pressed) PROVE KbdInv'
<1>1. /\ down' = IF pressed THEN down \cup {Slot(k)} ELSE down \ {Slot(k)}
      /\ lastKey' = IF pressed THEN k ELSE lastKey
      /\ typed' = IF pressed THEN Append(typed, OwnChar(k)) ELSE typed
      /\ layout' = layout /\ rd' = rd /\ c' = c /\ str' = str
  BY DEF kbd_event, OwnChar
<1>2. unread' = (unread \/ pressed) /\ raced' = (raced \/ unread \/ (pressed /\ rd # "poll"))
  BY DEF kbd_event
<1>3. unread' \in BOOLEAN /\ raced' \in BOOLEAN
  BY <1>2
<1>4. OwnChar(k) \in KeyChars
  BY CharKnown DEF KbdInv, KeysKnown, OwnChar
<1>5. KeysKnown'
  <2>1. typed' \in Seq(KeyChars)
    BY <1>1, <1>4 DEF KbdInv, KeysKnown
  <2>2. lastKey' \notin Keys => down' = {} /\ rd' = "poll"
    BY <1>1 DEF KbdInv, KeysKnown
  <2>3. KeyChars' = KeyChars /\ KeptChars' = KeptChars
    OBVIOUS
  <2> QED BY <1>1, <1>3, <2>1, <2>2 DEF KbdInv, KeysKnown
<1>6. ASSUME ~raced' PROVE KeyReads'
  <2>1. ~raced /\ ~unread /\ (pressed => rd = "poll")
    BY <1>2, <1>6 DEF KbdInv, KeysKnown
  <2>2. CASE rd = "poll"
    <3>1. down = {} /\ str = Edited(typed)
      BY <2>1, <2>2 DEF KbdInv, KeyReads
    <3>2. CASE pressed
      <4>1. unread' /\ down' = {Slot(k)} /\ lastKey' = k
        BY <1>1, <1>2, <3>1, <3>2
      <4>2. typed' = Append(typed, OwnChar(k)) /\ str' = Edited(typed)
        BY <1>1, <3>1, <3>2
      <4>3. OwnChar(k)' = OwnChar(k)
        BY <1>1 DEF OwnChar, KeyChar
      <4>4. AllBut(OwnChar(lastKey))'
        <5>1. \E keys \in Seq(KeyChars) : typed' = Append(keys, OwnChar(k)) /\ str' = Edited(keys)
          BY <4>2 DEF KbdInv, KeysKnown
        <5>2. OwnChar(lastKey)' = OwnChar(k)
          BY <1>1, <4>1 DEF OwnChar, KeyChar
        <5> QED BY <5>1, <5>2 DEF AllBut
      <4> QED BY <1>1, <2>2, <4>1, <4>4 DEF KeyReads
    <3>3. CASE ~pressed
      <4>1. ~unread'
        BY <1>2, <2>1, <3>3 DEF KbdInv, KeysKnown
      <4> QED BY <1>1, <2>2, <3>1, <3>3, <4>1 DEF KeyReads
    <3> QED BY <3>2, <3>3
  <2>3. CASE rd # "poll"
    <3>1. ~pressed /\ rd = "clear" /\ down \subseteq {Slot(lastKey)} /\ AllBut(c)
      BY <2>1, <2>3 DEF KbdInv, KeyReads
    <3>2. ~unread'
      BY <1>2, <2>1, <3>1 DEF KbdInv, KeysKnown
    <3>3. AllBut(c)'
      BY <1>1, <3>1 DEF AllBut
    <3>4. down' \subseteq {Slot(lastKey')}
      BY <1>1, <3>1
    <3> QED BY <1>1, <3>1, <3>2, <3>3, <3>4 DEF KeyReads
  <2> QED BY <2>2, <2>3
<1> QED BY <1>5, <1>6 DEF KbdInv

\* The loop of scank leaves what was typed alone.
LEMMA PollStep == ASSUME KbdInv, scank_poll PROVE KbdInv'
<1>1. /\ rd = "poll" /\ down # {} /\ rd' = "get"
      /\ down' = down /\ lastKey' = lastKey /\ layout' = layout /\ c' = c /\ str' = str
      /\ typed' = typed /\ unread' = unread /\ raced' = raced
  BY DEF scank_poll, kbd_keydown
<1>2. KeysKnown'
  BY <1>1 DEF KbdInv, KeysKnown
<1>3. ASSUME ~raced' PROVE KeyReads'
  <2>1. unread /\ down = {Slot(lastKey)} /\ AllBut(OwnChar(lastKey))
    BY <1>1, <1>3 DEF KbdInv, KeyReads
  <2>2. AllBut(OwnChar(lastKey))'
    BY <1>1, <2>1 DEF AllBut, OwnChar, KeyChar
  <2> QED BY <1>1, <2>1, <2>2 DEF KeyReads
<1> QED BY <1>2, <1>3 DEF KbdInv

\* kbd_get reads the key that waits.
LEMMA GetStep == ASSUME KbdInv, kbd_get PROVE KbdInv'
<1>1. /\ rd = "get" /\ rd' = "clear" /\ unread' = FALSE
      /\ c' = KeyChar(lastKey, Slot(Shift) \in down)
      /\ down' = down /\ lastKey' = lastKey /\ layout' = layout /\ str' = str
      /\ typed' = typed /\ raced' = raced
  BY DEF kbd_get
<1>2. lastKey \in Keys
  BY <1>1 DEF KbdInv, KeysKnown
<1>3. c' \in KeyChars
  BY <1>1, <1>2, CharKnown DEF KbdInv, KeysKnown
<1>4. KeysKnown'
  BY <1>1, <1>2, <1>3 DEF KbdInv, KeysKnown
<1>5. ASSUME ~raced' PROVE KeyReads'
  <2>1. down = {Slot(lastKey)} /\ AllBut(OwnChar(lastKey))
    BY <1>1, <1>5 DEF KbdInv, KeyReads
  <2>2. c' = OwnChar(lastKey)
    BY <1>1, <2>1 DEF OwnChar, KeyChar
  <2>3. AllBut(c)'
    BY <1>1, <2>1, <2>2 DEF AllBut
  <2> QED BY <1>1, <2>1, <2>3 DEF KeyReads
<1> QED BY <1>4, <1>5 DEF KbdInv

\* Front is a sequence of the same kind.
LEMMA FrontKind == ASSUME NEW S, NEW s \in Seq(S), s # <<>> PROVE Front(s) \in Seq(S)
<1>1. PICK t \in Seq(S), x \in S : s = Append(t, x)
  BY SequenceEmptyOrAppend
<1>2. Front(s) = t
  BY <1>1, FrontLast
<1> QED BY <1>2

\* The character is put in the line, or takes the last one out of it.
LEMMA PutStep == ASSUME KbdInv, scank_put PROVE KbdInv'
<1>1. /\ rd = "clear" /\ rd' = "poll" /\ c # "NL" /\ c' = NUL /\ down' = down \ {Slot(lastKey)}
      /\ str' = (CASE c = "BS" -> IF str = <<>> THEN str ELSE Front(str) [] OTHER -> Append(str, c))
      /\ lastKey' = lastKey /\ layout' = layout /\ typed' = typed /\ unread' = unread /\ raced' = raced
  BY DEF scank_put, kbd_get_clear
<1>2. str' = EditStep(str, c)
  BY <1>1 DEF EditStep
<1>3. str' \in Seq(KeptChars)
  <2>1. str \in Seq(KeptChars) /\ c \in KeyChars
    BY <1>1 DEF KbdInv, KeysKnown
  <2>2. CASE c = "BS"
    <3>1. CASE str = <<>>
      BY <1>1, <2>1, <2>2, <3>1
    <3>2. CASE str # <<>>
      <4>1. Front(str) \in Seq(KeptChars)
        BY <2>1, <3>2, FrontKind
      <4> QED BY <1>1, <2>2, <3>2, <4>1
    <3> QED BY <3>1, <3>2
  <2>3. CASE c # "BS"
    <3>1. c \in KeptChars
      BY <1>1, <2>1, <2>3 DEF KeptChars
    <3>2. str' = Append(str, c)
      BY <1>1, <2>3
    <3> HIDE DEF KeptChars
    <3> QED BY <2>1, <3>1, <3>2
  <2> QED BY <2>2, <2>3
<1>4. KeysKnown'
  <2>1. lastKey \in Keys
    BY <1>1 DEF KbdInv, KeysKnown
  <2> QED BY <1>1, <1>3, <2>1 DEF KbdInv, KeysKnown
<1>5. ASSUME ~raced' PROVE KeyReads'
  <2>1. ~unread /\ down \subseteq {Slot(lastKey)} /\ AllBut(c)
    BY <1>1, <1>5 DEF KbdInv, KeyReads
  <2>2. PICK keys \in Seq(KeyChars) : typed = Append(keys, c) /\ str = Edited(keys)
    BY <2>1 DEF AllBut
  <2>3. c \in KeyChars
    BY <1>1 DEF KbdInv, KeysKnown
  <2>4. Edited(typed) = EditStep(Edited(keys), c)
    BY <2>2, <2>3, EditedAppend
  <2>5. str' = Edited(typed')
    BY <1>1, <1>2, <2>2, <2>4
  <2> QED BY <1>1, <2>1, <2>5 DEF KeyReads
<1> QED BY <1>4, <1>5 DEF KbdInv

\* The line ends and the next one starts.
LEMMA EndStep == ASSUME KbdInv, scank_end PROVE KbdInv'
<1>1. /\ rd = "clear" /\ rd' = "poll" /\ c' = NUL /\ str' = <<>> /\ typed' = <<>>
      /\ raced' = (down' # {}) /\ down' = down \ {Slot(lastKey)}
      /\ unread' = unread /\ lastKey' = lastKey /\ layout' = layout
  BY DEF scank_end, kbd_get_clear
<1>2. lastKey \in Keys /\ layout \in DOMAIN Layouts /\ unread \in BOOLEAN
  BY <1>1 DEF KbdInv, KeysKnown
<1>3. KeysKnown'
  <2>1. <<>> \in Seq(KeyChars) /\ <<>> \in Seq(KeptChars)
    OBVIOUS
  <2>2. raced' \in BOOLEAN
    BY <1>1
  <2> QED BY <1>1, <1>2, <2>1, <2>2 DEF KeysKnown
<1>4. ASSUME ~raced' PROVE KeyReads'
  <2>1. down' = {}
    BY <1>1, <1>4
  <2>2. str' = Edited(typed')
    BY <1>1, EditedEmpty
  <2>3. unread' \/ ~unread'
    OBVIOUS
  <2> QED BY <1>1, <2>1, <2>2, <2>3 DEF KeyReads
<1> QED BY <1>3, <1>4 DEF KbdInv

\* The layout changes only between two lines.
LEMMA SwitchStep == ASSUME KbdInv, NEW n, kbd_switch_layout(n) PROVE KbdInv'
<1>1. /\ n \in DOMAIN Layouts /\ typed = <<>> /\ rd = "poll" /\ layout' = n
      /\ down' = down /\ lastKey' = lastKey /\ rd' = rd /\ c' = c /\ str' = str
      /\ typed' = typed /\ unread' = unread /\ raced' = raced
  BY DEF kbd_switch_layout
<1>2. KeysKnown'
  BY <1>1 DEF KbdInv, KeysKnown
<1>3. ASSUME ~raced' PROVE KeyReads'
  <2>1. ~AllBut(OwnChar(lastKey)) \/ lastKey \notin Keys
    <3>1. ASSUME AllBut(OwnChar(lastKey)), lastKey \in Keys PROVE FALSE
      <4>1. PICK keys \in Seq(KeyChars) : typed = Append(keys, OwnChar(lastKey))
        BY <3>1 DEF AllBut
      <4>2. OwnChar(lastKey) \in KeyChars
        BY <3>1, CharKnown DEF KbdInv, KeysKnown, OwnChar
      <4>3. typed # <<>>
        BY <4>1, <4>2, AppendProperties
      <4> QED BY <1>1, <4>3
    <3> QED BY <3>1
  <2>2. lastKey \notin Keys => down = {}
    BY DEF KbdInv, KeysKnown
  <2>3. KeyReads
    BY <1>1, <1>3 DEF KbdInv
  <2>4. down = {} /\ (unread \/ str = Edited(typed))
    BY <1>1, <2>1, <2>2, <2>3 DEF KeyReads
  <2> QED BY <1>1, <2>4 DEF KeyReads
<1> QED BY <1>2, <1>3 DEF KbdInv

\* For every keyboard layout and every set of keys, however the keyboard interrupt
\* and scank interleave: the line holds nothing but characters of a layout, no
\* newline and no backspace, and, as long as every key is read before the next
\* event, it is what was typed and not erased.
THEOREM LineStaysRight == KbdSpec => []LineRight
<1>1. InputInit => KbdInv
  <2> SUFFICES ASSUME InputInit PROVE KbdInv
    OBVIOUS
  <2>1. <<>> \in Seq(KeyChars) /\ <<>> \in Seq(KeptChars)
    OBVIOUS
  <2>2. KeysKnown
    BY <2>1, InputConstants DEF InputInit, KeysKnown
  <2>3. KeyReads
    BY EditedEmpty DEF InputInit, KeyReads
  <2> QED BY <2>2, <2>3 DEF KbdInv
<1>2. KbdInv /\ [KbdNext]_inputVars => KbdInv'
  <2> SUFFICES ASSUME KbdInv, [KbdNext]_inputVars PROVE KbdInv'
    OBVIOUS
  <2>1. CASE UNCHANGED inputVars
    <3>1. /\ down' = down /\ lastKey' = lastKey /\ layout' = layout /\ rd' = rd /\ c' = c /\ str' = str
          /\ typed' = typed /\ unread' = unread /\ raced' = raced
      BY <2>1 DEF inputVars
    <3>2. KeysKnown'
      BY <3>1 DEF KbdInv, KeysKnown
    <3>3. KeyReads => KeyReads'
      BY <3>1 DEF KeyReads, AllBut, OwnChar, KeyChar
    <3> QED BY <3>1, <3>2, <3>3 DEF KbdInv
  <2>2. CASE KbdNext
    BY <2>2, EventStep, PollStep, GetStep, PutStep, EndStep, SwitchStep DEF KbdNext, Scank
  <2> QED BY <2>1, <2>2
<1>3. KbdInv => LineRight
  <2> SUFFICES ASSUME KbdInv PROVE LineFaithful /\ LineChars
    BY DEF LineRight
  <2>1. LineFaithful
    BY DEF LineFaithful, KbdInv, KeyReads
  <2>2. \A i \in DOMAIN str : str[i] \in KeptChars
    <3>1. str \in Seq(KeptChars)
      BY DEF KbdInv, KeysKnown
    <3> HIDE DEF KeptChars
    <3> QED BY <3>1, LenProperties, ElementOfSeq
  <2>3. LineChars
    BY <2>2 DEF LineChars, KeptChars, KeyChars
  <2> QED BY <2>1, <2>3
<1> QED BY <1>1, <1>2, <1>3, PTL DEF KbdSpec

----------------------------------------------------------------------------
(* Terminals: what is typed, the picture of it on the screen, what each    *)
(* statement of putchar does to the picture, and the invariant.            *)

\* f holds the lines that the first characters make, up to N of them.
Prints(chars, N, f) == f = [n \in 0 .. N |-> IF n = 0 THEN <<<<>>>> ELSE TypeChar(f[n - 1], chars[n])]

\* There are such lines.
LEMMA PrintsExist == ASSUME NEW chars, NEW N \in Nat PROVE \E f : Prints(chars, N, f)
<1> DEFINE S == {n \in Nat : \E f : Prints(chars, n, f)}
<1>1. 0 \in S
  <2>1. Prints(chars, 0, [n \in 0 .. 0 |-> <<<<>>>>])
    BY DEF Prints
  <2> QED BY <2>1
<1>2. \A n \in 1 .. N : n - 1 \in S => n \in S
  <2> SUFFICES ASSUME NEW n \in 1 .. N, n - 1 \in S PROVE n \in S
    OBVIOUS
  <2>1. PICK f : Prints(chars, n - 1, f)
    OBVIOUS
  <2> DEFINE g == [k \in 0 .. n |-> IF k = n THEN TypeChar(f[n - 1], chars[n]) ELSE f[k]]
  <2>2. n \in Nat /\ n > 0
    OBVIOUS
  <2>3. \A k \in 0 .. (n - 1) : g[k] = f[k] /\ f[k] = IF k = 0 THEN <<<<>>>> ELSE TypeChar(f[k - 1], chars[k])
    <3>1. \A k \in 0 .. (n - 1) : k # n /\ k \in 0 .. n
      BY <2>2
    <3>2. \A k \in 0 .. (n - 1) : g[k] = f[k]
      BY <3>1
    <3>3. \A k \in 0 .. (n - 1) : f[k] = IF k = 0 THEN <<<<>>>> ELSE TypeChar(f[k - 1], chars[k])
      <4> HIDE DEF g
      <4> QED BY <2>1 DEF Prints
    <3> QED BY <3>2, <3>3
  <2>4. \A k \in 0 .. n : g[k] = IF k = 0 THEN <<<<>>>> ELSE TypeChar(g[k - 1], chars[k])
    <3> SUFFICES ASSUME NEW k \in 0 .. n PROVE g[k] = IF k = 0 THEN <<<<>>>> ELSE TypeChar(g[k - 1], chars[k])
      OBVIOUS
    <3>1. CASE k = n
      BY <2>2, <2>3, <3>1
    <3>2. CASE k # n /\ k # 0
      <4>1. k \in 0 .. (n - 1) /\ k - 1 \in 0 .. (n - 1)
        BY <2>2, <3>2
      <4> HIDE DEF g
      <4> QED BY <2>3, <3>2, <4>1
    <3>3. CASE k # n /\ k = 0
      <4>1. k \in 0 .. (n - 1)
        BY <2>2, <3>3
      <4> HIDE DEF g
      <4> QED BY <2>3, <3>3, <4>1
    <3> QED BY <3>1, <3>2, <3>3
  <2>5. g = [k \in 0 .. n |-> g[k]]
    OBVIOUS
  <2>6. Prints(chars, n, g)
    <3> HIDE DEF g
    <3> QED BY <2>4, <2>5 DEF Prints
  <2> QED BY <2>2, <2>6
<1> HIDE DEF S
<1>3. N \in S
  BY <1>1, <1>2, UpTo
<1> QED BY <1>3 DEF S

\* The lines that a longer text begins with are those of the shorter one.
LEMMA PrintsAgree ==
    ASSUME NEW chars, NEW more, NEW N \in Nat, NEW M \in Nat, N <= M, NEW f, NEW g,
           Prints(chars, N, f), Prints(more, M, g), \A i \in 1 .. N : more[i] = chars[i]
    PROVE  f[N] = g[N]
<1> DEFINE S == {n \in Nat : f[n] = g[n]}
<1>1. 0 \in S
  BY DEF Prints
<1>2. \A n \in 1 .. N : n - 1 \in S => n \in S
  <2> SUFFICES ASSUME NEW n \in 1 .. N, n - 1 \in S PROVE n \in S
    OBVIOUS
  <2>1. f[n] = TypeChar(f[n - 1], chars[n])
    BY DEF Prints
  <2>2. n \in 0 .. M /\ n # 0
    OBVIOUS
  <2>3. g[n] = TypeChar(g[n - 1], more[n])
    BY <2>2 DEF Prints
  <2> QED BY <2>1, <2>3
<1> HIDE DEF S
<1>3. N \in S
  BY <1>1, <1>2, UpTo
<1> QED BY <1>3 DEF S

\* The last of them are the lines of the text.
LEMMA TypedLast ==
    ASSUME NEW chars, Len(chars) \in Nat
    PROVE  \E f : Prints(chars, Len(chars), f) /\ Typed(chars) = f[Len(chars)]
<1> DEFINE P(h) == h = [n \in 0 .. Len(chars) |-> IF n = 0 THEN <<<<>>>> ELSE TypeChar(h[n - 1], chars[n])]
           f == CHOOSE h : P(h)
<1>1. \E h : P(h)
  <2>1. \E h : Prints(chars, Len(chars), h)
    BY PrintsExist
  <2> QED BY <2>1 DEF Prints
<1>2. P(f)
  <2> HIDE DEF P
  <2> QED BY <1>1
<1>3. Typed(chars) = f[Len(chars)]
  BY DEF Typed
<1> HIDE DEF f
<1>4. Prints(chars, Len(chars), f)
  BY <1>2 DEF Prints
<1> QED BY <1>3, <1>4

\* No text is one empty line.
LEMMA TypedEmpty == Typed(<<>>) = <<<<>>>>
<1>1. Len(<<>>) = 0
  OBVIOUS
<1>2. PICK f : Prints(<<>>, Len(<<>>), f) /\ Typed(<<>>) = f[Len(<<>>)]
  BY <1>1, TypedLast
<1> QED BY <1>1, <1>2 DEF Prints

\* One more character is typed behind the others.
LEMMA TypedAppend ==
    ASSUME NEW S, NEW chars \in Seq(S), NEW x \in S
    PROVE  Typed(Append(chars, x)) = TypeChar(Typed(chars), x)
<1> DEFINE more == Append(chars, x)
           N == Len(chars)
<1>1. N \in Nat /\ Len(more) = N + 1 /\ more[N + 1] = x /\ \A i \in 1 .. N : more[i] = chars[i]
  BY AppendProperties, LenProperties
<1> HIDE DEF more, N
<1>2. PICK f : Prints(chars, N, f) /\ Typed(chars) = f[N]
  BY <1>1, TypedLast DEF N
<1>3. PICK g : Prints(more, Len(more), g) /\ Typed(more) = g[Len(more)]
  BY <1>1, TypedLast
<1>4. N + 1 \in Nat /\ N <= N + 1 /\ Prints(more, N + 1, g) /\ Typed(more) = g[N + 1]
  BY <1>1, <1>3
<1>5. f[N] = g[N]
  BY <1>1, <1>2, <1>4, PrintsAgree
<1>6. g[N + 1] = TypeChar(g[N], more[N + 1])
  <2>1. N + 1 \in 0 .. (N + 1) /\ N + 1 # 0 /\ (N + 1) - 1 = N
    BY <1>1
  <2>2. g[N + 1] = TypeChar(g[(N + 1) - 1], more[N + 1])
    BY <1>4, <2>1 DEF Prints
  <2> QED BY <2>1, <2>2
<1> QED BY <1>1, <1>2, <1>4, <1>5, <1>6 DEF more

\* Lines that fit the screen: there is one, and the last column stays free.
Glyphs == Chars \cup {Blank}
Fits(lns) == /\ lns \in Seq(Seq(Glyphs)) /\ Len(lns) >= 1
             /\ \A i \in 1 .. Len(lns) : Len(lns[i]) \in 0 .. (Cols - 1)

\* The character at column x of line i.
Glyph(lns, i, x) == IF i \in 1 .. Len(lns) /\ x + 1 <= Len(lns[i]) THEN lns[i][x + 1] ELSE Blank

\* What may stand in the cell of the cursor instead of a character.
Gap(g, v) == g = "any" \/ (g = "cursor" /\ v = Cursor)

\* The screen shows lns, the last of them in row r.
Scene(scr, e, r, lns, g) ==
    /\ Fits(lns) /\ DOMAIN scr = 0 .. (Cols * Rows - 1)
    /\ \A x \in 0 .. (Cols - 2), y \in 0 .. (Rows - 1) :
         scr[x + y * Cols] = Glyph(lns, Len(lns) - r + y, x) \/ (x = e /\ y = r /\ Gap(g, scr[x + y * Cols]))

\* The cursor is behind the last line, which is in the last row unless the
\* first one is in the first.
Pos(e, r, lns) == /\ e = Len(lns[Len(lns)]) /\ r \in 0 .. (Rows - 1)
                  /\ r = Len(lns) - 1 \/ (r = Rows - 1 /\ r < Len(lns))

\* Products keep the order.
LEMMA Times ==
    ASSUME NEW a \in Nat, NEW b \in Nat, NEW z \in Nat
    PROVE  /\ a <= b => a * z <= b * z
           /\ (a + 1) * z = a * z + z /\ a * z \in Nat
<1>1. a <= b => a * z <= b * z
  <2> SUFFICES ASSUME a <= b PROVE a * z <= b * z
    OBVIOUS
  <2>1. PICK d \in Nat : b = a + d
    <3>1. b - a \in Nat /\ b = a + (b - a)
      OBVIOUS
    <3> QED BY <3>1
  <2>2. b * z = a * z + d * z /\ d * z >= 0 /\ a * z \in Nat
    BY <2>1
  <2> QED BY <2>1, <2>2
<1> QED BY <1>1

\* Every position has a cell of its own.
LEMMA CellOf ==
    ASSUME NEW x \in 0 .. (Cols - 1), NEW y \in 0 .. (Rows - 1),
           NEW u \in 0 .. (Cols - 1), NEW v \in 0 .. (Rows - 1)
    PROVE  /\ x + y * Cols \in 0 .. (Cols * Rows - 1)
           /\ x + y * Cols = u + v * Cols => x = u /\ y = v
<1>1. x \in Nat /\ y \in Nat /\ u \in Nat /\ v \in Nat /\ Cols \in Nat /\ Rows \in Nat /\ x < Cols /\ u < Cols
      /\ y + 1 \in Nat /\ v + 1 \in Nat /\ y + 1 <= Rows
  BY TermConstants
<1>2. /\ (y + 1) * Cols <= Rows * Cols /\ (y + 1) * Cols = y * Cols + Cols /\ y * Cols \in Nat
      /\ (v + 1) * Cols = v * Cols + Cols /\ v * Cols \in Nat
      /\ y + 1 <= v => (y + 1) * Cols <= v * Cols
      /\ v + 1 <= y => (v + 1) * Cols <= y * Cols
  BY <1>1, Times
<1>3. Rows * Cols = Cols * Rows /\ Cols * Rows \in Nat
  BY <1>1
<1> DEFINE yc == y * Cols
           vc == v * Cols
           rc == Cols * Rows
<1>4. /\ yc + Cols <= rc /\ yc \in Nat /\ vc \in Nat /\ rc \in Nat
      /\ y + 1 <= v => yc + Cols <= vc
      /\ v + 1 <= y => vc + Cols <= yc
  BY <1>1, <1>2, <1>3
<1>5. y = v => yc = vc
  OBVIOUS
<1> HIDE DEF yc, vc, rc
<1>6. x + yc \in 0 .. (rc - 1) /\ (x + yc = u + vc => x = u /\ y = v)
  BY <1>1, <1>4, <1>5
<1> QED BY <1>6 DEF yc, vc, rc

\* The screen with another character at a position.
Puts(scr, e, r, v) == [scr EXCEPT ![e + r * Cols] = v]

\* Writing a cell changes that position and no other.
Written(scr, e, r, v, scr2) ==
    /\ DOMAIN scr2 = 0 .. (Cols * Rows - 1)
    /\ \A x \in 0 .. (Cols - 1), y \in 0 .. (Rows - 1) :
         scr2[x + y * Cols] = IF x = e /\ y = r THEN v ELSE scr[x + y * Cols]

\* Writing a cell changes that cell and no other.
LEMMA WriteCell ==
    ASSUME NEW scr, DOMAIN scr = 0 .. (Cols * Rows - 1), NEW e \in 0 .. (Cols - 1), NEW r \in 0 .. (Rows - 1),
           NEW v
    PROVE  Written(scr, e, r, v, Puts(scr, e, r, v))
<1>1. DOMAIN Puts(scr, e, r, v) = 0 .. (Cols * Rows - 1)
  BY DEF Puts
<1>2. SUFFICES ASSUME NEW x \in 0 .. (Cols - 1), NEW y \in 0 .. (Rows - 1)
               PROVE  Puts(scr, e, r, v)[x + y * Cols] = IF x = e /\ y = r THEN v ELSE scr[x + y * Cols]
  BY <1>1 DEF Written
<1>3. /\ x + y * Cols \in DOMAIN scr
      /\ x + y * Cols = e + r * Cols => x = e /\ y = r
  BY CellOf
<1> DEFINE i == x + y * Cols
           j == e + r * Cols
<1>4. i \in DOMAIN scr /\ (i = j => x = e /\ y = r) /\ (x = e /\ y = r => i = j) /\ Puts(scr, e, r, v) = [scr EXCEPT ![j] = v]
  BY <1>3 DEF Puts
<1> HIDE DEF i, j
<1>5. Puts(scr, e, r, v)[i] = IF x = e /\ y = r THEN v ELSE scr[i]
  BY <1>4
<1> QED BY <1>5 DEF i

\* The parts of lines that fit.
LEMMA LinesOf ==
    ASSUME NEW lns, Fits(lns)
    PROVE  /\ Len(lns) \in Nat /\ Len(lns) >= 1 /\ Cols \in Nat /\ Rows \in Nat
           /\ \A i \in 1 .. Len(lns) : lns[i] \in Seq(Glyphs) /\ Len(lns[i]) \in 0 .. (Cols - 1)
<1>1. lns \in Seq(Seq(Glyphs))
  BY DEF Fits
<1>2. \A i \in 1 .. Len(lns) : lns[i] \in Seq(Glyphs)
  BY <1>1, ElementOfSeq
<1>3. Len(lns) \in Nat
  BY <1>1, LenProperties
<1> QED BY <1>2, <1>3, TermConstants DEF Fits

\* Another last line.
WithLast(lns, s) == [lns EXCEPT ![Len(lns)] = s]

Ends(lns, s, after) ==
    /\ Fits(after) /\ Len(after) = Len(lns) /\ after[Len(after)] = s
    /\ \A i \in Int, x \in Nat :
         Glyph(after, i, x) = IF i = Len(lns) THEN (IF x + 1 <= Len(s) THEN s[x + 1] ELSE Blank)
                              ELSE Glyph(lns, i, x)

\* Another last line that fits leaves the other lines as they are.
LEMMA LastLine ==
    ASSUME NEW lns, Fits(lns), NEW s \in Seq(Glyphs), Len(s) \in 0 .. (Cols - 1)
    PROVE  Ends(lns, s, WithLast(lns, s))
<1> PICK after : after = WithLast(lns, s)
  OBVIOUS
<1> PICK n : n = Len(lns)
  OBVIOUS
<1>1. n \in Nat /\ n >= 1 /\ n \in 1 .. Len(lns) /\ lns \in Seq(Seq(Glyphs))
  BY LinesOf DEF Fits
<1>2. /\ after \in Seq(Seq(Glyphs)) /\ Len(after) = n
      /\ \A i \in 1 .. n : after[i] = IF i = n THEN s ELSE lns[i]
  BY <1>1, ExceptSeq DEF WithLast
<1>3. \A i \in 1 .. n : Len(lns[i]) \in 0 .. (Cols - 1)
  BY LinesOf
<1>4. Fits(after) /\ after[n] = s
  BY <1>1, <1>2, <1>3 DEF Fits
<1>5. SUFFICES ASSUME NEW i \in Int, NEW x \in Nat
               PROVE  Glyph(after, i, x) = IF i = n THEN (IF x + 1 <= Len(s) THEN s[x + 1] ELSE Blank)
                                           ELSE Glyph(lns, i, x)
  BY <1>2, <1>4 DEF Ends
<1>6. CASE i \in 1 .. n /\ i # n
  <2>1. after[i] = lns[i]
    BY <1>2, <1>6
  <2> QED BY <1>2, <1>6, <2>1 DEF Glyph
<1>7. CASE i = n
  BY <1>1, <1>2, <1>4, <1>7 DEF Glyph
<1>8. CASE i \notin 1 .. n
  BY <1>1, <1>2, <1>8 DEF Glyph
<1> QED BY <1>6, <1>7, <1>8

\* The cell of the cursor is behind the last line.
LEMMA Behind ==
    ASSUME NEW e, NEW r, NEW lns, Fits(lns), Pos(e, r, lns)
    PROVE  /\ e \in 0 .. (Cols - 1) /\ r \in 0 .. (Rows - 1)
           /\ Glyph(lns, Len(lns) - r + r, e) = Blank
<1> PICK n : n = Len(lns)
  OBVIOUS
<1>1. n \in Nat /\ n >= 1 /\ n \in 1 .. Len(lns)
  BY LinesOf
<1>2. Len(lns[n]) \in 0 .. (Cols - 1) /\ e = Len(lns[n]) /\ r \in 0 .. (Rows - 1)
  BY <1>1, LinesOf DEF Pos
<1>3. n - r + r = n /\ ~(e + 1 <= Len(lns[n]))
  BY <1>1, <1>2, TermConstants
<1> QED BY <1>2, <1>3 DEF Glyph

\* Erasing the cell of the cursor makes the picture exact.
LEMMA Erased ==
    ASSUME NEW scr, NEW e, NEW r, NEW lns, NEW g, Scene(scr, e, r, lns, g), Pos(e, r, lns),
           NEW scr2, scr2 = Puts(scr, e, r, Blank)
    PROVE  Scene(scr2, e, r, lns, "none")
<1>1. Fits(lns) /\ DOMAIN scr = 0 .. (Cols * Rows - 1)
  BY DEF Scene
<1>2. e \in 0 .. (Cols - 1) /\ r \in 0 .. (Rows - 1) /\ Glyph(lns, Len(lns) - r + r, e) = Blank
  BY <1>1, Behind
<1>3. /\ DOMAIN scr2 = 0 .. (Cols * Rows - 1)
      /\ \A x \in 0 .. (Cols - 1), y \in 0 .. (Rows - 1) :
           scr2[x + y * Cols] = IF x = e /\ y = r THEN Blank ELSE scr[x + y * Cols]
  <2>1. DOMAIN scr = 0 .. (Cols * Rows - 1) /\ e \in 0 .. (Cols - 1) /\ r \in 0 .. (Rows - 1)
    BY <1>1, <1>2
  <2>2. Written(scr, e, r, Blank, Puts(scr, e, r, Blank))
    BY <2>1, WriteCell
  <2> QED BY <2>2 DEF Written
<1>4. \A x \in 0 .. (Cols - 2) : x \in 0 .. (Cols - 1)
  BY TermConstants
<1>5. ASSUME NEW x \in 0 .. (Cols - 2), NEW y \in 0 .. (Rows - 1)
      PROVE  scr2[x + y * Cols] = Glyph(lns, Len(lns) - r + y, x)
  <2>1. CASE x = e /\ y = r
    BY <1>2, <1>3, <1>4, <2>1
  <2>2. CASE ~(x = e /\ y = r)
    <3>1. scr2[x + y * Cols] = scr[x + y * Cols]
      BY <1>3, <1>4, <2>2
    <3>2. scr[x + y * Cols] = Glyph(lns, Len(lns) - r + y, x)
      BY <2>2 DEF Scene
    <3> QED BY <3>1, <3>2
  <2> QED BY <2>1, <2>2
<1> QED BY <1>1, <1>3, <1>5 DEF Scene

\* Drawing the cursor.
LEMMA Cursored ==
    ASSUME NEW scr, NEW e, NEW r, NEW lns, Scene(scr, e, r, lns, "any"), Pos(e, r, lns),
           NEW scr2, scr2 = Puts(scr, e, r, Cursor)
    PROVE  Scene(scr2, e, r, lns, "cursor")
<1>1. Fits(lns) /\ DOMAIN scr = 0 .. (Cols * Rows - 1)
  BY DEF Scene
<1>2. e \in 0 .. (Cols - 1) /\ r \in 0 .. (Rows - 1)
  BY <1>1, Behind
<1>3. /\ DOMAIN scr2 = 0 .. (Cols * Rows - 1)
      /\ \A x \in 0 .. (Cols - 1), y \in 0 .. (Rows - 1) :
           scr2[x + y * Cols] = IF x = e /\ y = r THEN Cursor ELSE scr[x + y * Cols]
  <2>1. DOMAIN scr = 0 .. (Cols * Rows - 1) /\ e \in 0 .. (Cols - 1) /\ r \in 0 .. (Rows - 1)
    BY <1>1, <1>2
  <2>2. Written(scr, e, r, Cursor, Puts(scr, e, r, Cursor))
    BY <2>1, WriteCell
  <2> QED BY <2>2 DEF Written
<1>4. \A x \in 0 .. (Cols - 2) : x \in 0 .. (Cols - 1)
  BY TermConstants
<1>5. ASSUME NEW x \in 0 .. (Cols - 2), NEW y \in 0 .. (Rows - 1)
      PROVE  scr2[x + y * Cols] = Glyph(lns, Len(lns) - r + y, x)
                \/ (x = e /\ y = r /\ Gap("cursor", scr2[x + y * Cols]))
  <2>1. CASE x = e /\ y = r
    <3>1. scr2[x + y * Cols] = Cursor
      BY <1>3, <1>4, <2>1
    <3> QED BY <2>1, <3>1 DEF Gap
  <2>2. CASE ~(x = e /\ y = r)
    <3>1. scr2[x + y * Cols] = scr[x + y * Cols]
      BY <1>3, <1>4, <2>2
    <3>2. scr[x + y * Cols] = Glyph(lns, Len(lns) - r + y, x)
      BY <2>2 DEF Scene
    <3> QED BY <3>1, <3>2
  <2> QED BY <2>1, <2>2
<1> QED BY <1>1, <1>3, <1>5 DEF Scene

\* An exact picture is one with any gap, and any gap is a gap of any content.
LEMMA Loose ==
    ASSUME NEW scr, NEW e, NEW r, NEW lns, NEW g
    PROVE  /\ Scene(scr, e, r, lns, "none") => Scene(scr, e, r, lns, g)
           /\ Scene(scr, e, r, lns, g) => Scene(scr, e, r, lns, "any")
  BY DEF Scene, Gap

\* A picture without a gap.
LEMMA Exact ==
    ASSUME NEW scr, NEW e, NEW r, NEW lns, Fits(lns), DOMAIN scr = 0 .. (Cols * Rows - 1), NEW n, n = Len(lns),
           \A x \in 0 .. (Cols - 2), y \in 0 .. (Rows - 1) : scr[x + y * Cols] = Glyph(lns, n - r + y, x)
    PROVE  Scene(scr, e, r, lns, "none")
BY DEF Scene

\* Of an exact picture, or one whose gap is in the last column, the cursor may
\* go away.
LEMMA Moved ==
    ASSUME NEW scr, NEW e, NEW r, NEW lns, NEW g, Scene(scr, e, r, lns, g), g = "none" \/ e = Cols - 1, NEW c2
    PROVE  Scene(scr, c2, r, lns, "none")
<1>1. \A x \in 0 .. (Cols - 2) : x # Cols - 1
  BY TermConstants
<1>2. \A v : ~Gap("none", v)
  BY DEF Gap
<1>3. \A x \in 0 .. (Cols - 2), y \in 0 .. (Rows - 1) : scr[x + y * Cols] = Glyph(lns, Len(lns) - r + y, x)
  BY <1>1, <1>2 DEF Scene
<1> QED BY <1>3 DEF Scene

\* A new line begins.
LEMMA Opened ==
    ASSUME NEW scr, NEW e, NEW r \in 0 .. (Rows - 1), NEW lns, Scene(scr, e, r, lns, "none")
    PROVE  /\ Scene(scr, e, r + 1, Append(lns, <<>>), "none")
           /\ Len(Append(lns, <<>>)) = Len(lns) + 1 /\ Append(lns, <<>>)[Len(lns) + 1] = <<>>
<1> PICK n : n = Len(lns)
  OBVIOUS
<1> DEFINE more == Append(lns, <<>>)
<1>1. Fits(lns) /\ n \in Nat /\ n >= 1 /\ lns \in Seq(Seq(Glyphs)) /\ r \in Nat
  BY LinesOf, TermConstants DEF Scene, Fits
<1>2. <<>> \in Seq(Glyphs) /\ Len(<<>>) = 0
  BY EmptySeq, Zenon
<1>3. /\ more \in Seq(Seq(Glyphs)) /\ Len(more) = n + 1 /\ more[n + 1] = <<>>
      /\ \A i \in 1 .. n : more[i] = lns[i]
  BY <1>1, <1>2, AppendProperties
<1> HIDE DEF more
<1>4. \A i \in 1 .. (n + 1) : Len(more[i]) \in 0 .. (Cols - 1)
  <2>1. \A i \in 1 .. n : Len(lns[i]) \in 0 .. (Cols - 1)
    BY <1>1, LinesOf
  <2>2. 0 \in 0 .. (Cols - 1)
    BY TermConstants
  <2>3. \A i \in 1 .. (n + 1) : i = n + 1 \/ i \in 1 .. n
    BY <1>1
  <2> QED BY <1>2, <1>3, <2>1, <2>2, <2>3
<1>5. Fits(more)
  BY <1>1, <1>3, <1>4 DEF Fits
<1>6. ASSUME NEW x \in 0 .. (Cols - 2), NEW y \in 0 .. (Rows - 1)
      PROVE  Glyph(more, Len(more) - (r + 1) + y, x) = Glyph(lns, n - r + y, x)
  <2>1. x \in Nat /\ y \in Nat /\ Len(more) - (r + 1) + y = n - r + y
    BY <1>1, <1>3, TermConstants
  <2> PICK i : i = n - r + y
    OBVIOUS
  <2>2. i \in Int
    BY <1>1, <2>1
  <2>3. CASE i \in 1 .. n
    <3>1. more[i] = lns[i] /\ i \in 1 .. (n + 1)
      BY <1>1, <1>3, <2>3
    <3> QED BY <1>3, <2>1, <2>3, <3>1 DEF Glyph
  <2>4. CASE i = n + 1
    <3>1. Glyph(more, i, x) = Blank
      BY <1>2, <1>3, <2>1, <2>4 DEF Glyph
    <3>2. Glyph(lns, i, x) = Blank
      BY <1>1, <2>4 DEF Glyph
    <3> QED BY <2>1, <3>1, <3>2
  <2>5. CASE i \notin 1 .. (n + 1)
    <3>1. i \notin 1 .. n
      BY <1>1, <2>2, <2>5
    <3> QED BY <1>3, <2>1, <2>5, <3>1 DEF Glyph
  <2>6. i \in 1 .. n \/ i = n + 1 \/ i \notin 1 .. (n + 1)
    <3>1. \A j \in Int, z \in Nat : j \in 1 .. z \/ j = z + 1 \/ j \notin 1 .. (z + 1)
      OBVIOUS
    <3> QED BY <1>1, <2>2, <3>1, Zenon
  <2> QED BY <2>3, <2>4, <2>5, <2>6
<1>7. \A v : ~Gap("none", v)
  BY DEF Gap
<1>8. Scene(scr, e, r + 1, more, "none")
  BY <1>5, <1>6, <1>7 DEF Scene
<1> QED BY <1>3, <1>8 DEF more

\* The lines move up once the last one, which is empty, is below the screen.
LEMMA Scrolled ==
    ASSUME NEW scr, NEW e, NEW lns, Scene(scr, e, Rows, lns, "none"), lns[Len(lns)] = <<>>,
           NEW scr2, scr2 = [i \in DOMAIN scr |-> IF i + Cols \in DOMAIN scr THEN scr[i + Cols] ELSE Blank]
    PROVE  Scene(scr2, e, Rows - 1, lns, "none")
<1> PICK n : n = Len(lns)
  OBVIOUS
<1>1. Fits(lns) /\ n \in Nat /\ n >= 1 /\ Cols \in Nat /\ Rows \in Nat /\ DOMAIN scr = 0 .. (Cols * Rows - 1)
  BY LinesOf DEF Scene
<1>2. \A v : ~Gap("none", v)
  BY DEF Gap
<1>3. ASSUME NEW x \in 0 .. (Cols - 2), NEW y \in 0 .. (Rows - 1)
      PROVE  scr2[x + y * Cols] = Glyph(lns, n - (Rows - 1) + y, x)
  <2>1. x \in 0 .. (Cols - 1) /\ x \in Nat /\ y \in Nat
    BY <1>1
  <2>2. x + y * Cols \in DOMAIN scr
    BY <1>1, <2>1, CellOf
  <2>3. (y + 1) * Cols = y * Cols + Cols /\ y * Cols \in Nat
    BY <1>1, <2>1, Times
  <2>4. (x + y * Cols) + Cols = x + (y + 1) * Cols
    BY <1>1, <2>1, <2>3
  <2>5. CASE y + 1 \in 0 .. (Rows - 1)
    <3>1. x + (y + 1) * Cols \in DOMAIN scr
      BY <1>1, <2>1, <2>5, CellOf
    <3>2. scr2[x + y * Cols] = scr[x + (y + 1) * Cols]
      BY <2>2, <2>4, <3>1
    <3>3. scr[x + (y + 1) * Cols] = Glyph(lns, n - Rows + (y + 1), x)
      BY <1>2, <2>5 DEF Scene
    <3>4. n - Rows + (y + 1) = n - (Rows - 1) + y
      BY <1>1, <2>1
    <3> QED BY <3>2, <3>3, <3>4
  <2>6. CASE y + 1 = Rows
    <3>1. Rows * Cols = Cols * Rows
      BY <1>1
    <3>2. x + (y + 1) * Cols \notin DOMAIN scr
      <4>1. (y + 1) * Cols = Cols * Rows /\ Cols * Rows \in Nat
        BY <1>1, <2>6, <3>1
      <4> QED BY <1>1, <2>1, <4>1
    <3>3. scr2[x + y * Cols] = Blank
      BY <2>2, <2>4, <3>2
    <3>4. n - (Rows - 1) + y = n
      BY <1>1, <2>1, <2>6
    <3>5. Len(lns[n]) = 0
      BY EmptySeq
    <3>6. Glyph(lns, n, x) = Blank
      BY <2>1, <3>5 DEF Glyph
    <3> QED BY <3>3, <3>4, <3>6
  <2>7. y + 1 \in 0 .. (Rows - 1) \/ y + 1 = Rows
    BY <1>1, <2>1
  <2> QED BY <2>5, <2>6, <2>7
<1>4. DOMAIN scr2 = 0 .. (Cols * Rows - 1)
  BY <1>1
<1> QED BY <1>1, <1>3, <1>4 DEF Scene

\* A character is drawn in the cell of the cursor, which moves on.
LEMMA Drawn ==
    ASSUME NEW scr, NEW e, NEW r, NEW lns, Scene(scr, e, r, lns, "any"), Pos(e, r, lns), e <= Cols - 2,
           NEW ch \in Glyphs, NEW scr2, scr2 = Puts(scr, e, r, ch),
           NEW after, after = WithLast(lns, Append(lns[Len(lns)], ch))
    PROVE  Scene(scr2, e + 1, r, after, "none") /\ Pos(e + 1, r, after)
<1> PICK n : n = Len(lns)
  OBVIOUS
<1> PICK s : s = Append(lns[n], ch)
  OBVIOUS
<1>1. /\ Fits(lns) /\ n \in Nat /\ n >= 1 /\ n \in 1 .. Len(lns) /\ Cols \in Nat /\ Rows \in Nat
      /\ DOMAIN scr = 0 .. (Cols * Rows - 1)
  BY LinesOf DEF Scene
<1>2. e \in 0 .. (Cols - 1) /\ r \in 0 .. (Rows - 1) /\ e = Len(lns[n]) /\ e \in Nat
  <2>1. e = Len(lns[n])
    BY DEF Pos
  <2>2. e \in 0 .. (Cols - 1) /\ r \in 0 .. (Rows - 1)
    BY <1>1, Behind
  <2> QED BY <1>1, <2>1, <2>2
<1>3. lns[n] \in Seq(Glyphs)
  BY <1>1, LinesOf
<1>4. /\ s \in Seq(Glyphs) /\ Len(s) = e + 1 /\ s[e + 1] = ch
      /\ \A i \in 1 .. e : s[i] = lns[n][i]
  BY <1>2, <1>3, AppendProperties
<1>5. Len(s) \in 0 .. (Cols - 1)
  BY <1>1, <1>2, <1>4
<1>6. /\ Fits(after) /\ Len(after) = n /\ after[Len(after)] = s
      /\ \A i \in Int, x \in Nat :
           Glyph(after, i, x) = IF i = n THEN (IF x + 1 <= Len(s) THEN s[x + 1] ELSE Blank)
                                ELSE Glyph(lns, i, x)
  <2>1. after = WithLast(lns, s)
    OBVIOUS
  <2>2. Ends(lns, s, WithLast(lns, s))
    BY <1>1, <1>4, <1>5, LastLine
  <2> QED BY <2>1, <2>2 DEF Ends
<1>7. Pos(e + 1, r, after)
  BY <1>2, <1>4, <1>6 DEF Pos
<1>8. /\ DOMAIN scr2 = 0 .. (Cols * Rows - 1)
      /\ \A x \in 0 .. (Cols - 1), y \in 0 .. (Rows - 1) :
           scr2[x + y * Cols] = IF x = e /\ y = r THEN ch ELSE scr[x + y * Cols]
  <2>1. DOMAIN scr = 0 .. (Cols * Rows - 1) /\ e \in 0 .. (Cols - 1) /\ r \in 0 .. (Rows - 1)
    BY <1>1, <1>2
  <2>2. Written(scr, e, r, ch, Puts(scr, e, r, ch))
    BY <2>1, WriteCell
  <2> QED BY <2>2 DEF Written
<1>9. ASSUME NEW x \in 0 .. (Cols - 2), NEW y \in 0 .. (Rows - 1)
      PROVE  scr2[x + y * Cols] = Glyph(after, n - r + y, x)
  <2> PICK i : i = n - r + y
    OBVIOUS
  <2>1. x \in 0 .. (Cols - 1) /\ x \in Nat /\ y \in Nat /\ r \in Nat /\ i \in Int /\ (i = n <=> y = r)
    <3>1. x \in 0 .. (Cols - 1) /\ x \in Nat /\ y \in Nat /\ r \in Nat
      BY <1>1, <1>2
    <3>2. i = n <=> y = r
      BY <1>1, <3>1
    <3> QED BY <1>1, <3>1, <3>2
  <2>2. CASE x = e /\ y = r
    <3>1. scr2[x + y * Cols] = ch
      BY <1>8, <2>1, <2>2
    <3>2. Glyph(after, i, x) = s[e + 1]
      <4>1. Glyph(after, i, x) = IF x + 1 <= Len(s) THEN s[x + 1] ELSE Blank
        BY <1>6, <2>1, <2>2
      <4>2. x + 1 <= Len(s) /\ x = e
        BY <1>4, <2>1, <2>2
      <4> QED BY <4>1, <4>2
    <3> QED BY <1>4, <3>1, <3>2
  <2>3. CASE ~(x = e /\ y = r)
    <3>1. scr2[x + y * Cols] = scr[x + y * Cols]
      BY <1>8, <2>1, <2>3
    <3>2. scr[x + y * Cols] = Glyph(lns, i, x)
      BY <2>3 DEF Scene
    <3>3. Glyph(after, i, x) = Glyph(lns, i, x)
      <4>1. CASE i # n
        BY <1>6, <2>1, <4>1
      <4>2. CASE i = n
        <5>1. x # e
          BY <2>1, <2>3, <4>2
        <5>2. Glyph(after, i, x) = IF x + 1 <= e + 1 THEN s[x + 1] ELSE Blank
          BY <1>4, <1>6, <2>1, <4>2
        <5>3. Glyph(lns, i, x) = IF x + 1 <= e THEN lns[n][x + 1] ELSE Blank
          BY <1>1, <1>2, <4>2 DEF Glyph
        <5>4. x + 1 <= e + 1 <=> x + 1 <= e
          BY <1>2, <2>1, <5>1
        <5>5. x + 1 <= e => x + 1 \in 1 .. e
          BY <1>2, <2>1
        <5> QED BY <1>4, <5>2, <5>3, <5>4, <5>5
      <4> QED BY <4>1, <4>2
    <3> QED BY <3>1, <3>2, <3>3
  <2> QED BY <2>2, <2>3
<1> QED BY <1>6, <1>7, <1>8, <1>9 DEF Scene

\* Stepping back takes the last character off the line, not off the screen.
LEMMA Backed ==
    ASSUME NEW scr, NEW e, NEW r, NEW lns, Scene(scr, e, r, lns, "none"), Pos(e, r, lns), e # 0,
           NEW after, after = WithLast(lns, Front(lns[Len(lns)]))
    PROVE  Scene(scr, e - 1, r, after, "any") /\ Pos(e - 1, r, after)
<1> PICK n : n = Len(lns)
  OBVIOUS
<1> PICK s : s = Front(lns[n])
  OBVIOUS
<1>1. /\ Fits(lns) /\ n \in Nat /\ n >= 1 /\ n \in 1 .. Len(lns) /\ Cols \in Nat /\ Rows \in Nat
      /\ DOMAIN scr = 0 .. (Cols * Rows - 1)
  BY LinesOf DEF Scene
<1>2. e \in 0 .. (Cols - 1) /\ r \in 0 .. (Rows - 1) /\ e = Len(lns[n]) /\ e \in Nat
  <2>1. e = Len(lns[n])
    BY DEF Pos
  <2>2. e \in 0 .. (Cols - 1) /\ r \in 0 .. (Rows - 1)
    BY <1>1, Behind
  <2> QED BY <1>1, <2>1, <2>2
<1>3. lns[n] \in Seq(Glyphs)
  BY <1>1, LinesOf
<1>4. /\ s \in Seq(Glyphs) /\ Len(s) = e - 1
      /\ \A i \in 1 .. (e - 1) : s[i] = lns[n][i]
  <2>1. \A i \in 1 .. (e - 1) : i \in 1 .. Len(lns[n])
    BY <1>2
  <2>2. \A i \in 1 .. (e - 1) : lns[n][i] \in Glyphs
    BY <1>3, <2>1, ElementOfSeq
  <2>3. s = SubSeq(lns[n], 1, e - 1)
    BY <1>2 DEF Front
  <2>4. 1 \in Int /\ e - 1 \in Int /\ (1 <= e - 1 => (e - 1) - 1 + 1 = e - 1) /\ (~(1 <= e - 1) => e - 1 = 0)
        /\ (e - 1) - 1 + 1 = e - 1 /\ \A i \in 1 .. (e - 1) : 1 + i - 1 = i
    <3>1. e \in Nat /\ e # 0
      BY <1>2
    <3> QED BY <3>1
  <2>5. /\ s \in Seq(Glyphs) /\ Len(s) = IF 1 <= e - 1 THEN (e - 1) - 1 + 1 ELSE 0
        /\ \A i \in 1 .. ((e - 1) - 1 + 1) : s[i] = lns[n][1 + i - 1]
    BY <2>2, <2>3, <2>4, SubSeqProperties
  <2> QED BY <2>4, <2>5
<1>5. Len(s) \in 0 .. (Cols - 1)
  BY <1>1, <1>2, <1>4
<1>6. /\ Fits(after) /\ Len(after) = n /\ after[Len(after)] = s
      /\ \A i \in Int, x \in Nat :
           Glyph(after, i, x) = IF i = n THEN (IF x + 1 <= Len(s) THEN s[x + 1] ELSE Blank)
                                ELSE Glyph(lns, i, x)
  <2>1. after = WithLast(lns, s)
    OBVIOUS
  <2>2. Ends(lns, s, WithLast(lns, s))
    BY <1>1, <1>4, <1>5, LastLine
  <2> QED BY <2>1, <2>2 DEF Ends
<1>7. Pos(e - 1, r, after)
  BY <1>2, <1>4, <1>6 DEF Pos
<1>8. ASSUME NEW x \in 0 .. (Cols - 2), NEW y \in 0 .. (Rows - 1), ~(x = e - 1 /\ y = r)
      PROVE  scr[x + y * Cols] = Glyph(after, n - r + y, x)
  <2> PICK i : i = n - r + y
    OBVIOUS
  <2>1. x \in Nat /\ y \in Nat /\ r \in Nat /\ i \in Int /\ (i = n <=> y = r)
    <3>1. x \in 0 .. (Cols - 1) /\ x \in Nat /\ y \in Nat /\ r \in Nat
      BY <1>1, <1>2
    <3>2. i = n <=> y = r
      BY <1>1, <3>1
    <3> QED BY <1>1, <3>1, <3>2
  <2>2. scr[x + y * Cols] = Glyph(lns, i, x)
    BY DEF Scene, Gap
  <2>3. CASE i # n
    BY <1>6, <2>1, <2>2, <2>3
  <2>4. CASE i = n
    <3>1. x # e - 1
      BY <1>8, <2>1, <2>4
    <3>2. Glyph(after, i, x) = IF x + 1 <= e - 1 THEN s[x + 1] ELSE Blank
      BY <1>4, <1>6, <2>1, <2>4
    <3>3. Glyph(lns, i, x) = IF x + 1 <= e THEN lns[n][x + 1] ELSE Blank
      BY <1>1, <1>2, <2>4 DEF Glyph
    <3>4. x + 1 <= e - 1 <=> x + 1 <= e
      BY <1>2, <2>1, <3>1
    <3>5. x + 1 <= e - 1 => x + 1 \in 1 .. (e - 1)
      BY <1>2, <2>1
    <3> QED BY <1>4, <2>2, <3>2, <3>3, <3>4, <3>5
  <2> QED BY <2>3, <2>4
<1> QED BY <1>1, <1>6, <1>7, <1>8 DEF Scene, Gap

\* A tab moves the cursor over blanks.
LEMMA Tabbed ==
    ASSUME NEW scr, NEW e, NEW r, NEW lns, Scene(scr, e, r, lns, "none"), Pos(e, r, lns),
           NEW t \in e .. (Cols - 1),
           NEW after, after = WithLast(lns, lns[Len(lns)] \o [i \in 1 .. (t - Len(lns[Len(lns)])) |-> Blank])
    PROVE  Scene(scr, t, r, after, "none") /\ Pos(t, r, after)
<1> PICK n : n = Len(lns)
  OBVIOUS
<1>1. /\ Fits(lns) /\ n \in Nat /\ n >= 1 /\ n \in 1 .. Len(lns) /\ Cols \in Nat /\ Rows \in Nat
      /\ DOMAIN scr = 0 .. (Cols * Rows - 1)
  BY LinesOf DEF Scene
<1>2. e \in 0 .. (Cols - 1) /\ r \in 0 .. (Rows - 1) /\ e = Len(lns[n]) /\ e \in Nat
  <2>1. e = Len(lns[n])
    BY DEF Pos
  <2>2. e \in 0 .. (Cols - 1) /\ r \in 0 .. (Rows - 1)
    BY <1>1, Behind
  <2> QED BY <1>1, <2>1, <2>2
<1>3. lns[n] \in Seq(Glyphs) /\ Blank \in Glyphs
  BY <1>1, LinesOf DEF Glyphs
<1> PICK d : d = t - e
  OBVIOUS
<1> PICK p : p = [i \in 1 .. d |-> Blank]
  OBVIOUS
<1> PICK s : s = lns[n] \o p
  OBVIOUS
<1>4. d \in Nat /\ t \in Nat /\ t = e + d /\ t <= Cols - 1
  BY <1>1, <1>2
<1>5. p \in Seq(Glyphs) /\ Len(p) = d /\ \A i \in 1 .. d : p[i] = Blank
  <2>1. p \in [1 .. d -> Glyphs]
    BY <1>3
  <2>2. p \in Seq(Glyphs)
    <3>1. p \in UNION {[1 .. z -> Glyphs] : z \in Nat}
      BY <1>4, <2>1
    <3>2. Seq(Glyphs) = UNION {[1 .. z -> Glyphs] : z \in Nat}
      BY SeqDef, Zenon
    <3> QED BY <3>1, <3>2
  <2>3. Len(p) \in Nat /\ DOMAIN p = 1 .. Len(p)
    BY <2>2, LenProperties
  <2>4. 1 .. Len(p) = 1 .. d
    BY <2>1, <2>3
  <2> QED BY <1>4, <2>2, <2>3, <2>4
<1>6. /\ s \in Seq(Glyphs) /\ Len(s) = t
      /\ \A i \in 1 .. t : s[i] = IF i <= e THEN lns[n][i] ELSE Blank
  <2>1. /\ s \in Seq(Glyphs) /\ Len(s) = e + d
        /\ \A i \in 1 .. (e + d) : s[i] = IF i <= e THEN lns[n][i] ELSE p[i - e]
    BY <1>2, <1>3, <1>5, ConcatProperties
  <2>2. \A i \in 1 .. (e + d) : ~(i <= e) => i - e \in 1 .. d
    BY <1>2, <1>4
  <2> QED BY <1>4, <1>5, <2>1, <2>2
<1>7. Len(s) \in 0 .. (Cols - 1) /\ after = WithLast(lns, s)
  BY <1>1, <1>2, <1>4, <1>6
<1>8. /\ Fits(after) /\ Len(after) = n /\ after[Len(after)] = s
      /\ \A i \in Int, x \in Nat :
           Glyph(after, i, x) = IF i = n THEN (IF x + 1 <= Len(s) THEN s[x + 1] ELSE Blank)
                                ELSE Glyph(lns, i, x)
  <2>1. Ends(lns, s, WithLast(lns, s))
    BY <1>1, <1>6, <1>7, LastLine
  <2> QED BY <1>7, <2>1 DEF Ends
<1>9. Pos(t, r, after)
  BY <1>6, <1>8 DEF Pos
<1>10. ASSUME NEW x \in 0 .. (Cols - 2), NEW y \in 0 .. (Rows - 1)
       PROVE  scr[x + y * Cols] = Glyph(after, n - r + y, x)
  <2> PICK i : i = n - r + y
    OBVIOUS
  <2>1. x \in Nat /\ y \in Nat /\ r \in Nat /\ i \in Int
    BY <1>1, <1>2
  <2>2. scr[x + y * Cols] = Glyph(lns, i, x)
    BY DEF Scene, Gap
  <2>3. CASE i # n
    BY <1>8, <2>1, <2>2, <2>3
  <2>4. CASE i = n
    <3>1. Glyph(after, i, x) = IF x + 1 <= t THEN s[x + 1] ELSE Blank
      BY <1>6, <1>8, <2>1, <2>4
    <3>2. Glyph(lns, i, x) = IF x + 1 <= e THEN lns[n][x + 1] ELSE Blank
      BY <1>1, <1>2, <2>4 DEF Glyph
    <3>3. /\ x + 1 <= t => x + 1 \in 1 .. t
          /\ x + 1 <= e => x + 1 <= t
      <4>1. t \in Nat /\ e \in Nat /\ e <= t /\ x + 1 \in Nat /\ x + 1 >= 1
        BY <1>2, <1>4, <2>1
      <4> QED BY <4>1
    <3>4. x + 1 \in 1 .. t => s[x + 1] = IF x + 1 <= e THEN lns[n][x + 1] ELSE Blank
      BY <1>6
    <3>5. Glyph(after, i, x) = Glyph(lns, i, x)
      BY <3>1, <3>2, <3>3, <3>4
    <3> QED BY <2>2, <3>5
  <2> QED BY <2>3, <2>4
<1> QED BY <1>1, <1>8, <1>9, <1>10, Exact

\* Columns are small enough for the arithmetic of size_t.
LEMMA SmallCol == \A k \in 0 .. Cols : k % Wrap = k
<1>1. Cols \in Nat /\ Rows \in Nat /\ 1 <= Rows /\ Wrap \in Nat /\ Wrap > Cols * Rows + TabWidth /\ TabWidth \in Nat
  BY TermConstants
<1>2. 1 * Cols <= Rows * Cols
  BY <1>1, Times
<1>3. Rows * Cols = Cols * Rows /\ 1 * Cols = Cols /\ Cols * Rows \in Nat
  BY <1>1
<1>4. \A k \in 0 .. Cols : k \in Nat /\ k < Wrap
  BY <1>1, <1>2, <1>3
<1> QED BY <1>1, <1>4

\* A tab stop lies behind the column it is looked up from.
LEMMA TabSpan == ASSUME NEW e \in 0 .. (Cols - 1) PROVE TabStop(e) \in Nat /\ TabStop(e) > e
<1>1. e \in Nat /\ e < Cols /\ Cols \in Nat /\ Rows \in Nat /\ Rows >= 1 /\ TabWidth \in Nat /\ TabWidth > 0
  BY TermConstants
<1>3. (e + 1) % Wrap = e + 1
  BY <1>1, SmallCol
<1> PICK k : k = ((e + 1) + TabWidth - 1) \div TabWidth
  OBVIOUS
<1>4. k \in Nat /\ TabWidth * k > e
  <2>1. \A a \in Nat, z \in Nat : z > 0 => (a \div z) \in Nat /\ a - z < z * (a \div z)
    OBVIOUS
  <2>2. (e + 1) + TabWidth - 1 \in Nat /\ ((e + 1) + TabWidth - 1) - TabWidth = e
    BY <1>1
  <2> QED BY <1>1, <2>1, <2>2
<1>5. TabWidth * k \in Nat
  BY <1>1, <1>4
<1> QED BY <1>3, <1>4, <1>5 DEF TabStop

\* What a character makes of lines that fit.
LEMMA Typing ==
    ASSUME NEW b, Fits(b), NEW n, n = Len(b)
    PROVE  /\ TypeChar(b, NLc) = Append(b, <<>>)
           /\ TypeChar(b, BSc) = WithLast(b, Front(b[n]))
           /\ TypeChar(b, TABc) = WithLast(b, b[n] \o [i \in 1 .. (TabStop(Len(b[n])) - Len(b[n])) |-> Blank])
BY DEF TypeChar, WithLast, NLc, BSc, TABc

\* What any other character makes of lines.
LEMMA TypingOther ==
    ASSUME NEW b, NEW e, e \notin Control, NEW n, n = Len(b)
    PROVE  TypeChar(b, e) = IF Len(b[n]) = Cols - 1 THEN Append(b, <<e>>) ELSE WithLast(b, Append(b[n], e))
BY DEF TypeChar, WithLast, NLc, BSc, TABc, Control

\* Whether a character begins a line, and the lines it is drawn into.
Breaks(b, ch) == ch = NLc \/ (ch \notin Control /\ Len(b[Len(b)]) = Cols - 1)
Base(b, ch) == IF Breaks(b, ch) THEN Append(b, <<>>) ELSE b

\* A character is drawn at the end of those lines.
LEMMA Basing ==
    ASSUME NEW b, Fits(b), NEW ch, ch \notin Control
    PROVE  TypeChar(b, ch) = WithLast(Base(b, ch), Append(Base(b, ch)[Len(Base(b, ch))], ch))
<1> PICK n : n = Len(b)
  OBVIOUS
<1>1. /\ n \in Nat /\ b \in Seq(Seq(Glyphs))
      /\ TypeChar(b, ch) = IF Len(b[n]) = Cols - 1 THEN Append(b, <<ch>>) ELSE WithLast(b, Append(b[n], ch))
  <2>1. n \in Nat /\ b \in Seq(Seq(Glyphs))
    BY LinesOf DEF Fits
  <2>2. TypeChar(b, ch) = IF Len(b[n]) = Cols - 1 THEN Append(b, <<ch>>) ELSE WithLast(b, Append(b[n], ch))
    BY TypingOther
  <2> QED BY <2>1, <2>2
<1>2. CASE Len(b[n]) # Cols - 1
  <2>1. Base(b, ch) = b
    BY <1>2 DEF Base, Breaks, Control
  <2> QED BY <1>1, <1>2, <2>1
<1>3. CASE Len(b[n]) = Cols - 1
  <2> DEFINE S == Seq(Glyphs \cup {ch})
             open == Append(b, <<>>)
  <2>1. Base(b, ch) = open
    BY <1>3 DEF Base, Breaks
  <2>2. <<>> \in Seq(Glyphs) /\ <<>> \in S /\ <<ch>> \in S
    BY EmptySeq
  <2>3. Append(<<>>, ch) = <<ch>>
    OBVIOUS
  <2>4. b \in Seq(S)
    <3>1. Seq(Glyphs) \subseteq S
      BY SeqMonotonic
    <3> QED BY <1>1, <3>1, SeqMonotonic
  <2>5. open \in Seq(S) /\ Len(open) = n + 1 /\ open[n + 1] = <<>> /\ \A i \in 1 .. n : open[i] = b[i]
    BY <2>2, <2>4, AppendProperties
  <2> PICK full : full = Append(b, <<ch>>)
    OBVIOUS
  <2>6. full \in Seq(S) /\ Len(full) = n + 1 /\ full[n + 1] = <<ch>> /\ \A i \in 1 .. n : full[i] = b[i]
    BY <2>2, <2>4, AppendProperties
  <2> HIDE DEF open, S
  <2> PICK after : after = WithLast(open, <<ch>>)
    OBVIOUS
  <2>7. /\ after \in Seq(S) /\ Len(after) = n + 1
        /\ \A i \in 1 .. (n + 1) : after[i] = IF i = n + 1 THEN <<ch>> ELSE open[i]
    <3>1. n + 1 \in 1 .. Len(open)
      BY <1>1, <2>5
    <3> QED BY <2>2, <2>5, <3>1, ExceptSeq DEF WithLast
  <2>8. \A i \in 1 .. (n + 1) : after[i] = full[i]
    <3>1. \A i \in 1 .. (n + 1) : i # n + 1 => i \in 1 .. n
      BY <1>1
    <3> QED BY <2>5, <2>6, <2>7, <3>1
  <2>9. after = full
    BY <2>6, <2>7, <2>8, SeqEqual
  <2> QED BY <1>1, <1>3, <2>1, <2>3, <2>5, <2>9
<1> QED BY <1>2, <1>3

\* A call of putchar of character p.c, by the step it is at: b are the lines before it
\* and lns those after it.
Rest(tm) == IF tm = "vesa" THEN "cursor" ELSE "none"
First == {"erase", "move", "row", "scroll", "draw"}
Late == {"blank", "save", "cursor", "restore", "return"}

Before(tm, scr, e, r, b, p) ==
    /\ p.pc = "erase" => tm = "vesa" /\ p.c \in Control /\ Scene(scr, e, r, b, "cursor") /\ Pos(e, r, b)
    /\ p.pc = "move" => /\ Scene(scr, e, r, b, IF p.c \in Control THEN "none" ELSE Rest(tm))
                        /\ Pos(e, r, b)
    /\ p.pc = "row" => /\ Breaks(b, p.c) /\ e = 0 /\ Scene(scr, e, r, b, "none") /\ r \in 0 .. (Rows - 1)
                       /\ r = Len(b) - 1 \/ (r = Rows - 1 /\ r < Len(b))
    /\ p.pc = "scroll" => /\ Breaks(b, p.c) /\ e = 0 /\ Scene(scr, e, r, Append(b, <<>>), "none")
                          /\ r \in 1 .. Rows /\ (r = Len(b) \/ (r = Rows /\ r <= Len(b)))
    /\ p.pc = "draw" => /\ p.c \notin Control /\ Scene(scr, e, r, Base(b, p.c), "any")
                        /\ Pos(e, r, Base(b, p.c)) /\ e <= Cols - 2

After(tm, scr, e, r, lns, p) ==
    /\ Pos(e, r, lns)
    /\ Scene(scr, e, r, lns, IF p.pc = "restore" THEN "cursor" ELSE IF p.pc = "return" THEN Rest(tm) ELSE "any")
    /\ p.pc = "blank" => tm = "vga"
    /\ p.pc \in {"save", "cursor", "restore"} => tm = "vesa"

Stage(tm, scr, e, r, lns, p) ==
    /\ p.pc \in First => \E b : Fits(b) /\ lns = TypeChar(b, p.c) /\ Before(tm, scr, e, r, b, p)
    /\ p.pc \in Late => After(tm, scr, e, r, lns, p)

\* Types.
Call == [pc : First \cup Late, c : Chars, clr : {"none", "fg", "cur"}]
TermTypes ==
    /\ term \in {"vesa", "vga"} /\ text \in Seq(Chars) /\ color \in {"none", "fg", "cur"}
    /\ edge \in BOOLEAN /\ wild \in BOOLEAN /\ overlap \in BOOLEAN
    /\ put \in [Writers -> Call \cup {Quiet}]

\* The calls one at a time, and the colour they leave.
Single ==
    /\ \A v, w \in Writers : put[v].pc # "idle" /\ put[w].pc # "idle" => v = w
    /\ \A w \in Writers : put[w].pc \in {"cursor", "restore"} => put[w].clr = "fg"
    /\ (\A w \in Writers : put[w].pc # "restore") => color = "fg"

\* The screen between and within the calls.
Picture ==
    /\ ~wild
    /\ Resting => Scene(cells, col, row, TextLines, Rest(term)) /\ Pos(col, row, TextLines)
    /\ \A w \in Writers : put[w].pc # "idle" => Stage(term, cells, col, row, TextLines, put[w])

TermInv == /\ TermTypes
           /\ ~overlap => Single
           /\ ~overlap /\ ~edge => Picture

\* A call that is under way, and the call after one of its steps.
LEMMA CallFields ==
    ASSUME TermTypes, NEW w \in Writers
    PROVE  /\ Quiet.pc = "idle" /\ Quiet \notin Call /\ (put[w].pc = "idle" => put[w] = Quiet)
           /\ put[w].pc # "idle" => /\ put[w] \in Call /\ put[w].pc \in First \cup Late
                                    /\ put[w].c \in Chars /\ put[w].clr \in {"none", "fg", "cur"}
<1>1. Quiet.pc = "idle" /\ "idle" \notin First \cup Late
  BY DEF Quiet, First, Late
<1>2. put[w] \in Call \cup {Quiet}
  BY DEF TermTypes
<1>3. \A p \in Call : p.pc \in First \cup Late /\ p.c \in Chars /\ p.clr \in {"none", "fg", "cur"}
  BY DEF Call
<1> QED BY <1>1, <1>2, <1>3

\* A step that only moves a call on.
LEMMA Goes ==
    ASSUME TermTypes, NEW w \in Writers, put[w].pc # "idle", NEW l \in First \cup Late, To(w, l)
    PROVE  /\ put' \in [Writers -> Call \cup {Quiet}]
           /\ put'[w].pc = l /\ put'[w].c = put[w].c /\ put'[w].clr = put[w].clr
           /\ \A v \in Writers : v # w => put'[v] = put[v]
<1>1. put[w] \in Call
  BY CallFields
<1>2. put' = [put EXCEPT ![w] = [put[w] EXCEPT !.pc = l]]
  BY DEF To
<1>3. [put[w] EXCEPT !.pc = l] \in Call /\ [put[w] EXCEPT !.pc = l].pc = l
      /\ [put[w] EXCEPT !.pc = l].c = put[w].c /\ [put[w] EXCEPT !.pc = l].clr = put[w].clr
  BY <1>1 DEF Call
<1> QED BY <1>2, <1>3 DEF TermTypes

\* On the screen, putat writes the cell and misses nothing.
LEMMA PutsAt ==
    ASSUME NEW ch, putat(ch, col, row), col \in 0 .. (Cols - 1), row \in 0 .. (Rows - 1)
    PROVE  cells' = Puts(cells, col, row, ch) /\ wild' = wild
<1>1. col < Cols /\ row < Rows
  BY TermConstants
<1> QED BY <1>1 DEF putat, Puts

\* The step of a call keeps its picture.
Kept(w) == Stage(term', cells', col', row', TextLines', put'[w]) /\ ~wild'
Works(w) == TermTypes /\ ~wild /\ Stage(term, cells, col, row, TextLines, put[w])

\* Erasing the cursor before a control character.
LEMMA EraseKept ==
    ASSUME NEW w \in Writers, Works(w), term_erase(w)
    PROVE  Kept(w)
<1>1. /\ put[w].pc = "erase" /\ putat(Blank, col, row) /\ To(w, "move")
      /\ UNCHANGED <<term, col, row, text>>
  BY DEF term_erase
<1>2. PICK b : Fits(b) /\ TextLines = TypeChar(b, put[w].c) /\ Before(term, cells, col, row, b, put[w])
  BY <1>1 DEF Works, Stage, First
<1>3. put[w].c \in Control /\ Scene(cells, col, row, b, "cursor") /\ Pos(col, row, b)
  BY <1>1, <1>2 DEF Before
<1>4. cells' = Puts(cells, col, row, Blank) /\ wild' = wild
  BY <1>1, <1>2, <1>3, Behind, PutsAt
<1>5. Scene(cells', col, row, b, "none")
  BY <1>3, <1>4, Erased
<1>6. put'[w].pc = "move" /\ put'[w].c = put[w].c
  BY <1>1, Goes DEF Works, First
<1>7. Before(term', cells', col', row', b, put'[w])
  BY <1>1, <1>3, <1>5, <1>6 DEF Before
<1>8. TextLines' = TextLines
  BY <1>1 DEF TextLines
<1> QED BY <1>2, <1>4, <1>6, <1>7, <1>8 DEF Kept, Works, Stage, Late

\* The row goes up before its end is compared with the last one.
LEMMA RowKept ==
    ASSUME NEW w \in Writers, Works(w), term_row(w)
    PROVE  Kept(w)
<1>1. /\ put[w].pc = "row" /\ row' = row + 1 /\ To(w, "scroll")
      /\ UNCHANGED <<term, cells, col, text, wild>>
  BY DEF term_row
<1>2. PICK b : Fits(b) /\ TextLines = TypeChar(b, put[w].c) /\ Before(term, cells, col, row, b, put[w])
  BY <1>1 DEF Works, Stage, First
<1>3. /\ Breaks(b, put[w].c) /\ col = 0 /\ Scene(cells, col, row, b, "none") /\ row \in 0 .. (Rows - 1)
      /\ row = Len(b) - 1 \/ (row = Rows - 1 /\ row < Len(b))
  BY <1>1, <1>2 DEF Before
<1>4. Scene(cells, col, row + 1, Append(b, <<>>), "none")
  BY <1>3, Opened
<1>5. put'[w].pc = "scroll" /\ put'[w].c = put[w].c
  BY <1>1, Goes DEF Works, First
<1>6. row' \in 1 .. Rows /\ (row' = Len(b) \/ (row' = Rows /\ row' <= Len(b)))
  BY <1>1, <1>2, <1>3, LinesOf
<1>7. Before(term', cells', col', row', b, put'[w])
  BY <1>1, <1>3, <1>4, <1>5, <1>6 DEF Before
<1>8. TextLines' = TextLines
  BY <1>1 DEF TextLines
<1> QED BY <1>1, <1>2, <1>5, <1>7, <1>8 DEF Kept, Works, Stage, Late

\* The step after the last change of the line: the VESA terminal draws the cursor.
LEMMA TailKept ==
    ASSUME NEW w \in Writers, Works(w), put[w].pc # "idle", To(w, Tailpc),
           UNCHANGED <<term, text>>, ~wild', Pos(col', row', TextLines),
           Scene(cells', col', row', TextLines, IF term = "vesa" THEN "any" ELSE "none")
    PROVE  Kept(w)
<1>1. TextLines' = TextLines
  BY DEF TextLines
<1>2. term \in {"vesa", "vga"}
  BY DEF Works, TermTypes
<1>3. Tailpc \in Late /\ Tailpc = IF term = "vesa" THEN "save" ELSE "return"
  BY DEF Tailpc, Late
<1>4. put'[w].pc = Tailpc
  BY <1>3, Goes DEF Works
<1>5. After(term', cells', col', row', TextLines', put'[w])
  BY <1>1, <1>2, <1>3, <1>4 DEF After, Rest
<1> QED BY <1>3, <1>4, <1>5 DEF Kept, Stage, First

\* The test for the last row, and scrolling.
LEMMA ScrollKept ==
    ASSUME NEW w \in Writers, Works(w), term_scroll(w)
    PROVE  Kept(w)
<1>1. /\ put[w].pc = "scroll"
      /\ IF row = Rows THEN row' = row - 1 /\ cells' = scroll ELSE UNCHANGED <<row, cells>>
      /\ To(w, IF put[w].c = NLc THEN Tailpc ELSE "draw")
      /\ UNCHANGED <<term, col, text, wild>>
  BY DEF term_scroll, AtEnd
<1>2. PICK b : Fits(b) /\ TextLines = TypeChar(b, put[w].c) /\ Before(term, cells, col, row, b, put[w])
  BY <1>1 DEF Works, Stage, First
<1> PICK n : n = Len(b)
  OBVIOUS
<1> PICK open : open = Append(b, <<>>)
  OBVIOUS
<1>3. /\ Breaks(b, put[w].c) /\ col = 0 /\ Scene(cells, col, row, open, "none") /\ row \in 1 .. Rows
      /\ row = n \/ (row = Rows /\ row <= n)
  BY <1>1, <1>2 DEF Before
<1>4. /\ n \in Nat /\ n >= 1 /\ Rows \in Nat /\ Rows >= 1
      /\ Len(open) = n + 1 /\ open[n + 1] = <<>> /\ Len(open[n + 1]) = 0
  <2>1. b \in Seq(Seq(Glyphs)) /\ <<>> \in Seq(Glyphs) /\ Len(<<>>) = 0
    BY <1>2, EmptySeq, Zenon DEF Fits
  <2>2. Len(open) = n + 1 /\ open[n + 1] = <<>>
    BY <2>1, AppendProperties
  <2> QED BY <1>2, <2>1, <2>2, LinesOf, TermConstants
<1>5. /\ Scene(cells', col', row', open, "none") /\ row' \in 0 .. (Rows - 1)
      /\ row' = n \/ (row' = Rows - 1 /\ row' < n + 1)
  <2>1. CASE row = Rows
    <3>1. cells' = [i \in DOMAIN cells |-> IF i + Cols \in DOMAIN cells THEN cells[i + Cols] ELSE Blank]
      BY <1>1, <2>1 DEF scroll
    <3>2. Scene(cells', col, Rows - 1, open, "none")
      BY <1>3, <1>4, <2>1, <3>1, Scrolled
    <3> QED BY <1>1, <1>3, <1>4, <2>1, <3>2
  <2>2. CASE row # Rows
    BY <1>1, <1>3, <1>4, <2>2
  <2> QED BY <2>1, <2>2
<1>6. Pos(col', row', open)
  BY <1>1, <1>3, <1>4, <1>5 DEF Pos
<1>7. CASE put[w].c = NLc
  <2>1. TextLines = open
    BY <1>2, <1>7, Typing
  <2>2. Scene(cells', col', row', TextLines, IF term = "vesa" THEN "any" ELSE "none")
    BY <1>5, <2>1, Loose
  <2>3. ~wild' /\ Pos(col', row', TextLines)
    BY <1>1, <1>6, <2>1 DEF Works
  <2> QED BY <1>1, <1>7, <2>2, <2>3, TailKept
<1>8. CASE put[w].c # NLc
  <2>1. put'[w].pc = "draw" /\ put'[w].c = put[w].c
    BY <1>1, <1>8, Goes DEF Works, First
  <2>2. Base(b, put[w].c) = open /\ put[w].c \notin Control
    BY <1>3, <1>8 DEF Base, Breaks
  <2>3. Scene(cells', col', row', open, "any") /\ col' <= Cols - 2
    BY <1>1, <1>3, <1>5, Loose, TermConstants
  <2>4. Before(term', cells', col', row', b, put'[w])
    BY <1>6, <2>1, <2>2, <2>3 DEF Before
  <2>5. TextLines' = TextLines
    BY <1>1 DEF TextLines
  <2> QED BY <1>1, <1>2, <2>1, <2>4, <2>5 DEF Kept, Works, Stage, Late
<1> QED BY <1>7, <1>8

\* Drawing the character.
LEMMA DrawKept ==
    ASSUME NEW w \in Writers, Works(w), term_draw(w)
    PROVE  Kept(w)
<1>1. /\ put[w].pc = "draw" /\ putat(put[w].c, col, row) /\ col' = (col + 1) % Wrap /\ To(w, Tailpc)
      /\ UNCHANGED <<term, row, text>>
  BY DEF term_draw
<1>2. PICK b : Fits(b) /\ TextLines = TypeChar(b, put[w].c) /\ Before(term, cells, col, row, b, put[w])
  BY <1>1 DEF Works, Stage, First
<1> PICK ch : ch = put[w].c
  OBVIOUS
<1> PICK base : base = Base(b, ch)
  OBVIOUS
<1>3. ch \notin Control /\ Scene(cells, col, row, base, "any") /\ Pos(col, row, base) /\ col <= Cols - 2
  BY <1>1, <1>2 DEF Before
<1>4. Fits(base)
  BY <1>3 DEF Scene
<1>5. col \in 0 .. (Cols - 1) /\ row \in 0 .. (Rows - 1)
  BY <1>3, <1>4, Behind
<1>6. cells' = Puts(cells, col, row, ch) /\ wild' = wild
  BY <1>1, <1>5, PutsAt
<1>7. col' = col + 1
  <2>1. col + 1 \in 0 .. Cols
    BY <1>5, TermConstants
  <2>2. (col + 1) % Wrap = col + 1
    BY <2>1, SmallCol
  <2> QED BY <1>1, <2>2
<1>8. ch \in Glyphs
  BY <1>1, CallFields DEF Works, Glyphs
<1>9. TextLines = WithLast(base, Append(base[Len(base)], ch))
  BY <1>2, <1>3, Basing
<1>10. Scene(cells', col', row', TextLines, "none") /\ Pos(col', row', TextLines)
  BY <1>1, <1>3, <1>6, <1>7, <1>8, <1>9, Drawn
<1>11. Scene(cells', col', row', TextLines, IF term = "vesa" THEN "any" ELSE "none")
  BY <1>10, Loose
<1> QED BY <1>1, <1>6, <1>10, <1>11, TailKept DEF Works

\* The backspace of the VGA terminal blanks the cell it has gone back to.
LEMMA BlankKept ==
    ASSUME NEW w \in Writers, Works(w), term_blank(w)
    PROVE  Kept(w)
<1>1. /\ put[w].pc = "blank" /\ putat(Blank, col, row) /\ To(w, Tailpc)
      /\ UNCHANGED <<term, col, row, text>>
  BY DEF term_blank
<1>2. Pos(col, row, TextLines) /\ Scene(cells, col, row, TextLines, "any")
  BY <1>1 DEF Works, Stage, After, Late
<1>3. Fits(TextLines)
  BY <1>2 DEF Scene
<1>4. cells' = Puts(cells, col, row, Blank) /\ wild' = wild
  BY <1>1, <1>2, <1>3, Behind, PutsAt
<1>5. Scene(cells', col', row', TextLines, "none")
  BY <1>1, <1>2, <1>4, Erased
<1>6. Scene(cells', col', row', TextLines, IF term = "vesa" THEN "any" ELSE "none")
  BY <1>5, Loose
<1> QED BY <1>1, <1>2, <1>4, <1>6, TailKept DEF Works

\* The VESA terminal draws its cursor in its own colour and restores the other one.
LEMMA CursorKept ==
    ASSUME NEW w \in Writers, Works(w), term_save(w) \/ term_cursor(w) \/ term_restore(w)
    PROVE  Kept(w)
<1>1. /\ UNCHANGED <<term, col, row, text>> /\ put[w].pc \in {"save", "cursor", "restore"}
  BY DEF term_save, term_cursor, term_restore
<1>2. TextLines' = TextLines
  BY <1>1 DEF TextLines
<1>3. /\ term = "vesa" /\ Pos(col, row, TextLines)
      /\ Scene(cells, col, row, TextLines, IF put[w].pc = "restore" THEN "cursor" ELSE "any")
  <2>1. After(term, cells, col, row, TextLines, put[w])
    BY <1>1 DEF Works, Stage, Late
  <2> QED BY <1>1, <2>1 DEF After
<1>4. CASE term_save(w)
  <2>1. put[w].pc = "save" /\ cells' = cells /\ wild' = wild
    BY <1>4 DEF term_save
  <2>2. put'[w].pc = "cursor"
    BY <1>4, <2>1, CallFields DEF term_save, Works, TermTypes, Call
  <2>3. After(term', cells', col', row', TextLines', put'[w])
    BY <1>1, <1>2, <1>3, <2>1, <2>2 DEF After
  <2> QED BY <2>1, <2>2, <2>3 DEF Kept, Works, Stage, First
<1>5. CASE term_cursor(w)
  <2>1. put[w].pc = "cursor" /\ putat(Cursor, col, row) /\ To(w, "restore")
    BY <1>5 DEF term_cursor
  <2>2. Fits(TextLines)
    BY <1>3 DEF Scene
  <2>3. cells' = Puts(cells, col, row, Cursor) /\ wild' = wild
    BY <1>3, <2>1, <2>2, Behind, PutsAt
  <2>4. Scene(cells', col, row, TextLines, "cursor")
    BY <1>3, <2>1, <2>3, Cursored
  <2>5. put'[w].pc = "restore"
    BY <2>1, Goes DEF Works, Late
  <2>6. After(term', cells', col', row', TextLines', put'[w])
    BY <1>1, <1>2, <1>3, <2>4, <2>5 DEF After
  <2> QED BY <2>3, <2>5, <2>6 DEF Kept, Works, Stage, First
<1>6. CASE term_restore(w)
  <2>1. put[w].pc = "restore" /\ To(w, "return") /\ cells' = cells /\ wild' = wild
    BY <1>6 DEF term_restore
  <2>2. put'[w].pc = "return"
    BY <2>1, Goes DEF Works, Late
  <2>3. After(term', cells', col', row', TextLines', put'[w])
    BY <1>1, <1>2, <1>3, <2>1, <2>2 DEF After, Rest
  <2> QED BY <2>1, <2>2, <2>3 DEF Kept, Works, Stage, First
<1> QED BY <1>4, <1>5, <1>6

\* Where each kind of character moves the cursor.
LEMMA MoveKept ==
    ASSUME NEW w \in Writers, Works(w), term_move(w), ~edge'
    PROVE  Kept(w)
<1> PICK e : e = put[w].c
  OBVIOUS
<1> PICK x : x = (CASE e = NLc -> 0 [] e = BSc -> (col - 1) % Wrap [] e = TABc -> TabStop(col)
                    [] OTHER -> IF LastCol THEN 0 ELSE col)
  OBVIOUS
<1>1. /\ put[w].pc = "move" /\ col' = x
      /\ edge' = (edge \/ (e = BSc /\ col = 0) \/ (e = TABc /\ x >= Cols))
      /\ To(w, CASE e = NLc -> "row"
                 [] e = BSc -> IF term = "vga" THEN "blank" ELSE Tailpc
                 [] e = TABc -> Tailpc
                 [] OTHER -> IF LastCol THEN "row" ELSE "draw")
      /\ UNCHANGED <<term, cells, row, text, wild>>
  BY DEF term_move
<1>2. PICK b : Fits(b) /\ TextLines = TypeChar(b, e) /\ Before(term, cells, col, row, b, put[w])
  BY <1>1 DEF Works, Stage, First
<1> PICK n : n = Len(b)
  OBVIOUS
<1> PICK gap : gap = IF e \in Control THEN "none" ELSE Rest(term)
  OBVIOUS
<1>3. Scene(cells, col, row, b, gap) /\ Pos(col, row, b)
  BY <1>1, <1>2 DEF Before
<1>4. /\ col \in 0 .. (Cols - 1) /\ row \in 0 .. (Rows - 1) /\ col = Len(b[n])
      /\ row = n - 1 \/ (row = Rows - 1 /\ row < n)
  BY <1>2, <1>3, Behind DEF Pos
<1>5. TextLines' = TextLines
  BY <1>1 DEF TextLines
<1>6. term \in {"vesa", "vga"} /\ ~wild'
  BY <1>1 DEF Works, TermTypes
<1>7. NLc # BSc /\ NLc # TABc /\ BSc # TABc /\ Control = {NLc, BSc, TABc}
  BY DEF NLc, BSc, TABc, Control
<1>8. CASE Breaks(b, e)
  <2>1. x = 0 /\ To(w, "row") /\ (gap = "none" \/ col = Cols - 1)
    <3>1. CASE e = NLc
      BY <1>1, <1>7, <3>1
    <3>2. CASE e # NLc
      <4>1. e \notin Control /\ col = Cols - 1
        BY <1>4, <1>8, <3>2 DEF Breaks
      <4>2. LastCol
        BY <4>1, TermConstants DEF LastCol
      <4> QED BY <1>1, <1>7, <4>1, <4>2
    <3> QED BY <3>1, <3>2
  <2>2. Scene(cells, 0, row, b, "none")
    BY <1>3, <2>1, Moved
  <2>3. put'[w].pc = "row" /\ put'[w].c = e
    BY <1>1, <2>1, Goes DEF Works, First
  <2>4. Before(term', cells', col', row', b, put'[w])
    BY <1>1, <1>4, <1>8, <2>1, <2>2, <2>3 DEF Before
  <2> QED BY <1>2, <1>5, <1>6, <2>3, <2>4 DEF Kept, Stage, First, Late
<1>9. CASE e \notin Control /\ ~Breaks(b, e)
  <2>1. col # Cols - 1
    BY <1>4, <1>9 DEF Breaks
  <2>2. ~LastCol /\ col <= Cols - 2
    <3>1. Cols \in Nat
      BY TermConstants
    <3> QED BY <1>4, <2>1, <3>1 DEF LastCol
  <2>3. x = col /\ To(w, "draw")
    BY <1>1, <1>7, <1>9, <2>2
  <2>4. put'[w].pc = "draw" /\ put'[w].c = e
    BY <1>1, <2>3, Goes DEF Works, First
  <2>5. Base(b, e) = b
    BY <1>9 DEF Base
  <2>6. Scene(cells, col, row, b, "any")
    BY <1>3, Loose
  <2>7. Before(term', cells', col', row', b, put'[w])
    BY <1>1, <1>3, <1>9, <2>2, <2>3, <2>4, <2>5, <2>6 DEF Before
  <2> QED BY <1>2, <1>5, <1>6, <2>4, <2>7 DEF Kept, Stage, First, Late
<1>10. CASE e = BSc
  <2>1. gap = "none" /\ col # 0
    BY <1>1, <1>7, <1>10
  <2>2. x = col - 1
    <3>1. col - 1 \in 0 .. Cols
      BY <1>4, <2>1, TermConstants
    <3>2. (col - 1) % Wrap = col - 1
      BY <3>1, SmallCol
    <3> QED BY <1>7, <1>10, <3>2
  <2>3. TextLines = WithLast(b, Front(b[n]))
    BY <1>2, <1>10, Typing
  <2>4. Scene(cells', col', row', TextLines, "any") /\ Pos(col', row', TextLines)
    BY <1>1, <1>3, <2>1, <2>2, <2>3, Backed
  <2>5. CASE term = "vga"
    <3>1. To(w, "blank")
      BY <1>1, <1>7, <1>10, <2>5
    <3>2. put'[w].pc = "blank"
      BY <1>1, <3>1, Goes DEF Works, Late
    <3>3. After(term', cells', col', row', TextLines', put'[w])
      BY <1>1, <1>5, <2>4, <2>5, <3>2 DEF After
    <3> QED BY <1>6, <3>2, <3>3 DEF Kept, Stage, First
  <2>6. CASE term = "vesa"
    <3>1. To(w, Tailpc)
      BY <1>1, <1>7, <1>10, <2>6
    <3> QED BY <1>1, <1>6, <2>4, <2>6, <3>1, TailKept
  <2> QED BY <1>6, <2>5, <2>6
<1>11. CASE e = TABc
  <2>1. gap = "none" /\ x = TabStop(col) /\ ~(x >= Cols) /\ To(w, Tailpc)
    BY <1>1, <1>7, <1>11
  <2>2. x \in col .. (Cols - 1)
    <3>1. TabStop(col) \in Nat /\ TabStop(col) > col
      BY <1>4, TabSpan
    <3>2. Cols \in Nat
      BY TermConstants
    <3> QED BY <1>4, <2>1, <3>1, <3>2
  <2>3. TextLines = WithLast(b, b[n] \o [i \in 1 .. (x - Len(b[n])) |-> Blank])
    <3>1. TextLines = WithLast(b, b[n] \o [i \in 1 .. (TabStop(Len(b[n])) - Len(b[n])) |-> Blank])
      BY <1>2, <1>11, Typing
    <3> QED BY <1>4, <2>1, <3>1
  <2>4. Scene(cells', col', row', TextLines, "none") /\ Pos(col', row', TextLines)
    BY <1>1, <1>3, <2>1, <2>2, <2>3, Tabbed
  <2>5. Scene(cells', col', row', TextLines, IF term = "vesa" THEN "any" ELSE "none")
    BY <2>4, Loose
  <2> QED BY <1>1, <1>6, <2>1, <2>4, <2>5, TailKept
<1> QED BY <1>7, <1>8, <1>9, <1>10, <1>11 DEF Breaks

\* Every step of a call keeps its picture.
LEMMA StepKept ==
    ASSUME NEW w \in Writers, Works(w), TermStep(w), put'[w].pc # "idle", ~edge'
    PROVE  Kept(w)
<1>1. term_return(w) => put'[w] = Quiet
  BY DEF term_return, Works, TermTypes
<1>2. ~term_return(w)
  BY <1>1, CallFields DEF Works
<1> QED BY <1>2, EraseKept, MoveKept, RowKept, ScrollKept, DrawKept, BlankKept, CursorKept DEF TermStep

\* A step is one of a call that is under way and leaves the other calls alone.
LEMMA StepTypes ==
    ASSUME TermTypes, NEW w \in Writers, TermStep(w)
    PROVE  /\ TermTypes' /\ UNCHANGED <<term, text, overlap>> /\ put[w].pc # "idle" /\ (edge => edge')
           /\ \A v \in Writers : v # w => put'[v] = put[v]
<1>1. UNCHANGED <<term, text, overlap>> /\ put[w].pc # "idle" /\ (edge => edge') /\ edge' \in BOOLEAN
  <2>1. UNCHANGED <<term, text, overlap>>
    BY DEF TermStep, term_erase, term_move, term_row, term_scroll, term_draw, term_blank, term_save,
           term_cursor, term_restore, term_return
  <2>2. put[w].pc # "idle"
    BY DEF TermStep, term_erase, term_move, term_row, term_scroll, term_draw, term_blank, term_save,
           term_cursor, term_restore, term_return
  <2>3. edge' = edge \/ term_move(w)
    BY DEF TermStep, term_erase, term_row, term_scroll, term_draw, term_blank, term_save,
           term_cursor, term_restore, term_return
  <2>4. term_move(w) => (edge => edge') /\ edge' \in BOOLEAN
    BY Zenon DEF term_move, TermTypes
  <2>5. edge \in BOOLEAN
    BY DEF TermTypes
  <2> QED BY <2>1, <2>2, <2>3, <2>4, <2>5
<1>2. wild' \in BOOLEAN
  BY DEF TermStep, term_erase, term_move, term_row, term_scroll, term_draw, term_blank, term_save,
         term_cursor, term_restore, term_return, TermTypes, putat
<1>3. Tailpc \in First \cup Late
  BY DEF Tailpc, First, Late
<1>4. put[w] \in Call /\ put[w].clr \in {"none", "fg", "cur"}
  BY <1>1, CallFields
<1>5. /\ put' \in [Writers -> Call \cup {Quiet}] /\ color' \in {"none", "fg", "cur"}
      /\ \A v \in Writers : v # w => put'[v] = put[v]
  <2>1. CASE \E l \in First \cup Late : To(w, l)
    <3>1. /\ put' \in [Writers -> Call \cup {Quiet}]
          /\ \A v \in Writers : v # w => put'[v] = put[v]
      BY <1>1, <2>1, Goes
    <3>2. color' \in {"none", "fg", "cur"}
      <4>1. color' \in {color, "cur", put[w].clr}
        BY DEF TermStep, term_erase, term_move, term_row, term_scroll, term_draw, term_blank, term_save,
               term_cursor, term_restore, term_return
      <4>2. term_restore(w) => put[w].pc = "restore"
        BY DEF term_restore
      <4> QED BY <1>4, <4>1 DEF TermTypes
    <3> QED BY <3>1, <3>2
  <2>2. CASE term_save(w)
    <3>1. put' = [put EXCEPT ![w] = [put[w] EXCEPT !.clr = color, !.pc = "cursor"]] /\ color' = color
      BY <2>2 DEF term_save, saved
    <3>2. [put[w] EXCEPT !.clr = color, !.pc = "cursor"] \in Call
      BY <1>4 DEF Call, Late, TermTypes
    <3> QED BY <3>1, <3>2 DEF TermTypes
  <2>3. CASE term_return(w)
    BY <2>3 DEF term_return, TermTypes
  <2>4. (\E l \in First \cup Late : To(w, l)) \/ term_save(w) \/ term_return(w)
    <3>1. term_erase(w) => To(w, "move")
      BY DEF term_erase
    <3>2. term_move(w) => To(w, "row") \/ To(w, "blank") \/ To(w, Tailpc) \/ To(w, "draw")
      BY DEF term_move, NLc, BSc, TABc
    <3>3. term_row(w) => To(w, "scroll")
      BY DEF term_row
    <3>4. term_scroll(w) => To(w, Tailpc) \/ To(w, "draw")
      BY DEF term_scroll
    <3>5. term_draw(w) \/ term_blank(w) => To(w, Tailpc)
      BY DEF term_draw, term_blank
    <3>6. term_cursor(w) => To(w, "restore")
      BY DEF term_cursor
    <3>7. term_restore(w) => To(w, "return")
      BY DEF term_restore
    <3>8. {"move", "row", "blank", "draw", "scroll", "restore", "return"} \subseteq First \cup Late
      BY DEF First, Late
    <3> QED BY <1>3, <3>1, <3>2, <3>3, <3>4, <3>5, <3>6, <3>7, <3>8 DEF TermStep
  <2> QED BY <2>1, <2>2, <2>3, <2>4
<1> QED BY <1>1, <1>2, <1>5 DEF TermTypes

\* One call at a time keeps the colour.
LEMMA StepSingle ==
    ASSUME TermTypes, Single, NEW w \in Writers, TermStep(w)
    PROVE  Single'
<1>1. /\ put[w].pc # "idle" /\ \A v \in Writers : v # w => put'[v] = put[v]
  BY StepTypes
<1>2. \A v \in Writers : v # w => put[v].pc = "idle"
  BY <1>1 DEF Single
<1>3. \A v \in Writers : v # w => put'[v].pc = "idle"
  BY <1>1, <1>2
<1>4. put[w] \in Call
  BY <1>1, CallFields
<1>5. Tailpc \in {"save", "return"} /\ {"save", "return", "move", "row", "blank", "draw", "scroll"} \subseteq First \cup Late
  BY DEF Tailpc, First, Late
<1>6. CASE \E l \in {"save", "return", "move", "row", "blank", "draw", "scroll"} : To(w, l) /\ UNCHANGED color /\ put[w].pc # "restore"
  <2>1. PICK l \in {"save", "return", "move", "row", "blank", "draw", "scroll"} : To(w, l) /\ UNCHANGED color /\ put[w].pc # "restore"
    BY <1>6
  <2>2. put'[w].pc = l
    BY <1>1, <1>5, <2>1, Goes
  <2>3. color = "fg"
    BY <1>2, <2>1 DEF Single
  <2> QED BY <1>3, <2>1, <2>2, <2>3 DEF Single
<1>7. CASE term_save(w)
  <2>1. put' = [put EXCEPT ![w] = [put[w] EXCEPT !.clr = color, !.pc = "cursor"]] /\ color' = color /\ put[w].pc = "save"
    BY <1>7 DEF term_save, saved
  <2>2. put'[w].pc = "cursor" /\ put'[w].clr = color
    BY <1>4, <2>1 DEF Call, TermTypes
  <2>3. color = "fg"
    BY <1>2, <2>1 DEF Single
  <2> QED BY <1>3, <2>1, <2>2, <2>3 DEF Single
<1>8. CASE term_cursor(w)
  <2>1. put[w].pc = "cursor" /\ To(w, "restore") /\ "restore" \in First \cup Late
    BY <1>8 DEF term_cursor, Late
  <2>2. put'[w].pc = "restore" /\ put'[w].clr = put[w].clr
    BY <2>1, Goes
  <2>3. put[w].clr = "fg"
    BY <2>1 DEF Single
  <2> QED BY <1>3, <2>2, <2>3 DEF Single
<1>9. CASE term_restore(w)
  <2>1. put[w].pc = "restore" /\ To(w, "return") /\ color' = put[w].clr
    BY <1>9 DEF term_restore
  <2>2. put'[w].pc = "return"
    BY <1>5, <2>1, Goes
  <2>3. put[w].clr = "fg"
    BY <2>1 DEF Single
  <2> QED BY <1>3, <2>1, <2>2, <2>3 DEF Single
<1>10. CASE term_return(w)
  <2>1. put[w].pc = "return" /\ put'[w] = Quiet /\ color' = color
    BY <1>10 DEF term_return, TermTypes
  <2>2. put'[w].pc = "idle"
    BY <2>1 DEF Quiet
  <2>3. color = "fg"
    BY <1>2, <2>1 DEF Single
  <2> QED BY <1>3, <2>1, <2>2, <2>3 DEF Single
<1>11. \/ \E l \in {"save", "return", "move", "row", "blank", "draw", "scroll"} :
             To(w, l) /\ UNCHANGED color /\ put[w].pc # "restore"
       \/ term_save(w) \/ term_cursor(w) \/ term_restore(w) \/ term_return(w)
  <2>1. term_erase(w) => To(w, "move") /\ UNCHANGED color /\ put[w].pc # "restore"
    BY DEF term_erase
  <2>2. term_move(w) => /\ To(w, "row") \/ To(w, "blank") \/ To(w, Tailpc) \/ To(w, "draw")
                        /\ UNCHANGED color /\ put[w].pc # "restore"
    BY DEF term_move, NLc, BSc, TABc
  <2>3. term_row(w) => To(w, "scroll") /\ UNCHANGED color /\ put[w].pc # "restore"
    BY DEF term_row
  <2>4. term_scroll(w) => (To(w, Tailpc) \/ To(w, "draw")) /\ UNCHANGED color /\ put[w].pc # "restore"
    BY DEF term_scroll
  <2>5. term_draw(w) \/ term_blank(w) => To(w, Tailpc) /\ UNCHANGED color /\ put[w].pc # "restore"
    BY DEF term_draw, term_blank
  <2> QED BY <1>5, <2>1, <2>2, <2>3, <2>4, <2>5 DEF TermStep
<1> QED BY <1>6, <1>7, <1>8, <1>9, <1>10, <1>11

\* Only its last step ends a call.
LEMMA OnlyReturns ==
    ASSUME TermTypes, NEW w \in Writers, TermStep(w), put'[w].pc = "idle", \A l \in First \cup Late : ~To(w, l)
    PROVE  term_return(w)
<1>1. Tailpc \in First \cup Late
  BY DEF Tailpc, First, Late
<1>2. {"move", "row", "blank", "draw", "scroll", "restore", "return"} \subseteq First \cup Late
  BY DEF First, Late
<1>3. ~term_erase(w) /\ ~term_row(w) /\ ~term_draw(w) /\ ~term_blank(w) /\ ~term_cursor(w) /\ ~term_restore(w)
  BY <1>1, <1>2 DEF term_erase, term_row, term_draw, term_blank, term_cursor, term_restore
<1>4. ~term_move(w)
  <2>1. term_move(w) => To(w, "row") \/ To(w, "blank") \/ To(w, Tailpc) \/ To(w, "draw")
    BY DEF term_move, NLc, BSc, TABc
  <2> QED BY <1>1, <1>2, <2>1
<1>5. ~term_scroll(w)
  BY <1>1, <1>2 DEF term_scroll
<1>6. ~term_save(w)
  <2> SUFFICES ASSUME term_save(w) PROVE FALSE
    OBVIOUS
  <2>1. put' = [put EXCEPT ![w] = [put[w] EXCEPT !.clr = color, !.pc = "cursor"]] /\ put[w].pc = "save"
    BY DEF term_save, saved
  <2>2. put[w] \in Call
    BY <2>1, CallFields
  <2>3. [put[w] EXCEPT !.clr = color, !.pc = "cursor"].pc = "cursor"
    BY <2>2 DEF Call
  <2> QED BY <2>1, <2>3 DEF TermTypes
<1> QED BY <1>3, <1>4, <1>5, <1>6 DEF TermStep

\* A call keeps the invariant.
LEMMA CallKept ==
    ASSUME TermInv, NEW w \in Writers, TermStep(w)
    PROVE  TermInv'
<1>1. /\ TermTypes /\ TermTypes' /\ UNCHANGED <<term, text, overlap>> /\ put[w].pc # "idle" /\ (edge => edge')
      /\ \A v \in Writers : v # w => put'[v] = put[v]
  BY StepTypes DEF TermInv
<1>2. ~overlap' => Single /\ Single'
  BY <1>1, StepSingle DEF TermInv
<1>3. ASSUME ~overlap', ~edge'
      PROVE  Picture'
  <2>1. ~overlap /\ ~edge /\ Picture /\ Single
    BY <1>1, <1>3 DEF TermInv
  <2>2. Works(w)
    BY <1>1, <2>1 DEF Works, Picture
  <2>3. \A v \in Writers : v # w => put'[v].pc = "idle"
    BY <1>1, <2>1 DEF Single
  <2>4. CASE put'[w].pc # "idle"
    <3>1. Kept(w)
      BY <1>3, <2>2, <2>4, StepKept
    <3>2. ~Resting'
      BY <2>4 DEF Resting
    <3> QED BY <2>3, <3>1, <3>2 DEF Picture, Kept
  <2>5. CASE put'[w].pc = "idle"
    <3>1. term_return(w)
      <4>1. \A l \in First \cup Late : ~To(w, l)
        BY <1>1, <2>5, Goes DEF First, Late
      <4> QED BY <1>1, <2>5, <4>1, OnlyReturns
    <3>2. put[w].pc = "return" /\ UNCHANGED <<cells, col, row, text, wild, term>>
      BY <3>1 DEF term_return
    <3>3. After(term, cells, col, row, TextLines, put[w])
      BY <2>2, <3>2 DEF Works, Stage, Late
    <3>4. Scene(cells, col, row, TextLines, Rest(term)) /\ Pos(col, row, TextLines)
      BY <3>2, <3>3 DEF After
    <3>5. TextLines' = TextLines /\ Rest(term)' = Rest(term)
      BY <3>2 DEF TextLines, Rest
    <3>6. Scene(cells, col, row, TextLines, Rest(term))' /\ Pos(col, row, TextLines)'
      BY <3>2, <3>4, <3>5
    <3>7. wild' = wild /\ ~wild
      BY <2>1, <3>2 DEF Picture
    <3> QED BY <2>3, <2>5, <3>6, <3>7 DEF Picture
  <2> QED BY <2>4, <2>5
<1> QED BY <1>1, <1>2, <1>3 DEF TermInv

\* An empty screen shows no text.
LEMMA Cleared ==
    /\ Scene(Screen, 0, 0, Typed(<<>>), Rest("vesa")) /\ Scene(Screen, 0, 0, Typed(<<>>), Rest("vga"))
    /\ Pos(0, 0, Typed(<<>>))
<1> DEFINE none == <<<<>>>>
<1>1. Typed(<<>>) = none
  BY TypedEmpty
<1>2. <<>> \in Seq(Glyphs) /\ Len(<<>>) = 0
  BY EmptySeq, Zenon
<1>3. none \in Seq(Seq(Glyphs)) /\ Len(none) = 1 /\ none[1] = <<>>
  BY <1>2
<1>4. Fits(none)
  <2>1. \A i \in 1 .. Len(none) : i = 1
    BY <1>3
  <2>2. 0 \in 0 .. (Cols - 1)
    BY TermConstants
  <2> QED BY <1>2, <1>3, <2>1, <2>2 DEF Fits
<1> HIDE DEF none
<1>5. \A i, x : x \in 0 .. (Cols - 2) => Glyph(none, i, x) = Blank
  BY <1>2, <1>3, TermConstants DEF Glyph
<1>6. \A x \in 0 .. (Cols - 2), y \in 0 .. (Rows - 1) : Screen[x + y * Cols] = Blank
  <2> SUFFICES ASSUME NEW x \in 0 .. (Cols - 2), NEW y \in 0 .. (Rows - 1)
               PROVE  Screen[x + y * Cols] = Blank
    OBVIOUS
  <2>1. x + y * Cols \in 0 .. (Cols * Rows - 1)
    BY CellOf, TermConstants
  <2> QED BY <2>1 DEF Screen
<1>7. DOMAIN Screen = 0 .. (Cols * Rows - 1)
  BY DEF Screen
<1>8. Scene(Screen, 0, 0, none, "none")
  BY <1>4, <1>5, <1>6, <1>7 DEF Scene
<1>9. Pos(0, 0, none)
  BY <1>2, <1>3, TermConstants DEF Pos
<1> QED BY <1>1, <1>8, <1>9, Loose

\* The types of the screen the terminals start with, and of one that is cleared.
LEMMA StartsRight == TermInit(Terms) => TermInv
<1> SUFFICES ASSUME TermInit(Terms) PROVE TermInv
  OBVIOUS
<1>1. /\ term \in {"vesa", "vga"} /\ cells = Screen /\ col = 0 /\ row = 0 /\ color = "fg" /\ text = <<>>
      /\ edge = FALSE /\ wild = FALSE /\ overlap = FALSE /\ put = [w \in Writers |-> Quiet]
  BY TermConstants DEF TermInit
<1>2. \A w \in Writers : put[w] = Quiet /\ put[w].pc = "idle"
  BY <1>1 DEF Quiet
<1>3. TermTypes
  <2>1. text \in Seq(Chars)
    BY <1>1, EmptySeq
  <2> QED BY <1>1, <2>1 DEF TermTypes
<1>4. Single
  BY <1>1, <1>2 DEF Single
<1>5. Picture
  <2>1. Scene(cells, col, row, TextLines, Rest(term)) /\ Pos(col, row, TextLines)
    BY <1>1, Cleared DEF TextLines
  <2> QED BY <1>1, <1>2, <2>1 DEF Picture
<1> QED BY <1>3, <1>4, <1>5 DEF TermInv

\* Clearing the screen keeps the invariant.
LEMMA ClearKept ==
    ASSUME TermInv, NEW w \in Writers, term_clear(w)
    PROVE  TermInv'
<1>1. /\ cells' = Screen /\ col' = 0 /\ row' = 0 /\ text' = <<>> /\ put[w].pc = "idle"
      /\ overlap' = (overlap \/ ~Resting)
      /\ term' = term /\ color' = color /\ put' = put /\ edge' = edge /\ wild' = wild
  BY DEF term_clear
<1>2. TermTypes /\ TermTypes'
  <2>1. text' \in Seq(Chars)
    BY <1>1, EmptySeq
  <2>2. overlap' \in BOOLEAN
    BY <1>1 DEF TermInv, TermTypes
  <2> QED BY <1>1, <2>1, <2>2 DEF TermInv, TermTypes
<1>3. ~overlap' => Single'
  BY <1>1 DEF TermInv, Single
<1>4. ASSUME ~overlap', ~edge'
      PROVE  Picture'
  <2>1. Resting /\ ~overlap /\ ~edge /\ ~wild
    BY <1>1, <1>4 DEF TermInv, Picture
  <2>2. term' \in {"vesa", "vga"}
    BY <1>2 DEF TermTypes
  <2>3. Scene(Screen, 0, 0, Typed(<<>>), Rest(term')) /\ Pos(0, 0, Typed(<<>>))
    BY <2>2, Cleared
  <2>4. (Scene(cells, col, row, TextLines, Rest(term)) /\ Pos(col, row, TextLines))'
    BY <1>1, <2>3 DEF TextLines
  <2>5. \A v \in Writers : put'[v].pc = "idle"
    BY <1>1, <2>1 DEF Resting
  <2> QED BY <1>1, <2>1, <2>4, <2>5 DEF Picture
<1> QED BY <1>2, <1>3, <1>4 DEF TermInv

\* A new call keeps the invariant.
LEMMA PutKept ==
    ASSUME TermInv, NEW w \in Writers, NEW e \in Chars, putchar(w, e)
    PROVE  TermInv'
<1> PICK p : p = [pc |-> IF term = "vesa" /\ e \in Control THEN "erase" ELSE "move", c |-> e, clr |-> "none"]
  OBVIOUS
<1>1. /\ put' = [put EXCEPT ![w] = p] /\ text' = Append(text, e) /\ put[w].pc = "idle"
      /\ overlap' = (overlap \/ \E o \in Writers : put[o].pc # "idle")
      /\ term' = term /\ cells' = cells /\ col' = col /\ row' = row /\ color' = color
      /\ edge' = edge /\ wild' = wild
  BY DEF putchar
<1>2. p \in Call /\ p.c = e /\ p.pc = (IF term = "vesa" /\ e \in Control THEN "erase" ELSE "move")
  BY DEF Call, First, Late
<1>3. TermTypes /\ TermTypes'
  <2>1. text' \in Seq(Chars)
    BY <1>1, AppendProperties DEF TermInv, TermTypes
  <2>2. put' \in [Writers -> Call \cup {Quiet}]
    BY <1>1, <1>2 DEF TermInv, TermTypes
  <2>3. overlap' \in BOOLEAN
    BY <1>1 DEF TermInv, TermTypes
  <2> QED BY <1>1, <2>1, <2>2, <2>3 DEF TermInv, TermTypes
<1>4. put'[w] = p /\ \A v \in Writers : v # w => put'[v] = put[v]
  BY <1>1, <1>3 DEF TermTypes
<1>5. ASSUME ~overlap'
      PROVE  ~overlap /\ Resting /\ \A v \in Writers : v # w => put'[v].pc = "idle"
  BY <1>1, <1>4, <1>5 DEF Resting
<1>6. p.pc \in {"erase", "move"}
  BY <1>2
<1>7. ASSUME ~overlap'
      PROVE  Single'
  <2>1. color = "fg"
    <3>1. \A v \in Writers : put[v].pc # "restore"
      BY <1>5, <1>7 DEF Resting
    <3> QED BY <1>5, <1>7, <3>1 DEF TermInv, Single
  <2> QED BY <1>1, <1>4, <1>5, <1>6, <1>7, <2>1 DEF Single
<1>8. ASSUME ~overlap', ~edge'
      PROVE  Picture'
  <2>1. Scene(cells, col, row, TextLines, Rest(term)) /\ Pos(col, row, TextLines) /\ ~wild
    BY <1>1, <1>5, <1>8 DEF TermInv, Picture
  <2>2. TextLines' = TypeChar(TextLines, e)
    BY <1>1, <1>3, TypedAppend DEF TextLines, TermTypes
  <2> PICK b : b = TextLines
    OBVIOUS
  <2>3. Before(term, cells, col, row, b, p)
    <3>1. CASE term = "vesa" /\ e \in Control
      <4>1. p.pc = "erase" /\ Scene(cells, col, row, b, "cursor")
        BY <1>2, <2>1, <3>1 DEF Rest
      <4> QED BY <1>2, <2>1, <3>1, <4>1 DEF Before
    <3>2. CASE ~(term = "vesa" /\ e \in Control)
      <4>1. p.pc = "move"
        BY <1>2, <3>2
      <4>2. Scene(cells, col, row, b, IF p.c \in Control THEN "none" ELSE Rest(term))
        <5>1. e \in Control => Rest(term) = "none"
          BY <3>2 DEF Rest
        <5> QED BY <1>2, <2>1, <5>1
      <4> QED BY <2>1, <4>1, <4>2 DEF Before
    <3> QED BY <3>1, <3>2
  <2>4. Fits(b)
    BY <2>1 DEF Scene
  <2>5. Stage(term, cells, col, row, TypeChar(b, e), p)
    <3>1. p.pc \notin Late
      BY <1>6 DEF Late
    <3> QED BY <1>2, <2>3, <2>4, <3>1 DEF Stage
  <2>6. Stage(term', cells', col', row', TextLines', put'[w])
    BY <1>1, <1>4, <2>2, <2>5
  <2>7. put'[w].pc # "idle"
    BY <1>4, <1>6
  <2>8. ~Resting'
    BY <2>7 DEF Resting
  <2>9. ~wild'
    BY <1>1, <2>1
  <2> QED BY <1>5, <1>8, <2>6, <2>8, <2>9 DEF Picture
<1> QED BY <1>3, <1>7, <1>8 DEF TermInv

\* The invariant is what the property asks for.
LEMMA ShownRight == TermInv => ScreenRight
<1> SUFFICES ASSUME TermInv PROVE ScreenRight
  OBVIOUS
<1>1. OnScreen
  BY DEF OnScreen, TermInv, Picture
<1>2. ColorKept
  <2> SUFFICES ASSUME Resting, ~overlap PROVE color = "fg"
    BY DEF ColorKept
  <2>1. \A w \in Writers : put[w].pc # "restore"
    BY DEF Resting
  <2> QED BY <2>1 DEF TermInv, Single
<1>3. ScreenShows
  <2> SUFFICES ASSUME Resting, ~overlap, ~edge
               PROVE  LET n == Len(TextLines)
                          top == IF n > Rows THEN n - Rows ELSE 0
                          shown(x, y) == IF top + y + 1 <= n /\ x + 1 <= Len(TextLines[top + y + 1])
                                         THEN TextLines[top + y + 1][x + 1] ELSE Blank
                      IN  /\ col = Len(TextLines[n]) /\ row = n - 1 - top
                          /\ \A x \in 0 .. Cols - 2, y \in 0 .. Rows - 1 :
                               cells[x + y * Cols] = shown(x, y)
                                  \/ (term = "vesa" /\ cells[x + y * Cols] = Cursor /\ x = col /\ y = row)
    BY DEF ScreenShows
  <2> DEFINE n == Len(TextLines)
             top == IF n > Rows THEN n - Rows ELSE 0
             shown(x, y) == IF top + y + 1 <= n /\ x + 1 <= Len(TextLines[top + y + 1])
                            THEN TextLines[top + y + 1][x + 1] ELSE Blank
  <2>1. Scene(cells, col, row, TextLines, Rest(term)) /\ Pos(col, row, TextLines)
    BY DEF TermInv, Picture
  <2>2. n \in Nat /\ n >= 1 /\ Rows \in Nat /\ Rows >= 1
    BY <2>1, LinesOf, TermConstants DEF Scene
  <2>3. col = Len(TextLines[n]) /\ row \in 0 .. (Rows - 1) /\ (row = n - 1 \/ (row = Rows - 1 /\ row < n))
    BY <2>1 DEF Pos
  <2>4. top \in Nat /\ row = n - 1 - top /\ \A y : y \in 0 .. (Rows - 1) => n - row + y = top + y + 1 /\ top + y + 1 \in Nat \ {0}
    <3> HIDE DEF n
    <3> QED BY <2>2, <2>3
  <2>5. ASSUME NEW x \in 0 .. (Cols - 2), NEW y \in 0 .. (Rows - 1)
        PROVE  cells[x + y * Cols] = shown(x, y)
                 \/ (term = "vesa" /\ cells[x + y * Cols] = Cursor /\ x = col /\ y = row)
    <3>1. n - row + y = top + y + 1 /\ top + y + 1 \in Nat \ {0}
      BY <2>4
    <3>2. top + y + 1 <= n <=> top + y + 1 \in 1 .. n
      <4> HIDE DEF n, top
      <4> QED BY <2>2, <3>1
    <3>3. shown(x, y) = Glyph(TextLines, top + y + 1, x)
      BY <3>2, Zenon DEF Glyph
    <3>4. cells[x + y * Cols] = Glyph(TextLines, n - row + y, x)
            \/ (x = col /\ y = row /\ Gap(Rest(term), cells[x + y * Cols]))
      BY <2>1 DEF Scene
    <3>5. Gap(Rest(term), cells[x + y * Cols]) => term = "vesa" /\ cells[x + y * Cols] = Cursor
      BY DEF Gap, Rest
    <3> HIDE DEF n, top, shown
    <3> QED BY <3>1, <3>3, <3>4, <3>5
  <2> QED BY <2>3, <2>4, <2>5
<1> QED BY <1>1, <1>2, <1>3 DEF ScreenRight

\* Of the two terminals, for every size of the screen, every distance of the tab stops
\* and every number of tasks that print: the calls of vesa_term_putchar and
\* vga_term_putchar leave the last lines of the text on the screen, the cursor behind
\* them and the colour as it was, and write inside the screen, but for the three
\* exceptions that ScreenRight names.
THEOREM ScreenStaysRight == TermSpec => []ScreenRight
<1>1. TermInv /\ [TermNext]_termVars => TermInv'
  <2> SUFFICES ASSUME TermInv, [TermNext]_termVars PROVE TermInv'
    OBVIOUS
  <2>1. CASE UNCHANGED termVars
    <3>1. /\ term' = term /\ cells' = cells /\ col' = col /\ row' = row /\ color' = color /\ put' = put
          /\ text' = text /\ edge' = edge /\ wild' = wild /\ overlap' = overlap
      BY <2>1 DEF termVars
    <3>2. TextLines' = TextLines /\ Resting' = Resting
      BY <3>1 DEF TextLines, Resting
    <3>3. (TermTypes' <=> TermTypes) /\ (Single' <=> Single)
      BY <3>1 DEF TermTypes, Single
    <3>4. Picture => Picture'
      BY <3>1, <3>2 DEF Picture
    <3> QED BY <3>1, <3>3, <3>4 DEF TermInv
  <2>2. ASSUME NEW w \in Writers, TermStep(w) PROVE TermInv'
    BY <2>2, CallKept
  <2>3. ASSUME NEW w \in Writers, term_clear(w) PROVE TermInv'
    BY <2>3, ClearKept
  <2>4. ASSUME NEW w \in Writers, NEW e \in Chars, putchar(w, e) PROVE TermInv'
    BY <2>4, PutKept
  <2> QED BY <2>1, <2>2, <2>3, <2>4 DEF TermNext
<1> QED BY <1>1, StartsRight, ShownRight, PTL DEF TermSpec
=============================================================================
