-------------------------------- MODULE Ata --------------------------------
(***************************************************************************)
(* The ATA driver (kernel/drivers/ata.c): the probe of the four drives at  *)
(* boot, and polled reads.  Reads are made by tasks that load a program,   *)
(* which can be interrupted, and by sys_read, which disables interrupts;   *)
(* the driver has no lock.  The drive is modelled from how the driver uses *)
(* it: BSY while it works, DRQ while it has a sector for the host, ERR     *)
(* with neither.  A sector is one word of two bytes (512 bytes); the byte  *)
(* at offset k of the drive has the value k.                               *)
(***************************************************************************)
EXTENDS Integers, Sequences, FiniteSets, SequencesExt

CONSTANTS Readers,     \* tasks that read from the drive
          Cli,         \* those of them that do so with interrupts disabled
          Requests,    \* the <<offset, size>> they ask for, in bytes
          Sectors,     \* the size of the drive
          CountMod,    \* the range of the sector count register (256)
          Kinds,       \* what may be connected: "none", "float", "ata", "atapi"
          Drives,      \* the drives probed, in that order (0 .. 3)
          Slowest,     \* bound on the polls a drive takes to answer
          Timeout,     \* polls until a drive is given up (20)
          ResetAt      \* the value of the countdown at which it is reset (10)

Bytes == 2   \* in a sector

ASSUME AtaConstants ==
    /\ \E last \in 0 .. 3 : Drives = 0 .. last
    /\ Cli \subseteq Readers /\ Requests \subseteq Nat \X (Nat \ {0})
    /\ Sectors \in Nat /\ CountMod \in Nat \ {0} /\ Slowest \in Nat
    /\ ResetAt \in Nat \ {0} /\ Timeout \in Nat /\ ResetAt < Timeout

VARIABLES bus,      \* [kind, polls]: what is connected, and when it answers IDENTIFY
          probe,    \* [drive, pc, timeout, polls]: where ATA_init is
          present,  \* the drives ATA_init has found
          dev,      \* [st, lba, left]: the drive
          regs,     \* [lba, count]: its registers
          call,     \* [Readers -> ...]: the calls of ATA_read_b
          off,      \* the task that has disabled interrupts, or none
          mixed     \* ghost: two reads have overlapped

ataVars == <<bus, probe, present, dev, regs, call, off, mixed>>
readVars == <<dev, regs, call, off, mixed>>
probeVars == <<bus, probe, present>>
None == "none"

----------------------------------------------------------------------------
(* ATA_init: drives 0 and 1 are on the first channel, 2 and 3 on the second *)

Here == bus[probe.drive]
NextDrive(d) == [drive |-> d + 1, pc |-> "reset", timeout |-> Timeout, polls |-> 0]

\* Soft reset, then wait for BSY to clear: a channel without drives may float high
ata_select ==
    /\ probe.drive \in Drives /\ probe.pc = "reset" /\ Here.kind # "float"
    /\ probe' = [probe EXCEPT !.pc = "identify"]
    /\ UNCHANGED <<bus, present, readVars>>

ata_identify ==
    /\ probe.pc = "identify"
    /\ probe' = IF Here.kind = "none" THEN NextDrive(probe.drive) ELSE [probe EXCEPT !.pc = "poll"]
    /\ UNCHANGED <<bus, present, readVars>>

\* IDENTIFY is given up by a soft reset and not sent again
Answered == probe.timeout > ResetAt /\ probe.polls >= Here.polls

ata_timeout(left) ==
    IF left = 0 THEN NextDrive(probe.drive) ELSE [probe EXCEPT !.timeout = left, !.polls = @ + 1]

\* one round of the loop; an error means a packet device, which is left alone
ata_poll ==
    /\ probe.pc = "poll"
    /\ IF Answered
       THEN /\ probe' = NextDrive(probe.drive)
            /\ present' = present \cup (IF Here.kind = "ata" THEN {probe.drive} ELSE {})
       ELSE /\ probe' = ata_timeout(probe.timeout - 1)
            /\ UNCHANGED present
    /\ UNCHANGED <<bus, readVars>>

AtaProbe == ata_select \/ ata_identify \/ ata_poll

----------------------------------------------------------------------------
(* Reads *)

\* The sectors that hold the bytes offset .. offset + size: one too many when
\* the bytes asked for end with a sector
ATA_read_b(t, offset, size) ==
    LET start == offset \div Bytes
        n == (offset + size) \div Bytes - start + 1
    IN  /\ call[t].pc = "idle" /\ off = None
        /\ off' = IF t \in Cli THEN t ELSE None
        /\ call' = [call EXCEPT ![t] = [pc |-> "prepare", offset |-> offset, size |-> size,
                                    start |-> start, n |-> n, buf |-> <<>>]]
        /\ mixed' = (mixed \/ \E s \in Readers : call[s].pc \notin {"idle", "done"})
        /\ UNCHANGED <<dev, regs, probeVars>>

Runs(t) == off \in {None, t}

\* mutant: the register holds one less than the count
ATA_PIO_prepare_variant(t) ==
    /\ Runs(t) /\ call[t].pc = "prepare" /\ dev.st \notin {"busy", "drq"}
    /\ regs' = [lba |-> call[t].start, count |-> (call[t].n - 1) % CountMod]
    /\ call' = [call EXCEPT ![t].pc = "command"]
    /\ UNCHANGED <<dev, off, mixed, probeVars>>

\* ATA_PIO_prepare: poll until the drive is idle, then set its registers
ATA_PIO_prepare(t) ==
    /\ Runs(t) /\ call[t].pc = "prepare" /\ dev.st \notin {"busy", "drq"}
    /\ regs' = [lba |-> call[t].start, count |-> call[t].n % CountMod]
    /\ call' = [call EXCEPT ![t].pc = "command"]
    /\ UNCHANGED <<dev, off, mixed, probeVars>>

\* a count of zero stands for the whole range
AtaCommand(t) ==
    /\ Runs(t) /\ call[t].pc = "command"
    /\ dev' = [st |-> "busy", lba |-> regs.lba, left |-> IF regs.count = 0 THEN CountMod ELSE regs.count]
    /\ call' = [call EXCEPT ![t].pc = "check"]
    /\ UNCHANGED <<regs, off, mixed, probeVars>>

\* what the caller gets: the bytes asked for, out of the sectors read
Finish(t, buf) ==
    /\ call' = [call EXCEPT ![t].pc = "done", ![t].buf = buf]
    /\ off' = IF off = t THEN None ELSE off

\* Only an abort that is there already ends the call; ATA_read_b does not look
\* at the result and hands out what was on the stack.
ATA_check_for_errors(t) ==
    /\ Runs(t) /\ call[t].pc = "check"
    /\ IF dev.st = "abrt" THEN Finish(t, "garbage")
       ELSE call' = [call EXCEPT ![t].pc = "data"] /\ UNCHANGED off
    /\ UNCHANGED <<dev, regs, mixed, probeVars>>

Word(lba) == <<Bytes * lba, Bytes * lba + 1>>

\* mutant: the position in the first sector is not added
Cut_variant(r, buf) == SubSeq(buf, 1, r.size)

\* memcpy(buf, whole_sector + offset % 512, size)
Cut(r, buf) == SubSeq(buf, (r.offset % Bytes) + 1, (r.offset % Bytes) + r.size)

\* one word per round: poll until the drive has one, then take it
ATA_PIO_read(t) ==
    LET buf == call[t].buf \o Word(dev.lba) IN
    /\ Runs(t) /\ call[t].pc = "data" /\ dev.st = "drq"
    /\ dev' = IF dev.left > 1 THEN [st |-> "busy", lba |-> dev.lba + 1, left |-> dev.left - 1]
              ELSE [dev EXCEPT !.st = "idle"]
    /\ IF Len(buf) = Bytes * call[t].n THEN Finish(t, Cut(call[t], buf))
       ELSE call' = [call EXCEPT ![t].buf = buf] /\ UNCHANGED off
    /\ UNCHANGED <<regs, mixed, probeVars>>

AtaDone(t) ==
    /\ call[t].pc = "done" /\ Runs(t)
    /\ call' = [call EXCEPT ![t] = [pc |-> "idle"]]
    /\ UNCHANGED <<dev, regs, off, mixed, probeVars>>

\* the drive gets the sector ready, or reports one it does not have
AtaDrive ==
    /\ dev.st = "busy"
    /\ \E st \in IF dev.lba < Sectors THEN {"drq"} ELSE {"err", "abrt"} : dev' = [dev EXCEPT !.st = st]
    /\ UNCHANGED <<regs, call, off, mixed, probeVars>>

AtaReader(t) ==
    \/ ATA_PIO_prepare(t) \/ AtaCommand(t) \/ ATA_check_for_errors(t) \/ ATA_PIO_read(t) \/ AtaDone(t)

----------------------------------------------------------------------------
ReadIdle ==
    /\ dev = [st |-> "idle", lba |-> 0, left |-> 0]
    /\ regs = [lba |-> 0, count |-> 0]
    /\ call = [t \in Readers |-> [pc |-> "idle"]]
    /\ off = None /\ mixed = FALSE

\* A channel floats as a whole.
AtaInit ==
    /\ bus \in [Drives -> [kind : Kinds, polls : 0 .. Slowest]]
    /\ \A d \in Drives : (bus[d].kind = "float") = (bus[2 * (d \div 2)].kind = "float")
    /\ \A d \in Drives : bus[d].kind \in {"none", "float"} => bus[d].polls = 0
    /\ probe = NextDrive(-1)
    /\ present = {}
    /\ ReadIdle

\* after the probe
ReadInit ==
    /\ bus = [d \in Drives |-> [kind |-> IF d = 0 THEN "ata" ELSE "none", polls |-> 0]]
    /\ probe = NextDrive(Cardinality(Drives) - 1)
    /\ present = {0}
    /\ ReadIdle

ReadNext ==
    \/ \E t \in Readers : AtaReader(t) \/ \E r \in Requests : ATA_read_b(t, r[1], r[2])
    \/ AtaDrive

Probed == probe.drive \notin Drives

\* ATA_init in kmain, then the reads of the tasks
AtaSpec == AtaInit /\ [][AtaProbe \/ (Probed /\ ReadNext)]_ataVars

\* ... or polls a channel without drives for ever
ProbeStops ==
    /\ IF Probed THEN TRUE ELSE probe.pc = "reset" /\ Here.kind = "float"
    /\ UNCHANGED ataVars
ReadStops == ~(ENABLED ReadNext) /\ UNCHANGED ataVars

----------------------------------------------------------------------------
(* Properties *)

\* ATA_init registers exactly the ATA drives that answer before the soft reset:
\* the ten polls after it cannot succeed, as IDENTIFY is not sent again.
PresentExact ==
    Probed => present = {d \in Drives : bus[d].kind = "ata" /\ bus[d].polls < Timeout - ResetAt}

\* The probe ends, whatever is connected, unless a channel floats high.
ProbeEnds == (\A d \in Drives : bus[d].kind # "float") ~> Probed

\* Unless two reads have overlapped, a read hands out the bytes asked for, or
\* was aborted by the drive.
ReadRight ==
    \A t \in Readers : call[t].pc = "done" /\ ~mixed /\ call[t].buf # "garbage" =>
        call[t].buf = [i \in 1 .. call[t].size |-> call[t].offset + i - 1]

\* on the drive, and within the count register
InRange(r) == r.start + r.n <= Sectors /\ r.n <= CountMod

\* Unless two reads have overlapped, a read returns if the sectors it asks for
\* are in range.  (Those of the drive's last bytes are not, see ATA_read_b: the
\* loop of ATA_PIO_read then polls a drive that has reported an error.)
ReadReturns ==
    \A t \in Readers :
        (call[t].pc = "prepare" /\ InRange(call[t])) ~> (call[t].pc \in {"idle", "done"} \/ mixed)

\* Unless two reads have overlapped, the drive holds no rest of an earlier read
\* when the next one starts: the next one would poll it for ever, in sys_read
\* with interrupts disabled.
Drained ==
    ~mixed /\ (\A t \in Readers : call[t].pc \in {"idle", "done", "prepare"}) =>
        dev.st \in {"idle", "err", "abrt"}

\* The probe finds the drives that are there, a read that no other overlaps gives
\* the bytes that were asked for, and leaves the drive ready for the next one.
DriveRight == PresentExact /\ ReadRight /\ Drained
=============================================================================
