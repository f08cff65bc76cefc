----------------------------- MODULE MCLibrary -----------------------------
EXTENDS Ext2, TmpFile, Containers, Strings, TLC

Entry(i, l) == [ino |-> i, len |-> l]
Image == [signature |-> TRUE, state |-> "clean", onerror |-> "ignore",
          blocks |-> 20, bpg |-> 8, inodes |-> 7, ipg |-> 3, poff |-> 3,
          file |-> TRUE, size |-> 9, base |-> 5, singly |-> 4, junk |-> 0,
          dir |-> <<<<Entry(1, 1), Entry(2, 3)>>>>]
MCImages ==
    {Image, [Image EXCEPT !.signature = FALSE], [Image EXCEPT !.state = "error", !.size = 8],
     [Image EXCEPT !.state = "error", !.onerror = "panic"],
     [Image EXCEPT !.file = FALSE, !.blocks = 8, !.inodes = 6,
                   !.dir = <<<<Entry(1, 1), Entry(0, 1), Entry(2, 2)>>>>],
     [Image EXCEPT !.size = 25, !.dir = <<<<Entry(1, 2), Entry(2, 2)>>, <<Entry(3, 4)>>, <<Entry(4, 4)>>>>],
     [Image EXCEPT !.size = 60, !.dir = <<<<Entry(1, 2), Entry(2, 2)>>, <<Entry(3, 1), Entry(0, 3)>>>>],
     [Image EXCEPT !.size = 8, !.base = 49, !.dir = <<<<Entry(1, 2), Entry(0, 2)>>, <<Entry(0, 4)>>>>],
     [Image EXCEPT !.size = 0, !.dir = <<<<Entry(0, 4)>>, <<Entry(1, 4)>>>>]}

VARIABLE part   \* the component this behaviour is about

vars == <<part, ext2Vars, tmpVars, dsVars, strVars>>

Init == /\ part \in {"ext2", "tmp", "ds", "str"}
        /\ Ext2Init(IF part = "ext2" THEN Images ELSE {Image})
        /\ TmpInit
        /\ DsInit(IF part = "ds" THEN {2, 3} ELSE {2})
        /\ StrInit(IF part = "str" THEN Mem ELSE {[i \in 0 .. Cells - 1 |-> 0]})

\* A step of one component leaves the others alone.
Ext2Part(A) == part = "ext2" /\ A /\ UNCHANGED <<part, tmpVars, dsVars, strVars>>
TmpPart(A) == part = "tmp" /\ A /\ UNCHANGED <<part, ext2Vars, dsVars, strVars>>
DsPart(A) == part = "ds" /\ A /\ UNCHANGED <<part, ext2Vars, tmpVars, strVars>>
StrPart(A) == part = "str" /\ A /\ UNCHANGED <<part, ext2Vars, tmpVars, dsVars>>

Next == \/ Ext2Part(Ext2Next \/ Ext2Stops)
        \/ TmpPart(TmpNext)
        \/ DsPart(DsNext \/ DsStops)
        \/ StrPart(StrNext \/ StrStops)

Spec == Init /\ [][Next]_vars
=============================================================================
