-------------------------------- MODULE Fifo --------------------------------
(***************************************************************************)
(* What a program expects of its standard input: bytes come out in the     *)
(* order they were typed, each once, and only after they were typed.       *)
(***************************************************************************)
EXTENDS Naturals, Sequences

CONSTANT Bytes
VARIABLES sent, received

Init == sent = << >> /\ received = << >>

Send == /\ \E b \in Bytes : sent' = Append(sent, b)
        /\ UNCHANGED received

Receive == /\ Len(received) < Len(sent)
           /\ received' = Append(received, sent[Len(received) + 1])
           /\ UNCHANGED sent

Next == Send \/ Receive

Spec == Init /\ [][Next]_<<sent, received>>
=============================================================================
