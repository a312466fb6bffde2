------------------------------- MODULE Bronze -------------------------------
(***************************************************************************)
(* What the ingest promises whoever reads Bronze: the object of a date and *)
(* a symbol is put whole and put again whole, it is never empty and never   *)
(* removed, its candles are of its own date, and each of them has begun.    *)
(***************************************************************************)
EXTENDS Integers

CONSTANTS
    Cells,          \* pairs of a date and a symbol
    OfDay(_, _)     \* of a set of candles, those that open on a date

VARIABLES
    clock,
    bronze          \* per cell, the candles of its object ({}: no object)

Init == bronze = [c \in Cells |-> {}]

Put(c) ==
    LET content == bronze'[c] IN
    /\ content # {} /\ OfDay(c[1], content) = content
    /\ \A t \in content : t < clock
    /\ bronze' = [bronze EXCEPT ![c] = content]
    /\ UNCHANGED clock

Pass == clock' > clock /\ UNCHANGED bronze

Next == Pass \/ \E c \in Cells : Put(c)

Spec == Init /\ [][Next]_<<clock, bronze>>
=============================================================================
