------------------------------ MODULE DayTable ------------------------------
(***************************************************************************)
(* What loading a day promises whoever reads the table: a date changes in   *)
(* one step from all of one load to all of another, with a row of every     *)
(* symbol; a date that is there is never seen empty, and no other date is   *)
(* touched.                                                                *)
(***************************************************************************)
EXTENDS Integers

CONSTANTS Symbols, Dates, Minutes, DayOf(_)

VARIABLE rows    \* per date, the <<symbol, minute>> pairs the table holds of it

Whole(d, content) ==
    /\ content \subseteq {r \in Symbols \X Minutes : DayOf(r[2]) = d}
    /\ \A s \in Symbols : \E r \in content : r[1] = s

Init == rows = [d \in Dates |-> {}]

Replace(d) ==
    /\ Whole(d, rows'[d])
    /\ rows' = [rows EXCEPT ![d] = rows'[d]]

Next == \E d \in Dates : Replace(d)

Spec == Init /\ [][Next]_rows
=============================================================================
