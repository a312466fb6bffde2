---------------------------- MODULE MCWarehouse -----------------------------
(* Small instances of Warehouse for TLC.                                   *)
EXTENDS Warehouse, TLC

CONSTANTS S, T

\* Nothing tells one symbol from another.
SymbolSymmetry == Permutations({S, T})

\* A fetch that came back whole, and one without the last minute: it is missing, or has
\* not begun yet.
WholeOrShort == {0..(DayLen - 1), 0..(DayLen - 2)}
WholeDays == {0..(DayLen - 1)}

\* The script without --allow-partial.
CompleteOnly == [force : BOOLEAN, allow_partial : {FALSE}]

\* One thing goes wrong: an object is fetched again, or a task fails.
OneIncident == Init /\ [][Next /\ (refetches + faults <= 1)']_vars
=============================================================================
