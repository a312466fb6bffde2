------------------------------ MODULE Candles ------------------------------
(***************************************************************************)
(* What the speed layer promises of a minute: it takes trades one by one   *)
(* until its candle is stored, the candle is of all of them, and it is      *)
(* never stored differently again.                                         *)
(***************************************************************************)

CONSTANT Keys    \* the minutes of each symbol

VARIABLES
    trades,    \* per key, the trades made in it
    candle     \* per key, the trades its stored candle is of ({}: none stored)

Init ==
    /\ trades = [k \in Keys |-> {}]
    /\ candle = [k \in Keys |-> {}]

Trade(k) ==
    /\ candle[k] = {}
    /\ \E id \in trades'[k] \ trades[k] : trades' = [trades EXCEPT ![k] = @ \cup {id}]
    /\ UNCHANGED candle

Store(k) ==
    /\ candle[k] = {}
    /\ trades[k] # {}
    /\ candle' = [candle EXCEPT ![k] = trades[k]]
    /\ UNCHANGED trades

Next == \E k \in Keys : Trade(k) \/ Store(k)

Spec == Init /\ [][Next]_<<trades, candle>>
=============================================================================
