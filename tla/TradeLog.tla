------------------------------ MODULE TradeLog ------------------------------
(***************************************************************************)
(* What the aggregator relies on of the trades topic: a trade may be       *)
(* missing from it, but each symbol's trades are in one partition, in      *)
(* trade order, and none is there twice.                                   *)
(***************************************************************************)
EXTENDS Integers, Sequences

CONSTANTS
    Partitions,
    PartitionOf,    \* the partition of a symbol
    Trades          \* pairs of a symbol and a place among all trades

VARIABLE topic      \* per partition, the trades published to it

Init == topic = [p \in Partitions |-> << >>]

Publish(t) ==
    LET p == PartitionOf[t[1]] IN
    /\ \A i \in DOMAIN topic[p] : topic[p][i][1] = t[1] => topic[p][i][2] < t[2]
    /\ topic' = [topic EXCEPT ![p] = Append(@, t)]

Next == \E t \in Trades : Publish(t)
Spec == Init /\ [][Next]_topic
=============================================================================
