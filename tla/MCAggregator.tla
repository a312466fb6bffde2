---------------------------- MODULE MCAggregator ----------------------------
(* Small instances of Aggregator for TLC.                                  *)
EXTENDS Aggregator, TLC

CONSTANTS A, B, C    \* symbols

\* Each symbol in a partition of its own, both in one, or a third beside the two.
OwnPartition == [s \in Symbols |-> IF s = A THEN 0 ELSE 1]
SamePartition == [s \in Symbols |-> 0]
ThirdApart == [s \in Symbols |-> IF s = C THEN 1 ELSE 0]

\* Nothing tells the two that share a partition from each other.
PairSymmetry == Permutations({A, B})

\* The messages published, wherever they are, and those of them not well-formed.
Messages == MapThenSumSet(LAMBDA p : Len(log[p]), Partitions)
Malformed(p) == {i \in DOMAIN log[p] : ~log[p][i].valid}
NumMalformed == MapThenSumSet(LAMBDA p : Cardinality(Malformed(p)), Partitions)

\* One message may be malformed, of three at most.
OneMalformed == NumMalformed = 0 \/ (NumMalformed = 1 /\ Messages <= 3)

\* Over the partition that two symbols share nothing is asked of the process; once the
\* other is in use too, it keeps up with both, and there are three messages.
Deployed == log[1] = <<>> \/ (KeepsUp /\ Messages <= 3)

\* Faults meet a topic whose minutes are in order; any other topic meets none.
BarsSpec == Init /\ [][Next /\ (FaultsInOrder /\ Deployed /\ OneMalformed)']_vars

DeliverySpec == Init /\ [][Next /\ (Messages <= 3)']_vars /\ Fairness
=============================================================================
