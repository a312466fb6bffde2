------------------------------ MODULE MCHealth ------------------------------
(* Small instances of Health for TLC.                                      *)
EXTENDS Health

CONSTANTS A, B

\* Each symbol in a partition of its own.
OwnPartition == [s \in Symbols |-> IF s = A THEN 0 ELSE 1]

AggAtRest == agg = [pc |-> "poll", count |-> 0, process |-> 1] /\ aggBeat = NoCount /\ total = 0
ReceiverAtRest == pc \in {"connect", "down"} /\ trades = 0 /\ ~stop /\ stats = NoStats

\* The check judges the heartbeats one by one: one of their writers rests.  The
\* receiver meets two incidents while no time passes and one while it does.
OneWriter ==
    \/ AggAtRest /\ (incidents <= 1 \/ elapsed + idle = 0)
    \/ ReceiverAtRest

MCSpec == HealthInit /\ [][HealthNext /\ OneWriter']_vars /\ Fairness
=============================================================================
