---------------------------- MODULE AtLeastOnce ----------------------------
(***************************************************************************)
(* What the speed layer promises the topic it reads: an offset is committed *)
(* only when every trade before it is on object storage, in a bar or in a   *)
(* late file.  A message may be stored any number of times, and a commit    *)
(* may go back; what it may not do is acknowledge a trade not yet stored.   *)
(***************************************************************************)
EXTENDS Integers, Sequences

CONSTANTS Partitions, Msg

VARIABLES
    log,        \* per partition, the messages published
    durable,    \* the <<partition, offset>> pairs stored at least once
    committed   \* per partition, the acknowledged prefix

vars == <<log, durable, committed>>

InLog(p, o) == o \in 0..(Len(log[p]) - 1)
Settled(p, o) == log[p][o + 1].valid => <<p, o>> \in durable

Init ==
    /\ log = [p \in Partitions |-> << >>]
    /\ durable = {}
    /\ committed = [p \in Partitions |-> 0]

Publish ==
    /\ \E p \in Partitions, msg \in Msg : log' = [log EXCEPT ![p] = Append(@, msg)]
    /\ UNCHANGED <<durable, committed>>

Persist ==
    /\ durable \subseteq durable'
    /\ \A id \in durable' : id[1] \in Partitions /\ InLog(id[1], id[2])
    /\ UNCHANGED <<log, committed>>

Commit ==
    /\ committed' \in [Partitions -> Nat]
    /\ \A p \in Partitions :
          /\ committed'[p] <= Len(log[p])
          /\ \A o \in 0..(committed'[p] - 1) : Settled(p, o)
    /\ UNCHANGED <<log, durable>>

Next == Publish \/ Persist \/ Commit

Spec == Init /\ [][Next]_vars
=============================================================================
