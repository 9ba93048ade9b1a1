----------------------------- MODULE IdealBucket -----------------------------
(***************************************************************************)
(* What a per-address bandwidth quota promises: a bucket that fills all the *)
(* time at a fixed rate up to its capacity, from which an amount can be     *)
(* taken only when it is there.  Buckets appear empty.                      *)
(***************************************************************************)
EXTENDS Integers

CONSTANTS IPs, PerTick, Capacity

VARIABLE level      \* address |-> tokens it could take now

Fill(x) == IF x + PerTick > Capacity THEN Capacity ELSE x + PerTick

Init == level = [i \in {} |-> 0]

Elapse == level' = [i \in DOMAIN level |-> Fill(level[i])]

Create(i) ==
  /\ i \notin DOMAIN level
  /\ level' = [j \in DOMAIN level \cup {i} |-> IF j = i THEN 0 ELSE level[j]]

Take(i, n) ==
  /\ i \in DOMAIN level
  /\ n <= level[i]
  /\ level' = [level EXCEPT ![i] = @ - n]

Next ==
  \/ Elapse
  \/ \E i \in IPs : Create(i)
  \/ \E i \in IPs, n \in 1..Capacity : Take(i, n)

Spec == Init /\ [][Next]_level
=============================================================================
