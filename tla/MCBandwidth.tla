----------------------------- MODULE MCBandwidth -----------------------------
(* Small instances of Bandwidth. *)
EXTENDS Bandwidth

(* Everybody competes for the bucket of one address. *)
OneOwner == [s \in Streams |-> CHOOSE i \in IPs : TRUE]

(* Frames up to the capacity (4), some without data. *)
SmallLoads == {<<1, 0, 2>>, <<4, 3>>}
(* More of them, for fewer streams. *)
MixedLoads == SmallLoads \cup {<<3, 3, 1>>, <<2, 2, 2>>, <<0, 4>>, <<1, 1, 1, 1>>}
(* Among them a frame of more than the capacity. *)
AllLoads == MixedLoads \cup {<<5, 1>>}
=============================================================================
