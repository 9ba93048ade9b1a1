------------------------------ MODULE MCUpstream ------------------------------
(* Small instances of Upstream. *)
EXTENDS Upstream

(* An upstream listed twice takes two shares. *)
Weighted == <<"a", "b", "a">>
=============================================================================
