-------------------------------- MODULE MCBan --------------------------------
(* Small instances of Ban: one switched-off, one short and one long ban. *)
EXTENDS Ban

MCViolations == {"Timeout", "Protocol", "Waf"}
MCBanSeconds == [v \in MCViolations |->
                   CASE v = "Timeout" -> 1 [] v = "Waf" -> 3 [] OTHER -> 0]
=============================================================================
