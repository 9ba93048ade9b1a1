------------------------------- MODULE MCServer -------------------------------
(* Small instances of Server. *)
EXTENDS Server

(* All connections come from one address. *)
OneRemote == [c \in Conns |-> CHOOSE i \in IPs : TRUE]
=============================================================================
