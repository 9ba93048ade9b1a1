------------------------------- MODULE MCProxy -------------------------------
(* A small instance of Proxy. *)
EXTENDS Proxy

CONSTANTS c1, c2, edge, client

(* One connection comes through an edge, one straight from the client. *)
Peers == (c1 :> edge) @@ (c2 :> client)

(* Two routes of a length, one inside another; "localhost" is no vhost. *)
Table == ("a.org" :> {<<"/">>, <<"/", "x">>, <<"/", "y">>})

Get == [cf |-> client, control |-> FALSE, authority |-> "", hosts |-> <<<<"a.org", "443">>>>,
        cl |-> FALSE, te |-> FALSE, headers |-> 1, uri |-> 1, method |-> "GET",
        path |-> <<"/", "x", "z">>, suspect |-> FALSE, ws |-> FALSE, body |-> 0,
        payload |-> FALSE]

(* Requests that pass, in all the ways they may go on ... *)
Passing ==
  { Get, [Get EXCEPT !.authority = "a.org", !.hosts = <<>>, !.path = <<"/", "w">>],
    [Get EXCEPT !.ws = TRUE, !.cf = "garbage"],
    [Get EXCEPT !.hosts = << <<>> >>],
    [Get EXCEPT !.method = "DELETE", !.te = TRUE, !.body = 2],
    [Get EXCEPT !.method = "POST", !.cl = TRUE, !.headers = 2, !.uri = 2, !.body = 1] }

(* ... and one for each reason to refuse a request, some at a boundary. *)
Failing ==
  { [Get EXCEPT !.control = TRUE],
    [Get EXCEPT !.hosts = <<<<"a.org">>, <<"b.org">>>>],
    [Get EXCEPT !.hosts = <<>>],
    [Get EXCEPT !.cl = TRUE, !.te = TRUE],
    [Get EXCEPT !.headers = 3],
    [Get EXCEPT !.uri = 3],
    [Get EXCEPT !.method = "CONNECT", !.hosts = <<>>],
    [Get EXCEPT !.suspect = TRUE, !.cf = "garbage"],
    [Get EXCEPT !.method = "POST", !.te = TRUE, !.body = 2],
    [Get EXCEPT !.method = "PUT", !.payload = TRUE] }

All == Passing \cup Failing
=============================================================================
