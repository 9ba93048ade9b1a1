-------------------------------- MODULE Proxy --------------------------------
(***************************************************************************)
(* The request pipeline of src/proxy.rs: verify_request with the protocol   *)
(* checks of src/protocol.rs, http_proxy, https_proxy and its two ways to a *)
(* backend, with every await a point where the clock runs, the peer may go  *)
(* away and other connections move.                                         *)
(*                                                                          *)
(* Left to other modules, and arbitrary here: the verdict of the rate       *)
(* limiter (RateLimit), the length of bans (Ban), the health of upstreams   *)
(* (Upstream), the bytes of bodies and pipes (Bandwidth).  A connection     *)
(* serves one request at a time; the streams of an HTTP/2 connection are    *)
(* connections of the model that share a peer.                              *)
(***************************************************************************)
EXTENDS Integers, Sequences, FiniteSets, SequencesExt, FiniteSetsExt

CONSTANTS
  Conns, IPs,
  Peer,               \* the peer address of a connection
  Requests, NoRequest,
  Routes,             \* vhosts: domain |-> the paths of its routers table
  Banning,            \* violations whose [ban] duration is not 0
  MaxHeaderCount, MaxUriSize, MaxBodySize,   \* [limit]
  CBodyTimeout, SConnect, SResponse          \* [timeout], in ticks

Domains == DOMAIN Routes
Listeners == {"http", "https"}
Violations == {"Timeout", "Protocol", "Waf", "RateLimit"}
Methods == {"GET", "POST", "PUT", "DELETE", "PATCH", "HEAD", "OPTIONS"}
Buffered == {"POST", "PUT", "PATCH"}

(***************************************************************************)
(* What the pipeline looks at in a request.  A Host header is its text cut  *)
(* at the colons, <<>> if it is not readable; suspect and payload are the   *)
(* verdicts of waf::header and waf::body; headers counts, body and uri are  *)
(* lengths.                                                                 *)
(***************************************************************************)
ASSUME ProxyAssumption ==
  /\ Peer \in [Conns -> IPs]
  /\ NoRequest \notin Requests
  /\ \A r \in Requests :
       /\ {r.control, r.cl, r.te, r.suspect, r.payload, r.ws} \subseteq BOOLEAN
       /\ {r.headers, r.uri, r.body} \subseteq Nat
       /\ r.hosts \in Seq(Seq(STRING))
  /\ \A d \in Domains : IsFiniteSet(Routes[d]) /\ Routes[d] \subseteq Seq(STRING)
  /\ Banning \subseteq Violations
  /\ {MaxHeaderCount, MaxUriSize, MaxBodySize} \subseteq Nat
  /\ {CBodyTimeout, SConnect, SResponse} \subseteq Nat \ {0}

VARIABLES
  pc,        \* where the handler of a connection is
  via,       \* the kind of listener a connection came in at
  req,       \* the request it handles
  sentence,  \* the punishment it is about to carry out
  reply,     \* the status it last answered
  outer,     \* ticks left of the c_body_timeout
  inner,     \* ticks left of the timeout inside it
  routers,   \* the sorted routers of each vhost
  route,     \* the router a request was matched with
  banned,    \* addresses whose ban is running
  owed       \* history: running bans that a client has been told of

vars == <<pc, via, req, sentence, reply, outer, inner, routers, route, banned, owed>>
timers == <<outer, inner>>
bans == <<banned, owed>>

(* Stages inside the outer timeout; all but the last have one of their own. *)
Timed == {"connect", "upgrade", "request", "collect"}
Waiting == Timed \ {"collect"}
Stages == Timed \cup {"closed", "door", "idle", "body", "dispatch", "punish",
                      "switching", "piped", "cut"}

(* A punishment; broken (history) says that it is for a body that broke off. *)
Sentence(v, s) == [violation |-> v, status |-> s, broken |-> FALSE]
NoSentence == Sentence("none", 0)
BrokenOff == [violation |-> "Protocol", status |-> 413, broken |-> TRUE]

-----------------------------------------------------------------------------
(* Mutant: the routers stay in the order of the HashMap. *)
sorted_routers_unsorted(d) ==
  {s \in [1..Cardinality(Routes[d]) -> Routes[d]] : ToSet(s) = Routes[d]}

(* Config::load: a HashMap's paths, in any order, sorted by falling length. *)
sorted_routers(d) ==
  {s \in [1..Cardinality(Routes[d]) -> Routes[d]] :
     /\ ToSet(s) = Routes[d]
     /\ \A j, k \in DOMAIN s : j < k => Len(s[j]) >= Len(s[k])}

TypeOK ==
  /\ pc \in [Conns -> Stages]
  /\ via \in [Conns -> Listeners]
  /\ req \in [Conns -> Requests \cup {NoRequest}]
  /\ sentence \in [Conns -> [violation : Violations \cup {"none"}, status : Nat,
                              broken : BOOLEAN]]
  /\ reply \in [Conns -> Nat]
  /\ outer \in [Conns -> 0..CBodyTimeout]
  /\ inner \in [Conns -> Nat]
  /\ DOMAIN routers = Domains
  /\ \A d \in Domains : routers[d] \in sorted_routers(d)
  /\ route \in [Conns -> Nat]
  /\ banned \subseteq IPs
  /\ owed \subseteq IPs

Init ==
  /\ pc = [c \in Conns |-> "closed"]
  /\ via = [c \in Conns |-> "http"]
  /\ req = [c \in Conns |-> NoRequest]
  /\ sentence = [c \in Conns |-> NoSentence]
  /\ reply = [c \in Conns |-> 0]
  /\ outer = [c \in Conns |-> 0]
  /\ inner = [c \in Conns |-> 0]
  /\ routers \in [Domains -> UNION {sorted_routers(d) : d \in Domains}]
  /\ \A d \in Domains : routers[d] \in sorted_routers(d)
  /\ route = [c \in Conns |-> 0]
  /\ banned = {}
  /\ owed = {}

-----------------------------------------------------------------------------
(* The CF-Connecting-IP header, from any peer, if it parses as an address. *)
get_real_ip(c, r) == IF r.cf \in IPs THEN r.cf ELSE Peer[c]

get_host(r) ==
  IF r.authority # "" THEN r.authority
  ELSE IF r.hosts # <<>> /\ r.hosts[1] # <<>> THEN r.hosts[1][1]
  ELSE "localhost"

(* protocol.rs *)
validate_uri(r) == ~r.control
validate_host(r) ==
  r.method # "CONNECT" =>
    /\ r.hosts # <<>> \/ r.authority # ""
    /\ Len(r.hosts) <= 1
validate_smuggling(r) == ~(r.cl /\ r.te)

(* The tasks of verify_request, in their order: what each of them sentences to ... *)
Verdicts ==
  << Sentence("RateLimit", 429), Sentence("Protocol", 400), Sentence("Protocol", 400),
     Sentence("Protocol", 414), Sentence("Protocol", 405), Sentence("Waf", 403) >>

(* ... and those that a request fails; the first of them decides. *)
verify_request(r, limited) ==
  {k \in 1..6 :
     \/ k = 1 /\ limited
     \/ k = 2 /\ ~(validate_uri(r) /\ validate_host(r) /\ validate_smuggling(r))
     \/ k = 3 /\ r.headers > MaxHeaderCount
     \/ k = 4 /\ r.uri > MaxUriSize
     \/ k = 5 /\ r.method \notin Methods
     \/ k = 6 /\ r.suspect}

(* The routers of the vhost that match the path; the loop stops at the first. *)
matches(r) ==
  {k \in DOMAIN routers[get_host(r)] : IsPrefix(routers[get_host(r)][k], r.path)}
Routed(r) == get_host(r) \in Domains /\ matches(r) # {}

(* An Upgrade header that names websocket. *)
is_websocket(r) == r.ws

-----------------------------------------------------------------------------
Goto(c, p) == pc' = [pc EXCEPT ![c] = p]
Arm(c, o, i) == outer' = [outer EXCEPT ![c] = o] /\ inner' = [inner EXCEPT ![c] = i]
Forget(c) ==
  /\ req' = [req EXCEPT ![c] = NoRequest]
  /\ sentence' = [sentence EXCEPT ![c] = NoSentence]
  /\ route' = [route EXCEPT ![c] = 0]
  /\ Arm(c, 0, 0)

(* The handler returns a response. *)
Answer(c, status) ==
  /\ Goto(c, "idle")
  /\ reply' = [reply EXCEPT ![c] = status]
  /\ Forget(c)

(***************************************************************************)
(* punish, up to the write lock of the ban list, for request r; without a   *)
(* configured duration it returns at once.                                  *)
(***************************************************************************)
Punish(c, r, s) ==
  \/ /\ s.violation \in Banning
     /\ Goto(c, "punish")
     /\ sentence' = [sentence EXCEPT ![c] = s]
     /\ req' = [req EXCEPT ![c] = r]
     /\ reply' = [reply EXCEPT ![c] = 0]
     /\ Arm(c, 0, 0)
     /\ UNCHANGED route
  \/ /\ s.violation \notin Banning
     /\ Answer(c, s.status)

-----------------------------------------------------------------------------
(* The accept loops: the ban list is asked about the peer, once ... *)
Accept(c, l) ==
  /\ pc[c] = "closed"
  /\ Peer[c] \notin banned
  /\ Goto(c, "door")
  /\ via' = [via EXCEPT ![c] = l]
  /\ UNCHANGED <<req, sentence, reply, timers, routers, route, bans>>

(* ... and the permit and the handshake take their time (module Server). *)
Open(c) ==
  /\ pc[c] = "door"
  /\ Goto(c, "idle")
  /\ UNCHANGED <<via, req, sentence, reply, timers, routers, route, bans>>

(* A request arrives and is refused by verify_request ... *)
Refuse(c, r, limited) ==
  /\ pc[c] = "idle"
  /\ verify_request(r, limited) # {}
  /\ Punish(c, r, Verdicts[Min(verify_request(r, limited))])
  /\ UNCHANGED <<via, routers, bans>>

(* ... or, at an HTTP listener, is redirected to HTTPS ... *)
Redirect(c, r) ==
  /\ pc[c] = "idle" /\ via[c] = "http"
  /\ verify_request(r, FALSE) = {}
  /\ Answer(c, 308)
  /\ UNCHANGED <<via, routers, bans>>

(* ... or, at an HTTPS listener, goes on, with its body first if it may have one. *)
Receive(c, r) ==
  /\ pc[c] = "idle" /\ via[c] = "https"
  /\ verify_request(r, FALSE) = {}
  /\ req' = [req EXCEPT ![c] = r]
  /\ reply' = [reply EXCEPT ![c] = 0]
  /\ Goto(c, IF r.method \in Buffered THEN "body" ELSE "dispatch")
  /\ UNCHANGED <<via, sentence, timers, routers, route, bans>>

(* Mutant: the limit is checked when the body has passed inspection. *)
Collect_late(c) ==
  /\ pc[c] = "body"
  /\ \/ req[c].payload /\ Punish(c, req[c], Sentence("Waf", 403))
     \/ /\ ~req[c].payload
        /\ Goto(c, "dispatch")
        /\ UNCHANGED <<req, sentence, reply, timers, route>>
  /\ UNCHANGED <<via, routers, bans>>

(* Mutant: a body as large as the limit is refused. *)
Collect_strict(c) ==
  /\ pc[c] = "body"
  /\ \/ /\ req[c].body >= MaxBodySize
        /\ Punish(c, req[c], Sentence("Protocol", 413))
     \/ /\ req[c].body < MaxBodySize /\ req[c].payload
        /\ Punish(c, req[c], Sentence("Waf", 403))
     \/ /\ req[c].body < MaxBodySize /\ ~req[c].payload
        /\ Goto(c, "dispatch")
        /\ UNCHANGED <<req, sentence, reply, timers, route>>
  /\ UNCHANGED <<via, routers, bans>>

(* Limited::collect ends: the body is too large, is refused by waf::body, or passes. *)
Collect(c) ==
  /\ pc[c] = "body"
  /\ \/ /\ req[c].body > MaxBodySize
        /\ Punish(c, req[c], Sentence("Protocol", 413))
     \/ /\ req[c].body <= MaxBodySize /\ req[c].payload
        /\ Punish(c, req[c], Sentence("Waf", 403))
     \/ /\ req[c].body <= MaxBodySize /\ ~req[c].payload
        /\ Goto(c, "dispatch")
        /\ UNCHANGED <<req, sentence, reply, timers, route>>
  /\ UNCHANGED <<via, routers, bans>>

(* The body breaks off, which is the same to the handler as one that is too large. *)
BreakOff(c) ==
  /\ pc[c] = "body"
  /\ Punish(c, req[c], BrokenOff)
  /\ UNCHANGED <<via, routers, bans>>

-----------------------------------------------------------------------------
(* No vhost, no matching router, or no healthy upstream (module Upstream). *)
NoUpstream(c) ==
  /\ pc[c] = "dispatch"
  /\ Answer(c, 502)
  /\ UNCHANGED <<via, routers, bans>>

(* Mutant: only the outer timeout covers the backend. *)
Forward_untimed(c) ==
  /\ pc[c] = "dispatch"
  /\ Routed(req[c])
  /\ route' = [route EXCEPT ![c] = Min(matches(req[c]))]
  /\ Goto(c, IF is_websocket(req[c]) THEN "connect" ELSE "request")
  /\ Arm(c, CBodyTimeout, CBodyTimeout)
  /\ UNCHANGED <<via, req, sentence, reply, routers, bans>>

(* The outer timeout starts; a WebSocket connects, other requests use the pool. *)
Forward(c) ==
  /\ pc[c] = "dispatch"
  /\ Routed(req[c])
  /\ route' = [route EXCEPT ![c] = Min(matches(req[c]))]
  /\ Goto(c, IF is_websocket(req[c]) THEN "connect" ELSE "request")
  /\ Arm(c, CBodyTimeout, IF is_websocket(req[c]) THEN SConnect ELSE SResponse)
  /\ UNCHANGED <<via, req, sentence, reply, routers, bans>>

(* handle_http: the backend's head is there; a text body is then collected. *)
Response(c, text) ==
  /\ pc[c] = "request"
  /\ \/ /\ text
        /\ Goto(c, "collect")
        /\ Arm(c, outer[c], 0)
        /\ UNCHANGED <<req, sentence, reply, route>>
     \/ ~text /\ Answer(c, 200)
  /\ UNCHANGED <<via, routers, bans>>

(* apply_dlp has the whole body, or lost it and answers with an empty one. *)
Collected(c) ==
  /\ pc[c] = "collect"
  /\ Answer(c, 200)
  /\ UNCHANGED <<via, routers, bans>>

(* Mutant: the time the backend has comes on top of what is left. *)
Connected_extends(c) ==
  /\ pc[c] = "connect"
  /\ Goto(c, "upgrade")
  /\ Arm(c, outer[c] + SResponse, SResponse)
  /\ UNCHANGED <<via, req, sentence, reply, routers, route, bans>>

(* The TCP connection stands: the request goes to the backend. *)
Connected(c) ==
  /\ pc[c] = "connect"
  /\ Goto(c, "upgrade")
  /\ Arm(c, outer[c], SResponse)
  /\ UNCHANGED <<via, req, sentence, reply, routers, route, bans>>

(* handle_websocket: the backend switches protocols, and so does the answer. *)
Switch(c) ==
  /\ pc[c] = "upgrade"
  /\ Goto(c, "switching")
  /\ reply' = [reply EXCEPT ![c] = 101]
  /\ Forget(c)
  /\ UNCHANGED <<via, routers, bans>>

(* The backend does not switch: its response is passed on as it is. *)
Fallback(c) ==
  /\ pc[c] = "upgrade"
  /\ Answer(c, 200)
  /\ UNCHANGED <<via, routers, bans>>

(* hyper gives up a client's connection only to serve_connection_with_upgrades ... *)
ClientUpgrades == FALSE
(* ... and a backend's only to conn.with_upgrades(); the code uses neither. *)
BackendUpgrades == FALSE

(* The spawned task joins both upgrades: it pipes, or ends and cuts both off. *)
JoinUpgrade(c) ==
  /\ pc[c] = "switching"
  /\ Goto(c, IF ClientUpgrades /\ BackendUpgrades THEN "piped" ELSE "cut")
  /\ UNCHANGED <<via, req, sentence, reply, timers, routers, route, bans>>

-----------------------------------------------------------------------------
(* The backend fails, or the inner timeout fires. *)
BackendFails(c) ==
  /\ pc[c] \in Waiting
  /\ Answer(c, IF pc[c] = "connect" THEN 502 ELSE 504)
  /\ UNCHANGED <<via, routers, bans>>

InnerExpires(c) == inner[c] = 0 /\ BackendFails(c)

(* Mutant: the response is collected outside the outer timeout. *)
OuterExpires_early(c) ==
  /\ pc[c] \in Waiting /\ outer[c] = 0
  /\ Punish(c, req[c], Sentence("Timeout", 504))
  /\ UNCHANGED <<via, routers, bans>>

(* The outer timeout fires, which is held against the client. *)
OuterExpires(c) ==
  /\ pc[c] \in Timed /\ outer[c] = 0
  /\ Punish(c, req[c], Sentence("Timeout", 504))
  /\ UNCHANGED <<via, routers, bans>>

(* Mutant: the response does not wait for the ban. *)
Insert_unawaited(c) ==
  /\ pc[c] = "punish"
  /\ \/ banned' = banned \cup {get_real_ip(c, req[c])}
     \/ UNCHANGED banned
  /\ owed' = owed \cup {get_real_ip(c, req[c])}
  /\ Answer(c, sentence[c].status)
  /\ UNCHANGED <<via, routers>>

(* BanManager::ban under the write lock; the client is answered afterwards. *)
Insert(c) ==
  /\ pc[c] = "punish"
  /\ banned' = banned \cup {get_real_ip(c, req[c])}
  /\ owed' = owed \cup {get_real_ip(c, req[c])}
  /\ Answer(c, sentence[c].status)
  /\ UNCHANGED <<via, routers>>

BanExpires(i) ==
  /\ i \in banned
  /\ banned' = banned \ {i}
  /\ owed' = owed \ {i}
  /\ UNCHANGED <<pc, via, req, sentence, reply, timers, routers, route>>

(* The connection ends: whatever its handler awaits, its future is dropped. *)
Drop(c) ==
  /\ pc[c] # "closed"
  /\ Goto(c, "closed")
  /\ reply' = [reply EXCEPT ![c] = 0]
  /\ via' = [via EXCEPT ![c] = "http"]
  /\ Forget(c)
  /\ UNCHANGED <<routers, bans>>

(* Time passes; a timer that has run out fires first. *)
Less(n) == IF n > 0 THEN n - 1 ELSE 0
Tick ==
  /\ \A c \in Conns : /\ pc[c] \in Timed => outer[c] > 0
                      /\ pc[c] \in Waiting => inner[c] > 0
  /\ outer' = [c \in Conns |-> Less(outer[c])]
  /\ inner' = [c \in Conns |-> Less(inner[c])]
  /\ UNCHANGED <<pc, via, req, sentence, reply, routers, route, bans>>

-----------------------------------------------------------------------------
(* What the peers, and the backends, do is up to them. *)
Client(c) ==
  \/ \E l \in Listeners : Accept(c, l)
  \/ Open(c) \/ Drop(c) \/ Collect(c) \/ BreakOff(c)
  \/ \E r \in Requests : Redirect(c, r) \/ Receive(c, r)
  \/ \E r \in Requests, limited \in BOOLEAN : Refuse(c, r, limited)
Backend(c) ==
  \/ Connected(c) \/ Switch(c) \/ Fallback(c) \/ BackendFails(c) \/ Collected(c)
  \/ \E text \in BOOLEAN : Response(c, text)

Next ==
  \/ \E c \in Conns :
       \/ Client(c) \/ Backend(c)
       \/ NoUpstream(c) \/ Forward(c) \/ JoinUpgrade(c)
       \/ InnerExpires(c) \/ OuterExpires(c) \/ Insert(c)
  \/ \E i \in IPs : BanExpires(i)
  \/ Tick

Spec == Init /\ [][Next]_vars

(***************************************************************************)
(* The runtime polls what is ready, timers fire and the write lock is fair; *)
(* nothing is assumed of clients and backends.                              *)
(***************************************************************************)
FairSpec ==
  /\ Spec
  /\ WF_vars(Tick)
  /\ \A c \in Conns :
       /\ WF_vars(NoUpstream(c) \/ Forward(c))
       /\ WF_vars(InnerExpires(c))
       /\ WF_vars(OuterExpires(c))
       /\ WF_vars(Insert(c))

-----------------------------------------------------------------------------
(***************************************************************************)
(* A request with one host and one framing that keeps to the limits.        *)
(* max_body_size limits the bodies of POST, PUT and PATCH only; the body of *)
(* any other method is streamed on whatever its size, although              *)
(* config.example.toml calls the setting the "Maximum allowed request body  *)
(* size".                                                                   *)
(***************************************************************************)
WellFormed(r) ==
  /\ ~r.control /\ ~(r.cl /\ r.te)
  /\ r.method \in Methods
  /\ Len(r.hosts) = 1 \/ (r.hosts = <<>> /\ r.authority # "")
  /\ r.headers <= MaxHeaderCount /\ r.uri <= MaxUriSize
  /\ r.method \in Buffered => r.body <= MaxBodySize

(* A request the WAF has nothing against; it sees the bodies of those methods only. *)
Harmless(r) == ~r.suspect /\ (r.method \in Buffered => ~r.payload)

(***************************************************************************)
(* What gets to a backend has passed every check the code has, along every  *)
(* path: it came over TLS, is well formed and, as far as it is inspected,   *)
(* harmless; the body of a POST, PUT or PATCH is complete and inspected     *)
(* before anything is sent (proxy.rs: verify_request, https_proxy).  It     *)
(* does not say that bodies are within max_body_size, nor that they have    *)
(* been inspected: for GET, HEAD, DELETE and OPTIONS neither is so.         *)
(***************************************************************************)
ForwardedChecked ==
  \A c \in Conns : pc[c] \in Timed \cup {"dispatch"} =>
    via[c] = "https" /\ WellFormed(req[c]) /\ Harmless(req[c])

(***************************************************************************)
(* Routing is by longest prefix whatever order the HashMap of the           *)
(* configuration came in: no router of the vhost that matches the path of a *)
(* forwarded request is longer than the one taken (config.rs: load,         *)
(* proxy.rs: https_proxy).                                                  *)
(***************************************************************************)
LongestRoute ==
  \A c \in Conns : pc[c] \in Timed =>
    LET d == get_host(req[c]) IN
    /\ d \in Domains /\ route[c] \in DOMAIN routers[d]
    /\ IsPrefix(routers[d][route[c]], req[c].path)
    /\ \A p \in Routes[d] :
         IsPrefix(p, req[c].path) => Len(p) <= Len(routers[d][route[c]])

(* The request is guilty of what it is sentenced for, or its body broke off. *)
Guilty(r, s) ==
  /\ s.violation = "Protocol" => ~WellFormed(r) \/ s.broken
  /\ s.violation = "Waf" => ~Harmless(r)

(***************************************************************************)
(* A ban for a protocol violation, or for what the WAF found, is for a      *)
(* request that is guilty of that and not of something else that costs a    *)
(* different ban: whatever the order of the checks, a well-formed request   *)
(* up to and including the limits leads to no protocol ban (proxy.rs: the   *)
(* punish calls of verify_request and https_proxy).  Two things it does not *)
(* say: a body that breaks off counts as a protocol violation, whatever     *)
(* broke it; and the address banned is the one CF-Connecting-IP names,      *)
(* which any peer may send, so it need not be that of the sender.           *)
(***************************************************************************)
BansDeserved == \A c \in Conns : pc[c] = "punish" => Guilty(req[c], sentence[c])

(***************************************************************************)
(* A client that has read the refusal of a request cannot come back while   *)
(* the ban lasts: the ban is in the list before the answer leaves, so a     *)
(* connection it opens afterwards is turned away (proxy.rs: punish is       *)
(* awaited before every error response; server.rs: check).                  *)
(***************************************************************************)
RefusedStaysOut ==
  [][\A c \in Conns : pc[c] = "closed" /\ pc'[c] # "closed" => Peer[c] \notin owed]_vars

(* What the configuration allows a backend up to the end of a stage. *)
Allowance ==
  [connect |-> SConnect, upgrade |-> SConnect + SResponse, request |-> SResponse]

(***************************************************************************)
(* A slow backend is not held against the client: before the backend has    *)
(* answered, the outer timeout, which bans, wins only if the timeouts it is *)
(* racing add up to at least as much (as s_response = c_body_timeout of     *)
(* config.example.toml does) (proxy.rs: https_proxy, handle_http,           *)
(* handle_websocket).                                                       *)
(***************************************************************************)
LateBackendForgiven ==
  [][\A c \in Conns :
       pc[c] \in Waiting /\ sentence'[c].violation = "Timeout"
         => Allowance[pc[c]] >= CBodyTimeout]_vars

(***************************************************************************)
(* Every request that has been received in full is answered, or its         *)
(* connection is gone, whatever its client and its backend do or fail to do *)
(* (proxy.rs: https_proxy, handle_http, handle_websocket).                  *)
(***************************************************************************)
RequestsEnd ==
  \A c \in Conns :
    pc[c] \in Timed \cup {"dispatch", "punish"}
      ~> pc[c] \notin Timed \cup {"dispatch", "punish"}

(***************************************************************************)
(* What config.example.toml says of c_body_timeout, "Timeout for reading    *)
(* the entire request body": the collection of a request body ends.  The    *)
(* code starts that timeout after the body has been collected.              *)
(***************************************************************************)
BodyTimed == \A c \in Conns : pc[c] = "body" ~> pc[c] # "body"

(***************************************************************************)
(* What README.md says, "Full support for HTTP/1.1, HTTP/2, and WebSockets":*)
(* a client and a backend that have both switched protocols are piped, not  *)
(* cut off.  The code serves its clients' connections, and drives those to  *)
(* its backends, without upgrades.                                          *)
(***************************************************************************)
UpgradesPiped == \A c \in Conns : pc[c] # "cut"
=============================================================================
