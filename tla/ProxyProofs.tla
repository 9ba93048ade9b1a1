----------------------------- MODULE ProxyProofs -----------------------------
(***************************************************************************)
(* Theorems about the request pipeline, for any connections, requests,      *)
(* routes, limits and timeouts that satisfy ProxyAssumption.                *)
(***************************************************************************)
EXTENDS Proxy, FiniteSetTheorems, WellFoundedInduction, TLAPS

Sentences ==
  [violation : Violations \cup {"none"}, status : Nat, broken : BOOLEAN]

(***************************************************************************)
(* The inductive invariant says the same of every connection, of its stage  *)
(* p, listener v, request r, sentence s, reply y, timers o and i and route  *)
(* k, and is written as a predicate on these values.                        *)
(***************************************************************************)
Typed(p, v, r, s, y, o, i, k) ==
  /\ p \in Stages /\ v \in Listeners /\ r \in Requests \cup {NoRequest}
  /\ s \in Sentences /\ y \in Nat
  /\ o \in 0..CBodyTimeout /\ i \in Nat /\ k \in Nat

(* Two running timers are at least as far apart as the configuration says. *)
Apart(p, s, o, i) ==
  /\ p = "connect" => o - i >= CBodyTimeout - SConnect
  /\ p = "request" => o - i >= CBodyTimeout - SResponse
  /\ p = "upgrade" => o - i >= CBodyTimeout - (SConnect + SResponse)
  /\ p # "punish" => s = NoSentence

(* What verify_request has established before the body is read. *)
CheckedHead(r) ==
  /\ ~r.control /\ ~r.suspect /\ ~(r.cl /\ r.te)
  /\ r.method \in Methods
  /\ Len(r.hosts) = 1 \/ (r.hosts = <<>> /\ r.authority # "")
  /\ r.headers <= MaxHeaderCount /\ r.uri <= MaxUriSize

(* And afterwards. *)
Checked(r) == WellFormed(r) /\ Harmless(r)

Vetted(p, v, r) ==
  /\ p \in Timed \cup {"dispatch", "body"} =>
       r \in Requests /\ v = "https" /\ CheckedHead(r)
  /\ p = "body" => r.method \in Buffered
  /\ p \in Timed \cup {"dispatch"} => Checked(r)

(* Whoever is to be punished deserves it. *)
Deserved(p, r, s) == p = "punish" => Guilty(r, s)

Longest(r, k) ==
  LET d == get_host(r) IN
  /\ d \in Domains /\ k \in DOMAIN routers[d]
  /\ IsPrefix(routers[d][k], r.path)
  /\ \A q \in Routes[d] : IsPrefix(q, r.path) => Len(q) <= Len(routers[d][k])
Matched(p, r, k) == p \in Timed => Longest(r, k)

Local(p, v, r, s, y, o, i, k) ==
  /\ Typed(p, v, r, s, y, o, i, k)
  /\ Apart(p, s, o, i)
  /\ Vetted(p, v, r)
  /\ Deserved(p, r, s)
  /\ Matched(p, r, k)

(* The parts of the state are functions on the connections. *)
Shape ==
  /\ pc = [c \in Conns |-> pc[c]] /\ via = [c \in Conns |-> via[c]]
  /\ req = [c \in Conns |-> req[c]] /\ sentence = [c \in Conns |-> sentence[c]]
  /\ reply = [c \in Conns |-> reply[c]] /\ route = [c \in Conns |-> route[c]]
  /\ outer = [c \in Conns |-> outer[c]] /\ inner = [c \in Conns |-> inner[c]]

Sorted == DOMAIN routers = Domains /\ \A d \in Domains : routers[d] \in sorted_routers(d)

(* A ban a client has been told of is in the list. *)
Told == banned \subseteq IPs /\ owed \subseteq banned

Inv ==
  /\ Shape /\ Sorted /\ Told
  /\ \A c \in Conns : Local(pc[c], via[c], req[c], sentence[c], reply[c],
                            outer[c], inner[c], route[c])

(* One connection takes new values. *)
Update(c, p, v, r, s, y, o, i, k) ==
  /\ pc' = [pc EXCEPT ![c] = p] /\ via' = [via EXCEPT ![c] = v]
  /\ req' = [req EXCEPT ![c] = r] /\ sentence' = [sentence EXCEPT ![c] = s]
  /\ reply' = [reply EXCEPT ![c] = y] /\ route' = [route EXCEPT ![c] = k]
  /\ outer' = [outer EXCEPT ![c] = o] /\ inner' = [inner EXCEPT ![c] = i]

-----------------------------------------------------------------------------
LEMMA Constants ==
  /\ CBodyTimeout \in Nat \ {0} /\ SConnect \in Nat \ {0} /\ SResponse \in Nat \ {0}
  /\ MaxHeaderCount \in Nat /\ MaxUriSize \in Nat /\ MaxBodySize \in Nat
BY ProxyAssumption

LEMMA UpdateKeeps ==
  ASSUME Inv, NEW c \in Conns,
         NEW p, NEW v, NEW r, NEW s, NEW y, NEW o, NEW i, NEW k,
         Update(c, p, v, r, s, y, o, i, k),
         Local(p, v, r, s, y, o, i, k),
         UNCHANGED routers, Told'
  PROVE  Inv'
<1>1. Shape' /\ Sorted'
  BY DEF Inv, Shape, Sorted, Update
<1>2. ASSUME NEW d \in Conns
      PROVE  Local(pc[d], via[d], req[d], sentence[d], reply[d],
                   outer[d], inner[d], route[d])'
  <2>1. \A pp, vv, rr, ss, yy, oo, ii, kk :
          Local(pp, vv, rr, ss, yy, oo, ii, kk)
            => Local(pp, vv, rr, ss, yy, oo, ii, kk)'
    BY DEF Local, Matched, Longest
  <2>2. CASE d = c
    <3>1. /\ pc'[d] = p /\ via'[d] = v /\ req'[d] = r /\ sentence'[d] = s
          /\ reply'[d] = y /\ outer'[d] = o /\ inner'[d] = i /\ route'[d] = k
      BY <2>2 DEF Inv, Shape, Update
    <3> QED
      BY <2>1, <3>1
  <2>3. CASE d # c
    <3>1. /\ pc'[d] = pc[d] /\ via'[d] = via[d] /\ req'[d] = req[d]
          /\ sentence'[d] = sentence[d] /\ reply'[d] = reply[d]
          /\ outer'[d] = outer[d] /\ inner'[d] = inner[d] /\ route'[d] = route[d]
      BY <2>3 DEF Inv, Shape, Update
    <3> QED
      BY <2>1, <3>1 DEF Inv
  <2> QED
    BY <2>2, <2>3
<1> QED
  BY <1>1, <1>2 DEF Inv

-----------------------------------------------------------------------------
(* The first of several numbers is one of them, and none comes before it. *)
LEMMA MinFirst ==
  ASSUME NEW S \in SUBSET Nat, S # {}
  PROVE  Min(S) \in S /\ \A y \in S : Min(S) <= y
<1> DEFINE R == {ss \in Nat \X Nat : ss[1] < ss[2]}
<1>1. IsWellFoundedOn(R, Nat)
  BY NatLessThanWellFounded DEF OpToRel
<1>2. PICK x \in S : \A y \in S : <<y, x>> \notin R
  BY <1>1, WFMin
<1>3. ASSUME NEW y \in S, y < x PROVE FALSE
  <2>1. <<y, x>> \in Nat \X Nat /\ <<y, x>>[1] < <<y, x>>[2]
    BY <1>3
  <2> QED
    BY <1>2, <2>1, Zenon
<1>4. \A y \in S : x <= y
  BY <1>3
<1> QED
  BY <1>4 DEF Min

(* First match is longest match, because the routers are sorted. *)
LEMMA FirstIsLongest ==
  ASSUME Sorted, NEW r, Routed(r)
  PROVE  Min(matches(r)) \in Nat /\ Longest(r, Min(matches(r)))
<1> DEFINE d == get_host(r)
           k == Min(matches(r))
<1>1. d \in Domains /\ matches(r) # {}
  BY DEF Routed
<1>2. /\ routers[d] \in [1..Cardinality(Routes[d]) -> Routes[d]]
      /\ ToSet(routers[d]) = Routes[d]
      /\ \A j, l \in DOMAIN routers[d] : j < l => Len(routers[d][j]) >= Len(routers[d][l])
  BY <1>1 DEF Sorted, sorted_routers
<1>3. Cardinality(Routes[d]) \in Nat /\ Routes[d] \subseteq Seq(STRING)
  BY <1>1, ProxyAssumption, FS_CardinalityType
<1>4. DOMAIN routers[d] \subseteq Nat
  BY <1>2, <1>3
<1>5. k \in matches(r) /\ \A j \in matches(r) : k <= j
  <2>1. matches(r) \in SUBSET Nat
    BY <1>4 DEF matches
  <2> QED
    BY <1>1, <2>1, MinFirst
<1>6. k \in DOMAIN routers[d] /\ IsPrefix(routers[d][k], r.path)
  BY <1>5 DEF matches
<1>7. ASSUME NEW q \in Routes[d], IsPrefix(q, r.path)
      PROVE  Len(q) <= Len(routers[d][k])
  <2>1. PICK j \in DOMAIN routers[d] : routers[d][j] = q
    BY <1>2 DEF ToSet
  <2>2. j \in matches(r)
    BY <1>7, <2>1 DEF matches
  <2>3. k = j \/ k < j
    BY <1>4, <1>5, <1>6, <2>1, <2>2
  <2>4. Len(routers[d][k]) \in Nat /\ Len(q) \in Nat
    BY <1>2, <1>3, <1>6
  <2> QED
    BY <1>2, <1>6, <2>1, <2>3, <2>4
<1> QED
  BY <1>1, <1>4, <1>6, <1>7 DEF Longest

LEMMA Lengths ==
  ASSUME NEW r \in Requests
  PROVE  r.headers \in Nat /\ r.uri \in Nat /\ r.body \in Nat
BY ProxyAssumption

LEMMA Short ==
  ASSUME NEW S, NEW h \in Seq(S)
  PROVE  /\ Len(h) \in Nat
         /\ Len(h) <= 1 => Len(h) = 1 \/ h = <<>>
         /\ Len(h) = 1 => h # <<>> /\ Len(h) <= 1
         /\ h = <<>> => Len(h) <= 1
OBVIOUS

(* What a request has passed that fails no check. *)
LEMMA PassedHead ==
  ASSUME NEW r \in Requests, verify_request(r, FALSE) = {}
  PROVE  CheckedHead(r)
<1>1. validate_uri(r) /\ validate_host(r) /\ validate_smuggling(r)
  <2>1. 2 \in 1..6
    OBVIOUS
  <2> QED
    BY <2>1, Zenon DEF verify_request
<1>2. ~r.suspect
  <2>1. 6 \in 1..6
    OBVIOUS
  <2> QED
    BY <2>1, Zenon DEF verify_request
<1>3. r.method \in Methods
  BY DEF verify_request
<1>4. r.headers <= MaxHeaderCount /\ r.uri <= MaxUriSize
  <2>1. 3 \in 1..6 /\ 4 \in 1..6
    OBVIOUS
  <2>2. ~(r.headers > MaxHeaderCount) /\ ~(r.uri > MaxUriSize)
    BY <2>1, Zenon DEF verify_request
  <2> QED
    BY <2>2, Constants, Lengths
<1>5. Len(r.hosts) = 1 \/ (r.hosts = <<>> /\ r.authority # "")
  <2>1. r.hosts \in Seq(Seq(STRING))
    BY ProxyAssumption
  <2>2. /\ r.hosts # <<>> \/ r.authority # ""
        /\ Len(r.hosts) <= 1
    BY <1>1, <1>3 DEF validate_host, Methods
  <2>3. Len(r.hosts) = 1 \/ r.hosts = <<>>
    BY <2>1, <2>2, Short
  <2> QED
    BY <2>2, <2>3, Zenon
<1> QED
  BY <1>1, <1>2, <1>3, <1>4, <1>5, Zenon DEF CheckedHead, validate_uri, validate_smuggling

(* Sentences, and the two of a kind of their own. *)
LEMMA SentenceType ==
  /\ \A v \in Violations \cup {"none"}, n \in Nat :
       Sentence(v, n) \in Sentences /\ Sentence(v, n).violation = v
  /\ NoSentence \in Sentences /\ NoSentence.violation = "none"
  /\ BrokenOff \in Sentences /\ BrokenOff.violation = "Protocol" /\ BrokenOff.broken
<1>1. ASSUME NEW v \in Violations \cup {"none"}, NEW n \in Nat, NEW b \in BOOLEAN
      PROVE  [violation |-> v, status |-> n, broken |-> b] \in Sentences
  BY DEF Sentences
<1>2. FALSE \in BOOLEAN /\ TRUE \in BOOLEAN /\ 0 \in Nat /\ 413 \in Nat
      /\ "Protocol" \in Violations
  BY DEF Violations
<1>3. BrokenOff = [violation |-> "Protocol", status |-> 413, broken |-> TRUE]
  BY DEF BrokenOff
<1>4. /\ \A v \in Violations \cup {"none"}, n \in Nat : Sentence(v, n) \in Sentences
      /\ NoSentence \in Sentences
  BY <1>1, <1>2, Zenon DEF Sentence, NoSentence
<1>5. BrokenOff \in Sentences
  BY <1>1, <1>2, <1>3, Zenon
<1>6. \A v, n : Sentence(v, n).violation = v
  BY DEF Sentence
<1>7. BrokenOff.violation = "Protocol" /\ BrokenOff.broken
  BY <1>3
<1> QED
  BY <1>4, <1>5, <1>6, <1>7, Zenon DEF NoSentence

(* A request that fails a check is guilty of what the first one it fails says. *)
LEMMA FailedGuilty ==
  ASSUME NEW r \in Requests, NEW limited \in BOOLEAN, verify_request(r, limited) # {}
  PROVE  LET s == Verdicts[Min(verify_request(r, limited))] IN
         s \in Sentences /\ s.violation \in Violations /\ Guilty(r, s)
<1> DEFINE k == Min(verify_request(r, limited))
<1>1. k \in verify_request(r, limited)
  <2>1. verify_request(r, limited) \in SUBSET Nat
    BY DEF verify_request
  <2> QED
    BY <2>1, MinFirst
<1>2. k \in 1..6
  BY <1>1 DEF verify_request
<1>3. Verdicts[k] \in Sentences /\ Verdicts[k].violation \in Violations
  <2>1. \A v \in Violations, n \in Nat :
          Sentence(v, n) \in Sentences /\ Sentence(v, n).violation \in Violations
    BY SentenceType
  <2>2. {"RateLimit", "Protocol", "Waf"} \subseteq Violations
    BY DEF Violations
  <2>3. \E v \in Violations, n \in Nat : Verdicts[k] = Sentence(v, n)
    BY <1>2, <2>2 DEF Verdicts
  <2> QED
    BY <2>1, <2>3
<1>4. /\ k = 1 => Verdicts[k].violation = "RateLimit"
      /\ k \in 2..5 => Verdicts[k].violation = "Protocol"
      /\ k = 6 => Verdicts[k].violation = "Waf"
  BY DEF Verdicts, Sentence
<1>5. k \in 2..5 => ~WellFormed(r)
  <2>1. CASE k = 2
    <3>1. ~(validate_uri(r) /\ validate_host(r) /\ validate_smuggling(r))
      BY <1>1, <2>1 DEF verify_request
    <3>2. ASSUME Len(r.hosts) = 1 \/ (r.hosts = <<>> /\ r.authority # "")
          PROVE  validate_host(r)
      <4>1. r.hosts \in Seq(Seq(STRING))
        BY ProxyAssumption
      <4>2. Len(r.hosts) <= 1
        BY <3>2, <4>1, Short, Zenon
      <4>3. r.hosts # <<>> \/ r.authority # ""
        BY <3>2, <4>1, Short, Zenon
      <4> QED
        BY <4>2, <4>3 DEF validate_host
    <3> QED
      BY <3>1, <3>2, Zenon DEF validate_uri, validate_smuggling, WellFormed
  <2>2. CASE k = 3
    <3>1. ~(r.headers <= MaxHeaderCount)
      BY <1>1, <2>2, Constants, Lengths DEF verify_request
    <3> QED
      BY <3>1, Zenon DEF WellFormed
  <2>3. CASE k = 4
    <3>1. ~(r.uri <= MaxUriSize)
      BY <1>1, <2>3, Constants, Lengths DEF verify_request
    <3> QED
      BY <3>1, Zenon DEF WellFormed
  <2>4. CASE k = 5
    <3>1. r.method \notin Methods
      BY <1>1, <2>4 DEF verify_request
    <3> QED
      BY <3>1, Zenon DEF WellFormed
  <2>5. k \in 2..5 => k = 2 \/ k = 3 \/ k = 4 \/ k = 5
    BY <1>2
  <2> QED
    BY <2>1, <2>2, <2>3, <2>4, <2>5, Zenon
<1>6. k = 6 => ~Harmless(r)
  <2>1. k = 6 => r.suspect
    BY <1>1 DEF verify_request
  <2> QED
    BY <2>1, Zenon DEF Harmless
<1>7. k = 1 \/ k \in 2..5 \/ k = 6
  BY <1>2
<1> HIDE DEF k
<1>8. Guilty(r, Verdicts[k])
  BY <1>4, <1>5, <1>6, <1>7 DEF Guilty
<1> QED
  BY <1>3, <1>8 DEF k
-----------------------------------------------------------------------------
(* The connection of an action, and what the invariant says of it. *)
LEMMA LocalOf ==
  ASSUME Inv, NEW c \in Conns
  PROVE  /\ pc[c] \in Stages /\ via[c] \in Listeners /\ req[c] \in Requests \cup {NoRequest}
         /\ sentence[c] \in Sentences /\ reply[c] \in Nat /\ route[c] \in Nat
         /\ outer[c] \in 0..CBodyTimeout /\ inner[c] \in Nat
         /\ Apart(pc[c], sentence[c], outer[c], inner[c])
         /\ Vetted(pc[c], via[c], req[c])
         /\ Deserved(pc[c], req[c], sentence[c])
         /\ Matched(pc[c], req[c], route[c])
BY DEF Inv, Local, Typed

LEMMA ToldStays == ASSUME Inv, UNCHANGED bans PROVE Told'
BY DEF Inv, Told, bans

(* Outside the stages that carry obligations, only types matter. *)
LEMMA Quiet ==
  ASSUME NEW p \in Stages \ (Timed \cup {"dispatch", "body", "punish"}),
         NEW v \in Listeners, NEW r \in Requests \cup {NoRequest}, NEW y \in Nat,
         NEW o \in 0..CBodyTimeout, NEW i \in Nat, NEW k \in Nat
  PROVE  Local(p, v, r, NoSentence, y, o, i, k)
<1>1. NoSentence \in Sentences
  BY SentenceType
<1>2. Typed(p, v, r, NoSentence, y, o, i, k)
  BY <1>1 DEF Typed
<1>3. p \notin Timed /\ p \notin {"dispatch", "body", "punish"}
  OBVIOUS
<1>4. Apart(p, NoSentence, o, i)
  BY <1>3 DEF Apart, Timed
<1>5. Vetted(p, v, r)
  BY <1>3 DEF Vetted
<1>6. Deserved(p, r, NoSentence) /\ Matched(p, r, k)
  BY <1>3 DEF Deserved, Matched
<1> QED
  BY <1>2, <1>4, <1>5, <1>6 DEF Local

LEMMA AnswerKeeps ==
  ASSUME Inv, NEW c \in Conns, NEW st \in Nat, Answer(c, st),
         UNCHANGED <<via, routers>>, Told'
  PROVE  Inv'
<1>1. Update(c, "idle", via[c], NoRequest, NoSentence, st, 0, 0, 0)
  BY DEF Update, Answer, Goto, Forget, Arm, Inv, Shape
<1>2. "idle" \in Stages \ (Timed \cup {"dispatch", "body", "punish"})
  BY DEF Stages, Timed
<1>3. 0 \in 0..CBodyTimeout /\ 0 \in Nat /\ via[c] \in Listeners
  BY LocalOf, Constants
<1>4. Local("idle", via[c], NoRequest, NoSentence, st, 0, 0, 0)
  BY <1>2, <1>3, Quiet
<1> QED
  BY <1>1, <1>4, UpdateKeeps

LEMMA PunishKeeps ==
  ASSUME Inv, NEW c \in Conns, NEW r \in Requests, NEW s \in Sentences, Guilty(r, s),
         Punish(c, r, s), UNCHANGED <<via, routers>>, Told'
  PROVE  Inv'
<1>1. CASE s.violation \in Banning
  <2>1. Update(c, "punish", via[c], r, s, 0, 0, 0, route[c])
    BY <1>1 DEF Update, Punish, Goto, Arm, Inv, Shape
  <2>2. "punish" \in Stages /\ "punish" \notin Timed
    BY DEF Stages, Timed
  <2>3. Typed("punish", via[c], r, s, 0, 0, 0, route[c])
    BY <2>2, LocalOf, Constants DEF Typed
  <2>4. Apart("punish", s, 0, 0)
    BY DEF Apart
  <2>5. Vetted("punish", via[c], r) /\ Matched("punish", r, route[c])
    BY <2>2 DEF Vetted, Matched
  <2>6. Deserved("punish", r, s)
    BY DEF Deserved
  <2>7. Local("punish", via[c], r, s, 0, 0, 0, route[c])
    BY <2>3, <2>4, <2>5, <2>6 DEF Local
  <2> QED
    BY <2>1, <2>7, UpdateKeeps
<1>2. CASE s.violation \notin Banning
  <2>1. Answer(c, s.status) /\ s.status \in Nat
    BY <1>2 DEF Punish, Sentences
  <2> QED
    BY <2>1, AnswerKeeps
<1> QED
  BY <1>1, <1>2

-----------------------------------------------------------------------------
(* One lemma per action, in the order of the specification. *)
LEMMA AcceptKeeps ==
  ASSUME Inv, NEW c \in Conns, NEW l \in Listeners, Accept(c, l)
  PROVE  Inv'
<1>1. pc[c] = "closed" /\ sentence[c] = NoSentence
  BY LocalOf DEF Accept, Apart
<1>2. Update(c, "door", l, req[c], NoSentence, reply[c], outer[c], inner[c], route[c])
  BY <1>1 DEF Update, Accept, Goto, timers, Inv, Shape
<1>3. "door" \in Stages \ (Timed \cup {"dispatch", "body", "punish"})
  BY DEF Stages, Timed
<1>4. Local("door", l, req[c], NoSentence, reply[c], outer[c], inner[c], route[c])
  BY <1>3, Quiet, LocalOf
<1> QED
  BY <1>2, <1>4, UpdateKeeps, ToldStays DEF Accept

LEMMA OpenKeeps ==
  ASSUME Inv, NEW c \in Conns, Open(c)
  PROVE  Inv'
<1>1. sentence[c] = NoSentence
  BY LocalOf DEF Open, Apart
<1>2. Update(c, "idle", via[c], req[c], NoSentence, reply[c], outer[c], inner[c], route[c])
  BY <1>1 DEF Update, Open, Goto, timers, Inv, Shape
<1>3. "idle" \in Stages \ (Timed \cup {"dispatch", "body", "punish"})
  BY DEF Stages, Timed
<1>4. Local("idle", via[c], req[c], NoSentence, reply[c], outer[c], inner[c], route[c])
  BY <1>3, Quiet, LocalOf
<1> QED
  BY <1>2, <1>4, UpdateKeeps, ToldStays DEF Open

LEMMA RefuseKeeps ==
  ASSUME Inv, NEW c \in Conns, NEW r \in Requests, NEW limited \in BOOLEAN,
         Refuse(c, r, limited)
  PROVE  Inv'
<1> DEFINE s == Verdicts[Min(verify_request(r, limited))]
<1>1. s \in Sentences /\ Guilty(r, s)
  BY FailedGuilty DEF Refuse
<1> QED
  BY <1>1, PunishKeeps, ToldStays DEF Refuse

LEMMA RedirectKeeps ==
  ASSUME Inv, NEW c \in Conns, NEW r \in Requests, Redirect(c, r)
  PROVE  Inv'
BY AnswerKeeps, ToldStays DEF Redirect

LEMMA ReceiveKeeps ==
  ASSUME Inv, NEW c \in Conns, NEW r \in Requests, Receive(c, r)
  PROVE  Inv'
<1> DEFINE p == IF r.method \in Buffered THEN "body" ELSE "dispatch"
<1>1. via[c] = "https" /\ CheckedHead(r) /\ sentence[c] = NoSentence
  BY PassedHead, LocalOf DEF Receive, Apart
<1>2. Update(c, p, via[c], r, NoSentence, 0, outer[c], inner[c], route[c])
  BY <1>1 DEF Update, Receive, Goto, timers, Inv, Shape
<1>3. p \in {"body", "dispatch"} /\ p \in Stages /\ p \notin Timed /\ p # "punish"
  BY DEF Stages, Timed
<1>4. NoSentence \in Sentences
  BY SentenceType
<1>5. Typed(p, via[c], r, NoSentence, 0, outer[c], inner[c], route[c])
  BY <1>3, <1>4, LocalOf DEF Typed
<1>6. Apart(p, NoSentence, outer[c], inner[c]) /\ Deserved(p, r, NoSentence) /\ Matched(p, r, route[c])
  BY <1>3 DEF Apart, Deserved, Matched, Timed
<1>7. Vetted(p, via[c], r)
  <2>1. r.method \notin Buffered => Checked(r)
    BY <1>1, Zenon DEF CheckedHead, Checked, WellFormed, Harmless
  <2>2. p = "body" => r.method \in Buffered
    OBVIOUS
  <2>3. p \in Timed \cup {"dispatch"} => Checked(r)
    BY <1>3, <2>1
  <2> QED
    BY <1>1, <2>2, <2>3, Zenon DEF Vetted
<1>8. Local(p, via[c], r, NoSentence, 0, outer[c], inner[c], route[c])
  BY <1>5, <1>6, <1>7 DEF Local
<1> QED
  BY <1>2, <1>8, UpdateKeeps, ToldStays DEF Receive

(* A request at a stage past verify_request is one of the requests. *)
LEMMA RequestOf ==
  ASSUME Inv, NEW c \in Conns, pc[c] \in Timed \cup {"dispatch", "body"}
  PROVE  req[c] \in Requests /\ sentence[c] = NoSentence /\ CheckedHead(req[c])
<1>1. pc[c] # "punish"
  BY DEF Timed
<1> QED
  BY <1>1, LocalOf DEF Vetted, Apart

LEMMA CollectKeeps ==
  ASSUME Inv, NEW c \in Conns, Collect(c)
  PROVE  Inv'
<1>1. pc[c] = "body" /\ UNCHANGED <<via, routers>> /\ Told'
  BY ToldStays DEF Collect
<1>2. req[c] \in Requests /\ sentence[c] = NoSentence /\ CheckedHead(req[c])
  BY <1>1, RequestOf
<1>3. req[c].method \in Buffered /\ via[c] = "https"
  BY <1>1, LocalOf DEF Vetted
<1>4. /\ Sentence("Protocol", 413) \in Sentences /\ Sentence("Waf", 403) \in Sentences
      /\ Sentence("Protocol", 413).violation = "Protocol"
      /\ Sentence("Waf", 403).violation = "Waf"
  BY DEF Sentence, Sentences, Violations
<1>5. CASE req[c].body > MaxBodySize /\ Punish(c, req[c], Sentence("Protocol", 413))
  <2>3. ~(req[c].body <= MaxBodySize)
    BY <1>2, <1>5, ProxyAssumption
  <2>2. ~WellFormed(req[c])
    BY <1>3, <2>3, Zenon DEF WellFormed
  <2>1. Guilty(req[c], Sentence("Protocol", 413))
    BY <1>4, <2>2 DEF Guilty
  <2> QED
    BY <1>1, <1>2, <1>4, <1>5, <2>1, PunishKeeps
<1>6. CASE req[c].payload /\ Punish(c, req[c], Sentence("Waf", 403))
  <2>1. Guilty(req[c], Sentence("Waf", 403))
    <3>1. ~Harmless(req[c])
      BY <1>3, <1>6, Zenon DEF Harmless
    <3> QED
      BY <1>4, <3>1 DEF Guilty
  <2> QED
    BY <1>1, <1>2, <1>4, <1>6, <2>1, PunishKeeps
<1>7. CASE /\ req[c].body <= MaxBodySize /\ ~req[c].payload
           /\ Goto(c, "dispatch")
           /\ UNCHANGED <<req, sentence, reply, timers, route>>
  <2>1. Update(c, "dispatch", via[c], req[c], NoSentence, reply[c], outer[c], inner[c], route[c])
    BY <1>1, <1>2, <1>7 DEF Update, Goto, timers, Inv, Shape
  <2>2. Checked(req[c])
    BY <1>2, <1>7, Zenon DEF CheckedHead, Checked, WellFormed, Harmless
  <2>3. "dispatch" \in Stages /\ "dispatch" \notin Timed
    BY DEF Stages, Timed
  <2>4. NoSentence \in Sentences
    BY SentenceType
  <2>5. Typed("dispatch", via[c], req[c], NoSentence, reply[c], outer[c], inner[c], route[c])
    BY <2>3, <2>4, LocalOf DEF Typed
  <2>6. /\ Apart("dispatch", NoSentence, outer[c], inner[c])
        /\ Deserved("dispatch", req[c], NoSentence) /\ Matched("dispatch", req[c], route[c])
    BY <2>3 DEF Apart, Deserved, Matched
  <2>7. Vetted("dispatch", via[c], req[c])
    BY <1>2, <1>3, <2>2 DEF Vetted
  <2>8. Local("dispatch", via[c], req[c], NoSentence, reply[c], outer[c], inner[c], route[c])
    BY <2>5, <2>6, <2>7 DEF Local
  <2> QED
    BY <1>1, <2>1, <2>8, UpdateKeeps
<1> QED
  BY <1>5, <1>6, <1>7 DEF Collect

LEMMA BreakOffKeeps ==
  ASSUME Inv, NEW c \in Conns, BreakOff(c)
  PROVE  Inv'
<1>1. pc[c] = "body" /\ UNCHANGED <<via, routers>> /\ Told'
  BY ToldStays DEF BreakOff
<1>2. req[c] \in Requests
  BY <1>1, RequestOf
<1>3. BrokenOff \in Sentences /\ BrokenOff.violation = "Protocol" /\ BrokenOff.broken
  BY SentenceType
<1>4. Guilty(req[c], BrokenOff)
  BY <1>3, Zenon DEF Guilty
<1> QED
  BY <1>1, <1>2, <1>3, <1>4, PunishKeeps DEF BreakOff

(***************************************************************************)
(* A connection that is at, or gets to, a stage inside the outer timeout,   *)
(* with a request that may be there.                                        *)
(***************************************************************************)
LEMMA TimedKeeps ==
  ASSUME Inv, NEW c \in Conns, pc[c] \in Timed \cup {"dispatch"},
         NEW p \in Timed, NEW o \in 0..CBodyTimeout, NEW i \in Nat, NEW k \in Nat,
         Update(c, p, via[c], req[c], sentence[c], reply[c], o, i, k),
         Apart(p, NoSentence, o, i), Longest(req[c], k),
         UNCHANGED <<routers, bans>>
  PROVE  Inv'
<1>1. req[c] \in Requests /\ sentence[c] = NoSentence /\ CheckedHead(req[c])
  BY RequestOf
<1>2. p \in Stages /\ p # "punish" /\ p # "body"
  BY DEF Stages, Timed
<1>3. Typed(p, via[c], req[c], NoSentence, reply[c], o, i, k)
  BY <1>1, <1>2, LocalOf DEF Typed
<1>4. via[c] = "https" /\ Checked(req[c])
  BY LocalOf DEF Vetted
<1>5. Vetted(p, via[c], req[c])
  BY <1>1, <1>2, <1>4 DEF Vetted
<1>6. Deserved(p, req[c], NoSentence) /\ Matched(p, req[c], k)
  BY <1>2 DEF Deserved, Matched
<1>7. Local(p, via[c], req[c], NoSentence, reply[c], o, i, k)
  BY <1>3, <1>5, <1>6 DEF Local
<1>8. Told'
  BY ToldStays
<1> QED
  BY <1>1, <1>7, <1>8, UpdateKeeps

LEMMA ForwardKeeps ==
  ASSUME Inv, NEW c \in Conns, Forward(c)
  PROVE  Inv'
<1> DEFINE k == Min(matches(req[c]))
<1>1. k \in Nat /\ Longest(req[c], k)
  BY FirstIsLongest DEF Inv, Forward
<1>2. CBodyTimeout \in 0..CBodyTimeout /\ SConnect \in Nat /\ SResponse \in Nat
  BY Constants
<1>3. CASE is_websocket(req[c])
  <2>1. Update(c, "connect", via[c], req[c], sentence[c], reply[c], CBodyTimeout, SConnect, k)
    BY <1>3 DEF Update, Forward, Goto, Arm, Inv, Shape
  <2>2. Apart("connect", NoSentence, CBodyTimeout, SConnect)
    BY <1>2 DEF Apart
  <2>3. "connect" \in Timed
    BY DEF Timed
  <2> QED
    BY <1>1, <1>2, <2>1, <2>2, <2>3, TimedKeeps DEF Forward
<1>4. CASE ~is_websocket(req[c])
  <2>1. Update(c, "request", via[c], req[c], sentence[c], reply[c], CBodyTimeout, SResponse, k)
    BY <1>4 DEF Update, Forward, Goto, Arm, Inv, Shape
  <2>2. Apart("request", NoSentence, CBodyTimeout, SResponse)
    BY <1>2 DEF Apart
  <2>3. "request" \in Timed
    BY DEF Timed
  <2> QED
    BY <1>1, <1>2, <2>1, <2>2, <2>3, TimedKeeps DEF Forward
<1> QED
  BY <1>3, <1>4

LEMMA ResponseKeeps ==
  ASSUME Inv, NEW c \in Conns, NEW text \in BOOLEAN, Response(c, text)
  PROVE  Inv'
<1>1. pc[c] \in Timed /\ "collect" \in Timed
  BY DEF Response, Timed
<1>2. CASE /\ Goto(c, "collect") /\ Arm(c, outer[c], 0)
           /\ UNCHANGED <<req, sentence, reply, route>>
  <2>1. Update(c, "collect", via[c], req[c], sentence[c], reply[c], outer[c], 0, route[c])
    BY <1>2 DEF Update, Response, Goto, Arm, Inv, Shape
  <2>2. Apart("collect", NoSentence, outer[c], 0)
    BY DEF Apart
  <2>3. Longest(req[c], route[c]) /\ route[c] \in Nat /\ outer[c] \in 0..CBodyTimeout
    BY <1>1, LocalOf DEF Matched
  <2> QED
    BY <1>1, <2>1, <2>2, <2>3, TimedKeeps DEF Response
<1>3. CASE Answer(c, 200)
  BY <1>3, AnswerKeeps, ToldStays DEF Response
<1> QED
  BY <1>2, <1>3 DEF Response

LEMMA ConnectedKeeps ==
  ASSUME Inv, NEW c \in Conns, Connected(c)
  PROVE  Inv'
<1>1. pc[c] = "connect" /\ pc[c] \in Timed /\ "upgrade" \in Timed
  BY DEF Connected, Timed
<1>2. Update(c, "upgrade", via[c], req[c], sentence[c], reply[c], outer[c], SResponse, route[c])
  BY DEF Update, Connected, Goto, Arm, Inv, Shape
<1>3. outer[c] \in 0..CBodyTimeout /\ inner[c] \in Nat /\ SResponse \in Nat
  BY LocalOf, Constants
<1>4. outer[c] - inner[c] >= CBodyTimeout - SConnect
  BY <1>1, LocalOf DEF Apart
<1>5. outer[c] - SResponse >= CBodyTimeout - (SConnect + SResponse)
  BY <1>3, <1>4, Constants
<1>6. Apart("upgrade", NoSentence, outer[c], SResponse)
  BY <1>5 DEF Apart
<1>7. Longest(req[c], route[c]) /\ route[c] \in Nat
  BY <1>1, LocalOf DEF Matched
<1> QED
  BY <1>1, <1>2, <1>3, <1>6, <1>7, TimedKeeps DEF Connected

(* The answers that punish nobody. *)
LEMMA AnsweredKeeps ==
  ASSUME Inv, NEW c \in Conns,
         \/ NoUpstream(c) \/ Collected(c) \/ Fallback(c) \/ BackendFails(c)
  PROVE  Inv'
<1>1. \E st \in Nat : Answer(c, st)
  BY DEF NoUpstream, Collected, Fallback, BackendFails
<1>2. UNCHANGED <<via, routers>> /\ UNCHANGED bans
  BY DEF NoUpstream, Collected, Fallback, BackendFails
<1> QED
  BY <1>1, <1>2, AnswerKeeps, ToldStays

LEMMA SwitchKeeps ==
  ASSUME Inv, NEW c \in Conns, Switch(c)
  PROVE  Inv'
<1>1. Update(c, "switching", via[c], NoRequest, NoSentence, 101, 0, 0, 0)
  BY DEF Update, Switch, Goto, Forget, Arm, Inv, Shape
<1>2. "switching" \in Stages \ (Timed \cup {"dispatch", "body", "punish"})
  BY DEF Stages, Timed
<1>3. 0 \in 0..CBodyTimeout /\ 0 \in Nat /\ 101 \in Nat /\ via[c] \in Listeners
  BY LocalOf, Constants
<1>4. Local("switching", via[c], NoRequest, NoSentence, 101, 0, 0, 0)
  BY <1>2, <1>3, Quiet
<1> QED
  BY <1>1, <1>4, UpdateKeeps, ToldStays DEF Switch

LEMMA JoinUpgradeKeeps ==
  ASSUME Inv, NEW c \in Conns, JoinUpgrade(c)
  PROVE  Inv'
<1>1. sentence[c] = NoSentence
  BY LocalOf DEF JoinUpgrade, Apart
<1>2. Update(c, "cut", via[c], req[c], NoSentence, reply[c], outer[c], inner[c], route[c])
  BY <1>1 DEF Update, JoinUpgrade, ClientUpgrades, Goto, timers, Inv, Shape
<1>3. "cut" \in Stages \ (Timed \cup {"dispatch", "body", "punish"})
  BY DEF Stages, Timed
<1>4. Local("cut", via[c], req[c], NoSentence, reply[c], outer[c], inner[c], route[c])
  BY <1>3, Quiet, LocalOf
<1> QED
  BY <1>2, <1>4, UpdateKeeps, ToldStays DEF JoinUpgrade

LEMMA OuterExpiresKeeps ==
  ASSUME Inv, NEW c \in Conns, OuterExpires(c)
  PROVE  Inv'
<1>1. req[c] \in Requests
  BY RequestOf DEF OuterExpires
<1>2. Sentence("Timeout", 504) \in Sentences
  BY DEF Sentence, Sentences, Violations
<1>3. Sentence("Timeout", 504).violation = "Timeout"
  BY DEF Sentence
<1>4. Guilty(req[c], Sentence("Timeout", 504))
  BY <1>3, Zenon DEF Guilty
<1> QED
  BY <1>1, <1>2, <1>4, PunishKeeps, ToldStays DEF OuterExpires

LEMMA InsertKeeps ==
  ASSUME Inv, NEW c \in Conns, Insert(c)
  PROVE  Inv'
<1>1. get_real_ip(c, req[c]) \in IPs
  BY ProxyAssumption DEF get_real_ip
<1>2. Told'
  BY <1>1 DEF Insert, Inv, Told
<1>3. sentence[c].status \in Nat
  BY LocalOf DEF Sentences
<1> QED
  BY <1>2, <1>3, AnswerKeeps DEF Insert

LEMMA DropKeeps ==
  ASSUME Inv, NEW c \in Conns, Drop(c)
  PROVE  Inv'
<1>1. Update(c, "closed", "http", NoRequest, NoSentence, 0, 0, 0, 0)
  BY DEF Update, Drop, Goto, Forget, Arm, Inv, Shape
<1>2. "closed" \in Stages \ (Timed \cup {"dispatch", "body", "punish"})
  BY DEF Stages, Timed
<1>3. 0 \in 0..CBodyTimeout /\ 0 \in Nat /\ "http" \in Listeners
  BY Constants DEF Listeners
<1>4. Local("closed", "http", NoRequest, NoSentence, 0, 0, 0, 0)
  BY <1>2, <1>3, Quiet
<1> QED
  BY <1>1, <1>4, UpdateKeeps, ToldStays DEF Drop

(* A step that leaves the connections alone but for their timers. *)
LEMMA TimersKeep ==
  ASSUME Inv, UNCHANGED <<pc, via, req, sentence, reply, routers, route>>, Told',
         outer' = [c \in Conns |-> outer'[c]], inner' = [c \in Conns |-> inner'[c]],
         \A c \in Conns : /\ outer'[c] \in 0..CBodyTimeout /\ inner'[c] \in Nat
                          /\ Apart(pc[c], sentence[c], outer'[c], inner'[c])
  PROVE  Inv'
<1>1. Shape'
  BY DEF Inv, Shape
<1>2. Sorted'
  BY DEF Inv, Sorted
<1>3. ASSUME NEW c \in Conns
      PROVE  Local(pc[c], via[c], req[c], sentence[c], reply[c],
                   outer[c], inner[c], route[c])'
  <2>1. Typed(pc[c], via[c], req[c], sentence[c], reply[c], outer[c], inner[c], route[c])'
    BY LocalOf DEF Typed
  <2>2. Apart(pc[c], sentence[c], outer[c], inner[c])'
    OBVIOUS
  <2>3. Vetted(pc[c], via[c], req[c])' /\ Deserved(pc[c], req[c], sentence[c])'
    BY LocalOf
  <2>4. Matched(pc[c], req[c], route[c])'
    BY LocalOf DEF Matched, Longest
  <2> QED
    BY <2>1, <2>2, <2>3, <2>4 DEF Local
<1> QED
  BY <1>1, <1>2, <1>3 DEF Inv

LEMMA TickKeeps == ASSUME Inv, Tick PROVE Inv'
<1>1. ASSUME NEW c \in Conns
      PROVE  /\ outer'[c] \in 0..CBodyTimeout /\ inner'[c] \in Nat
             /\ Apart(pc[c], sentence[c], outer'[c], inner'[c])
  <2>1. outer[c] \in 0..CBodyTimeout /\ inner[c] \in Nat /\ Apart(pc[c], sentence[c], outer[c], inner[c])
    BY LocalOf
  <2>2. outer'[c] = Less(outer[c]) /\ inner'[c] = Less(inner[c])
    BY DEF Tick
  <2>3. outer'[c] \in 0..CBodyTimeout /\ inner'[c] \in Nat
    BY <2>1, <2>2, Constants DEF Less
  <2>4. pc[c] \in Waiting => outer'[c] - inner'[c] = outer[c] - inner[c]
    BY <2>1, <2>2, Constants DEF Less, Tick, Waiting
  <2>5. pc[c] \in {"connect", "request", "upgrade"} => pc[c] \in Waiting
    BY DEF Waiting, Timed
  <2> QED
    BY <2>1, <2>3, <2>4, <2>5 DEF Apart
<1>2. outer' = [c \in Conns |-> outer'[c]] /\ inner' = [c \in Conns |-> inner'[c]]
  BY DEF Tick
<1>3. Told'
  BY ToldStays DEF Tick
<1> QED
  BY <1>1, <1>2, <1>3, TimersKeep DEF Tick

LEMMA BanExpiresKeeps == ASSUME Inv, NEW i \in IPs, BanExpires(i) PROVE Inv'
<1>1. Told'
  BY DEF BanExpires, Inv, Told
<1>2. UNCHANGED <<outer, inner>>
  BY DEF BanExpires, timers
<1>3. outer' = [c \in Conns |-> outer'[c]] /\ inner' = [c \in Conns |-> inner'[c]]
  BY <1>2 DEF Inv, Shape
<1> QED
  BY <1>1, <1>2, <1>3, LocalOf, TimersKeep DEF BanExpires

-----------------------------------------------------------------------------
LEMMA InvInit == Init => Inv
<1> SUFFICES ASSUME Init PROVE Inv
  OBVIOUS
<1>1. Shape
  BY DEF Init, Shape
<1>2. Sorted /\ Told
  BY DEF Init, Sorted, Told
<1>3. "closed" \in Stages \ (Timed \cup {"dispatch", "body", "punish"})
  BY DEF Stages, Timed
<1>4. 0 \in 0..CBodyTimeout /\ 0 \in Nat /\ "http" \in Listeners
  BY Constants DEF Listeners
<1>5. Local("closed", "http", NoRequest, NoSentence, 0, 0, 0, 0)
  BY <1>3, <1>4, Quiet
<1>6. ASSUME NEW c \in Conns
      PROVE  Local(pc[c], via[c], req[c], sentence[c], reply[c], outer[c], inner[c], route[c])
  <2>1. /\ pc[c] = "closed" /\ via[c] = "http" /\ req[c] = NoRequest /\ sentence[c] = NoSentence
        /\ reply[c] = 0 /\ outer[c] = 0 /\ inner[c] = 0 /\ route[c] = 0
    BY DEF Init
  <2> QED
    BY <1>5, <2>1
<1> QED
  BY <1>1, <1>2, <1>6 DEF Inv

(* The actions of the specification, for a proof to go through. *)
LEMMA NextCases ==
  ASSUME Next
  PROVE  \/ \E c \in Conns :
              \/ \E l \in Listeners : Accept(c, l)
              \/ Open(c) \/ Drop(c) \/ Collect(c) \/ BreakOff(c) \/ Connected(c) \/ Switch(c)
              \/ NoUpstream(c) \/ Collected(c) \/ Fallback(c) \/ BackendFails(c)
              \/ Forward(c) \/ JoinUpgrade(c) \/ OuterExpires(c) \/ Insert(c)
              \/ \E r \in Requests : Redirect(c, r) \/ Receive(c, r)
              \/ \E r \in Requests, limited \in BOOLEAN : Refuse(c, r, limited)
              \/ \E text \in BOOLEAN : Response(c, text)
         \/ \E i \in IPs : BanExpires(i)
         \/ Tick
BY Zenon DEF Next, Client, Backend, InnerExpires

LEMMA InvNext == Inv /\ [Next]_vars => Inv'
<1> SUFFICES ASSUME Inv, [Next]_vars PROVE Inv'
  OBVIOUS
<1>1. CASE UNCHANGED vars
  BY <1>1 DEF vars, Inv, Shape, Sorted, Told, Local, Matched, Longest
<1>2. CASE Next
  BY <1>2, NextCases, AcceptKeeps, OpenKeeps, DropKeeps, CollectKeeps, BreakOffKeeps, ConnectedKeeps,
     SwitchKeeps, AnsweredKeeps, ForwardKeeps, JoinUpgradeKeeps, OuterExpiresKeeps,
     InsertKeeps, RedirectKeeps, ReceiveKeeps, RefuseKeeps, ResponseKeeps,
     BanExpiresKeeps, TickKeeps, ZenonT(60)
<1> QED
  BY <1>1, <1>2

LEMMA Always == Spec => []Inv
BY InvInit, InvNext, PTL DEF Spec

-----------------------------------------------------------------------------
(***************************************************************************)
(* The handlers keep to their types; in particular the outer timeout never  *)
(* runs longer than c_body_timeout and the routers stay sorted.             *)
(***************************************************************************)
THEOREM ProxyTypeCorrect == Spec => []TypeOK
<1>1. Inv => TypeOK
  <2> SUFFICES ASSUME Inv PROVE TypeOK
    OBVIOUS
  <2>1. pc \in [Conns -> Stages] /\ via \in [Conns -> Listeners]
    BY LocalOf DEF Inv, Shape
  <2>2. req \in [Conns -> Requests \cup {NoRequest}]
    BY LocalOf DEF Inv, Shape
  <2>3. sentence \in [Conns -> Sentences] /\ reply \in [Conns -> Nat]
    BY LocalOf DEF Inv, Shape
  <2>4. /\ outer \in [Conns -> 0..CBodyTimeout] /\ inner \in [Conns -> Nat]
        /\ route \in [Conns -> Nat]
    BY LocalOf DEF Inv, Shape
  <2>5. /\ DOMAIN routers = Domains /\ \A d \in Domains : routers[d] \in sorted_routers(d)
        /\ banned \subseteq IPs /\ owed \subseteq IPs
    BY DEF Inv, Sorted, Told
  <2> QED
    BY <2>1, <2>2, <2>3, <2>4, <2>5, Zenon DEF TypeOK, Sentences
<1> QED
  BY <1>1, Always, PTL

(***************************************************************************)
(* No request reaches routing or a backend that fails a check of            *)
(* verify_request, and no POST, PUT or PATCH whose body is larger than      *)
(* max_body_size or not to the WAF's liking.  Of the bodies of the other    *)
(* methods it says nothing: they are neither limited nor inspected.         *)
(***************************************************************************)
THEOREM OnlyCheckedForwarded == Spec => []ForwardedChecked
<1>1. Inv => ForwardedChecked
  <2> SUFFICES ASSUME Inv, NEW c \in Conns, pc[c] \in Timed \cup {"dispatch"}
               PROVE  via[c] = "https" /\ Checked(req[c])
    BY DEF ForwardedChecked, Checked
  <2> QED
    BY LocalOf DEF Vetted
<1> QED
  BY <1>1, Always, PTL

(***************************************************************************)
(* The loop of https_proxy, which stops at the first router that matches,   *)
(* finds the longest one for every table of routers.                        *)
(***************************************************************************)
THEOREM LongestPrefixRouting == Spec => []LongestRoute
<1>1. Inv => LongestRoute
  <2> SUFFICES ASSUME Inv, NEW c \in Conns, pc[c] \in Timed
               PROVE  Longest(req[c], route[c])
    BY DEF LongestRoute, Longest
  <2> QED
    BY LocalOf DEF Matched
<1> QED
  BY <1>1, Always, PTL

(***************************************************************************)
(* Nobody is banned for a protocol violation whose request is well formed   *)
(* and whose body did not break off, nor by the WAF for a request it has    *)
(* nothing against, for any limits and requests (the punish calls of        *)
(* proxy.rs).                                                               *)
(***************************************************************************)
THEOREM BansOnlyDeserved == Spec => []BansDeserved
<1>1. Inv => BansDeserved
  BY LocalOf DEF BansDeserved, Deserved
<1> QED
  BY <1>1, Always, PTL

(***************************************************************************)
(* A client that has been told of its ban opens no connection while it      *)
(* lasts, because the ban is in the list before the answer is sent.         *)
(***************************************************************************)
THEOREM RefusedOutside == Spec => RefusedStaysOut
<1>1. ASSUME Inv, Next, NEW c \in Conns, pc[c] = "closed", pc'[c] # "closed"
      PROVE  Peer[c] \notin owed
  <2>1. \/ \E l \in Listeners : Accept(c, l)
        \/ \E d \in Conns : pc[d] # "closed" /\ \E p : Goto(d, p)
        \/ UNCHANGED pc
    <3> SUFFICES ASSUME ~UNCHANGED pc
                 PROVE  \/ \E l \in Listeners : Accept(c, l)
                        \/ \E d \in Conns : pc[d] # "closed" /\ \E p : Goto(d, p)
      OBVIOUS
    <3>1. PICK d \in Conns :
              \/ \E l \in Listeners : Accept(d, l)
              \/ Open(d) \/ Drop(d) \/ Collect(d) \/ BreakOff(d) \/ Connected(d) \/ Switch(d)
              \/ NoUpstream(d) \/ Collected(d) \/ Fallback(d) \/ BackendFails(d)
              \/ Forward(d) \/ JoinUpgrade(d) \/ OuterExpires(d) \/ Insert(d)
              \/ \E r \in Requests : Redirect(d, r) \/ Receive(d, r)
              \/ \E r \in Requests, limited \in BOOLEAN : Refuse(d, r, limited)
              \/ \E text \in BOOLEAN : Response(d, text)
      BY <1>1, NextCases DEF BanExpires, Tick
    <3>2. CASE \E l \in Listeners : Accept(d, l)
      BY <1>1, <3>2 DEF Accept, Goto, Inv, Shape
    <3>3. CASE ~\E l \in Listeners : Accept(d, l)
      <4>1. "closed" \notin Timed /\ "closed" \notin Waiting
        BY DEF Timed, Waiting
      <4>2. pc[d] # "closed"
        BY <3>1, <3>3, <4>1 DEF Open, Drop, Collect, BreakOff, Connected, Switch, NoUpstream, Collected,
           Fallback, BackendFails, Forward, JoinUpgrade, OuterExpires, Insert, Redirect,
           Receive, Refuse, Response
      <4>3. \E p : Goto(d, p)
        BY <3>1, <3>3, ZenonT(60) DEF Open, Drop, Collect, BreakOff, Connected, Switch, NoUpstream, Collected,
           Fallback, BackendFails, Forward, JoinUpgrade, OuterExpires, Insert, Redirect,
           Receive, Refuse, Response, Punish, Answer
      <4> QED
        BY <4>2, <4>3
    <3> QED
      BY <3>2, <3>3
  <2>2. \A d, p : Goto(d, p) /\ d # c => pc'[c] = pc[c]
    BY <1>1 DEF Goto, Inv, Shape
  <2>3. \E l \in Listeners : Accept(c, l)
    BY <1>1, <2>1, <2>2
  <2> QED
    BY <1>1, <2>3 DEF Accept, Inv, Told
<1>2. Inv /\ [Next]_vars =>
        [\A c \in Conns : pc[c] = "closed" /\ pc'[c] # "closed" => Peer[c] \notin owed]_vars
  BY <1>1, Zenon
<1> QED
  BY <1>2, Always, PTL DEF Spec, RefusedStaysOut

(* Who changes a sentence: a handler that waits for a backend only by its timeout. *)
LEMMA SentenceSteps ==
  ASSUME Next
  PROVE  \/ UNCHANGED sentence
         \/ \E d \in Conns : \E s :
              /\ sentence' = [sentence EXCEPT ![d] = s]
              /\ s = NoSentence \/ OuterExpires(d) \/ pc[d] \notin Waiting
<1>1. "idle" \notin Waiting /\ "body" \notin Waiting
  BY DEF Waiting, Timed
<1>2. \A d, r, s : Punish(d, r, s) => \E t : sentence' = [sentence EXCEPT ![d] = t]
  BY Zenon DEF Punish, Answer, Forget
<1>3. CASE \E d \in Conns : OuterExpires(d)
  BY <1>2, <1>3, Zenon DEF OuterExpires
<1>4. CASE \E d \in Conns, r \in Requests, limited \in BOOLEAN : Refuse(d, r, limited)
  BY <1>1, <1>2, <1>4, Zenon DEF Refuse
<1>5. CASE \E d \in Conns : Collect(d) \/ BreakOff(d)
  BY <1>1, <1>2, <1>5, Zenon DEF Collect, BreakOff
<1>6. CASE \E d \in Conns :
             \/ Drop(d) \/ Switch(d) \/ NoUpstream(d) \/ Collected(d) \/ Fallback(d)
             \/ BackendFails(d) \/ Insert(d) \/ \E r \in Requests : Redirect(d, r)
  BY <1>6, Zenon DEF Drop, Switch, NoUpstream, Collected, Fallback, BackendFails, Insert,
     Redirect, Answer, Forget
<1>7. CASE \E d \in Conns, text \in BOOLEAN : Response(d, text)
  BY <1>7, Zenon DEF Response, Answer, Forget
<1>8. CASE \/ \E d \in Conns :
                \/ \E l \in Listeners : Accept(d, l)
                \/ Open(d) \/ Connected(d) \/ Forward(d) \/ JoinUpgrade(d)
                \/ \E r \in Requests : Receive(d, r)
           \/ \E i \in IPs : BanExpires(i)
           \/ Tick
  BY <1>8, Zenon DEF Accept, Open, Connected, Forward, JoinUpgrade, Receive, BanExpires, Tick
<1> QED
  BY NextCases, <1>3, <1>4, <1>5, <1>6, <1>7, <1>8, ZenonT(60)

(***************************************************************************)
(* For every configuration of the timeouts: a client is punished for a      *)
(* backend that has not answered only if the timeouts of the backend add up *)
(* to c_body_timeout or more.                                               *)
(***************************************************************************)
THEOREM LateBackendNotHeldAgainst == Spec => LateBackendForgiven
<1>1. ASSUME Inv, Next, NEW c \in Conns, pc[c] \in Waiting, sentence'[c].violation = "Timeout"
      PROVE  Allowance[pc[c]] >= CBodyTimeout
  <2>1. pc[c] # "punish" /\ pc[c] \in {"connect", "upgrade", "request"}
    BY <1>1 DEF Waiting, Timed
  <2>2. sentence[c] = NoSentence
    BY <1>1, <2>1, LocalOf DEF Apart
  <2>3. sentence'[c] # NoSentence
    BY <1>1, SentenceType
  <2>4. OuterExpires(c)
    <3>1. PICK d \in Conns : \E s :
            /\ sentence' = [sentence EXCEPT ![d] = s]
            /\ s = NoSentence \/ OuterExpires(d) \/ pc[d] \notin Waiting
      BY <1>1, <2>2, <2>3, SentenceSteps
    <3>2. PICK s :
            /\ sentence' = [sentence EXCEPT ![d] = s]
            /\ s = NoSentence \/ OuterExpires(d) \/ pc[d] \notin Waiting
      BY <3>1
    <3>3. d = c /\ s # NoSentence
      BY <1>1, <2>2, <2>3, <3>2 DEF Inv, Shape
    <3> QED
      BY <1>1, <3>2, <3>3
  <2>5. outer[c] = 0 /\ inner[c] \in Nat
    BY <1>1, <2>4, LocalOf DEF OuterExpires
  <2>6. Apart(pc[c], sentence[c], outer[c], inner[c])
    BY <1>1, LocalOf
  <2>7. CASE pc[c] = "connect"
    BY <2>5, <2>6, <2>7, Constants DEF Apart, Allowance
  <2>8. CASE pc[c] = "upgrade"
    BY <2>5, <2>6, <2>8, Constants DEF Apart, Allowance
  <2>9. CASE pc[c] = "request"
    BY <2>5, <2>6, <2>9, Constants DEF Apart, Allowance
  <2> QED
    BY <2>1, <2>7, <2>8, <2>9
<1>2. Inv /\ [Next]_vars =>
        [\A c \in Conns :
           pc[c] \in Waiting /\ sentence'[c].violation = "Timeout"
             => Allowance[pc[c]] >= CBodyTimeout]_vars
  BY <1>1, Zenon
<1> QED
  BY <1>2, Always, PTL DEF Spec, LateBackendForgiven
=============================================================================
