# Oxidized Wall: a TLA+ verification project

Oxidized Wall is a reverse proxy with a web application firewall, written in
Rust on tokio and hyper (`src/`, about 1800 lines). This directory holds TLA+
models of its concurrent parts, the TLC runs that check them on small
instances, and TLAPS proofs of the most important results for all instances.
Source lines named here are lines of the files under `src/src/`.

## 1. The system

| Component | Source | State | Operations | Used by |
|---|---|---|---|---|
| Ban manager | `ban.rs` | map address -> end of ban, behind an async `RwLock` | `punish`/`ban`, `check`, cleanup every 60 s | accept loops (`check`), handlers (`punish`) |
| Rate limiter | `ratelimit.rs` | `DashMap` address -> counter and start of its window | `check`, cleanup every 60 s | handlers |
| Accept loops, limit on connections, shutdown | `server.rs`, `main.rs` | listeners, one semaphore, one `JoinSet` per listener, a cancellation token | accept, ban check, acquire, spawn, TLS handshake, serve, graceful shutdown | everything hangs below it |
| Bandwidth limiter | `bandwidth.rs`, loops of `handle_websocket` | `DashMap` address -> token bucket; per body a pending amount | `try_consume`, `poll_frame`, the two WebSocket loops | responses, WebSockets |
| Health checker, upstream selection | `health.rs`, `select_upstream` | `DashMap` upstream -> healthy; a round-robin counter per route | probe round every 10 s, `is_healthy`, `select_upstream` | handlers |
| Certificate hot-reloading | `config.rs`, `main.rs` | resolver behind a lock, files on disk | watcher callback, `reload_certs`, `update`, `resolve` | TLS handshakes |
| Request pipeline, routing | `proxy.rs` | none of its own | `verify_request`, `https_proxy`, `handle_http`, `handle_websocket`, sanitisation | hyper's service |
| Protocol validation | `protocol.rs` | none | URI, Host and smuggling checks | `verify_request` |
| WAF, DLP | `waf/` | compiled signatures | `header`, `body`, `apply_dlp` | pipeline |
| Configuration | `config.rs` | the `Config` value | `load` | `main` |

**How they interact.** `main` loads the configuration, creates the managers (each
spawns its background task), sets up the file watcher and starts one task per
listening address. An accept loop selects between cancellation, `accept` and
`join_next`; an accepted peer is checked against the ban list, waits for a permit
of the global semaphore and gets a task of its own. That task serves requests;
each request runs the pipeline: rate limit, protocol, limits, WAF, then routing,
selection of an upstream and the exchange with it, its response body wrapped in
`ThrottledBody`. Any violation on the way calls `punish`. All managers are shared
by all tasks; nothing is persisted, so there is no crash recovery.

**What is hard.** Clocks are read before locks are taken, so critical sections work with
instants of the past (`ban.rs`, `ratelimit.rs`). `check` gives up its read lock before
it takes the write lock. Statuses are read one after the other while the checker writes
them. Reload tasks run concurrently with each other and with whoever writes the files. A
permit is released on five different paths and may be handed directly to a waiting loop.
Shutdown has to get through loops that are waiting for permits and through handshakes
that do not look at the token. Several streams of an address share a lazily refilled
bucket. In the pipeline a timeout runs inside another one, and which of them fires first
decides whether a client is banned; every await of a handler is a point where its client
may leave. `PROJECT.json` lists these hazards with their lines and the properties that
would catch them going wrong.

**What correctness means**, per component:

* ban: a running ban is not lost or altered, and never overlooked by `check`;
  expired ones leave memory;
* rate limit: long-run rate and bursts are bounded, and no address within its
  quota is refused (a refusal also bans);
* server: the permits always add up; shutdown cuts no connection off, and nothing but
  requests in flight holds it up;
* bandwidth: the quota holds over every interval, streams lose nothing, and a stream
  that is held back goes on once the tokens are not taken by others;
* upstreams: no 502 while an upstream is healthy throughout, even shares,
  statuses follow the upstreams;
* certificates: what is served is always complete; every change in the watched
  directory is reloaded; when all is quiet the disk is what is served;
* pipeline: nothing reaches a backend that fails a check; routing is by longest
  prefix; a ban has its reason in the request, is in force when the client reads
  of it, and is not the price of a slow backend; every request comes to an end;
* WAF algorithms: their verdicts are those of definitions that do not scan.

## 2. Modules

Every module keeps the names of the source. Definitions called *Mutant* in their
comment are plausible bugs of the definition after them; they are not part of any
specification and serve to show that each property notices one.

| Module | Models |
|---|---|
| `Ban` | the ban manager |
| `RateLimit` | the rate limiter |
| `Server` | accept loops, connection tasks, semaphore, `main`'s start and shutdown |
| `IdealBucket` | abstract: a bucket that fills continuously and is drained by grants |
| `Bandwidth` | token buckets, throttled bodies, WebSocket directions; implements `IdealBucket` |
| `Upstream` | health checker and `select_upstream` |
| `CertReload` | watcher, reload tasks, resolver |
| `Proxy` | the request pipeline: `verify_request`, both proxies, `handle_http`, the handshake of `handle_websocket` |
| `Inspect` | the scanning algorithms of the WAF |
| `BanProofs`, `RateLimitProofs`, `ServerProofs`, `BandwidthProofs`, `UpstreamProofs`, `CertReloadProofs`, `ProxyProofs`, `InspectProofs` | theorems |
| `MC...` | constants of the small instances |

### Ban

`banned` is `banned_ips`. A call of `punish` or `check` is cut exactly where it
waits for a lock: `Punish` computes `expire_at`, `Insert` runs under the write
lock; `CheckStart` reads the clock, `CheckRead` runs under the read lock,
`CheckWrite` under the write lock with the second look-up of the code;
`CleanupTick` reads the clock and `CleanupRetain` runs under the lock. `Dropped`
is the connection closing while `punish` awaits the lock: hyper then drops the
handler's future. `latest` is history. A violation with duration 0
does nothing and is the guard of `Punish`.

### RateLimit

No await separates the clock reading from the shard's lock, only the scheduling
of threads, so that delay is a parameter, `MaxDelay`. `CheckStart` reads the
clock; `NewWindow`, `WithinQuota` and `OverQuota` are the three branches under the
entry guard. The cleaner's `retain` visits addresses (shards) one by one with one
`now`. `RateAssumption` asks for `RetainAge >= Second + MaxDelay`: with the code's
10 s and 1 s, that a thread is not held up for more than 9 s between two
instructions. `total` (requests let through) and `before` (what `total` was before each
instant) are history.

### Server

Per listener a program counter through the loop body (`bind`, `select`, `check`,
`permit`, `wait`, `spawn`, `drain`, `done`), per connection its state from the
kernel's queue to the end of its task. A bind that fails panics, and the release
profile has `panic = "abort"` (`Cargo.toml:29`): `main` becomes `aborted` and nothing
runs any more (`Alive` guards every step of the program).
The semaphore is tokio's: first come first served, a released permit goes straight
to the first waiter. `http_server` and `https_server` differ in the handshake only
and are one set of actions; `Spawn` starts an HTTPS connection in state `tls`.
A connection with several HTTP/2 streams is `busy` while any of them is. An error
of `accept` changes nothing; the branch for a closed semaphore is unreachable
because nothing closes it. The ban list is a set: `Violate` enlarges it,
`BanExpires` shrinks it, and module `Ban` says what its `check` means.
`MaxConnections = 0` is allowed and blocks every connection, as in the code; an accept
loop then waits for ever with the first one, so `ShutdownCompletes` asks for a permit.
`OnlyRequestsLeft` is where a shutdown may stay: all that is served is a request in
flight, and every loop is draining, done or behind those requests in the queue for a
permit.

### Bandwidth and IdealBucket

A bucket keeps its tokens as of `last_fill`; the model keeps the age of that
instant instead of two instants, up to the age at which any bucket is full, so
time need not be bounded. Tokens are `f64` in the code and integers here: rounding
is not modelled. `PollPending`, `PollFree`, `PollData` and `BodyEnd` are the branches
of `ThrottledBody::poll_frame` (a body ends only once nothing is pending), `BodyAbort`
is hyper dropping one; `PipeRead`, `PipeThrottle`, `PipeWrite` and `PipeEnd` (end of
input, idle timeout, failed read or write) are the loops of `handle_websocket`. `Start`
puts a new stream in the place of one that is over, so streams keep coming. Frames are
identified by position and have a size; size 0 is a frame without data, such as
trailers (an empty data frame, which would only create the bucket, is left out).
A frame larger than a full bucket can never be paid for, and its stream retries for ever.
An amount that fits is not safe either: nothing is set aside for a stream that waits, so
smaller amounts that keep coming can starve it, and they do in the model.
`OnlyGrantsDelay` says that this is the only way: if a stream stays `Paused`, its address
is granted something again and again. `IdealBucket` has no `last_fill`: its level
grows with every tick; the refinement maps it to what a bucket *would* hold if it
were refilled now.

### Upstream

The checker probes the unique upstreams of the route in turn, `Probe` and `Record`
apart because the outcome may be stale when it is recorded. `SelectStart` is the
`fetch_add`, each turn of the loop is a `SelectLook`, the end of it `SelectNone`.
The counter, and the sums of `Slot`, wrap at `CounterMod`. `CounterAssumption` asks for
a route whose length divides `CounterMod`, or for fewer calls than it takes to get
there: at any other wrap a search would visit one position twice and another not at
all (`proxy.rs:113`).

### CertReload

A file holds a version, is `torn` (half written) or `missing`. `reload_certs` reads
whatever paths are configured, the watcher sees the top level of `certs/` only, and only
if that directory existed at startup (`main.rs:74`): `Watched` is the set of files that
lie there, and the operator's `Change` raises an event if the file is one of them and
the watcher is in place (`Noticed`). `unseen` says that the last change raised none.
`Notify` is the callback spawning a task; `ReadCert`, `ReadKey` (which also parses) and
`Update` are the steps of `reload_certs`, for every domain in turn. A half-written file
is taken to be one that does not parse; a PEM file cut at a certificate boundary, which
does, is not modelled. `clean`, `caughtUp` and `unseen` are history.

### Proxy

Per connection the stage its handler is at: `closed`, `door` (accepted, on its way
through permit and handshake), `idle`, `body` (collecting the request body), `dispatch`
(routing), the stages under the outer timeout (`connect`, `upgrade`, `request`,
`collect`), `punish` (waiting for the write lock of the ban list) and, for a WebSocket,
`switching`, `piped` and `cut`. Each stage is an await of the code; what lies between
two awaits is one action. `verify_request` is the set of its six checks that a request
fails, and the first of them decides violation and status, as the early returns do.
`Refuse`, `Redirect` and `Receive` are its three outcomes; `Collect` is the end of
`Limited::collect` for a body that arrived or exceeds the limit, `BreakOff` for one that
breaks off: the code answers and punishes both alike, and only the history field
`broken` of a sentence tells them apart. `Forward` starts the outer timeout
(`c_body_timeout`) and the first inner one; `Connected` replaces the inner one by
`s_response`; `InnerExpires` and `OuterExpires` race when both are at 0. `Punish` is
every call of `punish`: without a duration it returns at once, otherwise `Insert`
answers only after the ban is in the list. `Drop` is the end of the connection at any
await (a failed `handshake` of `handle_websocket` ends the service with an error and is
such a step too).

`get_real_ip` (the `CF-Connecting-IP` header, else the peer) decides who is banned, the
peer address who is let in: `Peer` and the `cf` field of a request keep them apart. The
header is believed whoever sends it, so no property says that the address banned is that
of the sender. A
Host header is its text cut at the colons, because `get_host` is. Other modules'
verdicts are arbitrary: the rate limiter's, the health of upstreams, when bans end. An
HTTP/2 connection with several streams is several connections of one peer. `owed` is
history: bans that their client has read of. `ClientUpgrades` and
`BackendUpgrades` say whether hyper may give up the two connections of a WebSocket; both
are `FALSE`, for `serve_connection` (`server.rs:174`) and for `conn.await` without
`with_upgrades` (`proxy.rs:363`).

`routers` is chosen in `Init` among all orders that the sort of `Config::load` may
leave (it is stable, the `HashMap` under it is not).

### Inspect

The state is a text that grows by a character of an alphabet, so that TLC visits every
text; `check_json_depth`, `has_parameter_pollution`, `is_high_density` and
`normalize_url` are operators on it, translated as scans (`depths`, `cuts`, `seen_keys`,
`lengths` and `decoded` are recursive functions of the position), and the invariants
compare them with definitions that quantify over positions. Characters are code points;
what the standard library does with them (`is_alphanumeric`, `from_str_radix` with its
optional sign, `len` in bytes) is modelled up to Latin-1 and the width of longer ones;
`Ordinary` are the letters and spaces beyond that. There is no type invariant: the text
is the only state.

## 3. Runs

| Run | Instance | Shows |
|---|---|---|
| `ban` | 2 tasks, 1 address, durations 0, 1 and 3, clock up to 3 | `LatestBanHeld`, `NoRunningBanCleared`, and under fairness `ExpiredBansLeave` |
| `rate` | 2 tasks, 1 address, quota 2, second of 2 ticks, readings up to 2 ticks old, clock up to 6 | `LongRunQuota`, `BurstBound` (reached: three quotas in one second do occur), `RefusedOnlyOverQuota` |
| `server` | 1 HTTP and 1 HTTPS listener, 3 connections, 1 permit | `PermitsAccounted`, `NobodyCutOff`, and under fairness `ShutdownCompletes` |
| `bandwidth` | 1 body and 1 pipe at one bucket of capacity 4, seven lists of frames, one with a frame of 5; new streams without end | `IntervalBound`, `LazyIsIdeal`, `PipeIntact`, `BodyInOrder`, and under fairness `OnlyGrantsDelay` |
| `upstream` | 2 handlers, route `a, b, a`, 3 calls, counter modulo 3 | `NoneOnlyIfNoneSteady`, `EvenShares`, and under fairness `StatusFollows` |
| `certs` | 2 domains, one key outside `certs/`, 2 concurrent reloads, 3 changes of files | `ServedComplete`, `ChangeInHand`, `CleanReloadIsSnapshot`, and under fairness `EveryChangeReloaded` |
| `proxy` | 2 connections, one through an edge and one straight from the client it serves, 16 requests, 3 routes; timeouts 3 (outer), 1 (connect), 2 (response) | `ForwardedChecked`, `LongestRoute`, `BansDeserved`, `RefusedStaysOut`, `LateBackendForgiven`, and under fairness `RequestsEnd` |
| `inspect` | all texts up to 7 characters over five alphabets, depth 2 | `JsonDepthExact`, `PollutionExact`, `DecodeExact`, `GarbageKept`, `DensityOfCharacters` |
| `bandwidth_loss`, `certs_settled`, `proxy_body`, `proxy_websocket` | | counterexamples, section 6 |

Every passing run but `inspect` also checks its module's `TypeOK`.

**Bounds.** `MaxTime` (ban, rate) ends the clock: 3 ticks let a ban of 1 expire and be
renewed between the two locks of a `check` while a ban of 3 is recorded; 6 ticks are
three windows. The theorems of section 5 hold for every `MaxTime`. `MaxDelay` is part of
the statement. `MaxCalls` (upstream) gives every position of the route a turn; with
`CounterMod` = 3 the counter and the sums wrap, on a route whose length divides it.
`MaxChanges` allows replacing both files of a domain and one more, torn files and a
removal included; `Reloads` is the number of tasks alive at a time, and two are enough
for one to overtake the other. Connections are reused after they end, so 3 of them are
an unlimited number, three at a time: one served and one in the hands of each listener,
the most that can queue for one permit. Streams are reused in the same way; a stream
that starves beside one that keeps starting anew does occur. In `proxy` the requests
hold one for each reason to refuse, redirect, forward or upgrade a request, some exactly
at a limit (a POST whose body is of the largest size allowed); the timeouts are such
that a WebSocket's two inner timeouts add up to the outer one, so the race between them
happens, while a plain request stays clear of it; two connections are a client coming
back while its other request is being punished. In `inspect` the alphabets hold a member
of every class of characters the algorithms tell apart, and 7 characters are two escapes
with a character to spare, or three pairs of a form. `Server`, `CertReload` and
`Inspect` are checked without deadlock checking because there the system may really
stop: the process ends, the operator is done, the text is complete.

## 4. Fairness

* `Ban`: weak fairness of the cleaner. `tokio::time::interval` fires for ever, and
  tokio's `RwLock` is fair.
* `Server`: weak fairness of the steps of a loop or task that wait for nothing;
  strong fairness of `SeeCancel` and `Join`, because `select!` picks among its ready
  branches at random and a branch that is ready again and again is taken in the end,
  although `accept` may always be ready too. A handshake ends because of its timeout.
  No fairness for clients, nor for a request in flight: the collection of its body
  (`proxy.rs:185`) and the streaming of its response are under no timeout, so it need
  never end.
* `Bandwidth`: a refused body wakes itself and a refused pipe sleeps 5 ms, so both ask
  again; time passes. Nothing else: a source may stop yielding and a peer may stop
  reading (`write_all` at `proxy.rs:419` and `441` has no timeout).
* `Upstream`: the checker's interval fires for ever, a probe ends within 2 s.
* `Proxy`: weak fairness of time, of the handler's own steps (`NoUpstream` or `Forward`),
  of both timeouts and of `Insert` (tokio's `RwLock` is fair). Nothing is assumed of
  clients and backends: they may stop at any await, and `RequestsEnd` holds because
  everything after the body is under a timeout.
* `CertReload`: the callback gets its events, spawned tasks run. That a watcher is ever
  in place is not assumed.

## 5. Proofs

All theorems hold for every value of the constants that satisfies the named
assumption of the module (`BanAssumption`, `RateAssumption`, `ServerAssumption`,
`BandwidthAssumption`, `UpstreamAssumption` and `CounterAssumption`, `CertAssumption`,
`ProxyAssumption`, `InspectAssumption`); TLC evaluates these on the small instances.

* **Ban** (`BanTypeCorrect`, `BanHeld`, `CheckSound`). `LatestBanHeld` alone is not
  inductive: a check or a cleaner carrying an instant of the future would remove a
  running ban. `ReadingsArePast` says that none does. `CheckSound` is an action
  property that follows from the same invariant: when `check` answers "not banned",
  the entry is missing, or ended before an instant that is itself past.
* **RateLimit** (`RateTypeCorrect`, `LongRunRate`, `BurstBounded`, `RefusalsJustified`).
  For the long run the invariant is a ledger: what an
  address got through before its open window is paid for by the time before that
  window (`OpenPaid`), and an address without a record is paid up to the clock reading
  of every check that is about to create one (`ClosedPaid`). The second half is where
  the cleaner matters, and where `RetainAge >= Second + MaxDelay` is used. For bursts and
  refusals the invariant looks back (`Looking`): from any instant `s`, what was let
  through since then is bounded by the count of the open window plus one quota for each
  window that `s` reaches back into (`OpenRecent`, and `ClosedRecent` for an address
  without a record), what a record counts came after its window began (`Filled`), and
  the seconds that are over were within the bound (`Past`).
* **Server** (`ServerTypeCorrect`, `PermitAccounting`, `ConnectionLimit`,
  `ShutdownClean`). `PermitsAccounted` is strengthened by `Custody` (an accept loop past
  its accept owns exactly one connection, and that one is not being served yet) and
  `Queue` (each waiting loop is queued once, and only while no permit is free, so that a
  permit handed over is not counted twice). `Open` carries the shutdown: a listener that
  has returned owns nothing.
* **Bandwidth** (`BandwidthTypeCorrect`, `QuotaOverEveryInterval`, `LazyRefill`,
  `PipesKeepChunks`, `BodiesKeepOrder`).
  `Account`: what an address could take now plus what it took beyond the rate never
  exceeds the capacity. `LazyRefill` is the refinement to `IdealBucket`; a refused
  attempt stutters, a tick fills every bucket by `RefilledTick`. For the streams the
  invariant ties a pipe's buffer to its phase (`PipeAt`: a chunk is in it exactly while it
  is throttled or written) and a body's output to what it has taken from its source
  (`BodyAt`).
* **Upstream** (`UpstreamTypeCorrect`, `NoneJustified`, `SharesEven`). `Passed`: none of
  the positions a search has looked at holds an upstream that was marked healthy all the
  time; with `Covers` (as many steps as there are positions lead to every position) and
  `Wrapped` (the wrap does not shift them, from `CounterAssumption`) a search that ends
  without a choice has passed them all. `Even`: what a position has answered and the calls
  heading for it add up to the rounds of the counter, and one more at the positions it has
  passed in this round.
* **CertReload** (`CertTypeCorrect`, `AlwaysComplete`, `CleanReloads`, `ChangesInHand`).
  `Built` says how far the resolver of a reload has got, so that what is installed is
  complete; `Snapshot` that a reload during which nothing changed has read what is on
  disk. `ChangeInHand` follows: such a reload can only fail on a file that is unreadable
  now. It is the safety half of `EveryChangeReloaded`, and like it says nothing of a last
  change that raised no event, for any choice of `Watched`.
* **Inspect** (`JsonDepthCorrect`, `PollutionCorrect`, `DecodeCorrect`,
  `GarbageAlwaysKept`, `DensityCorrect`): for texts of any length. The recursive
  functions of the scans are shown to exist (`Recursion`, `Chain`) and what they yield is
  found by induction over positions. `Scanned`: while the scan for depth goes on, the depth
  is the largest excess of opening brackets in a stretch that ends here, empty ones
  included, and once it is over some stretch exceeds the limit. `Layout`: where the pieces
  of `split` begin and end; no beginning is missing or taken twice, so that the pairs
  correspond to `PairStarts` and their keys to `KeyAt`. `normalize_url` is followed from
  the end of the text: every piece is left as it is (`PieceKept`), or yields one character
  for its head (`DecodedFrom`). `Weight`: a text weighs at least as many bytes as it has
  characters, exactly as many in ASCII, and at least three for every special character when
  those are all beyond U+07FF.
* **Proxy** (`ProxyTypeCorrect`, `OnlyCheckedForwarded`, `LongestPrefixRouting`,
  `BansOnlyDeserved`, `RefusedOutside`, `LateBackendNotHeldAgainst`). The invariant says
  the same of every connection and is written on the values of one (`Local`), so that
  each action is shown to give its connection values that satisfy it (`UpdateKeeps`).
  Its parts: `Vetted` (what has been established of a request at its stage; in `body`
  only the head, and that its method is buffered, without which the verdict on its body
  would mean nothing), `Deserved` (a sentence has a reason in its request, or its body
  broke off), `Matched` (from `FirstIsLongest`: the first match in a sorted list is a
  longest one) and `Apart`: while a backend is waited for, the outer timer is ahead of
  the inner one by at least what the configuration puts between them. `Apart` carries
  `LateBackendForgiven`: when the outer timer is at 0, the difference can only be made
  up by the configuration. `Told` (a ban that a client has read of is in the list)
  carries `RefusedStaysOut`.

Induction over numbers is used through sets: the library's induction theorems take an
operator as a parameter, which the provers cannot instantiate, so `Induct`, `DownInduct`
and `Least` state it for a set of numbers, from the well-foundedness of `<` on `Nat`.

**Only model-checked:** liveness (`ExpiredBansLeave`, `ShutdownCompletes`,
`OnlyGrantsDelay`, `StatusFollows`, `EveryChangeReloaded`, `RequestsEnd`), which needs
fairness and `ENABLED`. Every invariant and every action property of a passing run is a
theorem as well.

## 6. What the checks found

* `bandwidth_loss`: a frame refused by the limiter is dropped, only its size is kept
  (`bandwidth.rs:120`). A new bucket is empty, so with a limit set the first data frame
  of a new address is lost.
* `certs_settled`: reload tasks are not ordered; an older one that installs last leaves
  old certificates, or a new key with an old certificate, in use until the next change
  (`config.rs:207`).
* `proxy_body`: the body of a POST, PUT or PATCH is collected before the block under
  `c_body_timeout` begins (`proxy.rs:185`), so a client that stops sending holds its
  handler and the permit of its connection for ever. `config.example.toml` says that the
  setting is the timeout for reading the body.
* `proxy_websocket`: both sides switch protocols, then the task that should pipe between
  them fails and ends: hyper gives up neither the client's connection, which is served by
  `serve_connection` (`server.rs:174`), nor the backend's, which is awaited without
  `with_upgrades` (`proxy.rs:363`). Both lines have to change for a WebSocket to work.

Not errors of the code against what it says, but worth knowing:

* windows of the rate limiter are fixed, so up to three quotas may pass within one second
  (`BurstBound` is tight), and `LongRunQuota` holds all the same;
* `max_body_size` limits the bodies of POST, PUT and PATCH only; those of GET, HEAD, DELETE
  and OPTIONS are streamed on whatever their size and are not inspected (`proxy.rs:204`).
  `config.example.toml:20` calls the setting the "Maximum allowed request body size";
  `ForwardedChecked` states what the code does;
* only the top level of `certs/` is watched, and only if it exists at startup
  (`main.rs:74`): certificates configured elsewhere, or in a subdirectory, are read again
  only when a file in `certs/` changes;
* a request in flight that never ends, such as one whose body stopped arriving, holds up
  the shutdown for ever, and with `max_connections = 0` so does the first connection
  accepted (`server.rs:69`);
* one listening address that cannot be bound takes down the whole process, connections of
  the other listeners included (`server.rs:38`, `Cargo.toml:29`);
* `CF-Connecting-IP` is believed from any peer (`proxy.rs:472`), so the address a ban is
  recorded for need not be that of whoever sent the request;
* tokens are not set aside for a stream that waits, so small frames can starve a large one
  (`bandwidth.rs:36`);
* `is_high_density` divides characters by bytes (`waf/structure.rs:31`): text whose special
  characters are all beyond U+07FF is never dense, and accented letters dilute;
* a percent sign that begins no escape swallows the one after it: `%%2e` is left as it is
  (`waf/path.rs:28`); `DecodeExact` and `GarbageKept` are not about such texts;
* a later, shorter ban replaces a longer one (`ban.rs:71`);
* the ban list is consulted at accept only and for the peer address: an open connection of
  a banned address is served on, and behind Cloudflare a ban on the real address is never
  looked up (`server.rs:63`, `proxy.rs:35`);
* a frame of more than two seconds' worth of bandwidth can never be paid for and its stream
  retries for ever (`bandwidth.rs:31`);
* with `s_response = c_body_timeout`, as in `config.example.toml`, both timeouts of a
  request to a silent backend run out together and the client may be banned for it:
  `LateBackendForgiven` says exactly when this can happen;
* a request body that breaks off is answered 413 and punished as a protocol violation
  (`proxy.rs:190`);
* the response to a refused upgrade is passed on without sanitisation (`proxy.rs:457`);
* the redirect of an HTTP listener looks at the Host header only (`proxy.rs:139`), unlike
  `get_host`.

## 7. Not modelled

* the tables of the WAF (signatures, bot names, magic numbers) and the masking of DLP:
  substring search and regular expressions executed by a library. What `waf::header` and
  `waf::body` decide is a field of a request in `Proxy`;
* the rewriting of URIs and headers towards a backend and the sanitisation of response
  headers: text, and no state of the program;
* TOML deserialisation and PEM parsing; hyper, rustls and tokio beyond what is
  described above; logging;
* the numeric protocol settings of `configure_builder`: they parameterise hyper;
* the wrap of the round-robin counter at 2^64 on a route whose length does not divide it
  (`proxy.rs:113`).

## 8. Plan

Done, in this order: `Ban`, `RateLimit`, `Server`, `Bandwidth` with `IdealBucket`,
`Upstream`, `CertReload`, `Proxy`, `Inspect`; proofs of every invariant and action
property of all of them.

Left, in this order:

1. the safety halves of the other liveness properties as invariants of their own, as
   `ChangeInHand` is for `EveryChangeReloaded`, with proofs;
2. what `normalize_url` makes of texts in which a broken escape swallows a proper one;
3. WebSocket tasks at shutdown, which no `JoinSet` knows, once upgrades are served;
4. response headers as a state of `Proxy`, for the sanitisation of every response path.
