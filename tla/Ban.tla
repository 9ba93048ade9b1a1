--------------------------------- MODULE Ban ---------------------------------
(***************************************************************************)
(* The ban manager of src/ban.rs: a map from IP addresses to the instant    *)
(* their ban ends, behind a tokio RwLock, used at once by the accept loops  *)
(* (check), by the request handlers (punish) and by a background cleaner.   *)
(*                                                                          *)
(* No await happens while the lock is held, so a critical section is one    *)
(* step.  What is NOT atomic is the clock: check, ban and the cleaner read  *)
(* Instant::now() first and wait for the lock afterwards, so every section  *)
(* works with an instant that may be in the past.  Each call is therefore   *)
(* cut where it waits for the lock.                                         *)
(***************************************************************************)
EXTENDS Integers, Functions

CONSTANTS
  IPs,         \* client addresses
  Tasks,       \* tokio tasks that call punish or check
  Violations,  \* enum Violation
  BanSeconds,  \* [ban] section of the configuration, 0 switches a ban off
  MaxTime      \* bound on the clock (a bound of the model, not of the code)

ASSUME BanAssumption ==
  /\ BanSeconds \in [Violations -> Nat]
  /\ MaxTime \in Nat

VARIABLES
  clock,       \* the monotonic clock behind Instant::now()
  banned,      \* banned_ips: address |-> expire_at
  pc,          \* where each task is inside punish or check
  ip,          \* the argument of the call a task is in
  at,          \* the instant a task carries to the lock: expire_at in ban,
               \* now in check
  verdict,     \* result of the last check of a task
  cleaner,     \* where the cleanup task is
  cleanAt,     \* the `now` the cleanup task carries to the lock
  latest       \* history: the expire_at last inserted for an address

vars == <<clock, banned, pc, ip, at, verdict, cleaner, cleanAt, latest>>
taskVars == <<pc, ip, at, verdict>>
cleanVars == <<cleaner, cleanAt>>

TypeOK ==
  /\ clock \in Nat
  /\ DOMAIN banned \subseteq IPs
  /\ banned \in [DOMAIN banned -> Nat]
  /\ pc \in [Tasks -> {"idle", "ban", "read", "write"}]
  /\ ip \in [Tasks -> IPs]
  /\ at \in [Tasks -> Nat]
  /\ verdict \in [Tasks -> {"none", "banned", "clear"}]
  /\ cleaner \in {"sleep", "retain"}
  /\ cleanAt \in Nat
  /\ latest \in [IPs -> Nat]

Init ==
  /\ clock = 0
  /\ banned = [i \in {} |-> 0]
  /\ pc = [t \in Tasks |-> "idle"]
  /\ ip \in [Tasks -> IPs]
  /\ at = [t \in Tasks |-> 0]
  /\ verdict = [t \in Tasks |-> "none"]
  /\ cleaner = "sleep"
  /\ cleanAt = 0
  /\ latest = [i \in IPs |-> 0]

-----------------------------------------------------------------------------
(* HashMap::insert and HashMap::remove *)
Put(m, k, v) == [i \in DOMAIN m \cup {k} |-> IF i = k THEN v ELSE m[i]]
Without(m, k) == Restrict(m, DOMAIN m \ {k})

(* The call of task t returns: control goes back to the caller. *)
Return(t, v) ==
  /\ pc' = [pc EXCEPT ![t] = "idle"]
  /\ verdict' = [verdict EXCEPT ![t] = v]
  /\ UNCHANGED <<ip, at>>

-----------------------------------------------------------------------------
(* Mutant: the duration is taken off the clock. *)
PunishBackwards(t, i, v) ==
  /\ pc[t] = "idle"
  /\ BanSeconds[v] > 0
  /\ pc' = [pc EXCEPT ![t] = "ban"]
  /\ ip' = [ip EXCEPT ![t] = i]
  /\ at' = [at EXCEPT ![t] = clock - BanSeconds[v]]
  /\ UNCHANGED <<clock, banned, verdict, cleanVars, latest>>

(***************************************************************************)
(* punish and ban: the end of the ban is computed before the lock.  A       *)
(* violation whose configured duration is 0 returns without doing anything. *)
(***************************************************************************)
Punish(t, i, v) ==
  /\ pc[t] = "idle"
  /\ BanSeconds[v] > 0
  /\ pc' = [pc EXCEPT ![t] = "ban"]
  /\ ip' = [ip EXCEPT ![t] = i]
  /\ at' = [at EXCEPT ![t] = clock + BanSeconds[v]]
  /\ UNCHANGED <<clock, banned, verdict, cleanVars, latest>>

(* ban, under the write lock: whatever was recorded is replaced. *)
Insert(t) ==
  /\ pc[t] = "ban"
  /\ banned' = Put(banned, ip[t], at[t])
  /\ latest' = [latest EXCEPT ![ip[t]] = at[t]]
  /\ pc' = [pc EXCEPT ![t] = "idle"]
  /\ UNCHANGED <<clock, ip, at, verdict, cleanVars>>

(***************************************************************************)
(* The connection of the request closes while punish waits for the lock:    *)
(* the server drops the handler's future and the ban is never recorded.     *)
(***************************************************************************)
Dropped(t) ==
  /\ pc[t] = "ban"
  /\ pc' = [pc EXCEPT ![t] = "idle"]
  /\ UNCHANGED <<clock, banned, ip, at, verdict, cleanVars, latest>>

-----------------------------------------------------------------------------
(* check reads the clock once, before it asks for the read lock. *)
CheckStart(t, i) ==
  /\ pc[t] = "idle"
  /\ pc' = [pc EXCEPT ![t] = "read"]
  /\ ip' = [ip EXCEPT ![t] = i]
  /\ at' = [at EXCEPT ![t] = clock]
  /\ verdict' = [verdict EXCEPT ![t] = "none"]
  /\ UNCHANGED <<clock, banned, cleanVars, latest>>

Known(t) == ip[t] \in DOMAIN banned
Lapsed(t) == at[t] > banned[ip[t]]

(* check, under the read lock: only an expired entry leads further. *)
CheckRead(t) ==
  /\ pc[t] = "read"
  /\ \/ Known(t) /\ ~Lapsed(t) /\ Return(t, "banned")
     \/ ~Known(t) /\ Return(t, "clear")
     \/ /\ Known(t) /\ Lapsed(t)
        /\ pc' = [pc EXCEPT ![t] = "write"]
        /\ UNCHANGED <<ip, at, verdict>>
  /\ UNCHANGED <<clock, banned, cleanVars, latest>>

(* Mutant: the expired entry seen under the read lock is removed unseen. *)
CheckWriteBlind(t) ==
  /\ pc[t] = "write"
  /\ banned' = Without(banned, ip[t])
  /\ Return(t, "clear")
  /\ UNCHANGED <<clock, cleanVars, latest>>

(* Mutant: a ban renewed between the locks stays, but is not reported. *)
CheckWriteForgetful(t) ==
  /\ pc[t] = "write"
  /\ banned' = IF Known(t) /\ Lapsed(t) THEN Without(banned, ip[t]) ELSE banned
  /\ Return(t, "clear")
  /\ UNCHANGED <<clock, cleanVars, latest>>

(***************************************************************************)
(* check, under the write lock: the map may have changed since the read     *)
(* lock was given up, so the entry is looked up and compared again.         *)
(***************************************************************************)
CheckWrite(t) ==
  /\ pc[t] = "write"
  /\ \/ /\ Known(t) /\ Lapsed(t)
        /\ banned' = Without(banned, ip[t])
        /\ Return(t, "clear")
     \/ /\ Known(t) /\ ~Lapsed(t)
        /\ Return(t, "banned")
        /\ UNCHANGED banned
     \/ /\ ~Known(t)
        /\ Return(t, "clear")
        /\ UNCHANGED banned
  /\ UNCHANGED <<clock, cleanVars, latest>>

-----------------------------------------------------------------------------
(* The cleanup task wakes up and reads the clock; the first tick is at once. *)
CleanupTick ==
  /\ cleaner = "sleep"
  /\ cleaner' = "retain"
  /\ cleanAt' = clock
  /\ UNCHANGED <<clock, banned, taskVars, latest>>

(* Mutant: nothing is ever thrown away. *)
CleanupNothing ==
  /\ cleaner = "retain"
  /\ cleaner' = "sleep"
  /\ UNCHANGED <<clock, banned, cleanAt, taskVars, latest>>

(* Under the write lock: retain the entries that end after `now`. *)
CleanupRetain ==
  /\ cleaner = "retain"
  /\ cleaner' = "sleep"
  /\ banned' = RestrictValues(banned, LAMBDA e : e > cleanAt)
  /\ UNCHANGED <<clock, cleanAt, taskVars, latest>>

Tick ==
  /\ clock < MaxTime
  /\ clock' = clock + 1
  /\ UNCHANGED <<banned, taskVars, cleanVars, latest>>

-----------------------------------------------------------------------------
Cleaner == CleanupTick \/ CleanupRetain

Next ==
  \/ \E t \in Tasks, i \in IPs, v \in Violations : Punish(t, i, v)
  \/ \E t \in Tasks, i \in IPs : CheckStart(t, i)
  \/ \E t \in Tasks : Insert(t) \/ Dropped(t) \/ CheckRead(t) \/ CheckWrite(t)
  \/ Cleaner
  \/ Tick

Spec == Init /\ [][Next]_vars

(* tokio::time::interval fires for ever and the write lock is fair. *)
FairSpec == Spec /\ WF_vars(Cleaner)

-----------------------------------------------------------------------------
(***************************************************************************)
(* The ban last recorded for an address is in the map, unchanged, until it  *)
(* has run out: neither the lazy removal in check nor the cleaner, both of  *)
(* which act on a clock reading of the past, ever loses or alters a ban     *)
(* that is still running (ban.rs: check, spawn_cleanup_task).               *)
(***************************************************************************)
LatestBanHeld ==
  \A i \in IPs :
    latest[i] > clock => i \in DOMAIN banned /\ banned[i] = latest[i]

(***************************************************************************)
(* check never lets an address through whose ban is running at the moment   *)
(* check answers, however long it waited for its locks and whoever renewed  *)
(* the ban between the read lock and the write lock (ban.rs: check).        *)
(***************************************************************************)
NoRunningBanCleared ==
  [][\A t \in Tasks :
       verdict[t] = "none" /\ verdict'[t] = "clear" => latest[ip[t]] <= clock
    ]_vars

(***************************************************************************)
(* An entry that has run out does not stay in memory: it is removed, or     *)
(* replaced by a running ban (ban.rs: "Periodically removes expired ban     *)
(* entries from memory").                                                   *)
(***************************************************************************)
ExpiredBansLeave ==
  \A i \in IPs :
    (i \in DOMAIN banned /\ banned[i] <= clock)
      ~> (i \in DOMAIN banned => banned[i] > clock)
=============================================================================
