--------------------------- MODULE RateLimitProofs ---------------------------
(***************************************************************************)
(* The long-run rate, the bursts and the refusals of the limiter, for every *)
(* quota, window, delay and retention time that satisfies RateAssumption.   *)
(*                                                                          *)
(* BurstBound needs to look back: see Recent, further down.                 *)
(*                                                                          *)
(* LongRunQuota needs a ledger: everything an address got through before    *)
(* its open window is paid for by the time before that window began, and an *)
(* address without a record is paid up to the clock reading of every check  *)
(* that is about to create one.  The second half is where the cleaner       *)
(* matters: a record dropped too early would leave a running check in debt. *)
(***************************************************************************)
EXTENDS RateLimit, TLAPS

(* A check waiting for the shard carries a recent reading of the clock. *)
Fresh ==
  /\ \A t \in Tasks : pc[t] = "entry" =>
       MaxRps > 0 /\ at[t] <= clock /\ clock <= at[t] + MaxDelay
  /\ sweepAt <= clock

(* Ledger of the addresses that have a record ... *)
OpenPaid ==
  \A i \in DOMAIN records :
    /\ records[i].last_reset <= clock
    /\ Second * total[i] <= MaxRps * records[i].last_reset + Second * records[i].count

(* ... and of those that have none. *)
ClosedPaid ==
  \A i \in IPs \ DOMAIN records :
    /\ Second * total[i] <= MaxRps * clock
    /\ \A t \in Tasks :
         pc[t] = "entry" /\ ip[t] = i => Second * total[i] <= MaxRps * at[t]

Inv == TypeOK /\ Fresh /\ OpenPaid /\ ClosedPaid

-----------------------------------------------------------------------------
(* The arithmetic of products that the ledger needs. *)
LEMMA Monotone ==
  ASSUME NEW m \in Nat, NEW a \in Nat, NEW b \in Nat, a <= b
  PROVE  m * a <= m * b /\ m * a \in Nat /\ m * b \in Nat
OBVIOUS

(* Multiplication distributes over addition. *)
LEMMA Distribute ==
  ASSUME NEW m \in Nat, NEW a \in Nat, NEW b \in Nat
  PROVE  m * (a + b) = m * a + m * b /\ m * a \in Nat /\ m * b \in Nat
OBVIOUS

(***************************************************************************)
(* A window that began at r with c requests in it, both paid for, is paid   *)
(* for in full by any instant a second or more after r.                     *)
(***************************************************************************)
LEMMA WindowPaid ==
  ASSUME NEW tot \in Nat, NEW r \in Nat, NEW c \in 0..MaxRps, NEW now \in Nat,
         Second * tot <= MaxRps * r + Second * c, r + Second <= now
  PROVE  Second * tot <= MaxRps * now
<1> USE RateAssumption
<1>1. Second * c <= Second * MaxRps
  BY Monotone
<1>2. MaxRps * (r + Second) <= MaxRps * now
  BY Monotone
<1>3. MaxRps * (r + Second) = MaxRps * r + MaxRps * Second
  BY Distribute
<1>4. Second * MaxRps = MaxRps * Second
  OBVIOUS
<1>5. /\ Second * c \in Nat /\ Second * MaxRps \in Nat /\ MaxRps * r \in Nat
      /\ MaxRps * now \in Nat /\ Second * tot \in Nat /\ MaxRps * (r + Second) \in Nat
  OBVIOUS
<1> QED
  BY <1>1, <1>2, <1>3, <1>4, <1>5

(* One request more costs one second's share. *)
LEMMA OneMore ==
  ASSUME NEW n \in Nat
  PROVE  Second * (n + 1) = Second * n + Second /\ Second * n \in Nat
BY RateAssumption, Distribute

-----------------------------------------------------------------------------
(* An answer of check, whatever it does to the record, leaves Fresh alone. *)
LEMMA AnswerFresh ==
  ASSUME TypeOK, Fresh, NEW t \in Tasks, NEW v, Answer(t, v)
  PROVE  Fresh'
BY DEF TypeOK, Fresh, Answer

(***************************************************************************)
(* A request that is let through keeps the ledger if the record it leaves   *)
(* behind pays for it.                                                      *)
(***************************************************************************)
LEMMA PassKeeps ==
  ASSUME Inv, NEW t \in Tasks, pc[t] = "entry", NEW r \in RateState,
         Store(ip[t], r), Count(ip[t]), Answer(t, "pass"),
         r.last_reset <= clock,
         Second * total[ip[t]] + Second <= MaxRps * r.last_reset + Second * r.count
  PROVE  Inv'
<1> USE RateAssumption
<1> DEFINE i == ip[t]
<1>1. i \in IPs /\ clock \in 0..MaxTime /\ MaxTime \in Nat
  BY DEF Inv, TypeOK
<1>2. /\ records' = [j \in DOMAIN records \cup {i} |-> IF j = i THEN r ELSE records[j]]
      /\ total' = [total EXCEPT ![i] = @ + 1]
      /\ pc' = [pc EXCEPT ![t] = "idle"]
      /\ verdict' = [verdict EXCEPT ![t] = "pass"]
      /\ UNCHANGED <<clock, ip, at, sweep, sweepAt, before>>
  BY DEF Store, Count, Answer
<1> HIDE DEF i
<1>3. TypeOK'
  <2>1. DOMAIN records' \subseteq IPs /\ records' \in [DOMAIN records' -> RateState]
    BY <1>1, <1>2 DEF Inv, TypeOK
  <2>2. total \in [IPs -> Nat]
    BY DEF Inv, TypeOK
  <2>3. total' \in [IPs -> Nat]
    BY ONLY <1>1, <1>2, <2>2
  <2> QED
    BY <1>2, <2>1, <2>3 DEF Inv, TypeOK
<1>4. Fresh'
  BY AnswerFresh DEF Inv
<1>5. OpenPaid'
  <2> SUFFICES ASSUME NEW j \in DOMAIN records'
               PROVE  /\ records'[j].last_reset <= clock
                      /\ Second * total'[j]
                           <= MaxRps * records'[j].last_reset + Second * records'[j].count
    BY <1>2 DEF OpenPaid
  <2>1. CASE j = i
    <3>1. records'[j] = r /\ total'[j] = total[i] + 1 /\ total[i] \in Nat
      BY <2>1, <1>1, <1>2 DEF Inv, TypeOK
    <3>2. Second * (total[i] + 1) = Second * total[i] + Second
      BY <3>1, OneMore
    <3> QED
      BY <3>1, <3>2 DEF i
  <2>2. CASE j # i
    BY <2>2, <1>1, <1>2 DEF Inv, TypeOK, OpenPaid
  <2> QED
    BY <2>1, <2>2
<1>6. ClosedPaid'
  <2> SUFFICES ASSUME NEW j \in IPs \ DOMAIN records'
               PROVE  /\ Second * total'[j] <= MaxRps * clock
                      /\ \A u \in Tasks : pc'[u] = "entry" /\ ip[u] = j =>
                           Second * total'[j] <= MaxRps * at[u]
    BY <1>2 DEF ClosedPaid
  <2>1. j # i /\ j \in IPs \ DOMAIN records /\ total'[j] = total[j]
    BY <1>1, <1>2 DEF Inv, TypeOK
  <2>2. \A u \in Tasks : pc'[u] = "entry" => pc[u] = "entry"
    BY <1>2 DEF Inv, TypeOK
  <2> QED
    BY <2>1, <2>2 DEF Inv, ClosedPaid
<1> QED
  BY <1>3, <1>4, <1>5, <1>6 DEF Inv

(* The record check works on, read from the map or fresh. *)
LEMMA EntryFacts ==
  ASSUME Inv, NEW t \in Tasks, pc[t] = "entry"
  PROVE  /\ ip[t] \in IPs /\ at[t] \in Nat /\ at[t] <= clock /\ clock \in Nat
         /\ MaxRps > 0 /\ total[ip[t]] \in Nat
         /\ Entry(t) \in RateState
         /\ Entry(t).last_reset <= clock
         /\ Second * total[ip[t]] <= MaxRps * Entry(t).last_reset + Second * Entry(t).count
<1> USE RateAssumption
<1>1. /\ ip[t] \in IPs /\ at[t] \in Nat /\ at[t] <= clock /\ clock \in Nat
      /\ MaxRps > 0 /\ total[ip[t]] \in Nat
  BY DEF Inv, TypeOK, Fresh
<1>2. CASE ip[t] \in DOMAIN records
  BY <1>1, <1>2 DEF Inv, TypeOK, OpenPaid, Entry
<1>3. CASE ip[t] \notin DOMAIN records
  <2>1. Entry(t) = [count |-> 0, last_reset |-> at[t]]
    BY <1>3 DEF Entry
  <2>2. Second * total[ip[t]] <= MaxRps * at[t]
    BY <1>1, <1>3 DEF Inv, ClosedPaid
  <2>3. Second * 0 = 0
    OBVIOUS
  <2> QED
    BY <1>1, <2>1, <2>2, <2>3 DEF RateState
<1> QED
  BY <1>2, <1>3

(* Storing back the record that is there changes nothing. *)
LEMMA SameRecord ==
  ASSUME NEW a \in DOMAIN records, Store(a, records[a]),
         records \in [DOMAIN records -> RateState]
  PROVE  records' = records
<1>1. records' = [j \in DOMAIN records \cup {a} |-> IF j = a THEN records[a] ELSE records[j]]
  BY DEF Store
<1>2. DOMAIN records \cup {a} = DOMAIN records
  OBVIOUS
<1>3. records' = [j \in DOMAIN records |-> records[j]]
  BY <1>1, <1>2
<1> QED
  BY <1>3

(* check keeps the invariant: a new window is paid for by the old one's second. *)
LEMMA CheckKeeps ==
  ASSUME Inv, NEW t \in Tasks, NewWindow(t) \/ WithinQuota(t) \/ OverQuota(t)
  PROVE  Inv'
<1> USE RateAssumption
<1>0. pc[t] = "entry"
  BY DEF NewWindow, WithinQuota, OverQuota
<1>1. /\ ip[t] \in IPs /\ at[t] \in Nat /\ at[t] <= clock /\ clock \in Nat
      /\ MaxRps > 0 /\ total[ip[t]] \in Nat
      /\ Entry(t) \in RateState
      /\ Entry(t).last_reset <= clock
      /\ Second * total[ip[t]] <= MaxRps * Entry(t).last_reset + Second * Entry(t).count
  BY <1>0, EntryFacts
<1>2. Entry(t).count \in 0..MaxRps /\ Entry(t).last_reset \in Nat
  BY <1>1 DEF RateState
<1>3. CASE NewWindow(t)
  <2>1. Entry(t).last_reset + Second <= at[t]
    BY <1>1, <1>2, <1>3 DEF NewWindow, Expired, Since
  <2>2. Second * total[ip[t]] <= MaxRps * at[t]
    BY <1>1, <1>2, <2>1, WindowPaid
  <2> DEFINE r == [count |-> 1, last_reset |-> at[t]]
  <2>3. r \in RateState /\ r.last_reset = at[t] /\ r.count = 1
    BY <1>1 DEF RateState
  <2>4. Second * total[ip[t]] + Second <= MaxRps * r.last_reset + Second * r.count
    BY <1>1, <2>2, <2>3
  <2>5. Store(ip[t], r) /\ Count(ip[t]) /\ Answer(t, "pass")
    BY <1>3 DEF NewWindow
  <2> HIDE DEF r
  <2> QED
    BY <1>0, <1>1, <2>3, <2>4, <2>5, PassKeeps
<1>4. CASE WithinQuota(t)
  <2> DEFINE e == Entry(t)
             r == [e EXCEPT !.count = @ + 1]
  <2>1. r \in RateState /\ r.last_reset = e.last_reset /\ r.count = e.count + 1
    BY <1>1, <1>2, <1>4 DEF RateState, WithinQuota
  <2>2. Second * (e.count + 1) = Second * e.count + Second
    BY <1>2, OneMore
  <2>3. Second * total[ip[t]] + Second <= MaxRps * r.last_reset + Second * r.count
    <3>1. MaxRps * e.last_reset \in Nat /\ Second * e.count \in Nat
          /\ Second * total[ip[t]] \in Nat
      BY <1>1, <1>2
    <3> QED
      BY <1>1, <2>1, <2>2, <3>1
  <2>4. Store(ip[t], r) /\ Count(ip[t]) /\ Answer(t, "pass")
    BY <1>4 DEF WithinQuota
  <2>5. r.last_reset <= clock
    BY <1>1, <2>1
  <2> HIDE DEF r
  <2> QED
    BY <1>0, <2>1, <2>3, <2>4, <2>5, PassKeeps
<1>5. CASE OverQuota(t)
  <2>1. ip[t] \in DOMAIN records /\ Entry(t) = records[ip[t]]
    BY <1>1, <1>5 DEF OverQuota, Entry
  <2>2. records' = records
    BY <1>5, <2>1, SameRecord DEF OverQuota, Inv, TypeOK
  <2>3. /\ UNCHANGED <<clock, records, ip, at, sweep, sweepAt, total, before>>
        /\ pc' = [pc EXCEPT ![t] = "idle"]
        /\ verdict' = [verdict EXCEPT ![t] = "limited"]
    BY <1>5, <2>2 DEF OverQuota, Answer, history
  <2>4. TypeOK'
    BY <2>3 DEF Inv, TypeOK
  <2>5. Fresh'
    BY <1>5, AnswerFresh DEF OverQuota, Inv
  <2>6. \A u \in Tasks : pc'[u] = "entry" => pc[u] = "entry"
    BY <2>3 DEF Inv, TypeOK
  <2>7. OpenPaid' /\ ClosedPaid'
    BY <2>3, <2>6 DEF Inv, OpenPaid, ClosedPaid
  <2> QED
    BY <2>4, <2>5, <2>7 DEF Inv
<1> QED
  BY <1>3, <1>4, <1>5

(***************************************************************************)
(* The cleaner drops a record only when it is paid for, by now and by the   *)
(* clock reading of every check on its way to the shard.                    *)
(***************************************************************************)
LEMMA SweepKeeps ==
  ASSUME Inv, NEW i \in IPs, SweepVisit(i)
  PROVE  Inv'
<1> USE RateAssumption
<1>1. UNCHANGED <<clock, sweepAt, pc, ip, at, verdict, total, before>>
  BY DEF SweepVisit, taskVars, history
<1> DEFINE kept == {k \in DOMAIN records :
                      k = i => Since(sweepAt, records[k].last_reset) < RetainAge}
<1>2. records' = [j \in kept |-> records[j]] /\ sweep' = sweep \ {i}
  BY DEF SweepVisit
<1>3. \A j \in DOMAIN records : j \notin kept =>
        j = i /\ Since(sweepAt, records[i].last_reset) >= RetainAge
  BY DEF Inv, TypeOK, RateState, Since
<1>4. kept \subseteq DOMAIN records
  OBVIOUS
<1> HIDE DEF kept
<1>5. TypeOK'
  BY <1>1, <1>2, <1>4 DEF Inv, TypeOK
<1>6. Fresh'
  BY <1>1 DEF Inv, Fresh
<1>7. OpenPaid'
  BY <1>1, <1>2, <1>4 DEF Inv, OpenPaid
<1>8. ClosedPaid'
  <2> SUFFICES ASSUME NEW j \in IPs \ DOMAIN records'
               PROVE  /\ Second * total[j] <= MaxRps * clock
                      /\ \A u \in Tasks : pc[u] = "entry" /\ ip[u] = j =>
                           Second * total[j] <= MaxRps * at[u]
    BY <1>1 DEF ClosedPaid
  <2>1. CASE j \notin DOMAIN records
    BY <2>1 DEF Inv, ClosedPaid
  <2>2. CASE j \in DOMAIN records
    <3>1. j = i /\ Since(sweepAt, records[i].last_reset) >= RetainAge
      BY <1>2, <1>3, <2>2
    <3> DEFINE r == records[i].last_reset
               n == records[i].count
    <3>2. /\ r \in Nat /\ n \in 0..MaxRps /\ total[j] \in Nat
          /\ sweepAt \in Nat /\ clock \in Nat
      BY <2>2, <3>1 DEF Inv, TypeOK, RateState
    <3>3. Second * total[j] <= MaxRps * r + Second * n
      BY <2>2, <3>1 DEF Inv, OpenPaid
    <3>4. r + Second + MaxDelay <= sweepAt /\ sweepAt <= clock
      BY <3>1, <3>2 DEF Inv, Fresh, Since
    <3> HIDE DEF r, n
    <3>5. Second * total[j] <= MaxRps * clock
      BY <3>2, <3>3, <3>4, WindowPaid
    <3>6. ASSUME NEW u \in Tasks, pc[u] = "entry"
          PROVE  Second * total[j] <= MaxRps * at[u]
      <4>1. at[u] \in Nat /\ r + Second <= at[u]
        BY <3>2, <3>4, <3>6 DEF Inv, TypeOK, Fresh
      <4> QED
        BY <3>2, <3>3, <4>1, WindowPaid
    <3> QED
      BY <3>5, <3>6
  <2> QED
    BY <2>1, <2>2
<1> QED
  BY <1>5, <1>6, <1>7, <1>8 DEF Inv

-----------------------------------------------------------------------------
(* The ledger is an inductive invariant of the limiter. *)
LEMMA Invariance == Spec => []Inv
<1> USE RateAssumption
<1>1. Init => Inv
  <2> SUFFICES ASSUME Init PROVE Inv
    OBVIOUS
  <2>1. TypeOK
    BY DEF Init, TypeOK
  <2>2. Fresh /\ OpenPaid
    BY DEF Init, Fresh, OpenPaid
  <2>3. ClosedPaid
    <3>1. Second * 0 = 0 /\ MaxRps * 0 = 0
      OBVIOUS
    <3>2. clock = 0 /\ \A i \in IPs : total[i] = 0
      BY DEF Init
    <3>3. \A t \in Tasks : pc[t] # "entry"
      BY DEF Init
    <3>4. Second * 0 <= MaxRps * 0
      BY <3>1
    <3> QED
      BY <3>2, <3>3, <3>4 DEF ClosedPaid
  <2> QED
    BY <2>1, <2>2, <2>3 DEF Inv
<1>2. Inv /\ [Next]_vars => Inv'
  <2> SUFFICES ASSUME Inv, [Next]_vars PROVE Inv'
    OBVIOUS
  <2>1. ASSUME NEW t \in Tasks, NEW i \in IPs, CheckStart(t, i)
        PROVE  Inv'
    <3>1. /\ UNCHANGED <<clock, records, sweep, sweepAt, total, before>>
          /\ pc' = [pc EXCEPT ![t] = "entry"] /\ ip' = [ip EXCEPT ![t] = i]
          /\ at' = [at EXCEPT ![t] = clock] /\ verdict' = [verdict EXCEPT ![t] = "none"]
          /\ MaxRps > 0
      BY <2>1 DEF CheckStart, history
    <3>2. TypeOK'
      BY <3>1 DEF Inv, TypeOK
    <3>3. Fresh'
      BY <3>1 DEF Inv, TypeOK, Fresh
    <3>4. OpenPaid'
      BY <3>1 DEF Inv, OpenPaid
    <3>5. ClosedPaid'
      BY <3>1 DEF Inv, TypeOK, ClosedPaid
    <3> QED
      BY <3>2, <3>3, <3>4, <3>5 DEF Inv
  <2>2. ASSUME NEW t \in Tasks, NewWindow(t) \/ WithinQuota(t) \/ OverQuota(t)
        PROVE  Inv'
    BY <2>2, CheckKeeps
  <2>3. CASE SweepStart
    <3>1. /\ UNCHANGED <<clock, records, pc, ip, at, verdict, total, before>>
          /\ sweep' = IPs /\ sweepAt' = clock
      BY <2>3 DEF SweepStart, taskVars, history
    <3> QED
      BY <3>1 DEF Inv, TypeOK, Fresh, OpenPaid, ClosedPaid
  <2>4. ASSUME NEW i \in IPs, SweepVisit(i)
        PROVE  Inv'
    BY <2>4, SweepKeeps
  <2>5. CASE Tick
    <3>1. /\ UNCHANGED <<records, pc, ip, at, verdict, sweep, sweepAt, total>>
          /\ clock' = clock + 1 /\ clock < MaxTime
          /\ \A t \in Tasks : pc[t] = "entry" => clock < at[t] + MaxDelay
          /\ before' = [i \in IPs |-> [before[i] EXCEPT ![clock + 1] = total[i]]]
      BY <2>5 DEF Tick, taskVars
    <3>2. TypeOK' /\ Fresh' /\ OpenPaid'
      <4>1. before' \in [IPs -> [0..MaxTime -> Nat]]
        BY <3>1 DEF Inv, TypeOK
      <4> QED
        BY <3>1, <4>1 DEF Inv, TypeOK, Fresh, OpenPaid, RateState
    <3>3. MaxRps * clock <= MaxRps * (clock + 1) /\ clock \in Nat
          /\ MaxRps * clock \in Nat /\ MaxRps * (clock + 1) \in Nat
      BY Monotone DEF Inv, TypeOK
    <3>4. \A i \in IPs : Second * total[i] \in Nat
      BY DEF Inv, TypeOK
    <3>5. ClosedPaid'
      BY <3>1, <3>3, <3>4 DEF Inv, ClosedPaid
    <3> QED
      BY <3>2, <3>5 DEF Inv
  <2>6. CASE UNCHANGED vars
    BY <2>6 DEF vars, Inv, TypeOK, Fresh, OpenPaid, ClosedPaid
  <2> QED
    BY <2>1, <2>2, <2>3, <2>4, <2>5, <2>6 DEF Next
<1> QED
  BY <1>1, <1>2, PTL DEF Spec

(***************************************************************************)
(* Every record keeps its type: a counter never exceeds max_rps             *)
(* (ratelimit.rs: check).                                                   *)
(***************************************************************************)
THEOREM RateTypeCorrect == Spec => []TypeOK
BY Invariance, PTL DEF Inv

(***************************************************************************)
(* The long-run rate of every address is max_rps (ratelimit.rs: check and   *)
(* the cleanup task).                                                       *)
(***************************************************************************)
THEOREM LongRunRate == Spec => []LongRunQuota
<1> USE RateAssumption
<1>1. Inv => LongRunQuota
  <2> SUFFICES ASSUME Inv, NEW i \in IPs
               PROVE  Second * total[i] <= MaxRps * (clock + Second)
    BY DEF LongRunQuota
  <2>1. clock \in Nat /\ total[i] \in Nat
    BY DEF Inv, TypeOK
  <2>2. CASE i \in DOMAIN records
    <3>1. /\ records[i].last_reset \in Nat /\ records[i].count \in 0..MaxRps
          /\ records[i].last_reset + Second <= clock + Second
          /\ Second * total[i] <= MaxRps * records[i].last_reset + Second * records[i].count
      BY <2>1, <2>2 DEF Inv, TypeOK, RateState, OpenPaid
    <3>2. clock + Second \in Nat
      BY <2>1
    <3> HIDE RateAssumption
    <3> QED
      BY <2>1, <3>1, <3>2, WindowPaid
  <2>3. CASE i \notin DOMAIN records
    <3>1. Second * total[i] <= MaxRps * clock
      BY <2>3 DEF Inv, ClosedPaid
    <3>2. MaxRps * clock <= MaxRps * (clock + Second)
      BY <2>1, Monotone
    <3>3. Second * total[i] \in Nat /\ MaxRps * clock \in Nat
          /\ MaxRps * (clock + Second) \in Nat
      BY <2>1
    <3> QED
      BY <3>1, <3>2, <3>3
  <2> QED
    BY <2>2, <2>3
<1> QED
  BY Invariance, <1>1, PTL

-----------------------------------------------------------------------------
(***************************************************************************)
(* What an address whose window began at r, with c requests in it so far,   *)
(* can have got through since an earlier tick s: n is what it got through   *)
(* in all, b[s] what it had when tick s began.  A window takes requests     *)
(* until Second + MaxDelay after its start and windows are a second apart,  *)
(* so with every second that s lies further back there is one more of them. *)
(***************************************************************************)
Recent(b, n, now, r, c) ==
  \A s \in 0..now :
    /\ s >= r + Second + MaxDelay => n <= b[s]
    /\ s >= r + MaxDelay => n <= b[s] + c
    /\ s + Second >= r + MaxDelay => n <= b[s] + c + MaxRps
    /\ s + Second + Second >= r + MaxDelay => n <= b[s] + c + MaxRps + MaxRps

OpenRecent ==
  \A i \in DOMAIN records :
    Recent(before[i], total[i], clock, records[i].last_reset, records[i].count)
ClosedRecent ==
  \A i \in IPs \ DOMAIN records :
    /\ Recent(before[i], total[i], clock, clock, 0)
    /\ \A t \in Tasks :
         pc[t] = "entry" /\ ip[t] = i => Recent(before[i], total[i], clock, at[t], 0)

(* The requests a record counts came after its window began. *)
Filled ==
  \A i \in DOMAIN records, s \in 0..clock :
    s <= records[i].last_reset => before[i][s] + records[i].count <= total[i]

(* Nothing is ever taken back, and the seconds that are over were within the bound. *)
Past ==
  \A i \in IPs, s \in 0..clock :
    /\ before[i][s] <= total[i]
    /\ MaxDelay <= Second /\ s + Second <= clock =>
         before[i][s + Second] <= before[i][s] + MaxRps + MaxRps + MaxRps

Looking == OpenRecent /\ ClosedRecent /\ Filled /\ Past

-----------------------------------------------------------------------------
(* A window a second later starts with a clean slate. *)
LEMMA ShiftRecent ==
  ASSUME NEW now \in 0..MaxTime, NEW b \in [0..MaxTime -> Nat], NEW n \in Nat,
         NEW r \in Nat, NEW a \in Nat, NEW c \in 0..MaxRps,
         Recent(b, n, now, r, c), r + Second <= a
  PROVE  Recent(b, n, now, a, 0)
BY RateAssumption DEF Recent

(* As time passes, less is recent. *)
LEMMA LaterRecent ==
  ASSUME NEW now \in 0..MaxTime, NEW b \in [0..MaxTime -> Nat], NEW n \in Nat,
         NEW r \in Nat, NEW a \in Nat, Recent(b, n, now, r, 0), r <= a
  PROVE  Recent(b, n, now, a, 0)
BY RateAssumption DEF Recent

(* One request more, while the window can still take one. *)
LEMMA AddRecent ==
  ASSUME NEW now \in 0..MaxTime, NEW b \in [0..MaxTime -> Nat], NEW n \in Nat,
         NEW r \in Nat, NEW c \in 0..MaxRps,
         Recent(b, n, now, r, c), now < r + Second + MaxDelay
  PROVE  Recent(b, n + 1, now, r, c + 1)
<1> USE RateAssumption
<1> SUFFICES ASSUME NEW s \in 0..now
             PROVE  /\ s >= r + Second + MaxDelay => n + 1 <= b[s]
                    /\ s >= r + MaxDelay => n + 1 <= b[s] + (c + 1)
                    /\ s + Second >= r + MaxDelay => n + 1 <= b[s] + (c + 1) + MaxRps
                    /\ s + Second + Second >= r + MaxDelay =>
                         n + 1 <= b[s] + (c + 1) + MaxRps + MaxRps
  BY DEF Recent
<1>1. s \in Nat /\ now \in Nat /\ s <= now /\ b[s] \in Nat /\ c \in Nat
  OBVIOUS
<1>2. /\ s >= r + MaxDelay => n <= b[s] + c
      /\ s + Second >= r + MaxDelay => n <= b[s] + c + MaxRps
      /\ s + Second + Second >= r + MaxDelay => n <= b[s] + c + MaxRps + MaxRps
  BY DEF Recent
<1> DEFINE m == b[s]
<1> HIDE DEF m
<1>3. ~(s >= r + Second + MaxDelay)
  BY <1>1
<1>4. m \in Nat
  BY <1>1 DEF m
<1>5. s >= r + MaxDelay => n + 1 <= m + (c + 1)
  BY <1>1, <1>2, <1>4 DEF m
<1>6. s + Second >= r + MaxDelay => n + 1 <= m + (c + 1) + MaxRps
  BY <1>1, <1>2, <1>4 DEF m
<1>7. s + Second + Second >= r + MaxDelay => n + 1 <= m + (c + 1) + MaxRps + MaxRps
  BY <1>1, <1>2, <1>4 DEF m
<1> QED
  BY <1>3, <1>5, <1>6, <1>7 DEF m

(* A tick begins: nothing has happened in it. *)
LEMMA TickRecent ==
  ASSUME NEW now \in 0..MaxTime, now < MaxTime, NEW b \in [0..MaxTime -> Nat], NEW n \in Nat,
         NEW r \in Nat, NEW c \in 0..MaxRps, Recent(b, n, now, r, c)
  PROVE  Recent([b EXCEPT ![now + 1] = n], n, now + 1, r, c)
<1> DEFINE bb == [b EXCEPT ![now + 1] = n]
<1>1. bb[now + 1] = n /\ \A s \in 0..now : bb[s] = b[s]
  BY RateAssumption
<1> HIDE DEF bb
<1>2. \A s \in 0..(now + 1) : s \in 0..now \/ s = now + 1
  OBVIOUS
<1>3. Recent(bb, n, now + 1, r, c)
  BY <1>1, <1>2, RateAssumption DEF Recent
<1> QED
  BY <1>3 DEF bb

-----------------------------------------------------------------------------
(* The record check works on looks back as far as it must, stored or fresh. *)
LEMMA EntryRecent ==
  ASSUME Inv, Looking, NEW t \in Tasks, pc[t] = "entry"
  PROVE  /\ Recent(before[ip[t]], total[ip[t]], clock, Entry(t).last_reset, Entry(t).count)
         /\ \A s \in 0..clock :
              /\ before[ip[t]][s] \in Nat
              /\ before[ip[t]][s] <= total[ip[t]]
              /\ s <= Entry(t).last_reset =>
                   before[ip[t]][s] + Entry(t).count <= total[ip[t]]
<1> USE RateAssumption
<1>1. /\ ip[t] \in IPs /\ at[t] \in Nat /\ clock \in 0..MaxTime
      /\ before[ip[t]] \in [0..MaxTime -> Nat]
  BY DEF Inv, TypeOK
<1>2. \A s \in 0..clock :
        before[ip[t]][s] \in Nat /\ before[ip[t]][s] <= total[ip[t]]
  BY <1>1 DEF Looking, Past
<1>3. CASE ip[t] \in DOMAIN records
  <2>1. Entry(t) = records[ip[t]]
    BY <1>3 DEF Entry
  <2> QED
    BY <1>2, <1>3, <2>1 DEF Looking, OpenRecent, Filled
<1>4. CASE ip[t] \notin DOMAIN records
  <2>1. Entry(t) = [count |-> 0, last_reset |-> at[t]]
    BY <1>4 DEF Entry
  <2>2. Entry(t).count = 0 /\ Entry(t).last_reset = at[t]
    BY <2>1
  <2>3. Recent(before[ip[t]], total[ip[t]], clock, at[t], 0)
    BY <1>1, <1>4 DEF Looking, ClosedRecent
  <2> QED
    BY <1>2, <2>2, <2>3
<1> QED
  BY <1>3, <1>4

(* A request let through keeps the view back if the record it leaves has it. *)
LEMMA PassLooks ==
  ASSUME Inv, Looking, NEW t \in Tasks, pc[t] = "entry", NEW r \in RateState,
         Store(ip[t], r), Count(ip[t]), Answer(t, "pass"),
         Recent(before[ip[t]], total[ip[t]] + 1, clock, r.last_reset, r.count),
         \A s \in 0..clock : s <= r.last_reset =>
           before[ip[t]][s] + r.count <= total[ip[t]] + 1
  PROVE  Looking'
<1> USE RateAssumption
<1> DEFINE a == ip[t]
<1>1. /\ a \in IPs /\ clock \in 0..MaxTime /\ total \in [IPs -> Nat]
      /\ before \in [IPs -> [0..MaxTime -> Nat]] /\ pc \in [Tasks -> {"idle", "entry"}]
  BY DEF Inv, TypeOK
<1>2. /\ records' = [j \in DOMAIN records \cup {a} |-> IF j = a THEN r ELSE records[j]]
      /\ total' = [total EXCEPT ![a] = @ + 1]
      /\ pc' = [pc EXCEPT ![t] = "idle"]
      /\ UNCHANGED <<clock, ip, at, before>>
  BY DEF Store, Count, Answer
<1>3. /\ Recent(before[a], total[a] + 1, clock, r.last_reset, r.count)
      /\ \A s \in 0..clock : s <= r.last_reset => before[a][s] + r.count <= total[a] + 1
  OBVIOUS
<1> HIDE DEF a
<1>4. /\ total'[a] = total[a] + 1 /\ \A j \in IPs : j # a => total'[j] = total[j]
      /\ DOMAIN records' = DOMAIN records \cup {a} /\ records'[a] = r
      /\ \A j \in DOMAIN records : j # a => records'[j] = records[j]
      /\ DOMAIN records \subseteq IPs
      /\ \A u \in Tasks : pc'[u] = "entry" => pc[u] = "entry"
      /\ clock' = clock /\ ip' = ip /\ at' = at /\ before' = before
  BY <1>1, <1>2 DEF Inv, TypeOK
<1>5. OpenRecent'
  BY <1>3, <1>4 DEF Looking, OpenRecent
<1>6. ClosedRecent'
  BY <1>4 DEF Looking, ClosedRecent
<1>7. Filled'
  <2> SUFFICES ASSUME NEW j \in DOMAIN records', NEW s \in 0..clock,
                      s <= records'[j].last_reset
               PROVE  before[j][s] + records'[j].count <= total'[j]
    BY <1>4 DEF Filled
  <2>1. CASE j = a
    BY <1>3, <1>4, <2>1
  <2>2. CASE j # a
    BY <1>4, <2>2 DEF Looking, Filled
  <2> QED
    BY <2>1, <2>2
<1>8. Past'
  <2> SUFFICES ASSUME NEW j \in IPs, NEW s \in 0..clock
               PROVE  before[j][s] <= total'[j]
    BY <1>4 DEF Looking, Past
  <2>1. before[j][s] <= total[j] /\ before[j][s] \in Nat /\ total[j] \in Nat
    BY <1>1 DEF Looking, Past
  <2>2. total'[j] = total[j] \/ total'[j] = total[j] + 1
    BY <1>4
  <2> QED
    BY <2>1, <2>2
<1> QED
  BY <1>5, <1>6, <1>7, <1>8 DEF Looking

(* check keeps the view back. *)
LEMMA CheckLooks ==
  ASSUME Inv, Looking, NEW t \in Tasks, NewWindow(t) \/ WithinQuota(t) \/ OverQuota(t)
  PROVE  Looking'
<1> USE RateAssumption
<1> DEFINE e == Entry(t)
           b == before[ip[t]]
           n == total[ip[t]]
<1>0. pc[t] = "entry"
  BY DEF NewWindow, WithinQuota, OverQuota
<1>1. /\ at[t] \in Nat /\ at[t] <= clock /\ MaxRps > 0 /\ n \in Nat
      /\ e \in RateState /\ e.last_reset <= clock
  BY <1>0, EntryFacts
<1>2. /\ clock \in 0..MaxTime /\ clock \in Nat /\ clock <= at[t] + MaxDelay
      /\ b \in [0..MaxTime -> Nat]
      /\ e.count \in 0..MaxRps /\ e.count \in Nat /\ e.last_reset \in Nat
  BY <1>0, <1>1 DEF Inv, TypeOK, Fresh, RateState
<1>3. /\ Recent(b, n, clock, e.last_reset, e.count)
      /\ \A s \in 0..clock : /\ b[s] \in Nat /\ b[s] <= n
                             /\ s <= e.last_reset => b[s] + e.count <= n
  BY <1>0, EntryRecent
<1>4. CASE NewWindow(t)
  <2>1. e.last_reset + Second <= at[t]
    BY <1>1, <1>2, <1>4 DEF NewWindow, Expired, Since
  <2> DEFINE r == [count |-> 1, last_reset |-> at[t]]
  <2>2. r \in RateState /\ r.last_reset = at[t] /\ r.count = 1
    BY <1>1 DEF RateState
  <2>3. Store(ip[t], r) /\ Count(ip[t]) /\ Answer(t, "pass")
    BY <1>4 DEF NewWindow
  <2> HIDE DEF r, e, b, n
  <2>4. Recent(b, n, clock, at[t], 0)
    BY <1>1, <1>2, <1>3, <2>1, ShiftRecent
  <2>5. clock < at[t] + Second + MaxDelay /\ 0 \in 0..MaxRps
    BY <1>1, <1>2
  <2>6. Recent(b, n + 1, clock, at[t], 0 + 1)
    BY <1>1, <1>2, <2>4, <2>5, AddRecent
  <2>7. Recent(b, n + 1, clock, r.last_reset, r.count)
    BY <2>2, <2>6
  <2>8. \A s \in 0..clock : s <= r.last_reset => b[s] + r.count <= n + 1
    BY <1>1, <1>3, <2>2
  <2> QED
    BY <1>0, <2>2, <2>3, <2>7, <2>8, PassLooks DEF b, n
<1>5. CASE WithinQuota(t)
  <2>1. clock < e.last_reset + Second + MaxDelay /\ e.count < MaxRps
    BY <1>1, <1>2, <1>5 DEF WithinQuota, Expired, Since
  <2> DEFINE r == [e EXCEPT !.count = @ + 1]
  <2>2. r \in RateState /\ r.last_reset = e.last_reset /\ r.count = e.count + 1
    <3> HIDE DEF e
    <3>1. e = [count |-> e.count, last_reset |-> e.last_reset]
      BY <1>1 DEF RateState
    <3>2. e.count \in 0..MaxRps /\ MaxRps \in Nat /\ e.count < MaxRps
      BY <1>2, <2>1 DEF RateState
    <3>3. e.count + 1 \in 0..MaxRps
      BY <3>2
    <3>4. r = [count |-> e.count + 1, last_reset |-> e.last_reset]
      BY <3>1
    <3> QED
      BY <1>2, <3>3, <3>4 DEF RateState
  <2>3. Store(ip[t], r) /\ Count(ip[t]) /\ Answer(t, "pass")
    BY <1>5 DEF WithinQuota
  <2> HIDE DEF r, e, b, n
  <2>4. Recent(b, n + 1, clock, e.last_reset, e.count + 1)
    BY <1>1, <1>2, <1>3, <2>1, AddRecent
  <2>5. Recent(b, n + 1, clock, r.last_reset, r.count)
    BY <2>2, <2>4
  <2>6. \A s \in 0..clock : s <= r.last_reset => b[s] + r.count <= n + 1
    <3> SUFFICES ASSUME NEW s \in 0..clock, s <= r.last_reset
                 PROVE  b[s] + r.count <= n + 1
      OBVIOUS
    <3>1. b[s] \in Nat /\ b[s] + e.count <= n
      BY <1>3, <2>2
    <3> QED
      BY <1>1, <1>2, <2>2, <3>1
  <2> QED
    BY <1>0, <2>2, <2>3, <2>5, <2>6, PassLooks DEF b, n
<1>6. CASE OverQuota(t)
  <2>1. ip[t] \in DOMAIN records /\ Entry(t) = records[ip[t]]
    BY <1>1, <1>6 DEF OverQuota, Entry
  <2>2. records' = records
    BY <1>6, <2>1, SameRecord DEF OverQuota, Inv, TypeOK
  <2>3. /\ UNCHANGED <<clock, records, ip, at, total, before>>
        /\ pc' = [pc EXCEPT ![t] = "idle"]
    BY <1>6, <2>2 DEF OverQuota, Answer, history
  <2>4. \A u \in Tasks : pc'[u] = "entry" => pc[u] = "entry"
    BY <2>3 DEF Inv, TypeOK
  <2> QED
    BY <2>3, <2>4 DEF Looking, OpenRecent, ClosedRecent, Filled, Past
<1> QED
  BY <1>4, <1>5, <1>6

(***************************************************************************)
(* A record the cleaner drops is so old that its window, and every check    *)
(* that still had a reading from within it, is over.                        *)
(***************************************************************************)
LEMMA SweepLooks ==
  ASSUME Inv, Looking, NEW i \in IPs, SweepVisit(i)
  PROVE  Looking'
<1> USE RateAssumption
<1>1. UNCHANGED <<clock, sweepAt, pc, ip, at, verdict, total, before>>
  BY DEF SweepVisit, taskVars, history
<1> DEFINE kept == {k \in DOMAIN records :
                      k = i => Since(sweepAt, records[k].last_reset) < RetainAge}
<1>2. records' = [j \in kept |-> records[j]]
  BY DEF SweepVisit
<1>3. \A j \in DOMAIN records : j \notin kept =>
        j = i /\ Since(sweepAt, records[i].last_reset) >= RetainAge
  BY DEF Inv, TypeOK, RateState, Since
<1>4. kept \subseteq DOMAIN records
  OBVIOUS
<1> HIDE DEF kept
<1>5. OpenRecent' /\ Filled' /\ Past'
  BY <1>1, <1>2, <1>4 DEF Looking, OpenRecent, Filled, Past
<1>6. ClosedRecent'
  <2> SUFFICES ASSUME NEW j \in IPs \ DOMAIN records'
               PROVE  /\ Recent(before[j], total[j], clock, clock, 0)
                      /\ \A u \in Tasks : pc[u] = "entry" /\ ip[u] = j =>
                           Recent(before[j], total[j], clock, at[u], 0)
    BY <1>1 DEF ClosedRecent
  <2>1. CASE j \notin DOMAIN records
    BY <2>1 DEF Looking, ClosedRecent
  <2>2. CASE j \in DOMAIN records
    <3>1. j = i /\ Since(sweepAt, records[i].last_reset) >= RetainAge
      BY <1>2, <1>3, <2>2
    <3> DEFINE r == records[i].last_reset
               n == records[i].count
    <3>2. /\ r \in Nat /\ n \in 0..MaxRps /\ total[j] \in Nat
          /\ sweepAt \in Nat /\ clock \in 0..MaxTime /\ clock \in Nat
          /\ before[j] \in [0..MaxTime -> Nat]
      BY <2>2, <3>1 DEF Inv, TypeOK, RateState
    <3>3. Recent(before[j], total[j], clock, r, n)
      BY <2>2, <3>1 DEF Looking, OpenRecent
    <3>4. r + Second + MaxDelay <= sweepAt /\ sweepAt <= clock
      <4>1. Since(sweepAt, r) >= RetainAge
        BY <3>1
      <4>2. sweepAt <= clock
        BY DEF Inv, Fresh
      <4> HIDE DEF r, n
      <4>3. r + Second + MaxDelay <= sweepAt
        BY <3>2, <4>1 DEF Since
      <4> QED
        BY <4>2, <4>3
    <3> HIDE DEF r, n
    <3>5. Recent(before[j], total[j], clock, clock, 0)
      <4>1. r + Second <= clock
        BY <3>2, <3>4
      <4> QED
        BY <3>2, <3>3, <4>1, ShiftRecent
    <3>6. ASSUME NEW u \in Tasks, pc[u] = "entry"
          PROVE  Recent(before[j], total[j], clock, at[u], 0)
      <4>1. at[u] \in Nat /\ r + Second <= at[u]
        BY <3>2, <3>4, <3>6 DEF Inv, TypeOK, Fresh
      <4> QED
        BY <3>2, <3>3, <4>1, ShiftRecent
    <3> QED
      BY <3>5, <3>6
  <2> QED
    BY <2>1, <2>2
<1> QED
  BY <1>5, <1>6 DEF Looking

(* The second that reaches to now is within the bound. *)
LEMMA BurstNow ==
  ASSUME Inv, Looking, NEW i \in IPs, NEW s \in 0..clock,
         clock < s + Second, MaxDelay <= Second
  PROVE  total[i] <= before[i][s] + MaxRps + MaxRps + MaxRps
<1> USE RateAssumption
<1>1. /\ clock \in 0..MaxTime /\ total[i] \in Nat /\ before[i][s] \in Nat
  BY DEF Inv, TypeOK
<1>2. CASE i \in DOMAIN records
  <2>1. /\ Recent(before[i], total[i], clock, records[i].last_reset, records[i].count)
        /\ records[i].last_reset \in Nat /\ records[i].count \in 0..MaxRps
        /\ records[i].last_reset <= clock
    BY <1>2 DEF Inv, TypeOK, RateState, OpenPaid, Looking, OpenRecent
  <2>2. s + Second + Second >= records[i].last_reset + MaxDelay
    BY <1>1, <2>1
  <2>3. total[i] <= before[i][s] + records[i].count + MaxRps + MaxRps
    BY <2>1, <2>2 DEF Recent
  <2> QED
    BY <1>1, <2>1, <2>3
<1>3. CASE i \notin DOMAIN records
  <2>1. Recent(before[i], total[i], clock, clock, 0)
    BY <1>3 DEF Looking, ClosedRecent
  <2>2. s + Second + Second >= clock + MaxDelay
    BY <1>1
  <2>3. total[i] <= before[i][s] + 0 + MaxRps + MaxRps
    BY <2>1, <2>2 DEF Recent
  <2> QED
    BY <1>1, <2>3
<1> QED
  BY <1>2, <1>3

(* A tick begins. *)
LEMMA TickLooks ==
  ASSUME Inv, Looking, Tick
  PROVE  Looking'
<1> USE RateAssumption
<1>1. /\ UNCHANGED <<records, pc, ip, at, total>>
      /\ clock' = clock + 1 /\ clock < MaxTime
      /\ before' = [i \in IPs |-> [before[i] EXCEPT ![clock + 1] = total[i]]]
  BY DEF Tick, taskVars
<1>2. /\ clock \in 0..MaxTime /\ clock \in Nat /\ clock + 1 \in 0..MaxTime
      /\ total \in [IPs -> Nat] /\ before \in [IPs -> [0..MaxTime -> Nat]]
      /\ DOMAIN records \subseteq IPs
      /\ \A i \in DOMAIN records :
           records[i].last_reset \in Nat /\ records[i].count \in 0..MaxRps
           /\ records[i].last_reset <= clock
  BY <1>1 DEF Inv, TypeOK, RateState, OpenPaid
<1>3. \A i \in IPs :
        /\ before'[i] = [before[i] EXCEPT ![clock + 1] = total[i]]
        /\ before'[i][clock + 1] = total[i]
        /\ \A s \in 0..clock : before'[i][s] = before[i][s]
  BY <1>1, <1>2
<1>4. ASSUME NEW i \in IPs, NEW r \in Nat, NEW c \in 0..MaxRps,
             Recent(before[i], total[i], clock, r, c)
      PROVE  Recent(before'[i], total[i], clock + 1, r, c)
  <2>1. before[i] \in [0..MaxTime -> Nat] /\ total[i] \in Nat
    BY <1>2
  <2>2. Recent([before[i] EXCEPT ![clock + 1] = total[i]], total[i], clock + 1, r, c)
    BY <1>1, <1>2, <1>4, <2>1, TickRecent
  <2> QED
    BY <1>3, <2>2
<1>5. OpenRecent'
  BY <1>1, <1>2, <1>4 DEF Looking, OpenRecent
<1>6. ClosedRecent'
  <2> SUFFICES ASSUME NEW i \in IPs \ DOMAIN records
               PROVE  /\ Recent(before'[i], total[i], clock + 1, clock + 1, 0)
                      /\ \A u \in Tasks : pc[u] = "entry" /\ ip[u] = i =>
                           Recent(before'[i], total[i], clock + 1, at[u], 0)
    BY <1>1 DEF ClosedRecent
  <2>1. 0 \in 0..MaxRps /\ clock + 1 \in Nat /\ clock <= clock + 1
    BY <1>2
  <2>2. Recent(before'[i], total[i], clock + 1, clock, 0)
    BY <1>2, <1>4, <2>1 DEF Looking, ClosedRecent
  <2>3. before'[i] \in [0..MaxTime -> Nat] /\ total[i] \in Nat
    <3>1. before[i] \in [0..MaxTime -> Nat] /\ total[i] \in Nat
      BY <1>2
    <3>2. [before[i] EXCEPT ![clock + 1] = total[i]] \in [0..MaxTime -> Nat]
      BY <3>1
    <3> QED
      BY <1>3, <3>1, <3>2
  <2>4. Recent(before'[i], total[i], clock + 1, clock + 1, 0)
    BY <1>2, <2>1, <2>2, <2>3, LaterRecent
  <2>5. ASSUME NEW u \in Tasks, pc[u] = "entry", ip[u] = i
        PROVE  Recent(before'[i], total[i], clock + 1, at[u], 0)
    <3>1. at[u] \in Nat
      BY DEF Inv, TypeOK
    <3> QED
      BY <1>4, <2>1, <2>5, <3>1 DEF Looking, ClosedRecent
  <2> QED
    BY <2>4, <2>5
<1>7. \A s \in 0..(clock + 1) : s \in 0..clock \/ s = clock + 1
  BY <1>2
<1>8. Filled'
  <2> SUFFICES ASSUME NEW i \in DOMAIN records, NEW s \in 0..(clock + 1),
                      s <= records[i].last_reset
               PROVE  before'[i][s] + records[i].count <= total[i]
    BY <1>1 DEF Filled
  <2>1. s \in 0..clock
    BY <1>2, <1>7
  <2> QED
    BY <1>2, <1>3, <2>1 DEF Looking, Filled
<1>9. Past'
  <2> SUFFICES ASSUME NEW i \in IPs, NEW s \in 0..(clock + 1)
               PROVE  /\ before'[i][s] <= total[i]
                      /\ MaxDelay <= Second /\ s + Second <= clock + 1 =>
                           before'[i][s + Second] <= before'[i][s] + MaxRps + MaxRps + MaxRps
    BY <1>1 DEF Past
  <2>1. before'[i][s] <= total[i]
    <3>1. total[i] \in Nat
      BY <1>2
    <3>2. CASE s = clock + 1
      <4>1. before'[i][clock + 1] = total[i]
        BY <1>3
      <4>2. before'[i][s] = total[i]
        BY ONLY <3>2, <4>1
      <4> QED
        BY ONLY <3>1, <4>2
    <3>3. CASE s \in 0..clock
      <4>1. before'[i][s] = before[i][s]
        BY <1>3, <3>3
      <4> QED
        BY <3>3, <4>1 DEF Looking, Past
    <3> QED
      BY <1>7, <3>2, <3>3
  <2>2. ASSUME MaxDelay <= Second, s + Second <= clock + 1
        PROVE  before'[i][s + Second] <= before'[i][s] + MaxRps + MaxRps + MaxRps
    <3>0. s \in 0..clock
      BY <1>2, <2>2
    <3>1. s \in 0..clock /\ before'[i][s] = before[i][s]
      BY <1>3, <3>0
    <3>2. CASE s + Second <= clock
      <4>1. s + Second \in 0..clock
        BY <1>2, <3>1, <3>2
      <4>2. before'[i][s + Second] = before[i][s + Second]
        BY <1>3, <4>1
      <4>3. before[i][s + Second] <= before[i][s] + MaxRps + MaxRps + MaxRps
        BY <2>2, <3>1, <3>2 DEF Looking, Past
      <4> QED
        BY <3>1, <4>2, <4>3
    <3>3. CASE s + Second = clock + 1
      <4>1. clock < s + Second
        BY <1>2, <3>3
      <4>2. total[i] <= before[i][s] + MaxRps + MaxRps + MaxRps
        BY <2>2, <3>1, <4>1, BurstNow
      <4> QED
        BY <1>3, <3>1, <3>3, <4>2
    <3> QED
      BY <1>2, <2>2, <3>2, <3>3
  <2> QED
    BY <2>1, <2>2
<1> QED
  BY <1>5, <1>6, <1>8, <1>9 DEF Looking

(* Looking back is, with the ledger, an inductive invariant. *)
LEMMA LookingBack == Spec => []Looking
<1> USE RateAssumption
<1>1. Init => Looking
  <2> SUFFICES ASSUME Init PROVE Looking
    OBVIOUS
  <2>1. /\ clock = 0 /\ DOMAIN records = {} /\ \A t \in Tasks : pc[t] # "entry"
        /\ \A i \in IPs : total[i] = 0 /\ before[i] = [s \in 0..MaxTime |-> 0]
    BY DEF Init
  <2>2. \A i \in IPs, s \in 0..0 : before[i][s] = 0 /\ s = 0
    BY <2>1
  <2>3. OpenRecent /\ Filled
    BY <2>1 DEF OpenRecent, Filled
  <2>4. ClosedRecent
    <3>1. \A i \in IPs : Recent(before[i], 0, 0, 0, 0)
      BY <2>2 DEF Recent
    <3> QED
      BY <2>1, <3>1 DEF ClosedRecent
  <2>5. Past
    BY <2>1, <2>2 DEF Past
  <2> QED
    BY <2>3, <2>4, <2>5 DEF Looking
<1>2. Inv /\ Looking /\ [Next]_vars => Looking'
  <2> SUFFICES ASSUME Inv, Looking, [Next]_vars PROVE Looking'
    OBVIOUS
  <2>1. ASSUME NEW t \in Tasks, NEW i \in IPs, CheckStart(t, i)
        PROVE  Looking'
    <3>1. /\ UNCHANGED <<clock, records, total, before>>
          /\ pc' = [pc EXCEPT ![t] = "entry"] /\ ip' = [ip EXCEPT ![t] = i]
          /\ at' = [at EXCEPT ![t] = clock]
      BY <2>1 DEF CheckStart, history
    <3>2. /\ at'[t] = clock
          /\ \A u \in Tasks : u # t =>
               pc'[u] = pc[u] /\ ip'[u] = ip[u] /\ at'[u] = at[u]
      BY <3>1 DEF Inv, TypeOK
    <3>3. OpenRecent' /\ Filled' /\ Past'
      BY <3>1 DEF Looking, OpenRecent, Filled, Past
    <3>4. ClosedRecent'
      BY <3>1, <3>2 DEF Looking, ClosedRecent
    <3> QED
      BY <3>3, <3>4 DEF Looking
  <2>2. ASSUME NEW t \in Tasks, NewWindow(t) \/ WithinQuota(t) \/ OverQuota(t)
        PROVE  Looking'
    BY <2>2, CheckLooks
  <2>3. CASE SweepStart
    BY <2>3 DEF SweepStart, taskVars, history, Looking, OpenRecent, ClosedRecent, Filled, Past
  <2>4. ASSUME NEW i \in IPs, SweepVisit(i)
        PROVE  Looking'
    BY <2>4, SweepLooks
  <2>5. CASE Tick
    BY <2>5, TickLooks
  <2>6. CASE UNCHANGED vars
    BY <2>6 DEF vars, Looking, OpenRecent, ClosedRecent, Filled, Past
  <2> QED
    BY <2>1, <2>2, <2>3, <2>4, <2>5, <2>6 DEF Next
<1> QED
  BY <1>1, <1>2, Invariance, PTL DEF Spec

-----------------------------------------------------------------------------
(***************************************************************************)
(* No second, whenever it begins, sees more than three quotas of an address *)
(* pass (ratelimit.rs: check).                                              *)
(***************************************************************************)
THEOREM BurstBounded == Spec => []BurstBound
<1> USE RateAssumption
<1>1. Inv /\ Looking => BurstBound
  <2> SUFFICES ASSUME Inv, Looking, MaxDelay <= Second, NEW i \in IPs, NEW s \in 0..MaxTime
               PROVE  Accepted(i, s, s + Second - 1) <= 3 * MaxRps
    BY DEF BurstBound
  <2>1. /\ clock \in 0..MaxTime /\ total[i] \in Nat
        /\ before[i] \in [0..MaxTime -> Nat]
    BY DEF Inv, TypeOK
  <2>2. Accepted(i, s, s + Second - 1) = Before(i, s + Second) - Before(i, s)
    <3>1. s + Second - 1 + 1 = s + Second
      OBVIOUS
    <3> QED
      BY <3>1 DEF Accepted
  <2>3. Before(i, s) \in Nat /\ Before(i, s + Second) \in Nat
    BY <2>1 DEF Before
  <2>4. Before(i, s + Second) <= Before(i, s) + MaxRps + MaxRps + MaxRps
    <3>1. CASE s > clock
      BY <2>1, <3>1 DEF Before
    <3>2. CASE s <= clock /\ s + Second <= clock
      <4>1. s \in 0..clock /\ Before(i, s) = before[i][s]
            /\ Before(i, s + Second) = before[i][s + Second]
        BY <2>1, <3>2 DEF Before
      <4> QED
        BY <3>2, <4>1 DEF Looking, Past
    <3>3. CASE s <= clock /\ clock < s + Second
      <4>1. s \in 0..clock /\ Before(i, s) = before[i][s] /\ Before(i, s + Second) = total[i]
        BY <2>1, <3>3 DEF Before
      <4> QED
        BY <3>3, <4>1, BurstNow
    <3> QED
      BY <2>1, <3>1, <3>2, <3>3
  <2> QED
    BY <2>2, <2>3, <2>4
<1> QED
  BY <1>1, Invariance, LookingBack, PTL

(***************************************************************************)
(* Only an address that used up its quota within the last second, and the   *)
(* delay of a clock reading, is refused (ratelimit.rs: check).              *)
(***************************************************************************)
THEOREM RefusalsJustified == Spec => RefusedOnlyOverQuota
<1> USE RateAssumption
<1> DEFINE Justified ==
             \A t \in Tasks :
               verdict[t] # "limited" /\ verdict'[t] = "limited" =>
                 Accepted(ip[t], Since(clock, Second + MaxDelay), clock) >= MaxRps
<1>1. Inv /\ Looking /\ [Next]_vars => [Justified]_vars
  <2> SUFFICES ASSUME Inv, Looking, Next, NEW t \in Tasks,
                      verdict[t] # "limited", verdict'[t] = "limited"
               PROVE  Accepted(ip[t], Since(clock, Second + MaxDelay), clock) >= MaxRps
    OBVIOUS
  <2>1. OverQuota(t)
    <3>1. verdict \in [Tasks -> {"none", "pass", "limited"}]
      BY DEF Inv, TypeOK
    <3>2. ASSUME NEW u \in Tasks, NEW v, Answer(u, v)
          PROVE  u = t /\ v = "limited"
      BY <3>1, <3>2 DEF Answer
    <3>3. ASSUME NEW u \in Tasks, NEW a \in IPs, CheckStart(u, a)
          PROVE  FALSE
      BY <3>1, <3>3 DEF CheckStart
    <3>4. "pass" # "limited"
      OBVIOUS
    <3>5. ASSUME NEW u \in Tasks, NewWindow(u) \/ WithinQuota(u) \/ OverQuota(u)
          PROVE  OverQuota(t)
      BY <3>2, <3>4, <3>5 DEF NewWindow, WithinQuota, OverQuota
    <3>6. SweepStart \/ (\E a \in IPs : SweepVisit(a)) \/ Tick => verdict' = verdict
      BY DEF SweepStart, SweepVisit, Tick, taskVars
    <3> QED
      BY <3>3, <3>5, <3>6 DEF Next
  <2> DEFINE e == Entry(t)
             b == before[ip[t]]
             n == total[ip[t]]
             s == Since(clock, Second + MaxDelay)
  <2>2. pc[t] = "entry" /\ ~Expired(t) /\ e.count >= MaxRps
    BY <2>1 DEF OverQuota
  <2>3. /\ at[t] \in Nat /\ clock \in Nat /\ n \in Nat /\ e \in RateState
    BY <2>2, EntryFacts
  <2>4. clock <= at[t] + MaxDelay /\ e.count \in 0..MaxRps /\ e.last_reset \in Nat
    BY <2>2, <2>3 DEF Inv, Fresh, RateState
  <2>5. clock < e.last_reset + Second + MaxDelay
    BY <2>2, <2>3, <2>4 DEF Expired, Since
  <2>6. s \in 0..clock /\ s <= e.last_reset
    BY <2>3, <2>4, <2>5 DEF Since
  <2>7. b[s] \in Nat /\ b[s] + e.count <= n
    BY <2>2, <2>6, EntryRecent
  <2>8. Accepted(ip[t], s, clock) = n - b[s]
    BY <2>3, <2>6 DEF Accepted, Before
  <2> HIDE DEF e, b, n, s
  <2>9. n - b[s] >= MaxRps
    BY <2>2, <2>3, <2>4, <2>7
  <2> QED
    BY <2>8, <2>9 DEF s
<1>2. Spec => [][Justified]_vars
  BY <1>1, Invariance, LookingBack, PTL DEF Spec
<1> QED
  BY <1>2 DEF RefusedOnlyOverQuota
=============================================================================
