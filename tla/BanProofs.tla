------------------------------ MODULE BanProofs ------------------------------
(***************************************************************************)
(* Proofs about Ban, for any addresses, tasks and ban durations.            *)
(***************************************************************************)
EXTENDS Ban, TLAPS

(***************************************************************************)
(* An instant carried to a lock is never in the future.  Without this part  *)
(* LatestBanHeld is not inductive: a check or a cleaner that carried an     *)
(* instant of the future would remove a running ban.                        *)
(***************************************************************************)
ReadingsArePast ==
  /\ \A t \in Tasks : pc[t] \in {"read", "write"} => at[t] <= clock
  /\ cleaner = "retain" => cleanAt <= clock

Inv == TypeOK /\ ReadingsArePast /\ LatestBanHeld

-----------------------------------------------------------------------------
LEMMA InitInv == Init => Inv
BY DEF Init, Inv, TypeOK, ReadingsArePast, LatestBanHeld

LEMMA NextInv == Inv /\ [Next]_vars => Inv'
<1> SUFFICES ASSUME Inv, [Next]_vars PROVE Inv'
    OBVIOUS
<1> USE BanAssumption DEF Inv, TypeOK, ReadingsArePast, LatestBanHeld
<1>1. ASSUME NEW t \in Tasks, NEW i \in IPs, NEW v \in Violations, Punish(t, i, v)
      PROVE  Inv'
      BY <1>1 DEF Punish, cleanVars
<1>2. ASSUME NEW t \in Tasks, NEW i \in IPs, CheckStart(t, i)
      PROVE  Inv'
      BY <1>2 DEF CheckStart, cleanVars
<1>3. ASSUME NEW t \in Tasks, Insert(t)
      PROVE  Inv'
  <2>1. /\ DOMAIN banned' = DOMAIN banned \cup {ip[t]}
        /\ banned' \in [DOMAIN banned \cup {ip[t]} -> Nat]
        /\ banned'[ip[t]] = at[t]
        /\ \A j \in DOMAIN banned : j # ip[t] => banned'[j] = banned[j]
        BY <1>3 DEF Insert, Put
  <2>2. TypeOK'
        BY <1>3, <2>1 DEF Insert, cleanVars
  <2>3. ReadingsArePast'
        BY <1>3 DEF Insert, cleanVars
  <2>4. LatestBanHeld'
        BY <1>3, <2>1 DEF Insert
  <2> QED BY <2>2, <2>3, <2>4
<1>4. ASSUME NEW t \in Tasks, Dropped(t)
      PROVE  Inv'
      BY <1>4 DEF Dropped, cleanVars
<1>5. ASSUME NEW t \in Tasks, CheckRead(t)
      PROVE  Inv'
      BY <1>5 DEF CheckRead, Return, cleanVars
<1>6. ASSUME NEW t \in Tasks, CheckWrite(t)
      PROVE  Inv'
  <2>1. CASE Known(t) /\ Lapsed(t)
    <3>1. /\ banned' = Without(banned, ip[t])
          /\ Return(t, "clear")
          /\ UNCHANGED <<clock, cleanVars, latest>>
          /\ pc[t] = "write"
          BY <1>6, <2>1 DEF CheckWrite
    <3>2. banned[ip[t]] < clock
          BY <2>1, <3>1 DEF Known, Lapsed
    <3>3. /\ DOMAIN banned' = DOMAIN banned \ {ip[t]}
          /\ banned' \in [DOMAIN banned \ {ip[t]} -> Nat]
          /\ \A j \in DOMAIN banned : j # ip[t] => banned'[j] = banned[j]
          BY <3>1 DEF Without, Restrict
    <3>4. TypeOK' /\ ReadingsArePast'
          BY <3>1, <3>3 DEF Return, cleanVars
    <3>5. UNCHANGED <<clock, latest>>
          BY <3>1
    <3>6. LatestBanHeld'
          BY <2>1, <3>2, <3>3, <3>5 DEF Known
    <3> QED BY <3>4, <3>6
  <2>2. CASE ~(Known(t) /\ Lapsed(t))
        BY <1>6, <2>2 DEF CheckWrite, Return, cleanVars
  <2> QED BY <2>1, <2>2
<1>7. ASSUME CleanupTick
      PROVE  Inv'
      BY <1>7 DEF CleanupTick, taskVars
<1>8. ASSUME CleanupRetain
      PROVE  Inv'
  <2>1. /\ DOMAIN banned' = {j \in DOMAIN banned : banned[j] > cleanAt}
        /\ banned' \in [DOMAIN banned' -> Nat]
        /\ \A j \in DOMAIN banned' : banned'[j] = banned[j]
        BY <1>8 DEF CleanupRetain, RestrictValues, Restrict
  <2>2. TypeOK' /\ ReadingsArePast'
        BY <1>8, <2>1 DEF CleanupRetain, taskVars
  <2>3. /\ UNCHANGED <<clock, latest>>
        /\ cleanAt <= clock
        BY <1>8 DEF CleanupRetain
  <2>4. LatestBanHeld'
        BY <2>1, <2>3
  <2> QED BY <2>2, <2>4
<1>9. ASSUME Tick
      PROVE  Inv'
      BY <1>9 DEF Tick, taskVars, cleanVars
<1>10. CASE UNCHANGED vars
      BY <1>10 DEF vars
<1> QED
    BY <1>1, <1>2, <1>3, <1>4, <1>5, <1>6, <1>7, <1>8, <1>9, <1>10
    DEF Next, Cleaner

(***************************************************************************)
(* Every reachable state of the ban manager is well typed (ban.rs).         *)
(***************************************************************************)
THEOREM BanTypeCorrect == Spec => []TypeOK
<1>1. Inv => TypeOK
      BY DEF Inv
<1> QED BY <1>1, InitInv, NextInv, PTL DEF Spec

(***************************************************************************)
(* The ban last recorded for an address stays in the map until it runs out, *)
(* whatever check and the cleaner do with their past clock readings.        *)
(***************************************************************************)
THEOREM BanHeld == Spec => []LatestBanHeld
<1>1. Inv => LatestBanHeld
      BY DEF Inv
<1> QED BY <1>1, InitInv, NextInv, PTL DEF Spec

(***************************************************************************)
(* check never answers "not banned" for an address whose ban is running at  *)
(* the moment of the answer.                                                *)
(***************************************************************************)
THEOREM CheckSound == Spec => NoRunningBanCleared
<1> DEFINE Sound == \A t \in Tasks :
             verdict[t] = "none" /\ verdict'[t] = "clear" => latest[ip[t]] <= clock
<1>1. Inv /\ [Next]_vars => [Sound]_vars
  <2> SUFFICES ASSUME Inv, Next, NEW t \in Tasks,
                      verdict[t] = "none", verdict'[t] = "clear"
               PROVE  latest[ip[t]] <= clock
      OBVIOUS
  <2> USE DEF Inv, TypeOK, ReadingsArePast, LatestBanHeld
  <2>1. ASSUME NEW u \in Tasks, CheckRead(u)
        PROVE  latest[ip[t]] <= clock
        BY <2>1 DEF CheckRead, Return, Known
  <2>2. ASSUME NEW u \in Tasks, CheckWrite(u)
        PROVE  latest[ip[t]] <= clock
    <3>1. u = t /\ pc[t] = "write" /\ (~Known(t) \/ (Known(t) /\ Lapsed(t)))
          BY <2>2 DEF CheckWrite, Return
    <3> QED BY <3>1 DEF Known, Lapsed
  <2>3. ASSUME NEW u \in Tasks, NEW i \in IPs, CheckStart(u, i)
        PROVE  FALSE
        BY <2>3 DEF CheckStart
  <2>4. CASE UNCHANGED verdict
        BY <2>4
  <2> QED BY <2>1, <2>2, <2>3, <2>4
          DEF Next, Cleaner, Punish, Insert, Dropped, CleanupTick, CleanupRetain,
              Tick, taskVars
<1>2. Spec => []Inv
      BY InitInv, NextInv, PTL DEF Spec
<1> QED BY <1>1, <1>2, PTL DEF Spec, NoRunningBanCleared
=============================================================================
