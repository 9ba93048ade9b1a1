--------------------------- MODULE CertReloadProofs ---------------------------
(***************************************************************************)
(* What certificate reloading guarantees, for every list of domains, any    *)
(* number of reloads at a time and any number of changes.                   *)
(*                                                                          *)
(* A reload builds its resolver domain by domain: Built says how far it is, *)
(* so that what it installs is complete.  Snapshot says that as long as no  *)
(* file has changed since it began, what it has read is what is on disk;    *)
(* that also settles ChangeInHand, since such a reload can then only fail   *)
(* on a file that is unreadable now.                                        *)
(***************************************************************************)
EXTENDS CertReload, TLAPS

(* The resolver m of a task at step p with the domain in place n. *)
BuiltAt(p, n, m) ==
  /\ p \in {"cert", "key"} => DOMAIN m = {VHosts[j] : j \in 1..(n - 1)}
  /\ p = "update" => DOMAIN m = Domains

(* ... whose certificate c and resolver agree with the files dsk. *)
SnapshotAt(p, n, c, m, dsk) ==
  /\ \A d \in DOMAIN m : m[d] = dsk[d]
  /\ p = "key" => c = dsk[VHosts[n]]["cert"]

Built == \A r \in Reloads : BuiltAt(pc[r], k[r], new_resolver[r])

Snapshot ==
  \A r \in Reloads : pc[r] # "idle" /\ clean[r] =>
    SnapshotAt(pc[r], k[r], cert_bytes[r], new_resolver[r], disk)

Inv == TypeOK /\ ServedComplete /\ Built /\ Snapshot

Resolvers == Partial([Files -> Versions])

-----------------------------------------------------------------------------
(* Resolvers are functions on some of the domains. *)
LEMMA PartialIs ==
  ASSUME NEW S, NEW m
  PROVE  m \in Partial(S) <=> m \in [DOMAIN m -> S] /\ DOMAIN m \subseteq Domains
<1>1. ASSUME m \in Partial(S)
      PROVE  m \in [DOMAIN m -> S] /\ DOMAIN m \subseteq Domains
  <2>1. PICK D \in SUBSET Domains : m \in [D -> S]
    BY <1>1 DEF Partial
  <2> QED
    BY <2>1
<1>2. ASSUME m \in [DOMAIN m -> S], DOMAIN m \subseteq Domains
      PROVE  m \in Partial(S)
  BY <1>2 DEF Partial
<1> QED
  BY <1>1, <1>2

(* A place in the list is a domain. *)
LEMMA PlaceIsDomain ==
  /\ Len(VHosts) \in Nat \ {0}
  /\ \A n \in 1..Len(VHosts) : VHosts[n] \in Domains
  /\ Domains = {VHosts[j] : j \in 1..Len(VHosts)}
<1>1. Len(VHosts) \in Nat \ {0} /\ DOMAIN VHosts = 1..Len(VHosts)
  BY CertAssumption
<1> QED
  BY <1>1 DEF Domains, Range

(* The domains before the next place are those before this one, and it. *)
LEMMA OneMorePlace ==
  ASSUME NEW n \in 1..Len(VHosts)
  PROVE  {VHosts[j] : j \in 1..((n + 1) - 1)} = {VHosts[j] : j \in 1..(n - 1)} \cup {VHosts[n]}
<1>1. (n + 1) - 1 = n /\ \A j \in 1..n : j \in 1..(n - 1) \/ j = n
  BY PlaceIsDomain
<1>2. \A j \in 1..(n - 1) : j \in 1..n
  BY PlaceIsDomain
<1>3. n \in 1..n
  BY PlaceIsDomain
<1> QED
  BY <1>1, <1>2, <1>3

(* A task's own values keep their invariant if what it does keeps it. *)
LEMMA TaskKeeps ==
  ASSUME Inv, NEW r \in Reloads,
         NEW p \in {"idle", "cert", "key", "update"}, NEW n \in 1..Len(VHosts),
         NEW c \in Contents, NEW m \in Resolvers,
         pc' = [pc EXCEPT ![r] = p], k' = [k EXCEPT ![r] = n],
         cert_bytes' = [cert_bytes EXCEPT ![r] = c],
         new_resolver' = [new_resolver EXCEPT ![r] = m],
         UNCHANGED <<disk, watching, changes, unseen>>,
         events' \in Nat, caughtUp' \in BOOLEAN,
         clean' \in [Reloads -> BOOLEAN],
         \A u \in Reloads : u # r => clean'[u] = clean[u],
         served' \in Resolvers, DOMAIN served' = Domains,
         BuiltAt(p, n, m),
         p # "idle" /\ clean'[r] => SnapshotAt(p, n, c, m, disk)
  PROVE  Inv'
<1>1. /\ pc'[r] = p /\ k'[r] = n /\ cert_bytes'[r] = c /\ new_resolver'[r] = m
      /\ \A u \in Reloads : u # r =>
           /\ pc'[u] = pc[u] /\ k'[u] = k[u] /\ cert_bytes'[u] = cert_bytes[u]
           /\ new_resolver'[u] = new_resolver[u]
  BY DEF Inv, TypeOK
<1>2. TypeOK'
  <2>1. /\ pc' \in [Reloads -> {"idle", "cert", "key", "update"}]
        /\ k' \in [Reloads -> 1..Len(VHosts)]
        /\ cert_bytes' \in [Reloads -> Contents]
        /\ new_resolver' \in [Reloads -> Resolvers]
    BY DEF Inv, TypeOK, Resolvers
  <2> QED
    BY <2>1 DEF Inv, TypeOK, Resolvers
<1>3. ServedComplete'
  BY DEF ServedComplete
<1>4. Built'
  BY <1>1 DEF Inv, Built
<1>5. Snapshot'
  <2> SUFFICES ASSUME NEW u \in Reloads, pc'[u] # "idle", clean'[u]
               PROVE  SnapshotAt(pc'[u], k'[u], cert_bytes'[u], new_resolver'[u], disk)
    BY DEF Snapshot
  <2>1. CASE u = r
    BY <1>1, <2>1
  <2>2. CASE u # r
    BY <1>1, <2>2 DEF Inv, Snapshot
  <2> QED
    BY <2>1, <2>2
<1> QED
  BY <1>2, <1>3, <1>4, <1>5 DEF Inv

(* The types of a task's values, and that writing them back changes nothing. *)
LEMMA TaskType ==
  ASSUME Inv, NEW r \in Reloads
  PROVE  /\ pc[r] \in {"idle", "cert", "key", "update"} /\ k[r] \in 1..Len(VHosts)
         /\ cert_bytes[r] \in Contents /\ new_resolver[r] \in Resolvers
         /\ k = [k EXCEPT ![r] = k[r]]
         /\ cert_bytes = [cert_bytes EXCEPT ![r] = cert_bytes[r]]
         /\ new_resolver = [new_resolver EXCEPT ![r] = new_resolver[r]]
         /\ events \in Nat /\ caughtUp \in BOOLEAN /\ clean \in [Reloads -> BOOLEAN]
         /\ served \in Resolvers /\ DOMAIN served = Domains
         /\ Here(r) \in Domains /\ disk \in [Domains -> Pairs] /\ disk[Here(r)] \in Pairs
<1>1. k[r] \in 1..Len(VHosts) /\ disk \in [Domains -> Pairs]
  BY DEF Inv, TypeOK
<1>2. Here(r) \in Domains
  BY <1>1, PlaceIsDomain DEF Here
<1>3. /\ pc[r] \in {"idle", "cert", "key", "update"}
      /\ cert_bytes[r] \in Contents /\ new_resolver[r] \in Resolvers
      /\ events \in Nat /\ caughtUp \in BOOLEAN /\ clean \in [Reloads -> BOOLEAN]
      /\ served \in Resolvers /\ DOMAIN served = Domains
  BY DEF Inv, TypeOK, ServedComplete, Resolvers
<1>4. /\ k = [k EXCEPT ![r] = k[r]]
      /\ cert_bytes = [cert_bytes EXCEPT ![r] = cert_bytes[r]]
      /\ new_resolver = [new_resolver EXCEPT ![r] = new_resolver[r]]
  BY DEF Inv, TypeOK
<1> QED
  BY <1>1, <1>2, <1>3, <1>4

(* A reload that gives up. *)
LEMMA FailKeeps ==
  ASSUME Inv, NEW r \in Reloads, Fail(r), UNCHANGED <<disk, watching, events, served, history>>
  PROVE  Inv'
<1>1. /\ k[r] \in 1..Len(VHosts) /\ cert_bytes[r] \in Contents /\ new_resolver[r] \in Resolvers
      /\ k' = [k EXCEPT ![r] = k[r]]
      /\ cert_bytes' = [cert_bytes EXCEPT ![r] = cert_bytes[r]]
      /\ new_resolver' = [new_resolver EXCEPT ![r] = new_resolver[r]]
      /\ pc' = [pc EXCEPT ![r] = "idle"]
  BY TaskType DEF Fail
<1>2. /\ events' \in Nat /\ caughtUp' \in BOOLEAN /\ clean' \in [Reloads -> BOOLEAN]
      /\ served' \in Resolvers /\ DOMAIN served' = Domains
      /\ \A u \in Reloads : clean'[u] = clean[u]
      /\ UNCHANGED <<disk, watching, changes, unseen>>
  BY TaskType DEF history
<1>3. BuiltAt("idle", k[r], new_resolver[r])
  BY DEF BuiltAt
<1> QED
  BY <1>1, <1>2, <1>3, TaskKeeps

(* The pair a reload files is the one it read, and readable. *)
LEMMA PairIs ==
  ASSUME NEW c \in Contents, NEW key \in Contents, {c, key} \cap {"torn", "missing"} = {},
         NEW pair, pair = [f \in Files |-> IF f = "cert" THEN c ELSE key]
  PROVE  /\ pair \in [Files -> Versions]
         /\ \A q \in Pairs : q["cert"] = c /\ q["key"] = key => pair = q
<1>1. c \in Versions /\ key \in Versions
  BY DEF Contents
<1>2. "cert" \in Files /\ "key" \in Files /\ \A f \in Files : f = "cert" \/ f = "key"
  BY DEF Files
<1>3. pair \in [Files -> Versions]
  BY <1>1
<1>4. ASSUME NEW q \in Pairs, q["cert"] = c, q["key"] = key
      PROVE  pair = q
  <2>1. q \in [Files -> Contents]
    BY DEF Pairs
  <2>2. \A f \in Files : pair[f] = q[f]
    BY <1>2, <1>4
  <2> QED
    BY <1>3, <2>1, <2>2
<1> QED
  BY <1>3, <1>4

(* A reload goes on to the next domain, or is ready to install. *)
LEMMA AddKeeps ==
  ASSUME Inv, NEW r \in Reloads, pc[r] = "key", NEW key, key = disk[Here(r)]["key"],
         {cert_bytes[r], key} \cap {"torn", "missing"} = {},
         Add(r, [f \in Files |-> IF f = "cert" THEN cert_bytes[r] ELSE key]),
         UNCHANGED <<disk, watching, events, served, history>>
  PROVE  Inv'
<1> DEFINE pair == [f \in Files |-> IF f = "cert" THEN cert_bytes[r] ELSE key]
           old == new_resolver[r]
           h == Here(r)
           m == [d \in DOMAIN old \cup {h} |-> IF d = h THEN pair ELSE old[d]]
<1>0. /\ k[r] \in 1..Len(VHosts) /\ cert_bytes[r] \in Contents /\ old \in Resolvers
      /\ k = [k EXCEPT ![r] = k[r]]
      /\ cert_bytes = [cert_bytes EXCEPT ![r] = cert_bytes[r]]
      /\ h \in Domains /\ disk \in [Domains -> Pairs] /\ disk[h] \in Pairs
      /\ h = VHosts[k[r]]
  BY TaskType DEF Here
<1>1. key \in Contents
  <2>1. disk[h] \in [Files -> Contents] /\ "key" \in Files
    BY <1>0 DEF Pairs, Files
  <2> QED
    BY <2>1
<1>2. /\ pair \in [Files -> Versions]
      /\ \A q \in Pairs : q["cert"] = cert_bytes[r] /\ q["key"] = key => pair = q
  BY <1>0, <1>1, PairIs
<1>3. /\ new_resolver' = [new_resolver EXCEPT ![r] = m]
      /\ cert_bytes' = [cert_bytes EXCEPT ![r] = cert_bytes[r]]
      /\ \/ /\ k[r] < Len(VHosts)
            /\ k' = [k EXCEPT ![r] = k[r] + 1]
            /\ pc' = [pc EXCEPT ![r] = "cert"]
         \/ /\ k[r] = Len(VHosts)
            /\ k' = [k EXCEPT ![r] = k[r]]
            /\ pc' = [pc EXCEPT ![r] = "update"]
  BY <1>0 DEF Add
<1>4. /\ DOMAIN old = {VHosts[j] : j \in 1..(k[r] - 1)}
      /\ old \in [DOMAIN old -> [Files -> Versions]] /\ DOMAIN old \subseteq Domains
  BY <1>0, PartialIs DEF Inv, Built, BuiltAt, Resolvers
<1>5. /\ events' \in Nat /\ caughtUp' \in BOOLEAN /\ clean' \in [Reloads -> BOOLEAN]
      /\ served' \in Resolvers /\ DOMAIN served' = Domains
      /\ \A u \in Reloads : clean'[u] = clean[u]
      /\ UNCHANGED <<disk, watching, changes, unseen>>
  BY TaskType DEF history
<1>6. clean[r] => pair = disk[h] /\ \A d \in DOMAIN old : old[d] = disk[d]
  BY <1>0, <1>2 DEF Inv, Snapshot, SnapshotAt
<1> HIDE DEF pair, old, h
<1>7. DOMAIN m = {VHosts[j] : j \in 1..((k[r] + 1) - 1)}
  BY <1>0, <1>4, OneMorePlace
<1>8. m \in Resolvers
  <2>1. m \in [DOMAIN m -> [Files -> Versions]] /\ DOMAIN m \subseteq Domains
    BY <1>0, <1>2, <1>4
  <2> QED
    BY <2>1, PartialIs DEF Resolvers
<1>9. clean[r] => \A d \in DOMAIN m : m[d] = disk[d]
  BY <1>6
<1> HIDE DEF m
<1>10. CASE k[r] < Len(VHosts)
  <2>1. k[r] + 1 \in 1..Len(VHosts)
    BY <1>0, <1>10, PlaceIsDomain
  <2>2. pc' = [pc EXCEPT ![r] = "cert"] /\ k' = [k EXCEPT ![r] = k[r] + 1]
    BY <1>0, <1>3, <1>10, PlaceIsDomain
  <2>3. BuiltAt("cert", k[r] + 1, m)
    BY <1>7 DEF BuiltAt
  <2>4. clean'[r] => SnapshotAt("cert", k[r] + 1, cert_bytes[r], m, disk)
    BY <1>5, <1>9 DEF SnapshotAt
  <2> QED
    BY <1>0, <1>3, <1>5, <1>8, <2>1, <2>2, <2>3, <2>4, TaskKeeps
<1>11. CASE k[r] = Len(VHosts)
  <2>1. pc' = [pc EXCEPT ![r] = "update"] /\ k' = [k EXCEPT ![r] = k[r]]
    BY <1>0, <1>3, <1>11, PlaceIsDomain
  <2>2. (k[r] + 1) - 1 = Len(VHosts)
    BY <1>0, <1>11, PlaceIsDomain
  <2>3. BuiltAt("update", k[r], m)
    BY <1>7, <2>2, PlaceIsDomain DEF BuiltAt
  <2>4. clean'[r] => SnapshotAt("update", k[r], cert_bytes[r], m, disk)
    BY <1>5, <1>9 DEF SnapshotAt
  <2> QED
    BY <1>0, <1>3, <1>5, <1>8, <2>1, <2>3, <2>4, TaskKeeps
<1> QED
  BY <1>3, <1>10, <1>11

-----------------------------------------------------------------------------
(* The steps of a reload keep the invariant. *)
LEMMA ReloadKeeps ==
  ASSUME Inv, NEW r \in Reloads, Notify(r) \/ ReloadStep(r)
  PROVE  Inv'
<1>0. /\ k[r] \in 1..Len(VHosts) /\ cert_bytes[r] \in Contents /\ new_resolver[r] \in Resolvers
      /\ k = [k EXCEPT ![r] = k[r]]
      /\ cert_bytes = [cert_bytes EXCEPT ![r] = cert_bytes[r]]
      /\ new_resolver = [new_resolver EXCEPT ![r] = new_resolver[r]]
      /\ events \in Nat /\ caughtUp \in BOOLEAN /\ clean \in [Reloads -> BOOLEAN]
      /\ served \in Resolvers /\ DOMAIN served = Domains
      /\ disk[Here(r)] \in Pairs
  BY TaskType
<1>1. CASE Notify(r)
  <2> DEFINE m == [d \in {} |-> disk[d]]
  <2>1. /\ DOMAIN m = {} /\ m \in Resolvers
    <3>1. DOMAIN m = {} /\ m \in [DOMAIN m -> [Files -> Versions]]
      OBVIOUS
    <3> QED
      BY <3>1, PartialIs DEF Resolvers
  <2>2. /\ pc' = [pc EXCEPT ![r] = "cert"] /\ k' = [k EXCEPT ![r] = 1]
        /\ cert_bytes' = [cert_bytes EXCEPT ![r] = cert_bytes[r]]
        /\ new_resolver' = [new_resolver EXCEPT ![r] = m]
        /\ UNCHANGED <<disk, watching, changes, unseen>>
        /\ caughtUp' \in BOOLEAN /\ served' \in Resolvers /\ DOMAIN served' = Domains
    BY <1>0, <1>1 DEF Notify
  <2>3. clean' \in [Reloads -> BOOLEAN] /\ \A u \in Reloads : u # r => clean'[u] = clean[u]
    BY <1>0, <1>1 DEF Notify
  <2>4. events' \in Nat
    BY <1>0, <1>1 DEF Notify
  <2>5. 1 \in 1..Len(VHosts)
    BY PlaceIsDomain
  <2>6. 1..(1 - 1) = {}
    OBVIOUS
  <2> HIDE DEF m
  <2>7. BuiltAt("cert", 1, m)
    BY <2>1, <2>6 DEF BuiltAt
  <2>8. SnapshotAt("cert", 1, cert_bytes[r], m, disk)
    BY <2>1 DEF SnapshotAt
  <2> QED
    BY <1>0, <2>1, <2>2, <2>3, <2>4, <2>5, <2>7, <2>8, TaskKeeps
<1>2. CASE ReadCert(r)
  <2>1. /\ pc[r] = "cert" /\ UNCHANGED <<disk, watching, events, served, history>>
        /\ \/ Fail(r)
           \/ /\ cert_bytes' = [cert_bytes EXCEPT ![r] = disk[Here(r)]["cert"]]
              /\ pc' = [pc EXCEPT ![r] = "key"]
              /\ UNCHANGED <<k, new_resolver>>
    BY <1>2 DEF ReadCert
  <2>2. CASE Fail(r)
    BY <2>1, <2>2, FailKeeps
  <2>3. CASE ~Fail(r)
    <3> DEFINE c == disk[Here(r)]["cert"]
    <3>1. /\ cert_bytes' = [cert_bytes EXCEPT ![r] = c]
          /\ pc' = [pc EXCEPT ![r] = "key"]
          /\ k' = [k EXCEPT ![r] = k[r]]
          /\ new_resolver' = [new_resolver EXCEPT ![r] = new_resolver[r]]
      BY <1>0, <2>1, <2>3
    <3>2. c \in Contents
      <4>1. disk[Here(r)] \in [Files -> Contents] /\ "cert" \in Files
        BY <1>0 DEF Pairs, Files
      <4> QED
        BY <4>1
    <3>3. BuiltAt("key", k[r], new_resolver[r])
      BY <2>1 DEF Inv, Built, BuiltAt
    <3>4. clean[r] => SnapshotAt("key", k[r], c, new_resolver[r], disk)
      BY <2>1 DEF Inv, Snapshot, SnapshotAt, Here
    <3> HIDE DEF c
    <3> QED
      BY <1>0, <2>1, <3>1, <3>2, <3>3, <3>4, TaskKeeps DEF history
  <2> QED
    BY <2>2, <2>3
<1>3. CASE ReadKey(r)
  <2> DEFINE key == disk[Here(r)]["key"]
  <2>1. /\ pc[r] = "key" /\ UNCHANGED <<disk, watching, events, served, history>>
        /\ \/ Fail(r)
           \/ /\ {cert_bytes[r], key} \cap {"torn", "missing"} = {}
              /\ Add(r, [f \in Files |-> IF f = "cert" THEN cert_bytes[r] ELSE key])
    BY <1>3 DEF ReadKey
  <2> QED
    BY <2>1, FailKeeps, AddKeeps
<1>4. CASE Update(r)
  <2>1. /\ pc[r] = "update" /\ served' = new_resolver[r]
        /\ pc' = [pc EXCEPT ![r] = "idle"] /\ k' = [k EXCEPT ![r] = k[r]]
        /\ cert_bytes' = [cert_bytes EXCEPT ![r] = cert_bytes[r]]
        /\ new_resolver' = [new_resolver EXCEPT ![r] = new_resolver[r]]
        /\ UNCHANGED <<disk, watching, events, changes, clean, unseen>>
        /\ caughtUp' \in BOOLEAN
    BY <1>0, <1>4 DEF Update
  <2>2. DOMAIN new_resolver[r] = Domains
    BY <2>1 DEF Inv, Built, BuiltAt
  <2>3. BuiltAt("idle", k[r], new_resolver[r])
    BY DEF BuiltAt
  <2> QED
    BY <1>0, <2>1, <2>2, <2>3, TaskKeeps
<1> QED
  BY <1>1, <1>2, <1>3, <1>4 DEF ReloadStep

(* What the operator does to a file keeps it: no reload is clean any more. *)
LEMMA ChangeKeeps ==
  ASSUME Inv, NEW d \in Domains, NEW f \in Files, NEW c \in Contents, Change(d, f, c)
  PROVE  Inv'
<1>1. /\ disk' = [disk EXCEPT ![d] = [disk[d] EXCEPT ![f] = c]]
      /\ clean' = [r \in Reloads |-> FALSE]
      /\ caughtUp' = FALSE /\ unseen' = ~Noticed(d, f)
      /\ UNCHANGED <<watching, served, pc, k, cert_bytes, new_resolver>>
  BY DEF Change, taskVars
<1>2. disk' \in [Domains -> Pairs]
  <2>1. disk \in [Domains -> Pairs] /\ disk[d] \in [Files -> Contents]
    BY DEF Inv, TypeOK, Pairs
  <2>2. [disk[d] EXCEPT ![f] = c] \in Pairs
    BY <2>1 DEF Pairs
  <2> QED
    BY <1>1, <2>1, <2>2
<1>3. events' \in Nat /\ changes' \in Nat
  BY DEF Inv, TypeOK, Change
<1>4. clean' \in [Reloads -> BOOLEAN] /\ caughtUp' \in BOOLEAN /\ unseen' \in BOOLEAN
  BY <1>1 DEF Inv, TypeOK
<1>5. TypeOK'
  BY <1>1, <1>2, <1>3, <1>4 DEF Inv, TypeOK
<1>6. ServedComplete' /\ Built'
  BY <1>1 DEF Inv, ServedComplete, Built
<1>7. Snapshot'
  BY <1>1 DEF Snapshot
<1> QED
  BY <1>5, <1>6, <1>7 DEF Inv

(* What Config::load leaves satisfies the invariant. *)
LEMMA InitInv == Init => Inv
<1> SUFFICES ASSUME Init PROVE Inv
  OBVIOUS
<1>1. \A d \in Domains :
        disk[d] \in [Files -> Contents] /\ disk[d]["cert"] = disk[d]["key"]
        /\ disk[d]["cert"] \in Versions
  BY DEF Init, Pairs
<1>2. disk \in [Domains -> Pairs]
  BY DEF Init
<1>3. served \in [Domains -> [Files -> Versions]]
  <2>1. \A d \in Domains : disk[d] \in [Files -> Versions]
    BY <1>1 DEF Files
  <2> QED
    BY <1>2, <2>1 DEF Init
<1>4. served \in Partial([Files -> Versions]) /\ DOMAIN served = Domains
  BY <1>3, PartialIs
<1>5. new_resolver \in [Reloads -> Partial([Files -> Versions])]
  <2>1. [d \in {} |-> disk[d]] \in Partial([Files -> Versions])
    BY PartialIs
  <2> QED
    BY <2>1 DEF Init
<1>6. /\ pc \in [Reloads -> {"idle", "cert", "key", "update"}]
      /\ k \in [Reloads -> 1..Len(VHosts)]
      /\ cert_bytes \in [Reloads -> Contents]
      /\ \A r \in Reloads : pc[r] = "idle"
  BY PlaceIsDomain DEF Init, Contents
<1>7. /\ watching \in BOOLEAN /\ events \in Nat /\ changes \in Nat
      /\ clean \in [Reloads -> BOOLEAN] /\ caughtUp \in BOOLEAN /\ unseen \in BOOLEAN
  BY DEF Init
<1>8. TypeOK
  BY <1>2, <1>4, <1>5, <1>6, <1>7 DEF TypeOK
<1>9. Built /\ Snapshot
  BY <1>6 DEF Built, BuiltAt, Snapshot
<1> QED
  BY <1>4, <1>8, <1>9 DEF Inv, ServedComplete

(* Every step of watcher, operator and reload tasks keeps it. *)
LEMMA Invariance == Spec => []Inv
<1>1. Inv /\ [Next]_vars => Inv'
  <2> SUFFICES ASSUME Inv, [Next]_vars PROVE Inv'
    OBVIOUS
  <2>1. ASSUME NEW d \in Domains, NEW f \in Files, NEW c \in Contents, Change(d, f, c)
        PROVE  Inv'
    BY <2>1, ChangeKeeps
  <2>2. CASE Watch
    <3>1. /\ watching' \in BOOLEAN
          /\ UNCHANGED <<disk, events, served, pc, k, cert_bytes, new_resolver,
                         changes, clean, caughtUp, unseen>>
      BY <2>2 DEF Watch, taskVars, history
    <3> QED
      BY <3>1 DEF Inv, TypeOK, ServedComplete, Built, Snapshot
  <2>3. ASSUME NEW r \in Reloads, Notify(r) \/ ReloadStep(r)
        PROVE  Inv'
    BY <2>3, ReloadKeeps
  <2>4. CASE UNCHANGED vars
    BY <2>4 DEF vars, Inv, TypeOK, ServedComplete, Built, Snapshot
  <2> QED
    BY <2>1, <2>2, <2>3, <2>4 DEF Next
<1> QED
  BY <1>1, InitInv, PTL DEF Spec

-----------------------------------------------------------------------------
(* Whatever is served or built is readable (config.rs: reload_certs). *)
THEOREM CertTypeCorrect == Spec => []TypeOK
BY Invariance, PTL DEF Inv

(***************************************************************************)
(* No reload, failed or not, takes a domain out of service                  *)
(* (config.rs: reload_certs, CertResolver::update).                         *)
(***************************************************************************)
THEOREM AlwaysComplete == Spec => []ServedComplete
BY Invariance, PTL DEF Inv

(***************************************************************************)
(* A reload undisturbed by changes installs what is on disk                 *)
(* (config.rs: reload_certs).                                               *)
(***************************************************************************)
THEOREM CleanReloads == Spec => CleanReloadIsSnapshot
<1> DEFINE Installs ==
             \A r \in Reloads :
               pc[r] = "update" /\ pc'[r] = "idle" /\ clean[r] => served' = disk
<1>1. Inv /\ [Next]_vars => [Installs]_vars
  <2> SUFFICES ASSUME Inv, Next, NEW r \in Reloads,
                      pc[r] = "update", pc'[r] = "idle", clean[r]
               PROVE  served' = disk
    OBVIOUS
  <2>1. pc \in [Reloads -> {"idle", "cert", "key", "update"}]
    BY DEF Inv, TypeOK
  <2>2. ASSUME NEW u \in Reloads, u # r, Notify(u) \/ ReloadStep(u)
        PROVE  FALSE
    BY <2>1, <2>2 DEF Notify, ReloadStep, ReadCert, ReadKey, Fail, Add, Update
  <2>3. Update(r)
    BY <2>1, <2>2 DEF Next, Change, Watch, taskVars, Notify, ReloadStep, ReadCert, ReadKey
  <2>4. served' = new_resolver[r]
    BY <2>3 DEF Update
  <2>5. /\ DOMAIN new_resolver[r] = Domains
        /\ \A d \in DOMAIN new_resolver[r] : new_resolver[r][d] = disk[d]
    BY DEF Inv, Built, BuiltAt, Snapshot, SnapshotAt
  <2>6. disk \in [Domains -> Pairs]
        /\ new_resolver[r] \in [DOMAIN new_resolver[r] -> [Files -> Versions]]
    BY PartialIs DEF Inv, TypeOK
  <2> QED
    BY <2>4, <2>5, <2>6
<1>2. Spec => [][Installs]_vars
  BY <1>1, Invariance, PTL DEF Spec
<1> QED
  BY <1>2 DEF CleanReloadIsSnapshot

(***************************************************************************)
(* Every change the watcher saw (to a file directly in certs/, once it is   *)
(* watched) is taken up, by an event or by a reload that cannot fail unless *)
(* the files change again (main.rs: the callback).                          *)
(***************************************************************************)
THEOREM ChangesInHand == Spec => []ChangeInHand
<1>1. Init => ChangeInHand
  BY DEF Init, ChangeInHand
<1>2. Inv /\ ChangeInHand /\ [Next]_vars => ChangeInHand'
  <2> SUFFICES ASSUME Inv, ChangeInHand, [Next]_vars, Readable', ~unseen', ~caughtUp'
               PROVE  events' > 0 \/ \E r \in Reloads : pc'[r] # "idle" /\ clean'[r]
    BY DEF ChangeInHand
  <2>0. /\ pc \in [Reloads -> {"idle", "cert", "key", "update"}]
        /\ clean \in [Reloads -> BOOLEAN] /\ events \in Nat
    BY DEF Inv, TypeOK
  <2>1. ASSUME NEW d \in Domains, NEW f \in Files, NEW c \in Contents, Change(d, f, c)
        PROVE  events' > 0
    <3>1. unseen' = ~Noticed(d, f) /\ events' = IF Noticed(d, f) THEN events + 1 ELSE events
      BY <2>1 DEF Change
    <3>2. Noticed(d, f)
      BY <3>1, Zenon
    <3>3. events' = events + 1
      BY <3>1, <3>2
    <3> QED
      BY <2>0, <3>3
  <2> DEFINE InHand == events > 0 \/ \E r \in Reloads : pc[r] # "idle" /\ clean[r]
  <2>2. ASSUME UNCHANGED <<disk, unseen, caughtUp>>
        PROVE  Readable /\ InHand
    BY <2>2 DEF ChangeInHand, Readable
  <2>3. CASE Watch \/ UNCHANGED vars
    BY <2>2, <2>3 DEF Watch, taskVars, history, vars
  <2>4. ASSUME NEW r \in Reloads, Notify(r)
        PROVE  pc'[r] # "idle" /\ clean'[r]
    BY <2>0, <2>4 DEF Notify
  <2>5. ASSUME NEW r \in Reloads, UNCHANGED <<disk, unseen, caughtUp, clean, events>>,
               pc' = [pc EXCEPT ![r] = "idle"], clean[r] => ~Readable
        PROVE  events' > 0 \/ \E u \in Reloads : pc'[u] # "idle" /\ clean'[u]
    <3>1. Readable /\ InHand
      BY <2>2, <2>5
    <3>2. CASE events > 0
      BY <2>5, <3>2
    <3>3. ASSUME NEW u \in Reloads, pc[u] # "idle", clean[u]
          PROVE  pc'[u] # "idle" /\ clean'[u]
      BY <2>0, <2>5, <3>1, <3>3
    <3> QED
      BY <3>1, <3>2, <3>3
  <2>6. ASSUME NEW r \in Reloads, UNCHANGED <<disk, unseen, caughtUp, clean, events>>,
               NEW p, p # "idle", pc' = [pc EXCEPT ![r] = p]
        PROVE  events' > 0 \/ \E u \in Reloads : pc'[u] # "idle" /\ clean'[u]
    BY <2>0, <2>2, <2>6
  <2>7. ASSUME NEW r \in Reloads, ReadCert(r)
        PROVE  events' > 0 \/ \E u \in Reloads : pc'[u] # "idle" /\ clean'[u]
    <3>1. UNCHANGED <<disk, unseen, caughtUp, clean, events>>
      BY <2>7 DEF ReadCert, history
    <3>2. CASE pc' = [pc EXCEPT ![r] = "key"]
      BY <2>6, <3>1, <3>2
    <3>3. CASE disk[Here(r)]["cert"] = "missing" /\ Fail(r)
      <4>1. Here(r) \in Domains /\ "cert" \in Files /\ "missing" \notin Versions
        BY TaskType, CertAssumption DEF Files
      <4>2. ~Readable
        BY <3>3, <4>1 DEF Readable
      <4> QED
        BY <2>5, <3>1, <3>3, <4>2 DEF Fail
    <3> QED
      BY <2>7, <3>2, <3>3 DEF ReadCert
  <2>8. ASSUME NEW r \in Reloads, ReadKey(r)
        PROVE  events' > 0 \/ \E u \in Reloads : pc'[u] # "idle" /\ clean'[u]
    <3>1. UNCHANGED <<disk, unseen, caughtUp, clean, events>> /\ pc[r] = "key"
      BY <2>8 DEF ReadKey, history
    <3>2. CASE \E p \in {"cert", "update"} : pc' = [pc EXCEPT ![r] = p]
      BY <2>6, <3>1, <3>2
    <3>3. CASE {cert_bytes[r], disk[Here(r)]["key"]} \cap {"torn", "missing"} # {} /\ Fail(r)
      <4>1. /\ Here(r) \in Domains /\ "cert" \in Files /\ "key" \in Files
            /\ "missing" \notin Versions /\ "torn" \notin Versions
        BY TaskType, CertAssumption DEF Files
      <4>2. clean[r] => cert_bytes[r] = disk[Here(r)]["cert"]
        BY <3>1 DEF Inv, Snapshot, SnapshotAt, Here
      <4>3. clean[r] => ~Readable
        BY <3>3, <4>1, <4>2 DEF Readable
      <4> QED
        BY <2>5, <3>1, <3>3, <4>3 DEF Fail
    <3> QED
      BY <2>8, <3>2, <3>3 DEF ReadKey, Add
  <2>9. ASSUME NEW r \in Reloads, Update(r)
        PROVE  events' > 0 \/ \E u \in Reloads : pc'[u] # "idle" /\ clean'[u]
    <3>1. /\ UNCHANGED <<disk, unseen, clean, events>> /\ caughtUp' = (caughtUp \/ clean[r])
          /\ pc' = [pc EXCEPT ![r] = "idle"]
      BY <2>9 DEF Update
    <3>2. ~clean[r] /\ caughtUp' = caughtUp
      BY <3>1 DEF Inv, TypeOK
    <3> QED
      BY <2>5, <3>1, <3>2
  <2> QED
    BY <2>1, <2>3, <2>4, <2>7, <2>8, <2>9 DEF Next, ReloadStep
<1> QED
  BY <1>1, <1>2, Invariance, PTL DEF Spec
=============================================================================
