------------------------------ MODULE CertReload ------------------------------
(***************************************************************************)
(* Certificate hot-reloading: the watcher that src/main.rs sets up, the     *)
(* reload tasks it spawns (Config::reload_certs of src/config.rs) and the   *)
(* resolver TLS handshakes read (CertResolver).                             *)
(*                                                                          *)
(* Every change to a watched file spawns a task of its own; nothing orders  *)
(* the tasks, each reads certificate and key of every domain one file at a  *)
(* time, and the operator may change the files meanwhile.  Only the files   *)
(* directly in certs/ are watched, and only if certs/ exists when the       *)
(* program starts; cert_path and key_path may lead anywhere.                *)
(***************************************************************************)
EXTENDS Naturals, Sequences, Functions

CONSTANTS
  VHosts,      \* the configured domains, in the iteration order of Config::vhosts
  Watched,     \* the files <<domain, file>> whose path is directly in certs/
  Versions,    \* what a readable certificate or key file may hold
  Reloads,     \* reload tasks that may run at a time (a bound of the model)
  MaxChanges   \* bound on the changes of files (of the model only)

Domains == Range(VHosts)
Files == {"cert", "key"}
Contents == Versions \cup {"torn", "missing"}   \* half written, or deleted

(* With no domain there is nothing to reload. *)
ASSUME CertAssumption ==
  /\ VHosts \in Seq(Domains) /\ Len(VHosts) > 0
  /\ Watched \subseteq Domains \X Files
  /\ Versions # {} /\ {"torn", "missing"} \cap Versions = {}
  /\ MaxChanges \in Nat

VARIABLES
  disk,      \* content of each domain's files
  watching,  \* is watcher.watch in place
  events,    \* change events not yet delivered to the callback
  served,    \* CertResolver::inner: domain |-> the pair it is served with
  pc,        \* per reload task: what it does next
  k,         \* per reload task: the domain it is at, by its place in VHosts
  cert_bytes,    \* per reload task: the certificate file it has just read
  new_resolver,  \* per reload task: the resolver it builds
  changes,   \* history: file changes so far
  clean,     \* history: per task, no file has changed since it began
  caughtUp,  \* history: a clean reload was installed since the last change
  unseen     \* history: the last change raised no event

vars == <<disk, watching, events, served, pc, k, cert_bytes, new_resolver,
          changes, clean, caughtUp, unseen>>
taskVars == <<pc, k, cert_bytes, new_resolver>>
history == <<changes, clean, caughtUp, unseen>>

Pairs == [Files -> Contents]
Partial(S) == UNION {[D -> S] : D \in SUBSET Domains}

TypeOK ==
  /\ disk \in [Domains -> Pairs]
  /\ watching \in BOOLEAN
  /\ events \in Nat
  /\ served \in Partial([Files -> Versions])
  /\ pc \in [Reloads -> {"idle", "cert", "key", "update"}]
  /\ k \in [Reloads -> 1..Len(VHosts)]
  /\ cert_bytes \in [Reloads -> Contents]
  /\ new_resolver \in [Reloads -> Partial([Files -> Versions])]
  /\ changes \in Nat
  /\ clean \in [Reloads -> BOOLEAN]
  /\ caughtUp \in BOOLEAN
  /\ unseen \in BOOLEAN

(* Config::load has read a complete set of pairs, or main would have returned. *)
Init ==
  /\ disk \in [Domains -> {p \in Pairs : p["cert"] = p["key"] /\ p["cert"] \in Versions}]
  /\ watching = FALSE
  /\ events = 0
  /\ served = disk
  /\ pc = [r \in Reloads |-> "idle"]
  /\ k = [r \in Reloads |-> 1]
  /\ cert_bytes \in [Reloads -> {"missing"}]
  /\ new_resolver = [r \in Reloads |-> [d \in {} |-> disk[d]]]
  /\ changes = 0
  /\ clean = [r \in Reloads |-> TRUE]
  /\ caughtUp = TRUE
  /\ unseen = FALSE

-----------------------------------------------------------------------------
(***************************************************************************)
(* The operator creates, writes, replaces or removes a file; if it is one   *)
(* in certs/, and the watcher is in place, that is an event of a kind the   *)
(* callback reacts to.                                                      *)
(***************************************************************************)
Noticed(d, f) == watching /\ <<d, f>> \in Watched

Change(d, f, c) ==
  /\ changes < MaxChanges
  /\ c # disk[d][f]
  /\ disk' = [disk EXCEPT ![d][f] = c]
  /\ events' = IF Noticed(d, f) THEN events + 1 ELSE events
  /\ changes' = changes + 1
  /\ clean' = [r \in Reloads |-> FALSE]
  /\ caughtUp' = FALSE
  /\ unseen' = ~Noticed(d, f)
  /\ UNCHANGED <<watching, served, taskVars>>

(* main: the certs/ directory exists, and is watched from now on (or it never is). *)
Watch ==
  /\ ~watching
  /\ watching' = TRUE
  /\ UNCHANGED <<disk, events, served, taskVars, history>>

(* Mutant: events of removed and recreated files are not acted upon. *)
NotifyLosing(r) ==
  /\ events > 0 /\ pc[r] = "idle"
  /\ events' = events - 1
  /\ \/ /\ pc' = [pc EXCEPT ![r] = "cert"]
        /\ k' = [k EXCEPT ![r] = 1]
        /\ new_resolver' = [new_resolver EXCEPT ![r] = [d \in {} |-> disk[d]]]
        /\ clean' = [clean EXCEPT ![r] = TRUE]
     \/ UNCHANGED <<pc, k, new_resolver, clean>>
  /\ UNCHANGED <<disk, watching, served, cert_bytes, changes, caughtUp, unseen>>

(* The callback spawns a reload for the event: reload_certs begins. *)
Notify(r) ==
  /\ events > 0 /\ pc[r] = "idle"
  /\ events' = events - 1
  /\ pc' = [pc EXCEPT ![r] = "cert"]
  /\ k' = [k EXCEPT ![r] = 1]
  /\ new_resolver' = [new_resolver EXCEPT ![r] = [d \in {} |-> disk[d]]]
  /\ clean' = [clean EXCEPT ![r] = TRUE]
  /\ UNCHANGED <<disk, watching, served, cert_bytes, changes, caughtUp, unseen>>

Here(r) == VHosts[k[r]]
Fail(r) == pc' = [pc EXCEPT ![r] = "idle"] /\ UNCHANGED <<k, cert_bytes, new_resolver>>

(* fs::read of the certificate; an error ends the task. *)
ReadCert(r) ==
  /\ pc[r] = "cert"
  /\ LET c == disk[Here(r)]["cert"] IN
     \/ c = "missing" /\ Fail(r)
     \/ /\ c # "missing"
        /\ cert_bytes' = [cert_bytes EXCEPT ![r] = c]
        /\ pc' = [pc EXCEPT ![r] = "key"]
        /\ UNCHANGED <<k, new_resolver>>
  /\ UNCHANGED <<disk, watching, events, served, history>>

(* Mutant: the pair of the last domain read is filed under all. *)
AddToAll(r, pair) ==
  /\ new_resolver' = [new_resolver EXCEPT ![r] =
       [d \in DOMAIN @ \cup {Here(r)} |-> pair]]
  /\ \/ /\ k[r] < Len(VHosts)
        /\ k' = [k EXCEPT ![r] = @ + 1]
        /\ pc' = [pc EXCEPT ![r] = "cert"]
     \/ /\ k[r] = Len(VHosts)
        /\ pc' = [pc EXCEPT ![r] = "update"]
        /\ UNCHANGED k
  /\ UNCHANGED cert_bytes

(* The pair of this domain goes into the new resolver; on to the next domain. *)
Add(r, pair) ==
  /\ new_resolver' = [new_resolver EXCEPT ![r] =
       [d \in DOMAIN @ \cup {Here(r)} |-> IF d = Here(r) THEN pair ELSE @[d]]]
  /\ \/ /\ k[r] < Len(VHosts)
        /\ k' = [k EXCEPT ![r] = @ + 1]
        /\ pc' = [pc EXCEPT ![r] = "cert"]
     \/ /\ k[r] = Len(VHosts)
        /\ pc' = [pc EXCEPT ![r] = "update"]
        /\ UNCHANGED k
  /\ UNCHANGED cert_bytes

(* Mutant: a domain that cannot be loaded is skipped. *)
ReadKeySkipping(r) ==
  /\ pc[r] = "key"
  /\ LET c == cert_bytes[r]
         key == disk[Here(r)]["key"]
     IN \/ /\ {c, key} \cap {"torn", "missing"} # {}
           /\ \/ k[r] < Len(VHosts) /\ k' = [k EXCEPT ![r] = @ + 1]
                 /\ pc' = [pc EXCEPT ![r] = "cert"]
              \/ k[r] = Len(VHosts) /\ pc' = [pc EXCEPT ![r] = "update"] /\ UNCHANGED k
           /\ UNCHANGED <<cert_bytes, new_resolver>>
        \/ /\ {c, key} \cap {"torn", "missing"} = {}
           /\ Add(r, [f \in Files |-> IF f = "cert" THEN c ELSE key])
  /\ UNCHANGED <<disk, watching, events, served, history>>

(* Mutant: the parse errors are ignored. *)
ReadKeyUnparsed(r) ==
  /\ pc[r] = "key"
  /\ Add(r, [f \in Files |-> IF f = "cert" THEN cert_bytes[r] ELSE disk[Here(r)]["key"]])
  /\ UNCHANGED <<disk, watching, events, served, history>>

(***************************************************************************)
(* fs::read of the key, then parsing both: a file that cannot be parsed     *)
(* ends the task with an error.  That the key belongs to the certificate is *)
(* not checked (CertifiedKey::new).                                         *)
(***************************************************************************)
ReadKey(r) ==
  /\ pc[r] = "key"
  /\ LET c == cert_bytes[r]
         key == disk[Here(r)]["key"]
     IN \/ {c, key} \cap {"torn", "missing"} # {} /\ Fail(r)
        \/ /\ {c, key} \cap {"torn", "missing"} = {}
           /\ Add(r, [f \in Files |-> IF f = "cert" THEN c ELSE key])
  /\ UNCHANGED <<disk, watching, events, served, history>>

(* CertResolver::update: the whole resolver is exchanged under the lock. *)
Update(r) ==
  /\ pc[r] = "update"
  /\ served' = new_resolver[r]
  /\ caughtUp' = (caughtUp \/ clean[r])
  /\ pc' = [pc EXCEPT ![r] = "idle"]
  /\ UNCHANGED <<disk, watching, events, k, cert_bytes, new_resolver, changes, clean, unseen>>

ReloadStep(r) == ReadCert(r) \/ ReadKey(r) \/ Update(r)

Next ==
  \/ \E d \in Domains, f \in Files, c \in Contents : Change(d, f, c)
  \/ Watch
  \/ \E r \in Reloads : Notify(r) \/ ReloadStep(r)

Spec == Init /\ [][Next]_vars

(* The callback gets every event, and tasks are run.  The watcher may never come. *)
FairSpec ==
  /\ Spec
  /\ WF_vars(\E r \in Reloads : Notify(r))
  /\ \A r \in Reloads : WF_vars(ReloadStep(r))

-----------------------------------------------------------------------------
(***************************************************************************)
(* Handshakes always find every domain with readable material: a reload     *)
(* that meets a missing or half-written file of any domain, at any point,   *)
(* leaves what is served as it was, for that domain and for the others      *)
(* (config.rs: reload_certs builds a new resolver and installs it last).    *)
(***************************************************************************)
ServedComplete == DOMAIN served = Domains

(***************************************************************************)
(* A reload during which no file changes installs exactly what is on disk,  *)
(* for all domains, whatever other reloads run beside it.                   *)
(***************************************************************************)
CleanReloadIsSnapshot ==
  [][\A r \in Reloads :
       pc[r] = "update" /\ pc'[r] = "idle" /\ clean[r] => served' = disk]_vars

(* Every file of every domain can be read and parsed. *)
Readable == \A d \in Domains, f \in Files : disk[d][f] \in Versions

(***************************************************************************)
(* No change the watcher sees is forgotten: while the files on disk are     *)
(* readable and not yet installed, an event is on its way or a reload that  *)
(* has seen nothing but these files is running, although reloads fail on    *)
(* what other changes left and overtake each other (main.rs: the watcher's  *)
(* callback).  A last change that raised no event is excepted: one made     *)
(* before main had its watcher, or to a file whose cert_path or key_path    *)
(* does not lead directly into certs/, or any change at all when certs/ did *)
(* not exist at startup.  Nothing reloads for those.                        *)
(***************************************************************************)
ChangeInHand ==
  Readable /\ ~unseen /\ ~caughtUp =>
    events > 0 \/ \E r \in Reloads : pc[r] # "idle" /\ clean[r]

(***************************************************************************)
(* Hot reloading happens: when the operator's last change leaves readable   *)
(* files and raised an event, a reload that saw nothing but the final files *)
(* is installed (main.rs: the watcher).  Files elsewhere than directly in   *)
(* certs/ are picked up too, but only by the reload of a later change that  *)
(* does raise one (the exceptions are those of ChangeInHand).               *)
(***************************************************************************)
EveryChangeReloaded == <>[](Readable /\ ~unseen => caughtUp)

(***************************************************************************)
(* What README.md promises with "zero-downtime certificate hot-reloading"   *)
(* and config.rs with "Reloads all certificates from disk and updates the   *)
(* resolver": when changes and reloads are over, what is served is what is  *)
(* on disk.  Reload tasks may overtake each other: an older one that        *)
(* installs last puts an older state back, and this does not hold.          *)
(***************************************************************************)
SettledServesDisk ==
  watching /\ events = 0 /\ (\A r \in Reloads : pc[r] = "idle") /\ Readable /\ ~unseen
    => served = disk
=============================================================================
