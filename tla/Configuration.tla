---------------------------- MODULE Configuration ----------------------------
(***************************************************************************)
(* The owner's saved configuration (services/config_store.py,               *)
(* configuration.py) and the restart that puts it into force                *)
(* (backend_restart.py, supervisor.py). Clients repeat requests whose       *)
(* answer they did not get, possibly much later and to another instance of  *)
(* the backend; the store keeps the identities of the last saves only.      *)
(***************************************************************************)
EXTENDS Naturals, Sequences, SequencesExt

CONSTANTS
  Saves,          \* identities of save requests
  Restarts,       \* identities of restart requests
  Invalid,        \* saves whose values do not pass validation
  KeptReceipts,   \* how many save identities the store remembers
  MaxInstances    \* bound on instances of the backend

ASSUME ConfigAssumption == KeptReceipts \in Nat \ {0} /\ MaxInstances \in Nat

VARIABLES
  file,           \* configuration.json: revision, receipts, restarts
  backups,        \* configuration-history: revisions kept
  applied,        \* how often each save changed the values
  base,           \* the revision a request was composed from
  instance,       \* instance_id of the running backend
  requested,      \* this instance has accepted a restart
  caused,         \* restarts each identity has caused
  lastCause       \* identity this instance accepted last

configVars == <<file, backups, applied, base, instance, requested, caused, lastCause>>

Nobody == "nobody"

ConfigInit ==
  /\ file = [revision |-> 0, receipts |-> <<>>, restarts |-> [r \in Restarts |-> [rev |-> 0, inst |-> 0]]]
  /\ backups = {}
  /\ applied = [q \in Saves |-> 0]
  /\ base = [q \in Saves \cup Restarts |-> 0]
  /\ instance = 1 /\ requested = FALSE
  /\ caused = [r \in Restarts |-> 0]
  /\ lastCause = Nobody

\* A client reads the snapshot and composes its request from it.
Reload(q) ==
  /\ q \in Saves => applied[q] = 0
  /\ base' = [base EXCEPT ![q] = file.revision]
  /\ UNCHANGED <<file, backups, applied, instance, requested, caused, lastCause>>

\* validate(): a save with one invalid value changes nothing.
Validated(q) == q \notin Invalid

\* write(): the new file replaces the old one in one step.
Write(state) == file' = state

\* A mistake: a save is not compared with the revision it was made from.
FreshAlways(q) == TRUE

Fresh(q) == file.revision = base[q]

\* store.save() under the file lock: a known identity returns what it did; the
\* prior file is kept; the new one replaces it in one step.
SaveConfig(q) ==
  /\ Validated(q)
  /\ ~Contains(file.receipts, q)
  /\ Fresh(q)
  /\ Write([file EXCEPT !.revision = @ + 1,
             !.receipts = Append(IF Len(@) >= KeptReceipts THEN Tail(@) ELSE @, q)])
  /\ backups' = IF file.revision > 0 THEN backups \cup {file.revision} ELSE backups
  /\ applied' = [applied EXCEPT ![q] = @ + 1]
  /\ UNCHANGED <<base, instance, requested, caused, lastCause>>

\* A mistake: the identities of restarts are forgotten when one was carried out.
RestartForgotten(r) ==
  /\ file.revision = base[r]
  /\ file' = [file EXCEPT !.restarts[r] = [rev |-> file.revision, inst |-> instance]]
  /\ requested' = TRUE
  /\ lastCause' = r
  /\ UNCHANGED <<backups, applied, base, instance, caused>>

\* request(): the identity is kept for good with the instance that accepted it.
\* A retry to the same instance is told so; to a later one, that it has happened.
\* (Whether work is active is SharedSpending's RequestRestart.)
AcceptRestart(r) ==
  /\ IF file.restarts[r].inst = 0
     THEN /\ file.revision = base[r]
          /\ Write([file EXCEPT !.restarts[r] = [rev |-> file.revision, inst |-> instance]])
     ELSE file.restarts[r].rev = base[r] /\ UNCHANGED file
  /\ requested' = (requested \/ file'.restarts[r].inst = instance)
  /\ lastCause' = IF file'.restarts[r].inst = instance THEN r ELSE lastCause
  /\ UNCHANGED <<backups, applied, base, instance, caused>>

\* signal() shuts the instance down and the supervisor starts another one.
Supervise ==
  /\ requested /\ instance < MaxInstances
  /\ instance' = instance + 1
  /\ requested' = FALSE /\ lastCause' = Nobody
  /\ caused' = [caused EXCEPT ![lastCause] = @ + 1]
  /\ UNCHANGED <<file, backups, applied, base>>

\* The instance ends any other way and the owner starts the backend again.
InstanceDies ==
  /\ instance < MaxInstances
  /\ instance' = instance + 1
  /\ requested' = FALSE /\ lastCause' = Nobody
  /\ UNCHANGED <<file, backups, applied, base, caused>>

ConfigNext ==
  \/ \E q \in Saves : SaveConfig(q)
  \/ \E q \in Saves \cup Restarts : Reload(q)
  \/ \E r \in Restarts : AcceptRestart(r)
  \/ Supervise \/ InstanceDies

ConfigSpec == ConfigInit /\ [][ConfigNext]_configVars

(***************************************************************************)
(* Properties                                                              *)
(***************************************************************************)
\* A repeated save never changes the values twice, although the store forgets
\* its identity after KeptReceipts other saves; no revision is lost: each one
\* that was replaced is in the history.
SavedOnce ==
  /\ \A q \in Saves : applied[q] <= 1
  /\ \A v \in 1..(file.revision - 1) : v \in backups

\* "Retaining every accepted identity prevents an old retry becoming executable
\* again": a restart request, however often and to whichever instance it is
\* repeated, restarts the backend at most once.
RestartedOnce == \A r \in Restarts : caused[r] <= 1

\* Whatever is repeated, to whichever instance, takes effect at most once.
ConfiguredOnce == SavedOnce /\ RestartedOnce
=============================================================================
