------------------------------- MODULE Cells -------------------------------
(***************************************************************************)
(* The sandbox of a FORGE job: run_job() leases a Cell, runs commands in it *)
(* and gives it back, with CellPool (one live Cell per conversation) or    *)
(* without it (a Cell per job).  A Cell is a container; a command is a     *)
(* process in it, which outlives the docker client that started it.        *)
(*                                                                         *)
(* The gate of the pool guards code without an await, so each phase of     *)
(* acquire() is one step.  last_used is kept as "recent" or "old"; which   *)
(* free entry an overflow evicts is left open.                             *)
(***************************************************************************)
EXTENDS Naturals, FiniteSets

CONSTANTS
  Jobs,         \* runs of run_job
  ChatOf,       \* the conversation of each, its key in the pool
  SigOf,        \* what a reused Cell must match: image, workspace, policy
  MaxCells,     \* the pool's cap
  HasTimeout,   \* does the image ship `timeout`
  MaxContainers \* bound on containers started

ASSUME CellsAssumption ==
  HasTimeout \in BOOLEAN /\ MaxCells \in Nat \ {0} /\ MaxContainers \in Nat \ {0}

VARIABLES
  jobAt,      \* stage of each job
  jobCell,    \* its container, 0 for none
  jobPooled,  \* was it leased from the pool
  jobResult,  \* "returned", "raised" (CellCleanupError) or "cancelled"
  closing,    \* Cells the job still has to close before it goes on
  entries,    \* the pool: conversation -> cell, sig, use, age (cell 0: none)
  container,  \* "up", "dead" or "removed" for every container started
  narrowed,   \* containers whose working directory is a worktree
  processes,  \* commands in each container, by the job that started them
  unconfirmed,\* containers whose removal failed
  pooling, poolClosed \* is there a CellPool; did the peer stop

cellVars == <<jobAt, jobCell, jobPooled, jobResult, closing, entries, container, narrowed,
              processes, unconfirmed, pooling, poolClosed>>

Chats == {ChatOf[j] : j \in Jobs}
Containers == 1..MaxContainers
NoEntry == [cell |-> 0, sig |-> "none", use |-> FALSE, old |-> FALSE]

CellsInit ==
  /\ jobAt = [j \in Jobs |-> "new"] /\ jobCell = [j \in Jobs |-> 0]
  /\ jobPooled = [j \in Jobs |-> FALSE] /\ jobResult = [j \in Jobs |-> "none"]
  /\ closing = [j \in Jobs |-> {}]
  /\ entries = [k \in Chats |-> NoEntry]
  /\ container = [c \in Containers |-> "none"]
  /\ narrowed = {} /\ processes = [c \in Containers |-> {}]
  /\ unconfirmed = {} /\ pooling \in BOOLEAN /\ poolClosed = FALSE

\* start(): docker run, then the probes; the new container takes the next number.
Starts(c) == container[c] = "none" /\ \A d \in 1..(c - 1) : container[d] # "none"

\* rm -f: the container goes with its processes, or its removal is not confirmed.
Removed(cs, gone) ==
  /\ container' = [c \in Containers |-> IF c \in gone THEN "removed" ELSE container[c]]
  /\ processes' = [c \in Containers |-> IF c \in gone THEN {} ELSE processes[c]]
  /\ unconfirmed' = unconfirmed \union (cs \ gone)

(***************************************************************************)
(* Leasing                                                                 *)
(***************************************************************************)

\* _pop_idle_locked(): free entries past their time.
Idle == {k \in Chats : entries[k].cell # 0 /\ ~entries[k].use /\ entries[k].old}

\* acquire(), phase 1: reuse, a throwaway beside a busy Cell, or a new one.
Acquire(j) ==
  LET k == ChatOf[j]
      sig == SigOf[j]
      kept == [x \in Chats |-> IF x \in Idle THEN NoEntry ELSE entries[x]]
      mine == kept[k]
      evicted == {entries[x].cell : x \in Idle}
  IN /\ pooling /\ jobAt[j] = "new"
     /\ \/ /\ mine.cell # 0 /\ ~mine.use /\ mine.sig = sig
           /\ jobAt' = [jobAt EXCEPT ![j] = "probing"]
           /\ jobCell' = [jobCell EXCEPT ![j] = mine.cell]
           /\ entries' = [kept EXCEPT ![k].use = TRUE, ![k].old = FALSE]
           /\ closing' = [closing EXCEPT ![j] = evicted]
        \/ /\ mine.cell # 0 /\ mine.use
           /\ jobAt' = [jobAt EXCEPT ![j] = "throwaway"]
           /\ entries' = kept /\ closing' = [closing EXCEPT ![j] = evicted]
           /\ UNCHANGED jobCell
        \/ /\ mine.cell = 0 \/ (~mine.use /\ mine.sig # sig)
           /\ jobAt' = [jobAt EXCEPT ![j] = "building"]
           /\ entries' = [kept EXCEPT ![k] = NoEntry]
           /\ closing' = [closing EXCEPT ![j] = (evicted \union {mine.cell}) \ {0}]
           /\ UNCHANGED jobCell
     /\ UNCHANGED <<jobPooled, jobResult, container, narrowed, processes, unconfirmed, pooling, poolClosed>>

\* Without a pool the Cell is built at once.
BuildAlone(j) ==
  /\ ~pooling /\ jobAt[j] = "new" /\ jobAt' = [jobAt EXCEPT ![j] = "throwaway"]
  /\ UNCHANGED <<jobCell, jobPooled, jobResult, closing, entries, container, narrowed, processes,
                 unconfirmed, pooling, poolClosed>>

\* _safe_close() of one evicted Cell; a failure is logged.
CloseEvicted(j, c) ==
  /\ c \in closing[j]
  /\ closing' = [closing EXCEPT ![j] = @ \ {c}]
  /\ \E gone \in SUBSET {c} : Removed({c}, gone)
  /\ UNCHANGED <<jobAt, jobCell, jobPooled, jobResult, entries, narrowed, pooling, poolClosed>>

\* _alive(): a Cell that answers is leased, a dead one leaves the pool and is closed.
Probe(j) ==
  LET k == ChatOf[j] IN
  /\ jobAt[j] = "probing" /\ closing[j] = {}
  /\ \/ /\ container[jobCell[j]] = "up"
        /\ jobAt' = [jobAt EXCEPT ![j] = "leased"] /\ jobPooled' = [jobPooled EXCEPT ![j] = TRUE]
        /\ UNCHANGED <<jobCell, entries, closing>>
     \/ /\ jobAt' = [jobAt EXCEPT ![j] = "building"] /\ jobCell' = [jobCell EXCEPT ![j] = 0]
        /\ entries' = IF entries[k].cell = jobCell[j] THEN [entries EXCEPT ![k] = NoEntry] ELSE entries
        /\ closing' = [closing EXCEPT ![j] = {jobCell[j]}]
        /\ UNCHANGED jobPooled
  /\ UNCHANGED <<jobResult, container, narrowed, processes, unconfirmed, pooling, poolClosed>>

\* A mistake: an entry is replaced or evicted whether or not a job uses it.
EvictableAny(k) == entries[k].cell # 0

\* Only a Cell nobody leases may be taken out of the pool.
Evictable(k) == entries[k].cell # 0 /\ ~entries[k].use

\* The free entries an overflow takes out, down to the cap if there are enough.
Overflow(k, victims) ==
  LET held == {x \in Chats \ {k} : entries[x].cell # 0}
      free == {x \in held : Evictable(x)}
      over == IF Cardinality(held) + 1 > MaxCells THEN Cardinality(held) + 1 - MaxCells ELSE 0
  IN victims \subseteq free
     /\ Cardinality(victims) = IF over < Cardinality(free) THEN over ELSE Cardinality(free)

\* build() returned: a pooled Cell replaces what a concurrent acquire put there
\* and overflows the pool; a throwaway stays out of it.
Built(j, c, victims) ==
  LET k == ChatOf[j]
      loser == IF Evictable(k) THEN {entries[k].cell} ELSE {}
  IN /\ jobAt[j] \in {"building", "throwaway"} /\ closing[j] = {} /\ Starts(c)
     /\ container' = [container EXCEPT ![c] = "up"]
     /\ jobCell' = [jobCell EXCEPT ![j] = c]
     /\ jobAt' = [jobAt EXCEPT ![j] = "leased"]
     /\ jobPooled' = [jobPooled EXCEPT ![j] = jobAt[j] = "building"]
     /\ IF jobAt[j] = "building"
        THEN /\ Overflow(k, victims)
             /\ entries' = [x \in Chats |->
                  IF x = k THEN [cell |-> c, sig |-> SigOf[j], use |-> TRUE, old |-> FALSE]
                  ELSE IF x \in victims THEN NoEntry ELSE entries[x]]
             /\ closing' = [closing EXCEPT ![j] = loser \union {entries[x].cell : x \in victims}]
        ELSE victims = {} /\ UNCHANGED <<entries, closing>>
     /\ UNCHANGED <<jobResult, narrowed, processes, unconfirmed, pooling, poolClosed>>

\* start() failed after docker run: build_cell() removes the container, or says it could not.
BuildFails(j, c, gone) ==
  /\ jobAt[j] \in {"building", "throwaway"} /\ closing[j] = {} /\ Starts(c)
  /\ container' = [container EXCEPT ![c] = IF gone THEN "removed" ELSE "up"]
  /\ unconfirmed' = IF gone THEN unconfirmed ELSE unconfirmed \union {c}
  /\ jobAt' = [jobAt EXCEPT ![j] = "over"]
  /\ jobResult' = [jobResult EXCEPT ![j] = IF gone THEN "returned" ELSE "raised"]
  /\ UNCHANGED <<jobCell, jobPooled, closing, entries, narrowed, processes, pooling, poolClosed>>

(***************************************************************************)
(* Work in the Cell                                                        *)
(***************************************************************************)

Working(j) == jobAt[j] = "leased" /\ closing[j] = {} /\ container[jobCell[j]] = "up"

\* run(): docker exec starts a process in the container.
RunCommand(j) ==
  /\ Working(j) /\ j \notin processes[jobCell[j]]
  /\ processes' = [processes EXCEPT ![jobCell[j]] = @ \union {j}]
  /\ jobAt' = [jobAt EXCEPT ![j] = "command"]
  /\ UNCHANGED <<jobCell, jobPooled, jobResult, closing, entries, container, narrowed, unconfirmed, pooling, poolClosed>>

\* The command ends, or the deadline inside the container kills it.
CommandEnds(j) ==
  /\ jobAt[j] = "command" /\ jobAt' = [jobAt EXCEPT ![j] = "leased"]
  /\ processes' = [processes EXCEPT ![jobCell[j]] = @ \ {j}]
  /\ UNCHANGED <<jobCell, jobPooled, jobResult, closing, entries, container, narrowed, unconfirmed, pooling, poolClosed>>

\* The operator stops the command, or an image without `timeout` runs into the
\* outer deadline: only the docker client dies.
CommandAbandoned(j, stopped) ==
  /\ jobAt[j] = "command" /\ (stopped \/ ~HasTimeout)
  /\ jobAt' = [jobAt EXCEPT ![j] = "leased"]
  /\ UNCHANGED <<jobCell, jobPooled, jobResult, closing, entries, container, narrowed, processes,
                 unconfirmed, pooling, poolClosed>>

\* A process left behind ends by itself.
ProcessEnds(c, j) ==
  /\ j \in processes[c] /\ (jobAt[j] # "command" \/ jobCell[j] # c)
  /\ processes' = [processes EXCEPT ![c] = @ \ {j}]
  /\ UNCHANGED <<jobAt, jobCell, jobPooled, jobResult, closing, entries, container, narrowed, unconfirmed, pooling, poolClosed>>

\* enter_worktree and exit_worktree move the working directory and its boundary.
Worktree(j) ==
  /\ Working(j)
  /\ narrowed' = IF jobCell[j] \in narrowed THEN narrowed \ {jobCell[j]} ELSE narrowed \union {jobCell[j]}
  /\ UNCHANGED <<jobAt, jobCell, jobPooled, jobResult, closing, entries, container, processes, unconfirmed, pooling, poolClosed>>

(***************************************************************************)
(* Giving it back                                                          *)
(***************************************************************************)

\* A mistake: the worktree of one turn stays the next turn's directory.
LeaveSubpathForgotten(c) == UNCHANGED narrowed

\* leave_subpath(): every release goes back to the workspace root.
LeaveSubpath(c) == narrowed' = narrowed \ {c}

\* A mistake: without a pool a failed removal is swallowed too.
CloseRaisesNever(gone) == FALSE

\* The pool swallows a failed close; a Cell of the job's own raises it.
CloseRaises(gone) == ~pooling /\ gone = {}

\* The finally of run_job(): a Cell still in the pool is parked; a throwaway or
\* one the pool gave away is closed.
Release(j, gone) ==
  LET k == ChatOf[j]
      c == jobCell[j]
      parked == jobPooled[j] /\ entries[k].cell = c
  IN /\ jobAt[j] = "leased" /\ closing[j] = {}
     /\ jobAt' = [jobAt EXCEPT ![j] = "over"]
     /\ IF pooling THEN LeaveSubpath(c) ELSE UNCHANGED narrowed
     /\ IF parked
        THEN /\ entries' = [entries EXCEPT ![k].use = FALSE, ![k].old = FALSE]
             /\ gone = {} /\ UNCHANGED <<container, processes, unconfirmed>>
        ELSE gone \subseteq {c} /\ Removed({c}, gone) /\ UNCHANGED entries
     /\ jobResult' = [jobResult EXCEPT ![j] = IF CloseRaises(gone) THEN "raised" ELSE "returned"]
     /\ UNCHANGED <<jobCell, jobPooled, closing, pooling, poolClosed>>

\* A cancellation inside acquire(), or in the teardown before the Cell's turn:
\* what was to be closed stays open and the entry stays in use.
CancelUnsettled(j) ==
  /\ jobAt[j] \in {"probing", "building", "throwaway", "leased"}
  /\ jobAt' = [jobAt EXCEPT ![j] = "over"] /\ closing' = [closing EXCEPT ![j] = {}]
  /\ jobResult' = [jobResult EXCEPT ![j] = "cancelled"]
  /\ UNCHANGED <<jobCell, jobPooled, entries, container, narrowed, processes, unconfirmed, pooling, poolClosed>>

\* close_all() when the peer stops.
CloseAll ==
  LET cells == {entries[k].cell : k \in Chats} \ {0} IN
  /\ pooling /\ ~poolClosed /\ poolClosed' = TRUE
  /\ entries' = [k \in Chats |-> NoEntry]
  /\ \E gone \in SUBSET cells : Removed(cells, gone)
  /\ UNCHANGED <<jobAt, jobCell, jobPooled, jobResult, closing, narrowed, pooling>>

\* A free entry grows old; a container dies on its own.
TimePasses(k) ==
  /\ entries[k].cell # 0 /\ ~entries[k].use /\ ~entries[k].old
  /\ entries' = [entries EXCEPT ![k].old = TRUE]
  /\ UNCHANGED <<jobAt, jobCell, jobPooled, jobResult, closing, container, narrowed, processes, unconfirmed, pooling, poolClosed>>

ContainerDies(c) ==
  /\ container[c] = "up" /\ container' = [container EXCEPT ![c] = "dead"]
  /\ processes' = [processes EXCEPT ![c] = {}]
  /\ UNCHANGED <<jobAt, jobCell, jobPooled, jobResult, closing, entries, narrowed, unconfirmed, pooling, poolClosed>>

JobStep(j) ==
  \/ Acquire(j) \/ BuildAlone(j) \/ Probe(j)
  \/ \E c \in closing[j] : CloseEvicted(j, c)
  \/ \E c \in Containers, victims \in SUBSET Chats : Built(j, c, victims)
  \/ \E c \in Containers, gone \in BOOLEAN : BuildFails(j, c, gone)
  \/ RunCommand(j) \/ CommandEnds(j) \/ Worktree(j) \/ CancelUnsettled(j)
  \/ \E stopped \in BOOLEAN : CommandAbandoned(j, stopped)
  \/ \E gone \in SUBSET {jobCell[j]} : Release(j, gone)

CellsNext ==
  \/ \E j \in Jobs : JobStep(j)
  \/ \E c \in Containers : ContainerDies(c) \/ \E j \in processes[c] : ProcessEnds(c, j)
  \/ \E k \in Chats : TimePasses(k)
  \/ CloseAll

CellsSpec == CellsInit /\ [][CellsNext]_cellVars

(***************************************************************************)
(* Properties                                                              *)
(***************************************************************************)

InCell(j) == jobAt[j] \in {"leased", "command"}

\* Two jobs never hold one Cell, and the Cell a job holds is not taken away by
\* another job's eviction, overflow or replacement: only close_all removes it.
LeaseExclusive ==
  \A j \in Jobs : InCell(j) =>
    /\ \A i \in Jobs \ {j} : InCell(i) => jobCell[i] # jobCell[j]
    /\ container[jobCell[j]] = "removed" => poolClosed
    /\ \A i \in Jobs : jobCell[j] \in closing[i] => poolClosed

\* A job starts at the root of its workspace, whatever worktree an earlier turn
\* of the conversation worked in.
StartsAtRoot ==
  [][\A j \in Jobs : InCell(j)' /\ ~InCell(j) => jobCell'[j] \notin narrowed']_cellVars

\* run_job() without a pool returns only when its container is gone; otherwise
\* it raises, and its caller keeps the claim on the workspace.
NothingLeftBehind ==
  \A j \in Jobs : ~pooling /\ jobResult[j] = "returned" /\ jobCell[j] # 0 =>
    container[jobCell[j]] = "removed"

\* What a job may rely on: its Cell is its own, and a Cell that is not reused is
\* gone when the job returns.
CellsSound == LeaseExclusive /\ NothingLeftBehind

\* cellpool.py: two turns can never interleave commands inside a single container.
CommandsApart == \A c \in Containers : Cardinality(processes[c]) <= 1

\* cellpool.py: a Cell is reclaimed when its conversation goes idle, so an entry
\* in use has a job that will give it back.
LeaseReturned ==
  \A k \in Chats : entries[k].use =>
    \E j \in Jobs : ChatOf[j] = k /\ jobAt[j] # "over" /\ jobCell[j] = entries[k].cell
=============================================================================
