------------------------------ MODULE Library ------------------------------
(***************************************************************************)
(* The Hall of Records: Hisar owns the catalogue and its originals, Igor   *)
(* mirrors the catalogue from a replayable feed of events, indexes every   *)
(* edition into passages through the durable queue, and answers readers    *)
(* with citations after asking Hisar what they may see.                    *)
(*                                                                         *)
(* A document is the sequence of its catalogue records, one per metadata   *)
(* version; an edition belongs to one document.  What an extraction yields *)
(* is one of Extractions.  Embeddings are off in this release.             *)
(***************************************************************************)
EXTENDS Integers, Sequences, FiniteSets, SequencesExt, TLC

CONSTANTS
  Documents,       \* documents of the hall
  EditionOf,       \* editions, and the document of each
  FirstEdition,    \* the edition a document is catalogued with
  Extractions,     \* what extracting an original may yield
  MaxRecords,      \* bound on the metadata versions of a document
  MaxFeed,         \* bound on the events of the feed
  LibraryDeaths    \* bound on crashes and time limits

ASSUME LibraryAssumption ==
  /\ \A e \in DOMAIN EditionOf : EditionOf[e] \in Documents
  /\ \A d \in Documents : FirstEdition[d] \in DOMAIN EditionOf /\ EditionOf[FirstEdition[d]] = d
  /\ IsFiniteSet(Documents) /\ "none" \notin Extractions

Editions == DOMAIN EditionOf

VARIABLES
  hall,            \* the catalogue: records of each document
  feed,            \* events: document, and whether indexing is requested
  receipts,        \* the index status last reported for each edition
  cursor,          \* LibrarySource.sync_cursor
  mirror,          \* metadata version mirrored of each document, 0 if none
  generation,      \* LibraryIndexGeneration of each edition
  passages,        \* its passages, "none" if there are none
  jobs,            \* the queue's library_index work of each edition
  sync,            \* the reconciliation in progress
  indexing,        \* the indexing in progress
  reader,          \* a search between Hisar's answer and the index
  citations,       \* evidence handed out: edition and excerpt
  libraryDeaths

libraryVars == <<hall, feed, receipts, cursor, mirror, generation, passages, jobs, sync, indexing, reader,
                 citations, libraryDeaths>>
remote == <<hall, feed, receipts>>
index == <<generation, passages>>

Ready == {"ready_keyword", "ready_ocr"}
AtRest == [pc |-> "idle"]
Hidden(record) == record.archived \/ record.gone

LibraryTypeOK ==
  /\ cursor \in 0 .. Len(feed) /\ \A d \in Documents : mirror[d] \in 0 .. Len(hall[d])
  /\ generation \in [Editions -> {"none", "pending", "processing", "failed", "needs_review"} \cup Ready]
  /\ passages \in [Editions -> Extractions \cup {"none"}]
  /\ jobs \in [Editions -> {"none", "pending", "running", "done", "held", "quarantined"}]

LibraryInit ==
  /\ hall = [d \in Documents |-> <<[active |-> FirstEdition[d], editions |-> {FirstEdition[d]},
                                    archived |-> FALSE, gone |-> FALSE]>>]
  /\ feed = SetToSeq({[document |-> d, version |-> 1, requested |-> FALSE] : d \in Documents})
  /\ receipts = [e \in Editions |-> "none"] /\ cursor = 0 /\ mirror = [d \in Documents |-> 0]
  /\ generation = [e \in Editions |-> "none"] /\ passages = [e \in Editions |-> "none"]
  /\ jobs = [e \in Editions |-> "none"]
  /\ sync = AtRest /\ indexing = AtRest /\ reader = AtRest /\ citations = {} /\ libraryDeaths = 0

(***************************************************************************)
(* Hisar: every change is a new record and an event                        *)
(***************************************************************************)
Catalogue(d, record) ==
  /\ Len(feed) < MaxFeed /\ Len(hall[d]) < MaxRecords /\ ~Last(hall[d]).gone
  /\ hall' = [hall EXCEPT ![d] = Append(@, record)]
  /\ feed' = Append(feed, [document |-> d, version |-> Len(hall[d]) + 1, requested |-> FALSE])
  /\ UNCHANGED <<receipts, cursor, mirror, index, jobs, sync, indexing, reader, citations, libraryDeaths>>

NewEdition(e) ==
  LET d == EditionOf[e]
  IN e \notin Last(hall[d]).editions
     /\ Catalogue(d, [Last(hall[d]) EXCEPT !.active = e, !.editions = @ \cup {e}])
Archive(d, archived) == Last(hall[d]).archived # archived /\ Catalogue(d, [Last(hall[d]) EXCEPT !.archived = archived])
Withdraw(d) == Catalogue(d, [Last(hall[d]) EXCEPT !.gone = TRUE])

RequestIndex(d) ==
  /\ Len(feed) < MaxFeed /\ ~Hidden(Last(hall[d]))
  /\ feed' = Append(feed, [document |-> d, version |-> Len(hall[d]), requested |-> TRUE])
  /\ UNCHANGED <<hall, receipts, cursor, mirror, index, jobs, sync, indexing, reader, citations, libraryDeaths>>

(***************************************************************************)
(* reconcile(): one at a time, event by event                              *)
(***************************************************************************)
\* A mistake: whatever answer comes last is mirrored.
MirroredBlindly(d, version) == version
\* _mirror(): an answer older than the mirror is ignored.
Mirrored(d, version) == IF mirror[d] > version THEN mirror[d] ELSE version

\* The next event of the feed, or any document of the manifest of a full run.
SyncFetch(d, event) ==
  /\ sync.pc = "idle"
  /\ \/ event = 0
     \/ event = cursor + 1 /\ event <= Len(feed) /\ feed[event].document = d
  /\ sync' = [pc |-> "fetched", document |-> d, event |-> event, version |-> Len(hall[d])]
  /\ UNCHANGED <<remote, cursor, mirror, index, jobs, indexing, reader, citations, libraryDeaths>>

SyncMirror ==
  LET d == sync.document
  IN /\ sync.pc = "fetched" /\ mirror' = [mirror EXCEPT ![d] = Mirrored(d, sync.version)]
     /\ sync' = [pc |-> "accepting", document |-> d, event |-> sync.event, version |-> sync.version,
                 left |-> IF Hidden(hall[d][sync.version]) THEN {} ELSE hall[d][sync.version].editions]
     /\ UNCHANGED <<remote, cursor, index, jobs, indexing, reader, citations, libraryDeaths>>

Retried(e) == sync.event # 0 /\ feed[sync.event].requested /\ e = hall[sync.document][sync.version].active

\* _accept(), one edition: its generation, then its work; what is settled is left alone.
AcceptEdition(e) ==
  /\ sync.pc = "accepting" /\ e \in sync.left
  /\ sync' = [sync EXCEPT !.left = @ \ {e}]
  /\ IF generation[e] \in Ready \cup {"needs_review"} /\ ~Retried(e) THEN UNCHANGED <<generation, jobs>>
     ELSE LET again == Retried(e) /\ jobs[e] \in {"held", "quarantined", "done"}
          IN /\ jobs' = [jobs EXCEPT ![e] = IF @ = "none" \/ again THEN "pending" ELSE @]
             /\ generation' = [generation EXCEPT ![e] =
                  IF @ = "none" \/ (again /\ @ \notin Ready) THEN "pending" ELSE @]
  /\ UNCHANGED <<remote, cursor, mirror, passages, indexing, reader, citations, libraryDeaths>>

\* The event is acknowledged when its work is queued.
SyncAdvance ==
  /\ sync.pc = "accepting" /\ sync.left = {} /\ sync' = AtRest
  /\ cursor' = IF sync.event = 0 THEN cursor ELSE sync.event
  /\ UNCHANGED <<remote, mirror, index, jobs, indexing, reader, citations, libraryDeaths>>

(***************************************************************************)
(* index_revision(), run by Orion's drain                                  *)
(***************************************************************************)
TakeIndexing(e) ==
  /\ indexing.pc = "idle" /\ jobs[e] = "pending" /\ jobs' = [jobs EXCEPT ![e] = "running"]
  /\ indexing' = [pc |-> "taken", edition |-> e, version |-> Len(hall[EditionOf[e]])]
  /\ UNCHANGED <<remote, cursor, mirror, index, sync, reader, citations, libraryDeaths>>

IndexOver(status) == jobs' = [jobs EXCEPT ![indexing.edition] = status] /\ indexing' = AtRest

\* The record is mirrored; an archived edition is left, a settled one reported again.
IndexBegins ==
  LET e == indexing.edition
      d == EditionOf[e]
  IN /\ indexing.pc = "taken" /\ mirror' = [mirror EXCEPT ![d] = Mirrored(d, indexing.version)]
     /\ IF Hidden(hall[d][indexing.version]) THEN IndexOver("done") /\ UNCHANGED <<generation, receipts>>
        ELSE IF generation[e] \in Ready \cup {"needs_review"}
        THEN /\ receipts' = [receipts EXCEPT ![e] = generation[e]]
             /\ IndexOver("done") /\ UNCHANGED generation
        ELSE /\ generation' = [generation EXCEPT ![e] = "processing"]
             /\ receipts' = [receipts EXCEPT ![e] = "processing"]
             /\ indexing' = [indexing EXCEPT !.pc = "extracting"] /\ UNCHANGED jobs
     /\ UNCHANGED <<hall, feed, cursor, passages, sync, reader, citations, libraryDeaths>>

\* extract_document_bytes(): passages, or an original over its bounds, encrypted,
\* unreadable or empty, which the owner must review.
Extracted == Extractions \cup {"needs_review"}

\* Passages and readiness are one transaction.
IndexPublishes(content) ==
  LET e == indexing.edition
  IN /\ indexing.pc = "extracting" /\ passages[e] \in {"none", content}
     /\ passages' = [passages EXCEPT ![e] = content]
     /\ generation' = [generation EXCEPT ![e] = IF content = "ocr" THEN "ready_ocr" ELSE "ready_keyword"]
     /\ indexing' = [indexing EXCEPT !.pc = "published"]
     /\ UNCHANGED <<remote, cursor, mirror, jobs, sync, reader, citations, libraryDeaths>>

\* Nothing can be extracted (needs review), or the transport or a check failed.
IndexFails(status) ==
  LET e == indexing.edition
  IN /\ indexing.pc = "extracting"
     /\ generation' = [generation EXCEPT ![e] = status]
     /\ receipts' = [receipts EXCEPT ![e] = status]
     /\ \/ status = "needs_review" /\ IndexOver("done")
        \/ status = "failed" /\ \E held \in {"held", "quarantined"} : IndexOver(held)
     /\ UNCHANGED <<hall, feed, cursor, mirror, passages, sync, reader, citations, libraryDeaths>>

\* The receipt is reported; when Hisar does not answer, the work is held.
IndexReports(answered) ==
  LET e == indexing.edition
  IN /\ indexing.pc = "published"
     /\ receipts' = IF answered THEN [receipts EXCEPT ![e] = generation[e]] ELSE receipts
     /\ IndexOver(IF answered THEN "done" ELSE "held")
     /\ UNCHANGED <<hall, feed, cursor, mirror, index, sync, reader, citations, libraryDeaths>>

\* The lease of a dead run is taken over by the next drain.
IndexLeaseExpires(e) ==
  /\ indexing.pc = "idle" /\ jobs[e] = "running" /\ jobs' = [jobs EXCEPT ![e] = "pending"]
  /\ UNCHANGED <<remote, cursor, mirror, index, sync, indexing, reader, citations, libraryDeaths>>

(***************************************************************************)
(* Readers                                                                 *)
(***************************************************************************)
\* resolve_access(): Hisar decides on what is current now.
ReaderAsks(d, edition) ==
  /\ reader.pc = "idle" /\ ~Last(hall[d]).gone
  /\ edition \in Last(hall[d]).editions
  /\ reader' = [pc |-> "granted", edition |-> edition]
  /\ UNCHANGED <<remote, cursor, mirror, index, jobs, sync, indexing, citations, libraryDeaths>>

\* _evidence(): an excerpt and its citation, the same for every reader.
Evidence(e) == [edition |-> e, excerpt |-> passages[e]]

\* Only the passages of a mirrored, ready edition are evidence.
ReaderReads ==
  LET e == reader.edition
      known == mirror[EditionOf[e]] # 0 /\ e \in hall[EditionOf[e]][mirror[EditionOf[e]]].editions
  IN /\ reader.pc = "granted" /\ reader' = AtRest
     /\ citations' = IF known /\ generation[e] \in Ready
                     THEN citations \cup {Evidence(e)} ELSE citations
     /\ UNCHANGED <<remote, cursor, mirror, index, jobs, sync, indexing, libraryDeaths>>

(***************************************************************************)
(* A run over its time limit, and a crash                                  *)
(***************************************************************************)
SyncStops ==
  /\ sync.pc # "idle" /\ libraryDeaths < LibraryDeaths /\ libraryDeaths' = libraryDeaths + 1
  /\ sync' = AtRest
  /\ UNCHANGED <<remote, cursor, mirror, index, jobs, indexing, reader, citations>>
LibraryDies ==
  /\ indexing.pc # "idle" /\ libraryDeaths < LibraryDeaths /\ libraryDeaths' = libraryDeaths + 1
  /\ sync' = AtRest /\ indexing' = AtRest /\ reader' = AtRest
  /\ UNCHANGED <<remote, cursor, mirror, index, jobs, citations>>

LibraryNext ==
  \/ \E d \in Documents :
       \/ Withdraw(d) \/ RequestIndex(d)
       \/ \E archived \in BOOLEAN : Archive(d, archived)
       \/ \E event \in 0 .. Len(feed) : SyncFetch(d, event)
       \/ \E e \in Editions : ReaderAsks(d, e)
  \/ SyncMirror \/ SyncAdvance \/ SyncStops \/ LibraryDies \/ IndexBegins \/ ReaderReads
  \/ \E e \in Editions : NewEdition(e) \/ AcceptEdition(e) \/ TakeIndexing(e) \/ IndexLeaseExpires(e)
  \/ \E outcome \in Extracted \cup {"failed"} :
       IF outcome \in Extractions THEN IndexPublishes(outcome) ELSE IndexFails(outcome)
  \/ \E answered \in BOOLEAN : IndexReports(answered)

LibrarySpec == LibraryInit /\ [][LibraryNext]_libraryVars

(***************************************************************************)
(* Properties                                                              *)
(***************************************************************************)
\* An acknowledged event is mirrored, and the work of an edition that was never
\* hidden is on the queue: a crash or a time limit loses none of it.
AcknowledgedIsQueued ==
  \A s \in 1 .. cursor :
    LET d == feed[s].document
        known == hall[d][feed[s].version]
    IN /\ mirror[d] >= feed[s].version
       /\ (\A v \in DOMAIN hall[d] : ~Hidden(hall[d][v])) => \A e \in known.editions : jobs[e] # "none"

\* Passages and readiness appear together, no edition is reported ready that is not,
\* and what a citation quoted is still what it quotes.
EvidenceStands ==
  /\ \A e \in Editions : (generation[e] \in Ready) <=> (passages[e] # "none")
  /\ \A e \in Editions : receipts[e] \in Ready => generation[e] = receipts[e]
  /\ \A c \in citations : passages[c.edition] = c.excerpt

\* The index of the Hall of Records can be relied on (library_indexer.py, library.py).
LibrarySound == AcknowledgedIsQueued /\ EvidenceStands
=============================================================================
