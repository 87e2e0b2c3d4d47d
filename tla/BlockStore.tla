----------------------------- MODULE BlockStore -----------------------------
(***************************************************************************)
(* The disk-backed queue of found blocks (src/src/queue/store.cpp): rows   *)
(* in RAM under one mutex, a snapshot file blocks.db that is truncated and *)
(* rewritten on every save, and an append-only journal queue.jsonl that is *)
(* read back only when the snapshot is missing or unreadable.              *)
(*                                                                         *)
(* A row is an id and the digest of its block; the other fields of         *)
(* PendingBlock (reason, reject_count, forwarded, the hit itself) travel   *)
(* with it and no control depends on them here.  Rows form a set: the      *)
(* vector's order is insertion order and matters to list_flush_batch only. *)
(* The process may die at any step.  A digest is never the empty string:   *)
(* every hit the engine hands over carries its PHC.                        *)
(***************************************************************************)
EXTENDS Naturals, Sequences, FiniteSets

CONSTANTS Hash,          \* digests
          SaveEvery,     \* kSaveEveryOps: dirty operations that force a save
          MaxLines,      \* bound: journal lines, with those cut short
          MaxId,         \* bound: ids a restart may number up to
          MaxCuts,       \* bound: journal appends cut short
          CrashInWrite,  \* may the process die between truncation and write?
          SaveMayFail    \* may opening or writing blocks.db fail?

ASSUME SaveEveryPos == SaveEvery \in Nat \ {0}
ASSUME BoundsNat == MaxLines \in Nat /\ MaxId \in Nat /\ MaxCuts \in Nat
ASSUME FlagsBoolean == CrashInWrite \in BOOLEAN /\ SaveMayFail \in BOOLEAN

VARIABLES
    pending,   \* pending_: the rows in RAM
    index,     \* hash_index_
    nextId,    \* next_id_
    dirty,     \* dirty_ops_
    phase,     \* where the process is: see Phase
    cursor,    \* next journal line recover_jsonl_unlocked reads
    dbState,   \* blocks.db: "absent", "torn" (truncated, not whole) or "ok"
    dbRows,    \* its rows when "ok"
    dbNext,    \* its next_id when "ok"
    jsonl,     \* queue.jsonl: its lines that parse
    tail,      \* its end: "ended" by a newline, "unended" after a whole row,
               \* or "torn" in the middle of one
    cuts,      \* history: appends that did not reach the disk whole
    leaving,   \* history: digests taken out by the call that is saving now
    gone       \* history: digests whose removal returned to its caller

ram  == <<pending, index, nextId, dirty>>
journal == <<jsonl, tail, cuts>>
disk == <<dbState, dbRows, dbNext, jsonl, tail, cuts>>
vars == <<pending, index, nextId, dirty, phase, cursor,
          dbState, dbRows, dbNext, jsonl, tail, cuts, leaving, gone>>

Row == [id : Nat \ {0}, hash : Hash]

\* "saving" and "writing" hold mu_ (before and after the truncation), "exiting"
\* and "lastWrite" are the same two in the destructor.
Phase == {"down", "recovering", "up", "saving", "writing", "exiting", "lastWrite"}

Hashes(rows) == {r.hash : r \in rows}
Ids(rows)    == {r.id : r \in rows}
Lines        == {jsonl[i] : i \in DOMAIN jsonl}

\* What a restart finds: the snapshot if it parses, else every journal line.
Recoverable == IF dbState = "ok" THEN Hashes(dbRows) ELSE Hashes(Lines)

-----------------------------------------------------------------------------

Init == /\ pending = {} /\ index = {} /\ nextId = 1 /\ dirty = 0
        /\ phase = "down" /\ cursor = 1
        /\ dbState = "absent" /\ dbRows = {} /\ dbNext = 1
        /\ jsonl = <<>> /\ tail = "ended" /\ cuts = 0
        /\ leaving = {} /\ gone = {}

\* next_id_ after a load: the default of item.value("id", next_id_++) is computed
\* for every row, so each row costs a number, and it ends above every row's id.
NextIdAfterLoad ==
    LET counted == dbNext + Cardinality(dbRows)
    IN /\ nextId' \in {counted} \cup {r.id + 1 : r \in dbRows}
       /\ counted <= nextId' /\ \A r \in dbRows : r.id < nextId'

\* Mutant of LoadSnapshot: the digest index is not rebuilt.
LoadSnapshotNoIndex ==
    /\ phase = "down" /\ dbState = "ok"
    /\ pending' = dbRows /\ index' = {}
    /\ NextIdAfterLoad
    /\ dirty' = 0 /\ phase' = "up"
    /\ UNCHANGED <<cursor, disk, leaving, gone>>

\* load: a readable snapshot replaces everything.
LoadSnapshot ==
    /\ phase = "down" /\ dbState = "ok"
    /\ pending' = dbRows
    /\ index' = Hashes(dbRows)
    /\ NextIdAfterLoad
    /\ dirty' = 0
    /\ phase' = "up"
    /\ UNCHANGED <<cursor, disk, leaving, gone>>

\* load: no snapshot, or one that does not parse: read the journal.
LoadJournal ==
    /\ phase = "down" /\ dbState # "ok"
    /\ pending' = {} /\ index' = {} /\ nextId' = 1 /\ dirty' = 0
    /\ cursor' = 1
    /\ phase' = "recovering"
    /\ UNCHANGED <<disk, leaving, gone>>

\* Mutant of RecoverLine: a taken id is kept.
RecoverLineKeepsId ==
    /\ phase = "recovering" /\ cursor <= Len(jsonl)
    /\ LET line == jsonl[cursor]
       IN IF line.hash \in index
          THEN UNCHANGED <<pending, index, nextId>>
          ELSE /\ pending' = pending \cup {line}
               /\ index' = index \cup {line.hash}
               /\ nextId' = IF line.id < nextId THEN nextId ELSE line.id + 1
    /\ cursor' = cursor + 1
    /\ UNCHANGED <<dirty, phase, disk, leaving, gone>>

\* One journal line: known digests are skipped, a taken id is replaced.
RecoverLine ==
    /\ phase = "recovering" /\ cursor <= Len(jsonl)
    /\ LET line == jsonl[cursor]
           id   == IF line.id \in Ids(pending) THEN nextId ELSE line.id
       IN IF line.hash \in index
          THEN UNCHANGED <<pending, index, nextId>>
          ELSE /\ pending' = pending \cup {[id |-> id, hash |-> line.hash]}
               /\ index' = index \cup {line.hash}
               /\ nextId' = IF id < nextId THEN nextId ELSE id + 1
    /\ cursor' = cursor + 1
    /\ UNCHANGED <<dirty, phase, disk, leaving, gone>>

\* The journal is read: save at once if it gave anything.
RecoverDone ==
    /\ phase = "recovering" /\ cursor > Len(jsonl)
    /\ phase' = IF pending = {} THEN "up" ELSE "saving"
    /\ UNCHANGED <<ram, cursor, disk, leaving, gone>>

-----------------------------------------------------------------------------
(* save_db_unlocked, under mu_.  The file is opened with std::ios::trunc    *)
(* and then written; dirty_ops_ is cleared whatever became of the stream.   *)

Truncate ==
    /\ phase \in {"saving", "exiting"}
    /\ dbState' = "torn"
    /\ phase' = IF phase = "saving" THEN "writing" ELSE "lastWrite"
    /\ UNCHANGED <<ram, cursor, dbRows, dbNext, journal, leaving, gone>>

\* The call that saved returns to its caller (or the destructor ends).
Returns ==
    /\ dirty' = 0
    /\ phase' = IF phase \in {"saving", "writing"} THEN "up" ELSE "down"
    /\ gone' = gone \cup leaving
    /\ leaving' = {}

\* Mutant of FinishSave: the journal is emptied once the snapshot is written.
FinishSaveTrims ==
    /\ phase \in {"writing", "lastWrite"}
    /\ dbState' = "ok" /\ dbRows' = pending /\ dbNext' = nextId
    /\ jsonl' = <<>> /\ tail' = "ended"
    /\ Returns
    /\ UNCHANGED <<pending, index, nextId, cursor, cuts>>

FinishSave ==
    /\ phase \in {"writing", "lastWrite"}
    /\ dbState' = "ok" /\ dbRows' = pending /\ dbNext' = nextId
    /\ Returns
    /\ UNCHANGED <<pending, index, nextId, cursor, journal>>

\* The open or the write fails; nothing tests the stream.
SaveFails ==
    /\ SaveMayFail
    /\ phase \in {"saving", "writing", "exiting", "lastWrite"}
    /\ Returns
    /\ UNCHANGED <<pending, index, nextId, cursor, disk>>

\* Mutant of MaybeSave: one operation late.
MaybeSaveLate(n) == phase' = IF n > SaveEvery THEN "saving" ELSE "up"

\* maybe_save_unlocked after an operation that left n dirty operations.
MaybeSave(n) == phase' = IF n >= SaveEvery THEN "saving" ELSE "up"

-----------------------------------------------------------------------------
(* append_queue_jsonl opens the journal for appending and writes one line;  *)
(* nothing tests the stream.  A process that dies inside the append leaves  *)
(* what a cut append and a Crash leave.                                     *)

\* The lines that still parse once more text follows them: a row without its
\* newline becomes one line with what is appended next, and neither parses.
Kept == IF tail = "unended" THEN SubSeq(jsonl, 1, Len(jsonl) - 1) ELSE jsonl

\* The row and its newline are written: a line of its own after a newline only.
AppendWhole(row) ==
    /\ jsonl' = IF tail = "ended" THEN Append(jsonl, row) ELSE Kept
    /\ tail' = "ended"
    /\ UNCHANGED cuts

\* The open or the write fails: nothing is written, or a part of the line, or
\* all of it but the newline.
AppendCut(row) ==
    /\ cuts < MaxCuts
    /\ cuts' = cuts + 1
    /\ \/ UNCHANGED <<jsonl, tail>>
       \/ tail' = "torn" /\ jsonl' = Kept
       \/ tail = "ended" /\ tail' = "unended" /\ jsonl' = Append(jsonl, row)

\* append_queue_jsonl
AppendQueueJsonl(row) == AppendWhole(row) \/ AppendCut(row)

\* Mutant of Enqueue: a new row is no dirty operation.
EnqueueUnmarked(h) ==
    /\ phase = "up" /\ h \notin index /\ Len(jsonl) + cuts < MaxLines
    /\ LET row == [id |-> nextId, hash |-> h]
       IN pending' = pending \cup {row} /\ AppendQueueJsonl(row)
    /\ index' = index \cup {h}
    /\ nextId' = nextId + 1
    /\ MaybeSave(dirty)
    /\ gone' = gone \ {h}
    /\ UNCHANGED <<dirty, cursor, dbState, dbRows, dbNext, leaving>>

\* enqueue: a known digest is refused, else id, index, journal, row, save,
\* whatever became of the journal line.
Enqueue(h) ==
    /\ phase = "up" /\ h \notin index /\ Len(jsonl) + cuts < MaxLines
    /\ LET row == [id |-> nextId, hash |-> h]
       IN /\ pending' = pending \cup {row}
          /\ AppendQueueJsonl(row)
    /\ index' = index \cup {h}
    /\ nextId' = nextId + 1
    /\ dirty' = dirty + 1
    /\ MaybeSave(dirty + 1)
    /\ gone' = gone \ {h}
    /\ UNCHANGED <<cursor, dbState, dbRows, dbNext, leaving>>

\* Mutant of MarkSubmittedMany: saves when enough operations are dirty, only.
MarkSubmittedLazily(ids) ==
    /\ phase = "up" /\ ids # {}
    /\ LET out == {r \in pending : r.id \in ids}
       IN /\ pending' = pending \ out
          /\ index' = index \ Hashes(out)
          /\ gone' = gone \cup Hashes(out)
    /\ dirty' = dirty + 1
    /\ MaybeSave(dirty + 1)
    /\ UNCHANGED <<nextId, cursor, disk, leaving>>

\* mark_submitted_many: rows by id, absent ids (0 stands for them) are ignored,
\* always saves.
MarkSubmittedMany(ids) ==
    /\ phase = "up" /\ ids # {}
    /\ LET out == {r \in pending : r.id \in ids}
       IN /\ pending' = pending \ out
          /\ index' = index \ Hashes(out)
          /\ leaving' = Hashes(out)
    /\ dirty' = dirty + 1
    /\ phase' = "saving"
    /\ UNCHANGED <<nextId, cursor, disk, gone>>

\* Mutant of DropByHash: next_id_ falls back to the size of the queue.
DropByHashRewinds(hashes) ==
    /\ phase = "up"
    /\ LET out == {r \in pending : r.hash \in hashes}
       IN /\ out # {}
          /\ pending' = pending \ out
          /\ index' = index \ Hashes(out)
          /\ leaving' = Hashes(out)
    /\ nextId' = Cardinality(pending') + 1
    /\ phase' = "saving"
    /\ UNCHANGED <<dirty, cursor, disk, gone>>

\* drop_by_hash: rows by digest, saves only when one was found.
DropByHash(hashes) ==
    /\ phase = "up"
    /\ LET out == {r \in pending : r.hash \in hashes}
       IN /\ out # {}
          /\ pending' = pending \ out
          /\ index' = index \ Hashes(out)
          /\ leaving' = Hashes(out)
    /\ phase' = "saving"
    /\ UNCHANGED <<nextId, dirty, cursor, disk, gone>>

\* mark_pending_reason: a dirty operation even when the id is gone.
MarkPendingReason ==
    /\ phase = "up"
    /\ dirty' = dirty + 1
    /\ MaybeSave(dirty + 1)
    /\ UNCHANGED <<pending, index, nextId, cursor, disk, leaving, gone>>

\* defer_all_to_next_start and mark_forwarded_many: fields change, then save.
DeferAllToNextStart ==
    /\ phase = "up"
    /\ dirty' = dirty + 1
    /\ phase' = "saving"
    /\ UNCHANGED <<pending, index, nextId, cursor, disk, leaving, gone>>

Flush ==
    /\ phase = "up" /\ dirty > 0
    /\ phase' = "saving"
    /\ UNCHANGED <<ram, cursor, disk, leaving, gone>>

\* Bound: the ids of the next start stay small.
IdsLeft == /\ nextId + Cardinality(pending) <= MaxId
           /\ dbNext + Cardinality(dbRows) <= MaxId

\* ~BlockStore
Destroy ==
    /\ phase = "up" /\ IdsLeft
    /\ phase' = IF dirty > 0 THEN "exiting" ELSE "down"
    /\ UNCHANGED <<ram, cursor, disk, leaving, gone>>

\* The process dies: the files stay as they are.
Crash ==
    /\ phase # "down" /\ IdsLeft
    /\ phase \in {"writing", "lastWrite"} => CrashInWrite
    /\ phase' = "down"
    /\ leaving' = {}
    /\ UNCHANGED <<ram, cursor, disk, gone>>

Next ==
    \/ LoadSnapshot \/ LoadJournal \/ RecoverLine \/ RecoverDone
    \/ Truncate \/ FinishSave \/ SaveFails
    \/ \E h \in Hash : Enqueue(h)
    \/ \E ids \in SUBSET (Ids(pending) \cup {0}) : MarkSubmittedMany(ids)
    \/ \E hashes \in SUBSET Hash : DropByHash(hashes)
    \/ MarkPendingReason \/ DeferAllToNextStart \/ Flush
    \/ Destroy \/ Crash

Spec == Init /\ [][Next]_vars

-----------------------------------------------------------------------------
(* Properties                                                              *)

\* Every variable ranges over what the code can store in it.
TypeOK ==
    /\ pending \in SUBSET Row
    /\ index \in SUBSET Hash
    /\ nextId \in Nat \ {0}
    /\ dirty \in 0..SaveEvery
    /\ phase \in Phase
    /\ cursor \in Nat \ {0}
    /\ dbState \in {"absent", "torn", "ok"}
    /\ dbRows \in SUBSET Row
    /\ dbNext \in Nat \ {0}
    /\ jsonl \in Seq(Row)
    /\ tail \in {"ended", "unended", "torn"}
    /\ cuts \in 0..MaxCuts
    /\ leaving \in SUBSET Hash
    /\ gone \in SUBSET Hash

\* A row set the queue may hold: no two rows share an id or a digest, and
\* the next id is above them all.
Distinct(rows, next) ==
    /\ \A r, q \in rows : (r.id = q.id \/ r.hash = q.hash) => r = q
    /\ \A r \in rows : r.id < next

\* hash_index_ says exactly which digests are queued, in RAM and through every
\* restart: a digest left behind in the index would make enqueue refuse, and
\* so lose, a block that is found again; a missing one would queue it twice.
IndexExact ==
    phase # "down" => /\ Distinct(pending, nextId)
                      /\ index = Hashes(pending)

\* The snapshot on disk never holds two rows with one id or one digest, so a
\* load without any check of its own restores a sound queue.
SnapshotSound == dbState = "ok" => Distinct(dbRows, dbNext)

\* The blocks in RAM or in the snapshot that an unreadable blocks.db would lose.
Uncovered == ((IF phase = "down" THEN {} ELSE Hashes(pending))
                  \cup (IF dbState = "ok" THEN Hashes(dbRows) ELSE {})) \ Hashes(Lines)

\* Every row in RAM or in the snapshot has its journal line, so an unreadable
\* blocks.db loses no block (store.cpp:132-135 relies on it), but for two at
\* most per append that did not reach the disk whole: its own, and the one that
\* is written into the same line later.
JournalCovers == Cardinality(Uncovered) <= 2 * cuts

\* Dying now loses at most one block per dirty operation, and there are never
\* more of those than kSaveEveryOps.
LossBounded ==
    phase \in {"up", "saving", "exiting"} =>
        Cardinality(Hashes(pending) \ Recoverable) <= dirty

\* An operation that cleared dirty_ops_ left the whole queue on disk.
CleanIsDurable ==
    (phase = "up" /\ dirty = 0) => Recoverable = Hashes(pending)

\* While the process lives an id that named a row never names another one, so
\* a flush wave that erases by id after its HTTP answers cannot erase a block
\* that was queued meanwhile.
IdsNotReused ==
    [][phase = "up" => /\ nextId <= nextId'
                       /\ \A r \in pending' \ pending : r.id >= nextId]_vars

\* A submitted or handed-off block comes back into the live queue by no restart,
\* as long as no crash falls into the middle of a write (store.cpp:132-134,
\* store.hpp:44-45).
NoResurrection == (phase = "up" /\ ~CrashInWrite) => gone \cap Hashes(pending) = {}

-----------------------------------------------------------------------------
(* The queue as its callers see it: what is in RAM while the process runs   *)
(* (a removal counts when its call returns), what a restart would find      *)
(* while it does not.                                                       *)

Bag == INSTANCE LossyBag WITH
           MaxLoss <- SaveEvery,
           up      <- phase \notin {"down", "recovering"},
           bag     <- IF phase \in {"down", "recovering"} THEN Recoverable
                      ELSE Hashes(pending) \cup leaving,
           asked   <- leaving,
           risk    <- IF phase \in {"down", "recovering"} THEN 0 ELSE dirty

\* The store implements the lossy bag: a process that dies takes no more blocks
\* with it than operations were not saved, never more than kSaveEveryOps, and
\* none comes back once its removal has returned.
ImplementsLossyBag == Bag!Spec
=============================================================================
