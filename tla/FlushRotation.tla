---------------------------- MODULE FlushRotation ----------------------------
(***************************************************************************)
(* How the flush worker walks the disk queue: list_flush_batch             *)
(* (src/src/queue/store.cpp) picks and sorts the rows of a wave, and       *)
(* try_flush_pending (src/src/app/supervisor.cpp) POSTs the first Wave of  *)
(* them, erases the accepted ones and, when none was, moves                *)
(* flush_skip_before_id_ past the last row it tried.                       *)
(*                                                                         *)
(* A wave is one step: what its threads do meanwhile is SubmitPipeline.    *)
(* The pool has a standing opinion of each block, its fate: it accepts the *)
(* block, holds it ("hash verification failed", or no answer: the hash is  *)
(* kept and tried again) or rejects it (any other error: kept as well).    *)
(***************************************************************************)
EXTENDS Naturals, FiniteSets

CONSTANTS N,      \* rows in the queue at the start
          Wave,   \* rows of a wave: 64, match_drain_batch, or 0 for all of them
          Kinds,  \* block types of the rows
          Fates   \* fates of the rows

Parameters == /\ N \in Nat /\ Wave \in Nat
              /\ Kinds \subseteq {"XNM", "XBLK", "XUNI"}
              /\ Fates \subseteq {"accept", "hold", "reject"}

VARIABLES pending,  \* pending_: its rows; the vector has them by rising ids
          skip,     \* flush_skip_before_id_
          window    \* in_xuni_submit_window()

vars == <<pending, skip, window>>

\* match: does the row's m= equal the one the wave is for?
Row == [id : 1..N, kind : Kinds, match : BOOLEAN, fate : Fates]

Init == /\ \E kind \in [1..N -> Kinds], match \in [1..N -> BOOLEAN], fate \in [1..N -> Fates] :
              pending = {[id |-> i, kind |-> kind[i], match |-> match[i], fate |-> fate[i]] :
                            i \in 1..N}
        /\ skip = 0 /\ window \in BOOLEAN

\* ready_to_flush
ReadyToFlush(kind) == kind = "XUNI" => window

\* flush_priority: the lower one goes first.
FlushPriority == [XNM |-> 0, XBLK |-> 1, XUNI |-> 2]

\* What `take` lets through in list_flush_batch.
Takes(row) == row.match /\ ReadyToFlush(row.kind)

Older(r, q) == r.id < q.id

\* The order list_flush_batch sorts by.
FlushesBefore(r, q) ==
    \/ FlushPriority[r.kind] < FlushPriority[q.kind]
    \/ FlushPriority[r.kind] = FlushPriority[q.kind] /\ Older(r, q)

\* The first n of some rows in an order: those that fewer than n come before.
First(rows, n, Before(_, _)) ==
    {r \in rows : Cardinality({q \in rows : Before(q, r)}) < n}

\* preferred and wrapped: what `take` lets through from skip on, and before it.
Ahead  == {r \in pending : Takes(r) /\ ~(skip > 0 /\ r.id < skip)}
Behind == {r \in pending : Takes(r) /\ skip > 0 /\ r.id < skip}

Room(limit) == IF limit > 0 THEN limit ELSE Cardinality(pending)

\* Mutant of ListFlushBatch: cut at the limit first, then filtered.
ListFlushBatchCutsFirst(limit) == {r \in First(pending, Room(limit), Older) : Takes(r)}

\* list_flush_batch: rows from skip on and, if they are fewer than the limit (0
\* is no limit), rows before it.  Only the vector it returns is sorted.
ListFlushBatch(limit) ==
    LET preferred == First(Ahead, Room(limit), Older)
    IN preferred \cup First(Behind, Room(limit) - Cardinality(preferred), Older)

\* The rows a wave POSTs: twice as many are fetched and sorted, the first Wave sent.
Work == LET batch == ListFlushBatch(Wave * 2)
        IN IF Wave = 0 THEN batch ELSE First(batch, Wave, FlushesBefore)

LastOfWork == CHOOSE r \in Work : \A q \in Work \ {r} : FlushesBefore(q, r)

WithFate(fate) == {r \in Work : r.fate = fate}

\* try_flush_pending from list_flush_batch on: mark_submitted_many takes the
\* accepted rows out; a wave of holds alone rotates.
FlushWave ==
    /\ Work # {}
    /\ pending' = pending \ WithFate("accept")
    /\ skip' = IF WithFate("accept") = {} /\ WithFate("hold") # {}
               THEN LastOfWork.id + 1 ELSE skip
    /\ UNCHANGED window

\* update_match_drain opens a match window: the rotation starts over.
DrainStarts ==
    /\ skip # 0
    /\ skip' = 0
    /\ UNCHANGED <<pending, window>>

\* The clock enters or leaves the XUNI submit window.
WindowMoves ==
    /\ window' = ~window
    /\ UNCHANGED <<pending, skip>>

Next == FlushWave \/ DrainStarts \/ WindowMoves

Spec == Init /\ [][Next]_vars

\* The worker flushes every few seconds at most and the XUNI window lasts ten
\* minutes of every hour: waves come, inside the window too.
FairSpec == Spec /\ WF_vars(FlushWave) /\ SF_vars(FlushWave /\ window) /\ WF_vars(WindowMoves)

-----------------------------------------------------------------------------
(* Properties                                                              *)

Eligible == {r \in pending : Takes(r)}

\* How many of the eligible rows a batch or a wave is to have.
Wanted(limit) == IF limit > 0 /\ limit < Cardinality(Eligible)
                 THEN limit ELSE Cardinality(Eligible)

\* The rotation's order: from skip to the end of the queue, then from its start.
RotatesBefore(r, q) ==
    IF (r.id >= skip) = (q.id >= skip) THEN Older(r, q) ELSE r.id >= skip

\* list_flush_batch hands out as many rows as it can, all of them eligible, and
\* leaves none out for one the rotation comes to later.  (Before it filtered
\* first, "a tiny probe wave used to fill" with rows that could not go.)  A wave
\* sends as many of them as it can; they flush before what it fetched and leaves.
BatchIsRight ==
    /\ \A limit \in 0..N :
           LET batch == ListFlushBatch(limit)
           IN /\ batch \subseteq Eligible /\ Cardinality(batch) = Wanted(limit)
              /\ \A r \in batch, q \in Eligible \ batch : RotatesBefore(r, q)
    /\ Work \subseteq ListFlushBatch(Wave * 2) /\ Cardinality(Work) = Wanted(Wave)
    /\ \A r \in Work, q \in ListFlushBatch(Wave * 2) \ Work : FlushesBefore(r, q)

\* Every block the pool would take is submitted in the end, whatever it thinks
\* of the others: "do not freeze the bag" (supervisor.cpp:1155-1156).
GoodRowsLeave ==
    \A id \in 1..N :
        []((\E r \in pending : r.id = id /\ r.match /\ r.fate = "accept")
           => <>(\A r \in pending : r.id # id))
=============================================================================
