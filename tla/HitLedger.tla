------------------------------ MODULE HitLedger ------------------------------
(***************************************************************************)
(* What the supervisor promises for every block the engine finds, with     *)
(* nothing of its threads, queues and flags: a block is in RAM, on disk,   *)
(* accepted or dropped, and moves between these one way only.  A block on  *)
(* disk never goes back to RAM; one that is accepted is never POSTed       *)
(* again; one is dropped only where the settings say so, and never once it *)
(* is on disk; a row leaves the disk only when its block is accepted, or   *)
(* when it cannot be assembled.  The end of the process finds nothing in   *)
(* RAM, unless a console handler runs on a thread main does not wait for.  *)
(*                                                                         *)
(* The pool's record and the answer the miner gets are two things: a block *)
(* can be recorded without the miner knowing, never the other way round.   *)
(***************************************************************************)
EXTENDS Naturals

CONSTANTS Hash,     \* digests of blocks
          Backlog,  \* those on disk when the process starts
          Broken    \* those of them that cannot be assembled for a POST

VARIABLES keeps,     \* does it keep what it cannot submit?  It does not move
          detached,  \* is there a thread main does not wait for?  It does not move
          alive,     \* does the process run?
          held,      \* blocks in RAM only
          queued,    \* blocks on disk
          accepted,  \* blocks whose POST was answered "ok"
          dropped,   \* blocks the settings say not to keep
          pool       \* blocks the pool has recorded

ledger == <<keeps, detached, alive, held, queued, accepted, dropped, pool>>

Known == Backlog \cup held \cup queued \cup accepted \cup dropped

Init == /\ keeps \in BOOLEAN /\ detached \in BOOLEAN /\ alive = TRUE
        /\ held = {} /\ queued = Backlog /\ accepted = {} /\ dropped = {} /\ pool = {}

\* The engine hands over a block: to RAM, straight to disk, or to nowhere.
Find(h) ==
    /\ h \notin Known
    /\ \/ held' = held \cup {h} /\ UNCHANGED <<queued, dropped>>
       \/ queued' = queued \cup {h} /\ UNCHANGED <<held, dropped>>
       \/ ~keeps /\ dropped' = dropped \cup {h} /\ UNCHANGED <<held, queued>>
    /\ UNCHANGED <<alive, accepted, pool>>

\* Blocks go to disk, or are given up where the settings say so.
PutAway(S) ==
    /\ held' = held \ S
    /\ \/ queued' = queued \cup S /\ UNCHANGED dropped
       \/ ~keeps /\ dropped' = dropped \cup S /\ UNCHANGED queued
    /\ UNCHANGED <<alive, accepted, pool>>

\* A POST from RAM: accepted, or put on disk, whatever the pool has recorded.
PostHeld(h) ==
    /\ held' = held \ {h}
    /\ \/ accepted' = accepted \cup {h} /\ pool' = pool \cup {h} /\ UNCHANGED queued
       \/ queued' = queued \cup {h} /\ pool' \in {pool, pool \cup {h}} /\ UNCHANGED accepted
    /\ UNCHANGED <<alive, dropped>>

\* A POST from disk, of a block not accepted yet: the row stays where it is.
PostQueued(h) ==
    /\ h \notin accepted \cup Broken
    /\ \/ accepted' = accepted \cup {h} /\ pool' = pool \cup {h}
       \/ pool' = pool \cup {h} /\ UNCHANGED accepted
    /\ UNCHANGED <<alive, held, queued, dropped>>

\* Rows leave the disk: accepted ones, or such that cannot be assembled.
Erase(S) ==
    /\ queued' = queued \ S
    /\ UNCHANGED <<alive, held, accepted, dropped, pool>>

\* The process is over.
End ==
    /\ held = {} \/ detached
    /\ alive' = FALSE
    /\ UNCHANGED <<held, queued, accepted, dropped, pool>>

Next == /\ alive /\ UNCHANGED <<keeps, detached>>
        /\ \/ \E h \in Hash : Find(h)
           \/ \E h \in held : PostHeld(h)
           \/ \E h \in queued : PostQueued(h)
           \/ \E S \in SUBSET held : PutAway(S)
           \/ \E S \in SUBSET (queued \cap accepted) : Erase(S)
           \/ \E S \in SUBSET (queued \cap Broken) : Erase(S)
           \/ End

Spec == Init /\ [][Next]_ledger
=============================================================================
