----------------------------- MODULE ReportQueue -----------------------------
(***************************************************************************)
(* Reports to the explorer (src/src/monitoring/xenblockscan.cpp): pool     *)
(* threads, the submit worker and the mining thread queue them, a thread   *)
(* of its own POSTs one at a time, and a queue that has grown past its     *)
(* limit gives up its oldest.  A report is the number it was made under.   *)
(***************************************************************************)
EXTENDS Naturals, Sequences

CONSTANTS Limit,      \* entries beyond which the oldest goes (256)
          MaxReports  \* bound: reports made

Parameters == Limit \in Nat

VARIABLES enabled,    \* enabled_: xenblockscan_enabled and a wallet; frozen
          reporting,  \* running_, and whether the thread is still there
          made,       \* history: reports made so far
          rq,         \* q_
          posting,    \* the report being POSTed: empty or one
          posted,     \* history: the last one POSTed
          gone        \* history: the last one that was given up

vars == <<enabled, reporting, made, rq, posting, posted, gone>>

\* configure starts the thread.
Init == /\ enabled \in BOOLEAN
        /\ reporting = IF enabled THEN "on" ELSE "none"
        /\ made = 0 /\ rq = <<>> /\ posting = <<>> /\ posted = 0 /\ gone = 0

\* Mutant of Enqueue: a full queue turns the new report away.
EnqueueTurnsAway ==
    /\ enabled /\ made < MaxReports
    /\ made' = made + 1
    /\ IF Len(rq) > Limit
       THEN gone' = made' /\ UNCHANGED rq
       ELSE rq' = Append(rq, made') /\ UNCHANGED gone
    /\ UNCHANGED <<enabled, reporting, posting, posted>>

\* report_accepted, report_holdings, report_tracker: whoever makes one, and even
\* after the thread has gone.
Enqueue ==
    /\ enabled /\ made < MaxReports
    /\ made' = made + 1
    /\ IF Len(rq) > Limit
       THEN gone' = Head(rq) /\ rq' = Append(Tail(rq), made')
       ELSE rq' = Append(rq, made') /\ UNCHANGED gone
    /\ UNCHANGED <<enabled, reporting, posting, posted>>

\* One turn of the loop: an entry out of the queue, under the mutex.
Take ==
    /\ reporting = "on" /\ posting = <<>> /\ rq # <<>>
    /\ posting' = <<Head(rq)>> /\ rq' = Tail(rq)
    /\ UNCHANGED <<enabled, reporting, made, posted, gone>>

\* ... and the POST without it; whatever comes back, the report is not kept.
PostEnds ==
    /\ posting # <<>>
    /\ posted' = Head(posting) /\ posting' = <<>>
    /\ UNCHANGED <<enabled, reporting, made, rq, gone>>

\* stop: the flag, and the join once the thread is between two reports.
Stop ==
    /\ reporting = "on"
    /\ reporting' = "stopping"
    /\ UNCHANGED <<enabled, made, rq, posting, posted, gone>>

Joined ==
    /\ reporting = "stopping" /\ posting = <<>>
    /\ reporting' = "none"
    /\ UNCHANGED <<enabled, made, rq, posting, posted, gone>>

Next == Enqueue \/ Take \/ PostEnds \/ Stop \/ Joined

Spec == Init /\ [][Next]_vars

-----------------------------------------------------------------------------
(* Properties                                                              *)

Earlier == IF posting = <<>> THEN posted ELSE Head(posting)

\* The explorer hears of events in their order, each at most once, and what a
\* slow explorer misses is the oldest: the newest reports wait, none missing
\* among them, and only one that fell behind by a full queue was given up.
NewestWait ==
    /\ \A i \in DOMAIN rq : rq[i] = made - Len(rq) + i
    /\ Earlier <= made - Len(rq) /\ gone <= made - Len(rq)
    /\ posting # <<>> => posted < Head(posting)
    /\ gone # 0 => gone + Limit < made
=============================================================================
