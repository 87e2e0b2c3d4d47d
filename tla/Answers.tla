------------------------------- MODULE Answers -------------------------------
(***************************************************************************)
(* What the miner makes of an answer to POST /verify                       *)
(* (src/src/network/submitter.cpp).  An answer is an HTTP status, 0 when   *)
(* none came, and the phrases the tests look for in its body, whatever     *)
(* their case; a body with none of them says "other", a blank one nothing. *)
(*                                                                         *)
(* The tests overlap, so a class depends on their order, and the live path *)
(* and the flush of src/src/app/supervisor.cpp ask in different orders.    *)
(***************************************************************************)
EXTENDS Naturals, FiniteSetsExt

\* "time window" stands for the four spellings of that reject, "connection" for
\* the three of a transport failure.
Phrase == {"already exists", "does not contain", "m=", "memory_cost",
           "hash verification failed", "time window", "connection", "other"}

\* One status of each range and each that a test names.
Statuses == {0, 200, 400, 401, 403, 429, 500}

\* Submitter::submit: an answer without a body says what the transport says,
\* which without an answer is all there is.
Submitted(status, body, error) ==
    LET told == IF body = {} THEN error ELSE body
    IN [status |-> status, ok |-> status \in 200..299 \/ "already exists" \in told, says |-> told]

Response == {Submitted(0, {}, error) : error \in {{"connection"}, {"other"}}}
            \cup {Submitted(status, body, {}) : status \in Statuses \ {0}, body \in SUBSET Phrase}

-----------------------------------------------------------------------------
(* The tests                                                               *)

SubmitAccepted(r) == r.ok

IsDifficultyMismatch(r) == /\ r.status # 0
                           /\ "does not contain" \in r.says
                           /\ r.says \cap {"m=", "memory_cost"} # {}

\* An empty 401 or 429: the pool sheds load.
IsPoolShed(r) == ~IsDifficultyMismatch(r) /\ r.status \in {401, 429} /\ r.says = {}

IsXuniWindowReject(r) == r.status # 0 /\ "time window" \in r.says

IsTransient(r) == r.status = 0 \/ "connection" \in r.says

IsPoolHold(r) == /\ ~IsDifficultyMismatch(r)
                 /\ r.status \in {401, 403, 429} \/ "hash verification failed" \in r.says

CountsAsReject(r) == /\ ~SubmitAccepted(r) /\ ~IsDifficultyMismatch(r)
                     /\ ~IsXuniWindowReject(r) /\ ~IsTransient(r) /\ ~IsPoolHold(r)

-----------------------------------------------------------------------------
(* What the two callers do with an answer                                  *)

Is(class, r) == CASE class = "ok"        -> SubmitAccepted(r)
                  [] class = "wrong_m"   -> IsDifficultyMismatch(r)
                  [] class = "hold"      -> IsPoolHold(r)
                  [] class = "transient" -> IsTransient(r)
                  [] class = "xuni"      -> IsXuniWindowReject(r)

\* The first test in an order that an answer passes.
FirstOf(order, r) == LET passed == {i \in DOMAIN order : Is(order[i], r)}
                     IN IF passed = {} THEN "reject" ELSE order[Min(passed)]

\* process_live_submit
LiveClass(r) == FirstOf(<<"ok", "wrong_m", "hold", "transient", "xuni">>, r)

\* handle_one: what it holds it counts, all alike.
FlushClass(r) == LET class == FirstOf(<<"ok", "transient", "hold", "wrong_m", "xuni">>, r)
                 IN IF class \in {"hold", "wrong_m", "xuni"} THEN "hold" ELSE class

LiveClasses  == {LiveClass(r) : r \in Response}
FlushClasses == {FlushClass(r) : r \in Response}

\* In whatever order the tests are asked, the hits that are re-queued as
\* "resubmission" are those that count as rejects, and what is shed is held.
ASSUME OrdersAgree == \A r \in Response :
    /\ (LiveClass(r) = "reject") <=> CountsAsReject(r)
    /\ (FlushClass(r) = "reject") <=> CountsAsReject(r)
    /\ IsPoolShed(r) => FlushClass(r) \in {"ok", "hold"}

\* Submitter::probe: anything but silence and a gateway's refusal is life.
ProbeAnswered(status) == status > 0 /\ status \notin {502, 503, 504}
=============================================================================
