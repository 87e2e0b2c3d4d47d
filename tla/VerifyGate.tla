----------------------------- MODULE VerifyGate -----------------------------
(***************************************************************************)
(* When the submit worker may POST to /verify (src/src/app/supervisor.cpp):*)
(* GET /difficulty gives the m=, and while it fails a probe of /verify     *)
(* says for a while whether that is up; failures put submits off, a        *)
(* change of m= does in classic mode.  Time goes by in seconds, of which   *)
(* the worker has many turns in each.                                      *)
(***************************************************************************)
EXTENDS Integers

CONSTANTS ProbeTtl,    \* kVerifyProbeTtlS
          WavePause,   \* after a wave nothing of which was accepted
          ShortPause,  \* after a lost live submit, at the bag's m= or limited by the pool
          LongPause,   \* after any other (15 s or more)
          DeferPause   \* after a change of m= in classic mode

Parameters == {ProbeTtl, WavePause, ShortPause, LongPause, DeferPause} \subseteq Nat

VARIABLES hybrid,   \* force_mine_mode(); frozen
          verify,   \* external: the status /verify answers with, 0 for none
          matches,  \* the last-good m= is the bag's: oracle_says_m(bag_target_m())
          draining, \* match_drain_active_
          net_ok,   \* network_ok_
          alive, probe_age,  \* verify_alive_, and the age of verify_probe_at_
          backoff,  \* what is left until submit_backoff_until_
          defer,    \* ... until defer_submit_until_
          turned,   \* the worker has had a turn in this second
          frozen    \* history: seconds without a POST of the matching bag to a live /verify

gate == <<net_ok, alive, probe_age, backoff, defer>>
vars == <<hybrid, verify, matches, draining, gate, turned, frozen>>

A == INSTANCE Answers

Up == A!ProbeAnswered(verify)

Longest(a, b) == IF a > b THEN a ELSE b

\* run(): the first poll has failed, the fallback is the last-good m=.
Init == /\ hybrid \in BOOLEAN /\ verify \in {0, 400, 503}
        /\ matches \in BOOLEAN /\ (~hybrid => matches) /\ draining = FALSE
        /\ net_ok = FALSE /\ alive = TRUE /\ probe_age = ProbeTtl
        /\ backoff = 0 /\ defer = 0 /\ turned = FALSE /\ frozen = 0

-----------------------------------------------------------------------------
(* Gates                                                                   *)

SaidDead == probe_age < ProbeTtl /\ ~alive

\* live_submit_allowed and flush_submit_allowed, with a last-good m=
LiveAllowed  == backoff = 0 /\ (hybrid \/ defer = 0) /\ (net_ok \/ ~SaidDead)
FlushAllowed == (draining \/ backoff = 0) /\ (hybrid \/ defer = 0) /\ (net_ok \/ ~SaidDead)

\* Mutant of VerifyReady: what the first probe said stands.
VerifyReadyOnce(ready) ==
    IF net_ok \/ probe_age < ProbeTtl \/ ~alive
    THEN ready = (net_ok \/ alive) /\ UNCHANGED <<alive, probe_age>>
    ELSE ready = Up /\ alive' = Up /\ probe_age' = 0

\* verify_ready_to_push: a live GET, a fresh probe, or a new one.
VerifyReady(ready) ==
    IF net_ok \/ probe_age < ProbeTtl
    THEN ready = (net_ok \/ alive) /\ UNCHANGED <<alive, probe_age>>
    ELSE ready = Up /\ alive' = Up /\ probe_age' = 0

-----------------------------------------------------------------------------
(* The submit worker                                                       *)

\* The first accepted POST clears the pause and says the network is up.
Accepted == net_ok' = TRUE /\ backoff' = 0

\* note_submit_transport_failure, by the status of the POST that failed: one that
\* limits the rate is held before it gets here.
TransportFailure(status) ==
    LET spared == (hybrid /\ matches) \/ status \in {401, 403, 429} \/ draining
    IN /\ net_ok' = (net_ok /\ spared)
       /\ backoff' = IF draining THEN 0 ELSE IF spared THEN ShortPause ELSE LongPause

\* process_live_submit of a hit at the bag's m=, as far as the gates go: bagged,
\* held by the pool, accepted, or lost on the way.
LiveSubmit ==
    /\ matches /\ ~draining /\ LiveAllowed
    /\ \E ready \in BOOLEAN :
           /\ VerifyReady(ready)
           /\ \/ UNCHANGED <<net_ok, backoff>>
              \/ ready /\ Up /\ Accepted
              \/ ready /\ \E status \in {0, 500} : TransportFailure(status)
    /\ UNCHANGED <<hybrid, verify, matches, draining, defer, turned, frozen>>

\* try_flush_pending, called from service_pending_queue: a match overrides the
\* backoff, and is what finds rows to POST; what the wave comes to sets a pause
\* only without one.
FlushTurn ==
    /\ turned' = TRUE
    /\ \E ready \in BOOLEAN :
           /\ VerifyReady(ready)
           /\ IF ready /\ (draining \/ matches \/ FlushAllowed) /\ (hybrid \/ defer = 0)
              THEN /\ frozen' = IF matches THEN 0 ELSE frozen
                   /\ \/ Up /\ Accepted
                      \/ UNCHANGED net_ok
                         /\ backoff' \in (IF draining \/ matches THEN {backoff} ELSE {backoff, WavePause})
              ELSE UNCHANGED <<net_ok, backoff, frozen>>
    /\ UNCHANGED <<hybrid, verify, matches, draining, defer>>

-----------------------------------------------------------------------------
(* What else moves the gates                                               *)

\* refresh_network, on either thread: a new poll is folded in.  A changed m= puts
\* submits off, and may be the bag's or not; in classic mode the bag follows it.
PollFolded ==
    /\ \/ net_ok' = TRUE /\ backoff' = 0 /\ UNCHANGED <<matches, defer, frozen>>
       \/ /\ net_ok' = TRUE /\ backoff' = 0 /\ defer' = DeferPause /\ frozen' = 0
          /\ matches' \in (IF hybrid THEN {FALSE, ~matches} ELSE {TRUE})
       \/ net_ok' = FALSE /\ UNCHANGED <<matches, backoff, defer, frozen>>
    /\ UNCHANGED <<hybrid, verify, draining, alive, probe_age, turned>>

\* update_match_drain, hybrid mode only: NetworkGate says when.
DrainMoves ==
    /\ hybrid /\ draining' = ~draining
    /\ UNCHANGED <<hybrid, verify, matches, gate, turned, frozen>>

\* External: /verify comes and goes.
VerifyMoves ==
    /\ verify' \in {0, 400, 503} \ {verify}
    /\ frozen' = 0
    /\ UNCHANGED <<hybrid, matches, draining, gate, turned>>

Fewer(n) == IF n > 0 THEN n - 1 ELSE 0

\* A second passes, in which the worker has had a turn.
Second ==
    /\ turned /\ turned' = FALSE
    /\ probe_age' = IF probe_age < ProbeTtl THEN probe_age + 1 ELSE ProbeTtl
    /\ backoff' = Fewer(backoff) /\ defer' = Fewer(defer)
    /\ frozen' = IF Up /\ matches THEN frozen + 1 ELSE 0
    /\ UNCHANGED <<hybrid, verify, matches, draining, net_ok, alive>>

Next == LiveSubmit \/ FlushTurn \/ PollFolded \/ DrainMoves \/ VerifyMoves \/ Second

Spec == Init /\ [][Next]_vars

-----------------------------------------------------------------------------
(* Properties                                                              *)

\* "GET /difficulty DOWN/STALE must not freeze POST /verify unless the /verify
\* probe just said the worker is down" (supervisor.cpp:216): a bag at the
\* network's m= is POSTed as soon as a probe that failed before /verify came back
\* is forgotten, and the pause after a change of m= is over; no backoff, failed
\* poll or accepted block in between freezes it for longer.
FlushNotFrozen == frozen <= Longest(1, Longest(ProbeTtl, DeferPause))
=============================================================================
