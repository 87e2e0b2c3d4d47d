---------------------------- MODULE WalletPoller ----------------------------
(***************************************************************************)
(* The holdings thread (src/src/monitoring/wallet.cpp): it fetches the     *)
(* balances every Idle seconds, or at once when an accepted block forces   *)
(* it, but never less than Floor seconds after its last attempt.           *)
(* maybe_refresh sets force_ and notifies without the mutex, so a wake-up  *)
(* can fall between the thread's look at force_ and its sleep.             *)
(*                                                                         *)
(* Time is counted in ticks and passes while the thread sleeps, fetches or *)
(* spins: inside the floor force_ is set again, the wait's predicate is    *)
(* true at once, and the loop turns without sleeping.  Of a fetch only its *)
(* time matters: leaderboard, then two RPC endpoints, whatever comes out.  *)
(***************************************************************************)
EXTENDS Naturals

CONSTANTS Floor,     \* kWalletForceMinIntervalS
          Idle,      \* kWalletIdleIntervalS
          MaxWait,   \* the 5 s a wait is capped at
          MaxFetch   \* bound: ticks of a fetch, its timeouts together

\* 8, 25 and 5 seconds in the code.
Parameters == /\ Floor \in Nat \ {0} /\ Idle \in Nat /\ MaxWait \in Nat /\ MaxFetch \in Nat
              /\ Floor <= Idle /\ MaxWait <= Floor

VARIABLES wrunning,  \* running_
          force,     \* force_
          notifying, \* is a caller between setting a flag and its notify?
          since,     \* time since last_attempt_, up to Idle (also: never)
          tpc,       \* where the thread is: see ThreadPC
          forced,    \* what this turn took out of force_
          timer,     \* ticks left of its sleep or fetch
          asked,     \* history: is a request waiting for a fetch to begin?
          age        \* history: for how long

thread == <<since, tpc, forced, timer>>
vars   == <<wrunning, force, notifying, thread, asked, age>>

\* "dozing" is between a look at the predicate and the sleep.
ThreadPC == {"top", "decide", "fetch", "wait", "spun", "dozing", "asleep", "left"}

Init == /\ wrunning = TRUE /\ force = FALSE /\ notifying = FALSE
        /\ since = Idle /\ tpc = "top" /\ forced = FALSE /\ timer = 0
        /\ asked = FALSE /\ age = 0

-----------------------------------------------------------------------------
(* maybe_refresh(true) and stop(), from other threads                      *)

ForceRefresh ==
    /\ wrunning /\ ~notifying
    /\ force' = TRUE /\ notifying' = TRUE
    /\ asked' = TRUE /\ age' = IF asked THEN age ELSE 0
    /\ UNCHANGED <<wrunning, thread>>

StopPoller ==
    /\ wrunning /\ ~notifying
    /\ wrunning' = FALSE /\ notifying' = TRUE
    /\ UNCHANGED <<force, thread, asked, age>>

NotifyThread ==
    /\ notifying
    /\ notifying' = FALSE
    /\ tpc' = IF tpc = "asleep" THEN "top" ELSE tpc
    /\ UNCHANGED <<wrunning, force, since, forced, timer, asked, age>>

-----------------------------------------------------------------------------
(* loop                                                                    *)

\* A turn: force_.exchange(false), or the end.
TakeForce ==
    /\ tpc = "top"
    /\ IF wrunning THEN forced' = force /\ force' = FALSE /\ tpc' = "decide"
                   ELSE tpc' = "left" /\ UNCHANGED <<force, forced>>
    /\ UNCHANGED <<wrunning, notifying, since, timer, asked, age>>

Due == since >= (IF forced THEN Floor ELSE Idle)

BeginFetch(ticks) ==
    /\ tpc = "decide" /\ Due
    /\ since' = 0 /\ timer' = ticks /\ tpc' = "fetch"
    /\ asked' = FALSE /\ age' = 0
    /\ UNCHANGED <<wrunning, force, notifying, forced>>

\* fetch is back and applied: last_attempt_ is set once more.
EndFetch ==
    /\ tpc = "fetch" /\ timer = 0
    /\ since' = 0 /\ tpc' = "wait"
    /\ UNCHANGED <<wrunning, force, notifying, forced, timer, asked, age>>

\* Mutant of NotDue: the request taken out of force_ is not put back.
NotDueForgets ==
    /\ tpc = "decide" /\ ~Due
    /\ tpc' = "wait"
    /\ UNCHANGED <<wrunning, force, notifying, since, forced, timer, asked, age>>

\* Too early: a forced turn keeps the wake.
NotDue ==
    /\ tpc = "decide" /\ ~Due
    /\ force' = (force \/ forced) /\ tpc' = "wait"
    /\ UNCHANGED <<wrunning, notifying, since, forced, timer, asked, age>>

Remaining == IF since >= Idle THEN 0 ELSE Idle - since

\* wait_for: its predicate is looked at with the mutex held ...
LookAtForce ==
    /\ tpc = "wait"
    /\ IF force \/ ~wrunning
       THEN tpc' = "spun" /\ UNCHANGED timer
       ELSE /\ tpc' = "dozing"
            /\ timer' = IF Remaining < 1 THEN 1
                        ELSE IF Remaining < MaxWait THEN Remaining ELSE MaxWait
    /\ UNCHANGED <<wrunning, force, notifying, since, forced, asked, age>>

\* ... which does not keep a notify out before the sleep.
FallAsleep ==
    /\ tpc = "dozing"
    /\ tpc' = "asleep"
    /\ UNCHANGED <<wrunning, force, notifying, since, forced, timer, asked, age>>

WakeUp ==
    /\ tpc = "spun" \/ (tpc = "asleep" /\ timer = 0)
    /\ tpc' = "top"
    /\ UNCHANGED <<wrunning, force, notifying, since, forced, timer, asked, age>>

Tick ==
    /\ tpc = "spun" \/ (tpc \in {"fetch", "asleep"} /\ timer > 0)
    /\ since' = IF since < Idle THEN since + 1 ELSE since
    /\ age' = IF asked THEN age + 1 ELSE age
    /\ IF tpc = "spun" THEN tpc' = "top" /\ UNCHANGED timer
                       ELSE timer' = timer - 1 /\ UNCHANGED tpc
    /\ UNCHANGED <<wrunning, force, notifying, forced, asked>>

-----------------------------------------------------------------------------

Next == \/ ForceRefresh \/ StopPoller \/ NotifyThread
        \/ TakeForce \/ EndFetch \/ NotDue \/ LookAtForce \/ FallAsleep \/ WakeUp \/ Tick
        \/ \E ticks \in 0..MaxFetch : BeginFetch(ticks)

Spec == Init /\ [][Next]_vars

-----------------------------------------------------------------------------
(* Properties                                                              *)

\* A forced refresh begins its fetch as soon as the fetch before it and the
\* floor are over: no lost notify and no turn that comes too early leaves it to
\* the idle poll.
RefreshIsPrompt == asked /\ wrunning => age <= MaxFetch + Floor
=============================================================================
