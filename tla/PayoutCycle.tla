----------------------------- MODULE PayoutCycle -----------------------------
(***************************************************************************)
(* Whose wallet the GPU hashes for (src/src/mining/cuda_engine.cpp): the   *)
(* wallet is chosen before a batch, stamped on its hits, and the hits are  *)
(* counted after it; 100 - DevFeePct finds for the user are followed by    *)
(* DevFeePct for the fee wallet.  The hits taken out of the pipeline       *)
(* before a park or a shutdown carry the wallet chosen last, and are       *)
(* counted for the one that is chosen next.                                *)
(*                                                                         *)
(* Results that a kick has made stale are LaneRing's: here a hit carries   *)
(* the wallet it was hashed for.                                           *)
(***************************************************************************)
EXTENDS Naturals

CONSTANTS DevFeePct,  \* kDevFeePct
          MaxHits     \* bound: hits of one batch, or of one drain

\* Both wallets have a share.
Parameters == DevFeePct \in 1..99 /\ MaxHits \in Nat

VARIABLES fee_on,      \* dev_fee, and the user's wallet is not the fee wallet; frozen
          mining_fee,  \* mining_fee_
          payout,      \* active_payout_: "user" or "fee"
          user_finds,  \* user_finds_in_cycle_
          fee_finds,   \* fee_finds_in_cycle_
          cycle,       \* history: finds stamped with each wallet since the last fee
                       \* turn ended, and whether one was counted for the other
          ended        \* history: what cycle was, from then to the next find

counts == <<mining_fee, user_finds, fee_finds, cycle, ended>>
vars   == <<fee_on, payout, counts>>

NewCycle == [user |-> 0, fee |-> 0, astray |-> FALSE]

Init == /\ fee_on \in BOOLEAN
        /\ mining_fee = FALSE /\ payout = "user"
        /\ user_finds = 0 /\ fee_finds = 0
        /\ cycle = NewCycle /\ ended = NewCycle

\* select_payout_salt
Selected == IF fee_on /\ mining_fee THEN "fee" ELSE "user"

\* The history with n more finds for wallet p; one that has gone astray is that.
Booked(n, p) ==
    IF cycle.astray \/ (mining_fee # (p = "fee"))
    THEN [NewCycle EXCEPT !.astray = TRUE] ELSE [cycle EXCEPT ![p] = @ + n]

UserTurn(n, p) ==
    /\ ~mining_fee
    /\ user_finds' = user_finds + n
    /\ mining_fee' = (user_finds' >= 100 - DevFeePct)
    /\ cycle' = Booked(n, p) /\ ended' = NewCycle
    /\ UNCHANGED fee_finds

\* Mutant of FeeTurn: the user's count goes on into the next cycle.
FeeTurnKeepsUser(n, p) ==
    /\ mining_fee
    /\ mining_fee' = (fee_finds + n < DevFeePct)
    /\ IF mining_fee'
       THEN /\ fee_finds' = fee_finds + n /\ cycle' = Booked(n, p) /\ ended' = NewCycle
       ELSE /\ fee_finds' = 0 /\ cycle' = NewCycle /\ ended' = Booked(n, p)
    /\ UNCHANGED user_finds

FeeTurn(n, p) ==
    /\ mining_fee
    /\ mining_fee' = (fee_finds + n < DevFeePct)
    /\ IF mining_fee'
       THEN /\ fee_finds' = fee_finds + n /\ UNCHANGED user_finds
            /\ cycle' = Booked(n, p) /\ ended' = NewCycle
       ELSE /\ fee_finds' = 0 /\ user_finds' = 0
            /\ cycle' = NewCycle /\ ended' = Booked(n, p)

\* stamp_and_count_hits: n hits that carry wallet p.
StampAndCountHits(n, p) == \/ n = 0 /\ UNCHANGED counts
                           \/ n > 0 /\ UserTurn(n, p)
                           \/ n > 0 /\ FeeTurn(n, p)

\* mine_batch, as far as the wallet goes.  What is counted without a fee wallet
\* is never looked at.
MineBatch(n) ==
    /\ payout' = Selected
    /\ IF fee_on THEN StampAndCountHits(n, Selected) ELSE UNCHANGED counts
    /\ UNCHANGED fee_on

\* drain_pipeline
DrainPipeline(n) ==
    /\ IF fee_on THEN StampAndCountHits(n, payout) ELSE UNCHANGED counts
    /\ UNCHANGED <<fee_on, payout>>

Next == \E n \in 0..MaxHits : MineBatch(n) \/ DrainPipeline(n)

Spec == Init /\ [][Next]_vars

-----------------------------------------------------------------------------
(* Properties                                                              *)

InShare(finds, least) == least <= finds /\ finds < least + MaxHits

\* "99 user / 1 fee" (supervisor.cpp:1504): every cycle pays each wallet its
\* share and at most what its last batch finds beyond it, and no cycle drags on;
\* except one in which a drain came between the end of a turn and the next
\* choice: its hits are stamped for one wallet and counted for the other.
FeeShare ==
    /\ ended # NewCycle /\ ~ended.astray =>
           InShare(ended.user, 100 - DevFeePct) /\ InShare(ended.fee, DevFeePct)
    /\ ~cycle.astray => cycle.user < 100 - DevFeePct + MaxHits /\ cycle.fee < DevFeePct
=============================================================================
