------------------------------ MODULE LossyBag ------------------------------
(***************************************************************************)
(* What the disk-backed queue of found blocks promises to its callers,     *)
(* with nothing of how it does so: a bag of digests that lives as long as  *)
(* the process and, less what was at risk, from one process to the next.   *)
(* Every operation since the last save may put one more digest at risk,    *)
(* there are never more of them than MaxLoss, and a death forgets no more  *)
(* than that.  Nothing enters the bag but by a Put of a living process:    *)
(* neither a death nor a restart brings anything back.                     *)
(***************************************************************************)
EXTENDS Naturals, FiniteSets

CONSTANTS Hash,     \* digests of found blocks
          MaxLoss   \* a number: the operations after which a save is due

VARIABLES up,      \* does a process have the bag open?
          bag,     \* the digests in it, or those the next process will find
          asked,   \* the digests its caller is taking out
          risk     \* operations since the last save

bagVars == <<up, bag, asked, risk>>

Init == up = FALSE /\ bag = {} /\ asked = {} /\ risk = 0

\* A process opens the bag: it is what the one before has left.
Open == /\ ~up /\ up' = TRUE
        /\ UNCHANGED <<bag, asked, risk>>

\* BlockStore::enqueue of a digest that is not in the queue.
Put(h) == /\ up /\ asked = {} /\ h \notin bag /\ risk < MaxLoss
          /\ bag' = bag \cup {h}
          /\ risk' = risk + 1
          /\ UNCHANGED <<up, asked>>

\* BlockStore::mark_submitted_many, drop_by_hash and, with nothing to take out,
\* the operations that change a row's fields.
Ask(S) == /\ up /\ asked = {} /\ S \subseteq bag
          /\ asked' = S
          /\ risk' \in {risk, risk + 1} /\ risk' <= MaxLoss
          /\ UNCHANGED <<up, bag>>

\* The bag is saved: what was to be taken out has left for good.
Save == /\ up
        /\ bag' = bag \ asked
        /\ asked' = {} /\ risk' = 0
        /\ UNCHANGED up

\* The process ends, orderly or not.
Die == /\ up /\ up' = FALSE
       /\ \E lost \in SUBSET bag : /\ Cardinality(lost) <= risk
                                   /\ bag' = bag \ lost
       /\ asked' = {} /\ risk' = 0

Next == \/ Open
        \/ \E h \in Hash : Put(h)
        \/ \E S \in SUBSET Hash : Ask(S)
        \/ Save
        \/ Die

Spec == Init /\ [][Next]_bagVars
=============================================================================
