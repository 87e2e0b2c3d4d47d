----------------------------- MODULE LaneStream -----------------------------
(***************************************************************************)
(* What the streaming lanes promise the thread that mines, with nothing of *)
(* the mutex, the two condition variables and the worker threads: each     *)
(* lane is a bounded queue of results for the request it was last given.   *)
(* A new request empties the queue; after it, a lane owes at most two      *)
(* results of older requests, and once it has delivered or lost those,     *)
(* every result is for the request it has.  The queues are read in rounds: *)
(* a round begins when every lane has a result, takes the oldest of each,  *)
(* lane after lane, and is given up where that is a failed one; while it   *)
(* lasts no request changes and no queue is emptied.                       *)
(***************************************************************************)
EXTENDS Naturals, Sequences

CONSTANTS Lanes,    \* how many lanes there are
          Ring,     \* results a queue holds
          Proto,    \* requests
          NoProto,  \* no request, or no match
          Error     \* a failed result

VARIABLES request,  \* lane -> its request
          queue,    \* lane -> its results, the oldest first
          owed,     \* lane -> results of older requests still to come
          round     \* lanes the running round has still to read

stream == <<request, queue, owed, round>>

Lane == 1 .. Lanes

Init == /\ request = [l \in Lane |-> NoProto] /\ queue = [l \in Lane |-> <<>>]
        /\ owed = [l \in Lane |-> 0] /\ round = {}

Stale(l, result) == result \notin {request[l], NoProto, Error}

\* A result goes to the end of a queue that has room for it: a stale one pays
\* what the lane owes, a failed one may take some of it along.
Deliver(l, result) ==
    /\ Len(queue[l]) < Ring
    /\ queue' = [queue EXCEPT ![l] = Append(@, result)]
    /\ IF Stale(l, result) THEN owed[l] > 0 /\ owed' = [owed EXCEPT ![l] = @ - 1]
       ELSE IF result = Error THEN \E k \in 0..owed[l] : owed' = [owed EXCEPT ![l] = k]
       ELSE UNCHANGED owed
    /\ UNCHANGED <<request, round>>

\* Every lane is to hash p; those that do not do so yet start over.
Ask(p) ==
    /\ round = {}
    /\ request' = [l \in Lane |-> p]
    /\ queue' = [l \in Lane |-> IF request[l] = p THEN queue[l] ELSE <<>>]
    /\ owed' \in [Lane -> 0..2]
    /\ \A l \in Lane : request[l] = p => owed'[l] = owed[l]
    /\ UNCHANGED round

BeginRound ==
    /\ round = {} /\ \A l \in Lane : queue[l] # <<>>
    /\ round' = Lane
    /\ UNCHANGED <<request, queue, owed>>

NextToRead(l) == l \in round /\ \A k \in round : l <= k

Read(l) ==
    /\ NextToRead(l) /\ queue[l] # <<>> /\ Head(queue[l]) # Error
    /\ queue' = [queue EXCEPT ![l] = Tail(@)] /\ round' = round \ {l}
    /\ UNCHANGED <<request, owed>>

GiveUp(l) ==
    /\ NextToRead(l) /\ queue[l] # <<>> /\ Head(queue[l]) = Error
    /\ round' = {}
    /\ UNCHANGED <<request, queue, owed>>

\* Results still to come are taken out past the queue, or lost with their lanes.
Settle ==
    /\ round = {}
    /\ owed' \in [Lane -> 0..2] /\ \A l \in Lane : owed'[l] <= owed[l]
    /\ UNCHANGED <<request, queue, round>>

\* The lanes are new.
Renew == round = {} /\ request' = [l \in Lane |-> NoProto] /\ queue' = [l \in Lane |-> <<>>]
         /\ owed' = [l \in Lane |-> 0] /\ UNCHANGED round

Next == \/ \E l \in Lane : \/ Read(l) \/ GiveUp(l)
                           \/ \E result \in Proto \cup {NoProto, Error} : Deliver(l, result)
        \/ \E p \in Proto : Ask(p)
        \/ BeginRound \/ Settle \/ Renew

Spec == Init /\ [][Next]_stream
=============================================================================
