---------------------------- MODULE FinalityFeed ----------------------------
(***************************************************************************)
(* What a FinalitySubscription promises its owner, independently of the    *)
(* goroutines, locks and bounded channels of contract/monitor.go: the      *)
(* monitor publishes one sequence of blocks; a subscription reads that     *)
(* sequence from the moment it is made, in order and without a gap, until  *)
(* the monitor detaches it.  What was published before the detachment can  *)
(* still be taken afterwards; nothing published later ever is.             *)
(***************************************************************************)
EXTENDS Naturals, Sequences

CONSTANTS Subs,     \* the subscriptions ever made
          Blocks,   \* the blocks the monitor may publish
          NotYet,   \* "first" of a subscription that has not been made
          Unlimited \* "limit" of a subscription that is still attached

VARIABLES log,    \* everything published so far
          first,  \* how much of the log precedes the subscription
          limit,  \* how much of the log the subscription may read
          got     \* what its owner has taken

feedVars == <<log, first, limit, got>>

Init == /\ log = <<>>
        /\ first = [s \in Subs |-> NotYet]
        /\ limit = [s \in Subs |-> Unlimited]
        /\ got = [s \in Subs |-> <<>>]

Attached == {s \in Subs : first[s] # NotYet /\ limit[s] = Unlimited}

Attach(s) == /\ first[s] = NotYet
             /\ first' = [first EXCEPT ![s] = Len(log)]
             /\ UNCHANGED <<log, limit, got>>

Detach(D) == limit' = [s \in Subs |-> IF s \in D THEN Len(log) ELSE limit[s]]

\* Publishing may detach any subscriptions; these do not get the block.
Publish(b) == /\ log' = Append(log, b)
              /\ \E slow \in SUBSET Attached : Detach(slow)
              /\ UNCHANGED <<first, got>>

Close == /\ \E D \in SUBSET Attached : Detach(D)
         /\ UNCHANGED <<log, first, got>>

Take(s) == /\ first[s] # NotYet
           /\ LET n == first[s] + Len(got[s]) + 1 IN
                /\ n <= Len(log)
                /\ limit[s] # Unlimited => n <= limit[s]
                /\ got' = [got EXCEPT ![s] = Append(@, log[n])]
           /\ UNCHANGED <<log, first, limit>>

Next == \/ \E s \in Subs : Attach(s) \/ Take(s)
        \/ \E b \in Blocks : Publish(b)
        \/ Close

Spec == Init /\ [][Next]_feedVars
=============================================================================
