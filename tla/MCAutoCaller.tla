---------------------------- MODULE MCAutoCaller ----------------------------
(***************************************************************************)
(* AutoCaller for model checking.                                          *)
(***************************************************************************)
EXTENDS AutoCaller, TLC

\* Requests and goroutines are interchangeable.
Symmetry == Permutations(Reqs) \cup Permutations(Sns) \cup Permutations(Results) \cup Permutations(Monitors)

Load(reqs, faults, subscription, finalized) ==
  [reqs |-> reqs, faults |-> faults, subscription |-> subscription, finalized |-> finalized]

\* Two requests of different tasks, on polled streams that break off while nothing gets
\* final, and on a chain that gets final without; each by itself with both; and with both
\* by a subscription.
CrashLoads == {Load(Reqs \cup Sns, {"conn"}, FALSE, 0), Load(Reqs \cup Sns, {}, FALSE, 1),
               Load(Reqs, {"conn"}, FALSE, 1), Load(Sns, {"conn"}, FALSE, 1),
               Load(Reqs \cup Sns, {"conn"}, TRUE, 1)}

\* The call task on a chain with replaced blocks, of which the node may still know, with
\* failing requests or saves; and the rollback task.
ReorgLoads == {Load(Reqs, {"reorg", "orphans", "rpc"}, FALSE, 2),
               Load(Reqs, {"reorg", "save"}, FALSE, 1),
               Load(Sns, {"reorg"}, FALSE, 1)}

\* A single request of either task by either kind of stream, and two calls by polling,
\* of which nothing gets final.
LiveLoads == {Load(Reqs, {}, FALSE, 0)}
             \cup {Load({r}, {}, subscription, 1) :
                      r \in {CHOOSE q \in Reqs : TRUE} \cup Sns, subscription \in BOOLEAN}

\* One request, and nothing fails.
OneLoad == {Load(Reqs, {}, FALSE, 0)}
=============================================================================
