------------------------------- MODULE Ledger -------------------------------
(***************************************************************************)
(* A network as the auto-caller sees it through a contract.Adaptor: the    *)
(* blocks of the canonical chain with the xcall contract's events, the     *)
(* pool of transactions, and the latest finalized height.  None of this is *)
(* code of the SDK; what is modelled is what the SDK's calls can observe.  *)
(*                                                                         *)
(* A request of Reqs stands for (network, reqId): the contract emits its   *)
(* CallMessage and may then be told to executeCall it.  One of Sns stands  *)
(* for (network, sn): the contract emits its CallMessageSent, then a       *)
(* ResponseMessage with the callee's outcome, and after a failure may be   *)
(* told to executeRollback it.  A transaction is a number and executes one *)
(* request, 0 is a transaction the SDK did not send.                       *)
(***************************************************************************)
EXTENDS Naturals, Sequences, FiniteSets

CONSTANTS
  Reqs,      \* requests the xcall contract may emit a CallMessage for
  Sns,       \* serial numbers it may emit a CallMessageSent for
  Loads,     \* bound: which of them occur together, with which faults, and how many
             \* blocks get finalized then
  BlockSizes,\* bound: how many items of interest a block may have (0, 1, 2)
  MaxHeight, \* bound: length of the chain
  MaxFork,   \* bound: how often the head of the chain is replaced
  MaxTx,     \* bound: transactions the SDK sends
  Losable    \* bound: those among them that may get lost

ASSUME LedgerAssumption ==
  /\ Reqs \cap Sns = {} /\ \A l \in Loads : l.reqs \subseteq Reqs \cup Sns /\ l.finalized \in Nat
  /\ BlockSizes \subseteq {0, 1, 2} /\ MaxHeight \in Nat /\ MaxTx \in Nat
  /\ MaxFork \in Nat \ {0}

VARIABLES
  load,  \* the requests, the faults and the bound on finality of this behaviour
  chain, \* chain[h] is the block of height h: its id and its items
  final, \* the latest finalized height
  fork,  \* how many branches there have been; names the blocks mined now
  sent,  \* sent[t] is the request that transaction t executes
  pool   \* transactions that are neither in a block nor lost

ledgerVars == <<load, chain, final, fork, sent, pool>>

LedgerInit ==
  load \in Loads /\ chain = <<>> /\ final = 0 /\ fork = 1 /\ sent = <<>> /\ pool = {}

Head_ == Len(chain)

\* "message" is a CallMessage, "sent" a CallMessageSent, "success" and "failure"
\* a ResponseMessage, "executed" an execution with its CallExecuted or
\* RollbackExecuted, "reverted" a revert.
Item(kind, r, t) == [kind |-> kind, req |-> r, tx |-> t, from |-> 1,
                     height |-> Head_ + 1, block |-> fork]

\* Each branch has its own order of calls, so another caller's may get the
\* serial number there.
SentItem(n, caller) == [Item("sent", n, 0) EXCEPT !.from = caller]

ItemsOf(b) == {b.items[i] : i \in DOMAIN b.items}
Included == UNION {ItemsOf(chain[h]) : h \in DOMAIN chain}

Has(S, kind, r) == \E e \in S : e.kind = kind /\ e.req = r
Executed(S, r) == Has(S, "executed", r)
Executable(S, r) == (Has(S, "message", r) \/ Has(S, "failure", r)) /\ ~ Executed(S, r)
Answered(S, n) == Has(S, "success", n) \/ Has(S, "failure", n)

\* What can come next in a block when S is all there is before it: a new
\* message or response, a transaction of the pool p, an execution by somebody else.
Possible(S, p) ==
  {Item("message", r, 0) : r \in {q \in Reqs \cap load.reqs : ~ Has(S, "message", q)}}
  \cup {SentItem(n, caller) : n \in {q \in Sns \cap load.reqs : ~ Has(S, "sent", q)},
                              caller \in 1..fork}
  \cup {Item(outcome, n, 0) : outcome \in {"success", "failure"},
         n \in {q \in Sns : Has(S, "sent", q) /\ ~ Answered(S, q)}}
  \cup {Item(IF Executable(S, sent[t]) THEN "executed" ELSE "reverted", sent[t], t) : t \in p}
  \cup {Item("executed", r, 0) : r \in {q \in load.reqs : Executable(S, q)}}

Contents ==
  LET first == Possible(Included, pool)
      second(e) == Possible(Included \cup {e}, pool \ {e.tx})
  IN {items \in {<<>>} \cup {<<e>> : e \in first}
                \cup UNION {{<<e, f>> : f \in second(e)} : e \in first} :
        Len(items) \in BlockSizes}

Mine ==
  /\ Head_ < MaxHeight
  /\ \E items \in Contents :
       /\ chain' = Append(chain, [id |-> fork, items |-> items])
       /\ pool' = pool \ {items[i].tx : i \in DOMAIN items}
  /\ UNCHANGED <<load, final, fork, sent>>

\* The blocks above some height at or above the finalized one leave the
\* chain; their transactions go back to the pool or get lost.
Reorg ==
  /\ fork < MaxFork
  /\ fork' = fork + 1
  /\ \E k \in final..(Head_ - 1) :
       /\ chain' = SubSeq(chain, 1, k)
       /\ \E back \in SUBSET {e.tx : e \in {i \in Included : i.height > k /\ i.tx # 0}} :
            pool' = pool \cup back
  /\ UNCHANGED <<load, final, sent>>

FinalizeNext ==
  /\ final < Head_ /\ final < load.finalized
  /\ final' = final + 1
  /\ UNCHANGED <<load, chain, fork, sent, pool>>

Lose ==
  /\ \E t \in pool \cap Losable : pool' = pool \ {t}
  /\ UNCHANGED <<load, chain, final, fork, sent>>

\* The answer to a sent executeCall(r): the number of its transaction.
Send(r) ==
  /\ Len(sent) < MaxTx
  /\ sent' = Append(sent, r)
  /\ pool' = pool \cup {Len(sent) + 1}
  /\ UNCHANGED <<load, chain, final, fork>>

NewTx == Len(sent) + 1

Receipts(t) == {e \in Included : e.tx = t}

OnChain(h, b) == h \in DOMAIN chain /\ chain[h].id = b

\* The events of blocks from .. to, in the order of the chain: where they are (block and
\* place in it), and the one way to go through these places.
IsEvent(e) == e.kind # "reverted"

ItemAt(p) == chain[p[1]].items[p[2]]

EventPlaces(from, to) ==
  {p \in (from..to) \X (1..2) : p[2] \in DOMAIN chain[p[1]].items /\ IsEvent(ItemAt(p))}

Precedes(p, q) == p[1] < q[1] \/ (p[1] = q[1] /\ p[2] < q[2])

InOrder(S) ==
  {s \in [1..Cardinality(S) -> S] :
     /\ \A i, j \in DOMAIN s : i < j => Precedes(s[i], s[j])
     /\ \A p \in S : \E i \in DOMAIN s : s[i] = p}

EventsBetween(from, to) ==
  {[i \in DOMAIN s |-> ItemAt(s[i])] : s \in InOrder(EventPlaces(from, to))}
=============================================================================
