--------------------------- MODULE AutoCaller_proofs ---------------------------
(***************************************************************************)
(* Theorems about the auto-caller, for every chain, every number of        *)
(* requests, goroutines, records, transactions, branches and crashes.      *)
(***************************************************************************)
EXTENDS AutoCaller, SequenceTheorems, NaturalsInduction, FiniteSetTheorems, TLAPS

-----------------------------------------------------------------------------
(* Least and greatest elements.                                            *)

Less == OpToRel(<, Nat)

LEMMA LeastExists ==
  ASSUME NEW S, S \subseteq Nat, S # {}
  PROVE  \E x \in S : \A y \in S : x <= y
<1>1. IsWellFoundedOn(Less, Nat)
  BY NatLessThanWellFounded DEF Less
<1>2. PICK x \in S : \A y \in S : <<y, x>> \notin Less
  BY <1>1, WFMin, Zenon
<1>3. \A y \in S : y < x => <<y, x>> \in Less
  BY DEF Less, OpToRel
<1>4. ASSUME NEW y \in S PROVE x <= y
  <2>1. x \in Nat /\ y \in Nat /\ ~ (y < x)
    BY <1>2, <1>3
  <2>2. QED BY <2>1
<1>5. QED BY <1>4

LEMMA MinNat ==
  ASSUME NEW S, S \subseteq Nat, S # {}
  PROVE  Min(S) \in S /\ \A y \in S : Min(S) <= y
BY LeastExists DEF Min

LEMMA MaxNat ==
  ASSUME NEW S, NEW n \in Nat, S \subseteq 0..n, S # {}
  PROVE  Max(S) \in S /\ \A y \in S : Max(S) >= y
<1> DEFINE T == {k \in Nat : n - k \in S}
<1>1. PICK k \in T : \A y \in T : k <= y
  <2>1. \A x \in S : x \in Nat /\ x <= n
    OBVIOUS
  <2>2. PICK x \in S : TRUE
    OBVIOUS
  <2>3. n - x \in T
    BY <2>1
  <2>4. QED BY <2>3, LeastExists
<1>2. ASSUME NEW y \in S PROVE n - k >= y
  <2>1. n - y \in T /\ y \in Nat
    OBVIOUS
  <2>2. k <= n - y /\ k \in Nat
    BY <1>1, <2>1
  <2>3. QED BY <2>1, <2>2
<1>3. n - k \in S
  OBVIOUS
<1>4. QED BY <1>2, <1>3 DEF Max

-----------------------------------------------------------------------------
(* The network.                                                            *)

ItemType == [kind : {"message", "sent", "success", "failure", "executed", "reverted"},
             req : Reqs \cup Sns, tx : Nat, from : Nat, height : Nat, block : Nat]

BlockType == [id : Nat, items : Seq(ItemType)]

\* What an item may be about.
Sensible(e) ==
  /\ e \in ItemType
  /\ e.kind = "message" => e.req \in Reqs
  /\ e.kind \in {"sent", "success", "failure"} => e.req \in Sns
  /\ e.tx <= Len(sent)
  /\ e.from \in 1..fork /\ e.height \in 1..MaxHeight /\ e.block \in 1..fork

ItemOK(h, i) == /\ Sensible(chain[h].items[i])
                /\ chain[h].items[i].height = h /\ chain[h].items[i].block = chain[h].id

BlockOK(h) == /\ chain[h].id \in 1..fork /\ DOMAIN chain[h].items \subseteq 1..2
              /\ \A i \in DOMAIN chain[h].items : ItemOK(h, i)

LedgerOK ==
  /\ load \in Loads
  /\ chain \in Seq(BlockType) /\ Len(chain) <= MaxHeight
  /\ \A h \in DOMAIN chain : BlockOK(h)
  /\ final \in 0..Len(chain) /\ fork \in 1..MaxFork
  /\ sent \in Seq(Reqs \cup Sns) /\ Len(sent) <= MaxTx
  /\ pool \subseteq 1..Len(sent)

\* What a step may do to the network.
LedgerMove == \/ UNCHANGED ledgerVars \/ Mine \/ FinalizeNext \/ Lose
              \/ "reorg" \in load.faults /\ Reorg
              \/ \E r \in Reqs \cup Sns : Send(r)

NewItem(e) == Sensible(e) /\ e.height = Head_ + 1 /\ e.block = fork

LEMMA ItemIsNew ==
  ASSUME LedgerOK, Head_ < MaxHeight,
         NEW kind \in {"message", "sent", "success", "failure", "executed", "reverted"},
         NEW r \in Reqs \cup Sns, NEW t \in 0..Len(sent), NEW from \in 1..fork,
         kind = "message" => r \in Reqs,
         kind \in {"sent", "success", "failure"} => r \in Sns
  PROVE  NewItem([Item(kind, r, t) EXCEPT !.from = from])
<1>1. /\ Len(chain) \in Nat /\ Len(sent) \in Nat /\ fork \in 1..MaxFork
      /\ MaxFork \in Nat /\ MaxHeight \in Nat
  BY LedgerAssumption DEF LedgerOK
<1>2. [Item(kind, r, t) EXCEPT !.from = from] =
        [kind |-> kind, req |-> r, tx |-> t, from |-> from,
         height |-> Len(chain) + 1, block |-> fork]
  BY DEF Item, Head_
<1>3. QED BY <1>1, <1>2 DEF NewItem, Sensible, ItemType, Head_

LEMMA PossibleIsNew ==
  ASSUME LedgerOK, Head_ < MaxHeight, NEW S, NEW p, p \subseteq pool,
         NEW e \in Possible(S, p)
  PROVE  NewItem(e) /\ (e.tx # 0 => e.tx \in p)
<1> USE DEF Possible
<1>1. /\ load.reqs \subseteq Reqs \cup Sns /\ 1 \in 1..fork /\ fork \in Nat
      /\ sent \in Seq(Reqs \cup Sns) /\ Len(sent) \in Nat /\ p \subseteq 1..Len(sent)
  BY LedgerAssumption DEF LedgerOK
<1>from. \A kind, r, t : /\ Item(kind, r, t) = [Item(kind, r, t) EXCEPT !.from = 1]
                         /\ Item(kind, r, t).tx = t
  BY DEF Item
<1>2. CASE \E r \in Reqs \cap load.reqs : e = Item("message", r, 0)
  BY <1>1, <1>2, <1>from, ItemIsNew
<1>3. CASE \E n \in Sns \cap load.reqs, caller \in 1..fork : e = SentItem(n, caller)
  <2>1. PICK n \in Sns \cap load.reqs, caller \in 1..fork : e = SentItem(n, caller)
    BY <1>3
  <2>2. e.tx = 0
    BY <2>1 DEF SentItem, Item
  <2>3. QED BY <1>1, <2>1, <2>2, ItemIsNew DEF SentItem
<1>4. CASE \E outcome \in {"success", "failure"}, n \in Sns : e = Item(outcome, n, 0)
  BY <1>1, <1>4, <1>from, ItemIsNew
<1>5. CASE \E t \in p, kind \in {"executed", "reverted"} : e = Item(kind, sent[t], t)
  <2>1. PICK t \in p, kind \in {"executed", "reverted"} : e = Item(kind, sent[t], t)
    BY <1>5
  <2>2. t \in 1..Len(sent) /\ sent[t] \in Reqs \cup Sns /\ t \in 0..Len(sent)
    BY <1>1
  <2>3. QED BY <1>1, <1>from, <2>1, <2>2, ItemIsNew
<1>6. CASE \E r \in load.reqs : e = Item("executed", r, 0)
  BY <1>1, <1>6, <1>from, ItemIsNew
<1>7. QED
  BY <1>2, <1>3, <1>4, <1>5, <1>6

LEMMA ContentsAreNew ==
  ASSUME LedgerOK, Head_ < MaxHeight, NEW items \in Contents
  PROVE  /\ items \in Seq(ItemType) /\ DOMAIN items \subseteq 1..2
         /\ \A i \in DOMAIN items : NewItem(items[i])
         /\ \/ items = <<>>
            \/ \E e \in Possible(Included, pool) :
                 \/ items = <<e>>
                 \/ \E f \in Possible(Included \cup {e}, pool \ {e.tx}) : items = <<e, f>>
<1>1. \/ items = <<>>
      \/ \E e \in Possible(Included, pool) : items = <<e>>
      \/ \E e \in Possible(Included, pool) :
           \E f \in Possible(Included \cup {e}, pool \ {e.tx}) : items = <<e, f>>
  BY DEF Contents
<1>2. \A e \in Possible(Included, pool) :
        /\ NewItem(e)
        /\ \A f \in Possible(Included \cup {e}, pool \ {e.tx}) : NewItem(f)
  BY PossibleIsNew
<1>3. \A e : NewItem(e) => e \in ItemType
  BY DEF NewItem, Sensible
<1>4. CASE items = <<>>
  BY <1>4
<1>5. CASE \E e \in Possible(Included, pool) : items = <<e>>
  <2>1. PICK e \in Possible(Included, pool) : items = <<e>>
    BY <1>5
  <2>2. NewItem(e) /\ e \in ItemType
    BY <1>2, <1>3
  <2>3. items \in Seq(ItemType) /\ DOMAIN items = 1..1 /\ \A i \in DOMAIN items : items[i] = e
    BY <2>1, <2>2
  <2>4. QED BY <2>1, <2>2, <2>3
<1>6. CASE \E e \in Possible(Included, pool) :
             \E f \in Possible(Included \cup {e}, pool \ {e.tx}) : items = <<e, f>>
  <2>1. PICK e \in Possible(Included, pool) :
          \E f \in Possible(Included \cup {e}, pool \ {e.tx}) : items = <<e, f>>
    BY <1>6
  <2>f. PICK f \in Possible(Included \cup {e}, pool \ {e.tx}) : items = <<e, f>>
    BY <2>1
  <2>2. NewItem(e) /\ e \in ItemType /\ NewItem(f) /\ f \in ItemType
    BY <1>2, <1>3
  <2>3. /\ items \in Seq(ItemType) /\ DOMAIN items = 1..2
        /\ \A i \in DOMAIN items : items[i] \in {e, f}
    BY <2>f, <2>2
  <2>4. QED BY <2>f, <2>2, <2>3
<1>7. QED BY <1>1, <1>4, <1>5, <1>6

LEMMA LedgerInitOK == LedgerInit => LedgerOK
BY LedgerAssumption DEF LedgerInit, LedgerOK

\* The lengths and the number of branches only grow.
LEMMA LedgerGrows ==
  ASSUME LedgerOK, LedgerMove
  PROVE  /\ load' = load
         /\ Len(sent') >= Len(sent) /\ Len(sent') \in Nat /\ fork' >= fork /\ fork' \in Nat
         /\ final' >= final /\ final' \in Nat
<1> USE LedgerAssumption DEF LedgerOK
<1>1. Len(sent) \in Nat /\ fork \in Nat /\ final \in Nat
  OBVIOUS
<1>2. CASE UNCHANGED ledgerVars
  BY <1>1, <1>2 DEF ledgerVars
<1>3. CASE Mine
  BY <1>1, <1>3 DEF Mine
<1>4. CASE Reorg
  BY <1>1, <1>4 DEF Reorg
<1>5. CASE FinalizeNext
  BY <1>1, <1>5 DEF FinalizeNext
<1>6. CASE Lose
  BY <1>1, <1>6 DEF Lose
<1>7. CASE \E r \in Reqs \cup Sns : Send(r)
  <2>1. PICK r \in Reqs \cup Sns : Send(r)
    BY <1>7
  <2>2. sent' = Append(sent, r) /\ UNCHANGED <<load, fork, final>>
    BY <2>1 DEF Send
  <2>3. QED BY <1>1, <2>2
<1>8. QED BY <1>2, <1>3, <1>4, <1>5, <1>6, <1>7 DEF LedgerMove

LEMMA SensibleStays ==
  ASSUME LedgerOK, LedgerMove, NEW e, Sensible(e)
  PROVE  Sensible(e)'
<1>1. Len(sent) \in Nat /\ fork \in Nat
  BY DEF LedgerOK
<1>2. e.tx \in Nat /\ e.from \in Nat /\ e.block \in Nat
  BY DEF Sensible, ItemType
<1>3. QED BY <1>1, <1>2, LedgerGrows DEF Sensible

LEMMA BlockStays ==
  ASSUME LedgerOK, LedgerMove, NEW h, BlockOK(h), chain'[h] = chain[h]
  PROVE  BlockOK(h)'
<1>1. fork' >= fork /\ fork' \in Nat /\ fork \in Nat
  BY LedgerGrows DEF LedgerOK
<1>2. chain'[h].id \in 1..fork'
  BY <1>1 DEF BlockOK
<1>3. ASSUME NEW i \in DOMAIN chain'[h].items PROVE ItemOK(h, i)'
  <2>1. ItemOK(h, i)
    BY DEF BlockOK
  <2>2. Sensible(chain[h].items[i])'
    BY <2>1, SensibleStays DEF ItemOK
  <2>3. QED BY <2>1, <2>2, chain'[h] = chain[h] DEF ItemOK
<1>4. QED BY <1>2, <1>3 DEF BlockOK

LEMMA LedgerStays ==
  ASSUME LedgerOK, LedgerMove
  PROVE  LedgerOK'
<1>1. /\ load \in Loads /\ chain \in Seq(BlockType) /\ Len(chain) <= MaxHeight
      /\ Len(chain) \in Nat /\ DOMAIN chain = 1..Len(chain)
      /\ \A h \in DOMAIN chain : BlockOK(h)
      /\ final \in 0..Len(chain) /\ fork \in 1..MaxFork
      /\ sent \in Seq(Reqs \cup Sns) /\ Len(sent) <= MaxTx /\ Len(sent) \in Nat
      /\ pool \subseteq 1..Len(sent)
      /\ MaxHeight \in Nat /\ MaxTx \in Nat /\ MaxFork \in Nat
  BY LedgerAssumption DEF LedgerOK
<1>blocks. \A h : BlockOK(h) /\ chain'[h] = chain[h] => BlockOK(h)'
  BY BlockStays
<1>2. CASE UNCHANGED ledgerVars
  <2>1. UNCHANGED <<load, chain, final, fork, sent, pool>>
    BY <1>2 DEF ledgerVars
  <2>2. QED BY <1>1, <1>blocks, <2>1 DEF LedgerOK
<1>3. CASE Mine
  <2>1. PICK items \in Contents :
          /\ chain' = Append(chain, [id |-> fork, items |-> items])
          /\ pool' = pool \ {items[i].tx : i \in DOMAIN items}
    BY <1>3 DEF Mine
  <2>2. Len(chain) < MaxHeight /\ UNCHANGED <<load, final, fork, sent>>
    BY <1>3 DEF Mine, Head_
  <2>3. /\ items \in Seq(ItemType) /\ DOMAIN items \subseteq 1..2
        /\ \A i \in DOMAIN items : NewItem(items[i])
    BY <2>2, ContentsAreNew DEF Head_
  <2>4. [id |-> fork, items |-> items] \in BlockType
    BY <1>1, <2>3 DEF BlockType
  <2>5. /\ chain' \in Seq(BlockType) /\ Len(chain') = Len(chain) + 1
        /\ DOMAIN chain' = 1..(Len(chain) + 1)
        /\ \A h \in DOMAIN chain : chain'[h] = chain[h]
        /\ chain'[Len(chain) + 1] = [id |-> fork, items |-> items]
    BY <1>1, <2>1, <2>4
  <2>n. PICK n \in Nat : n = Len(chain) + 1
    BY <1>1
  <2>6. BlockOK(n)'
    <3>1. chain'[n].id = fork /\ chain'[n].items = items /\ fork' = fork
      BY <2>2, <2>5, <2>n
    <3>2. ASSUME NEW i \in DOMAIN items PROVE ItemOK(n, i)'
      <4>1. Sensible(items[i]) /\ items[i].height = n /\ items[i].block = fork
        BY <2>3, <2>n DEF NewItem, Head_
      <4>2. chain'[n].items[i] = items[i]
        BY <3>1
      <4>3. QED BY <2>2, <3>1, <4>1, <4>2 DEF ItemOK, Sensible
    <3>3. fork \in 1..fork
      BY <1>1
    <3>4. QED BY <2>3, <3>1, <3>2, <3>3 DEF BlockOK
  <2>7. \A h \in DOMAIN chain' : BlockOK(h)'
    <3>1. ASSUME NEW h \in DOMAIN chain' PROVE BlockOK(h)'
      <4>1. CASE h \in DOMAIN chain
        BY <1>blocks, <1>1, <2>5, <4>1
      <4>2. CASE h = n
        BY <2>6, <4>2
      <4>3. QED BY <1>1, <2>5, <2>n, <4>1, <4>2
    <3>2. QED BY <3>1
  <2>8. pool' \subseteq 1..Len(sent')
    <3>1. pool' \subseteq pool
      BY <2>1
    <3>2. QED BY <1>1, <2>2, <3>1
  <2>10. final' \in 0..Len(chain')
    BY <1>1, <2>2, <2>5
  <2>9. QED BY <1>1, <2>2, <2>5, <2>7, <2>8, <2>10 DEF LedgerOK
<1>4. CASE Reorg
  <2>1. PICK k \in final..(Head_ - 1) :
          /\ chain' = SubSeq(chain, 1, k)
          /\ \E back \in SUBSET {e.tx : e \in {i \in Included : i.height > k /\ i.tx # 0}} :
               pool' = pool \cup back
    BY <1>4 DEF Reorg
  <2>2. fork < MaxFork /\ fork' = fork + 1 /\ UNCHANGED <<load, final, sent>>
    BY <1>4 DEF Reorg
  <2>3. k \in Nat /\ k <= Len(chain) /\ k >= final
    BY <1>1, <2>1 DEF Head_
  <2>4. /\ chain' \in Seq(BlockType) /\ Len(chain') = k /\ DOMAIN chain' = 1..k
        /\ \A h \in DOMAIN chain' : h \in DOMAIN chain /\ chain'[h] = chain[h]
    BY <1>1, <2>1, <2>3
  <2>5. ASSUME NEW e \in Included, e.tx # 0 PROVE e.tx \in 1..Len(sent)
    <3>1. PICK h \in DOMAIN chain : \E i \in DOMAIN chain[h].items : e = chain[h].items[i]
      BY DEF Included, ItemsOf
    <3>2. Sensible(e)
      BY <1>1, <3>1 DEF BlockOK, ItemOK
    <3>3. QED BY <1>1, <2>5, <3>2 DEF Sensible, ItemType
  <2>6. PICK back \in SUBSET {e.tx : e \in {i \in Included : i.height > k /\ i.tx # 0}} :
          pool' = pool \cup back
    BY <2>1
  <2>7. pool' \subseteq 1..Len(sent)
    <3>1. ASSUME NEW t \in back PROVE t \in 1..Len(sent)
      <4>1. PICK e \in Included : e.tx # 0 /\ t = e.tx
        BY <2>6
      <4>2. QED BY <2>5, <4>1
    <3>2. QED BY <1>1, <2>6, <3>1
  <2>8. \A h \in DOMAIN chain' : BlockOK(h)'
    BY <1>1, <1>blocks, <2>4
  <2>9. QED BY <1>1, <2>2, <2>3, <2>4, <2>7, <2>8 DEF LedgerOK
<1>5. CASE FinalizeNext
  <2>1. final' \in 0..Len(chain) /\ UNCHANGED <<load, chain, fork, sent, pool>>
    BY <1>1, <1>5 DEF FinalizeNext, Head_
  <2>2. QED BY <1>1, <1>blocks, <2>1 DEF LedgerOK
<1>6. CASE Lose
  <2>1. pool' \subseteq pool /\ UNCHANGED <<load, chain, final, fork, sent>>
    BY <1>6 DEF Lose
  <2>2. QED BY <1>1, <1>blocks, <2>1 DEF LedgerOK
<1>7. CASE \E r \in Reqs \cup Sns : Send(r)
  <2>1. PICK r \in Reqs \cup Sns : Send(r)
    BY <1>7
  <2>2. /\ Len(sent) < MaxTx /\ sent' = Append(sent, r) /\ pool' = pool \cup {Len(sent) + 1}
        /\ UNCHANGED <<load, chain, final, fork>>
    BY <2>1 DEF Send
  <2>3. sent' \in Seq(Reqs \cup Sns) /\ Len(sent') = Len(sent) + 1
    BY <1>1, <2>2
  <2>4. Len(sent') <= MaxTx /\ pool' \subseteq 1..Len(sent')
    <3>1. PICK n \in Nat : n = Len(sent)
      BY <1>1
    <3>2. pool \subseteq 1..n /\ pool' = pool \cup {n + 1} /\ n < MaxTx /\ MaxTx \in Nat
      BY <1>1, <2>2, <3>1
    <3>3. pool' \subseteq 1..(n + 1) /\ n + 1 <= MaxTx
      BY <3>2
    <3>4. QED BY <2>3, <3>1, <3>3
  <2>5. QED BY <1>1, <1>blocks, <2>2, <2>3, <2>4 DEF LedgerOK
<1>8. QED BY <1>2, <1>3, <1>4, <1>5, <1>6, <1>7, LedgerMove DEF LedgerMove

\* The logs of some blocks are their events, every one of them, in their order.
LEMMA EventsAreTold ==
  ASSUME LedgerOK, NEW from \in Nat, from >= 1, NEW to \in Nat, to <= Head_,
         NEW events \in EventsBetween(from, to)
  PROVE  /\ events \in Seq(ItemType)
         /\ \A k \in DOMAIN events :
              /\ events[k] \in Included /\ Sensible(events[k]) /\ IsEvent(events[k])
              /\ events[k].height \in from..to
         /\ \A e \in Included : IsEvent(e) /\ e.height \in from..to
                                  => \E k \in DOMAIN events : events[k] = e
         /\ \A i, j \in DOMAIN events : i < j => events[i].height <= events[j].height
<1> DEFINE S == EventPlaces(from, to)
           n == Cardinality(S)
<1>1. /\ Len(chain) \in Nat /\ DOMAIN chain = 1..Len(chain) /\ to <= Len(chain)
      /\ \A h \in DOMAIN chain : BlockOK(h)
  BY DEF LedgerOK, Head_
<1>2. ASSUME NEW p \in S
      PROVE  /\ p[1] \in from..to /\ p[1] \in DOMAIN chain /\ p[2] \in DOMAIN chain[p[1]].items
             /\ ItemAt(p) \in Included /\ Sensible(ItemAt(p)) /\ IsEvent(ItemAt(p))
             /\ ItemAt(p).height = p[1]
  <2>1. /\ p[1] \in from..to /\ p[2] \in DOMAIN chain[p[1]].items /\ IsEvent(ItemAt(p))
    BY DEF EventPlaces
  <2>2. p[1] \in DOMAIN chain
    BY <1>1, <2>1
  <2>3. ItemOK(p[1], p[2])
    BY <1>1, <2>1, <2>2 DEF BlockOK
  <2>4. QED BY <2>1, <2>2, <2>3 DEF ItemOK, ItemAt, Included, ItemsOf
<1>3. n \in Nat
  <2>1. IsFiniteSet(from..to) /\ IsFiniteSet(1..2)
    <3>1. from \in Int /\ to \in Int /\ 1 \in Int /\ 2 \in Int
      OBVIOUS
    <3>2. QED BY <3>1, FS_Interval, Zenon
  <2>2. IsFiniteSet((from..to) \X (1..2))
    BY <2>1, FS_Product
  <2>3. S \subseteq (from..to) \X (1..2)
    BY DEF EventPlaces
  <2>4. QED BY <2>2, <2>3, FS_Subset, FS_CardinalityType
<1> HIDE DEF S
<1>4. PICK s \in InOrder(S) : events = [i \in DOMAIN s |-> ItemAt(s[i])]
  BY DEF EventsBetween, S
<1>5. /\ s \in [1..n -> S]
      /\ \A i, j \in DOMAIN s : i < j => Precedes(s[i], s[j])
      /\ \A p \in S : \E i \in DOMAIN s : s[i] = p
  BY <1>4 DEF InOrder
<1>6. DOMAIN events = 1..n /\ \A k \in 1..n : events[k] = ItemAt(s[k]) /\ s[k] \in S
  BY <1>4, <1>5
<1>7. events \in Seq(ItemType)
  <2>1. \A k \in 1..n : ItemAt(s[k]) \in ItemType
    BY <1>2, <1>6 DEF Sensible
  <2>2. events \in [1..n -> ItemType]
    BY <1>4, <1>5, <2>1
  <2>3. QED BY <1>3, <2>2
<1>8. ASSUME NEW e \in Included, IsEvent(e), e.height \in from..to
      PROVE  \E k \in DOMAIN events : events[k] = e
  <2>1. PICK h \in DOMAIN chain : \E i \in DOMAIN chain[h].items : e = chain[h].items[i]
    BY DEF Included, ItemsOf
  <2>2. PICK i \in DOMAIN chain[h].items : e = chain[h].items[i]
    BY <2>1
  <2>3. ItemOK(h, i) /\ i \in 1..2
    BY <1>1 DEF BlockOK
  <2>4. h \in from..to
    BY <1>8, <2>2, <2>3 DEF ItemOK
  <2>5. ItemAt(<<h, i>>) = e /\ <<h, i>> \in S
    BY <1>8, <2>2, <2>3, <2>4 DEF S, EventPlaces, ItemAt
  <2>6. QED BY <1>5, <1>6, <2>5
<1>9. ASSUME NEW i \in DOMAIN events, NEW j \in DOMAIN events, i < j
      PROVE  events[i].height <= events[j].height
  <2>1. Precedes(s[i], s[j]) /\ s[i] \in S /\ s[j] \in S
    BY <1>5, <1>6, <1>9
  <2>2. /\ events[i].height = s[i][1] /\ events[j].height = s[j][1]
        /\ s[i][1] \in Nat /\ s[j][1] \in Nat
    BY <1>2, <1>6, <2>1
  <2>3. QED BY <2>1, <2>2 DEF Precedes
<1>10. ASSUME NEW k \in DOMAIN events
       PROVE  /\ events[k] \in Included /\ Sensible(events[k]) /\ IsEvent(events[k])
              /\ events[k].height \in from..to
  BY <1>2, <1>6
<1>11. QED BY <1>7, <1>8, <1>9, <1>10

-----------------------------------------------------------------------------
(* Types.  What is needed beyond TypeOK: where a thread has a record, and  *)
(* of which state, and what the events of a stream are about.              *)

RowsOK ==
  /\ rows \in [Ids -> Record \cup {None}] /\ ids \in 0..MaxRows
  /\ \A i \in Saved : /\ rows[i].id = i /\ i <= ids
                      /\ rows[i].req \in Reqs =>
                           rows[i].state \notin {"none", "notApplicable"}

\* What a thread at label l may have as its record.
Fits(t, l, v) ==
  /\ l \in Labels /\ v \in Record \cup {None}
  /\ l \in {"save", "invoke", "saveIf", "write", "get"} => v # None
  /\ l \in {"free", "start", "stream"} => v = None
  /\ t \in Monitors => l \notin {"free", "get"} \/ v = None
  /\ t \in Results => l \notin {"start", "stream", "save"}
  /\ l \in {"saveIf", "write"} => v.state \in {"sending", "skip", "error", "sent"}
  /\ l = "save" => v.state = "done" \/ v.req \in Sns
  /\ l = "get" => v.state = "sending"
  /\ l = "write" => v.id # 0

ThreadsOK ==
  /\ pc \in [Threads -> Labels] /\ cm \in [Threads -> Record \cup {None}]
  /\ \A t \in Threads : Fits(t, pc[t], cm[t]) /\ (cm[t] # None => cm[t].id <= ids)

\* A monitor that has asked for its height.
Passing == {"stream", "save", "invoke", "saveIf", "write"}

StreamsOK ==
  /\ at \in [Monitors -> 0..(MaxHeight + 1)]
  /\ batch \in [Monitors -> Seq(ItemType)]
  /\ \A m \in Monitors : \A k \in DOMAIN batch[m] : Sensible(batch[m][k])
  /\ \A m \in Monitors : pc[m] \in Passing => at[m] >= 1

\* The open transaction of a finalizer.
FinOK ==
  fin # None =>
    /\ fin = [task |-> fin.task, height |-> fin.height, phase |-> fin.phase,
              marks |-> fin.marks, found |-> fin.found]
    /\ fin.task \in {"call", "rollback"} /\ fin.height \in 1..final /\ fin.phase \in Phases
    /\ fin.marks \subseteq Phases \X Ids
    /\ fin.found # None => DOMAIN fin.found \subseteq Ids

TInv == LedgerOK /\ RowsOK /\ ThreadsOK /\ StreamsOK /\ FinOK /\ crashes \in 0..MaxCrashes

LEMMA TInvTypes == TInv => TypeOK
BY DEF TInv, RowsOK, ThreadsOK, StreamsOK, FinOK, TypeOK, Fits

LEMMA BoundsAreNat ==
  /\ MaxHeight \in Nat /\ MaxTx \in Nat /\ MaxFork \in Nat /\ MaxFork > 0
  /\ MaxRows \in Nat /\ MaxCrashes \in Nat
BY LedgerAssumption, AutoCallerAssumption

\* The records that the handlers make.
LEMMA NewRecords ==
  ASSUME LedgerOK, NEW e, Sensible(e)
  PROVE  /\ NewCall(e) \in Record /\ NewCall(e).id = 0 /\ NewCall(e).req = e.req
         /\ NewRollback(e) \in Record /\ NewRollback(e).id = 0 /\ NewRollback(e).req = e.req
         /\ NewRollback(e).state = "none"
<1>1. /\ e.req \in Reqs \cup Sns /\ e.from \in 1..MaxFork /\ e.height \in 0..MaxHeight
      /\ e.block \in 0..MaxFork
  BY BoundsAreNat DEF LedgerOK, Sensible, ItemType
<1>2. 0 \in 0..MaxRows /\ 0 \in 0..MaxTx /\ 0 \in 0..MaxHeight /\ 0 \in 0..MaxFork
  BY BoundsAreNat
<1>3. QED
  BY <1>1, <1>2 DEF NewCall, NewRollback, WithEvent, Blank, Record, States

LEMMA ResponseRecord ==
  ASSUME LedgerOK, NEW e, Sensible(e), NEW w \in Record
  PROVE  /\ NewResponse(e, w) \in Record
         /\ NewResponse(e, w).id = w.id /\ NewResponse(e, w).req = e.req
         /\ NewResponse(e, w).state = IF e.kind = "success" THEN "notApplicable" ELSE "none"
<1>1. /\ e.req \in Reqs \cup Sns /\ e.from \in 1..MaxFork /\ e.height \in 0..MaxHeight
      /\ e.block \in 0..MaxFork
  BY BoundsAreNat DEF LedgerOK, Sensible, ItemType
<1>2. 0 \in 0..MaxRows /\ 0 \in 0..MaxTx /\ 0 \in 0..MaxHeight /\ 0 \in 0..MaxFork
  BY BoundsAreNat
<1>3. QED
  BY <1>1, <1>2, ZenonT(60) DEF NewResponse, WithEvent, Blank, Record, States

LEMMA ChangedRecords ==
  ASSUME NEW w \in Record, NEW state \in States, NEW tx \in 0..MaxTx,
         NEW h \in 0..MaxHeight, NEW b \in 0..MaxFork, NEW k \in 0..MaxRows,
         NEW eh \in 0..MaxHeight, NEW eb \in 0..MaxFork
  PROVE  /\ [w EXCEPT !.state = state] \in Record
         /\ [w EXCEPT !.state = state, !.tx = tx] \in Record
         /\ [w EXCEPT !.state = state, !.tx = tx, !.blockHeight = h, !.blockId = b] \in Record
         /\ [w EXCEPT !.state = state, !.blockHeight = h, !.blockId = b] \in Record
         /\ [w EXCEPT !.state = state, !.tx = tx, !.blockHeight = h, !.blockId = b,
                      !.eventHeight = eh, !.eventId = eb] \in Record
         /\ [w EXCEPT !.tx = tx] \in Record
         /\ [w EXCEPT !.id = k] \in Record
         /\ [w EXCEPT !.final = TRUE] \in Record
         /\ [w EXCEPT !.eventFinal = TRUE] \in Record
         /\ [w EXCEPT !.triggerFinal = TRUE] \in Record
BY DEF Record

LEMMA FindOneFinds ==
  ASSUME RowsOK, NEW r
  PROVE  /\ FindOne(r) = None => \A i \in Saved : rows[i].req # r
         /\ FindOne(r) # None =>
              \E i \in Saved : /\ rows[i] = FindOne(r) /\ rows[i].req = r
                               /\ \A j \in Saved : rows[j].req = r => i <= j
<1> DEFINE matching == {i \in Saved : rows[i].req = r}
<1>1. FindOne(r) = IF matching = {} THEN None ELSE rows[Min(matching)]
  BY DEF FindOne
<1>2. CASE matching = {}
  BY <1>1, <1>2
<1>3. CASE matching # {}
  <2>1. matching \subseteq Nat
    BY DEF Saved, Ids
  <2>2. Min(matching) \in matching /\ \A y \in matching : Min(matching) <= y
    BY <1>3, <2>1, MinNat
  <2>3. QED BY <1>1, <1>3, <2>2 DEF Saved
<1>4. QED BY <1>2, <1>3

LEMMA FoundRecord ==
  ASSUME RowsOK, NEW r, FindOne(r) # None
  PROVE  FindOne(r) \in Record /\ FindOne(r).req = r /\ FindOne(r).id \in 1..ids
BY FindOneFinds, BoundsAreNat DEF RowsOK, Saved, Ids, Record

\* The network moves by itself or by a transaction sent, and the rest of the
\* program leaves it alone.
LEMMA NextIsLedgerMove ==
  ASSUME TInv, [Next]_vars
  PROVE  LedgerMove
<1>1. CASE UNCHANGED vars
  BY <1>1 DEF vars, LedgerMove
<1>2. CASE Network
  BY <1>2 DEF Network, LedgerMove
<1>3. CASE Crash
  BY <1>3 DEF Crash, LedgerMove
<1>4. CASE Finalizer
  BY <1>4 DEF Finalizer, FinalizeBegins, FinalizeFinds, FinalizeUpdates, FinalizeDrops,
              FinalizeFails, LedgerMove
<1>5. ASSUME NEW m \in Monitors, Monitor(m)
      PROVE  LedgerMove
  BY <1>5 DEF Monitor, GetMonitorHeight, Fetch, ConnectionLost, OnCallMessage, OnCallMessageSent,
              OnResponse, OnExecuted, NextEvent, SaveDone, SaveDoneFails, LedgerMove
<1>6. ASSUME NEW t \in Threads, ExecuteCall(t)
      PROVE  LedgerMove
  <2>1. ASSUME Send(cm[t].req), pc[t] = "invoke"
        PROVE  LedgerMove
    <3>1. cm[t] \in Record
      BY <2>1 DEF TInv, ThreadsOK, Fits
    <3>2. cm[t].req \in Reqs \cup Sns
      BY <3>1 DEF Record
    <3>3. QED BY <2>1, <3>2 DEF LedgerMove
  <2>2. QED BY <1>6, <2>1 DEF ExecuteCall, InvokeSends, InvokeSkips, InvokeFails, SaveIf,
              SaveIfReads, SaveIfWrites, SaveIfFails, LedgerMove
<1>7. ASSUME NEW g \in Results, CallResult(g)
      PROVE  LedgerMove
  BY <1>7 DEF CallResult, ResultSuccess, ResultFailure, ResultNotFound, LedgerMove
<1>8. QED
  BY <1>1, <1>2, <1>3, <1>4, <1>5, <1>6, <1>7 DEF Next

LEMMA BatchStays ==
  ASSUME LedgerOK, LedgerMove, StreamsOK, UNCHANGED streamVars,
         \A m \in Monitors : pc'[m] \in Passing => pc[m] \in Passing
  PROVE  StreamsOK'
<1>1. \A e : Sensible(e) => Sensible(e)'
  BY SensibleStays
<1>2. batch' = batch /\ at' = at
  BY DEF streamVars
<1>3. ASSUME NEW m \in Monitors, NEW k \in DOMAIN batch'[m]
      PROVE  Sensible(batch[m][k])'
  <2>1. Sensible(batch[m][k])
    BY <1>2 DEF StreamsOK
  <2>2. QED BY <1>1, <1>2, <2>1
<1>4. QED BY <1>2, <1>3 DEF StreamsOK

\* A record is saved.
LEMMA SaveKeeps ==
  ASSUME RowsOK, NEW v \in Record, v.id <= ids,
         v.req \in Reqs => v.state \notin {"none", "notApplicable"}, Save(v)
  PROVE  /\ RowsOK' /\ ids' >= ids /\ ids' \in Nat
         /\ WithKey(v) \in Record /\ WithKey(v).id \in 1..ids'
         /\ rows' = [rows EXCEPT ![WithKey(v).id] = WithKey(v)]
         /\ v.id = 0 => ids' = ids + 1
<1>1. ids \in Nat /\ MaxRows \in Nat /\ ids <= MaxRows /\ v.id \in 0..MaxRows
  BY BoundsAreNat DEF RowsOK, Record
<1> DEFINE w == WithKey(v)
<1>2. /\ w \in Record /\ w.id \in 1..ids' /\ ids' \in 0..MaxRows /\ ids' >= ids
      /\ rows' = [rows EXCEPT ![w.id] = w] /\ w.req = v.req /\ w.state = v.state
      /\ v.id = 0 => ids' = ids + 1
  <2>1. CASE v.id # 0
    BY <1>1, <2>1 DEF Save, WithKey
  <2>2. CASE v.id = 0
    <3>1. ids + 1 \in 0..MaxRows /\ ids' = ids + 1 /\ w = [v EXCEPT !.id = ids + 1]
          /\ rows' = [rows EXCEPT ![ids + 1] = w]
      BY <1>1, <2>2 DEF Save, WithKey
    <3>2. w \in Record /\ w.id = ids + 1 /\ w.req = v.req /\ w.state = v.state
      BY <3>1 DEF Record
    <3>3. QED BY <1>1, <3>1, <3>2
  <2>3. QED BY <2>1, <2>2
<1> HIDE DEF w
<1>3. rows' \in [Ids -> Record \cup {None}] /\ w.id \in Ids
  BY <1>1, <1>2 DEF RowsOK, Ids
<1>4. ASSUME NEW i \in Ids, rows'[i] # None
      PROVE  /\ rows'[i].id = i /\ i <= ids'
             /\ rows'[i].req \in Reqs => rows'[i].state \notin {"none", "notApplicable"}
  <2>1. CASE i = w.id
    BY <1>1, <1>2, <1>3, <2>1 DEF RowsOK
  <2>2. CASE i # w.id
    <3>1. rows'[i] = rows[i] /\ i \in Nat
      BY <1>2, <2>2 DEF RowsOK, Ids
    <3>2. QED BY <1>1, <1>2, <1>4, <3>1 DEF RowsOK, Saved
  <2>3. QED BY <2>1, <2>2
<1>5. QED BY <1>1, <1>2, <1>3, <1>4 DEF RowsOK, Saved, w

\* One thread, or two, get a new label and record; the rest stays.
LEMMA ThreadsMove ==
  ASSUME ThreadsOK, RowsOK, ids' >= ids, ids' \in Nat, NEW t \in Threads, NEW l, NEW v,
         pc' = [pc EXCEPT ![t] = l], cm' = [cm EXCEPT ![t] = v],
         Fits(t, l, v), v # None => v.id <= ids'
  PROVE  ThreadsOK'
<1>1. l \in Labels /\ v \in Record \cup {None}
  BY DEF Fits
<1>2. pc' \in [Threads -> Labels] /\ cm' \in [Threads -> Record \cup {None}]
  BY <1>1 DEF ThreadsOK
<1>3. ASSUME NEW u \in Threads
      PROVE  Fits(u, pc'[u], cm'[u]) /\ (cm'[u] # None => cm'[u].id <= ids')
  <2>1. CASE u = t
    BY <2>1 DEF ThreadsOK
  <2>2. CASE u # t
    <3>1. /\ Fits(u, pc[u], cm[u]) /\ (cm[u] # None => cm[u].id <= ids)
          /\ pc'[u] = pc[u] /\ cm'[u] = cm[u]
      BY <2>2 DEF ThreadsOK
    <3>2. cm[u] # None => cm[u].id \in Nat
      BY DEF ThreadsOK, Record
    <3>3. ids \in Nat
      BY DEF RowsOK
    <3>4. QED BY <3>1, <3>2, <3>3
  <2>3. QED BY <2>1, <2>2
<1>4. QED BY <1>2, <1>3 DEF ThreadsOK, Fits

\* A new goroutine besides.
LEMMA TwoThreadsMove ==
  ASSUME ThreadsOK, RowsOK, ids' >= ids, ids' \in Nat,
         NEW t \in Threads, NEW l, NEW v, NEW g \in Threads, NEW k, NEW w, g # t,
         pc' = [pc EXCEPT ![g] = k, ![t] = l], cm' = [cm EXCEPT ![g] = w, ![t] = v],
         Fits(t, l, v), v # None => v.id <= ids',
         Fits(g, k, w), w # None => w.id <= ids'
  PROVE  ThreadsOK'
<1>1. l \in Labels /\ v \in Record \cup {None} /\ k \in Labels /\ w \in Record \cup {None}
  BY DEF Fits
<1>2. pc' \in [Threads -> Labels] /\ cm' \in [Threads -> Record \cup {None}]
  BY <1>1 DEF ThreadsOK
<1>3. ASSUME NEW u \in Threads
      PROVE  Fits(u, pc'[u], cm'[u]) /\ (cm'[u] # None => cm'[u].id <= ids')
  <2>1. CASE u = t \/ u = g
    BY <2>1 DEF ThreadsOK
  <2>2. CASE u # t /\ u # g
    <3>1. /\ Fits(u, pc[u], cm[u]) /\ (cm[u] # None => cm[u].id <= ids)
          /\ pc'[u] = pc[u] /\ cm'[u] = cm[u]
      BY <2>2 DEF ThreadsOK
    <3>2. cm[u] # None => cm[u].id \in Nat
      BY DEF ThreadsOK, Record
    <3>3. ids \in Nat
      BY DEF RowsOK
    <3>4. QED BY <3>1, <3>2, <3>3
  <2>3. QED BY <2>1, <2>2
<1>4. QED BY <1>2, <1>3 DEF ThreadsOK, Fits

LEMMA ContinueKeeps ==
  ASSUME ThreadsOK, RowsOK, ids' >= ids, ids' \in Nat,
         NEW t \in Threads, pc[t] \in {"saveIf", "write"},
         NEW v \in Record, v.id <= ids', Continue(t, v)
  PROVE  ThreadsOK'
<1>1. /\ t \in Results => "get" \in Labels
      /\ {"stream", "free", "get"} \subseteq Labels
  BY DEF Labels
<1>2. Monitors \cap Results = {} /\ Threads = Monitors \cup Results
  BY AutoCallerAssumption DEF Threads
<1>none. v # None
  BY NoneAssumption
<1>3. CASE v.state = "sending" /\ t \in Results
  <2>1. pc' = [pc EXCEPT ![t] = "get"] /\ cm' = [cm EXCEPT ![t] = v]
    BY <1>3 DEF Continue, Set, Goto
  <2>2. Fits(t, "get", v)
    BY <1>1, <1>2, <1>3, <1>none DEF Fits
  <2>3. QED BY <2>1, <2>2, ThreadsMove
<1>4. CASE v.state = "sending" /\ t \notin Results
  <2>1. PICK g \in Results :
          /\ pc[g] = "free"
          /\ cm' = [cm EXCEPT ![g] = v, ![t] = None]
          /\ pc' = [pc EXCEPT ![g] = "get", ![t] = "stream"]
    BY <1>4 DEF Continue
  <2>2. Fits(g, "get", v) /\ Fits(t, "stream", None) /\ g # t /\ g \in Threads
    BY <1>1, <1>2, <1>4, <1>none, <2>1 DEF Fits
  <2>3. QED BY <2>1, <2>2, TwoThreadsMove
<1>5. CASE v.state # "sending"
  <2>1. PICK l \in {"free", "stream"} :
          /\ pc' = [pc EXCEPT ![t] = l] /\ cm' = [cm EXCEPT ![t] = None]
          /\ t \in Results => l = "free"
    BY <1>5 DEF Continue, Set, Goto
  <2>2. Fits(t, l, None)
    BY <1>1, <1>2, <2>1 DEF Fits
  <2>3. QED BY <2>1, <2>2, ThreadsMove
<1>6. QED BY <1>3, <1>4, <1>5

LEMMA TInvInit == Init => TInv
<1> SUFFICES ASSUME Init PROVE TInv
  OBVIOUS
<1>1. LedgerOK
  BY LedgerInitOK DEF Init
<1>2. RowsOK
  BY BoundsAreNat DEF Init, RowsOK, Saved
<1>3. ThreadsOK
  <2>1. PICK m \in Monitors : pc = Boot(m)
    BY DEF Init
  <2>2. \A t \in Threads : cm[t] = None /\ pc[t] = (IF t = m THEN "start" ELSE "free")
    BY <2>1 DEF Init, Boot
  <2>3. m \notin Results
    BY AutoCallerAssumption
  <2>4. pc \in [Threads -> Labels] /\ cm \in [Threads -> Record \cup {None}]
    BY <2>1 DEF Init, Boot, Labels
  <2>5. QED BY <2>2, <2>3, <2>4 DEF ThreadsOK, Fits, Labels
<1>4. StreamsOK
  <2>1. PICK m \in Monitors : pc = Boot(m)
    BY DEF Init
  <2>2. \A u \in Monitors : pc[u] \in {"start", "free"}
    BY <2>1 DEF Boot, Threads
  <2>3. at \in [Monitors -> 0..(MaxHeight + 1)] /\ batch \in [Monitors -> Seq(ItemType)]
    BY BoundsAreNat DEF Init
  <2>4. \A u \in Monitors : batch[u] = <<>>
    BY DEF Init
  <2>5. QED BY <2>2, <2>3, <2>4 DEF StreamsOK, Passing
<1>5. FinOK
  BY DEF Init, FinOK
<1>6. QED BY <1>1, <1>2, <1>3, <1>4, <1>5, BoundsAreNat DEF TInv, Init

\* The greatest event height of the table.
LEMMA MaxEventHeightIs ==
  ASSUME RowsOK
  PROVE  /\ MaxEventHeight \in 0..MaxHeight
         /\ \A i \in Saved : rows[i].eventHeight <= MaxEventHeight
         /\ MaxEventHeight # 0 => \E i \in Saved : rows[i].eventHeight = MaxEventHeight
<1> DEFINE S == {0} \cup {rows[i].eventHeight : i \in Saved}
<1>1. \A i \in Saved : rows[i].eventHeight \in 0..MaxHeight
  BY DEF RowsOK, Saved, Record
<1>2. S \subseteq 0..MaxHeight /\ S # {} /\ MaxHeight \in Nat
  BY <1>1, BoundsAreNat
<1>3. Max(S) \in S /\ \A y \in S : Max(S) >= y
  BY <1>2, MaxNat
<1>4. QED BY <1>1, <1>2, <1>3 DEF MaxEventHeight

LEMMA MonitorKeepsStreams ==
  ASSUME TInv, LedgerMove, NEW m \in Monitors, Monitor(m)
  PROVE  StreamsOK'
<1>1. /\ pc \in [Threads -> Labels] /\ m \in Threads
      /\ at \in [Monitors -> 0..(MaxHeight + 1)]
      /\ batch \in [Monitors -> Seq(ItemType)]
      /\ \A u \in Monitors : \A k \in DOMAIN batch[u] : Sensible(batch[u][k])
      /\ \A u \in Monitors : pc[u] \in Passing => at[u] >= 1
      /\ MaxHeight \in Nat
  BY BoundsAreNat DEF TInv, ThreadsOK, StreamsOK, Threads
<1>2. \A e : Sensible(e) => Sensible(e)'
  BY SensibleStays DEF TInv
<1>3. CASE GetMonitorHeight(m)
  <2>1. FirstHeight \in 1..(MaxHeight + 1)
    <3>1. MaxEventHeight \in 0..MaxHeight
      BY MaxEventHeightIs DEF TInv
    <3>2. Head_ + 1 \in 1..(MaxHeight + 1)
      BY <1>1 DEF TInv, LedgerOK, Head_
    <3>3. MonitorHeight \in 1..(MaxHeight + 1)
      BY <1>1, <3>1 DEF MonitorHeight
    <3>4. QED BY <3>2, <3>3 DEF FirstHeight
  <2>2. /\ at' = [at EXCEPT ![m] = FirstHeight] /\ batch' = batch
        /\ pc' = [pc EXCEPT ![m] = "stream"] /\ UNCHANGED ledgerVars
    BY <1>3 DEF GetMonitorHeight, Goto
  <2>3. at' \in [Monitors -> 0..(MaxHeight + 1)]
    BY <1>1, <2>1, <2>2
  <2>4. \A u \in Monitors : pc'[u] \in Passing => at'[u] >= 1
    BY <1>1, <2>1, <2>2 DEF Threads
  <2>5. \A u \in Monitors : \A k \in DOMAIN batch'[u] : Sensible(batch[u][k])'
    BY <1>1, <2>2 DEF ledgerVars, Sensible
  <2>6. QED BY <1>1, <2>2, <2>3, <2>4, <2>5 DEF StreamsOK
<1>4. CASE Fetch(m)
  <2>1. PICK to \in at[m]..Head_ :
          /\ \E events \in EventsBetween(at[m], to) : batch' = [batch EXCEPT ![m] = events]
          /\ at' = [at EXCEPT ![m] = to + 1]
    BY <1>4 DEF Fetch
  <2>2. PICK events \in EventsBetween(at[m], to) : batch' = [batch EXCEPT ![m] = events]
    BY <2>1
  <2>3. pc[m] = "stream" /\ UNCHANGED ledgerVars /\ pc' = pc
    BY <1>4 DEF Fetch, threadVars
  <2>4. at[m] \in Nat /\ at[m] >= 1 /\ to \in Nat /\ to <= Head_ /\ Head_ <= MaxHeight
    BY <1>1, <2>1, <2>3 DEF Passing, TInv, LedgerOK, Head_
  <2>5. events \in Seq(ItemType) /\ \A k \in DOMAIN events : Sensible(events[k])
    BY <2>2, <2>4, EventsAreTold DEF TInv
  <2>6. at' \in [Monitors -> 0..(MaxHeight + 1)] /\ batch' \in [Monitors -> Seq(ItemType)]
    BY <1>1, <2>1, <2>2, <2>4, <2>5 DEF Head_
  <2>7. \A u \in Monitors : \A k \in DOMAIN batch'[u] : Sensible(batch'[u][k])
    BY <1>1, <2>2, <2>5
  <2>8. \A u \in Monitors : pc'[u] \in Passing => at'[u] >= 1
    BY <1>1, <2>1, <2>3, <2>4
  <2>9. QED BY <2>3, <2>6, <2>7, <2>8 DEF StreamsOK, ledgerVars, Sensible
<1>5. CASE ConnectionLost(m) \/ SaveDoneFails(m)
  <2>1. /\ at' = at /\ batch' = [batch EXCEPT ![m] = <<>>] /\ pc' = [pc EXCEPT ![m] = "start"]
        /\ UNCHANGED ledgerVars
    BY <1>5 DEF ConnectionLost, SaveDoneFails, StopStream, Goto
  <2>2. batch' \in [Monitors -> Seq(ItemType)]
    BY <1>1, <2>1
  <2>3. \A u \in Monitors : \A k \in DOMAIN batch'[u] : Sensible(batch'[u][k])
    BY <1>1, <2>1
  <2>4. \A u \in Monitors : pc'[u] \in Passing => at'[u] >= 1
    BY <1>1, <2>1 DEF Threads, Passing
  <2>5. QED BY <1>1, <2>1, <2>2, <2>3, <2>4 DEF StreamsOK, ledgerVars, Sensible
<1>6. CASE OnCallMessage(m) \/ OnCallMessageSent(m) \/ OnResponse(m, "success")
           \/ OnResponse(m, "failure") \/ OnExecuted(m)
  <2>1. PICK kind : NextEvent(m, kind)
    BY <1>6 DEF OnCallMessage, OnCallMessageSent, OnResponse, OnExecuted
  <2>2. /\ pc[m] = "stream" /\ batch[m] # <<>> /\ batch' = [batch EXCEPT ![m] = Tail(@)]
        /\ at' = at /\ UNCHANGED ledgerVars
    BY <2>1 DEF NextEvent
  <2>3. /\ Tail(batch[m]) \in Seq(ItemType)
        /\ \A k \in DOMAIN Tail(batch[m]) : Sensible(Tail(batch[m])[k])
    <3>1. /\ batch[m] \in Seq(ItemType) /\ \A k \in DOMAIN batch[m] : Sensible(batch[m][k])
      BY <1>1
    <3>2. /\ Tail(batch[m]) \in Seq(ItemType)
          /\ \A k \in DOMAIN Tail(batch[m]) :
               k + 1 \in DOMAIN batch[m] /\ Tail(batch[m])[k] = batch[m][k + 1]
      BY <2>2, <3>1
    <3>3. QED BY <3>1, <3>2
  <2>4. batch' \in [Monitors -> Seq(ItemType)]
    BY <1>1, <2>2, <2>3
  <2>5. \A u \in Monitors : \A k \in DOMAIN batch'[u] : Sensible(batch'[u][k])
    BY <1>1, <2>2, <2>3
  <2>6. \A u \in Monitors : pc'[u] \in Passing => pc[u] \in Passing
    <3>1. ASSUME NEW u \in Monitors, pc'[u] \in Passing PROVE u = m \/ pc'[u] = pc[u]
      <4>1. u \in Threads /\ u \notin Results
        BY AutoCallerAssumption DEF Threads
      <4>2. QED
        BY <1>1, <1>6, <3>1, <4>1 DEF OnCallMessage, OnCallMessageSent, OnResponse, OnExecuted,
              Goto, threadVars, Spawned, Passing
    <3>2. QED BY <2>2, <3>1 DEF Passing
  <2>7. \A u \in Monitors : pc'[u] \in Passing => at'[u] >= 1
    BY <1>1, <2>2, <2>6
  <2>8. QED BY <1>1, <2>2, <2>4, <2>5, <2>7 DEF StreamsOK, ledgerVars, Sensible
<1>7. CASE SaveDone(m)
  <2>1. UNCHANGED streamVars /\ pc[m] = "save" /\ pc' = [pc EXCEPT ![m] = "stream"]
    BY <1>7 DEF SaveDone, Goto
  <2>2. \A u \in Monitors : pc'[u] \in Passing => pc[u] \in Passing
    BY <1>1, <2>1 DEF Passing, Threads
  <2>3. QED BY <2>1, <2>2, BatchStays DEF TInv
<1>8. QED BY <1>3, <1>4, <1>5, <1>6, <1>7 DEF Monitor

\* A record is in the table under its own key.
LEMMA SavedRecord ==
  ASSUME RowsOK, NEW i \in Saved
  PROVE  rows[i] \in Record /\ rows[i].id = i /\ i \in 1..ids /\ ids \in Nat
BY BoundsAreNat DEF RowsOK, Saved, Ids

LEMMA MonitorKeepsTables ==
  ASSUME TInv, NEW m \in Monitors, Monitor(m)
  PROVE  RowsOK' /\ ThreadsOK'
<1>1. /\ m \in Threads /\ m \notin Results /\ ids \in Nat /\ LedgerOK /\ RowsOK /\ ThreadsOK
      /\ StreamsOK /\ pc \in [Threads -> Labels] /\ cm \in [Threads -> Record \cup {None}]
      /\ \A t \in Threads : Fits(t, pc[t], cm[t]) /\ (cm[t] # None => cm[t].id <= ids)
      /\ Monitors \cap Results = {} /\ Results \subseteq Threads
  BY AutoCallerAssumption DEF TInv, ThreadsOK, RowsOK, Threads
<1>2. None \notin Record
  BY NoneAssumption
<1>rows. UNCHANGED dbVars => RowsOK' /\ ids' = ids
  BY <1>1 DEF dbVars, RowsOK, Saved
<1>idle. /\ Fits(m, "start", None) /\ Fits(m, "stream", None)
  BY <1>1 DEF Fits, Labels
\* A thread comes to the label l with the record v, or another is given it.
<1>next. ASSUME NEW l, NEW v, UNCHANGED dbVars, pc' = [pc EXCEPT ![m] = l],
                cm' = [cm EXCEPT ![m] = v], Fits(m, l, v), v # None => v.id <= ids
         PROVE  RowsOK' /\ ThreadsOK'
  <2>1. RowsOK' /\ ids' >= ids /\ ids' \in Nat /\ ids' = ids
    BY <1>1, <1>rows, <1>next
  <2>2. ThreadsOK /\ RowsOK /\ m \in Threads
    BY <1>1
  <2>3. v # None => v.id <= ids'
    BY <1>next, <2>1
  <2>4. QED BY <1>next, <2>1, <2>2, <2>3, ThreadsMove
<1>spawn. ASSUME NEW g \in Results, pc[g] = "free", NEW v \in Record, v.id <= ids,
                 v.state = "sending", UNCHANGED dbVars,
                 pc' = [pc EXCEPT ![g] = "get"], cm' = [cm EXCEPT ![g] = v]
          PROVE  RowsOK' /\ ThreadsOK'
  <2>1. Fits(g, "get", v)
    BY <1>1, <1>2, <1>spawn DEF Fits, Labels
  <2>2. RowsOK' /\ ids' >= ids /\ ids' \in Nat /\ ids' = ids
    BY <1>1, <1>rows, <1>spawn
  <2>3. ThreadsOK /\ RowsOK /\ g \in Threads /\ v.id <= ids'
    BY <1>1, <1>spawn, <2>2
  <2>4. QED BY <1>spawn, <2>1, <2>2, <2>3, ThreadsMove
<1>same. ASSUME UNCHANGED <<dbVars, threadVars>>
         PROVE  RowsOK' /\ ThreadsOK'
  BY <1>1, <1>rows, <1>same DEF threadVars, ThreadsOK
<1>event. ASSUME NEW kind, NextEvent(m, kind)
          PROVE  /\ UNCHANGED dbVars /\ pc[m] = "stream" /\ cm[m] = None
                 /\ Sensible(Head(batch[m])) /\ Head(batch[m]).kind = kind
  <2>1. /\ UNCHANGED dbVars /\ pc[m] = "stream" /\ batch[m] # <<>>
        /\ Head(batch[m]).kind = kind
    BY <1>event DEF NextEvent
  <2>2. batch[m] \in Seq(ItemType) /\ \A k \in DOMAIN batch[m] : Sensible(batch[m][k])
    BY <1>1 DEF StreamsOK
  <2>3. Head(batch[m]) = batch[m][1] /\ 1 \in DOMAIN batch[m]
    BY <2>1, <2>2
  <2>4. QED BY <1>1, <2>1, <2>2, <2>3 DEF Fits
<1>3. CASE GetMonitorHeight(m)
  <2>1. pc' = [pc EXCEPT ![m] = "stream"] /\ UNCHANGED <<dbVars, cm>> /\ pc[m] = "start"
    BY <1>3 DEF GetMonitorHeight, Goto
  <2>2. cm[m] = None
    BY <1>1, <2>1 DEF Fits
  <2>3. cm' = [cm EXCEPT ![m] = None]
    BY <1>1, <2>1, <2>2
  <2>4. QED BY <1>idle, <1>next, <2>1, <2>3
<1>4. CASE Fetch(m)
  BY <1>same, <1>4 DEF Fetch
<1>5. CASE ConnectionLost(m)
  <2>1. pc' = [pc EXCEPT ![m] = "start"] /\ UNCHANGED <<dbVars, cm>> /\ pc[m] = "stream"
    BY <1>5 DEF ConnectionLost, StopStream, Goto
  <2>2. cm[m] = None
    BY <1>1, <2>1 DEF Fits
  <2>3. cm' = [cm EXCEPT ![m] = None]
    BY <1>1, <2>1, <2>2
  <2>4. QED BY <1>idle, <1>next, <2>1, <2>3
<1>6. CASE OnCallMessage(m)
  <2> DEFINE e == Head(batch[m])
             found == FindOne(e.req)
  <2>1. /\ UNCHANGED dbVars /\ pc[m] = "stream" /\ Sensible(e) /\ e.kind = "message"
    BY <1>6, <1>event DEF OnCallMessage
  <2>2. CASE cm' = [cm EXCEPT ![m] = NewCall(e)] /\ pc' = [pc EXCEPT ![m] = "invoke"]
    <3>1. NewCall(e) \in Record /\ NewCall(e).id <= ids /\ NewCall(e) # None
      BY <1>1, <1>2, <2>1, NewRecords
    <3>2. Fits(m, "invoke", NewCall(e))
      BY <1>1, <3>1 DEF Fits, Labels
    <3>3. QED BY <1>next, <2>1, <2>2, <3>1, <3>2
  <2>3. CASE /\ Is(found, "sending")
             /\ \E g \in Results : Spawned(g, found) /\ Goto(g, "get")
    <3>1. found \in Record /\ found.id <= ids /\ found.state = "sending"
      BY <1>1, <2>3, FoundRecord DEF Is
    <3>2. QED BY <1>spawn, <2>1, <2>3, <3>1 DEF Spawned, Goto
  <2>4. CASE UNCHANGED threadVars
    BY <1>same, <2>1, <2>4
  <2>5. QED BY <1>6, <2>2, <2>3, <2>4 DEF OnCallMessage, Goto
<1>7. CASE OnCallMessageSent(m)
  <2> DEFINE e == Head(batch[m])
  <2>1. /\ UNCHANGED dbVars /\ pc[m] = "stream" /\ Sensible(e) /\ e.kind = "sent"
    BY <1>7, <1>event DEF OnCallMessageSent
  <2>2. CASE cm' = [cm EXCEPT ![m] = NewRollback(e)] /\ pc' = [pc EXCEPT ![m] = "save"]
    <3>1. /\ NewRollback(e) \in Record /\ NewRollback(e).id <= ids /\ NewRollback(e) # None
          /\ NewRollback(e).req \in Sns
      BY <1>1, <1>2, <2>1, NewRecords DEF Sensible
    <3>2. Fits(m, "save", NewRollback(e))
      BY <1>1, <3>1 DEF Fits, Labels
    <3>3. QED BY <1>next, <2>1, <2>2, <3>1, <3>2
  <2>3. CASE UNCHANGED threadVars
    BY <1>same, <2>1, <2>3
  <2>4. QED BY <1>7, <2>2, <2>3 DEF OnCallMessageSent, Goto
<1>8. ASSUME NEW outcome \in {"success", "failure"}, OnResponse(m, outcome)
      PROVE  RowsOK' /\ ThreadsOK'
  <2> DEFINE e == Head(batch[m])
             found == FindOne(e.req)
             v == NewResponse(e, found)
  <2>1. /\ UNCHANGED dbVars /\ pc[m] = "stream" /\ Sensible(e) /\ e.kind = outcome
    BY <1>8, <1>event DEF OnResponse
  <2>2. CASE /\ Is(found, "none") /\ cm' = [cm EXCEPT ![m] = v]
             /\ pc' = [pc EXCEPT ![m] = IF Is(v, "notApplicable") THEN "save" ELSE "invoke"]
    <3>1. found \in Record /\ found.id <= ids
      BY <1>1, <2>2, FoundRecord DEF Is
    <3>2. /\ v \in Record /\ v.id <= ids /\ v.req \in Sns /\ v # None
      BY <1>1, <1>2, <1>8, <2>1, <3>1, ResponseRecord DEF Sensible
    <3> HIDE DEF v
    <3>3. PICK l \in {"save", "invoke"} : pc' = [pc EXCEPT ![m] = l]
      BY <2>2
    <3>4. Fits(m, l, v)
      BY <1>1, <3>2 DEF Fits, Labels
    <3>5. QED BY <1>next, <2>1, <2>2, <3>2, <3>3, <3>4
  <2>3. CASE /\ Is(found, "sending")
             /\ \E g \in Results : Spawned(g, found) /\ Goto(g, "get")
    <3>1. found \in Record /\ found.id <= ids /\ found.state = "sending"
      BY <1>1, <2>3, FoundRecord DEF Is
    <3>2. QED BY <1>spawn, <2>1, <2>3, <3>1 DEF Spawned, Goto
  <2>4. CASE UNCHANGED threadVars
    BY <1>same, <2>1, <2>4
  <2>5. QED BY <1>8, <2>2, <2>3, <2>4 DEF OnResponse, Goto
<1>9. CASE OnExecuted(m)
  <2> DEFINE e == Head(batch[m])
             found == FindOne(e.req)
             v == Done(found, e)
  <2>1. /\ UNCHANGED dbVars /\ pc[m] = "stream" /\ Sensible(e) /\ e.kind = "executed"
    BY <1>9, <1>event DEF OnExecuted
  <2>2. CASE UNCHANGED threadVars
    BY <1>same, <2>1, <2>2
  <2>3. CASE pc' = [t \in Threads |-> "panic"] /\ UNCHANGED cm
    <3>1. \A t \in Threads : Fits(t, "panic", cm[t]) /\ pc'[t] = "panic" /\ cm'[t] = cm[t]
      BY <1>1, <2>3 DEF Fits, Labels
    <3>2. pc' \in [Threads -> Labels] /\ cm' \in [Threads -> Record \cup {None}]
      BY <1>1, <2>3 DEF Labels
    <3>3. QED BY <1>1, <1>rows, <2>1, <3>1, <3>2 DEF ThreadsOK
  <2>4. CASE /\ found # None /\ cm' = [cm EXCEPT ![m] = v]
             /\ pc' = [pc EXCEPT ![m] = "save"]
    <3>1. found \in Record /\ found.id <= ids
      BY <1>1, <2>4, FoundRecord
    <3>2. e.tx \in 0..MaxTx /\ e.height \in 0..MaxHeight /\ e.block \in 0..MaxFork
      BY <1>1, <2>1, BoundsAreNat DEF Sensible, ItemType, LedgerOK
    <3>3. v \in Record /\ v.id <= ids /\ v.state = "done" /\ v # None
      <4>1. v \in Record
        <5>1. "done" \in States
          BY DEF States
        <5>2. [found EXCEPT !.state = "done", !.tx = e.tx,
                            !.blockHeight = e.height, !.blockId = e.block] \in Record
          <6> HIDE DEF e, found
          <6>1. QED BY <3>1, <3>2, <5>1 DEF Record
        <5>3. QED BY <5>2 DEF Done
      <4>2. v.id = found.id /\ v.state = "done"
        BY <3>1 DEF Done, Record
      <4>3. QED BY <1>2, <3>1, <4>1, <4>2
    <3> HIDE DEF v
    <3>4. Fits(m, "save", v)
      BY <1>1, <3>3 DEF Fits, Labels
    <3>5. QED BY <1>next, <2>1, <2>4, <3>3, <3>4
  <2>5. QED BY <1>9, <2>2, <2>3, <2>4 DEF OnExecuted, Goto
<1>10. CASE SaveDone(m)
  <2>1. /\ pc[m] = "save" /\ Save(cm[m]) /\ cm' = [cm EXCEPT ![m] = None]
        /\ pc' = [pc EXCEPT ![m] = "stream"]
    BY <1>10 DEF SaveDone, Goto
  <2>2. /\ cm[m] \in Record /\ cm[m].id <= ids
        /\ cm[m].state = "done" \/ cm[m].req \in Sns
    BY <1>1, <2>1 DEF Fits
  <2>3. cm[m].req \in Reqs => cm[m].state \notin {"none", "notApplicable"}
    BY <2>2, LedgerAssumption
  <2>4. RowsOK' /\ ids' >= ids /\ ids' \in Nat
    BY <1>1, <2>1, <2>2, <2>3, SaveKeeps
  <2>5. QED BY <1>1, <1>idle, <2>1, <2>4, ThreadsMove
<1>11. CASE SaveDoneFails(m)
  <2>1. /\ cm' = [cm EXCEPT ![m] = None] /\ pc' = [pc EXCEPT ![m] = "start"]
        /\ UNCHANGED dbVars
    BY <1>11 DEF SaveDoneFails, StopStream, Goto
  <2>2. QED BY <1>idle, <1>next, <2>1
<1>12. QED
  BY <1>3, <1>4, <1>5, <1>6, <1>7, <1>8, <1>9, <1>10, <1>11 DEF Monitor

LEMMA ExecuteCallKeeps ==
  ASSUME TInv, LedgerMove, NEW t \in Threads, ExecuteCall(t)
  PROVE  RowsOK' /\ ThreadsOK' /\ StreamsOK'
<1>1. /\ ids \in Nat /\ LedgerOK /\ RowsOK /\ ThreadsOK /\ StreamsOK
      /\ pc \in [Threads -> Labels] /\ cm \in [Threads -> Record \cup {None}]
      /\ Fits(t, pc[t], cm[t]) /\ (cm[t] # None => cm[t].id <= ids)
  BY DEF TInv, ThreadsOK, RowsOK
<1>2. None \notin Record
  BY NoneAssumption
<1>3. pc[t] \in {"invoke", "saveIf", "write"} /\ UNCHANGED streamVars
  BY DEF ExecuteCall, InvokeSends, InvokeSkips, InvokeFails, SaveIf, SaveIfReads, SaveIfWrites,
         SaveIfFails
<1>4. cm[t] \in Record /\ cm[t].id <= ids /\ cm[t] # None
  BY <1>1, <1>2, <1>3 DEF Fits
<1>rows. UNCHANGED dbVars => RowsOK' /\ ids' = ids
  BY <1>1 DEF dbVars, RowsOK, Saved
<1>5. CASE InvokeSends(t) \/ InvokeSkips(t) \/ InvokeFails(t)
  <2>1. PICK state \in {"sending", "skip", "error"}, tx \in 0..MaxTx :
          cm' = [cm EXCEPT ![t] = [cm[t] EXCEPT !.state = state, !.tx = tx]]
    <3>1. cm[t] = [cm[t] EXCEPT !.tx = cm[t].tx] /\ cm[t].tx \in 0..MaxTx
      BY <1>4 DEF Record
    <3>2. [cm[t] EXCEPT !.state = "error"] = [cm[t] EXCEPT !.state = "error", !.tx = cm[t].tx]
      BY <1>4 DEF Record
    <3>3. 0 \in 0..MaxTx
      BY BoundsAreNat
    <3>4. CASE InvokeSends(t)
      <4>1. NewTx \in 0..MaxTx
        BY <1>1, <3>4, BoundsAreNat DEF InvokeSends, Send, NewTx, LedgerOK
      <4>2. QED BY <3>4, <4>1 DEF InvokeSends, Set, AsSending
    <3>5. QED BY <1>5, <3>1, <3>2, <3>3, <3>4 DEF InvokeSkips, InvokeFails, Set
  <2> DEFINE v == [cm[t] EXCEPT !.state = state, !.tx = tx]
  <2>2. state \in States
    BY DEF States
  <2>3. v \in Record /\ v.id = cm[t].id /\ v.state = state
    BY <1>4, <2>2 DEF Record
  <2> HIDE DEF v
  <2>4. Fits(t, "saveIf", v) /\ v # None /\ v.id <= ids
    BY <1>2, <1>4, <2>3 DEF Fits, Labels
  <2>5. pc' = [pc EXCEPT ![t] = "saveIf"] /\ UNCHANGED dbVars /\ cm' = [cm EXCEPT ![t] = v]
    BY <1>5, <2>1 DEF InvokeSends, InvokeSkips, InvokeFails, Goto, v
  <2>6. RowsOK' /\ ids' >= ids /\ ids' \in Nat /\ ids' = ids
    BY <1>1, <1>rows, <2>5
  <2>7. v # None => v.id <= ids'
    BY <2>4, <2>6
  <2>8. ThreadsOK'
    BY <1>1, <2>4, <2>5, <2>6, <2>7, ThreadsMove
  <2>9. \A m \in Monitors : pc'[m] \in Passing => pc[m] \in Passing
    BY <1>1, <1>5, <2>5 DEF Passing, Threads, InvokeSends, InvokeSkips, InvokeFails
  <2>10. QED BY <1>1, <1>3, <2>6, <2>8, <2>9, BatchStays
\* The rest ends in Continue, or goes from reading to writing.
<1>6. ASSUME NEW v, v \in Record, v.id <= ids', Continue(t, v), RowsOK', ids' >= ids, ids' \in Nat,
             pc[t] \in {"saveIf", "write"}
      PROVE  RowsOK' /\ ThreadsOK' /\ StreamsOK'
  <2>1. ThreadsOK'
    BY <1>1, <1>6, ContinueKeeps
  <2>2. \A m \in Monitors : pc'[m] \in Passing => pc[m] \in Passing
    <3>1. ASSUME NEW m \in Monitors, m # t PROVE pc'[m] = pc[m]
      <4>1. m \in Threads /\ m \notin Results
        BY AutoCallerAssumption DEF Threads
      <4>2. QED BY <1>1, <1>6, <3>1, <4>1 DEF Continue, Goto
    <3>2. QED BY <1>6, <3>1 DEF Passing
  <2>3. QED BY <1>1, <1>3, <1>6, <2>1, <2>2, BatchStays
<1>7. CASE SaveIf(t)
  <2>1. pc[t] = "saveIf" /\ Continue(t, WithKey(cm[t]))
    BY <1>7 DEF SaveIf
  <2>2. cm[t].state \in {"sending", "skip", "error", "sent"}
    BY <1>1, <2>1 DEF Fits
  <2>3. CASE Save(cm[t])
    <3>1. /\ RowsOK' /\ ids' >= ids /\ ids' \in Nat
          /\ WithKey(cm[t]) \in Record /\ WithKey(cm[t]).id \in 1..ids'
      BY <1>1, <1>4, <2>2, <2>3, SaveKeeps
    <3>2. QED BY <1>6, <2>1, <3>1
  <2>4. CASE UNCHANGED dbVars /\ ~ NotDone(cm[t])
    <3>1. WithKey(cm[t]) = cm[t]
      BY <2>4 DEF WithKey, NotDone
    <3>2. RowsOK' /\ ids' >= ids /\ ids' \in Nat /\ ids' = ids
      BY <1>1, <1>rows, <2>4
    <3>3. QED BY <1>4, <1>6, <2>1, <3>1, <3>2
  <2>5. QED BY <1>7, <2>3, <2>4 DEF SaveIf
<1>8. CASE SaveIfReads(t)
  <2>1. pc[t] = "saveIf" /\ UNCHANGED dbVars /\ cm[t].id # 0
    BY <1>8 DEF SaveIfReads
  <2>2. RowsOK' /\ ids' >= ids /\ ids' \in Nat /\ ids' = ids
    BY <1>1, <1>rows, <2>1
  <2>3. CASE pc' = [pc EXCEPT ![t] = "write"] /\ UNCHANGED cm
    <3>1. Fits(t, "write", cm[t])
      BY <1>1, <2>1 DEF Fits, Labels
    <3>2. cm' = [cm EXCEPT ![t] = cm[t]] /\ cm[t].id <= ids'
      BY <1>1, <1>4, <2>2, <2>3
    <3>3. ThreadsOK'
      BY <1>1, <2>2, <2>3, <3>1, <3>2, ThreadsMove
    <3>4. \A m \in Monitors : pc'[m] \in Passing => pc[m] \in Passing
      BY <1>1, <2>1, <2>3 DEF Passing, Threads
    <3>5. QED BY <1>1, <1>3, <2>2, <3>3, <3>4, BatchStays
  <2>4. CASE Continue(t, cm[t])
    BY <1>4, <1>6, <2>1, <2>2, <2>4
  <2>5. QED BY <1>8, <2>3, <2>4 DEF SaveIfReads, Goto
<1>9. CASE SaveIfWrites(t)
  <2>1. pc[t] = "write" /\ Save(cm[t]) /\ Continue(t, cm[t])
    BY <1>9 DEF SaveIfWrites
  <2>2. cm[t].state \in {"sending", "skip", "error", "sent"}
    BY <1>1, <2>1 DEF Fits
  <2>3. RowsOK' /\ ids' >= ids /\ ids' \in Nat
    BY <1>1, <1>4, <2>1, <2>2, SaveKeeps
  <2>4. cm[t].id <= ids'
    BY <1>1, <1>4, <2>3 DEF Record
  <2>5. QED BY <1>4, <1>6, <2>1, <2>3, <2>4
<1>10. CASE SaveIfFails(t)
  <2>1. pc[t] \in {"saveIf", "write"} /\ Continue(t, cm[t]) /\ UNCHANGED dbVars
    BY <1>10 DEF SaveIfFails
  <2>2. RowsOK' /\ ids' >= ids /\ ids' \in Nat /\ ids' = ids
    BY <1>1, <1>rows, <2>1
  <2>3. QED BY <1>4, <1>6, <2>1, <2>2
<1>11. QED BY <1>5, <1>7, <1>8, <1>9, <1>10 DEF ExecuteCall

LEMMA CallResultKeeps ==
  ASSUME TInv, LedgerMove, NEW g \in Results, CallResult(g)
  PROVE  RowsOK' /\ ThreadsOK' /\ StreamsOK'
<1>1. /\ ids \in Nat /\ LedgerOK /\ RowsOK /\ ThreadsOK /\ StreamsOK /\ g \in Threads
      /\ pc \in [Threads -> Labels] /\ cm \in [Threads -> Record \cup {None}]
      /\ Fits(g, pc[g], cm[g]) /\ (cm[g] # None => cm[g].id <= ids)
      /\ g \notin Monitors
  BY AutoCallerAssumption DEF TInv, ThreadsOK, RowsOK, Threads
<1>2. None \notin Record /\ {"sent", "skip", "error"} \subseteq States /\ 0 \in 0..MaxTx
  BY NoneAssumption, BoundsAreNat DEF States
<1>3. pc[g] = "get" /\ UNCHANGED <<streamVars, dbVars, ledgerVars>>
  BY DEF CallResult, ResultSuccess, ResultFailure, ResultNotFound
<1>4. cm[g] \in Record /\ cm[g].id <= ids /\ cm[g].state = "sending"
  BY <1>1, <1>2, <1>3 DEF Fits
<1>5. PICK l \in {"saveIf", "invoke"}, v \in Record :
        /\ pc' = [pc EXCEPT ![g] = l] /\ cm' = [cm EXCEPT ![g] = v]
        /\ v.id = cm[g].id /\ (l = "saveIf" => v.state \in {"sent", "skip", "error"})
  <2>1. CASE ResultSuccess(g)
    <3>1. PICK e \in Included :
            cm' = [cm EXCEPT ![g] = [cm[g] EXCEPT !.state = "sent", !.blockHeight = e.height,
                                                  !.blockId = e.block]]
      BY <2>1 DEF ResultSuccess, Receipts, Set
    <3>2. PICK h \in DOMAIN chain : \E i \in DOMAIN chain[h].items : e = chain[h].items[i]
      BY DEF Included, ItemsOf
    <3>3. Sensible(e)
      BY <1>1, <3>2 DEF LedgerOK, BlockOK, ItemOK
    <3>4. e.height \in 0..MaxHeight /\ e.block \in 0..MaxFork
      BY <1>1, <3>3, BoundsAreNat DEF Sensible, ItemType, LedgerOK
    <3>5. [cm[g] EXCEPT !.state = "sent", !.blockHeight = e.height, !.blockId = e.block] \in Record
      BY <1>2, <1>4, <3>4 DEF Record
    <3>6. pc' = [pc EXCEPT ![g] = "saveIf"]
      BY <2>1 DEF ResultSuccess, Goto
    <3>7. QED BY <1>4, <3>1, <3>5, <3>6 DEF Record
  <2>2. CASE ResultFailure(g)
    <3>1. /\ [cm[g] EXCEPT !.state = "skip", !.tx = 0] \in Record
          /\ [cm[g] EXCEPT !.state = "error"] \in Record
      BY <1>2, <1>4 DEF Record
    <3>2. QED BY <1>4, <2>2, <3>1 DEF ResultFailure, Goto, Set, Record
  <2>3. CASE ResultNotFound(g)
    <3>1. [cm[g] EXCEPT !.tx = 0] \in Record
      BY <1>2, <1>4 DEF Record
    <3>2. QED BY <1>4, <2>3, <3>1 DEF ResultNotFound, Goto, Set, Record
  <2>4. QED BY <2>1, <2>2, <2>3 DEF CallResult
<1>6. Fits(g, l, v) /\ v # None
  BY <1>1, <1>2, <1>5 DEF Fits, Labels
<1>7. RowsOK' /\ ids' = ids /\ ids' >= ids /\ ids' \in Nat
  BY <1>1, <1>3 DEF dbVars, RowsOK, Saved
<1>8. v.id <= ids'
  BY <1>4, <1>5, <1>7
<1>9. ThreadsOK'
  BY <1>1, <1>5, <1>6, <1>7, <1>8, ThreadsMove
<1>10. \A m \in Monitors : pc'[m] \in Passing => pc[m] \in Passing
  BY <1>1, <1>5 DEF Threads
<1>11. QED BY <1>1, <1>3, <1>7, <1>9, <1>10, BatchStays

\* Marking a row final leaves its other columns.
SameButMarks(v, w) ==
  \/ v = None /\ w = None
  \/ /\ v \in Record /\ w \in Record
     /\ w.id = v.id /\ w.req = v.req /\ w.from = v.from /\ w.state = v.state /\ w.tx = v.tx
     /\ w.triggerHeight = v.triggerHeight /\ w.triggerId = v.triggerId
     /\ w.eventHeight = v.eventHeight /\ w.eventId = v.eventId
     /\ w.blockHeight = v.blockHeight /\ w.blockId = v.blockId

Table == [Ids -> Record \cup {None}]

LEMMA MarkedTable ==
  ASSUME RowsOK, NEW marks
  PROVE  /\ WithMarks(marks) \in Table
         /\ \A i \in Ids : /\ SameButMarks(rows[i], rows[i])
                           /\ SameButMarks(rows[i], WithMarks(marks)[i])
         /\ \A i \in Saved :
              /\ WithMarks(marks)[i].eventFinal => rows[i].eventFinal \/ <<"event", i>> \in marks
              /\ WithMarks(marks)[i].triggerFinal
                   => rows[i].triggerFinal \/ <<"trigger", i>> \in marks
<1>1. rows \in Table /\ Saved \subseteq Ids /\ \A i \in Saved : rows[i] \in Record
  BY DEF RowsOK, Table, Saved
<1>same. \A i \in Ids : SameButMarks(rows[i], rows[i])
  BY <1>1 DEF SameButMarks, Table
<1>2. ASSUME NEW i \in Saved, NEW w, w = WithMarks(marks)[i]
      PROVE  /\ SameButMarks(rows[i], w)
             /\ w.eventFinal => rows[i].eventFinal \/ <<"event", i>> \in marks
             /\ w.triggerFinal => rows[i].triggerFinal \/ <<"trigger", i>> \in marks
  <2>1. PICK v \in Record : v = rows[i]
    BY <1>1
  <2>2. PICK x, y, z \in BOOLEAN :
          /\ x = (v.triggerFinal \/ <<"trigger", i>> \in marks)
          /\ y = (v.eventFinal \/ <<"event", i>> \in marks)
          /\ z = (v.final \/ <<"block", i>> \in marks)
    BY Zenon
  <2>3. w = [v EXCEPT !.triggerFinal = x, !.eventFinal = y, !.final = z]
    BY <1>1, <1>2, <2>1, <2>2 DEF WithMarks
  <2>4. w \in Record /\ w.eventFinal = y /\ w.triggerFinal = x
    BY <2>2, <2>3 DEF Record
  <2>5. SameButMarks(v, w)
    BY <2>3, <2>4 DEF SameButMarks, Record
  <2>6. QED BY <2>1, <2>2, <2>4, <2>5
<1>3. ASSUME NEW i \in Ids PROVE SameButMarks(rows[i], WithMarks(marks)[i])
  <2>1. CASE i \in Saved
    BY <1>2, <2>1
  <2>2. CASE i \notin Saved
    <3>1. WithMarks(marks)[i] = rows[i]
      BY <2>2 DEF WithMarks
    <3>2. QED BY <1>same, <3>1
  <2>3. QED BY <2>1, <2>2
<1>4. WithMarks(marks) \in Table
  <2>1. \A v, w : SameButMarks(v, w) => w \in Record \cup {None}
    BY DEF SameButMarks
  <2>2. \A i \in Ids : WithMarks(marks)[i] \in Record \cup {None}
    BY <1>3, <2>1
  <2>3. QED BY <2>2 DEF WithMarks, Table
<1>5. QED BY <1>same, <1>2, <1>3, <1>4

\* A block of a record that may be marked, D being the doubted ones.
Good(b, D) == b.height # 0 /\ b.height <= final /\ (OnChain(b.height, b.id) \/ b \in D)

\* The marks of the open transaction, with those of the rows it takes now.
TookMarks(marks) ==
  \/ marks = fin.marks
  \/ /\ marks = fin.marks \cup ({fin.phase} \X Updated)
     /\ \A i \in Updated : i \in Saved /\ Good(BlockIn(rows[i], fin.phase), doubted')

\* What a finalizer does to the tables: it marks, or drops everything from the first block
\* that is gone.
LEMMA FinalizeSteps ==
  ASSUME RowsOK, FinOK, Finalizer, final \in Nat
  PROVE  /\ UNCHANGED <<ledgerVars, ids, cm, streamVars, crashes>> /\ doubted \subseteq doubted'
         /\ \/ /\ UNCHANGED <<rows, pc>>
               /\ fin' # None => fin'.marks = {} \/ (fin # None /\ TookMarks(fin'.marks))
            \/ /\ fin # None /\ fin' = None
               /\ \E marks :
                    /\ TookMarks(marks)
                    /\ \/ rows' = WithMarks(marks) /\ UNCHANGED pc
                       \/ /\ fin.found # None
                          /\ \E i \in DOMAIN fin.found :
                               /\ ~ OnChain(fin.found[i].height, fin.found[i].id)
                               /\ DropBlock(WithMarks(marks), fin.found[i].height)
<1>1. CASE \E task \in {"call", "rollback"}, h \in 1..MaxHeight : FinalizeBegins(task, h)
  <2>1. PICK task, h : FinalizeBegins(task, h)
    BY <1>1
  <2>2. fin'.marks = {}
    BY <2>1 DEF FinalizeBegins
  <2>3. QED BY <2>1, <2>2 DEF FinalizeBegins, dbVars, threadVars
<1>2. CASE FinalizeFinds
  <2>1. fin # None /\ fin'.marks = fin.marks
    BY <1>2 DEF FinalizeFinds, FinOK
  <2>2. QED BY <1>2, <2>1 DEF FinalizeFinds, TookMarks, dbVars, threadVars
<1>3. CASE FinalizeFails
  BY <1>3 DEF FinalizeFails, dbVars, threadVars
<1>4. CASE FinalizeDrops
  <2>1. PICK told \in Answers :
          /\ Refused(told) # {}
          /\ DropBlock(WithMarks(fin.marks), fin.found[Min(Refused(told))].height)
    BY <1>4 DEF FinalizeDrops
  <2>2. fin # None /\ fin.found # None /\ told \in [DOMAIN fin.found -> BOOLEAN]
        /\ DOMAIN fin.found \subseteq Ids
    BY <1>4, <2>1 DEF FinalizeDrops, Asking, Answers, FinOK
  <2>3. Refused(told) \subseteq DOMAIN fin.found /\ Refused(told) \subseteq Nat
    BY <2>2 DEF Refused, Ids
  <2>4. PICK i \in Refused(told) : i = Min(Refused(told))
    BY <2>1, <2>3, MinNat
  <2>5. i \in DOMAIN fin.found /\ told[i] = FALSE
    BY <2>2, <2>3, <2>4 DEF Refused
  <2>6. ~ OnChain(fin.found[i].height, fin.found[i].id)
    <3>1. told[i] \in IsFinalized(fin.found[i])
      BY <2>1, <2>2, <2>5 DEF Answers
    <3>2. QED BY <2>5, <3>1 DEF IsFinalized
  <2>7. QED BY <1>4, <2>1, <2>2, <2>4, <2>5, <2>6 DEF FinalizeDrops, TookMarks
<1>5. CASE FinalizeUpdates
  <2> DEFINE marks == fin.marks \cup ({fin.phase} \X Updated)
  <2>1. PICK told \in Answers :
          /\ Refused(told) = {}
          /\ doubted' = doubted \cup Doubtful(told)
          /\ \/ rows' = WithMarks(marks) /\ fin' = None
             \/ /\ fin' = [fin EXCEPT !.phase = NextPhase(@), !.marks = marks, !.found = None]
                /\ UNCHANGED rows
    BY <1>5 DEF FinalizeUpdates
  <2>2. /\ fin # None /\ fin.found # None /\ fin.height \in 1..final
        /\ told \in [DOMAIN fin.found -> BOOLEAN]
    BY <1>5 DEF FinalizeUpdates, Asking, Answers, FinOK
  <2>3. \A i \in DOMAIN told : told[i]
    BY <2>1, <2>2 DEF Refused
  <2>4. ASSUME NEW i \in Updated
        PROVE  i \in Saved /\ Good(BlockIn(rows[i], fin.phase), doubted')
    <3>1. i \in Unfinal(fin.task, fin.phase, fin.height)
      BY DEF Updated
    <3>2. i \in Saved
      BY <3>1 DEF Unfinal, TaskRows, Calls, Rollbacks
    <3>3. PICK b : b = BlockIn(rows[i], fin.phase)
      OBVIOUS
    <3>4. b.height \in 1..fin.height
      BY <3>1, <3>3 DEF Unfinal
    <3>5. b.height # 0 /\ b.height <= final
      BY <2>2, <3>4
    <3>6. OnChain(b.height, b.id) \/ b \in Doubtful(told)
      BY <2>3, <3>3 DEF Doubtful
    <3>7. QED BY <2>1, <3>2, <3>3, <3>5, <3>6 DEF Good
  <2>5. TookMarks(marks)
    BY <2>4 DEF TookMarks
  <2> HIDE DEF marks
  <2>6. UNCHANGED <<ledgerVars, ids, cm, pc, streamVars, crashes>> /\ doubted \subseteq doubted'
    BY <1>5, <2>1 DEF FinalizeUpdates, threadVars
  <2>7. CASE rows' = WithMarks(marks) /\ fin' = None
    BY <2>2, <2>5, <2>6, <2>7
  <2>8. CASE /\ fin' = [fin EXCEPT !.phase = NextPhase(@), !.marks = marks, !.found = None]
             /\ UNCHANGED rows
    <3>1. fin'.marks = marks
      BY <2>2, <2>8 DEF FinOK
    <3>2. QED BY <2>2, <2>5, <2>6, <2>8, <3>1
  <2>9. QED BY <2>1, <2>7, <2>8
<1>6. QED BY <1>1, <1>2, <1>3, <1>4, <1>5 DEF Finalizer

\* The transaction stays one.
LEMMA FinalizeFinOK ==
  ASSUME TInv, Finalizer
  PROVE  FinOK'
<1>1. /\ FinOK /\ final \in Nat /\ \A p \in Phases : NextPhase(p) \in Phases
      /\ \A task : FirstPhase(task) \in Phases
  BY DEF TInv, LedgerOK, Phases, NextPhase, FirstPhase
<1>rows. \A task, phase, h :
           /\ Unfinal(task, phase, h) \subseteq Ids
           /\ DOMAIN FindUnfinal(task, phase, h) = Unfinal(task, phase, h)
  BY DEF Unfinal, FindUnfinal, TaskRows, Calls, Rollbacks, Saved
<1>2. CASE \E task \in {"call", "rollback"}, h \in 1..MaxHeight : FinalizeBegins(task, h)
  <2>1. PICK task \in {"call", "rollback"}, h \in 1..MaxHeight : FinalizeBegins(task, h)
    BY <1>2
  <2>2. PICK found : found = FindUnfinal(task, FirstPhase(task), h)
    OBVIOUS
  <2>3. /\ h \in 1..final /\ final' = final
        /\ fin' = [task |-> task, height |-> h, phase |-> FirstPhase(task), marks |-> {},
                   found |-> found]
    BY <2>1, <2>2 DEF FinalizeBegins, ledgerVars
  <2>4. DOMAIN found \subseteq Ids
    BY <1>rows, <2>2
  <2>5. QED BY <1>1, <2>3, <2>4 DEF FinOK
<1>3. CASE FinalizeFinds
  <2>1. PICK found : found = FindUnfinal(fin.task, fin.phase, fin.height)
    OBVIOUS
  <2>2. fin # None /\ fin' = [fin EXCEPT !.found = found] /\ final' = final
    BY <1>3, <2>1 DEF FinalizeFinds, ledgerVars
  <2>3. DOMAIN found \subseteq Ids
    BY <1>rows, <2>1
  <2>4. QED BY <1>1, <2>2, <2>3 DEF FinOK
<1>4. CASE FinalizeUpdates
  <2>1. PICK marks : marks = fin.marks \cup ({fin.phase} \X Updated)
    OBVIOUS
  <2>2. /\ fin # None /\ final' = final
        /\ \/ fin' = None
           \/ fin' = [fin EXCEPT !.phase = NextPhase(@), !.marks = marks, !.found = None]
    BY <1>4, <2>1 DEF FinalizeUpdates, Asking, ledgerVars
  <2>3. Updated \subseteq Ids
    BY <1>rows DEF Updated
  <2>4. marks \subseteq Phases \X Ids
    BY <1>1, <2>1, <2>2, <2>3 DEF FinOK
  <2>5. QED BY <1>1, <2>2, <2>4 DEF FinOK
<1>5. CASE FinalizeDrops \/ FinalizeFails
  BY <1>5 DEF FinalizeDrops, FinalizeFails, FinOK
<1>6. QED BY <1>2, <1>3, <1>4, <1>5 DEF Finalizer

\* What dropBlock leaves of a row.
LEMMA DroppedRow ==
  ASSUME NEW v \in Record, NEW h
  PROVE  /\ DropCall(v, h) \in {None, AsStateSending(v), v}
         /\ DropRollback(v, h) \in {None, AsStateNone(v), AsStateSending(v), v}
         /\ AsStateSending(v) \in Record /\ AsStateSending(v).id = v.id
         /\ AsStateSending(v).req = v.req /\ AsStateSending(v).state = "sending"
         /\ AsStateNone(v) \in Record /\ AsStateNone(v).id = v.id /\ AsStateNone(v).req = v.req
<1>1. /\ DropCall(v, h) \in {None, AsStateSending(v), v}
      /\ DropRollback(v, h) \in {None, AsStateNone(v), AsStateSending(v), v}
  BY DEF DropCall, DropRollback
<1>2. /\ 0 \in 0..MaxHeight /\ 0 \in 0..MaxFork /\ 0 \in 0..MaxTx
      /\ "sending" \in States /\ "none" \in States
  BY BoundsAreNat DEF States
<1>3. QED BY <1>1, <1>2 DEF AsStateSending, AsStateNone, Record

LEMMA FinalizeKeeps ==
  ASSUME TInv, LedgerMove, Finalizer
  PROVE  RowsOK' /\ ThreadsOK' /\ StreamsOK' /\ crashes' = crashes
<1>2. LedgerOK /\ RowsOK /\ ThreadsOK /\ StreamsOK /\ FinOK /\ final \in Nat
  BY DEF TInv, LedgerOK
<1>3. UNCHANGED <<ledgerVars, ids, cm, streamVars, crashes>>
  BY <1>2, FinalizeSteps
<1>4. PICK table \in Table :
        /\ \A i \in Ids : SameButMarks(rows[i], table[i])
        /\ (rows' = table /\ UNCHANGED pc) \/ \E k : DropBlock(table, k)
  <2>1. \/ UNCHANGED <<rows, pc>>
        \/ \E marks : \/ rows' = WithMarks(marks) /\ UNCHANGED pc
                      \/ \E k : DropBlock(WithMarks(marks), k)
    BY <1>2, FinalizeSteps
  <2>2. CASE UNCHANGED <<rows, pc>>
    BY <1>2, <2>2, MarkedTable DEF RowsOK, Table
  <2>3. CASE \E marks : \/ rows' = WithMarks(marks) /\ UNCHANGED pc
                        \/ \E k : DropBlock(WithMarks(marks), k)
    BY <1>2, <2>3, MarkedTable
  <2>4. QED BY <2>1, <2>2, <2>3
<1>5. None \notin Record
  BY NoneAssumption
<1>6. ASSUME NEW i \in Ids, table[i] # None
      PROVE  /\ i \in Saved /\ table[i] \in Record /\ table[i].id = i /\ i <= ids
             /\ table[i].req = rows[i].req /\ table[i].req \in Reqs \cup Sns
             /\ table[i].req \in Reqs => table[i].state \notin {"none", "notApplicable"}
  BY <1>2, <1>4, <1>5, <1>6 DEF SameButMarks, RowsOK, Saved, Record
<1>7. CASE rows' = table /\ UNCHANGED pc
  <2>1. RowsOK'
    BY <1>2, <1>3, <1>6, <1>7 DEF RowsOK, Saved, Table
  <2>2. ThreadsOK'
    BY <1>2, <1>3, <1>7 DEF ThreadsOK
  <2>3. QED BY <1>2, <1>3, <1>7, <2>1, <2>2, BatchStays
<1>8. ASSUME NEW k, DropBlock(table, k)
      PROVE  RowsOK' /\ ThreadsOK' /\ StreamsOK'
  <2>1. rows' = [i \in Ids |-> IF i \in Calls THEN DropCall(table[i], k)
                               ELSE IF i \in Rollbacks THEN DropRollback(table[i], k)
                               ELSE None]
    BY <1>8 DEF DropBlock
  <2>2. ASSUME NEW i \in Ids, rows'[i] # None
        PROVE  /\ rows'[i] \in Record /\ rows'[i].id = i /\ i <= ids
               /\ rows'[i].req \in Reqs => rows'[i].state \notin {"none", "notApplicable"}
    <3>1. i \in Saved /\ table[i] # None /\ table[i] \in Record
      BY <1>2, <1>4, <1>5, <2>1, <2>2 DEF Calls, Rollbacks, SameButMarks, Saved
    <3>2. CASE i \in Calls
      <4>1. rows'[i] = DropCall(table[i], k)
        BY <2>1, <3>2
      <4>2. rows'[i] \in {AsStateSending(table[i]), table[i]}
        BY <2>2, <3>1, <4>1, DroppedRow
      <4>3. QED BY <1>6, <3>1, <4>2, DroppedRow
    <3>3. CASE i \notin Calls /\ i \in Rollbacks
      <4>1. rows'[i] = DropRollback(table[i], k)
        BY <2>1, <3>3
      <4>2. rows'[i] \in {AsStateNone(table[i]), AsStateSending(table[i]), table[i]}
        BY <2>2, <3>1, <4>1, DroppedRow
      <4>3. rows[i].req \notin Reqs
        BY <3>3 DEF Calls, Rollbacks
      <4>4. QED BY <1>6, <3>1, <4>2, <4>3, DroppedRow
    <3>4. QED BY <2>1, <2>2, <3>2, <3>3
  <2>3. RowsOK'
    <3>1. rows' \in [Ids -> Record \cup {None}]
      BY <2>1, <2>2
    <3>2. QED BY <1>2, <1>3, <2>2, <3>1 DEF RowsOK, Saved
  <2>4. PICK m \in Monitors : pc[m] = "free" /\ pc' = [pc EXCEPT ![m] = "start"]
    BY <1>8 DEF DropBlock, Goto
  <2>5. m \in Threads /\ m \notin Results /\ cm[m] = None
    BY <1>2, <2>4, AutoCallerAssumption DEF Threads, ThreadsOK, Fits
  <2>6. ThreadsOK'
    <3>1. Fits(m, "start", None)
      BY <2>5 DEF Fits, Labels
    <3>2. cm' = [cm EXCEPT ![m] = None] /\ ids' >= ids /\ ids' \in Nat
      BY <1>2, <1>3, <2>5 DEF ThreadsOK, RowsOK
    <3>3. QED BY <1>2, <2>4, <2>5, <3>1, <3>2, ThreadsMove
  <2>7. \A u \in Monitors : pc'[u] \in Passing => pc[u] \in Passing
    BY <1>2, <2>4 DEF ThreadsOK, Passing, Threads
  <2>8. QED BY <1>2, <1>3, <2>3, <2>6, <2>7, BatchStays
<1>9. QED BY <1>3, <1>4, <1>7, <1>8

\* Nobody but the finalizer has part in its transaction.
LEMMA FinStays ==
  ASSUME [Next]_vars
  PROVE  Finalizer \/ (Crash /\ fin' = None /\ doubted' = doubted) \/ UNCHANGED finVars
<1>1. ASSUME NEW m \in Monitors, Monitor(m)
      PROVE  UNCHANGED finVars
  BY <1>1 DEF Monitor, GetMonitorHeight, Fetch, ConnectionLost, OnCallMessage, OnCallMessageSent,
              OnResponse, OnExecuted, NextEvent, SaveDone, SaveDoneFails
<1>2. ASSUME NEW t \in Threads, ExecuteCall(t)
      PROVE  UNCHANGED finVars
  BY <1>2 DEF ExecuteCall, InvokeSends, InvokeSkips, InvokeFails, SaveIf, SaveIfReads,
              SaveIfWrites, SaveIfFails
<1>3. ASSUME NEW g \in Results, CallResult(g)
      PROVE  UNCHANGED finVars
  BY <1>3 DEF CallResult, ResultSuccess, ResultFailure, ResultNotFound
<1>4. Crash => fin' = None /\ doubted' = doubted
  BY DEF Crash
<1>5. Network \/ UNCHANGED vars => UNCHANGED finVars
  BY DEF Network, vars
<1>6. QED BY <1>1, <1>2, <1>3, <1>4, <1>5 DEF Next

\* What is doubted stays so.
LEMMA DoubtedGrows ==
  ASSUME TInv, [Next]_vars
  PROVE  doubted \subseteq doubted'
<1>1. RowsOK /\ FinOK /\ final \in Nat
  BY DEF TInv, LedgerOK
<1>2. QED BY <1>1, FinStays, FinalizeSteps DEF finVars

LEMMA FinOKStays == TInv /\ [Next]_vars => FinOK'
<1> SUFFICES ASSUME TInv, [Next]_vars PROVE FinOK'
  OBVIOUS
<1>1. final' >= final /\ final' \in Nat /\ final \in Nat
  BY NextIsLedgerMove, LedgerGrows DEF TInv, LedgerOK
<1>2. CASE Finalizer
  BY <1>2, FinalizeFinOK
<1>3. CASE fin' = None
  BY <1>3 DEF FinOK
<1>4. CASE UNCHANGED finVars
  <2>1. FinOK /\ fin' = fin
    BY <1>4 DEF TInv, finVars
  <2>2. \A h : h \in 1..final => h \in 1..final'
    BY <1>1
  <2>3. QED BY <2>1, <2>2 DEF FinOK
<1>5. QED BY <1>2, <1>3, <1>4, FinStays

LEMMA TInvStep == TInv /\ [Next]_vars => TInv'
<1> SUFFICES ASSUME TInv, [Next]_vars PROVE TInv'
  OBVIOUS
<1>1. LedgerMove
  BY NextIsLedgerMove
<1>2. /\ LedgerOK' /\ LedgerOK /\ RowsOK /\ ThreadsOK /\ StreamsOK /\ crashes \in 0..MaxCrashes
      /\ FinOK'
  BY <1>1, LedgerStays, FinOKStays DEF TInv
<1>3. CASE UNCHANGED <<dbVars, threadVars, streamVars, crashes>>
  <2>1. RowsOK' /\ ThreadsOK'
    BY <1>2, <1>3 DEF dbVars, threadVars, RowsOK, Saved, ThreadsOK
  <2>2. StreamsOK'
    BY <1>1, <1>2, <1>3, BatchStays DEF threadVars
  <2>3. QED BY <1>2, <1>3, <2>1, <2>2 DEF TInv
<1>4. CASE Crash
  <2>1. PICK m \in Monitors : pc' = Boot(m)
    BY <1>4 DEF Crash
  <2>2. /\ cm' = [t \in Threads |-> None] /\ at' = [u \in Monitors |-> 0]
        /\ batch' = [u \in Monitors |-> <<>>] /\ UNCHANGED dbVars
        /\ crashes' \in 0..MaxCrashes
    BY <1>2, <1>4, BoundsAreNat DEF Crash
  <2>3. RowsOK'
    BY <1>2, <2>2 DEF dbVars, RowsOK, Saved
  <2>4. \A t \in Threads : cm'[t] = None /\ pc'[t] = (IF t = m THEN "start" ELSE "free")
    BY <2>1, <2>2 DEF Boot
  <2>5. m \notin Results
    BY AutoCallerAssumption
  <2>6. pc' \in [Threads -> Labels] /\ cm' \in [Threads -> Record \cup {None}]
    BY <2>1, <2>2 DEF Boot, Labels
  <2>7. ThreadsOK'
    BY <2>4, <2>5, <2>6 DEF ThreadsOK, Fits, Labels
  <2>8. StreamsOK'
    <3>1. at' \in [Monitors -> 0..(MaxHeight + 1)] /\ batch' \in [Monitors -> Seq(ItemType)]
      BY <2>2, BoundsAreNat
    <3>2. \A u \in Monitors : batch'[u] = <<>> /\ pc'[u] \in {"start", "free"}
      BY <2>2, <2>4 DEF Threads
    <3>3. QED BY <3>1, <3>2 DEF StreamsOK, Passing
  <2>9. QED BY <1>2, <2>2, <2>3, <2>7, <2>8 DEF TInv
<1>5. CASE Finalizer
  BY <1>1, <1>2, <1>5, FinalizeKeeps DEF TInv
<1>6. ASSUME NEW m \in Monitors, Monitor(m)
      PROVE  TInv'
  <2>1. crashes' = crashes
    BY <1>6 DEF Monitor, GetMonitorHeight, Fetch, ConnectionLost, OnCallMessage,
                OnCallMessageSent, OnResponse, OnExecuted, NextEvent, SaveDone, SaveDoneFails
  <2>2. RowsOK' /\ ThreadsOK'
    BY <1>6, MonitorKeepsTables
  <2>3. StreamsOK'
    BY <1>1, <1>6, MonitorKeepsStreams
  <2>4. QED BY <1>2, <2>1, <2>2, <2>3 DEF TInv
<1>7. ASSUME NEW t \in Threads, ExecuteCall(t)
      PROVE  TInv'
  <2>1. crashes' = crashes
    BY <1>7 DEF ExecuteCall, InvokeSends, InvokeSkips, InvokeFails, SaveIf, SaveIfReads,
                SaveIfWrites, SaveIfFails
  <2>2. QED BY <1>1, <1>2, <1>7, <2>1, ExecuteCallKeeps DEF TInv
<1>8. ASSUME NEW g \in Results, CallResult(g)
      PROVE  TInv'
  <2>1. crashes' = crashes
    BY <1>8 DEF CallResult, ResultSuccess, ResultFailure, ResultNotFound
  <2>2. QED BY <1>1, <1>2, <1>8, <2>1, CallResultKeeps DEF TInv
<1>9. CASE Network
  BY <1>3, <1>9 DEF Network
<1>10. CASE UNCHANGED vars
  BY <1>3, <1>10 DEF vars
<1>11. QED
  BY <1>4, <1>5, <1>6, <1>7, <1>8, <1>9, <1>10 DEF Next

\* Every variable of the auto-caller keeps its type, and a saved record its own key, in
\* every reachable state: no goroutine ever works without a record or saves one under
\* another's key (autocaller/xcall/repository.go).
THEOREM AutoCallerTyped == Spec => []TypeOK
<1>1. Spec => []TInv
  BY TInvInit, TInvStep, PTL DEF Spec
<1>2. QED BY <1>1, TInvTypes, PTL

-----------------------------------------------------------------------------
(* What is marked final is in a finalized block.  The marks travel from    *)
(* the tables to the goroutines' copies and back, so the invariant is      *)
(* about both.                                                             *)

MarksOnChain(v) ==
  /\ v.eventFinal /\ v.eventHeight # 0 => Final(BlockIn(v, "event"))
  /\ v.triggerFinal => v.triggerHeight # 0 /\ Final(BlockIn(v, "trigger"))

\* The rows that the open transaction has marked, which others cannot write.
FinMarks ==
  fin # None => \A mark \in fin.marks :
    mark[2] \in Saved /\ Good(BlockIn(rows[mark[2]], mark[1]), doubted)

FInv ==
  /\ \A i \in Saved : MarksOnChain(rows[i])
  /\ \A t \in Threads : cm[t] # None => MarksOnChain(cm[t])
  /\ FinMarks

SameEvents(v, w) ==
  /\ w.eventFinal = v.eventFinal /\ w.eventHeight = v.eventHeight /\ w.eventId = v.eventId
  /\ w.triggerFinal = v.triggerFinal /\ w.triggerHeight = v.triggerHeight
  /\ w.triggerId = v.triggerId

Unmarked(v) == v.eventFinal = FALSE /\ v.triggerFinal = FALSE

\* A finalized block stays where it is.
LEMMA FinalizedStays ==
  ASSUME LedgerOK, LedgerMove, NEW h \in 1..final, NEW b, OnChain(h, b)
  PROVE  OnChain(h, b)' /\ h <= final'
<1>1. final \in Nat /\ final <= Len(chain) /\ Len(chain) \in Nat /\ chain \in Seq(BlockType)
      /\ h \in 1..Len(chain)
  BY DEF LedgerOK
<1>2. final' >= final /\ final' \in Nat
  BY LedgerGrows
<1>3. h \in DOMAIN chain' /\ chain'[h] = chain[h]
  <2>1. CASE UNCHANGED chain
    BY <1>1, <2>1
  <2>2. CASE Mine
    BY <1>1, <2>2 DEF Mine
  <2>3. CASE Reorg
    <3>1. PICK k \in final..(Len(chain) - 1) : chain' = SubSeq(chain, 1, k)
      BY <2>3 DEF Reorg, Head_
    <3>2. k \in Nat /\ k <= Len(chain) /\ h <= k
      BY <1>1, <3>1
    <3>3. QED BY <1>1, <3>1, <3>2
  <2>4. QED BY <2>1, <2>2, <2>3 DEF LedgerMove, ledgerVars, FinalizeNext, Lose, Send
<1>4. QED BY <1>1, <1>2, <1>3 DEF OnChain

\* And a doubted one remains so.
LEMMA FinalStays ==
  ASSUME LedgerOK, LedgerMove, doubted \subseteq doubted',
         NEW b, b.height \in Nat, b.height # 0, Final(b)
  PROVE  Final(b)'
<1>1. final' >= final /\ final' \in Nat /\ final \in Nat /\ b.height <= final
  BY LedgerGrows DEF LedgerOK, Final
<1>2. OnChain(b.height, b.id) => OnChain(b.height, b.id)'
  BY <1>1, FinalizedStays
<1>3. b.height <= final'
  BY <1>1
<1>4. QED BY <1>2, <1>3 DEF Final

LEMMA BlocksOf ==
  ASSUME NEW v \in Record
  PROVE  /\ BlockIn(v, "event") = [height |-> v.eventHeight, id |-> v.eventId]
         /\ BlockIn(v, "trigger") = [height |-> v.triggerHeight, id |-> v.triggerId]
         /\ v.eventHeight \in Nat /\ v.triggerHeight \in Nat
         /\ \A phase \in Phases : BlockIn(v, phase).height \in Nat
<1>1. v.eventHeight \in Nat /\ v.triggerHeight \in Nat /\ v.blockHeight \in Nat
  BY BoundsAreNat DEF Record
<1>2. /\ BlockIn(v, "event") = [height |-> v.eventHeight, id |-> v.eventId]
      /\ BlockIn(v, "trigger") = [height |-> v.triggerHeight, id |-> v.triggerId]
      /\ BlockIn(v, "block") = [height |-> v.blockHeight, id |-> v.blockId]
  BY DEF BlockIn
<1>3. QED BY <1>1, <1>2 DEF Phases

LEMMA MarksStay ==
  ASSUME LedgerOK, LedgerMove, doubted \subseteq doubted', NEW v \in Record, MarksOnChain(v)
  PROVE  MarksOnChain(v)'
<1>1. PICK b, c : b = BlockIn(v, "event") /\ c = BlockIn(v, "trigger")
  OBVIOUS
<1>2. /\ b.height = v.eventHeight /\ c.height = v.triggerHeight
      /\ v.eventHeight \in Nat /\ v.triggerHeight \in Nat
  BY <1>1, BlocksOf
<1>3. /\ v.eventFinal /\ v.eventHeight # 0 => Final(b)'
      /\ v.triggerFinal => v.triggerHeight # 0 /\ Final(c)'
  BY <1>1, <1>2, FinalStays DEF MarksOnChain
<1>4. BlockIn(v, "event")' = b /\ BlockIn(v, "trigger")' = c
  BY <1>1 DEF BlockIn
<1>5. QED BY <1>3, <1>4 DEF MarksOnChain

\* Where a goroutine's record comes from: an event passed on, a row, or what a goroutine
\* had and what became of it.
FromEvent(w) ==
  \E m \in Monitors :
    /\ batch[m] # <<>>
    /\ \/ w = NewCall(Head(batch[m])) /\ Head(batch[m]).kind = "message"
       \/ w = NewRollback(Head(batch[m])) /\ Head(batch[m]).kind = "sent"
       \/ \E i \in Saved :
            /\ rows[i].req = Head(batch[m]).req
            /\ \/ /\ w = NewResponse(Head(batch[m]), rows[i])
                  /\ Head(batch[m]).kind \in {"success", "failure"}
               \/ w = Done(rows[i], Head(batch[m]))

FromThread(w) ==
  \E u \in Threads :
    /\ cm[u] # None
    /\ \/ w = cm[u]
       \/ w = [cm[u] EXCEPT !.id = ids + 1]
       \/ \E state \in {"sending", "skip", "error"}, tx \in Nat :
            w = [cm[u] EXCEPT !.state = state, !.tx = tx]
       \/ w = [cm[u] EXCEPT !.tx = 0]
       \/ \E e \in Included : w = [cm[u] EXCEPT !.state = "sent", !.blockHeight = e.height,
                                                !.blockId = e.block]

Origin(w) == FromEvent(w) \/ FromThread(w) \/ \E i \in Saved : w = rows[i]

LEMMA CmOrigin ==
  ASSUME TInv, [Next]_vars, NEW t \in Threads, cm'[t] # None
  PROVE  Origin(cm'[t])
<1>1. /\ RowsOK /\ ThreadsOK /\ cm \in [Threads -> Record \cup {None}]
      /\ None \notin Record /\ Results \subseteq Threads /\ Monitors \subseteq Threads
      /\ \A u \in Threads : Fits(u, pc[u], cm[u])
  BY NoneAssumption DEF TInv, ThreadsOK, Threads
<1>old. ASSUME NEW u \in Threads, cm[u] # None PROVE Origin(cm[u])
  BY <1>old DEF Origin, FromEvent, FromThread
<1>2. CASE UNCHANGED cm
  BY <1>2, <1>old
<1>3. CASE Crash
  <2>1. cm' = [u \in Threads |-> None]
    BY <1>3 DEF Crash
  <2>2. cm'[t] = None
    BY <2>1, Zenon
  <2>3. QED BY <2>2
<1>event. ASSUME NEW m \in Monitors, batch[m] # <<>>, NEW e, e = Head(batch[m])
          PROVE  /\ e.kind = "message" => Origin(NewCall(e))
                 /\ e.kind = "sent" => Origin(NewRollback(e))
  BY <1>event DEF Origin, FromEvent, FromThread
<1>found. ASSUME NEW m \in Monitors, batch[m] # <<>>, NEW e, e = Head(batch[m]),
                 FindOne(e.req) # None
          PROVE  /\ Origin(FindOne(e.req)) /\ Origin(Done(FindOne(e.req), e))
                 /\ e.kind \in {"success", "failure"} => Origin(NewResponse(e, FindOne(e.req)))
  <2>1. PICK i \in Saved : FindOne(e.req) = rows[i] /\ rows[i].req = e.req
    BY <1>1, <1>found, FindOneFinds, SMTT(30)
  <2>2. Origin(rows[i])
    BY ZenonT(60) DEF Origin, FromEvent, FromThread
  <2>3. Origin(Done(rows[i], e))
    BY <1>found, <2>1, ZenonT(60) DEF Origin, FromEvent, FromThread
  <2>4. e.kind \in {"success", "failure"} => Origin(NewResponse(e, rows[i]))
    BY <1>found, <2>1 DEF Origin, FromEvent, FromThread
  <2>5. QED BY <2>1, <2>2, <2>3, <2>4
<1>set. ASSUME NEW u \in Threads, NEW v, cm' = [cm EXCEPT ![u] = v], v # None => Origin(v)
        PROVE  Origin(cm'[t])
  BY <1>1, <1>old, <1>set
<1>4. ASSUME NEW m \in Monitors, Monitor(m)
      PROVE  Origin(cm'[t])
  <2> DEFINE e == Head(batch[m])
             found == FindOne(e.req)
  <2>1. CASE OnCallMessage(m)
    <3>1. batch[m] # <<>> /\ e.kind = "message"
      BY <2>1 DEF OnCallMessage, NextEvent
    <3>2. \/ UNCHANGED cm \/ cm' = [cm EXCEPT ![m] = NewCall(e)]
          \/ found # None /\ \E g \in Results : cm' = [cm EXCEPT ![g] = found]
      BY <2>1 DEF OnCallMessage, Spawned, Is, threadVars
    <3>3. Origin(NewCall(e)) /\ (found # None => Origin(found))
      BY <1>event, <1>found, <3>1
    <3>4. QED BY <1>1, <1>2, <1>set, <3>2, <3>3
  <2>2. CASE OnCallMessageSent(m)
    <3>1. batch[m] # <<>> /\ e.kind = "sent"
      BY <2>2 DEF OnCallMessageSent, NextEvent
    <3>2. \/ UNCHANGED cm \/ cm' = [cm EXCEPT ![m] = NewRollback(e)]
      BY <2>2 DEF OnCallMessageSent, threadVars
    <3>3. Origin(NewRollback(e))
      BY <1>event, <3>1
    <3>4. QED BY <1>1, <1>2, <1>set, <3>2, <3>3
  <2>3. CASE OnResponse(m, "success") \/ OnResponse(m, "failure")
    <3>1. batch[m] # <<>> /\ e.kind \in {"success", "failure"}
      BY <2>3 DEF OnResponse, NextEvent
    <3>2. \/ UNCHANGED cm
          \/ found # None /\ cm' = [cm EXCEPT ![m] = NewResponse(e, found)]
          \/ found # None /\ \E g \in Results : cm' = [cm EXCEPT ![g] = found]
      BY <2>3 DEF OnResponse, Spawned, Is, threadVars
    <3>3. found # None => Origin(NewResponse(e, found)) /\ Origin(found)
      BY <1>event, <1>found, <3>1
    <3>4. QED BY <1>1, <1>2, <1>set, <3>2, <3>3
  <2>4. CASE OnExecuted(m)
    <3>1. batch[m] # <<>>
      BY <2>4 DEF OnExecuted, NextEvent
    <3>2. \/ UNCHANGED cm
          \/ found # None /\ cm' = [cm EXCEPT ![m] = Done(found, e)]
      BY <2>4 DEF OnExecuted, threadVars
    <3>3. found # None => Origin(Done(found, e))
      BY <1>event, <1>found, <3>1
    <3>4. QED BY <1>1, <1>2, <1>set, <3>2, <3>3
  <2>5. CASE SaveDone(m) \/ SaveDoneFails(m)
    BY <1>1, <1>set, <2>5 DEF SaveDone, SaveDoneFails
  <2>6. CASE GetMonitorHeight(m) \/ Fetch(m) \/ ConnectionLost(m)
    BY <1>2, <2>6 DEF GetMonitorHeight, Fetch, ConnectionLost, threadVars
  <2>7. QED BY <1>4, <2>1, <2>2, <2>3, <2>4, <2>5, <2>6 DEF Monitor
<1>5. ASSUME NEW u \in Threads, ExecuteCall(u)
      PROVE  Origin(cm'[t])
  <2>1. cm[u] \in Record /\ cm[u] # None
    BY <1>1, <1>5 DEF Fits, ExecuteCall, InvokeSends, InvokeSkips, InvokeFails, SaveIf, SaveIfReads,
              SaveIfWrites, SaveIfFails
  <2>2. CASE InvokeSends(u) \/ InvokeSkips(u) \/ InvokeFails(u)
    <3>1. [cm[u] EXCEPT !.state = "error"] = [cm[u] EXCEPT !.state = "error", !.tx = cm[u].tx]
      BY <2>1 DEF Record
    <3>2. cm[u].tx \in Nat /\ NewTx \in Nat /\ 0 \in Nat
      BY <2>1, BoundsAreNat, SMTT(30) DEF Record, NewTx, TInv, LedgerOK
    <3>3. \E state \in {"sending", "skip", "error"}, tx \in Nat :
            cm' = [cm EXCEPT ![u] = [cm[u] EXCEPT !.state = state, !.tx = tx]]
      BY <2>2, <3>1, <3>2 DEF InvokeSends, InvokeSkips, InvokeFails, Set, AsSending
    <3>4. \A state \in {"sending", "skip", "error"}, tx \in Nat :
            Origin([cm[u] EXCEPT !.state = state, !.tx = tx])
      BY <2>1 DEF Origin, FromEvent, FromThread
    <3>5. QED BY <1>set, <3>3, <3>4
  <2>3. ASSUME NEW v, Origin(v), Continue(u, v)
        PROVE  Origin(cm'[t])
    <3>1. CASE \E g \in Results : cm' = [cm EXCEPT ![g] = v, ![u] = None]
      BY <1>1, <1>old, <2>3, <3>1
    <3>2. CASE cm' = [cm EXCEPT ![u] = v] \/ cm' = [cm EXCEPT ![u] = None]
      BY <1>set, <2>3, <3>2
    <3>3. QED BY <2>3, <3>1, <3>2 DEF Continue, Set
  <2>4. Origin(cm[u]) /\ Origin(WithKey(cm[u]))
    BY <2>1 DEF Origin, FromEvent, FromThread, WithKey
  <2>5. CASE SaveIfReads(u)
    BY <1>2, <2>3, <2>4, <2>5 DEF SaveIfReads
  <2>6. CASE SaveIf(u) \/ SaveIfWrites(u) \/ SaveIfFails(u)
    BY <2>3, <2>4, <2>6 DEF SaveIf, SaveIfWrites, SaveIfFails
  <2>7. QED BY <1>5, <2>2, <2>5, <2>6 DEF ExecuteCall
<1>6. ASSUME NEW g \in Results, CallResult(g)
      PROVE  Origin(cm'[t])
  <2>1. cm[g] \in Record /\ cm[g] # None
    BY <1>1, <1>6 DEF Fits, CallResult, ResultSuccess, ResultFailure, ResultNotFound
  <2>2. [cm[g] EXCEPT !.state = "error"] = [cm[g] EXCEPT !.state = "error", !.tx = cm[g].tx]
    BY <2>1 DEF Record
  <2>3. cm[g].tx \in Nat /\ 0 \in Nat
    BY <2>1, BoundsAreNat DEF Record
  <2>4. /\ \A e \in Included :
             Origin([cm[g] EXCEPT !.state = "sent", !.blockHeight = e.height, !.blockId = e.block])
        /\ Origin([cm[g] EXCEPT !.state = "skip", !.tx = 0])
        /\ Origin([cm[g] EXCEPT !.state = "error"])
        /\ Origin([cm[g] EXCEPT !.tx = 0])
    BY <1>1, <2>1, <2>2, <2>3 DEF Origin, FromEvent, FromThread
  <2>5. PICK v : cm' = [cm EXCEPT ![g] = v] /\ Origin(v)
    BY <1>6, <2>4 DEF CallResult, ResultSuccess, ResultFailure, ResultNotFound, Set, Receipts
  <2>6. QED BY <1>1, <1>set, <2>5
<1>7. CASE Finalizer
  <2>1. UNCHANGED cm
    BY <1>7, FinalizeSteps DEF TInv, LedgerOK
  <2>2. QED BY <1>2, <2>1
<1>8. Network => UNCHANGED cm
  BY DEF Network, threadVars
<1>9. UNCHANGED vars => UNCHANGED cm
  BY DEF vars, threadVars
<1>10. QED
  BY <1>2, <1>3, <1>4, <1>5, <1>6, <1>7, <1>8, <1>9 DEF Next

\* Its marks are those of a goroutine's record or of a row before, or it has none.
LEMMA CmSource ==
  ASSUME TInv, [Next]_vars, NEW t \in Threads, cm'[t] # None
  PROVE  \/ Unmarked(cm'[t])
         \/ \E u \in Threads : cm[u] # None /\ SameEvents(cm[u], cm'[t])
         \/ \E i \in Saved : SameEvents(rows[i], cm'[t])
<1>1. PICK w : w = cm'[t]
  OBVIOUS
<1>2. Origin(w)
  BY <1>1, CmOrigin
<1>3. /\ \A u \in Threads : cm[u] # None => cm[u] \in Record
      /\ \A i \in Saved : rows[i] \in Record
  BY DEF TInv, ThreadsOK, RowsOK, Saved
<1>4. \A e, v : /\ Unmarked(NewCall(e)) /\ Unmarked(NewRollback(e))
                /\ Unmarked(NewResponse(e, v))
  BY DEF NewCall, NewRollback, NewResponse, WithEvent, Blank, Unmarked
<1>5. ASSUME NEW v \in Record
      PROVE  /\ SameEvents(v, v) /\ \A e : SameEvents(v, Done(v, e))
             /\ \A k : SameEvents(v, [v EXCEPT !.id = k])
             /\ \A x, y : SameEvents(v, [v EXCEPT !.state = x, !.tx = y])
             /\ SameEvents(v, [v EXCEPT !.tx = 0])
             /\ \A h, b : SameEvents(v, [v EXCEPT !.state = "sent", !.blockHeight = h,
                                                  !.blockId = b])
  BY DEF SameEvents, Record, Done
<1>6. CASE FromEvent(w)
  <2>1. PICK m \in Monitors :
          \/ w = NewCall(Head(batch[m])) \/ w = NewRollback(Head(batch[m]))
          \/ \E v : w = NewResponse(Head(batch[m]), v)
          \/ \E i \in Saved : w = Done(rows[i], Head(batch[m]))
    BY <1>6 DEF FromEvent
  <2>2. Unmarked(w) \/ \E i \in Saved : w = Done(rows[i], Head(batch[m]))
    BY <1>4, <2>1
  <2>3. Unmarked(w) \/ \E i \in Saved : SameEvents(rows[i], w)
    BY <1>3, <1>5, <2>2, ZenonT(60)
  <2>4. QED BY <1>1, <2>3
<1>7. CASE FromThread(w)
  <2>1. PICK u \in Threads :
          /\ cm[u] # None
          /\ \/ w = cm[u] \/ w = [cm[u] EXCEPT !.id = ids + 1]
             \/ \E x, y : w = [cm[u] EXCEPT !.state = x, !.tx = y]
             \/ w = [cm[u] EXCEPT !.tx = 0]
             \/ \E h, b : w = [cm[u] EXCEPT !.state = "sent", !.blockHeight = h,
                                            !.blockId = b]
    BY <1>7 DEF FromThread
  <2>2. cm[u] \in Record
    BY <1>3, <2>1
  <2>3. SameEvents(cm[u], w)
    BY <2>1, <2>2 DEF SameEvents, Record
  <2>4. QED BY <1>1, <2>1, <2>3
<1>8. CASE \E i \in Saved : w = rows[i]
  BY <1>1, <1>3, <1>5, <1>8
<1>9. QED BY <1>2, <1>6, <1>7, <1>8 DEF Origin

\* A row that a finalizer has been at.
MarkedFrom(v, w) ==
  /\ w.triggerHeight = v.triggerHeight /\ w.triggerId = v.triggerId
  /\ w.eventHeight = 0 \/ (w.eventHeight = v.eventHeight /\ w.eventId = v.eventId)
  /\ w.eventFinal => v.eventFinal \/ Good(BlockIn(v, "event"), doubted')
  /\ w.triggerFinal => v.triggerFinal \/ Good(BlockIn(v, "trigger"), doubted')

\* What may change a row.
LEMMA RowsChange ==
  ASSUME [Next]_vars
  PROVE  \/ rows' = rows \/ Finalizer
         \/ \E u \in Threads : pc[u] \in {"save", "saveIf", "write"} /\ Save(cm[u])
<1>1. ASSUME NEW m \in Monitors, Monitor(m)
      PROVE  rows' = rows \/ (pc[m] = "save" /\ Save(cm[m]))
  BY <1>1 DEF Monitor, GetMonitorHeight, Fetch, ConnectionLost, OnCallMessage,
              OnCallMessageSent, OnResponse, OnExecuted, NextEvent, SaveDone, SaveDoneFails, dbVars
<1>2. ASSUME NEW t \in Threads, ExecuteCall(t)
      PROVE  rows' = rows \/ (pc[t] \in {"saveIf", "write"} /\ Save(cm[t]))
  BY <1>2 DEF ExecuteCall, InvokeSends, InvokeSkips, InvokeFails, SaveIf, SaveIfReads, SaveIfWrites,
              SaveIfFails, dbVars
<1>3. ASSUME NEW g \in Results, CallResult(g)
      PROVE  rows' = rows
  BY <1>3 DEF CallResult, ResultSuccess, ResultFailure, ResultNotFound, dbVars
<1>4. (Network \/ Crash \/ UNCHANGED vars) => rows' = rows
  BY DEF Network, Crash, vars, dbVars
<1>5. QED BY <1>1, <1>2, <1>3, <1>4 DEF Next, Threads

\* A mark is of a block the finalizer was told is final, or did not ask for.
LEMMA TakenMarks ==
  ASSUME FinMarks, fin # None, doubted \subseteq doubted', NEW marks, TookMarks(marks),
         NEW mark \in marks
  PROVE  mark[2] \in Saved /\ Good(BlockIn(rows[mark[2]], mark[1]), doubted')
<1>1. CASE mark \in fin.marks
  BY <1>1 DEF FinMarks, Good
<1>2. CASE mark \notin fin.marks
  <2>1. /\ mark \in {fin.phase} \X Updated
        /\ \A i \in Updated : i \in Saved /\ Good(BlockIn(rows[i], fin.phase), doubted')
    BY <1>2 DEF TookMarks
  <2>2. mark[1] = fin.phase /\ mark[2] \in Updated
    BY <2>1
  <2>3. QED BY <2>1, <2>2
<1>3. QED BY <1>1, <1>2

\* Where a row comes from.
LEMMA RowSource ==
  ASSUME TInv, FInv, [Next]_vars, NEW i \in Saved'
  PROVE  \/ i \in Saved /\ MarkedFrom(rows[i], rows'[i])
         \/ \E u \in Threads : cm[u] # None /\ SameEvents(cm[u], rows'[i])
<1>1. /\ RowsOK /\ FinOK /\ final \in Nat /\ FinMarks
      /\ None \notin Record /\ rows \in [Ids -> Record \cup {None}]
      /\ \A u \in Threads : Fits(u, pc[u], cm[u])
      /\ i \in Ids /\ rows'[i] # None
  BY NoneAssumption DEF TInv, FInv, LedgerOK, ThreadsOK, RowsOK, Saved
<1>2. CASE rows'[i] = rows[i]
  BY <1>1, <1>2 DEF Saved, MarkedFrom
<1>3. ASSUME NEW u \in Threads, pc[u] \in {"save", "saveIf", "write"}, Save(cm[u])
      PROVE  \/ rows'[i] = rows[i]
             \/ \E w \in Threads : cm[w] # None /\ SameEvents(cm[w], rows'[i])
  <2>1. cm[u] \in Record /\ cm[u] # None
    BY <1>1, <1>3 DEF Fits
  <2>2. SameEvents(cm[u], cm[u]) /\ \A k : SameEvents(cm[u], [cm[u] EXCEPT !.id = k])
    BY <2>1 DEF SameEvents, Record
  <2>3. rows'[i] \in {rows[i], cm[u], [cm[u] EXCEPT !.id = ids + 1]}
    BY <1>1, <1>3 DEF Save
  <2>4. QED BY <2>1, <2>2, <2>3
<1>4. ASSUME Finalizer, rows' # rows
      PROVE  i \in Saved /\ MarkedFrom(rows[i], rows'[i])
  <2>1. PICK marks :
          /\ fin # None /\ doubted \subseteq doubted' /\ TookMarks(marks)
          /\ rows' = WithMarks(marks) \/ \E k : DropBlock(WithMarks(marks), k)
    BY <1>1, <1>4, FinalizeSteps
  <2>2. PICK table : table = WithMarks(marks)
    OBVIOUS
  <2>3. /\ table \in Table /\ \A j \in Ids : SameButMarks(rows[j], table[j])
        /\ \A j \in Saved :
             /\ table[j].eventFinal => rows[j].eventFinal \/ <<"event", j>> \in marks
             /\ table[j].triggerFinal => rows[j].triggerFinal \/ <<"trigger", j>> \in marks
    BY <1>1, <2>2, MarkedTable
  <2>4. /\ <<"event", i>> \in marks => Good(BlockIn(rows[i], "event"), doubted')
        /\ <<"trigger", i>> \in marks => Good(BlockIn(rows[i], "trigger"), doubted')
    BY <1>1, <2>1, TakenMarks
  <2>5. ASSUME i \in Saved
        PROVE  table[i] \in Record /\ MarkedFrom(rows[i], table[i])
    <3>1. table[i] \in Record /\ SameButMarks(rows[i], table[i])
      BY <1>1, <2>3, <2>5 DEF SameButMarks, Saved
    <3>2. QED BY <1>1, <2>3, <2>4, <2>5, <3>1 DEF SameButMarks, MarkedFrom
  <2>6. CASE rows' = table
    <3>1. i \in Saved
      BY <1>1, <2>3, <2>6 DEF SameButMarks, Saved
    <3>2. QED BY <2>5, <2>6, <3>1
  <2>7. ASSUME NEW k, DropBlock(table, k)
        PROVE  i \in Saved /\ MarkedFrom(rows[i], rows'[i])
    <3>1. i \in Saved
      BY <1>1, <2>7 DEF DropBlock, Calls, Rollbacks
    <3>2. table[i] \in Record /\ MarkedFrom(rows[i], table[i])
      BY <2>5, <3>1
    <3>3. rows'[i] \in {table[i], AsStateSending(table[i]), AsStateNone(table[i])}
      BY <1>1, <2>7, <3>2, DroppedRow DEF DropBlock
    <3>4. /\ MarkedFrom(rows[i], AsStateSending(table[i]))
          /\ MarkedFrom(rows[i], AsStateNone(table[i]))
      BY <3>2 DEF MarkedFrom, AsStateSending, AsStateNone, Record
    <3>5. QED BY <3>1, <3>2, <3>3, <3>4
  <2>8. QED BY <2>1, <2>2, <2>6, <2>7
<1>5. QED BY <1>2, <1>3, <1>4, RowsChange

\* What the open transaction has marked stays as it was: it is locked.
LEMMA FinMarksStay ==
  ASSUME TInv, FInv, [Next]_vars
  PROVE  FinMarks'
<1>1. /\ RowsOK /\ FinOK /\ FinMarks /\ LedgerOK /\ LedgerMove /\ final \in Nat /\ ids \in Nat
      /\ doubted \subseteq doubted' /\ rows \in [Ids -> Record \cup {None}]
      /\ \A i \in Saved : i <= ids /\ i \in Nat
  <2>1. /\ RowsOK /\ FinOK /\ FinMarks /\ LedgerOK /\ LedgerMove
        /\ doubted \subseteq doubted'
    BY NextIsLedgerMove, DoubtedGrows DEF TInv, FInv
  <2>2. final \in Nat /\ ids \in Nat
    BY <2>1, BoundsAreNat DEF LedgerOK, RowsOK
  <2>3. rows \in [Ids -> Record \cup {None}] /\ \A i \in Saved : i <= ids /\ i \in Nat
    BY <2>1 DEF RowsOK, Saved, Ids
  <2>4. QED BY <2>1, <2>2, <2>3
<1>2. CASE fin' = None
  BY <1>2 DEF FinMarks
<1>3. ASSUME Finalizer, fin' # None
      PROVE  FinMarks'
  <2>1. /\ UNCHANGED <<ledgerVars, rows>>
        /\ fin'.marks = {} \/ (fin # None /\ TookMarks(fin'.marks))
    BY <1>1, <1>3, FinalizeSteps
  <2>2. \A mark \in fin'.marks :
          mark[2] \in Saved /\ Good(BlockIn(rows[mark[2]], mark[1]), doubted')
    BY <1>1, <2>1, TakenMarks
  <2>3. Saved' = Saved /\ \A b : Good(b, doubted') => Good(b, doubted)'
    BY <2>1 DEF Saved, Good, OnChain, ledgerVars
  <2>4. ASSUME NEW mark \in fin'.marks
        PROVE  mark[2] \in Saved' /\ Good(BlockIn(rows[mark[2]], mark[1]), doubted)'
    <3>1. PICK b : b = BlockIn(rows[mark[2]], mark[1])
      OBVIOUS
    <3>2. Good(b, doubted)' /\ mark[2] \in Saved'
      BY <2>2, <2>3, <3>1
    <3>3. BlockIn(rows[mark[2]], mark[1])' = b
      BY <2>1, <3>1 DEF BlockIn
    <3>4. QED BY <3>2, <3>3 DEF Good
  <2>5. QED BY <2>4 DEF FinMarks
<1>4. ASSUME UNCHANGED finVars, ~ Finalizer, fin # None
      PROVE  FinMarks'
  <2>1. fin' = fin
    BY <1>4 DEF finVars
  <2>2. ASSUME NEW mark \in fin.marks
        PROVE  mark[2] \in Saved' /\ Good(BlockIn(rows[mark[2]], mark[1]), doubted)'
    <3>1. PICK i : i = mark[2]
      OBVIOUS
    <3>2. PICK b : b = BlockIn(rows[i], mark[1])
      OBVIOUS
    <3>3. i \in Saved /\ Good(b, doubted) /\ mark[1] \in Phases
      BY <1>1, <1>4, <3>1, <3>2 DEF FinMarks, FinOK
    <3>4. rows[i] \in Record /\ i <= ids /\ i \in Nat
      BY <1>1, <3>3 DEF Saved
    <3>5. rows'[i] = rows[i]
      <4>1. ASSUME NEW v, Save(v) PROVE rows'[i] = rows[i]
        <5>1. v.id # i
          BY <1>4, <2>2, <3>1, <4>1 DEF Save, Writable
        <5>2. ids + 1 # i
          BY <1>1, <3>4
        <5>3. QED BY <1>1, <3>3, <4>1, <5>1, <5>2 DEF Save, Saved
      <4>2. QED BY <1>4, <4>1, RowsChange
    <3>6. b.height \in Nat
      BY <3>2, <3>3, <3>4, BlocksOf
    <3>7. Final(b)' /\ b.height # 0
      BY <1>1, <3>3, <3>6, FinalStays DEF Final, Good
    <3>8. BlockIn(rows[mark[2]], mark[1])' = b
      BY <3>1, <3>2, <3>5 DEF BlockIn
    <3>9. Good(b, doubted)'
      BY <3>7 DEF Final, Good
    <3>10. mark[2] \in Saved'
      BY <3>1, <3>3, <3>5 DEF Saved
    <3>11. QED BY <3>8, <3>9, <3>10 DEF Good
  <2>3. QED BY <2>1, <2>2 DEF FinMarks
<1>5. QED BY <1>2, <1>3, <1>4, FinStays DEF finVars

LEMMA FInvStep == TInv /\ FInv /\ [Next]_vars => FInv'
<1> SUFFICES ASSUME TInv, FInv, [Next]_vars PROVE FInv'
  OBVIOUS
<1>1. LedgerOK /\ LedgerMove /\ RowsOK /\ ThreadsOK /\ final \in Nat /\ doubted \subseteq doubted'
  BY NextIsLedgerMove, DoubtedGrows DEF TInv, LedgerOK
<1>2. None \notin Record /\ rows \in [Ids -> Record \cup {None}]
      /\ cm \in [Threads -> Record \cup {None}]
  BY <1>1, NoneAssumption DEF RowsOK, ThreadsOK
<1>blocks. ASSUME NEW v, NEW w, SameEvents(v, w)
           PROVE  BlockIn(w, "event") = BlockIn(v, "event") /\ BlockIn(w, "trigger") = BlockIn(v, "trigger")
  BY <1>blocks DEF BlockIn, SameEvents
<1>copy. ASSUME NEW v \in Record, MarksOnChain(v)', NEW w, SameEvents(v, w)
         PROVE  MarksOnChain(w)'
  <2>1. PICK b, c : /\ b = BlockIn(v, "event") /\ c = BlockIn(v, "trigger")
                    /\ b = BlockIn(w, "event") /\ c = BlockIn(w, "trigger")
    BY <1>blocks, <1>copy
  <2>2. /\ BlockIn(v, "event")' = b /\ BlockIn(v, "trigger")' = c
        /\ BlockIn(w, "event")' = b /\ BlockIn(w, "trigger")' = c
    BY <2>1 DEF BlockIn
  <2>3. /\ v.eventFinal /\ v.eventHeight # 0 => Final(b)'
        /\ v.triggerFinal => v.triggerHeight # 0 /\ Final(c)'
    BY <1>copy, <2>2 DEF MarksOnChain
  <2>4. QED BY <1>copy, <2>2, <2>3 DEF MarksOnChain, SameEvents
<1>cm. ASSUME NEW u \in Threads, cm[u] # None, NEW w, SameEvents(cm[u], w)
       PROVE  MarksOnChain(w)'
  <2>1. PICK v \in Record : v = cm[u] /\ MarksOnChain(v)
    BY <1>2, <1>cm DEF FInv
  <2>2. QED BY <1>1, <1>copy, <1>cm, <2>1, MarksStay
<1>3. ASSUME NEW i \in Saved' PROVE MarksOnChain(rows[i])'
  <2>1. CASE i \in Saved /\ MarkedFrom(rows[i], rows'[i])
    <3>1. PICK v \in Record : v = rows[i] /\ MarksOnChain(v)
      BY <1>2, <2>1 DEF FInv, Saved
    <3>2. PICK w : w = rows'[i]
      OBVIOUS
    <3>3. MarkedFrom(v, w)
      BY <2>1, <3>1, <3>2
    <3>4. PICK b, c : b = BlockIn(v, "event") /\ c = BlockIn(v, "trigger")
      OBVIOUS
    <3>5. /\ b.height = v.eventHeight /\ c.height = v.triggerHeight
          /\ b.height \in Nat /\ c.height \in Nat
      BY <3>4, BlocksOf
    <3>unmarked. \A d : d.height \in Nat /\ Good(d, doubted') => Final(d)'
      <4>1. ASSUME NEW d, d.height \in Nat, Good(d, doubted') PROVE Final(d)'
        <5>1. final' >= final /\ final' \in Nat /\ d.height # 0 /\ d.height <= final
          BY <1>1, <4>1, LedgerGrows DEF Good
        <5>2. OnChain(d.height, d.id) => OnChain(d.height, d.id)'
          BY <1>1, <4>1, <5>1, FinalizedStays
        <5>3. d.height <= final'
          BY <1>1, <4>1, <5>1
        <5>4. QED BY <4>1, <5>2, <5>3 DEF Good, Final
      <4>2. QED BY <4>1
    <3>6. ASSUME w.eventFinal, w.eventHeight # 0
          PROVE  Final(BlockIn(w, "event"))'
      <4>1. w.eventHeight = v.eventHeight /\ w.eventId = v.eventId
        BY <3>3, <3>6 DEF MarkedFrom
      <4>2. BlockIn(w, "event")' = b
        BY <3>4, <4>1 DEF BlockIn
      <4>3. v.eventFinal \/ Good(b, doubted')
        BY <3>3, <3>4, <3>6 DEF MarkedFrom
      <4>4. v.eventFinal => Final(b)
        BY <3>1, <3>4, <3>6, <4>1 DEF MarksOnChain
      <4>5. Final(b)'
        BY <1>1, <3>5, <3>6, <3>unmarked, <4>1, <4>3, <4>4, FinalStays
      <4>6. QED BY <4>2, <4>5 DEF Final
    <3>7. ASSUME w.triggerFinal
          PROVE  w.triggerHeight # 0 /\ Final(BlockIn(w, "trigger"))'
      <4>1. w.triggerHeight = v.triggerHeight /\ w.triggerId = v.triggerId
        BY <3>3, <3>7 DEF MarkedFrom
      <4>2. BlockIn(w, "trigger")' = c
        BY <3>4, <4>1 DEF BlockIn
      <4>3. v.triggerFinal \/ Good(c, doubted')
        BY <3>3, <3>4, <3>7 DEF MarkedFrom
      <4>4. v.triggerFinal => v.triggerHeight # 0 /\ Final(c)
        BY <3>1, <3>4, <3>7, <4>1 DEF MarksOnChain
      <4>5. c.height # 0
        BY <3>5, <4>3, <4>4 DEF Good
      <4>6. Final(c)'
        BY <1>1, <3>5, <3>unmarked, <4>3, <4>4, <4>5, FinalStays
      <4>7. QED BY <3>5, <4>1, <4>2, <4>5, <4>6 DEF Final
    <3>8. MarksOnChain(w)'
      BY <3>6, <3>7 DEF MarksOnChain
    <3>9. QED BY <3>2, <3>8 DEF MarksOnChain
  <2>2. CASE \E u \in Threads : cm[u] # None /\ SameEvents(cm[u], rows'[i])
    <3>1. PICK w : w = rows'[i]
      OBVIOUS
    <3>2. MarksOnChain(w)'
      BY <1>cm, <2>2, <3>1
    <3>3. QED BY <3>1, <3>2
  <2>3. QED BY <2>1, <2>2, RowSource
<1>4. ASSUME NEW t \in Threads, cm'[t] # None PROVE MarksOnChain(cm[t])'
  <2>1. PICK w : w = cm'[t]
    OBVIOUS
  <2>2. MarksOnChain(w)'
    <3>1. CASE Unmarked(w)
      BY <3>1 DEF Unmarked, MarksOnChain
    <3>2. CASE \E u \in Threads : cm[u] # None /\ SameEvents(cm[u], w)
      BY <1>cm, <3>2
    <3>3. ASSUME NEW i \in Saved, SameEvents(rows[i], w) PROVE MarksOnChain(w)'
      <4>1. PICK v \in Record : v = rows[i] /\ MarksOnChain(v)
        BY <1>2 DEF FInv, Saved
      <4>2. QED BY <1>1, <1>copy, <3>3, <4>1, MarksStay
    <3>4. QED BY <1>4, <2>1, <3>1, <3>2, <3>3, CmSource
  <2>3. QED BY <2>1, <2>2
<1>5. QED BY <1>3, <1>4, FinMarksStay DEF FInv

\* A record is marked final for an event or a trigger only if its block is a finalized one
\* of the chain, or a replaced one of which the FinalityMonitor said so, or was not asked,
\* the record having been saved after the query and before the update: over any
\* number of replaced blocks, of monitors that dropBlock starts, of goroutines that still hold
\* an older copy of the record and write it between the statements of the finalizer or after,
\* of failed saves and crashes (finalizeCall, autocaller.go:554; finalizeRollback,
\* autocaller.go:611), and without SaveIf's transaction excluding other writers.
THEOREM FinalMarksAreTrue == Spec => []FinalEventsOnChain
<1>1. Init => FInv
  BY DEF Init, FInv, FinMarks, Saved
<1>2. FInv => FinalEventsOnChain
  BY DEF FInv, MarksOnChain, FinalEventsOnChain
<1>3. QED
  BY TInvInit, TInvStep, FInvStep, <1>1, <1>2, PTL DEF Spec

-----------------------------------------------------------------------------
(* While no block is replaced: the chain only grows, one monitor runs, and *)
(* all that goroutines and tables hold of the network is on the chain.     *)

Calm == "reorg" \notin load.faults

\* A request has one answer, and is executed only after its message or a failure.
Hist(S) ==
  \A r : /\ ~ (Has(S, "success", r) /\ Has(S, "failure", r))
         /\ Executed(S, r) => Has(S, "message", r) \/ Has(S, "failure", r)

LEMMA ChainOnlyGrows ==
  ASSUME LedgerOK, LedgerMove, Calm
  PROVE  /\ Calm' /\ fork' = fork /\ Included \subseteq Included'
         /\ \A h \in DOMAIN chain : h \in DOMAIN chain' /\ chain'[h] = chain[h]
         /\ \A h, b : OnChain(h, b) => OnChain(h, b)'
<1>1. load' = load /\ fork' = fork
  BY LedgerGrows DEF LedgerMove, Calm, ledgerVars, Mine, FinalizeNext, Lose, Send
<1>2. \A h \in DOMAIN chain : h \in DOMAIN chain' /\ chain'[h] = chain[h]
  <2>1. CASE UNCHANGED chain
    BY <2>1
  <2>2. CASE Mine
    BY <2>2 DEF Mine, LedgerOK
  <2>3. QED BY <2>1, <2>2 DEF LedgerMove, Calm, ledgerVars, FinalizeNext, Lose, Send
<1>3. Included \subseteq Included'
  BY <1>2 DEF Included, ItemsOf
<1>4. QED BY <1>1, <1>2, <1>3 DEF Calm, OnChain

LEMMA HistWithNext ==
  ASSUME NEW S, NEW p, Hist(S), NEW e \in Possible(S, p)
  PROVE  Hist(S \cup {e})
<1>1. \/ e.kind \in {"message", "sent", "reverted"}
      \/ e.kind \in {"success", "failure"} /\ ~ Answered(S, e.req)
      \/ e.kind = "executed" /\ Executable(S, e.req)
  <2>kind. \A kind, r, t : Item(kind, r, t).kind = kind /\ Item(kind, r, t).req = r
    BY DEF Item
  <2>sent. \A n, caller : SentItem(n, caller).kind = "sent"
    BY DEF SentItem, Item
  <2>1. CASE \E r : e = Item("message", r, 0) \/ \E caller : e = SentItem(r, caller)
    BY <2>kind, <2>sent, <2>1
  <2>2. CASE \E outcome \in {"success", "failure"} : \E n :
               e = Item(outcome, n, 0) /\ ~ Answered(S, n)
    BY <2>kind, <2>2
  <2>3. CASE \E t \in p : e = Item(IF Executable(S, sent[t]) THEN "executed" ELSE "reverted",
                                   sent[t], t)
    BY <2>kind, <2>3
  <2>4. CASE \E r : Executable(S, r) /\ e = Item("executed", r, 0)
    BY <2>kind, <2>4
  <2>5. QED BY <2>1, <2>2, <2>3, <2>4 DEF Possible
<1>2. \A k, r : Has(S \cup {e}, k, r) <=> Has(S, k, r) \/ (e.kind = k /\ e.req = r)
  BY DEF Has
<1>3. ASSUME NEW r
      PROVE  /\ ~ (Has(S \cup {e}, "success", r) /\ Has(S \cup {e}, "failure", r))
             /\ Executed(S \cup {e}, r) =>
                  Has(S \cup {e}, "message", r) \/ Has(S \cup {e}, "failure", r)
  BY <1>1, <1>2 DEF Hist, Answered, Executable, Executed
<1>4. QED BY <1>3 DEF Hist

\* What a mined block adds.
LEMMA MinedItems ==
  ASSUME LedgerOK, Mine
  PROVE  \/ Included' = Included
         \/ \E e \in Possible(Included, pool) :
              \/ Included' = Included \cup {e}
              \/ \E f \in Possible(Included \cup {e}, pool \ {e.tx}) :
                   Included' = Included \cup {e} \cup {f}
<1>1. PICK items \in Contents : chain' = Append(chain, [id |-> fork, items |-> items])
  BY DEF Mine
<1>2. Head_ < MaxHeight
  BY DEF Mine
<1>3. /\ items \in Seq(ItemType)
      /\ \/ items = <<>>
         \/ \E e \in Possible(Included, pool) :
              \/ items = <<e>>
              \/ \E f \in Possible(Included \cup {e}, pool \ {e.tx}) : items = <<e, f>>
  BY <1>2, ContentsAreNew
<1>4. Included' = Included \cup {items[i] : i \in DOMAIN items}
  <2>1. chain \in Seq(BlockType) /\ Len(chain) \in Nat
    BY DEF LedgerOK
  <2>2. PICK n : n = Len(chain) + 1
    OBVIOUS
  <2>3. /\ DOMAIN chain' = DOMAIN chain \cup {n}
        /\ \A h \in DOMAIN chain : chain'[h] = chain[h]
        /\ chain'[n] = [id |-> fork, items |-> items]
    BY <1>1, <2>1, <2>2
  <2>4. ItemsOf(chain'[n]) = {items[i] : i \in DOMAIN items}
    BY <2>3 DEF ItemsOf
  <2>5. Included' = UNION {ItemsOf(chain'[h]) : h \in DOMAIN chain'}
    BY DEF Included, ItemsOf
  <2>6. QED BY <2>3, <2>4, <2>5 DEF Included
<1>5. CASE items = <<>>
  BY <1>4, <1>5
<1>6. ASSUME NEW e \in Possible(Included, pool), items = <<e>>
      PROVE  Included' = Included \cup {e}
  BY <1>4, <1>6
<1>7. ASSUME NEW e, NEW f, items = <<e, f>>
      PROVE  Included' = Included \cup {e} \cup {f}
  <2>1. DOMAIN items = 1..2 /\ items[1] = e /\ items[2] = f
    BY <1>7
  <2>2. {items[i] : i \in DOMAIN items} = {e, f}
    BY <2>1
  <2>3. QED BY <1>4, <2>2
<1>8. ASSUME NEW e \in Possible(Included, pool), items # <<>>,
             \/ items = <<e>>
             \/ \E f \in Possible(Included \cup {e}, pool \ {e.tx}) : items = <<e, f>>
      PROVE  \/ Included' = Included \cup {e}
             \/ \E f \in Possible(Included \cup {e}, pool \ {e.tx}) :
                   Included' = Included \cup {e} \cup {f}
  BY <1>6, <1>7, <1>8
<1>9. QED BY <1>3, <1>5, <1>8

LEMMA HistStays ==
  ASSUME LedgerOK, LedgerMove, Calm, Hist(Included)
  PROVE  Hist(Included')
<1>1. CASE UNCHANGED chain
  <2>1. Included' = Included
    BY <1>1 DEF Included, ItemsOf
  <2>2. QED BY <2>1 DEF Hist
<1>2. CASE Mine
  <2>1. CASE Included' = Included
    BY <2>1 DEF Hist
  <2>2. ASSUME NEW e \in Possible(Included, pool),
               \/ Included' = Included \cup {e}
               \/ \E f \in Possible(Included \cup {e}, pool \ {e.tx}) :
                    Included' = Included \cup {e} \cup {f}
        PROVE  Hist(Included')
    <3>1. PICK S : S = Included \cup {e}
      OBVIOUS
    <3>2. Hist(S)
      BY <3>1, HistWithNext
    <3>3. CASE Included' = S
      BY <3>2, <3>3 DEF Hist
    <3>4. ASSUME NEW f \in Possible(S, pool \ {e.tx}), Included' = S \cup {f}
          PROVE  Hist(Included')
      <4>1. Hist(S \cup {f})
        BY <3>2, HistWithNext
      <4>2. QED BY <3>4, <4>1 DEF Hist
    <3>5. QED BY <2>2, <3>1, <3>3, <3>4
  <2>3. QED BY <1>2, <2>1, <2>2, MinedItems
<1>3. QED BY <1>1, <1>2 DEF LedgerMove, Calm, ledgerVars, FinalizeNext, Lose, Send

\* What a record says of the network is so.
Recorded(v) ==
  /\ v.from = 1
  /\ v.eventHeight # 0 => OnChain(v.eventHeight, v.eventId)
  /\ v.triggerHeight # 0 => OnChain(v.triggerHeight, v.triggerId)
  /\ v.blockHeight # 0 => OnChain(v.blockHeight, v.blockId)
  /\ v.state = "notApplicable" => Has(Included, "success", v.req)

OneMonitor ==
  \A u, v \in Monitors : pc[u] # "free" /\ pc[v] # "free" => u = v

BatchOnChain ==
  \A m \in Monitors : \A k \in DOMAIN batch[m] :
    batch[m][k] \in Included /\ IsEvent(batch[m][k])

FoundOnChain ==
  fin # None /\ fin.found # None =>
    \A i \in DOMAIN fin.found : OnChain(fin.found[i].height, fin.found[i].id)

CInv ==
  Calm => /\ FoundOnChain
          /\ fork = 1 /\ Hist(Included) /\ Running /\ OneMonitor /\ BatchOnChain
          /\ \A i \in Saved : Recorded(rows[i])
          /\ \A t \in Threads : cm[t] # None => Recorded(cm[t])

LEMMA RecordedStays ==
  ASSUME LedgerOK, LedgerMove, Calm, NEW v, Recorded(v)
  PROVE  Recorded(v)'
<1>1. /\ Included \subseteq Included' /\ \A h, b : OnChain(h, b) => OnChain(h, b)'
  BY ChainOnlyGrows
<1>2. QED BY <1>1 DEF Recorded, Has

LEMMA IncludedItem ==
  ASSUME LedgerOK, NEW e \in Included
  PROVE  Sensible(e) /\ OnChain(e.height, e.block)
<1>1. PICK h \in DOMAIN chain : \E i \in DOMAIN chain[h].items : e = chain[h].items[i]
  BY DEF Included, ItemsOf
<1>2. QED BY <1>1 DEF LedgerOK, BlockOK, ItemOK, OnChain

LEMMA CInvInit == Init => CInv
<1> SUFFICES ASSUME Init PROVE CInv
  OBVIOUS
<1>1. fork = 1 /\ Included = {} /\ Saved = {}
  BY DEF Init, LedgerInit, Included, Saved
<1>2. Hist(Included)
  BY <1>1 DEF Hist, Has, Executed
<1>3. PICK m \in Monitors : pc = Boot(m)
  BY DEF Init
<1>4. /\ \A t \in Threads : pc[t] = (IF t = m THEN "start" ELSE "free") /\ cm[t] = None
      /\ \A u \in Monitors : batch[u] = <<>>
  BY <1>3 DEF Init, Boot
<1>5. Running /\ OneMonitor /\ BatchOnChain
  BY <1>4 DEF Running, OneMonitor, BatchOnChain, Threads
<1>6. FoundOnChain
  BY DEF Init, FoundOnChain
<1>7. QED BY <1>1, <1>2, <1>4, <1>5, <1>6 DEF CInv

\* Nothing is found to be gone, so the finalizers only mark.
LEMMA FinalizersOnlyMark ==
  ASSUME TInv, CInv, Calm, Finalizer
  PROVE  /\ UNCHANGED <<ledgerVars, ids, pc, cm, streamVars, crashes>>
         /\ rows' \in Table /\ \A i \in Ids : SameButMarks(rows[i], rows'[i])
<1>1. RowsOK /\ FinOK /\ final \in Nat /\ FoundOnChain
  BY DEF TInv, LedgerOK, CInv
<1>2. UNCHANGED <<ledgerVars, ids, cm, streamVars, crashes>>
  BY <1>1, FinalizeSteps
<1>3. UNCHANGED pc /\ (rows' = rows \/ \E marks : rows' = WithMarks(marks))
  BY <1>1, FinalizeSteps DEF FoundOnChain
<1>4. CASE rows' = rows
  BY <1>1, <1>2, <1>3, <1>4, MarkedTable DEF RowsOK, Table
<1>5. CASE \E marks : rows' = WithMarks(marks)
  BY <1>1, <1>2, <1>3, <1>5, MarkedTable
<1>6. QED BY <1>3, <1>4, <1>5

LEMMA FoundStays ==
  ASSUME TInv, CInv, Calm, [Next]_vars
  PROVE  FoundOnChain'
<1>1. /\ FoundOnChain /\ FinOK /\ \A i \in Saved : Recorded(rows[i])
      /\ \A h, b : OnChain(h, b) => OnChain(h, b)'
      /\ \A task \in {"call", "rollback"} : FirstPhase(task) \in Phases
  BY NextIsLedgerMove, ChainOnlyGrows DEF TInv, CInv, FirstPhase, Phases
<1>2. CASE fin' = None
  BY <1>2 DEF FoundOnChain
<1>3. CASE UNCHANGED finVars
  BY <1>1, <1>3 DEF FoundOnChain, finVars
<1>4. ASSUME NEW task, NEW phase \in Phases, NEW h, fin'.found = FindUnfinal(task, phase, h)
      PROVE  FoundOnChain'
  <2>1. ASSUME NEW i \in Unfinal(task, phase, h)
        PROVE  OnChain(BlockIn(rows[i], phase).height, BlockIn(rows[i], phase).id)
    <3>1. Recorded(rows[i]) /\ BlockIn(rows[i], phase).height # 0
      BY <1>1 DEF Unfinal, TaskRows, Calls, Rollbacks
    <3>2. QED BY <3>1 DEF Recorded, BlockIn, Phases
  <2>2. /\ DOMAIN fin'.found = Unfinal(task, phase, h)
        /\ \A i \in Unfinal(task, phase, h) : fin'.found[i] = BlockIn(rows[i], phase)
    BY <1>4 DEF FindUnfinal
  <2>3. PICK found : found = fin'.found
    OBVIOUS
  <2>4. \A i \in DOMAIN found : OnChain(found[i].height, found[i].id)'
    BY <1>1, <2>1, <2>2, <2>3
  <2>5. QED BY <2>3, <2>4 DEF FoundOnChain, OnChain
<1>5. CASE \E task \in {"call", "rollback"}, h \in 1..MaxHeight : FinalizeBegins(task, h)
  <2>1. PICK task \in {"call", "rollback"}, h \in 1..MaxHeight : FinalizeBegins(task, h)
    BY <1>5
  <2>2. fin'.found = FindUnfinal(task, FirstPhase(task), h)
    BY <2>1 DEF FinalizeBegins
  <2>3. QED BY <1>1, <1>4, <2>2
<1>6. CASE FinalizeFinds
  <2>1. fin # None /\ fin.phase \in Phases /\ fin'.found = FindUnfinal(fin.task, fin.phase, fin.height)
    BY <1>1, <1>6 DEF FinalizeFinds, FinOK
  <2>2. QED BY <1>4, <2>1
<1>7. CASE FinalizeUpdates /\ fin' # None
  <2>1. fin'.found = None
    BY <1>1, <1>7 DEF FinalizeUpdates, Asking, FinOK
  <2>2. QED BY <2>1 DEF FoundOnChain
<1>8. CASE FinalizeDrops \/ FinalizeFails
  BY <1>2, <1>8 DEF FinalizeDrops, FinalizeFails
<1>9. QED BY <1>2, <1>3, <1>5, <1>6, <1>7, <1>8, FinStays DEF Finalizer

\* An event passed on, and what it is about.
LEMMA PassedOn ==
  ASSUME TInv, BatchOnChain, NEW m \in Monitors, batch[m] # <<>>
  PROVE  /\ Head(batch[m]) \in Included /\ IsEvent(Head(batch[m])) /\ Sensible(Head(batch[m]))
         /\ OnChain(Head(batch[m]).height, Head(batch[m]).block)
         /\ Head(batch[m]) \in ItemType
<1>1. batch[m] \in Seq(ItemType) /\ LedgerOK
  BY DEF TInv, StreamsOK
<1>2. Head(batch[m]) = batch[m][1] /\ 1 \in DOMAIN batch[m]
  BY <1>1
<1>3. QED BY <1>1, <1>2, IncludedItem DEF BatchOnChain, Sensible

LEMMA RecordsStayRecorded ==
  ASSUME TInv, CInv, Calm, [Next]_vars, NEW w, Origin(w)
  PROVE  Recorded(w)
<1>1. /\ LedgerOK /\ fork = 1 /\ Hist(Included) /\ BatchOnChain
      /\ \A i \in Saved : Recorded(rows[i]) /\ rows[i] \in Record
      /\ \A t \in Threads : cm[t] # None => Recorded(cm[t]) /\ cm[t] \in Record
  BY DEF TInv, CInv, RowsOK, ThreadsOK, Saved
<1>2. CASE FromEvent(w)
  <2>1. PICK m \in Monitors :
          /\ batch[m] # <<>>
          /\ \/ w = NewCall(Head(batch[m]))
             \/ w = NewRollback(Head(batch[m]))
             \/ \E i \in Saved :
                  /\ rows[i].req = Head(batch[m]).req
                  /\ \/ w = NewResponse(Head(batch[m]), rows[i])
                     \/ w = Done(rows[i], Head(batch[m]))
    BY <1>2 DEF FromEvent
  <2>2. PICK e : e = Head(batch[m])
    OBVIOUS
  <2>3. e \in Included /\ Sensible(e) /\ OnChain(e.height, e.block) /\ e.from = 1 /\ e \in ItemType
    BY <1>1, <2>1, <2>2, PassedOn DEF Sensible, ItemType
  <2>4. CASE w = NewCall(e) \/ w = NewRollback(e)
    BY <2>3, <2>4 DEF NewCall, NewRollback, WithEvent, Blank, Recorded
  <2>5. ASSUME NEW i \in Saved, rows[i].req = e.req, w = NewResponse(e, rows[i])
        PROVE  Recorded(w)
    <3>1. e.kind = "success" => Has(Included, "success", e.req)
      BY <2>3 DEF Has
    <3>2. QED BY <1>1, <2>3, <2>5, <3>1 DEF NewResponse, WithEvent, Blank, Recorded
  <2>6. ASSUME NEW i \in Saved, w = Done(rows[i], e)
        PROVE  Recorded(w)
    BY <1>1, <2>3, <2>6, SMTT(30) DEF Done, Recorded, Record
  <2>7. QED BY <2>1, <2>2, <2>4, <2>5, <2>6
<1>3. CASE FromThread(w)
  <2>1. PICK u \in Threads :
          /\ cm[u] # None
          /\ \/ w = cm[u]
             \/ w = [cm[u] EXCEPT !.id = ids + 1]
             \/ \E state \in {"sending", "skip", "error"}, tx \in Nat :
                  w = [cm[u] EXCEPT !.state = state, !.tx = tx]
             \/ w = [cm[u] EXCEPT !.tx = 0]
             \/ \E e \in Included : w = [cm[u] EXCEPT !.state = "sent", !.blockHeight = e.height,
                                                      !.blockId = e.block]
    BY <1>3 DEF FromThread
  <2>2. Recorded(cm[u]) /\ cm[u] \in Record
    BY <1>1, <2>1
  <2>3. CASE \/ w = cm[u]
             \/ w = [cm[u] EXCEPT !.id = ids + 1]
             \/ \E state \in {"sending", "skip", "error"}, tx \in Nat :
                  w = [cm[u] EXCEPT !.state = state, !.tx = tx]
             \/ w = [cm[u] EXCEPT !.tx = 0]
    BY <2>2, <2>3 DEF Recorded, Record
  <2>4. ASSUME NEW e \in Included,
               w = [cm[u] EXCEPT !.state = "sent", !.blockHeight = e.height, !.blockId = e.block]
        PROVE  Recorded(w)
    <3>1. OnChain(e.height, e.block)
      BY <1>1, IncludedItem
    <3>2. QED BY <2>2, <2>4, <3>1 DEF Recorded, Record
  <2>5. QED BY <2>1, <2>3, <2>4, ZenonT(60)
<1>4. CASE \E i \in Saved : w = rows[i]
  BY <1>1, <1>4
<1>5. QED BY <1>2, <1>3, <1>4 DEF Origin

\* A step saves one goroutine's record or leaves the tables but for marks.
LEMMA CalmRows ==
  ASSUME TInv, CInv, Calm, [Next]_vars
  PROVE  \/ ids' = ids /\ \A i \in Ids : SameButMarks(rows[i], rows'[i])
         \/ \E u \in Threads :
              /\ Save(cm[u])
              /\ \/ u \in Monitors /\ pc[u] = "save" /\ cm'[u] = None
                 \/ /\ Continue(u, WithKey(cm[u]))
                    /\ (pc[u] = "saveIf" /\ NotDone(cm[u])) \/ pc[u] = "write"
<1>1. rows \in [Ids -> Record \cup {None}] /\ Monitors \subseteq Threads
  BY DEF TInv, RowsOK, Threads
<1>2. CASE UNCHANGED dbVars
  BY <1>1, <1>2, MarkedTable DEF TInv, dbVars
<1>3. CASE Finalizer
  BY <1>3, FinalizersOnlyMark
<1>4. ASSUME NEW m \in Monitors, Monitor(m)
      PROVE  UNCHANGED dbVars \/ (pc[m] = "save" /\ Save(cm[m]) /\ cm'[m] = None)
  <2>1. cm \in [Threads -> Record \cup {None}]
    BY DEF TInv, ThreadsOK
  <2>2. QED
    BY <1>1, <1>4, <2>1 DEF Monitor, GetMonitorHeight, Fetch, ConnectionLost, OnCallMessage,
              OnCallMessageSent, OnResponse, OnExecuted, NextEvent, SaveDone, SaveDoneFails
<1>5. ASSUME NEW t \in Threads, ExecuteCall(t)
      PROVE  \/ UNCHANGED dbVars
             \/ /\ Save(cm[t]) /\ Continue(t, WithKey(cm[t]))
                /\ (pc[t] = "saveIf" /\ NotDone(cm[t])) \/ pc[t] = "write"
  <2>1. CASE InvokeSends(t) \/ InvokeSkips(t) \/ InvokeFails(t) \/ SaveIfReads(t) \/ SaveIfFails(t)
    BY <2>1 DEF InvokeSends, InvokeSkips, InvokeFails, SaveIfReads, SaveIfFails
  <2>2. CASE SaveIf(t)
    BY <2>2 DEF SaveIf
  <2>3. CASE SaveIfWrites(t)
    <3>1. pc[t] = "write" /\ cm[t].id # 0
      BY <2>3 DEF SaveIfWrites, TInv, ThreadsOK, Fits, CInv
    <3>2. WithKey(cm[t]) = cm[t]
      BY <3>1 DEF WithKey
    <3>3. QED BY <2>3, <3>1, <3>2 DEF SaveIfWrites
  <2>4. QED BY <1>5, <2>1, <2>2, <2>3 DEF ExecuteCall
<1>6. ASSUME NEW g \in Results, CallResult(g)
      PROVE  UNCHANGED dbVars
  BY <1>6 DEF CallResult, ResultSuccess, ResultFailure, ResultNotFound
<1>7. (Network \/ Crash \/ UNCHANGED vars) => UNCHANGED dbVars
  BY DEF Network, Crash, vars
<1>8. QED
  BY <1>1, <1>2, <1>3, <1>4, <1>5, <1>6, <1>7 DEF Next

LEMMA RowsStayRecorded ==
  ASSUME TInv, CInv, Calm, [Next]_vars, NEW i \in Saved'
  PROVE  Recorded(rows'[i])
<1>1. /\ RowsOK /\ None \notin Record /\ rows \in [Ids -> Record \cup {None}] /\ i \in Ids
      /\ rows'[i] # None /\ ids \in Nat
      /\ \A j \in Saved : Recorded(rows[j]) /\ rows[j] \in Record
      /\ \A t \in Threads : /\ cm[t] # None => Recorded(cm[t]) /\ cm[t] \in Record
                            /\ pc[t] \in {"save", "saveIf", "write"} => cm[t] # None
  BY NoneAssumption DEF TInv, CInv, RowsOK, ThreadsOK, Saved, Fits
<1>2. CASE SameButMarks(rows[i], rows'[i])
  <2>1. i \in Saved
    BY <1>1, <1>2 DEF SameButMarks, Saved
  <2>2. QED BY <1>1, <1>2, <2>1 DEF SameButMarks, Recorded
<1>3. ASSUME NEW u \in Threads, pc[u] \in {"save", "saveIf", "write"}, Save(cm[u])
      PROVE  Recorded(rows'[i])
  <2>1. Recorded(cm[u]) /\ cm[u] \in Record
    BY <1>1, <1>3
  <2>2. Recorded([cm[u] EXCEPT !.id = ids + 1])
    BY <2>1 DEF Recorded, Record
  <2>3. rows'[i] \in {rows[i], cm[u], [cm[u] EXCEPT !.id = ids + 1]}
    BY <1>1, <1>3 DEF Save
  <2>4. rows'[i] = rows[i] => i \in Saved
    BY <1>1 DEF Saved
  <2>5. QED BY <1>1, <2>1, <2>2, <2>3, <2>4
<1>4. QED BY <1>1, <1>2, <1>3, CalmRows

\* A record not applicable has a success on the chain, and what was executed a failure.
LEMMA NoPanic ==
  ASSUME TInv, CInv, Calm, NEW m \in Monitors, OnExecuted(m)
  PROVE  ~ Is(FindOne(Head(batch[m]).req), "notApplicable")
<1>1. /\ Hist(Included) /\ BatchOnChain /\ RowsOK /\ LedgerOK
      /\ \A i \in Saved : Recorded(rows[i])
  BY DEF TInv, CInv
<1>2. PICK e : e = Head(batch[m])
  OBVIOUS
<1>3. batch[m] # <<>> /\ e.kind = "executed" /\ e \in Included
  BY <1>1, <1>2, PassedOn DEF OnExecuted, NextEvent
<1>4. SUFFICES ASSUME Is(FindOne(e.req), "notApplicable") PROVE FALSE
  BY <1>2
<1>5. PICK i \in Saved : rows[i] = FindOne(e.req) /\ rows[i].req = e.req
  BY <1>1, <1>4, FindOneFinds DEF Is
<1>6. Has(Included, "success", e.req)
  BY <1>1, <1>4, <1>5 DEF Is, Recorded
<1>7. Has(Included, "message", e.req) \/ Has(Included, "failure", e.req)
  BY <1>1, <1>3 DEF Hist, Executed, Has
<1>8. PICK x \in Included : x.kind = "success" /\ x.req = e.req
  BY <1>6 DEF Has
<1>9. e.req \in Sns
  BY <1>1, <1>8, IncludedItem DEF Sensible
<1>10. ~ Has(Included, "message", e.req)
  <2>1. \A y \in Included : y.kind = "message" => y.req \in Reqs
    BY <1>1, IncludedItem DEF Sensible
  <2>2. QED BY <1>9, <2>1, LedgerAssumption DEF Has
<1>11. QED BY <1>1, <1>6, <1>7, <1>10 DEF Hist

\* Which monitors a step may start or stop.
LEMMA MonitorLabels ==
  ASSUME TInv, CInv, Calm, [Next]_vars
  PROVE  /\ \/ Crash
            \/ \A m \in Monitors : /\ pc'[m] = "free" <=> pc[m] = "free"
                                   /\ pc'[m] # "panic"
         /\ \A t \in Threads : pc'[t] # "panic"
<1>1. /\ ThreadsOK /\ pc \in [Threads -> Labels] /\ Monitors \cap Results = {}
      /\ \A t \in Threads : pc[t] # "panic"
      /\ Monitors \subseteq Threads /\ Results \subseteq Threads
  BY AutoCallerAssumption DEF TInv, CInv, ThreadsOK, Threads, Running
<1>2. CASE UNCHANGED pc
  BY <1>1, <1>2
<1>set. ASSUME NEW t \in Threads, NEW l, l # "panic", pc' = [pc EXCEPT ![t] = l],
               t \in Monitors => (l = "free" <=> pc[t] = "free")
        PROVE  /\ \A m \in Monitors : /\ pc'[m] = "free" <=> pc[m] = "free"
                                      /\ pc'[m] # "panic"
               /\ \A u \in Threads : pc'[u] # "panic"
  BY <1>1, <1>set
<1>3. CASE Crash
  <2>1. \A t \in Threads : pc'[t] \in {"start", "free"}
    BY <1>3 DEF Crash, Boot
  <2>2. QED BY <1>3, <2>1
<1>4. ASSUME NEW m \in Monitors, Monitor(m)
      PROVE  /\ \A u \in Monitors : /\ pc'[u] = "free" <=> pc[u] = "free"
                                    /\ pc'[u] # "panic"
             /\ \A u \in Threads : pc'[u] # "panic"
  <2>1. CASE \/ GetMonitorHeight(m) \/ ConnectionLost(m) \/ SaveDone(m) \/ SaveDoneFails(m)
    <3>1. PICK l \in {"start", "stream"} : pc' = [pc EXCEPT ![m] = l]
      BY <2>1 DEF GetMonitorHeight, ConnectionLost, SaveDone, SaveDoneFails, StopStream, Goto
    <3>2. pc[m] # "free"
      BY <2>1 DEF GetMonitorHeight, ConnectionLost, SaveDone, SaveDoneFails
    <3>3. m \in Threads
      BY <1>1
    <3>4. CASE l = "start"
      BY <1>set, <3>1, <3>2, <3>3, <3>4
    <3>5. CASE l = "stream"
      BY <1>set, <3>1, <3>2, <3>3, <3>5
    <3>6. QED BY <3>4, <3>5
  <2>2. CASE Fetch(m)
    <3>1. UNCHANGED pc
      BY <2>2 DEF Fetch, threadVars
    <3>2. QED BY <1>1, <3>1
  <2>3. CASE OnCallMessage(m) \/ OnCallMessageSent(m) \/ OnResponse(m, "success")
             \/ OnResponse(m, "failure")
    <3>1. pc[m] = "stream"
      BY <2>3 DEF OnCallMessage, OnCallMessageSent, OnResponse, NextEvent
    <3>2. \/ UNCHANGED pc
          \/ \E l \in {"invoke", "save"} : pc' = [pc EXCEPT ![m] = l]
          \/ \E g \in Results : pc' = [pc EXCEPT ![g] = "get"]
      BY <2>3 DEF OnCallMessage, OnCallMessageSent, OnResponse, Goto, threadVars
    <3>3. QED BY <1>1, <1>2, <1>set, <3>1, <3>2
  <2>4. CASE OnExecuted(m)
    <3>1. pc[m] = "stream"
      BY <2>4 DEF OnExecuted, NextEvent
    <3>2. \/ UNCHANGED pc
          \/ pc' = [pc EXCEPT ![m] = "save"]
      BY <2>4, NoPanic DEF OnExecuted, Goto, threadVars
    <3>3. QED BY <1>1, <1>2, <1>set, <3>1, <3>2
  <2>5. QED BY <1>4, <2>1, <2>2, <2>3, <2>4 DEF Monitor
<1>5. ASSUME NEW t \in Threads, ExecuteCall(t)
      PROVE  /\ \A u \in Monitors : /\ pc'[u] = "free" <=> pc[u] = "free"
                                    /\ pc'[u] # "panic"
             /\ \A u \in Threads : pc'[u] # "panic"
  <2>1. pc[t] # "free"
    BY <1>5 DEF ExecuteCall, InvokeSends, InvokeSkips, InvokeFails, SaveIf, SaveIfReads,
                SaveIfWrites, SaveIfFails
  <2>2. CASE InvokeSends(t) \/ InvokeSkips(t) \/ InvokeFails(t)
    <3>1. pc' = [pc EXCEPT ![t] = "saveIf"]
      BY <2>2 DEF InvokeSends, InvokeSkips, InvokeFails, Goto
    <3>2. QED BY <1>set, <2>1, <3>1
  <2>3. ASSUME NEW v, Continue(t, v)
        PROVE  /\ \A u \in Monitors : /\ pc'[u] = "free" <=> pc[u] = "free"
                                      /\ pc'[u] # "panic"
               /\ \A u \in Threads : pc'[u] # "panic"
    <3>1. CASE \E g \in Results : pc[g] = "free" /\ t \notin Results
                                  /\ pc' = [pc EXCEPT ![g] = "get", ![t] = "stream"]
      BY <1>1, <2>1, <3>1
    <3>2. CASE \E l \in {"get", "free"} : t \in Results /\ pc' = [pc EXCEPT ![t] = l]
      BY <1>1, <1>set, <3>2
    <3>3. CASE pc' = [pc EXCEPT ![t] = "stream"]
      BY <1>set, <2>1, <3>3
    <3>4. QED BY <2>3, <3>1, <3>2, <3>3 DEF Continue, Goto
  <2>4. CASE SaveIfReads(t)
    <3>1. pc' = [pc EXCEPT ![t] = "write"] \/ Continue(t, cm[t])
      BY <2>4 DEF SaveIfReads, Goto
    <3>2. QED BY <1>set, <2>1, <2>3, <3>1
  <2>5. CASE SaveIf(t) \/ SaveIfWrites(t) \/ SaveIfFails(t)
    BY <2>3, <2>5 DEF SaveIf, SaveIfWrites, SaveIfFails
  <2>6. QED BY <1>5, <2>2, <2>4, <2>5 DEF ExecuteCall
<1>6. ASSUME NEW g \in Results, CallResult(g)
      PROVE  /\ \A u \in Monitors : /\ pc'[u] = "free" <=> pc[u] = "free"
                                    /\ pc'[u] # "panic"
             /\ \A u \in Threads : pc'[u] # "panic"
  <2>1. PICK l \in {"saveIf", "invoke"} : pc' = [pc EXCEPT ![g] = l]
    BY <1>6 DEF CallResult, ResultSuccess, ResultFailure, ResultNotFound, Goto
  <2>2. QED BY <1>1, <1>set, <2>1
<1>7. Finalizer => UNCHANGED pc
  BY FinalizersOnlyMark
<1>8. (Network \/ UNCHANGED vars) => UNCHANGED pc
  BY DEF Network, threadVars, vars
<1>9. QED
  BY <1>2, <1>3, <1>4, <1>5, <1>6, <1>7, <1>8 DEF Next

LEMMA BatchStaysOnChain ==
  ASSUME TInv, CInv, Calm, [Next]_vars
  PROVE  BatchOnChain'
<1>1. /\ LedgerOK /\ LedgerMove /\ BatchOnChain /\ Included \subseteq Included'
      /\ batch \in [Monitors -> Seq(ItemType)]
      /\ at \in [Monitors -> 0..(MaxHeight + 1)]
      /\ \A m \in Monitors : pc[m] = "stream" => at[m] >= 1
  BY NextIsLedgerMove, ChainOnlyGrows DEF TInv, CInv, StreamsOK, Passing
<1>2. CASE UNCHANGED batch
  BY <1>1, <1>2 DEF BatchOnChain
<1>3. CASE Crash
  <2>1. \A m \in Monitors : batch'[m] = <<>>
    BY <1>3 DEF Crash
  <2>2. QED BY <2>1 DEF BatchOnChain
<1>set. ASSUME NEW m \in Monitors, NEW s \in Seq(ItemType), batch' = [batch EXCEPT ![m] = s],
               \A k \in DOMAIN s : s[k] \in Included /\ IsEvent(s[k])
        PROVE  BatchOnChain'
  BY <1>1, <1>set DEF BatchOnChain
<1>4. ASSUME NEW m \in Monitors, Monitor(m)
      PROVE  BatchOnChain'
  <2>1. CASE GetMonitorHeight(m) \/ SaveDone(m)
    BY <1>2, <2>1 DEF GetMonitorHeight, SaveDone, streamVars
  <2>2. CASE Fetch(m)
    <3>1. PICK to \in at[m]..Head_ :
            \E events \in EventsBetween(at[m], to) : batch' = [batch EXCEPT ![m] = events]
      BY <2>2 DEF Fetch
    <3>2. PICK events \in EventsBetween(at[m], to) : batch' = [batch EXCEPT ![m] = events]
      BY <3>1
    <3>3. at[m] \in Nat /\ at[m] >= 1 /\ to \in Nat /\ to <= Head_
      BY <1>1, <2>2, <3>1 DEF Fetch, Head_, LedgerOK
    <3>4. /\ events \in Seq(ItemType)
          /\ \A k \in DOMAIN events : events[k] \in Included /\ IsEvent(events[k])
      BY <1>1, <3>2, <3>3, EventsAreTold
    <3>5. QED BY <1>set, <3>2, <3>4
  <2>3. CASE ConnectionLost(m) \/ SaveDoneFails(m)
    <3>1. batch' = [batch EXCEPT ![m] = <<>>] /\ <<>> \in Seq(ItemType) /\ DOMAIN <<>> = {}
      BY <2>3 DEF ConnectionLost, SaveDoneFails, StopStream
    <3>2. QED BY <1>set, <3>1
  <2>4. CASE OnCallMessage(m) \/ OnCallMessageSent(m) \/ OnResponse(m, "success")
             \/ OnResponse(m, "failure") \/ OnExecuted(m)
    <3>1. PICK s : s = batch[m]
      OBVIOUS
    <3>2. s # <<>> /\ batch' = [batch EXCEPT ![m] = Tail(s)]
      BY <2>4, <3>1 DEF OnCallMessage, OnCallMessageSent, OnResponse, OnExecuted, NextEvent
    <3>3. s \in Seq(ItemType) /\ \A k \in DOMAIN s : s[k] \in Included /\ IsEvent(s[k])
      BY <1>1, <3>1 DEF BatchOnChain
    <3>4. /\ Tail(s) \in Seq(ItemType)
          /\ \A k \in DOMAIN Tail(s) : k + 1 \in DOMAIN s /\ Tail(s)[k] = s[k + 1]
      BY <3>2, <3>3
    <3>5. QED BY <1>set, <3>2, <3>3, <3>4
  <2>5. QED BY <1>4, <2>1, <2>2, <2>3, <2>4 DEF Monitor
<1>5. ASSUME NEW t \in Threads, ExecuteCall(t)
      PROVE  UNCHANGED batch
  BY <1>5 DEF ExecuteCall, InvokeSends, InvokeSkips, InvokeFails, SaveIf, SaveIfReads, SaveIfWrites,
              SaveIfFails, streamVars
<1>6. ASSUME NEW g \in Results, CallResult(g)
      PROVE  UNCHANGED batch
  BY <1>6 DEF CallResult, ResultSuccess, ResultFailure, ResultNotFound, streamVars
<1>7. Finalizer => UNCHANGED batch
  BY FinalizersOnlyMark DEF streamVars
<1>8. (Network \/ UNCHANGED vars) => UNCHANGED batch
  BY DEF Network, streamVars, vars
<1>9. QED
  BY <1>2, <1>3, <1>4, <1>5, <1>6, <1>7, <1>8 DEF Next

LEMMA CInvStep == TInv /\ CInv /\ [Next]_vars => CInv'
<1> SUFFICES ASSUME TInv, CInv, [Next]_vars, Calm' PROVE CInv'
  BY DEF CInv
<1>1. LedgerOK /\ LedgerMove
  BY NextIsLedgerMove DEF TInv
<1>2. Calm
  BY <1>1, LedgerGrows DEF Calm
<1>3. fork' = 1 /\ Hist(Included')
  BY <1>1, <1>2, ChainOnlyGrows, HistStays DEF CInv
<1>4. Running'
  BY <1>2, MonitorLabels DEF Running
<1>5. OneMonitor'
  <2>1. CASE Crash
    <3>1. PICK m \in Monitors : pc' = Boot(m)
      BY <2>1 DEF Crash
    <3>2. \A u \in Monitors : pc'[u] # "free" => u = m
      BY <3>1 DEF Boot, Threads
    <3>3. QED BY <3>2 DEF OneMonitor
  <2>2. CASE \A m \in Monitors : pc'[m] = "free" <=> pc[m] = "free"
    BY <1>2, <2>2 DEF OneMonitor, CInv
  <2>3. QED BY <1>2, <2>1, <2>2, MonitorLabels
<1>6. BatchOnChain'
  BY <1>2, BatchStaysOnChain
<1>7. ASSUME NEW i \in Saved' PROVE Recorded(rows[i])'
  <2>1. PICK w : w = rows'[i]
    OBVIOUS
  <2>2. Recorded(w)
    BY <1>2, <2>1, RowsStayRecorded
  <2>3. Recorded(w)'
    BY <1>1, <1>2, <2>2, RecordedStays
  <2>4. QED BY <2>1, <2>3 DEF Recorded
<1>8. ASSUME NEW t \in Threads, cm'[t] # None PROVE Recorded(cm[t])'
  <2>1. PICK w : w = cm'[t]
    OBVIOUS
  <2>2. Recorded(w)
    BY <1>2, <1>8, <2>1, CmOrigin, RecordsStayRecorded
  <2>3. Recorded(w)'
    BY <1>1, <1>2, <2>2, RecordedStays
  <2>4. QED BY <2>1, <2>3 DEF Recorded
<1>9. Hist(Included)'
  BY <1>3
<1>10. QED BY <1>2, <1>3, <1>4, <1>5, <1>6, <1>7, <1>8, <1>9, FoundStays DEF CInv

\* While no block is replaced the process never panics over a RollbackExecuted of a Rollback
\* that it recorded as not applicable (autocaller.go), whatever crashes, is passed on again,
\* fails or is executed by others.
THEOREM NoPanicWithoutReorg == Spec => []PanicNeedsReorg
<1>1. CInv => PanicNeedsReorg
  BY DEF CInv, Calm, PanicNeedsReorg
<1>2. QED
  BY TInvInit, TInvStep, CInvInit, CInvStep, <1>1, PTL DEF Spec

-----------------------------------------------------------------------------
(* What a step does to one goroutine, while no block is replaced.          *)

\* A monitor passes on an event that leaves it something to do.
TakesEvent(m, e) ==
  /\ m \in Monitors /\ pc[m] = "stream" /\ batch[m] # <<>> /\ e = Head(batch[m])
  /\ UNCHANGED <<ledgerVars, dbVars>>
  /\ \/ /\ FindOne(e.req) = None /\ e.kind = "message"
        /\ cm'[m] = NewCall(e) /\ pc'[m] = "invoke"
     \/ /\ ~ SameCaller(FindOne(e.req), e) /\ e.kind = "sent"
        /\ cm'[m] = NewRollback(e) /\ pc'[m] = "save"
     \/ \E i \in Saved :
          /\ rows[i] = FindOne(e.req) /\ rows[i].req = e.req
          /\ \/ /\ rows[i].state = "none" /\ e.kind = "success"
                /\ cm'[m] = NewResponse(e, rows[i]) /\ pc'[m] = "save"
             \/ /\ rows[i].state = "none" /\ e.kind = "failure"
                /\ cm'[m] = NewResponse(e, rows[i]) /\ pc'[m] = "invoke"
             \/ /\ rows[i].state \notin {"done", "notApplicable"} /\ e.kind = "executed"
                /\ cm'[m] = Done(rows[i], e) /\ pc'[m] = "save"

\* SaveIf of a goroutine's record is over, and v its copy then.
Ends(t, v) ==
  /\ pc[t] \in {"saveIf", "write"} /\ v.state = cm[t].state
  /\ \/ Save(cm[t]) /\ v = WithKey(cm[t])
     \/ UNCHANGED dbVars /\ ~ NotDone(cm[t]) /\ v = cm[t]
     \/ UNCHANGED dbVars /\ "save" \in load.faults /\ v = cm[t]

IsStarted(g, v) ==
  /\ g \in Results /\ pc[g] = "free" /\ pc'[g] = "get" /\ cm'[g] = v /\ v.state = "sending"
  /\ \/ UNCHANGED dbVars /\ \E i \in Saved : v = rows[i]
     \/ \E u \in Threads : u # g /\ Ends(u, v)

Works(t) ==
  \/ /\ pc[t] = "invoke" /\ pc'[t] = "saveIf" /\ UNCHANGED dbVars
     /\ \E state \in {"sending", "skip", "error"}, tx \in Nat :
          cm'[t] = [cm[t] EXCEPT !.state = state, !.tx = tx]
  \/ /\ pc[t] = "saveIf" /\ pc'[t] = "write" /\ ~ Serializable
     /\ UNCHANGED <<dbVars, cm>>
  \/ /\ t \in Results /\ pc'[t] = "get" /\ cm[t].state = "sending" /\ Ends(t, cm'[t])
  \/ /\ t \in Results /\ pc[t] = "get" /\ pc'[t] \in {"saveIf", "invoke"} /\ UNCHANGED dbVars
     /\ cm'[t].id = cm[t].id /\ cm'[t].req = cm[t].req
     /\ cm'[t].eventHeight = cm[t].eventHeight

Rests(t) ==
  /\ cm'[t] = None /\ pc'[t] \in {"start", "stream", "free"}
  /\ pc[t] \notin {"get", "invoke"}
  /\ t \in Monitors => pc'[t] # "free"
  /\ pc[t] = "save" => Save(cm[t]) \/ "save" \in load.faults
  /\ pc[t] \in {"saveIf", "write"} =>
       \E v : /\ Ends(t, v)
              /\ v.state = "sending" =>
                   \E g \in Results : pc[g] = "free" /\ pc'[g] = "get" /\ cm'[g] = v

Stays(t) == pc'[t] = pc[t] /\ cm'[t] = cm[t]

ThreadStep(t) ==
  \/ Crash \/ Stays(t) \/ Rests(t) \/ Works(t)
  \/ \E e : TakesEvent(t, e)
  \/ \E v : IsStarted(t, v)

LEMMA CalmThreads ==
  ASSUME TInv, CInv, Calm, [Next]_vars, NEW t \in Threads
  PROVE  ThreadStep(t)
<1>1. /\ RowsOK /\ ThreadsOK /\ pc \in [Threads -> Labels] /\ cm \in [Threads -> Record \cup {None}]
      /\ None \notin Record /\ Results \subseteq Threads /\ Monitors \subseteq Threads
      /\ Threads = Monitors \cup Results /\ Monitors \cap Results = {}
      /\ \A u \in Threads : Fits(u, pc[u], cm[u])
  BY NoneAssumption, AutoCallerAssumption DEF TInv, ThreadsOK, Threads
<1>2. CASE Stays(t)
  BY <1>2 DEF ThreadStep
<1>3. CASE Crash
  BY <1>3 DEF ThreadStep
<1>4. ASSUME NEW m \in Monitors, Monitor(m)
      PROVE  ThreadStep(t)
  <2>1. CASE GetMonitorHeight(m) \/ ConnectionLost(m) \/ SaveDone(m) \/ SaveDoneFails(m)
    <3>1. /\ pc[m] \in {"start", "stream", "save"}
          /\ \E l \in {"start", "stream"} : pc' = [pc EXCEPT ![m] = l]
          /\ cm' = cm \/ cm' = [cm EXCEPT ![m] = None]
          /\ pc[m] # "save" => cm' = cm
          /\ pc[m] = "save" => /\ cm' = [cm EXCEPT ![m] = None]
                               /\ Save(cm[m]) \/ "save" \in load.faults
      BY <2>1 DEF GetMonitorHeight, ConnectionLost, SaveDone, SaveDoneFails, StopStream, Goto
    <3>2. CASE t = m
      <4>1. cm'[m] = None
        BY <1>1, <3>1 DEF Fits
      <4>2. Rests(m)
        BY <1>1, <3>1, <4>1 DEF Rests
      <4>3. QED BY <3>2, <4>2 DEF ThreadStep
    <3>3. CASE t # m
      BY <1>1, <1>2, <3>1, <3>3 DEF Stays
    <3>4. QED BY <3>2, <3>3
  <2>2. CASE Fetch(m)
    BY <1>2, <2>2 DEF Fetch, threadVars, Stays
  <2>3. CASE OnCallMessage(m) \/ OnCallMessageSent(m) \/ OnResponse(m, "success")
             \/ OnResponse(m, "failure") \/ OnExecuted(m)
    <3>1. PICK e : e = Head(batch[m])
      OBVIOUS
    <3>2. PICK f : f = FindOne(e.req)
      OBVIOUS
    <3>3. pc[m] = "stream" /\ batch[m] # <<>> /\ UNCHANGED <<ledgerVars, dbVars>>
      BY <2>3 DEF OnCallMessage, OnCallMessageSent, OnResponse, OnExecuted, NextEvent
    <3>4. f # None => f \in Record /\ \E i \in Saved : rows[i] = f /\ rows[i].req = e.req
      BY <1>1, <3>2, FindOneFinds, FoundRecord
    <3>none. f # None /\ f.state = "none" /\ e.kind = "success" => Is(NewResponse(e, f), "notApplicable")
      <4>1. NewResponse(e, f) = [NewResponse(e, f) EXCEPT !.id = f.id]
        BY ZenonT(60) DEF NewResponse, WithEvent, Blank
      <4>2. ASSUME f # None, e.kind = "success" PROVE NewResponse(e, f) # None
        <5>1. Sensible(e) /\ LedgerOK
          BY <3>1, <3>3, PassedOn DEF CInv, TInv
        <5>2. QED BY <1>1, <3>4, <4>2, <5>1, ResponseRecord
      <4>3. e.kind = "success" => NewResponse(e, f).state = "notApplicable"
        BY DEF NewResponse, WithEvent, Blank
      <4>4. QED BY <4>2, <4>3 DEF Is
    <3>fail. e.kind = "failure" => ~ Is(NewResponse(e, f), "notApplicable")
      BY DEF NewResponse, WithEvent, Blank, Is
    <3>5. CASE UNCHANGED threadVars
      BY <1>2, <3>5 DEF threadVars, Stays
    <3>6. CASE \E g \in Results : /\ Is(f, "sending") /\ Spawned(g, f)
                                  /\ pc' = [pc EXCEPT ![g] = "get"]
      <4>1. PICK g \in Results : /\ Is(f, "sending") /\ pc[g] = "free"
                                 /\ cm' = [cm EXCEPT ![g] = f] /\ pc' = [pc EXCEPT ![g] = "get"]
        BY <3>6 DEF Spawned
      <4>2. CASE t = g
        <5>1. IsStarted(g, f)
          BY <1>1, <3>3, <3>4, <4>1 DEF IsStarted, Is
        <5>2. QED BY <4>2, <5>1 DEF ThreadStep
      <4>3. CASE t # g
        BY <1>1, <1>2, <4>1, <4>3 DEF Stays
      <4>4. QED BY <4>2, <4>3
    <3>7. CASE t # m /\ \E l, v : cm' = [cm EXCEPT ![m] = v] /\ pc' = [pc EXCEPT ![m] = l]
      BY <1>1, <1>2, <3>7 DEF Stays
    <3>8. CASE /\ OnCallMessage(m) /\ f = None /\ cm' = [cm EXCEPT ![m] = NewCall(e)]
               /\ pc' = [pc EXCEPT ![m] = "invoke"]
      <4>1. e.kind = "message"
        BY <3>1, <3>8 DEF OnCallMessage, NextEvent
      <4>2. TakesEvent(m, e)
        BY <1>1, <3>1, <3>2, <3>3, <3>8, <4>1 DEF TakesEvent
      <4>3. QED BY <3>7, <3>8, <4>2 DEF ThreadStep
    <3>9. CASE /\ OnCallMessageSent(m) /\ ~ SameCaller(f, e)
               /\ cm' = [cm EXCEPT ![m] = NewRollback(e)] /\ pc' = [pc EXCEPT ![m] = "save"]
      <4>1. e.kind = "sent"
        BY <3>1, <3>9 DEF OnCallMessageSent, NextEvent
      <4>2. TakesEvent(m, e)
        BY <1>1, <3>1, <3>2, <3>3, <3>9, <4>1 DEF TakesEvent
      <4>3. QED BY <3>7, <3>9, <4>2 DEF ThreadStep
    <3>10. ASSUME NEW outcome \in {"success", "failure"}, OnResponse(m, outcome), Is(f, "none"),
                  cm' = [cm EXCEPT ![m] = NewResponse(e, f)],
                  pc' = [pc EXCEPT ![m] = IF Is(NewResponse(e, f), "notApplicable")
                                          THEN "save" ELSE "invoke"]
           PROVE  ThreadStep(t)
      <4>1. e.kind = outcome
        BY <3>1, <3>10 DEF OnResponse, NextEvent
      <4>2. f # None /\ f.state = "none"
        BY <3>10 DEF Is
      <4>3. PICK i \in Saved : rows[i] = f /\ rows[i].req = e.req
        BY <3>4, <4>2
      <4>4. CASE e.kind = "success"
        <5>1. cm'[m] = NewResponse(e, rows[i]) /\ pc'[m] = "save" /\ pc' = [pc EXCEPT ![m] = "save"]
          BY <1>1, <3>10, <3>none, <4>2, <4>3, <4>4
        <5>2. TakesEvent(m, e)
          BY <3>1, <3>2, <3>3, <4>2, <4>3, <4>4, <5>1 DEF TakesEvent
        <5>3. QED BY <3>7, <3>10, <5>1, <5>2 DEF ThreadStep
      <4>5. CASE e.kind = "failure"
        <5>1. cm'[m] = NewResponse(e, rows[i]) /\ pc'[m] = "invoke" /\ pc' = [pc EXCEPT ![m] = "invoke"]
          BY <1>1, <3>10, <3>fail, <4>2, <4>3, <4>5
        <5>2. TakesEvent(m, e)
          BY <3>1, <3>2, <3>3, <4>2, <4>3, <4>5, <5>1 DEF TakesEvent
        <5>3. QED BY <3>7, <3>10, <5>1, <5>2 DEF ThreadStep
      <4>6. QED BY <4>1, <4>4, <4>5
    <3>11. CASE /\ OnExecuted(m) /\ f # None /\ f.state \notin {"done", "notApplicable"}
                /\ cm' = [cm EXCEPT ![m] = Done(f, e)] /\ pc' = [pc EXCEPT ![m] = "save"]
      <4>1. e.kind = "executed"
        BY <3>1, <3>11 DEF OnExecuted, NextEvent
      <4>2. PICK i \in Saved : rows[i] = f /\ rows[i].req = e.req
        BY <3>4, <3>11
      <4>3. cm'[m] = Done(rows[i], e) /\ pc'[m] = "save"
        BY <1>1, <3>11, <4>2
      <4>4. TakesEvent(m, e)
        BY <3>1, <3>2, <3>3, <3>11, <4>1, <4>2, <4>3 DEF TakesEvent
      <4>5. QED BY <3>7, <3>11, <4>4 DEF ThreadStep
    <3>12. CASE OnCallMessage(m)
      BY <3>1, <3>2, <3>5, <3>6, <3>8, <3>12 DEF OnCallMessage, Goto
    <3>13. CASE OnCallMessageSent(m)
      BY <3>1, <3>2, <3>5, <3>9, <3>13 DEF OnCallMessageSent, Goto
    <3>14. ASSUME NEW outcome \in {"success", "failure"}, OnResponse(m, outcome)
           PROVE  ThreadStep(t)
      BY <3>1, <3>2, <3>5, <3>6, <3>10, <3>14 DEF OnResponse, Goto
    <3>15. CASE OnExecuted(m)
      <4>1. ~ Is(f, "notApplicable")
        BY <3>1, <3>2, <3>15, NoPanic
      <4>2. QED BY <3>1, <3>2, <3>5, <3>11, <3>15, <4>1 DEF OnExecuted, Goto
    <3>16. QED BY <2>3, <3>12, <3>13, <3>14, <3>15
  <2>4. QED BY <1>4, <2>1, <2>2, <2>3 DEF Monitor
<1>5. ASSUME NEW u \in Threads, ExecuteCall(u)
      PROVE  ThreadStep(t)
  <2>1. cm[u] \in Record /\ cm[u] # None /\ pc[u] \in {"invoke", "saveIf", "write"}
    BY <1>1, <1>5 DEF Fits, ExecuteCall, InvokeSends, InvokeSkips, InvokeFails, SaveIf, SaveIfReads,
              SaveIfWrites, SaveIfFails
  <2>2. CASE InvokeSends(u) \/ InvokeSkips(u) \/ InvokeFails(u)
    <3>1. [cm[u] EXCEPT !.state = "error"] = [cm[u] EXCEPT !.state = "error", !.tx = cm[u].tx]
      BY <2>1 DEF Record
    <3>2. cm[u].tx \in Nat /\ NewTx \in Nat /\ 0 \in Nat
      BY <2>1, BoundsAreNat, SMTT(30) DEF Record, NewTx, TInv, LedgerOK
    <3>3. PICK state \in {"sending", "skip", "error"}, tx \in Nat :
            cm' = [cm EXCEPT ![u] = [cm[u] EXCEPT !.state = state, !.tx = tx]]
      BY <2>2, <3>1, <3>2 DEF InvokeSends, InvokeSkips, InvokeFails, Set, AsSending
    <3>4. pc[u] = "invoke" /\ pc' = [pc EXCEPT ![u] = "saveIf"] /\ UNCHANGED dbVars
      BY <2>2 DEF InvokeSends, InvokeSkips, InvokeFails, Goto
    <3>5. CASE t = u
      <4>1. cm'[u] = [cm[u] EXCEPT !.state = state, !.tx = tx] /\ pc'[u] = "saveIf"
        BY <1>1, <3>3, <3>4
      <4>2. Works(u)
        BY <3>4, <4>1 DEF Works
      <4>3. QED BY <3>5, <4>2 DEF ThreadStep
    <3>6. CASE t # u
      BY <1>1, <1>2, <3>3, <3>4, <3>6 DEF Stays
    <3>7. QED BY <3>5, <3>6
  <2>3. ASSUME NEW v, Ends(u, v), Continue(u, v)
        PROVE  ThreadStep(t)
    <3>1. CASE v.state = "sending" /\ u \in Results
      <4>1. cm' = [cm EXCEPT ![u] = v] /\ pc' = [pc EXCEPT ![u] = "get"]
        BY <2>3, <3>1 DEF Continue, Set, Goto
      <4>2. CASE t = u
        <5>1. cm'[u] = v /\ pc'[u] = "get" /\ cm[u].state = "sending"
          BY <1>1, <2>3, <3>1, <4>1 DEF Ends
        <5>2. Works(u)
          BY <2>3, <3>1, <5>1 DEF Works
        <5>3. QED BY <4>2, <5>2 DEF ThreadStep
      <4>3. CASE t # u
        BY <1>1, <1>2, <4>1, <4>3 DEF Stays
      <4>4. QED BY <4>2, <4>3
    <3>2. CASE v.state = "sending" /\ u \notin Results
      <4>1. PICK g \in Results : /\ pc[g] = "free" /\ cm' = [cm EXCEPT ![g] = v, ![u] = None]
                                 /\ pc' = [pc EXCEPT ![g] = "get", ![u] = "stream"]
        BY <2>3, <3>2 DEF Continue
      <4>2. /\ g # u /\ cm'[g] = v /\ pc'[g] = "get" /\ cm'[u] = None /\ pc'[u] = "stream"
            /\ \A w \in Threads : w # g /\ w # u => Stays(w)
        BY <1>1, <3>2, <4>1 DEF Stays
      <4>3. CASE t = g
        <5>1. IsStarted(g, v)
          BY <2>3, <3>2, <4>1, <4>2 DEF IsStarted
        <5>2. QED BY <4>3, <5>1 DEF ThreadStep
      <4>4. CASE t = u
        <5>1. pc[u] \in {"saveIf", "write"}
          BY <2>3 DEF Ends
        <5>2. Rests(u)
          BY <2>3, <4>1, <4>2, <5>1 DEF Rests
        <5>3. QED BY <4>4, <5>2 DEF ThreadStep
      <4>5. QED BY <1>2, <4>2, <4>3, <4>4
    <3>3. CASE v.state # "sending"
      <4>1. PICK l \in {"free", "stream"} :
              /\ cm' = [cm EXCEPT ![u] = None] /\ pc' = [pc EXCEPT ![u] = l]
              /\ u \notin Results => l = "stream"
        BY <2>3, <3>3 DEF Continue, Set, Goto
      <4>2. CASE t = u
        <5>1. pc[u] \in {"saveIf", "write"}
          BY <2>3 DEF Ends
        <5>2. cm'[u] = None /\ pc'[u] = l
          BY <1>1, <4>1
        <5>3. Rests(u)
          BY <1>1, <2>3, <3>3, <4>1, <5>1, <5>2 DEF Rests
        <5>4. QED BY <4>2, <5>3 DEF ThreadStep
      <4>3. CASE t # u
        BY <1>1, <1>2, <4>1, <4>3 DEF Stays
      <4>4. QED BY <4>2, <4>3
    <3>4. QED BY <3>1, <3>2, <3>3
  <2>key. /\ WithKey(cm[u]).state = cm[u].state
          /\ cm[u].id # 0 => WithKey(cm[u]) = cm[u]
    BY <2>1 DEF WithKey, Record
  <2>4. CASE SaveIf(u)
    <3>1. Ends(u, WithKey(cm[u]))
      <4>1. ~ NotDone(cm[u]) => cm[u].id # 0
        BY DEF NotDone
      <4>2. QED BY <2>4, <2>key, <4>1 DEF SaveIf, Ends
    <3>2. QED BY <2>3, <2>4, <3>1 DEF SaveIf
  <2>5. CASE SaveIfReads(u)
    <3>1. CASE NotDone(cm[u])
      <4>1. /\ pc' = [pc EXCEPT ![u] = "write"] /\ UNCHANGED <<dbVars, cm>> /\ pc[u] = "saveIf"
            /\ ~ Serializable
        BY <2>5, <3>1 DEF SaveIfReads, Goto
      <4>2. Works(u)
        BY <1>1, <4>1 DEF Works
      <4>3. t # u => Stays(t)
        BY <1>1, <4>1 DEF Stays
      <4>4. QED BY <4>2, <4>3 DEF ThreadStep
    <3>2. CASE ~ NotDone(cm[u])
      <4>1. Ends(u, cm[u]) /\ Continue(u, cm[u])
        BY <2>5, <3>2 DEF SaveIfReads, Ends
      <4>2. QED BY <2>3, <4>1
    <3>3. QED BY <3>1, <3>2
  <2>6. CASE SaveIfWrites(u)
    <3>1. cm[u].id # 0
      BY <1>1, <2>6 DEF SaveIfWrites, Fits
    <3>2. Ends(u, cm[u]) /\ Continue(u, cm[u])
      BY <2>6, <2>key, <3>1 DEF SaveIfWrites, Ends
    <3>3. QED BY <2>3, <3>2
  <2>7. CASE SaveIfFails(u)
    <3>1. Ends(u, cm[u]) /\ Continue(u, cm[u])
      BY <2>7 DEF SaveIfFails, Ends
    <3>2. QED BY <2>3, <3>1
  <2>8. QED BY <1>5, <2>2, <2>4, <2>5, <2>6, <2>7 DEF ExecuteCall
<1>6. ASSUME NEW g \in Results, CallResult(g)
      PROVE  ThreadStep(t)
  <2>1. cm[g] \in Record /\ pc[g] = "get" /\ UNCHANGED dbVars
    BY <1>1, <1>6 DEF Fits, CallResult, ResultSuccess, ResultFailure, ResultNotFound
  <2> DEFINE Alike(v) == v.id = cm[g].id /\ v.req = cm[g].req /\ v.eventHeight = cm[g].eventHeight
             Comes(l, v) == pc' = [pc EXCEPT ![g] = l] /\ cm' = [cm EXCEPT ![g] = v] /\ Alike(v)
  <2>2. \E l \in {"saveIf", "invoke"} : \E v : Comes(l, v)
    <3>1. ASSUME NEW h, NEW b
          PROVE  Alike([cm[g] EXCEPT !.state = "sent", !.blockHeight = h, !.blockId = b])
      BY <2>1 DEF Record
    <3>2. Alike([cm[g] EXCEPT !.state = "skip", !.tx = 0])
      BY <2>1 DEF Record
    <3>3. Alike([cm[g] EXCEPT !.state = "error"]) /\ Alike([cm[g] EXCEPT !.tx = 0])
      BY <2>1 DEF Record
    <3> HIDE DEF Alike
    <3>4. CASE ResultSuccess(g)
      <4>1. PICK e \in Receipts(cm[g].tx) :
              cm' = [cm EXCEPT ![g] = [cm[g] EXCEPT !.state = "sent", !.blockHeight = e.height,
                                                    !.blockId = e.block]]
        BY <3>4 DEF ResultSuccess, Set
      <4>2. pc' = [pc EXCEPT ![g] = "saveIf"]
        BY <3>4 DEF ResultSuccess, Goto
      <4>3. Comes("saveIf", [cm[g] EXCEPT !.state = "sent", !.blockHeight = e.height,
                                         !.blockId = e.block])
        BY <3>1, <4>1, <4>2
      <4>4. QED BY <4>3
    <3>5. CASE ResultFailure(g)
      <4>1. pc' = [pc EXCEPT ![g] = "saveIf"]
        BY <3>5 DEF ResultFailure, Goto
      <4>2. \/ cm' = [cm EXCEPT ![g] = [cm[g] EXCEPT !.state = "skip", !.tx = 0]]
            \/ cm' = [cm EXCEPT ![g] = [cm[g] EXCEPT !.state = "error"]]
        BY <3>5 DEF ResultFailure, Set
      <4>3. \/ Comes("saveIf", [cm[g] EXCEPT !.state = "skip", !.tx = 0])
            \/ Comes("saveIf", [cm[g] EXCEPT !.state = "error"])
        BY <3>2, <3>3, <4>1, <4>2
      <4>4. QED BY <4>3
    <3>6. CASE ResultNotFound(g)
      <4>1. Comes("invoke", [cm[g] EXCEPT !.tx = 0])
        BY <3>3, <3>6 DEF ResultNotFound, Goto, Set
      <4>2. QED BY <4>1
    <3>7. QED BY <1>6, <3>4, <3>5, <3>6 DEF CallResult
  <2>3. CASE t = g
    <3>1. Works(g)
      BY <1>1, <2>1, <2>2 DEF Works
    <3>2. QED BY <2>3, <3>1 DEF ThreadStep
  <2>4. CASE t # g
    BY <1>1, <1>2, <2>2, <2>4 DEF Stays
  <2>5. QED BY <2>3, <2>4
<1>7. CASE Finalizer
  BY <1>2, <1>7, FinalizersOnlyMark DEF Stays
<1>8. (Network \/ UNCHANGED vars) => Stays(t)
  BY SMTT(30) DEF Network, threadVars, vars, Stays
<1>9. QED
  BY <1>2, <1>3, <1>4, <1>5, <1>6, <1>7, <1>8 DEF Next

-----------------------------------------------------------------------------
(* What is done stays done.                                                *)

\* A transaction that excludes other writers leaves nobody between its read and its write.
Exclusive == Serializable => \A t \in Threads : pc[t] # "write"

\* Nobody but the one monitor makes a record done, so none is while it has one to save.
NotDoneYet ==
  Calm => \A m \in Monitors : pc[m] = "save" /\ cm[m].id # 0 /\ cm[m].state # "done"
            => ~ Is(rows[cm[m].id], "done")

LEMMA ExclusiveStep == TInv /\ CInv /\ Exclusive /\ Calm /\ [Next]_vars => Exclusive'
<1> SUFFICES ASSUME TInv, CInv, Exclusive, Calm, [Next]_vars, Serializable, NEW t \in Threads
             PROVE  pc'[t] # "write"
  BY DEF Exclusive
<1>1. ThreadStep(t) /\ pc[t] # "write"
  BY CalmThreads DEF Exclusive
<1>2. CASE Crash
  BY <1>2 DEF Crash, Boot
<1>3. QED
  BY <1>1, <1>2 DEF ThreadStep, Stays, Rests, Works, TakesEvent, IsStarted

LEMMA NotDoneYetStep == TInv /\ CInv /\ NotDoneYet /\ [Next]_vars => NotDoneYet'
<1> SUFFICES ASSUME TInv, CInv, NotDoneYet, [Next]_vars, Calm', NEW m \in Monitors,
                    pc'[m] = "save", cm'[m].id # 0, cm'[m].state # "done"
             PROVE  ~ Is(rows'[cm'[m].id], "done")
  BY DEF NotDoneYet, Is
<1>1. Calm
  BY NextIsLedgerMove, LedgerGrows DEF TInv, Calm
<1>2. /\ RowsOK /\ ThreadsOK /\ rows \in [Ids -> Record \cup {None}] /\ None \notin Record
      /\ m \in Threads /\ m \notin Results /\ OneMonitor /\ ids \in Nat
      /\ \A t \in Threads : /\ Fits(t, pc[t], cm[t])
                            /\ t \in Monitors => pc[t] # "free" \/ cm[t] = None
  BY <1>1, NoneAssumption, AutoCallerAssumption DEF TInv, CInv, ThreadsOK, RowsOK, Fits, Threads
<1>3. /\ ~ Crash
      /\ \/ Stays(m) /\ pc[m] = "save"
         \/ /\ UNCHANGED dbVars
            /\ \/ cm'[m].id = 0 \/ cm'[m].state = "done"
               \/ \E i \in Saved : rows[i].state # "done" /\ cm'[m].id = i
  <2>1. ThreadStep(m)
    BY <1>1, <1>2, CalmThreads
  <2>2. ~ Crash
    BY <1>2 DEF Crash, Boot
  <2>3. CASE Stays(m)
    BY <2>2, <2>3 DEF Stays
  <2>4. ASSUME NEW e, TakesEvent(m, e)
        PROVE  /\ UNCHANGED dbVars
               /\ \/ cm'[m].id = 0 \/ cm'[m].state = "done"
                  \/ \E i \in Saved : rows[i].state # "done" /\ cm'[m].id = i
    <3>1. UNCHANGED dbVars
      BY <2>4 DEF TakesEvent
    <3>2. CASE cm'[m] = NewRollback(e)
      BY <3>1, <3>2 DEF NewRollback, Blank
    <3>3. ASSUME NEW i \in Saved, rows[i].state = "none", cm'[m] = NewResponse(e, rows[i])
          PROVE  rows[i].state # "done" /\ cm'[m].id = i
      BY <1>2, <3>3 DEF NewResponse, WithEvent, Blank, RowsOK
    <3>4. ASSUME NEW i \in Saved, cm'[m] = Done(rows[i], e)
          PROVE  cm'[m].state = "done"
      <4>1. rows[i] \in Record
        BY <1>2, <3>4 DEF Saved
      <4>2. QED BY <3>4, <4>1 DEF Done, Record
    <3>5. QED BY <2>4, <3>1, <3>2, <3>3, <3>4 DEF TakesEvent
  <2>5. QED BY <1>2, <2>1, <2>2, <2>3, <2>4 DEF ThreadStep, Rests, Works, IsStarted, Ends
<1>4. ASSUME UNCHANGED dbVars, NEW i \in Saved, rows[i].state # "done", cm'[m].id = i
      PROVE  ~ Is(rows'[cm'[m].id], "done")
  <2>1. rows' = rows
    BY <1>4 DEF dbVars
  <2>2. QED BY <1>4, <2>1 DEF Is
<1>5. CASE Stays(m) /\ pc[m] = "save"
  <2>1. PICK k : k = cm[m].id
    OBVIOUS
  <2>2. cm'[m].id = k /\ k # 0 /\ cm[m].state # "done" /\ cm[m] \in Record /\ k \in Ids /\ k <= ids
    <3>1. cm'[m] = cm[m] /\ cm[m] \in Record
      BY <1>2, <1>5 DEF Stays, Fits
    <3>2. k \in 0..MaxRows /\ k <= ids
      BY <1>2, <2>1, <3>1 DEF Record, ThreadsOK
    <3>3. QED BY <2>1, <3>1, <3>2, BoundsAreNat DEF Ids
  <2>3. ~ Is(rows[k], "done")
    BY <1>1, <1>5, <2>1, <2>2 DEF NotDoneYet
  <2>4. CASE SameButMarks(rows[k], rows'[k])
    BY <1>2, <2>2, <2>3, <2>4 DEF SameButMarks, Is
  <2>5. ASSUME NEW u \in Threads, Save(cm[u]),
               \/ u \in Monitors /\ pc[u] = "save" /\ cm'[u] = None
               \/ pc[u] \in {"saveIf", "write"}
        PROVE  ~ Is(rows'[k], "done")
    <3>1. CASE u \in Monitors /\ pc[u] = "save" /\ cm'[u] = None
      <4>1. u = m
        BY <1>2, <1>5, <3>1 DEF OneMonitor
      <4>2. QED BY <1>2, <1>5, <2>2, <3>1, <4>1 DEF Stays
    <3>2. CASE pc[u] \in {"saveIf", "write"}
      <4>1. cm[u] \in Record /\ cm[u].state # "done"
        BY <1>2, <3>2 DEF Fits
      <4>2. [cm[u] EXCEPT !.id = ids + 1].state # "done"
        BY <4>1 DEF Record
      <4>3. rows'[k] \in {rows[k], cm[u], [cm[u] EXCEPT !.id = ids + 1]}
        BY <1>2, <2>2, <2>5 DEF Save
      <4>4. QED BY <2>3, <4>1, <4>2, <4>3 DEF Is
    <3>3. QED BY <2>5, <3>1, <3>2
  <2>6. ~ Is(rows'[k], "done")
    BY <1>1, <2>2, <2>4, <2>5, CalmRows
  <2>7. QED BY <2>2, <2>6
<1>6. QED BY <1>3, <1>4, <1>5

LEMMA DoneStep ==
  ASSUME TInv, CInv, Exclusive, NotDoneYet, Calm, Serializable, [Next]_vars,
         NEW i \in Saved, rows[i].state = "done"
  PROVE  rows'[i] # None /\ rows'[i].state = "done"
<1>1. /\ rows \in [Ids -> Record \cup {None}] /\ None \notin Record /\ i \in Ids /\ i <= ids
      /\ ids \in Nat /\ rows[i] # None
      /\ \A t \in Threads : Fits(t, pc[t], cm[t])
  BY NoneAssumption DEF TInv, ThreadsOK, RowsOK, Saved
<1>2. CASE SameButMarks(rows[i], rows'[i])
  BY <1>1, <1>2 DEF SameButMarks
<1>3. ASSUME NEW u \in Threads, Save(cm[u]), cm[u].id = i,
             \/ u \in Monitors /\ pc[u] = "save"
             \/ pc[u] = "saveIf" /\ NotDone(cm[u])
      PROVE  rows'[i] # None /\ rows'[i].state = "done"
  <2>1. i # 0
    BY <1>1 DEF Ids
  <2>2. pc[u] # "saveIf"
    BY <1>1, <1>3, <2>1 DEF NotDone
  <2>3. cm[u].state = "done"
    BY <1>1, <1>3, <2>1, <2>2 DEF NotDoneYet, Is
  <2>4. rows'[i] = cm[u] /\ cm[u] # None
    BY <1>1, <1>3, <2>1, <2>2 DEF Save, Fits
  <2>5. QED BY <2>3, <2>4
<1>4. ASSUME NEW u \in Threads, Save(cm[u]), cm[u].id # i
      PROVE  rows'[i] = rows[i]
  <2>1. i # ids + 1
    BY <1>1 DEF Ids
  <2>2. QED BY <1>1, <1>4, <2>1 DEF Save
<1>5. \A t \in Threads : pc[t] # "write"
  BY DEF Exclusive
<1>6. QED BY <1>1, <1>2, <1>3, <1>4, <1>5, CalmRows

\* Where SaveIf's transaction excludes other writers and no block is replaced, a record that
\* is done (CallExecuted, RollbackExecuted) stays done: no late result and no retry, of any
\* number of goroutines and over any crashes and failures, overwrites it.
THEOREM DoneIsKept == Serializable /\ Calm /\ Spec => DoneStays
<1>1. Init => Exclusive /\ NotDoneYet
  <2> SUFFICES ASSUME Init PROVE Exclusive /\ NotDoneYet
    OBVIOUS
  <2>1. PICK m \in Monitors : pc = Boot(m)
    BY DEF Init
  <2>2. \A t \in Threads : pc[t] \in {"start", "free"}
    BY <2>1 DEF Boot
  <2>3. QED BY <2>2 DEF Exclusive, NotDoneYet, Threads
<1>2. TInv /\ Calm /\ [Next]_vars => Calm'
  BY NextIsLedgerMove, LedgerGrows DEF TInv, Calm
<1> DEFINE Inv == TInv /\ CInv /\ Exclusive /\ NotDoneYet /\ Calm /\ Serializable
           Keeps == \A i \in Saved : rows[i].state = "done" => rows'[i] # None /\ rows'[i].state = "done"
<1>3. Calm /\ Serializable /\ Init => Inv
  BY <1>1, TInvInit, CInvInit
<1>4. Inv /\ [Next]_vars => Inv'
  BY <1>2, TInvStep, CInvStep, ExclusiveStep, NotDoneYetStep
<1>5. Inv /\ [Next]_vars => [Keeps]_vars
  BY DoneStep
<1> HIDE DEF Inv, Keeps
<1>6. Calm /\ Serializable /\ Spec => [][Keeps]_vars
  BY <1>3, <1>4, <1>5, PTL DEF Spec
<1>7. QED
  BY <1>6 DEF DoneStays, Keeps

-----------------------------------------------------------------------------
(* One record of a request.                                                *)

\* While no save fails either.
Sure == Calm /\ "save" \notin load.faults

\* A goroutine's record is of a request without a record, if it has no key, and of the
\* request of the record with its key, if it has one.
KeyFits(t) ==
  /\ cm[t].id = 0 => t \in Monitors /\ \A i \in Saved : rows[i].req # cm[t].req
  /\ cm[t].id # 0 => cm[t].id \in Saved /\ rows[cm[t].id].req = cm[t].req

OnePerRequest == \A i, j \in Saved : rows[i].req = rows[j].req => i = j

OInv == Sure => OnePerRequest /\ \A t \in Threads : cm[t] # None => KeyFits(t)

\* The look-up finds the record of the request.
LEMMA FindsTheOne ==
  ASSUME RowsOK, OnePerRequest, NEW i \in Saved
  PROVE  FindOne(rows[i].req) = rows[i]
<1>1. FindOne(rows[i].req) # None
  BY FindOneFinds
<1>2. PICK j \in Saved : rows[j] = FindOne(rows[i].req) /\ rows[j].req = rows[i].req
  BY <1>1, FindOneFinds
<1>3. QED BY <1>2 DEF OnePerRequest

\* What saving the record of a goroutine does to the table.
LEMMA SaveOfThread ==
  ASSUME TInv, NEW u \in Threads, pc[u] \in {"save", "saveIf", "write"}, Save(cm[u])
  PROVE  /\ cm[u] \in Record /\ WithKey(cm[u]) \in Record
         /\ WithKey(cm[u]).req = cm[u].req /\ WithKey(cm[u]).state = cm[u].state
         /\ WithKey(cm[u]).eventHeight = cm[u].eventHeight
         /\ cm[u].id # 0 => WithKey(cm[u]) = cm[u]
         /\ cm[u].id = 0 => WithKey(cm[u]).id \notin Saved /\ dbVars' # dbVars
         /\ rows' = [rows EXCEPT ![WithKey(cm[u]).id] = WithKey(cm[u])]
         /\ Saved' = Saved \cup {WithKey(cm[u]).id} /\ WithKey(cm[u]).id \in Ids
<1>1. /\ RowsOK /\ cm[u] \in Record /\ cm[u].id <= ids /\ ids \in 0..MaxRows /\ None \notin Record
      /\ cm[u].req \in Reqs => cm[u].state \notin {"none", "notApplicable"}
      /\ rows \in [Ids -> Record \cup {None}] /\ MaxRows \in Nat
  BY NoneAssumption, BoundsAreNat, LedgerAssumption DEF TInv, ThreadsOK, RowsOK, Fits
<1>2. PICK w : w = WithKey(cm[u])
  OBVIOUS
<1>3. w \in Record /\ w.id \in 1..ids' /\ rows' = [rows EXCEPT ![w.id] = w]
      /\ ids' \in 0..MaxRows /\ (cm[u].id = 0 => ids' = ids + 1)
  BY <1>1, <1>2, SaveKeeps DEF RowsOK
<1>4. w.req = cm[u].req /\ w.state = cm[u].state /\ w.eventHeight = cm[u].eventHeight
      /\ (cm[u].id # 0 => w = cm[u]) /\ (cm[u].id = 0 => w.id = ids + 1)
  BY <1>1, <1>2 DEF WithKey, Record
<1>5. w.id \in Ids /\ w # None
  BY <1>1, <1>3 DEF Ids
<1>6. \A i \in Saved : i <= ids /\ i \in Nat
  BY <1>1 DEF RowsOK, Saved, Ids
<1>7. Saved' = Saved \cup {w.id}
  BY <1>1, <1>3, <1>5 DEF Saved
<1>8. cm[u].id = 0 => w.id \notin Saved /\ dbVars' # dbVars
  BY <1>1, <1>3, <1>4, <1>6 DEF dbVars
<1>9. QED BY <1>1, <1>2, <1>3, <1>4, <1>5, <1>7, <1>8

\* A step keeps all records and their requests, and adds one at most, the one monitor's.
LEMMA RequestsKept ==
  ASSUME TInv, CInv, OInv, Sure, [Next]_vars
  PROVE  /\ \A i \in Saved : i \in Saved' /\ rows'[i].req = rows[i].req
         /\ \/ Saved' = Saved
            \/ \E k, u : /\ Saved' = Saved \cup {k} /\ k \notin Saved
                         /\ u \in Monitors /\ cm[u] # None /\ cm[u].id = 0
                         /\ rows'[k].req = cm[u].req
                         /\ cm'[u] = None \/ cm'[u].id # 0
<1>1. /\ Calm /\ rows \in [Ids -> Record \cup {None}] /\ None \notin Record
      /\ cm \in [Threads -> Record \cup {None}] /\ Monitors \cap Results = {}
      /\ \A t \in Threads : cm[t] # None => KeyFits(t)
  BY NoneAssumption, AutoCallerAssumption DEF Sure, OInv, TInv, RowsOK, ThreadsOK
<1>2. CASE \A i \in Ids : SameButMarks(rows[i], rows'[i])
  BY <1>1, <1>2 DEF SameButMarks, Saved
<1>3. ASSUME NEW u \in Threads, Save(cm[u]),
             \/ u \in Monitors /\ pc[u] = "save" /\ cm'[u] = None
             \/ Continue(u, WithKey(cm[u])) /\ pc[u] \in {"saveIf", "write"}
      PROVE  /\ \A i \in Saved : i \in Saved' /\ rows'[i].req = rows[i].req
             /\ \/ Saved' = Saved
                \/ \E k : /\ Saved' = Saved \cup {k} /\ k \notin Saved
                          /\ u \in Monitors /\ cm[u] # None /\ cm[u].id = 0
                          /\ rows'[k].req = cm[u].req
                          /\ cm'[u] = None \/ cm'[u].id # 0
  <2>1. PICK w : w = WithKey(cm[u])
    OBVIOUS
  <2>2. /\ cm[u] \in Record /\ w.req = cm[u].req
        /\ cm[u].id # 0 => w = cm[u]
        /\ cm[u].id = 0 => w.id \notin Saved
        /\ rows' = [rows EXCEPT ![w.id] = w]
        /\ Saved' = Saved \cup {w.id} /\ w.id \in Ids
    BY <1>3, <2>1, SaveOfThread
  <2>3. KeyFits(u)
    BY <1>1, <2>2
  <2>4. CASE cm[u].id # 0
    <3>1. w.id \in Saved /\ rows[w.id].req = w.req
      BY <2>2, <2>3, <2>4 DEF KeyFits
    <3>2. QED BY <1>1, <2>2, <3>1
  <2>5. CASE cm[u].id = 0
    <3>1. \A i \in Saved : rows'[i] = rows[i]
      BY <1>1, <2>2, <2>5 DEF Saved
    <3>2. rows'[w.id].req = cm[u].req
      BY <1>1, <2>2
    <3>3. u \in Monitors /\ u \notin Results
      BY <1>1, <2>3, <2>5 DEF KeyFits
    <3>4. cm'[u] = None \/ cm'[u].id # 0
      <4>1. CASE Continue(u, w)
        BY <1>1, <3>3, <4>1 DEF Continue, Set
      <4>2. QED BY <1>3, <2>1, <4>1
    <3>5. QED BY <1>1, <2>2, <2>5, <3>1, <3>2, <3>3, <3>4
  <2>6. QED BY <2>4, <2>5
<1>4. QED BY <1>1, <1>2, <1>3, CalmRows

LEMMA OneStaysOne ==
  ASSUME TInv, CInv, OInv, Sure, [Next]_vars
  PROVE  OnePerRequest'
<1>1. OnePerRequest /\ \A t \in Threads : cm[t] # None => KeyFits(t)
  BY DEF OInv
<1>2. \A i \in Saved : i \in Saved' /\ rows'[i].req = rows[i].req
  BY RequestsKept
<1>3. CASE Saved' = Saved
  BY <1>1, <1>2, <1>3 DEF OnePerRequest
<1>4. ASSUME NEW k, NEW u \in Monitors, Saved' = Saved \cup {k}, cm[u] # None, cm[u].id = 0,
             rows'[k].req = cm[u].req
      PROVE  OnePerRequest'
  <2>1. \A i \in Saved : rows[i].req # cm[u].req
    BY <1>1, <1>4 DEF KeyFits, Threads
  <2>2. QED BY <1>1, <1>2, <1>4, <2>1 DEF OnePerRequest
<1>5. QED BY <1>3, <1>4, RequestsKept

LEMMA KeysStayFitting ==
  ASSUME TInv, CInv, OInv, Sure, [Next]_vars, NEW t \in Threads, cm'[t] # None
  PROVE  KeyFits(t)'
<1>1. /\ Calm /\ RowsOK /\ None \notin Record /\ OneMonitor /\ Monitors \cap Results = {}
      /\ Monitors \subseteq Threads /\ "save" \notin load.faults
      /\ \A u \in Threads : /\ cm[u] # None => KeyFits(u) /\ cm[u] \in Record
                            /\ Fits(u, pc[u], cm[u])
      /\ \A i \in Saved : rows[i] \in Record /\ rows[i].id = i /\ i # 0
  BY NoneAssumption, AutoCallerAssumption
     DEF Sure, OInv, TInv, CInv, RowsOK, ThreadsOK, Fits, Saved, Ids, Threads
<1>2. PICK w : w = cm'[t]
  OBVIOUS
<1>3. SUFFICES /\ w.id = 0 => t \in Monitors /\ \A i \in Saved' : rows'[i].req # w.req
               /\ w.id # 0 => w.id \in Saved' /\ rows'[w.id].req = w.req
  BY <1>2 DEF KeyFits
<1>4. \A i \in Saved : i \in Saved' /\ rows'[i].req = rows[i].req
  BY RequestsKept
<1>5. dbVars' = dbVars => rows' = rows /\ Saved' = Saved
  BY DEF dbVars, Saved
<1>6. CASE cm[t] # None /\ w.id = cm[t].id /\ w.req = cm[t].req /\ UNCHANGED dbVars
  BY <1>1, <1>5, <1>6 DEF KeyFits
<1>7. CASE Stays(t)
  <2>1. w = cm[t] /\ cm[t] # None /\ KeyFits(t) /\ cm[t] \in Record
    BY <1>1, <1>2, <1>7 DEF Stays
  <2>2. CASE w.id # 0
    BY <1>4, <2>1, <2>2 DEF KeyFits
  <2>3. ASSUME w.id = 0, NEW k, NEW u, Saved' = Saved \cup {k}, u \in Monitors, cm[u] # None,
               rows'[k].req = cm[u].req, cm'[u] = None \/ cm'[u].id # 0, rows'[k].req = w.req
        PROVE  FALSE
    <3>1. t \in Monitors
      BY <2>1, <2>3 DEF KeyFits
    <3>2. pc[t] # "free" /\ pc[u] # "free"
      BY <1>1, <2>1, <2>3, <3>1 DEF Fits
    <3>3. u = t
      BY <1>1, <2>3, <3>1, <3>2 DEF OneMonitor
    <3>4. QED BY <1>2, <2>1, <2>3, <3>3
  <2>4. w.id = 0 => \A i \in Saved : rows'[i].req # w.req
    BY <1>4, <2>1 DEF KeyFits
  <2>5. w.id = 0 => t \in Monitors
    BY <2>1 DEF KeyFits
  <2>6. w.id = 0 => \A i \in Saved' : rows'[i].req # w.req
    BY <2>3, <2>4, RequestsKept, SMTT(30)
  <2>7. QED BY <2>2, <2>5, <2>6
<1>8. CASE Works(t)
  <2>1. CASE /\ pc[t] = "invoke" /\ UNCHANGED dbVars
             /\ \E state \in {"sending", "skip", "error"}, tx \in Nat :
                  cm'[t] = [cm[t] EXCEPT !.state = state, !.tx = tx]
    <3>1. cm[t] # None /\ cm[t] \in Record
      BY <1>1, <2>1 DEF Fits
    <3>2. w.id = cm[t].id /\ w.req = cm[t].req
      BY <1>2, <2>1, <3>1 DEF Record
    <3>3. QED BY <1>6, <2>1, <3>1, <3>2
  <2>2. CASE UNCHANGED <<dbVars, cm>>
    BY <1>2, <1>6, <2>2
  <2>3. CASE t \in Results /\ Ends(t, cm'[t])
    <3>1. pc[t] \in {"saveIf", "write"}
      BY <2>3 DEF Ends
    <3>2. cm[t] # None /\ KeyFits(t) /\ cm[t].id # 0
      BY <1>1, <2>3, <3>1 DEF Fits, KeyFits
    <3>3. WithKey(cm[t]) = cm[t]
      BY <3>2 DEF WithKey
    <3>4. w = cm[t]
      BY <1>2, <2>3, <3>3 DEF Ends
    <3>5. QED BY <1>4, <3>2, <3>4 DEF KeyFits
  <2>4. CASE pc[t] = "get" /\ UNCHANGED dbVars /\ w.id = cm[t].id /\ w.req = cm[t].req
    <3>1. cm[t] # None
      BY <1>1, <2>4 DEF Fits
    <3>2. QED BY <1>6, <2>4, <3>1
  <2>5. QED BY <1>2, <1>8, <2>1, <2>2, <2>3, <2>4 DEF Works
<1>9. ASSUME NEW e, TakesEvent(t, e)
      PROVE  /\ w.id = 0 => t \in Monitors /\ \A i \in Saved' : rows'[i].req # w.req
             /\ w.id # 0 => w.id \in Saved' /\ rows'[w.id].req = w.req
  <2>1. t \in Monitors /\ UNCHANGED dbVars /\ e = Head(batch[t]) /\ batch[t] # <<>>
    BY <1>9 DEF TakesEvent
  <2>2. CASE FindOne(e.req) = None /\ w = NewCall(e)
    <3>1. w.id = 0 /\ w.req = e.req
      BY <2>2 DEF NewCall, WithEvent, Blank
    <3>2. QED BY <1>1, <1>5, <2>1, <2>2, <3>1, FindOneFinds
  <2>3. CASE ~ SameCaller(FindOne(e.req), e) /\ w = NewRollback(e)
    <3>1. w.id = 0 /\ w.req = e.req
      BY <2>3 DEF NewRollback, Blank
    <3>2. BatchOnChain /\ \A i \in Saved : rows[i].from = 1
      BY <1>1 DEF CInv, Recorded
    <3>3. e.from = 1
      <4>1. Sensible(e) /\ fork = 1 /\ LedgerOK /\ e \in ItemType
        BY <1>1, <2>1, <3>2, PassedOn DEF CInv, TInv
      <4>2. QED BY <4>1 DEF Sensible, ItemType
    <3>4. FindOne(e.req) = None
      <4>1. ASSUME FindOne(e.req) # None PROVE FALSE
        <5>1. FindOne(e.req).from = 1
          BY <1>1, <3>2, <4>1, FindOneFinds
        <5>2. QED BY <2>3, <3>3, <4>1, <5>1 DEF SameCaller
      <4>2. QED BY <4>1
    <3>5. QED BY <1>1, <1>5, <2>1, <3>1, <3>4, FindOneFinds
  <2>4. ASSUME NEW i \in Saved, rows[i].req = e.req,
               w = NewResponse(e, rows[i]) \/ w = Done(rows[i], e)
        PROVE  w.id = i /\ w.req = rows[i].req
    <3>1. w = NewResponse(e, rows[i]) => w.id = i /\ w.req = rows[i].req
      BY <1>1, <2>4 DEF NewResponse, WithEvent, Blank
    <3>2. w = Done(rows[i], e) => w.id = i /\ w.req = rows[i].req
      BY <1>1, <2>4 DEF Done, Record
    <3>3. QED BY <2>4, <3>1, <3>2
  <2>5. ASSUME NEW i \in Saved, w.id = i, w.req = rows[i].req
        PROVE  w.id # 0 /\ w.id \in Saved' /\ rows'[w.id].req = w.req
    BY <1>1, <1>4, <2>5
  <2>6. QED BY <1>2, <1>9, <2>2, <2>3, <2>4, <2>5 DEF TakesEvent
<1>10. ASSUME NEW v, IsStarted(t, v)
       PROVE  w.id # 0 /\ w.id \in Saved' /\ rows'[w.id].req = w.req
  <2>1. w = v
    BY <1>2, <1>10 DEF IsStarted
  <2>2. CASE \E i \in Saved : v = rows[i]
    BY <1>1, <1>4, <2>1, <2>2
  <2>3. ASSUME NEW u \in Threads, Ends(u, v)
        PROVE  w.id # 0 /\ w.id \in Saved' /\ rows'[w.id].req = w.req
    <3>1. pc[u] \in {"saveIf", "write"} /\ cm[u] # None /\ KeyFits(u)
      BY <1>1, <2>3 DEF Ends, Fits
    <3>2. CASE Save(cm[u]) /\ v = WithKey(cm[u])
      <4>1. rows' = [rows EXCEPT ![v.id] = v] /\ Saved' = Saved \cup {v.id} /\ v.id \in Ids
        BY <3>1, <3>2, SaveOfThread
      <4>2. QED BY <2>1, <4>1 DEF TInv, RowsOK, Ids
    <3>3. CASE ~ NotDone(cm[u]) /\ v = cm[u]
      BY <1>4, <2>1, <3>1, <3>3 DEF NotDone, KeyFits
    <3>4. QED BY <1>1, <2>3, <3>2, <3>3 DEF Ends
  <2>4. QED BY <1>10, <2>2, <2>3 DEF IsStarted
<1>11. ~ Crash /\ ~ Rests(t)
  BY <1>2 DEF Crash, Rests
<1>12. QED BY <1>1, <1>7, <1>8, <1>9, <1>10, <1>11, CalmThreads DEF ThreadStep

LEMMA OInvStep == TInv /\ CInv /\ OInv /\ [Next]_vars => OInv'
<1> SUFFICES ASSUME TInv, CInv, OInv, [Next]_vars, Sure' PROVE OInv'
  BY DEF OInv
<1>1. Sure
  BY NextIsLedgerMove, LedgerGrows DEF TInv, Calm, Sure
<1>2. OnePerRequest'
  BY <1>1, OneStaysOne
<1>3. \A t \in Threads : cm'[t] # None => KeyFits(t)'
  BY <1>1, KeysStayFitting
<1>4. QED BY <1>2, <1>3 DEF OInv

\* While no block is replaced and no save fails there is one record of a request at most,
\* however often its CallMessage or CallMessageSent is passed on and whenever the process
\* crashes: FindOneByNetworkAndReqID and FindOneByNetworkAndSn always see it.
THEOREM RequestsHaveOneRow == Spec => []OneRowPerRequest
<1>1. Init => OInv
  <2>1. Init => Saved = {} /\ \A t \in Threads : cm[t] = None
    BY DEF Init, Saved
  <2>2. QED BY <2>1 DEF OInv, OnePerRequest
<1>2. OInv => OneRowPerRequest
  BY DEF OInv, OnePerRequest, OneRowPerRequest, Sure, Calm
<1>3. QED
  BY TInvInit, TInvStep, CInvInit, CInvStep, OInvStep, <1>1, <1>2, PTL DEF Spec

-----------------------------------------------------------------------------
(* The latest record with a transaction is followed.                       *)

\* The record has the event that lets its request be executed.
Told(v) ==
  /\ v.eventHeight >= 1
  /\ \E e \in Included : /\ e.kind \in {"message", "failure"}
                         /\ e.req = v.req /\ e.height = v.eventHeight

RowTold(v) == (v.state = "sending" => Told(v)) /\ (v.state = "none" => v.eventHeight = 0)

WorkTold(l, v) ==
  /\ l \in {"invoke", "saveIf", "write", "get"} => Told(v)
  /\ l = "save" => /\ v.state \in {"done", "notApplicable", "none"}
                   /\ v.state = "none" => v.id = 0 /\ v.eventHeight = 0

\* A goroutine's record and the one with its key have the same event, but for the monitor
\* that is about to save the first.
HeightFits(t) ==
  IF rows[cm[t].id].state = "none" THEN t \in Monitors
  ELSE cm[t].eventHeight = rows[cm[t].id].eventHeight

GInv ==
  Sure => /\ \A i \in Saved : RowTold(rows[i])
          /\ \A t \in Threads : WorkTold(pc[t], cm[t])
          /\ \A t \in Threads : cm[t] # None /\ cm[t].id # 0 => HeightFits(t)

LEMMA ToldStays ==
  ASSUME LedgerOK, LedgerMove, Calm, NEW v, Told(v)
  PROVE  Told(v)'
BY ChainOnlyGrows DEF Told

\* What becomes of a record.
LEMMA RowMoves ==
  ASSUME TInv, CInv, OInv, Sure, [Next]_vars, NEW k \in Saved
  PROVE  \/ SameButMarks(rows[k], rows'[k])
         \/ \E u \in Threads :
              /\ cm[u] \in Record /\ cm[u].id = k /\ rows'[k] = cm[u] /\ Save(cm[u])
              /\ \/ u \in Monitors /\ pc[u] = "save" /\ cm'[u] = None
                 \/ pc[u] \in {"saveIf", "write"} /\ Continue(u, WithKey(cm[u]))
<1>1. /\ Calm /\ rows \in [Ids -> Record \cup {None}] /\ k \in Ids /\ rows[k] \in Record /\ k # 0
  BY DEF Sure, TInv, RowsOK, Saved, Ids
<1>2. ASSUME NEW u \in Threads, Save(cm[u]), pc[u] \in {"save", "saveIf", "write"}
      PROVE  rows'[k] = rows[k] \/ (cm[u] \in Record /\ cm[u].id = k /\ rows'[k] = cm[u])
  <2>1. PICK w : w = WithKey(cm[u])
    OBVIOUS
  <2>2. /\ cm[u] \in Record /\ rows' = [rows EXCEPT ![w.id] = w]
        /\ cm[u].id # 0 => w = cm[u]
        /\ cm[u].id = 0 => w.id \notin Saved
    BY <1>2, <2>1, SaveOfThread
  <2>3. QED BY <1>1, <2>2
<1>3. SameButMarks(rows[k], rows[k])
  BY <1>1, MarkedTable DEF TInv
<1>4. QED BY <1>1, <1>2, <1>3, CalmRows

LEMMA RowsStayTold ==
  ASSUME TInv, CInv, OInv, GInv, Sure, [Next]_vars, NEW i \in Saved'
  PROVE  RowTold(rows[i])'
<1>1. /\ Calm /\ LedgerOK /\ LedgerMove /\ None \notin Record
      /\ rows \in [Ids -> Record \cup {None}] /\ i \in Ids /\ rows'[i] # None
      /\ \A j \in Saved : RowTold(rows[j])
      /\ \A t \in Threads : WorkTold(pc[t], cm[t]) /\ Fits(t, pc[t], cm[t])
  BY NextIsLedgerMove, NoneAssumption DEF Sure, TInv, RowsOK, ThreadsOK, Saved, GInv
<1>2. PICK w : w = rows'[i]
  OBVIOUS
<1>3. RowTold(w) => RowTold(w)'
  BY <1>1, ToldStays DEF RowTold
<1>4. CASE SameButMarks(rows[i], w)
  <2>1. i \in Saved /\ rows[i].state = w.state /\ rows[i].eventHeight = w.eventHeight
        /\ rows[i].req = w.req
    BY <1>1, <1>2, <1>4 DEF SameButMarks, Saved
  <2>2. RowTold(w)
    BY <1>1, <2>1 DEF RowTold, Told
  <2>3. QED BY <1>2, <1>3, <2>2 DEF RowTold, Told
<1>5. ASSUME NEW u \in Threads, Save(cm[u]), pc[u] \in {"save", "saveIf", "write"}
      PROVE  RowTold(w) \/ (i \in Saved /\ w = rows[i])
  <2>1. PICK v : v = WithKey(cm[u])
    OBVIOUS
  <2>2. /\ rows' = [rows EXCEPT ![v.id] = v] /\ v.state = cm[u].state
        /\ v.eventHeight = cm[u].eventHeight /\ v.req = cm[u].req
        /\ cm[u] \in Record
    BY <1>5, <2>1, SaveOfThread
  <2>3. RowTold(cm[u])
    BY <1>1, <1>5 DEF WorkTold, RowTold, Fits
  <2>4. RowTold(v)
    BY <2>2, <2>3 DEF RowTold, Told
  <2>5. w = v \/ (i \in Saved /\ w = rows[i])
    BY <1>1, <1>2, <2>2 DEF Saved
  <2>6. QED BY <2>4, <2>5
<1>6. ASSUME NEW u \in Threads, Save(cm[u]), pc[u] \in {"save", "saveIf", "write"}
      PROVE  RowTold(rows[i])'
  <2>1. RowTold(w)
    BY <1>1, <1>5, <1>6
  <2>2. QED BY <1>2, <1>3, <2>1 DEF RowTold, Told
<1>7. QED BY <1>1, <1>2, <1>4, <1>6, CalmRows

LEMMA WorkStaysTold ==
  ASSUME TInv, CInv, OInv, GInv, Sure, [Next]_vars, NEW t \in Threads
  PROVE  WorkTold(pc[t], cm[t])'
<1>1. /\ Calm /\ LedgerOK /\ LedgerMove /\ RowsOK /\ None \notin Record
      /\ \A i \in Saved : RowTold(rows[i]) /\ rows[i] \in Record
      /\ \A u \in Threads : WorkTold(pc[u], cm[u]) /\ Fits(u, pc[u], cm[u])
  BY NextIsLedgerMove, NoneAssumption DEF Sure, TInv, RowsOK, ThreadsOK, Saved, GInv
<1>2. PICK w, l : w = cm'[t] /\ l = pc'[t]
  OBVIOUS
<1>3. SUFFICES WorkTold(l, w)
  <2>1. WorkTold(l, w) => WorkTold(l, w)'
    BY <1>1, ToldStays DEF WorkTold
  <2>2. QED BY <1>2, <1>3, <2>1 DEF WorkTold, Told
<1>4. CASE Crash \/ Rests(t)
  BY <1>2, <1>4 DEF Crash, Boot, Rests, WorkTold
<1>5. CASE Stays(t)
  BY <1>1, <1>2, <1>5 DEF Stays
<1>same. ASSUME NEW v, Told(v), w.req = v.req, w.eventHeight = v.eventHeight
         PROVE  Told(w)
  BY <1>same DEF Told
<1>ends. ASSUME NEW u \in Threads, NEW v, Ends(u, v)
         PROVE  Told(cm[u]) /\ v.req = cm[u].req /\ v.eventHeight = cm[u].eventHeight
  <2>1. pc[u] \in {"saveIf", "write"} /\ Told(cm[u])
    BY <1>1, <1>ends DEF Ends, WorkTold
  <2>2. CASE Save(cm[u]) /\ v = WithKey(cm[u])
    BY <2>1, <2>2, SaveOfThread, SMTT(30)
  <2>3. QED BY <1>ends, <2>1, <2>2 DEF Ends
<1>6. CASE Works(t)
  <2>1. CASE /\ pc[t] = "invoke" /\ pc'[t] = "saveIf"
             /\ \E state \in {"sending", "skip", "error"}, tx \in Nat :
                  cm'[t] = [cm[t] EXCEPT !.state = state, !.tx = tx]
    <3>1. cm[t] \in Record /\ Told(cm[t])
      BY <1>1, <2>1 DEF Fits, WorkTold
    <3>2. w.req = cm[t].req /\ w.eventHeight = cm[t].eventHeight /\ l = "saveIf"
      BY <1>2, <2>1, <3>1 DEF Record
    <3>3. QED BY <1>same, <3>1, <3>2 DEF WorkTold
  <2>2. CASE pc[t] = "saveIf" /\ pc'[t] = "write" /\ UNCHANGED cm
    BY <1>1, <1>2, <2>2 DEF WorkTold
  <2>3. CASE pc'[t] = "get" /\ Ends(t, cm'[t])
    <3>1. Ends(t, w)
      BY <1>2, <2>3 DEF Ends
    <3>2. Told(w)
      BY <1>ends, <1>same, <3>1
    <3>3. QED BY <1>2, <2>3, <3>2 DEF WorkTold
  <2>4. CASE /\ pc[t] = "get" /\ pc'[t] \in {"saveIf", "invoke"} /\ cm'[t].req = cm[t].req
             /\ cm'[t].eventHeight = cm[t].eventHeight
    <3>1. Told(w) /\ l \in {"saveIf", "invoke"}
      BY <1>1, <1>2, <1>same, <2>4 DEF WorkTold
    <3>2. QED BY <3>1 DEF WorkTold
  <2>5. QED BY <1>6, <2>1, <2>2, <2>3, <2>4 DEF Works
<1>7. ASSUME NEW e, TakesEvent(t, e)
      PROVE  WorkTold(l, w)
  <2>1. t \in Monitors /\ e = Head(batch[t]) /\ batch[t] # <<>>
    BY <1>7 DEF TakesEvent
  <2>2. e \in Included /\ OnChain(e.height, e.block) /\ e.height >= 1
    <3>1. BatchOnChain
      BY <1>1 DEF CInv
    <3>2. e \in Included /\ OnChain(e.height, e.block)
      BY <2>1, <3>1, PassedOn
    <3>3. QED BY <1>1, <3>2 DEF OnChain, LedgerOK
  <2>3. ASSUME e.kind \in {"message", "failure"}, NEW v, v.req = e.req, v.eventHeight = e.height
        PROVE  Told(v)
    BY <2>2, <2>3 DEF Told
  <2>4. CASE e.kind = "message" /\ cm'[t] = NewCall(e) /\ pc'[t] = "invoke"
    <3>1. w.req = e.req /\ w.eventHeight = e.height
      BY <1>2, <2>4 DEF NewCall, WithEvent, Blank
    <3>2. QED BY <1>2, <2>3, <2>4, <3>1 DEF WorkTold
  <2>5. CASE cm'[t] = NewRollback(e) /\ pc'[t] = "save"
    BY <1>2, <2>5 DEF NewRollback, Blank, WorkTold
  <2>6. ASSUME NEW i \in Saved, e.kind = "success", cm'[t] = NewResponse(e, rows[i]), pc'[t] = "save"
        PROVE  WorkTold(l, w)
    BY <1>2, <2>6 DEF NewResponse, WithEvent, Blank, WorkTold
  <2>7. ASSUME NEW i \in Saved, e.kind = "failure", cm'[t] = NewResponse(e, rows[i]), pc'[t] = "invoke"
        PROVE  WorkTold(l, w)
    <3>1. w.req = e.req /\ w.eventHeight = e.height
      BY <1>2, <2>7 DEF NewResponse, WithEvent, Blank
    <3>2. QED BY <1>2, <2>3, <2>7, <3>1 DEF WorkTold
  <2>8. ASSUME NEW i \in Saved, cm'[t] = Done(rows[i], e), pc'[t] = "save"
        PROVE  WorkTold(l, w)
    <3>1. w.state = "done"
      BY <1>1, <1>2, <2>8 DEF Done, Record
    <3>2. QED BY <1>2, <2>8, <3>1 DEF WorkTold
  <2>9. QED BY <1>7, <2>4, <2>5, <2>6, <2>7, <2>8 DEF TakesEvent
<1>8. ASSUME NEW v, IsStarted(t, v)
      PROVE  WorkTold(l, w)
  <2>1. w = v /\ l = "get" /\ v.state = "sending"
    BY <1>2, <1>8 DEF IsStarted
  <2>2. Told(v)
    <3>1. CASE \E i \in Saved : v = rows[i]
      BY <1>1, <2>1, <3>1 DEF RowTold
    <3>2. ASSUME NEW u \in Threads, Ends(u, v)
          PROVE  Told(v)
      BY <1>ends, <1>same, <2>1, <3>2
    <3>3. QED BY <1>8, <3>1, <3>2 DEF IsStarted
  <2>3. QED BY <2>1, <2>2 DEF WorkTold
<1>9. QED BY <1>4, <1>5, <1>6, <1>7, <1>8, <1>1, CalmThreads DEF ThreadStep

LEMMA HeightsStayFitting ==
  ASSUME TInv, CInv, OInv, GInv, Sure, [Next]_vars, NEW t \in Threads,
         cm'[t] # None, cm'[t].id # 0
  PROVE  HeightFits(t)'
<1>1. /\ Calm /\ RowsOK /\ None \notin Record /\ OneMonitor /\ Monitors \cap Results = {}
      /\ Monitors \subseteq Threads /\ "save" \notin load.faults
      /\ \A u \in Threads : /\ cm[u] # None => KeyFits(u) /\ cm[u] \in Record
                            /\ cm[u] # None /\ cm[u].id # 0 => HeightFits(u)
                            /\ WorkTold(pc[u], cm[u]) /\ Fits(u, pc[u], cm[u])
      /\ \A i \in Saved : rows[i] \in Record /\ rows[i].id = i /\ i # 0
  BY NoneAssumption, AutoCallerAssumption
     DEF Sure, OInv, GInv, TInv, CInv, RowsOK, ThreadsOK, Fits, Saved, Ids, Threads
<1>2. PICK w : w = cm'[t]
  OBVIOUS
<1>3. SUFFICES /\ rows'[w.id].state = "none" => t \in Monitors
               /\ rows'[w.id].state # "none" => w.eventHeight = rows'[w.id].eventHeight
  BY <1>2 DEF HeightFits
<1>4. dbVars' = dbVars => rows' = rows
  BY DEF dbVars
<1>5. CASE cm[t] # None /\ w.id = cm[t].id /\ w.eventHeight = cm[t].eventHeight /\ UNCHANGED dbVars
  BY <1>1, <1>2, <1>4, <1>5 DEF HeightFits
<1>saver. ASSUME NEW u \in Threads, Save(cm[u]), pc[u] \in {"save", "saveIf", "write"}, cm[u].id # 0
          PROVE  cm[u].state # "none" /\ rows'[cm[u].id] = cm[u]
  <2>1. cm[u].state # "none"
    BY <1>1, <1>saver DEF WorkTold, Fits
  <2>2. cm[u] \in Record /\ rows' = [rows EXCEPT ![cm[u].id] = cm[u]] /\ cm[u].id \in Ids
    BY <1>saver, SaveOfThread
  <2>3. QED BY <1>1, <2>1, <2>2 DEF RowsOK
<1>6. ASSUME w = cm[t], pc[t] # "free"
      PROVE  /\ rows'[w.id].state = "none" => t \in Monitors
             /\ rows'[w.id].state # "none" => w.eventHeight = rows'[w.id].eventHeight
  <2>1. PICK k : k = w.id
    OBVIOUS
  <2>2. cm[t] # None /\ k = cm[t].id /\ k # 0 /\ k \in Saved /\ HeightFits(t)
    BY <1>1, <1>2, <1>6, <2>1 DEF KeyFits
  <2>3. CASE SameButMarks(rows[k], rows'[k])
    BY <1>1, <1>6, <2>1, <2>2, <2>3 DEF SameButMarks, HeightFits
  <2>4. ASSUME NEW u \in Threads, cm[u] \in Record, cm[u].id = k, rows'[k] = cm[u], Save(cm[u]),
               pc[u] \in {"save", "saveIf", "write"}
        PROVE  rows'[k].state # "none" /\ w.eventHeight = rows'[k].eventHeight
    <3>1. rows'[k].state # "none"
      BY <1>saver, <2>2, <2>4
    <3>2. CASE u = t
      BY <1>6, <2>4, <3>1, <3>2
    <3>3. CASE u # t
      <4>1. HeightFits(u) /\ pc[u] # "free"
        BY <1>1, <2>2, <2>4
      <4>2. rows[k].state # "none"
        BY <1>1, <1>6, <2>2, <2>4, <3>3, <4>1 DEF HeightFits, OneMonitor
      <4>3. QED BY <1>6, <2>2, <2>4, <3>1, <4>1, <4>2 DEF HeightFits
    <3>4. QED BY <3>2, <3>3
  <2>5. QED BY <2>1, <2>2, <2>3, <2>4, RowMoves
<1>7. CASE Stays(t)
  <2>1. w = cm[t] /\ cm[t] # None
    BY <1>2, <1>7 DEF Stays
  <2>2. CASE pc[t] # "free"
    BY <1>6, <2>1, <2>2
  <2>3. CASE pc[t] = "free"
    BY <1>1, <2>1, <2>3, SMTT(30) DEF Fits
  <2>4. QED BY <2>2, <2>3
<1>8. CASE Works(t)
  <2>1. CASE /\ pc[t] = "invoke" /\ UNCHANGED dbVars
             /\ \E state \in {"sending", "skip", "error"}, tx \in Nat :
                  cm'[t] = [cm[t] EXCEPT !.state = state, !.tx = tx]
    <3>1. cm[t] # None /\ cm[t] \in Record
      BY <1>1, <2>1 DEF Fits
    <3>2. w.id = cm[t].id /\ w.eventHeight = cm[t].eventHeight
      BY <1>2, <2>1, <3>1 DEF Record
    <3>3. QED BY <1>5, <2>1, <3>1, <3>2
  <2>2. CASE UNCHANGED <<dbVars, cm>>
    BY <1>2, <1>5, <2>2
  <2>3. CASE t \in Results /\ Ends(t, cm'[t])
    <3>1. pc[t] \in {"saveIf", "write"}
      BY <2>3 DEF Ends
    <3>2. cm[t] # None /\ KeyFits(t) /\ cm[t].id # 0
      BY <1>1, <2>3, <3>1 DEF Fits, KeyFits
    <3>3. WithKey(cm[t]) = cm[t]
      BY <3>2 DEF WithKey
    <3>4. w = cm[t]
      BY <1>2, <2>3, <3>3 DEF Ends
    <3>5. QED BY <1>6, <3>1, <3>4
  <2>4. CASE /\ pc[t] = "get" /\ UNCHANGED dbVars /\ cm'[t].id = cm[t].id
             /\ cm'[t].eventHeight = cm[t].eventHeight
    <3>1. cm[t] # None
      BY <1>1, <2>4 DEF Fits
    <3>2. QED BY <1>2, <1>5, <2>4, <3>1
  <2>5. QED BY <1>8, <2>1, <2>2, <2>3, <2>4 DEF Works
<1>9. ASSUME NEW e, TakesEvent(t, e)
      PROVE  /\ rows'[w.id].state = "none" => t \in Monitors
             /\ rows'[w.id].state # "none" => w.eventHeight = rows'[w.id].eventHeight
  <2>1. t \in Monitors /\ rows' = rows
    BY <1>4, <1>9 DEF TakesEvent
  <2>2. w # NewCall(e) /\ w # NewRollback(e)
    BY <1>2 DEF NewCall, NewRollback, WithEvent, Blank
  <2>3. ASSUME NEW i \in Saved, rows[i].state = "none", w = NewResponse(e, rows[i])
        PROVE  rows'[w.id].state = "none"
    BY <1>1, <2>1, <2>3 DEF NewResponse, WithEvent, Blank
  <2>4. ASSUME NEW i \in Saved, w = Done(rows[i], e)
        PROVE  w.eventHeight = rows'[w.id].eventHeight
    BY <1>1, <2>1, <2>4 DEF Done, Record
  <2>5. QED BY <1>2, <1>9, <2>1, <2>2, <2>3, <2>4 DEF TakesEvent
<1>10. ASSUME NEW v, IsStarted(t, v)
       PROVE  w.eventHeight = rows'[w.id].eventHeight /\ rows'[w.id].state # "none"
  <2>1. w = v /\ v.state = "sending"
    BY <1>2, <1>10 DEF IsStarted
  <2>2. CASE UNCHANGED dbVars /\ \E i \in Saved : v = rows[i]
    BY <1>1, <1>4, <2>1, <2>2
  <2>3. ASSUME NEW u \in Threads, Ends(u, v)
        PROVE  w.eventHeight = rows'[w.id].eventHeight /\ rows'[w.id].state # "none"
    <3>1. pc[u] \in {"saveIf", "write"} /\ cm[u] # None /\ KeyFits(u)
      BY <1>1, <2>3 DEF Ends, Fits
    <3>2. CASE Save(cm[u]) /\ v = WithKey(cm[u])
      <4>1. rows' = [rows EXCEPT ![v.id] = v] /\ v.id \in Ids
        BY <3>1, <3>2, SaveOfThread
      <4>2. rows'[v.id] = v
        BY <1>1, <4>1 DEF RowsOK
      <4>3. QED BY <2>1, <4>2
    <3>3. CASE UNCHANGED dbVars /\ ~ NotDone(cm[u]) /\ v = cm[u]
      <4>1. cm[u].id # 0 /\ rows[cm[u].id].state = "done"
        BY <3>3 DEF NotDone
      <4>2. cm[u].eventHeight = rows[cm[u].id].eventHeight
        BY <1>1, <3>1, <4>1 DEF HeightFits
      <4>3. QED BY <1>4, <2>1, <3>3, <4>1, <4>2
    <3>4. QED BY <1>1, <2>3, <3>2, <3>3 DEF Ends
  <2>4. QED BY <1>10, <2>2, <2>3 DEF IsStarted
<1>11. ~ Crash /\ ~ Rests(t)
  BY <1>2 DEF Crash, Rests
<1>12. QED BY <1>1, <1>7, <1>8, <1>9, <1>10, <1>11, CalmThreads DEF ThreadStep

LEMMA GInvStep == TInv /\ CInv /\ OInv /\ GInv /\ [Next]_vars => GInv'
<1> SUFFICES ASSUME TInv, CInv, OInv, GInv, [Next]_vars, Sure' PROVE GInv'
  BY DEF GInv
<1>1. Sure
  BY NextIsLedgerMove, LedgerGrows DEF TInv, Calm, Sure
<1>2. \A i \in Saved' : RowTold(rows[i])'
  BY <1>1, RowsStayTold
<1>3. \A t \in Threads : WorkTold(pc[t], cm[t])'
  BY <1>1, WorkStaysTold
<1>4. \A t \in Threads : cm'[t] # None /\ cm'[t].id # 0 => HeightFits(t)'
  BY <1>1, HeightsStayFitting
<1>5. QED BY <1>2, <1>3, <1>4 DEF GInv

\* The height to go on from never falls.
LEMMA MaxEventHeightGrows ==
  ASSUME TInv, CInv, OInv, GInv, Sure, [Next]_vars
  PROVE  MaxEventHeight' >= MaxEventHeight
<1>1. RowsOK /\ RowsOK'
  BY TInvStep DEF TInv
<1>2. ASSUME NEW i \in Saved
      PROVE  i \in Saved' /\ rows'[i].eventHeight >= rows[i].eventHeight
  <2>1. i \in Saved'
    BY RequestsKept
  <2>2. rows[i].eventHeight \in Nat /\ rows'[i].eventHeight \in Nat
    BY <1>1, <2>1, BoundsAreNat DEF RowsOK, Saved, Record
  <2>3. CASE SameButMarks(rows[i], rows'[i])
    BY <2>1, <2>2, <2>3 DEF SameButMarks, Saved
  <2>4. ASSUME NEW u \in Threads, cm[u] \in Record, cm[u].id = i, rows'[i] = cm[u]
        PROVE  rows'[i].eventHeight >= rows[i].eventHeight
    <3>1. HeightFits(u) /\ RowTold(rows[i])
      BY <2>4, NoneAssumption DEF GInv, Ids, Saved
    <3>2. QED BY <2>2, <2>4, <3>1 DEF HeightFits, RowTold
  <2>5. QED BY <2>1, <2>3, <2>4, RowMoves
<1>3. MaxEventHeight \in Nat
  BY <1>1, MaxEventHeightIs, BoundsAreNat
<1>max. /\ MaxEventHeight' \in Nat
        /\ \A i \in Saved' : rows'[i].eventHeight <= MaxEventHeight'
  <2>1. /\ (MaxEventHeight \in 0..MaxHeight)'
        /\ (\A i \in Saved : rows[i].eventHeight <= MaxEventHeight)'
    BY <1>1, MaxEventHeightIs, PTL
  <2>2. QED BY <2>1, BoundsAreNat
<1>4. CASE MaxEventHeight = 0
  BY <1>max, <1>4
<1>5. CASE MaxEventHeight # 0
  <2>1. PICK i \in Saved : rows[i].eventHeight = MaxEventHeight
    BY <1>1, <1>5, MaxEventHeightIs
  <2>2. i \in Saved' /\ rows'[i].eventHeight >= MaxEventHeight
    BY <1>2, <2>1
  <2>3. rows'[i].eventHeight \in Nat
    BY <1>1, <2>2, BoundsAreNat DEF RowsOK, Saved, Record
  <2>4. QED BY <1>3, <1>max, <2>2, <2>3
<1>6. QED BY <1>4, <1>5

\* What a step does to a monitor's stream.
Passes(m) == \/ OnCallMessage(m) \/ OnCallMessageSent(m) \/ OnResponse(m, "success")
             \/ OnResponse(m, "failure") \/ OnExecuted(m)

StreamStays(m) ==
  /\ pc'[m] = "free" <=> pc[m] = "free"
  /\ pc[m] = "start" => pc'[m] = "start"
  /\ at'[m] = at[m] /\ batch'[m] = batch[m]

LEMMA CalmStreams ==
  ASSUME TInv, CInv, Calm, [Next]_vars, NEW m \in Monitors
  PROVE  \/ Crash \/ pc'[m] = "start" \/ StreamStays(m)
         \/ GetMonitorHeight(m) \/ Fetch(m) \/ Passes(m)
<1>1. /\ ThreadsOK /\ pc \in [Threads -> Labels] /\ Monitors \cap Results = {}
      /\ Monitors \subseteq Threads /\ Results \subseteq Threads
      /\ at \in [Monitors -> 0..(MaxHeight + 1)] /\ batch \in [Monitors -> Seq(ItemType)]
  BY AutoCallerAssumption DEF TInv, ThreadsOK, StreamsOK, Threads
<1>2. Crash \/ (pc'[m] = "free" <=> pc[m] = "free")
  BY MonitorLabels
<1>3. CASE UNCHANGED <<at, batch>> /\ (pc[m] = "start" => pc'[m] = "start")
  BY <1>2, <1>3 DEF StreamStays
<1>4. ASSUME NEW u \in Monitors, Monitor(u), u # m
      PROVE  at'[m] = at[m] /\ batch'[m] = batch[m] /\ (pc[m] = "start" => pc'[m] = "start")
  <2>1. CASE GetMonitorHeight(u) \/ SaveDone(u) \/ ConnectionLost(u) \/ SaveDoneFails(u)
    <3>1. \E l : pc' = [pc EXCEPT ![u] = l]
      BY <2>1 DEF GetMonitorHeight, SaveDone, ConnectionLost, SaveDoneFails, StopStream, Goto
    <3>2. at'[m] = at[m] /\ batch'[m] = batch[m]
      BY <1>1, <1>4, <2>1
         DEF GetMonitorHeight, SaveDone, ConnectionLost, SaveDoneFails, StopStream, streamVars
    <3>3. QED BY <1>1, <1>4, <3>1, <3>2
  <2>2. CASE Fetch(u)
    <3>1. pc' = pc /\ (\E x : at' = [at EXCEPT ![u] = x]) /\ \E x : batch' = [batch EXCEPT ![u] = x]
      BY <2>2 DEF Fetch, threadVars
    <3>2. QED BY <1>1, <1>4, <3>1
  <2>3. CASE OnCallMessage(u) \/ OnCallMessageSent(u) \/ OnResponse(u, "success")
             \/ OnResponse(u, "failure")
    <3>1. at' = at /\ (\E x : batch' = [batch EXCEPT ![u] = x])
      BY <2>3 DEF OnCallMessage, OnCallMessageSent, OnResponse, NextEvent
    <3>2. pc' = pc \/ \E v \in Results \cup {u} : \E l : pc' = [pc EXCEPT ![v] = l]
      BY <2>3 DEF OnCallMessage, OnCallMessageSent, OnResponse, Goto, threadVars
    <3>3. QED BY <1>1, <1>4, <3>1, <3>2
  <2>4. CASE OnExecuted(u)
    <3>1. at' = at /\ (\E x : batch' = [batch EXCEPT ![u] = x])
      BY <2>4 DEF OnExecuted, NextEvent
    <3>2. pc' = pc \/ \E l : pc' = [pc EXCEPT ![u] = l]
      BY <2>4, NoPanic DEF OnExecuted, Goto, threadVars
    <3>3. QED BY <1>1, <1>4, <3>1, <3>2
  <2>5. QED BY <1>4, <2>1, <2>2, <2>3, <2>4 DEF Monitor
<1>5. ASSUME Monitor(m)
      PROVE  \/ pc'[m] = "start" \/ (UNCHANGED <<at, batch>> /\ pc[m] # "start")
             \/ GetMonitorHeight(m) \/ Fetch(m) \/ Passes(m)
  <2>1. CASE ConnectionLost(m) \/ SaveDoneFails(m)
    <3>1. pc' = [pc EXCEPT ![m] = "start"]
      BY <2>1 DEF ConnectionLost, SaveDoneFails, StopStream, Goto
    <3>2. QED BY <1>1, <3>1
  <2>2. CASE SaveDone(m)
    BY <2>2 DEF SaveDone, streamVars
  <2>3. QED BY <1>5, <2>1, <2>2 DEF Monitor, Passes
<1>6. ASSUME NEW t \in Threads, ExecuteCall(t)
      PROVE  UNCHANGED <<at, batch>> /\ (pc[m] = "start" => pc'[m] = "start")
  <2>1. UNCHANGED <<at, batch>> /\ pc[t] # "start"
    BY <1>6 DEF ExecuteCall, InvokeSends, InvokeSkips, InvokeFails, SaveIf, SaveIfReads,
                SaveIfWrites, SaveIfFails, streamVars
  <2>2. CASE InvokeSends(t) \/ InvokeSkips(t) \/ InvokeFails(t)
    <3>1. pc' = [pc EXCEPT ![t] = "saveIf"]
      BY <2>2 DEF InvokeSends, InvokeSkips, InvokeFails, Goto
    <3>2. QED BY <1>1, <2>1, <3>1
  <2>3. ASSUME NEW v, Continue(t, v)
        PROVE  pc[m] = "start" => pc'[m] = "start"
    <3>1. \/ \E l : pc' = [pc EXCEPT ![t] = l]
          \/ \E g \in Results : pc' = [pc EXCEPT ![g] = "get", ![t] = "stream"]
      BY <2>3 DEF Continue, Goto
    <3>2. QED BY <1>1, <2>1, <3>1
  <2>4. CASE SaveIfReads(t)
    <3>1. pc' = [pc EXCEPT ![t] = "write"] \/ Continue(t, cm[t])
      BY <2>4 DEF SaveIfReads, Goto
    <3>2. QED BY <1>1, <2>1, <2>3, <3>1
  <2>5. CASE SaveIf(t) \/ SaveIfWrites(t) \/ SaveIfFails(t)
    BY <2>1, <2>3, <2>5 DEF SaveIf, SaveIfWrites, SaveIfFails
  <2>6. QED BY <1>6, <2>1, <2>2, <2>4, <2>5 DEF ExecuteCall
<1>7. ASSUME NEW g \in Results, CallResult(g)
      PROVE  UNCHANGED <<at, batch>> /\ (pc[m] = "start" => pc'[m] = "start")
  <2>1. UNCHANGED <<at, batch>> /\ \E l : pc' = [pc EXCEPT ![g] = l]
    BY <1>7 DEF CallResult, ResultSuccess, ResultFailure, ResultNotFound, Goto, streamVars
  <2>2. QED BY <1>1, <2>1
<1>8. Finalizer => UNCHANGED <<at, batch, pc>>
  BY FinalizersOnlyMark DEF streamVars
<1>9. (Network \/ UNCHANGED vars) => UNCHANGED <<at, batch, pc>>
  BY DEF Network, streamVars, threadVars, vars
<1>10. ASSUME NEW u \in Monitors, Monitor(u), u # m
       PROVE  Crash \/ StreamStays(m)
  BY <1>2, <1>4, <1>10 DEF StreamStays
<1>11. CASE Monitor(m)
  BY <1>3, <1>5, <1>11
<1>12. QED
  BY <1>3, <1>6, <1>7, <1>8, <1>9, <1>10, <1>11 DEF Next

\* A goroutine that follows a record goes on, or hands it over.
LEMMA FollowersGoOn ==
  ASSUME TInv, CInv, OInv, GInv, Sure, [Next]_vars, NEW i \in Saved,
         rows'[i].state = "sending", rows[i].state = "sending", Followed(i)
  PROVE  Crash \/ Followed(i)'
<1>1. /\ Calm /\ RowsOK /\ None \notin Record /\ Results \subseteq Threads
      /\ "save" \notin load.faults /\ i # 0
      /\ \A u \in Threads : /\ cm[u] # None => cm[u] \in Record
                            /\ WorkTold(pc[u], cm[u]) /\ Fits(u, pc[u], cm[u])
  BY NoneAssumption DEF Sure, GInv, TInv, ThreadsOK, Fits, Saved, Ids, Threads
<1> DEFINE Following == {"saveIf", "write", "get", "invoke", "save"}
<1>2. PICK t \in Threads : cm[t] # None /\ cm[t].id = i /\ pc[t] \in Following
  BY DEF Followed
<1>3. SUFFICES ASSUME ~ Crash
               PROVE  \E u \in Threads : cm'[u] # None /\ cm'[u].id = i /\ pc'[u] \in Following
  BY DEF Followed
<1>4. WithKey(cm[t]) = cm[t] /\ cm[t] \in Record
  BY <1>1, <1>2 DEF WithKey
<1>5. ASSUME Save(cm[t]) PROVE cm[t].state = "sending"
  <2>1. rows'[i] = cm[t]
    BY <1>1, <1>2, <1>5 DEF Save, RowsOK, Saved
  <2>2. QED BY <2>1
<1>next. \A u \in Threads : pc'[u] \in Following => cm'[u] # None
  BY TInvStep DEF TInv, ThreadsOK, Fits
<1>6. CASE Stays(t)
  BY <1>2, <1>6 DEF Stays
<1>7. CASE Rests(t)
  <2>1. CASE pc[t] = "save"
    <3>1. cm[t].state # "sending"
      BY <1>1, <2>1 DEF WorkTold
    <3>2. Save(cm[t])
      BY <1>1, <1>7, <2>1 DEF Rests
    <3>3. QED BY <1>5, <3>1, <3>2
  <2>2. CASE pc[t] \in {"saveIf", "write"}
    <3>1. PICK v : /\ Ends(t, v)
                   /\ v.state = "sending" =>
                        \E g \in Results : pc[g] = "free" /\ pc'[g] = "get" /\ cm'[g] = v
      BY <1>7, <2>2 DEF Rests
    <3>2. v = cm[t]
      BY <1>4, <3>1 DEF Ends
    <3>3. v.state = "sending"
      <4>1. CASE Save(cm[t])
        BY <1>5, <3>2, <4>1
      <4>2. CASE ~ NotDone(cm[t])
        BY <1>2, <4>2, SMTT(30) DEF NotDone
      <4>3. QED BY <1>1, <3>1, <4>1, <4>2 DEF Ends
    <3>4. QED BY <1>1, <1>2, <3>1, <3>2, <3>3
  <2>3. QED BY <1>2, <1>7, <2>1, <2>2 DEF Rests
<1>8. CASE Works(t)
  <2>1. CASE /\ pc'[t] = "saveIf"
             /\ \E state \in {"sending", "skip", "error"}, tx \in Nat :
                  cm'[t] = [cm[t] EXCEPT !.state = state, !.tx = tx]
    <3>1. PICK state \in {"sending", "skip", "error"} : \E tx \in Nat :
            cm'[t] = [cm[t] EXCEPT !.state = state, !.tx = tx]
      BY <2>1
    <3>2. PICK tx \in Nat : cm'[t] = [cm[t] EXCEPT !.state = state, !.tx = tx]
      BY <3>1
    <3>3. cm'[t].id = i
      BY <1>2, <1>4, <3>2 DEF Record
    <3>4. QED BY <1>next, <2>1, <3>3
  <2>2. CASE pc'[t] = "write" /\ UNCHANGED cm
    BY <1>2, <2>2
  <2>3. CASE pc'[t] = "get" /\ Ends(t, cm'[t])
    <3>1. cm'[t] = cm[t]
      BY <1>4, <2>3 DEF Ends
    <3>2. QED BY <1>2, <2>3, <3>1
  <2>4. CASE pc'[t] \in {"saveIf", "invoke"} /\ cm'[t].id = cm[t].id
    BY <1>2, <1>next, <2>4
  <2>5. QED BY <1>8, <2>1, <2>2, <2>3, <2>4 DEF Works
<1>9. (\A e : ~ TakesEvent(t, e)) /\ \A v : ~ IsStarted(t, v)
  BY <1>2 DEF TakesEvent, IsStarted
<1>10. QED BY <1>1, <1>3, <1>6, <1>7, <1>8, <1>9, CalmThreads DEF ThreadStep

\* A record's event that is still to be passed on is, which starts a follower.
LEMMA RedeliveryGoesOn ==
  ASSUME TInv, CInv, OInv, GInv, Sure, [Next]_vars, ~ Crash, ~ load.subscription,
         NEW i \in Saved,
         rows[i].state = "sending", rows[i].eventHeight = MaxEventHeight,
         rows'[i].eventHeight = rows[i].eventHeight, Redelivered(i)
  PROVE  Followed(i)' \/ Redelivered(i)'
<1>1. /\ Calm /\ RowsOK /\ LedgerOK /\ None \notin Record /\ OnePerRequest /\ BatchOnChain
      /\ Results \subseteq Threads /\ Monitors \subseteq Threads
      /\ at \in [Monitors -> 0..(MaxHeight + 1)] /\ batch \in [Monitors -> Seq(ItemType)]
      /\ pc \in [Threads -> Labels] /\ cm \in [Threads -> Record \cup {None}]
      /\ \A u \in Monitors : pc[u] = "stream" => at[u] >= 1
      /\ RowTold(rows[i]) /\ rows[i] \in Record /\ rows[i].id = i
  BY NoneAssumption
     DEF Sure, OInv, GInv, TInv, CInv, ThreadsOK, RowsOK, StreamsOK, Passing, Saved, Threads
<1>2. rows'[i].req = rows[i].req
  BY RequestsKept
<1>load. load' = load
  BY <1>1, NextIsLedgerMove, LedgerGrows DEF TInv
<1>3. PICK h : h = rows[i].eventHeight
  OBVIOUS
<1>4. h \in Nat /\ h >= 1 /\ Told(rows[i])
  BY <1>1, <1>3, BoundsAreNat DEF RowTold, Told, Record
<1>5. PICK m \in Monitors :
        \/ pc[m] = "start"
        \/ pc[m] # "free" /\ at[m] <= h
        \/ \E k \in DOMAIN batch[m] : batch[m][k].kind \in {"message", "failure"}
                                      /\ batch[m][k].req = rows[i].req
  BY <1>3 DEF Redelivered
<1>6. SUFFICES \/ Followed(i)'
               \/ pc'[m] = "start"
               \/ pc'[m] # "free" /\ at'[m] <= h
               \/ \E k \in DOMAIN batch'[m] : batch'[m][k].kind \in {"message", "failure"}
                                              /\ batch'[m][k].req = rows[i].req
  BY <1>2, <1>3, <1>load DEF Redelivered
<1>7. CASE StreamStays(m)
  BY <1>5, <1>7 DEF StreamStays
<1>8. CASE GetMonitorHeight(m)
  <2>1. FirstHeight = h
    BY <1>3, <1>4 DEF FirstHeight, MonitorHeight
  <2>2. at'[m] = h /\ pc'[m] = "stream"
    BY <1>1, <1>8, <2>1 DEF GetMonitorHeight, Goto
  <2>3. QED BY <1>4, <2>2
<1>9. CASE Fetch(m)
  <2>1. pc[m] = "stream" /\ batch[m] = <<>> /\ pc' = pc
    BY <1>9 DEF Fetch, threadVars
  <2>2. at[m] <= h /\ at[m] \in Nat /\ at[m] >= 1
    BY <1>1, <1>5, <2>1
  <2>3. PICK to \in at[m]..Head_ :
          /\ \E events \in EventsBetween(at[m], to) : batch' = [batch EXCEPT ![m] = events]
          /\ at' = [at EXCEPT ![m] = to + 1]
    BY <1>9 DEF Fetch
  <2>4. PICK events \in EventsBetween(at[m], to) : batch' = [batch EXCEPT ![m] = events]
    BY <2>3
  <2>5. to \in Nat /\ to <= Head_ /\ at[m] <= to
    BY <1>1, <2>2, <2>3 DEF Head_, LedgerOK
  <2>6. CASE h <= to
    <3>1. PICK e \in Included : e.kind \in {"message", "failure"} /\ e.req = rows[i].req /\ e.height = h
      BY <1>3, <1>4 DEF Told
    <3>2. IsEvent(e) /\ e.height \in at[m]..to
      BY <1>4, <2>2, <2>5, <2>6, <3>1 DEF IsEvent
    <3>3. \E k \in DOMAIN events : events[k] = e
      BY <1>1, <2>2, <2>4, <2>5, <3>2, EventsAreTold
    <3>4. batch'[m] = events
      BY <1>1, <2>4
    <3>5. QED BY <3>1, <3>3, <3>4
  <2>7. CASE ~ (h <= to)
    <3>1. at'[m] = to + 1
      BY <1>1, <2>3
    <3>2. at'[m] <= h
      BY <1>4, <2>5, <2>7, <3>1
    <3>3. QED BY <2>1, <3>2
  <2>8. QED BY <2>6, <2>7
<1>10. CASE Passes(m)
  <2>1. PICK s : s = batch[m]
    OBVIOUS
  <2>2. /\ pc[m] = "stream" /\ s # <<>> /\ at' = at /\ batch' = [batch EXCEPT ![m] = Tail(s)]
    BY <1>10, <2>1 DEF Passes, OnCallMessage, OnCallMessageSent, OnResponse, OnExecuted, NextEvent
  <2>3. s \in Seq(ItemType) /\ batch'[m] = Tail(s) /\ Head(s) = s[1]
    BY <1>1, <2>1, <2>2
  <2>4. pc'[m] # "free"
    BY <1>1, <2>2, MonitorLabels
  <2>5. CASE at[m] <= h
    BY <2>2, <2>4, <2>5
  <2>6. ASSUME NEW k \in DOMAIN s, s[k].kind \in {"message", "failure"}, s[k].req = rows[i].req
        PROVE  \/ Followed(i)'
               \/ \E n \in DOMAIN Tail(s) : Tail(s)[n].kind \in {"message", "failure"}
                                            /\ Tail(s)[n].req = rows[i].req
    <3>1. CASE k # 1
      <4>1. k - 1 \in DOMAIN Tail(s) /\ Tail(s)[k - 1] = s[k]
        BY <2>2, <2>3, <3>1
      <4>2. QED BY <2>6, <4>1
    <3>2. CASE k = 1
      <4>1. PICK e : e = Head(batch[m])
        OBVIOUS
      <4>2. e.kind \in {"message", "failure"} /\ e.req = rows[i].req
        BY <2>1, <2>3, <2>6, <3>2, <4>1
      <4>3. FindOne(e.req) = rows[i] /\ rows[i] # None /\ Is(rows[i], "sending")
        BY <1>1, <4>2, FindsTheOne DEF Is
      <4>4. CASE OnCallMessage(m)
        <5>1. \E g \in Results : /\ cm' = [cm EXCEPT ![g] = rows[i]]
                                 /\ pc' = [pc EXCEPT ![g] = "get"]
          BY <4>1, <4>3, <4>4 DEF OnCallMessage, Spawned, Goto, Is
        <5>2. QED BY <1>1, <4>3, <5>1 DEF Followed
      <4>5. CASE OnResponse(m, "failure")
        <5>1. \E g \in Results : /\ cm' = [cm EXCEPT ![g] = rows[i]]
                                 /\ pc' = [pc EXCEPT ![g] = "get"]
          BY <4>1, <4>3, <4>5 DEF OnResponse, Spawned, Goto, Is
        <5>2. QED BY <1>1, <4>3, <5>1 DEF Followed
      <4>6. QED BY <1>10, <4>1, <4>2, <4>4, <4>5
                DEF Passes, OnCallMessageSent, OnResponse, OnExecuted, NextEvent
    <3>3. QED BY <3>1, <3>2
  <2>7. QED BY <1>5, <2>1, <2>2, <2>3, <2>5, <2>6
<1>11. QED BY <1>1, <1>7, <1>8, <1>9, <1>10, CalmStreams

NewFollowed ==
  Sure /\ load.subscription /\ crashes = 0 =>
    \A i \in Saved : rows[i].state = "sending" => Followed(i)

LatestFollowed ==
  Sure /\ ~ load.subscription =>
    \A i \in Saved : rows[i].state = "sending" /\ rows[i].eventHeight = MaxEventHeight
      => Followed(i) \/ Redelivered(i)

\* A record that is being sent was so before, or is handed to a goroutine by this step.
LEMMA SendingIsFollowed ==
  ASSUME TInv, CInv, OInv, GInv, Sure, [Next]_vars, ~ Crash,
         NEW i \in Saved', rows'[i].state = "sending"
  PROVE  \/ Followed(i)'
         \/ /\ i \in Saved /\ rows[i].state = "sending"
            /\ rows'[i].eventHeight = rows[i].eventHeight
<1>1. /\ Calm /\ RowsOK /\ None \notin Record /\ rows \in [Ids -> Record \cup {None}] /\ i \in Ids
      /\ rows'[i] # None /\ Results \subseteq Threads /\ Monitors \cap Results = {}
      /\ cm \in [Threads -> Record \cup {None}] /\ pc \in [Threads -> Labels]
      /\ \A t \in Threads : WorkTold(pc[t], cm[t])
  BY NoneAssumption, AutoCallerAssumption
     DEF Sure, TInv, RowsOK, ThreadsOK, Saved, Threads, GInv
<1>2. CASE SameButMarks(rows[i], rows'[i])
  BY <1>1, <1>2 DEF SameButMarks, Saved
<1>3. ASSUME NEW u \in Threads, Save(cm[u]),
             \/ u \in Monitors /\ pc[u] = "save"
             \/ pc[u] \in {"saveIf", "write"} /\ Continue(u, WithKey(cm[u])),
             rows'[i] # rows[i]
      PROVE  Followed(i)'
  <2>1. PICK v : v = WithKey(cm[u])
    OBVIOUS
  <2>2. /\ v \in Record /\ v.state = cm[u].state /\ rows' = [rows EXCEPT ![v.id] = v]
        /\ v.id \in Ids
    BY <1>3, <2>1, SaveOfThread
  <2>3. i = v.id /\ rows'[i] = v /\ v.state = "sending"
    BY <1>1, <1>3, <2>2
  <2>4. Continue(u, v)
    BY <1>1, <1>3, <2>1, <2>2, <2>3 DEF WorkTold
  <2>5. \E g \in Threads : cm'[g] = v /\ pc'[g] = "get"
    <3>1. CASE u \in Results
      BY <1>1, <2>3, <2>4, <3>1 DEF Continue, Set, Goto
    <3>2. CASE u \notin Results
      <4>1. PICK g \in Results : /\ cm' = [cm EXCEPT ![g] = v, ![u] = None]
                                 /\ pc' = [pc EXCEPT ![g] = "get", ![u] = "stream"]
        BY <2>3, <2>4, <3>2 DEF Continue
      <4>2. cm'[g] = v /\ pc'[g] = "get"
        BY <1>1, <3>2, <4>1
      <4>3. QED BY <1>1, <4>2
    <3>3. QED BY <3>1, <3>2
  <2>6. v # None
    BY <1>1, <2>2
  <2>7. QED BY <2>3, <2>5, <2>6 DEF Followed
<1>4. rows'[i] = rows[i] => i \in Saved /\ SameButMarks(rows[i], rows'[i])
  BY <1>1, MarkedTable DEF Saved
<1>5. QED BY <1>1, <1>2, <1>3, <1>4, CalmRows

LEMMA CrashesCounted ==
  ASSUME [Next]_vars, ~ Crash
  PROVE  crashes' = crashes
<1>1. ASSUME NEW m \in Monitors, Monitor(m)
      PROVE  crashes' = crashes
  BY <1>1 DEF Monitor, GetMonitorHeight, Fetch, ConnectionLost, OnCallMessage, OnCallMessageSent,
              OnResponse, OnExecuted, NextEvent, SaveDone, SaveDoneFails
<1>2. ASSUME NEW t \in Threads, ExecuteCall(t)
      PROVE  crashes' = crashes
  BY <1>2 DEF ExecuteCall, InvokeSends, InvokeSkips, InvokeFails, SaveIf, SaveIfReads,
              SaveIfWrites, SaveIfFails
<1>3. ASSUME NEW g \in Results, CallResult(g)
      PROVE  crashes' = crashes
  BY <1>3 DEF CallResult, ResultSuccess, ResultFailure, ResultNotFound
<1>4. Finalizer => crashes' = crashes
  BY DEF Finalizer, FinalizeBegins, FinalizeUpdates, FinalizeDrops, FinalizeFinds, FinalizeFails
<1>5. Network \/ UNCHANGED vars => crashes' = crashes
  BY DEF Network, vars
<1>6. QED BY <1>1, <1>2, <1>3, <1>4, <1>5 DEF Next

LEMMA NewFollowedStep ==
  TInv /\ CInv /\ OInv /\ GInv /\ NewFollowed /\ [Next]_vars => NewFollowed'
<1> SUFFICES ASSUME TInv, CInv, OInv, GInv, NewFollowed, [Next]_vars, Sure',
                    load'.subscription, crashes' = 0,
                    NEW i \in Saved', rows'[i].state = "sending"
             PROVE  Followed(i)'
  BY DEF NewFollowed
<1>1. Sure /\ load' = load
  BY NextIsLedgerMove, LedgerGrows DEF TInv, Calm, Sure
<1>2. ~ Crash /\ crashes = 0
  <2>1. crashes \in Nat
    BY BoundsAreNat DEF TInv
  <2>2. ~ Crash
    BY <2>1 DEF Crash
  <2>3. QED BY <2>2, CrashesCounted
<1>3. QED
  BY <1>1, <1>2, SendingIsFollowed, FollowersGoOn DEF NewFollowed

LEMMA LatestFollowedStep ==
  TInv /\ CInv /\ OInv /\ GInv /\ LatestFollowed /\ [Next]_vars => LatestFollowed'
<1> SUFFICES ASSUME TInv, CInv, OInv, GInv, LatestFollowed, [Next]_vars, Sure',
                    ~ load'.subscription,
                    NEW i \in Saved', rows'[i].state = "sending",
                    rows'[i].eventHeight = MaxEventHeight'
             PROVE  Followed(i)' \/ Redelivered(i)'
  BY DEF LatestFollowed
<1>1. Sure /\ load' = load
  BY NextIsLedgerMove, LedgerGrows DEF TInv, Calm, Sure
<1>2. RowsOK /\ rows \in [Ids -> Record \cup {None}]
  BY DEF TInv, RowsOK
<1>3. CASE Crash
  <2>1. PICK m \in Monitors : pc' = Boot(m)
    BY <1>3 DEF Crash
  <2>2. pc'[m] = "start"
    BY <2>1 DEF Boot, Threads
  <2>3. QED BY <2>2 DEF Redelivered
<1>4. ASSUME ~ Crash, i \in Saved, rows[i].state = "sending", rows'[i].eventHeight = rows[i].eventHeight
      PROVE  Followed(i)' \/ Redelivered(i)'
  <2>1. rows[i].eventHeight = MaxEventHeight
    <3>1. MaxEventHeight' >= MaxEventHeight
      BY <1>1, MaxEventHeightGrows
    <3>2. rows[i].eventHeight <= MaxEventHeight /\ MaxEventHeight \in 0..MaxHeight
      BY <1>2, <1>4, MaxEventHeightIs
    <3>3. rows[i].eventHeight \in Nat /\ MaxEventHeight \in Nat
      BY <1>2, <1>4, <3>2, BoundsAreNat DEF Saved, Record
    <3>4. QED BY <1>4, <3>1, <3>2, <3>3
  <2>2. Followed(i) \/ Redelivered(i)
    BY <1>1, <1>4, <2>1 DEF LatestFollowed
  <2>3. QED BY <1>1, <1>4, <2>1, <2>2, FollowersGoOn, RedeliveryGoesOn
<1>5. QED BY <1>1, <1>3, <1>4, SendingIsFollowed

\* While no block is replaced and no save fails, the record with a transaction under way at
\* the greatest event height is followed by a goroutine, or its event is still to be passed
\* on, which starts one: getMonitorHeight resumes at that height, so a crash or a lost
\* connection of a polled stream forgets older records only.  A subscription passes on
\* nothing again: there a record is followed until a crash, over any lost connection.
THEOREM LatestIsNeverForgotten == Spec => [](Sure => OnlyOlderForgotten)
<1>1. Init => OInv /\ GInv /\ LatestFollowed /\ NewFollowed
  <2> SUFFICES ASSUME Init PROVE OInv /\ GInv /\ LatestFollowed /\ NewFollowed
    OBVIOUS
  <2>1. Saved = {} /\ \A t \in Threads : cm[t] = None
    BY DEF Init, Saved
  <2>2. PICK m \in Monitors : pc = Boot(m)
    BY DEF Init
  <2>3. \A t \in Threads : pc[t] \in {"start", "free"}
    BY <2>2 DEF Boot
  <2>4. QED
    BY <2>1, <2>3 DEF OInv, OnePerRequest, GInv, WorkTold, LatestFollowed, NewFollowed
<1>2. LatestFollowed /\ NewFollowed => (Sure => OnlyOlderForgotten)
  BY DEF LatestFollowed, NewFollowed, OnlyOlderForgotten
<1>3. QED
  BY TInvInit, TInvStep, CInvInit, CInvStep, OInvStep, GInvStep, LatestFollowedStep,
     NewFollowedStep, <1>1, <1>2, PTL DEF Spec
=============================================================================
