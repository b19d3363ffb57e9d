--------------------------- MODULE SpecMerge_proofs ---------------------------
(***************************************************************************)
(* Proofs about SpecMerge: for any networks, in any order, whatever their  *)
(* contracts have in common.                                               *)
(***************************************************************************)
EXTENDS SpecMerge, WellFoundedInduction, TLAPS

\* The parts of a specification of kind k.
PartsOf(k) == CASE k = "method" -> {"inputs", "output", "payable", "readonly"}
                [] k = "event" -> {"inputs", "indexed"}

\* Specifications of contracts, by network type.
Contracts(k, C) == \A t \in Types : C[t] = [p \in PartsOf(k) |-> C[t][p]]

\* The overload that is made for the contract of u, when it serves T.
OverloadOf(C, base, u, T) == NewOverload(Compare(base, C[u]), C[u], T)
OverloadsOf(C, S, base) ==
  {OverloadOf(C, base, u, T) : u \in {v \in S : C[v] # base}, T \in SUBSET S}

Overloads(C, S, base, list) ==
  /\ list \in Seq(OverloadsOf(C, S, base))
  /\ \A i \in 1..Len(list) : \A t \in list[i].types : /\ C[t] # base
                                                     /\ CompareOverload(list[i], C[t])

\* The networks S are where Merge has put them.
Placed(C, S, e) ==
  /\ \E b \in S : b \in e.types
  /\ \A t \in e.types : t \in S /\ C[t] = e.base
  /\ Overloads(C, S, e.base, e.overloads)
  /\ \A t \in S : t \in e.types \/ \E i \in 1..Len(e.overloads) : t \in e.overloads[i].types

MInv ==
  /\ of \in {"method", "event"} /\ seen \subseteq Types /\ Contracts(of, contract)
  /\ entry = [types |-> entry.types, base |-> entry.base, overloads |-> entry.overloads]
  /\ IF seen = {} THEN entry = NoEntry ELSE Placed(contract, seen, entry)
  /\ made = "merging" => reverse = NoEntry /\ flag = {}
  /\ TranslatesToOwn /\ HttpMethodFits

-----------------------------------------------------------------------------
(* The first overload with a property.                                     *)

Less == OpToRel(<, Nat)

LEMMA LeastExists ==
  ASSUME NEW S, S \subseteq Nat, S # {}
  PROVE  \E x \in S : \A y \in S : x <= y
<1>1. IsWellFoundedOn(Less, Nat)
  BY NatLessThanWellFounded DEF Less
<1>2. PICK x \in S : \A y \in S : <<y, x>> \notin Less
  BY <1>1, WFMin, Zenon
<1>3. \A y \in S : y < x => <<y, x>> \in Less
  BY DEF Less, OpToRel
<1>4. ASSUME NEW y \in S PROVE x <= y
  <2>1. x \in Nat /\ y \in Nat /\ ~ (y < x)
    BY <1>2, <1>3
  <2>2. QED BY <2>1
<1>5. QED BY <1>4

LEMMA MinIn ==
  ASSUME NEW S, S \subseteq Nat, S # {}
  PROVE  Min(S) \in S
BY LeastExists DEF Min

LEMMA OverloadIs ==
  ASSUME NEW e, Len(e.overloads) \in Nat, NEW t
  PROVE  \/ /\ Overload(e, t) = 0
            /\ \A i \in 1..Len(e.overloads) : t \notin e.overloads[i].types
         \/ /\ Overload(e, t) \in 1..Len(e.overloads)
            /\ t \in e.overloads[Overload(e, t)].types
<1> DEFINE I == {i \in 1..Len(e.overloads) : t \in e.overloads[i].types}
<1>1. Overload(e, t) = IF I # {} THEN Min(I) ELSE 0
  BY DEF Overload, FirstOf, SelectInSeq
<1>2. I \subseteq Nat
  OBVIOUS
<1>3. CASE I = {}
  BY <1>1, <1>3
<1>4. CASE I # {}
  <2>1. Overload(e, t) \in I
    <3> HIDE DEF I
    <3>1. QED BY <1>1, <1>2, <1>4, MinIn
  <2>2. QED BY <2>1
<1>5. QED BY <1>3, <1>4

LEMMA AgreeingIs ==
  ASSUME NEW e, Len(e.overloads) \in Nat, NEW cs
  PROVE  \/ Agreeing(e, cs) = 0
         \/ /\ Agreeing(e, cs) \in 1..Len(e.overloads)
            /\ CompareOverload(e.overloads[Agreeing(e, cs)], cs)
<1> DEFINE I == {i \in 1..Len(e.overloads) : CompareOverload(e.overloads[i], cs)}
<1>1. Agreeing(e, cs) = IF I # {} THEN Min(I) ELSE 0
  BY DEF Agreeing, FirstOf, SelectInSeq
<1>2. I \subseteq Nat
  OBVIOUS
<1>3. CASE I = {}
  BY <1>1, <1>3
<1>4. CASE I # {}
  <2>1. Min(I) \in I
    <3> HIDE DEF I
    <3>1. QED BY <1>2, <1>4, MinIn
  <2>2. QED BY <1>1, <1>4, <2>1
<1>5. QED BY <1>3, <1>4

-----------------------------------------------------------------------------
(* Merging.                                                                *)

LEMMA ContractsAre ==
  ASSUME NEW k \in {"method", "event"}, NEW C \in [Types -> ContractsOf(k)]
  PROVE  Contracts(k, C)
<1> SUFFICES ASSUME NEW t \in Types PROVE C[t] = [p \in PartsOf(k) |-> C[t][p]]
  BY DEF Contracts
<1>1. C[t] \in ContractsOf(k)
  OBVIOUS
<1>2. CASE k = "method"
  <2>1. C[t] \in [inputs : PartValues["inputs"], output : PartValues["output"],
                  payable : PartValues["payable"], readonly : PartValues["readonly"]]
    BY <1>1, <1>2 DEF ContractsOf
  <2>2. QED BY <1>2, <2>1 DEF PartsOf
<1>3. CASE k = "event"
  <2>1. C[t] \in [inputs : PartValues["inputs"], indexed : PartValues["indexed"]]
    BY <1>1, <1>3 DEF ContractsOf
  <2>2. QED BY <1>3, <2>1 DEF PartsOf
<1>4. QED BY <1>2, <1>3

LEMMA CompareIs ==
  ASSUME NEW k, NEW C, Contracts(k, C), NEW t \in Types, NEW u \in Types
  PROVE  Compare(C[t], C[u]) = {} <=> C[t] = C[u]
BY DEF Contracts, Compare

LEMMA FirstPlaced ==
  ASSUME NEW C, NEW t
  PROVE  Placed(C, {t}, [types |-> {t}, base |-> C[t], overloads |-> <<>>])
BY DEF Placed, Overloads

\* More networks leave what was made for the others as it is.
LEMMA OverloadsKept ==
  ASSUME NEW C, NEW S, NEW T, S \subseteq T, NEW base, NEW list, Overloads(C, S, base, list)
  PROVE  Overloads(C, T, base, list)
<1>1. OverloadsOf(C, S, base) \subseteq OverloadsOf(C, T, base)
  BY DEF OverloadsOf
<1>2. list \in Seq(OverloadsOf(C, T, base))
  BY <1>1 DEF Overloads
<1>3. QED BY <1>2 DEF Overloads

\* A network that is like the base is in no overload.
LEMMA SamePlaced ==
  ASSUME NEW C, NEW S, NEW t, NEW T, T = S \cup {t},
         NEW e, e = [types |-> e.types, base |-> e.base, overloads |-> e.overloads],
         Placed(C, S, e), e.base = C[t]
  PROVE  /\ MergeSame(e, t) = [e EXCEPT !.types = @ \cup {t}]
         /\ Placed(C, T, MergeSame(e, t))
<1>1. Overloads(C, S, e.base, e.overloads) /\ Len(e.overloads) \in Nat
  BY DEF Placed, Overloads
<1>2. Overload(e, t) = 0
  <2>1. \A i \in 1..Len(e.overloads) : t \notin e.overloads[i].types
    BY <1>1 DEF Overloads
  <2>2. QED BY <1>1, <2>1, OverloadIs
<1>3. MergeSame(e, t) = [e EXCEPT !.types = @ \cup {t}]
  <2>1. CASE t \in e.types
    <3>1. e.types \cup {t} = e.types
      BY <2>1
    <3>2. QED BY <2>1, <3>1 DEF MergeSame
  <2>2. CASE t \notin e.types
    BY <1>2, <2>2 DEF MergeSame
  <2>3. QED BY <2>1, <2>2
<1> DEFINE m == [types |-> e.types \cup {t}, base |-> e.base, overloads |-> e.overloads]
<1>4. MergeSame(e, t) = m
  BY <1>3
<1>5. Overloads(C, T, e.base, e.overloads)
  BY <1>1, OverloadsKept
<1>6. Placed(C, T, m)
  BY <1>5 DEF Placed
<1>7. QED BY <1>3, <1>4, <1>6

\* Another network goes to an overload that agrees with it, or gets one of its own.
LEMMA OtherPlaced ==
  ASSUME NEW C, NEW S, NEW t, NEW T, T = S \cup {t},
         NEW e, e = [types |-> e.types, base |-> e.base, overloads |-> e.overloads],
         Placed(C, S, e), e.base # C[t]
  PROVE  LET m == MergeOther(e, C[t], t) IN
         /\ Placed(C, T, m)
         /\ m = [types |-> m.types, base |-> m.base, overloads |-> m.overloads]
<1> DEFINE i == Agreeing(e, C[t])
           new == NewOverload(Compare(e.base, C[t]), C[t], {t})
           wider == [e.overloads[i] EXCEPT !.types = @ \cup {t}]
           n == Len(e.overloads)
           list == IF i = 0 THEN Append(e.overloads, new)
                   ELSE [e.overloads EXCEPT ![i] = wider]
           m == [types |-> e.types \ {t}, base |-> e.base, overloads |-> list]
           All == OverloadsOf(C, T, e.base)
<1>1. MergeOther(e, C[t], t) = m
  <2>1. MergeOther(e, C[t], t) = [e EXCEPT !.types = @ \ {t}, !.overloads = list]
    <3>1. [e.overloads EXCEPT ![i].types = @ \cup {t}] = [e.overloads EXCEPT ![i] = wider]
      OBVIOUS
    <3>2. MergeOther(e, C[t], t)
            = [e EXCEPT !.types = e.types \ {t},
                        !.overloads = IF i = 0 THEN Append(e.overloads, new)
                                      ELSE [e.overloads EXCEPT ![i].types = @ \cup {t}]]
      BY DEF MergeOther
    <3> HIDE DEF i, new, wider
    <3>3. QED BY <3>1, <3>2
  <2> HIDE DEF list
  <2>2. QED BY <2>1
<1>2. Overloads(C, T, e.base, e.overloads)
  BY OverloadsKept DEF Placed
<1>3. e.overloads \in Seq(All) /\ n \in Nat
  BY <1>2 DEF Overloads
<1>4. i = 0 \/ (i \in 1..n /\ CompareOverload(e.overloads[i], C[t]))
  BY <1>3, AgreeingIs
<1> HIDE DEF i
<1>5. new \in All /\ new.types = {t} /\ CompareOverload(new, C[t])
  <2>1. new = OverloadOf(C, e.base, t, {t}) /\ t \in {v \in T : C[v] # e.base}
    BY DEF OverloadOf
  <2>2. new \in All
    BY <2>1 DEF OverloadsOf
  <2>3. QED BY <2>2 DEF NewOverload, CompareOverload
<1>6. i # 0 => /\ wider \in All /\ wider.types = e.overloads[i].types \cup {t}
               /\ wider.own = e.overloads[i].own
  <2>1. SUFFICES ASSUME i # 0 PROVE /\ wider \in All
                                    /\ wider.types = e.overloads[i].types \cup {t}
                                    /\ wider.own = e.overloads[i].own
    OBVIOUS
  <2>2. e.overloads[i] \in All
    BY <1>3, <1>4, <2>1
  <2>3. PICK u \in {v \in T : C[v] # e.base} :
          \E X \in SUBSET T : e.overloads[i] = OverloadOf(C, e.base, u, X)
    BY <2>2 DEF OverloadsOf
  <2>4. PICK X \in SUBSET T : e.overloads[i] = OverloadOf(C, e.base, u, X)
    BY <2>3
  <2>5. wider = OverloadOf(C, e.base, u, X \cup {t})
    BY <2>4 DEF OverloadOf, NewOverload
  <2>6. X \cup {t} \in SUBSET T
    BY <2>4
  <2>7. wider \in All
    BY <2>3, <2>5, <2>6 DEF OverloadsOf
  <2>8. QED BY <2>4, <2>5, <2>7 DEF OverloadOf, NewOverload
<1> HIDE DEF new, wider, All
<1>7. /\ list \in Seq(All) /\ Len(list) \in Nat /\ n <= Len(list)
      /\ \A j \in 1..n : list[j] = IF j = i THEN wider ELSE e.overloads[j]
      /\ i = 0 => Len(list) = n + 1 /\ list[n + 1] = new
      /\ i # 0 => Len(list) = n
  <2>1. CASE i = 0
    BY <1>3, <1>5, <2>1
  <2>2. CASE i # 0
    BY <1>3, <1>4, <1>6, <2>2
  <2>3. QED BY <2>1, <2>2
<1> HIDE DEF list
<1>8. Overloads(C, T, e.base, list)
  <2>1. ASSUME NEW j \in 1..Len(list), NEW v \in list[j].types
        PROVE  C[v] # e.base /\ CompareOverload(list[j], C[v])
    <3>1. CASE j \in 1..n /\ j # i
      <4>1. list[j] = e.overloads[j]
        BY <1>7, <3>1
      <4>2. QED BY <1>2, <2>1, <3>1, <4>1 DEF Overloads
    <3>2. CASE j \in 1..n /\ j = i
      <4>1. i # 0 /\ list[j] = wider
        BY <1>7, <3>2
      <4>2. v \in e.overloads[i].types \/ v = t
        BY <1>6, <2>1, <4>1
      <4>3. CompareOverload(e.overloads[i], C[v]) /\ C[v] # e.base
        BY <1>2, <1>4, <3>2, <4>1, <4>2 DEF Overloads
      <4>4. QED BY <1>6, <4>1, <4>3 DEF CompareOverload
    <3>3. CASE j \notin 1..n
      <4>1. j = n + 1 /\ list[j] = new
        BY <1>3, <1>7, <3>3
      <4>2. v = t
        BY <1>5, <2>1, <4>1
      <4>3. QED BY <1>5, <4>1, <4>2
    <3>4. QED BY <3>1, <3>2, <3>3
  <2>2. list \in Seq(OverloadsOf(C, T, e.base))
    BY <1>7 DEF All
  <2>3. QED BY <2>1, <2>2 DEF Overloads
<1>9. ASSUME NEW v \in T
      PROVE  v \in e.types \ {t} \/ \E j \in 1..Len(list) : v \in list[j].types
  <2>1. CASE v = t
    <3>1. CASE i = 0
      <4>1. n + 1 \in 1..Len(list) /\ list[n + 1] = new
        BY <1>3, <1>7, <3>1
      <4>2. QED BY <1>5, <2>1, <4>1
    <3>2. CASE i # 0
      <4>1. i \in 1..Len(list) /\ list[i] = wider
        BY <1>3, <1>4, <1>7, <3>2
      <4>2. QED BY <1>6, <2>1, <3>2, <4>1
    <3>3. QED BY <3>1, <3>2
  <2>2. CASE v # t /\ v \notin e.types
    <3>1. PICK j \in 1..n : v \in e.overloads[j].types
      BY <2>2 DEF Placed
    <3>2. j \in 1..Len(list) /\ v \in list[j].types
      BY <1>3, <1>6, <1>7, <3>1
    <3>3. QED BY <3>2
  <2>3. QED BY <2>1, <2>2
<1>10. Placed(C, T, m)
  <2>1. \E b \in T : b \in m.types
    BY DEF Placed
  <2>2. \A v \in m.types : v \in T /\ C[v] = m.base
    BY DEF Placed
  <2>3. QED BY <1>8, <1>9, <2>1, <2>2 DEF Placed
<1>11. QED BY <1>1, <1>10


-----------------------------------------------------------------------------
(* What a network finds.                                                   *)

LEMMA OverIs ==
  ASSUME NEW f, NEW g
  PROVE  /\ DOMAIN Over(f, g) = DOMAIN f \cup DOMAIN g
         /\ \A x \in DOMAIN f : Over(f, g)[x] = f[x]
         /\ \A x \in DOMAIN g \ DOMAIN f : Over(f, g)[x] = g[x]
         /\ Over(f, g) = [x \in DOMAIN f \cup DOMAIN g |-> Over(f, g)[x]]
BY DEF Over

\* Shadowed, of any networks.
Hidden(C, S, base, t) ==
  \E u \in S \ {t} :
    LET d == Compare(base, C[u]) IN
    /\ d # {} /\ d # Compare(base, C[t])
    /\ \A p \in d : C[u][p] = C[t][p]

LEMMA BaseIs ==
  ASSUME NEW k, NEW C, Contracts(k, C), NEW S, S \subseteq Types, NEW e, Placed(C, S, e),
         NEW t \in S
  PROVE  /\ DOMAIN e.base = PartsOf(k) /\ DOMAIN C[t] = PartsOf(k)
         /\ C[t] = [p \in PartsOf(k) |-> C[t][p]]
<1>1. PICK b \in S : e.base = C[b]
  BY DEF Placed
<1>2. C[t] = [p \in PartsOf(k) |-> C[t][p]] /\ C[b] = [p \in PartsOf(k) |-> C[b][p]]
  BY DEF Contracts
<1>3. DOMAIN C[t] = PartsOf(k) /\ DOMAIN C[b] = PartsOf(k)
  BY <1>2
<1>4. QED BY <1>1, <1>2, <1>3

LEMMA LikeBase ==
  ASSUME NEW k, NEW C, Contracts(k, C), NEW S, S \subseteq Types, NEW e, Placed(C, S, e),
         NEW t \in S, Compare(e.base, C[t]) = {}
  PROVE  C[t] = e.base
<1>1. PICK b \in S : e.base = C[b]
  BY DEF Placed
<1>2. b \in Types /\ t \in Types
  OBVIOUS
<1>3. QED BY <1>1, <1>2, CompareIs

\* An overload over the base is the specification of a network that is in it, or it was
\* made for another one and hides some of that.
LEMMA OwnOrHidden ==
  ASSUME NEW k, NEW C, Contracts(k, C), NEW S \in SUBSET Types, NEW e, Placed(C, S, e),
         NEW t \in S, NEW i \in 1..Len(e.overloads), t \in e.overloads[i].types
  PROVE  \/ Over(e.overloads[i].own, e.base) = C[t]
         \/ Hidden(C, S, e.base, t)
<1> DEFINE o == e.overloads[i]
           All == OverloadsOf(C, S, e.base)
<1>1. e.overloads \in Seq(All) /\ CompareOverload(o, C[t])
  BY DEF Placed, Overloads
<1>2. o \in All
  <2> HIDE DEF All
  <2>1. QED BY <1>1
<1>3. PICK u \in {v \in S : C[v] # e.base} : \E X \in SUBSET S : o = OverloadOf(C, e.base, u, X)
  BY <1>2 DEF OverloadsOf
<1> DEFINE d == Compare(e.base, C[u])
<1>4. o.own = [p \in d |-> C[u][p]]
  BY <1>3 DEF OverloadOf, NewOverload
<1> HIDE DEF o
<1>5. DOMAIN o.own = d /\ \A p \in d : C[u][p] = C[t][p] /\ o.own[p] = C[t][p]
  BY <1>1, <1>4 DEF CompareOverload
<1>6. /\ DOMAIN e.base = PartsOf(k) /\ d # {} /\ d \subseteq PartsOf(k)
      /\ C[t] = [p \in PartsOf(k) |-> C[t][p]]
  <2>1. /\ DOMAIN e.base = PartsOf(k) /\ C[t] = [p \in PartsOf(k) |-> C[t][p]]
        /\ Compare(e.base, C[u]) = {} => C[u] = e.base
    <3>1. u \in S /\ S \subseteq Types
      BY <1>3
    <3>2. DOMAIN e.base = PartsOf(k) /\ C[t] = [p \in PartsOf(k) |-> C[t][p]]
      BY <3>1, BaseIs
    <3>3. Compare(e.base, C[u]) = {} => C[u] = e.base
      BY <3>1, LikeBase
    <3>4. QED BY <3>2, <3>3
  <2>2. d \subseteq DOMAIN e.base
    BY DEF Compare
  <2>3. QED BY <1>3, <2>1, <2>2
<1>7. CASE d = Compare(e.base, C[t])
  <2>1. ASSUME NEW p \in PartsOf(k) PROVE Over(o.own, e.base)[p] = C[t][p]
    <3>1. CASE p \in d
      BY <1>5, <1>6, <3>1 DEF Over
    <3>2. CASE p \notin d
      <4>1. Over(o.own, e.base)[p] = e.base[p]
        BY <1>5, <1>6, <3>2 DEF Over
      <4>2. e.base[p] = C[t][p]
        BY <1>6, <1>7, <3>2 DEF Compare
      <4>3. QED BY <4>1, <4>2
    <3>3. QED BY <3>1, <3>2
  <2>2. Over(o.own, e.base) = [p \in PartsOf(k) |-> Over(o.own, e.base)[p]]
    <3>1. DOMAIN o.own \cup DOMAIN e.base = PartsOf(k)
      BY <1>5, <1>6
    <3>2. QED BY <3>1 DEF Over
  <2>3. Over(o.own, e.base) = C[t]
    BY <1>6, <2>1, <2>2
  <2>4. QED BY <2>3 DEF o
<1>8. CASE d # Compare(e.base, C[t])
  <2>1. u # t /\ u \in S
    BY <1>3, <1>8
  <2>2. Hidden(C, S, e.base, t)
    BY <1>5, <1>6, <1>8, <2>1 DEF Hidden
  <2>3. QED BY <2>2
<1>9. QED BY <1>7, <1>8

LEMMA PlacedLength ==
  ASSUME NEW C, NEW S, NEW e, Placed(C, S, e)
  PROVE  /\ Len(e.overloads) \in Nat /\ DOMAIN e.overloads = 1..Len(e.overloads)
         /\ e.overloads \in Seq(OverloadsOf(C, S, e.base))
BY DEF Placed, Overloads

LEMMA MInvFinds == MInv => EachFindsItsOwn
<1> SUFFICES ASSUME MInv, NEW t \in seen PROVE Resolved(entry, t) = contract[t] \/ Shadowed(t)
  BY DEF EachFindsItsOwn
<1>1. Placed(contract, seen, entry) /\ Contracts(of, contract) /\ seen \in SUBSET Types
  BY DEF MInv
<1>2. CASE t \in entry.types
  BY <1>1, <1>2 DEF Resolved, Placed
<1>3. CASE t \notin entry.types
  <2>1. \E i \in 1..Len(entry.overloads) : t \in entry.overloads[i].types
    BY <1>1, <1>3 DEF Placed
  <2>2. PICK i \in 1..Len(entry.overloads) : /\ i = Overload(entry, t)
                                             /\ t \in entry.overloads[i].types
    BY <1>1, <2>1, PlacedLength, OverloadIs
  <2>3. i # 0
    BY <1>1, <2>2, PlacedLength
  <2>4. Resolved(entry, t) = Over(entry.overloads[i].own, entry.base)
    BY <1>3, <2>2, <2>3 DEF Resolved
  <2>5. Over(entry.overloads[i].own, entry.base) = contract[t] \/ Hidden(contract, seen, entry.base, t)
    BY <1>1, <2>2, OwnOrHidden
  <2>6. QED BY <2>4, <2>5 DEF Hidden, Shadowed
<1>4. QED BY <1>2, <1>3


-----------------------------------------------------------------------------
(* The steps.                                                              *)

LEMMA MergePlaced ==
  ASSUME NEW k, NEW C, Contracts(k, C), NEW S \in SUBSET Types, NEW t \in Types,
         NEW T, T = S \cup {t},
         NEW e, e = [types |-> e.types, base |-> e.base, overloads |-> e.overloads],
         IF S = {} THEN e = NoEntry ELSE Placed(C, S, e)
  PROVE  LET m == Merge(e, C[t], t) IN
         /\ Placed(C, T, m)
         /\ m = [types |-> m.types, base |-> m.base, overloads |-> m.overloads]
<1> DEFINE m == Merge(e, C[t], t)
<1>1. CASE S = {}
  <2>1. m = [types |-> {t}, base |-> C[t], overloads |-> <<>>]
    BY <1>1 DEF Merge
  <2>2. T = {t}
    BY <1>1
  <2>3. Placed(C, T, m)
    BY <2>1, <2>2, FirstPlaced
  <2> HIDE DEF m
  <2>4. QED BY <2>1, <2>3 DEF m
<1>2. CASE S # {}
  <2>1. Placed(C, S, e)
    BY <1>2
  <2>2. PICK b \in S : b \in e.types /\ C[b] = e.base
    BY <2>1 DEF Placed
  <2>3. e # NoEntry
    BY <2>2 DEF NoEntry
  <2>4. CASE Compare(e.base, C[t]) = {}
    <3>1. C[b] = C[t]
      <4>1. b \in Types /\ Compare(C[b], C[t]) = {}
        BY <2>2, <2>4
      <4>2. QED BY <4>1, CompareIs
    <3>2. m = MergeSame(e, t)
      BY <2>3, <2>4 DEF Merge
    <3>3. e.base = C[t]
      BY <2>2, <3>1
    <3> DEFINE same == MergeSame(e, t)
    <3>4. same = [e EXCEPT !.types = @ \cup {t}] /\ Placed(C, T, same)
      BY <2>1, <3>3, SamePlaced
    <3> HIDE DEF m, same
    <3>5. same = [types |-> e.types \cup {t}, base |-> e.base, overloads |-> e.overloads]
      BY <3>4
    <3>6. m = same
      BY <3>2 DEF same
    <3>7. QED BY <3>4, <3>5, <3>6 DEF m
  <2>5. CASE Compare(e.base, C[t]) # {}
    <3>1. e.base # C[t]
      BY <2>5 DEF Compare
    <3>2. m = MergeOther(e, C[t], t)
      BY <2>3, <2>5 DEF Merge
    <3> DEFINE other == MergeOther(e, C[t], t)
    <3>3. /\ Placed(C, T, other)
          /\ other = [types |-> other.types, base |-> other.base, overloads |-> other.overloads]
      BY <2>1, <3>1, OtherPlaced
    <3> HIDE DEF m, other
    <3>4. m = other
      BY <3>2 DEF other
    <3>5. QED BY <3>3, <3>4 DEF m
  <2>6. QED BY <2>4, <2>5
<1>3. QED BY <1>1, <1>2

LEMMA MergeNetworkKeeps == MInv /\ MergeNetwork => MInv'
<1> SUFFICES ASSUME MInv, MergeNetwork PROVE MInv'
  OBVIOUS
<1>1. PICK t \in Types : entry' = Merge(entry, contract[t], t) /\ seen' = seen \cup {t}
  BY DEF MergeNetwork
<1>2. /\ of' = of /\ contract' = contract /\ reverse' = reverse /\ flag' = flag
      /\ made = "merging" /\ made' = made
  BY DEF MergeNetwork
<1>3. /\ seen \in SUBSET Types /\ Contracts(of, contract)
      /\ entry = [types |-> entry.types, base |-> entry.base, overloads |-> entry.overloads]
      /\ IF seen = {} THEN entry = NoEntry ELSE Placed(contract, seen, entry)
  BY DEF MInv
<1> DEFINE m == Merge(entry, contract[t], t)
<1>4. /\ Placed(contract, seen', m)
      /\ m = [types |-> m.types, base |-> m.base, overloads |-> m.overloads]
  BY <1>1, <1>3, MergePlaced
<1> HIDE DEF m
<1>5. entry' = m /\ t \in seen'
  BY <1>1 DEF m
<1>6. /\ entry' = [types |-> entry'.types, base |-> entry'.base, overloads |-> entry'.overloads]
      /\ Placed(contract', seen', entry') /\ seen' # {}
  BY <1>2, <1>4, <1>5
<1>7. TranslatesToOwn' /\ HttpMethodFits'
  BY <1>2 DEF TranslatesToOwn, HttpMethodFits
<1>8. /\ of' \in {"method", "event"} /\ seen' \subseteq Types
      /\ Contracts(of', contract') /\ (made' = "merging" => reverse' = NoEntry /\ flag' = {})
  BY <1>1, <1>2 DEF MInv
<1>9. QED BY <1>6, <1>7, <1>8 DEF MInv


\* Served, of any specifications.
ServedBy(r, o, t) ==
  IF r = NoEntry THEN o.base
  ELSE LET i == Overload(r, t) IN IF i = 0 THEN <<>> ELSE Over(r.overloads[i].own, o.base)

\* The overload that leads from the merged specification back to that of o's networks.
Back(m, e, o) == NewOverload(ToTranslate(m.base, e.base, o), Over(o.own, e.base), o.types)
BackToBase(m, e) == NewOverload(Compare(m.base, e.base), e.base, e.types)

LEMMA BackIs ==
  ASSUME NEW e, NEW X, e.overloads \in Seq(X),
         NEW m, m = [types |-> m.types, base |-> m.base, overloads |-> m.overloads]
  PROVE  /\ TranslatesBack(m, e) # NoEntry
         /\ Len(TranslatesBack(m, e).overloads) = Len(e.overloads) + 1
         /\ TranslatesBack(m, e).overloads[1] = BackToBase(m, e)
         /\ \A i \in 1..Len(e.overloads) :
              TranslatesBack(m, e).overloads[i + 1] = Back(m, e, e.overloads[i])
<1> DEFINE n == Len(e.overloads)
           head == BackToBase(m, e)
           tail == [i \in 1..n |-> Back(m, e, e.overloads[i])]
           list == <<head>> \o tail
           r == TranslatesBack(m, e)
<1>1. DOMAIN e.overloads = 1..n /\ n \in Nat
  OBVIOUS
<1>2. r = [m EXCEPT !.overloads = list]
  BY <1>1 DEF TranslatesBack, Back, BackToBase
<1>3. tail \in Seq({tail[i] : i \in 1..n}) /\ Len(tail) = n
  BY <1>1
<1> HIDE DEF head
<1>4. /\ Len(list) = n + 1 /\ list[1] = head /\ list # <<>>
      /\ \A i \in 1..n : list[i + 1] = Back(m, e, e.overloads[i])
  <2> DEFINE Y == {head} \cup {tail[i] : i \in 1..n}
  <2>1. \A i \in 1..n : tail[i] = Back(m, e, e.overloads[i])
    OBVIOUS
  <2>2. <<head>> \in Seq(Y) /\ tail \in Seq(Y)
    BY <1>1
  <2> HIDE DEF tail, Y
  <2>3. Len(list) = n + 1 /\ list[1] = head /\ list \in Seq(Y)
    BY <1>1, <1>3, <2>2
  <2>4. \A i \in 1..n : list[i + 1] = tail[i]
    BY <1>1, <1>3, <2>2
  <2>5. list # <<>>
    BY <1>1, <2>3
  <2>6. QED BY <2>1, <2>3, <2>4, <2>5
<1> HIDE DEF list, tail, r
<1>5. r.overloads = list
  BY <1>2
<1>6. r # NoEntry
  BY <1>4, <1>5 DEF NoEntry
<1>7. QED BY <1>4, <1>5, <1>6 DEF r, head

\* What the translation gives a network, whatever was merged, is its own specification.
LEMMA BackToOwn ==
  ASSUME NEW C, NEW S \in SUBSET Types, Contracts(of, C), of \in {"method", "event"},
         NEW e, Placed(C, S, e),
         NEW m, m = [types |-> m.types, base |-> m.base, overloads |-> m.overloads],
         DOMAIN m.base = PartsOf(of), NEW t \in S, NEW p \in Translated
  PROVE  LET served == ServedBy(TranslatesBack(m, e), m, t) IN
         (p \in DOMAIN served /\ served[p] = C[t][p]) \/ Hidden(C, S, e.base, t)
<1> DEFINE r == TranslatesBack(m, e)
           n == Len(e.overloads)
           i == Overload(r, t)
           served == Over(r.overloads[i].own, m.base)
<1>1. n \in Nat /\ e.overloads \in Seq(OverloadsOf(C, S, e.base))
  BY PlacedLength
<1>2. /\ r # NoEntry /\ Len(r.overloads) = n + 1 /\ r.overloads[1] = BackToBase(m, e)
      /\ \A j \in 1..n : r.overloads[j + 1] = Back(m, e, e.overloads[j])
  BY <1>1, BackIs
<1> HIDE DEF r
<1>3. t \in e.types \/ \E j \in 1..n : t \in e.overloads[j].types
  BY DEF Placed
<1>4. i \in 1..(n + 1) /\ t \in r.overloads[i].types
  <2>1. \E j \in 1..Len(r.overloads) : t \in r.overloads[j].types
    <3>1. CASE t \in e.types
      <4>1. 1 \in 1..Len(r.overloads) /\ t \in r.overloads[1].types
        BY <1>1, <1>2, <3>1 DEF BackToBase, NewOverload
      <4>2. QED BY <4>1
    <3>2. CASE \E j \in 1..n : t \in e.overloads[j].types
      <4>1. PICK j \in 1..n : t \in e.overloads[j].types
        BY <3>2
      <4>2. r.overloads[j + 1].types = e.overloads[j].types
        <5>1. r.overloads[j + 1] = Back(m, e, e.overloads[j])
          BY <1>2
        <5>2. QED BY <5>1 DEF Back, NewOverload
      <4>3. j + 1 \in 1..Len(r.overloads)
        BY <1>1, <1>2
      <4>4. QED BY <4>1, <4>2, <4>3
    <3>3. QED BY <1>3, <3>1, <3>2
  <2>2. Len(r.overloads) \in Nat
    BY <1>1, <1>2
  <2>3. QED BY <1>2, <2>1, <2>2, OverloadIs
<1>5. ServedBy(r, m, t) = served
  <2>1. i # 0
    BY <1>1, <1>4
  <2>2. QED BY <1>2, <2>1 DEF ServedBy
<1>6. p \in PartsOf(of) /\ DOMAIN e.base = PartsOf(of)
  <2>1. PICK b \in S : e.base = C[b]
    BY DEF Placed
  <2>2. C[b] = [q \in PartsOf(of) |-> C[b][q]]
    BY DEF Contracts
  <2>3. DOMAIN e.base = PartsOf(of)
    BY <2>1, <2>2
  <2>4. QED BY <2>3 DEF Translated, PartsOf
<1> HIDE DEF i
<1> SUFFICES ASSUME ~ Hidden(C, S, e.base, t)
             PROVE  p \in DOMAIN served /\ served[p] = C[t][p]
  BY <1>5 DEF r
<1>7. p \in DOMAIN served
  <2>1. DOMAIN served = DOMAIN r.overloads[i].own \cup DOMAIN m.base
    BY DEF Over
  <2>2. QED BY <1>6, <2>1
<1>8. CASE i = 1
  <2>1. t \in e.types /\ r.overloads[i].own = [q \in Compare(m.base, e.base) |-> e.base[q]]
    BY <1>2, <1>4, <1>8 DEF BackToBase, NewOverload
  <2>2. C[t] = e.base
    BY <2>1 DEF Placed
  <2>3. served[p] = e.base[p]
    <3>1. CASE p \in Compare(m.base, e.base)
      BY <2>1, <3>1 DEF Over
    <3>2. CASE p \notin Compare(m.base, e.base)
      <4>1. m.base[p] = e.base[p]
        BY <1>6, <3>2 DEF Compare
      <4>2. served[p] = m.base[p]
        BY <1>6, <2>1, <3>2 DEF Over
      <4>3. QED BY <4>1, <4>2
    <3>3. QED BY <3>1, <3>2
  <2>4. QED BY <1>7, <2>2, <2>3
<1>9. CASE i # 1
  <2>1. PICK j \in 1..n : i = j + 1
    <3>1. i - 1 \in 1..n /\ i = (i - 1) + 1
      BY <1>1, <1>4, <1>9
    <3>2. QED BY <3>1
  <2> DEFINE o == e.overloads[j]
             d == ToTranslate(m.base, e.base, o)
             own == Over(o.own, e.base)
  <2>2. r.overloads[i] = Back(m, e, o)
    BY <1>2, <2>1
  <2>3. t \in o.types /\ r.overloads[i].own = [q \in d |-> own[q]]
    BY <1>4, <2>2 DEF Back, NewOverload
  <2>4. own = C[t]
    BY <2>3, OwnOrHidden
  <2> HIDE DEF own
  <2>5. served[p] = own[p]
    <3>1. CASE p \in d
      BY <2>3, <3>1 DEF Over
    <3>2. CASE p \notin d
      <4>1. served[p] = m.base[p]
        BY <1>6, <2>3, <3>2 DEF Over
      <4>2. IF p \in DOMAIN o.own THEN m.base[p] = o.own[p] ELSE m.base[p] = e.base[p]
        BY <3>2 DEF ToTranslate
      <4>3. own[p] = IF p \in DOMAIN o.own THEN o.own[p] ELSE e.base[p]
        BY <1>6 DEF own, Over
      <4>4. QED BY <4>1, <4>2, <4>3
    <3>3. QED BY <3>1, <3>2
  <2>6. QED BY <1>7, <2>4, <2>5
<1>10. QED BY <1>8, <1>9


-----------------------------------------------------------------------------
(* The merged service.                                                     *)

LEMMA ShadowedIs ==
  ASSUME UNCHANGED <<contract, seen, entry>>, NEW t
  PROVE  (Shadowed(t)' <=> Shadowed(t)) /\ (Shadowed(t) <=> Hidden(contract, seen, entry.base, t))
BY DEF Shadowed, Hidden, Compare

LEMMA ServedIs == ASSUME NEW t PROVE Served(t)' = ServedBy(reverse', offered', t)
BY DEF Served, ServedBy, Overload, FirstOf, SelectInSeq, Min, Over

\* A name that no merge handler knows, and no network has overloaded.
LEMMA NotHandledKeeps == MInv /\ NotHandled => MInv'
<1> SUFFICES ASSUME MInv, NotHandled PROVE MInv'
  OBVIOUS
<1>1. /\ made = "merging" /\ seen # {} /\ offered' = entry
      /\ UNCHANGED <<of, contract, seen, entry, reverse, flag>>
      /\ made' = IF entry.overloads = <<>> THEN "made" ELSE "error"
  BY DEF NotHandled, Copies, Merging
<1>2. /\ Placed(contract, seen, entry) /\ reverse = NoEntry /\ Contracts(of, contract)
      /\ of \in {"method", "event"} /\ seen \in SUBSET Types
  BY <1>1 DEF MInv
<1>3. ASSUME made' = "made", NEW t \in seen
      PROVE  /\ contract[t] = entry.base /\ contract[t] = [p \in PartsOf(of) |-> contract[t][p]]
             /\ Served(t)' = entry.base
  <2>1. entry.overloads = <<>>
    BY <1>1, <1>3
  <2>2. t \in entry.types
    BY <1>2, <2>1 DEF Placed
  <2>3. contract[t] = entry.base
    BY <1>2, <2>2 DEF Placed
  <2>4. contract[t] = [p \in PartsOf(of) |-> contract[t][p]]
    BY <1>2 DEF Contracts
  <2>5. ServedBy(reverse', offered', t) = entry.base
    BY <1>1, <1>2 DEF ServedBy
  <2>6. Served(t)' = entry.base
    BY <2>5, ServedIs
  <2>7. QED BY <2>3, <2>4, <2>6
<1>4. TranslatesToOwn'
  <2> SUFFICES ASSUME made' = "made", NEW t \in seen, NEW p \in Translated
               PROVE  p \in DOMAIN (Served(t)') /\ (Served(t)')[p] = contract[t][p]
    BY <1>1 DEF TranslatesToOwn, Translated
  <2>1. p \in PartsOf(of)
    BY <1>2 DEF Translated, PartsOf
  <2>2. DOMAIN contract[t] = PartsOf(of) /\ Served(t)' = contract[t]
    BY <1>3
  <2>3. QED BY <2>1, <2>2
<1>5. HttpMethodFits'
  <2> SUFFICES ASSUME made' = "made", NEW t \in seen
               PROVE  offered'.base["readonly"] = contract[t]["readonly"]
    BY <1>1 DEF HttpMethodFits
  <2>1. QED BY <1>1, <1>3
<1>6. made' # "merging"
  BY <1>1
<1>7. QED BY <1>1, <1>2, <1>4, <1>5, <1>6 DEF MInv

\* A name that was given to a merge handler.
LEMMA HandledKeeps == MInv /\ Handled => MInv'
<1> SUFFICES ASSUME MInv, Handled PROVE MInv'
  OBVIOUS
<1>1. /\ made = "merging" /\ seen # {}
      /\ UNCHANGED <<of, contract, seen, entry>>
  BY DEF Handled, Copies, Merging
<1>2. /\ Placed(contract, seen, entry) /\ Contracts(of, contract)
      /\ of \in {"method", "event"} /\ seen \in SUBSET Types
  BY <1>1 DEF MInv
<1>3. PICK s \in Types :
        \E f \in Flags :
          IF ~ Compatible(entry, f) THEN made' = "error" /\ UNCHANGED <<offered, reverse, flag>>
          ELSE /\ made' = "made" /\ flag' = f
               /\ offered' = MergeOverloads(entry, contract[s], f)
               /\ reverse' = TranslatesBack(offered', entry)
  BY DEF Handled
<1>4. PICK f \in Flags :
        IF ~ Compatible(entry, f) THEN made' = "error" /\ UNCHANGED <<offered, reverse, flag>>
        ELSE /\ made' = "made" /\ flag' = f
             /\ offered' = MergeOverloads(entry, contract[s], f)
             /\ reverse' = TranslatesBack(offered', entry)
  BY <1>3
<1>5. made' # "merging"
  BY <1>4
<1>6. CASE made' = "error"
  <2>1. TranslatesToOwn' /\ HttpMethodFits'
    BY <1>6 DEF TranslatesToOwn, HttpMethodFits
  <2>2. QED BY <1>1, <1>5, <2>1 DEF MInv
<1>7. CASE made' # "error"
  <2>1. /\ Compatible(entry, f) /\ flag' = f
        /\ offered' = MergeOverloads(entry, contract[s], f)
        /\ reverse' = TranslatesBack(offered', entry)
    BY <1>4, <1>7
  <2> DEFINE m == MergeOverloads(entry, contract[s], f)
  <2>2. /\ m = [types |-> m.types, base |-> m.base, overloads |-> m.overloads]
        /\ m.base = [p \in DOMAIN entry.base |-> IF f = {} \/ p \in f THEN contract[s][p]
                                                 ELSE entry.base[p]]
    BY DEF MergeOverloads
  <2> HIDE DEF m
  <2>3. PICK b \in seen : entry.base = contract[b]
    BY <1>2 DEF Placed
  <2>4. DOMAIN entry.base = PartsOf(of)
    <3>1. contract[b] = [p \in PartsOf(of) |-> contract[b][p]]
      BY <1>2 DEF Contracts
    <3>2. QED BY <2>3, <3>1
  <2>5. offered' = m /\ reverse' = TranslatesBack(m, entry)
    BY <2>1 DEF m
  <2>6. TranslatesToOwn'
    <3> SUFFICES ASSUME NEW t \in seen, NEW p \in Translated
                 PROVE  \/ p \in DOMAIN (Served(t)') /\ (Served(t)')[p] = contract[t][p]
                        \/ Shadowed(t)'
      BY <1>1 DEF TranslatesToOwn, Translated
    <3> DEFINE served == ServedBy(TranslatesBack(m, entry), m, t)
    <3>1. DOMAIN m.base = PartsOf(of)
      BY <2>2, <2>4
    <3>2. \/ p \in DOMAIN served /\ served[p] = contract[t][p]
          \/ Hidden(contract, seen, entry.base, t)
      BY <1>2, <2>2, <3>1, BackToOwn
    <3> HIDE DEF served
    <3>3. Served(t)' = served
      <4>1. Served(t)' = ServedBy(reverse', offered', t)
        BY ServedIs
      <4>2. QED BY <2>5, <4>1 DEF served
    <3>4. Hidden(contract, seen, entry.base, t) => Shadowed(t)'
      BY <1>1, ShadowedIs
    <3>5. QED BY <3>2, <3>3, <3>4
  <2>7. HttpMethodFits'
    <3> SUFFICES ASSUME of = "method", f # {} \/ reverse' = NoEntry, "readonly" \notin f,
                        NEW t \in seen
                 PROVE  offered'.base["readonly"] = contract[t]["readonly"] \/ Shadowed(t)'
      BY <1>1, <2>1 DEF HttpMethodFits
    <3>1. entry.overloads \in Seq(OverloadsOf(contract, seen, entry.base))
      BY <1>2, PlacedLength
    <3>2. f # {}
      <4>1. TranslatesBack(m, entry) # NoEntry
        BY <2>2, <3>1, BackIs
      <4>2. QED BY <2>5, <4>1
    <3>3. offered'.base["readonly"] = entry.base["readonly"]
      <4>1. "readonly" \in DOMAIN entry.base
        BY <2>4 DEF PartsOf
      <4>2. QED BY <2>2, <2>5, <3>2, <4>1
    <3>4. CASE t \in entry.types
      <4>1. contract[t] = entry.base
        BY <1>2, <3>4 DEF Placed
      <4>2. QED BY <3>3, <4>1
    <3>5. CASE t \notin entry.types
      <4>1. PICK i \in 1..Len(entry.overloads) : t \in entry.overloads[i].types
        BY <1>2, <3>5 DEF Placed
      <4>2. DOMAIN entry.overloads = 1..Len(entry.overloads)
        BY <1>2, PlacedLength
      <4>3. DOMAIN entry.overloads[i].own = f
        BY <2>1, <3>2, <4>2 DEF Compatible
      <4> DEFINE own == Over(entry.overloads[i].own, entry.base)
      <4>4. own = contract[t] \/ Hidden(contract, seen, entry.base, t)
        BY <1>2, <4>1, OwnOrHidden
      <4>5. own["readonly"] = entry.base["readonly"]
        <5>1. "readonly" \in DOMAIN entry.base
          BY <2>4 DEF PartsOf
        <5>2. QED BY <4>3, <5>1 DEF Over
      <4> HIDE DEF own
      <4>6. Hidden(contract, seen, entry.base, t) => Shadowed(t)'
        BY <1>1, ShadowedIs
      <4>7. QED BY <3>3, <4>4, <4>5, <4>6
    <3>6. QED BY <3>4, <3>5
  <2>8. QED BY <1>1, <1>5, <2>6, <2>7 DEF MInv
<1>8. QED BY <1>6, <1>7


\* The invariant is kept.
LEMMA MInvKept == MInv /\ [NextMerge]_specVars => MInv'
<1> SUFFICES ASSUME MInv, [NextMerge]_specVars PROVE MInv'
  OBVIOUS
<1>1. CASE MergeNetwork
  BY <1>1, MergeNetworkKeeps
<1>2. CASE NotHandled
  BY <1>2, NotHandledKeeps
<1>3. CASE Handled
  BY <1>3, HandledKeeps
<1>4. CASE CopyPanics
  <2>1. /\ made' = "panic"
        /\ UNCHANGED <<of, contract, seen, entry, offered, reverse, flag>>
    BY <1>4 DEF CopyPanics
  <2>2. TranslatesToOwn' /\ HttpMethodFits'
    BY <2>1 DEF TranslatesToOwn, HttpMethodFits
  <2>3. QED BY <2>1, <2>2 DEF MInv
<1>5. CASE UNCHANGED specVars
  <2>1. UNCHANGED <<of, contract, seen, entry, offered, reverse, flag, made>>
    BY <1>5 DEF specVars
  <2>2. ASSUME NEW t PROVE Served(t)' = Served(t) /\ (Shadowed(t)' <=> Shadowed(t))
    <3>1. Served(t)' = ServedBy(reverse, offered, t)
      BY <2>1, ServedIs
    <3>2. Served(t) = ServedBy(reverse, offered, t)
      BY DEF Served, ServedBy
    <3>3. QED BY <2>1, <3>1, <3>2, ShadowedIs
  <2>3. TranslatesToOwn' /\ HttpMethodFits'
    BY <2>1, <2>2 DEF MInv, TranslatesToOwn, HttpMethodFits, Translated
  <2>4. QED BY <2>1, <2>3 DEF MInv
<1>6. QED BY <1>1, <1>2, <1>3, <1>4, <1>5 DEF NextMerge

LEMMA MInvHolds == SpecMerging => []MInv
<1>1. InitMerge => MInv
  <2> SUFFICES ASSUME InitMerge PROVE MInv
    OBVIOUS
  <2>1. of \in {"method", "event"}
    BY MergeAssumption DEF InitMerge
  <2>2. Contracts(of, contract)
    BY <2>1, ContractsAre DEF InitMerge
  <2>3. TranslatesToOwn /\ HttpMethodFits
    BY DEF InitMerge, TranslatesToOwn, HttpMethodFits
  <2>4. entry = [types |-> entry.types, base |-> entry.base, overloads |-> entry.overloads]
    BY DEF InitMerge, NoEntry
  <2>5. QED BY <2>1, <2>2, <2>3, <2>4 DEF InitMerge, MInv
<1>2. QED BY <1>1, MInvKept, PTL DEF SpecMerging

-----------------------------------------------------------------------------
(* The theorems.                                                           *)

\* However many networks are merged, in whatever order a Go map gives them and however
\* often one type occurs (NewMultiContractService), each finds the specification of its
\* own contract, unless an overload made for another network agrees with it in fewer
\* parts than it differs in.
THEOREM NetworksFindTheirOwn == SpecMerging => []EachFindsItsOwn
BY MInvHolds, MInvFinds, PTL

\* The overloads a merged service is built with (newMethodSpec, newEventSpec) lead from
\* the signature it offers back to that of each contract, whichever contract the merge
\* handler took it from and whichever parts it replaced.
THEOREM ServiceTranslatesToOwn == SpecMerging => []TranslatesToOwn
<1>1. MInv => TranslatesToOwn
  BY DEF MInv
<1>2. QED BY <1>1, MInvHolds, PTL

\* The HTTP method that the server asks for is the one the contract of every network
\* asks for, when only overloads of other parts were merged.
THEOREM ReadonlyFits == SpecMerging => []HttpMethodFits
<1>1. MInv => HttpMethodFits
  BY DEF MInv
<1>2. QED BY <1>1, MInvHolds, PTL
=============================================================================
