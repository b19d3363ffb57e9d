--------------------------- MODULE EventMatch_proofs ---------------------------
(***************************************************************************)
(* Which events reach the callback: for any inputs of an event, any number *)
(* of filters and whatever a contract emits.                               *)
(***************************************************************************)
EXTENDS EventMatch, WellFoundedInduction, FiniteSetTheorems, TLAPS

Filters == [address : Emitters, signature : Signatures,
            params : [Inputs -> ParamChoices \cup {Unset}]]

Passing == {i \in DOMAIN asked : Passes(asked[i])}

\* What the callback is given.
Answer == [k \in 1..Cardinality(Passing) |-> [filter |-> Kth(Passing, k), params |-> NewEvent]]

MatchInv ==
  /\ chain \in {"eth", "icon"}
  /\ shape \in Seq([dynamic : BOOLEAN, indexed : BOOLEAN])
  /\ asked \in Seq(Filters)
  /\ stage \in {"asking", "emitted", "unsent", "told"}
  /\ stage = "unsent" => ~ Sends
  /\ told = IF stage = "told" THEN Answer ELSE <<>>

-----------------------------------------------------------------------------
(* The positions in a set of them.                                         *)

Less == OpToRel(<, Nat)

LEMMA LeastExists ==
  ASSUME NEW S, S \subseteq Nat, S # {}
  PROVE  \E x \in S : \A y \in S : x <= y
<1>1. IsWellFoundedOn(Less, Nat)
  BY NatLessThanWellFounded DEF Less
<1>2. PICK x \in S : \A y \in S : <<y, x>> \notin Less
  BY <1>1, WFMin, Zenon
<1>3. \A y \in S : y < x => <<y, x>> \in Less
  BY DEF Less, OpToRel
<1>4. ASSUME NEW y \in S PROVE x <= y
  <2>1. x \in Nat /\ y \in Nat /\ ~ (y < x)
    BY <1>2, <1>3
  <2>2. QED BY <2>1
<1>5. QED BY <1>4

UpTo(S, i) == {j \in S : j <= i}

\* How many of them there are grows by one at a time.
LEMMA CountSteps ==
  ASSUME NEW n \in Nat, NEW S \in SUBSET (1..n), NEW i \in Nat \ {0}
  PROVE  /\ Cardinality(UpTo(S, i)) \in Nat /\ Cardinality(UpTo(S, i - 1)) \in Nat
         /\ i \in S => Cardinality(UpTo(S, i)) = Cardinality(UpTo(S, i - 1)) + 1
         /\ i \notin S => Cardinality(UpTo(S, i)) = Cardinality(UpTo(S, i - 1))
<1>0. \A j \in S : j \in Nat
  OBVIOUS
<1>1. IsFiniteSet(1..n)
  BY FS_Interval
<1>2. UpTo(S, i - 1) \in SUBSET (1..n) /\ UpTo(S, i) \in SUBSET (1..n)
  BY DEF UpTo
<1>3. IsFiniteSet(UpTo(S, i - 1)) /\ IsFiniteSet(UpTo(S, i))
  BY <1>1, <1>2, FS_Subset
<1>4. i \in S => UpTo(S, i) = UpTo(S, i - 1) \cup {i}
  <2>1. \A j \in Nat : j <= i <=> j <= i - 1 \/ j = i
    OBVIOUS
  <2>2. QED BY <1>0, <2>1 DEF UpTo
<1>5. i \notin S => UpTo(S, i) = UpTo(S, i - 1)
  <2>1. \A j \in Nat : j # i => (j <= i <=> j <= i - 1)
    OBVIOUS
  <2>2. QED BY <1>0, <2>1 DEF UpTo
<1>6. i \notin UpTo(S, i - 1)
  BY DEF UpTo
<1>7. QED BY <1>3, <1>4, <1>5, <1>6, FS_CardinalityType, FS_AddElement

\* So there is a k-th.
LEMMA KthIs ==
  ASSUME NEW n \in Nat, NEW S \in SUBSET (1..n), NEW k \in 1..Cardinality(S)
  PROVE  Kth(S, k) \in S /\ Cardinality(UpTo(S, Kth(S, k))) = k
<1> DEFINE T == {i \in Nat : k <= Cardinality(UpTo(S, i))}
<1>0. /\ \A j \in S : j \in Nat /\ 1 <= j /\ j <= n
      /\ Cardinality(S) \in Nat /\ k \in Nat \ {0} /\ k <= Cardinality(S)
  <2>1. IsFiniteSet(1..n)
    BY FS_Interval
  <2>2. IsFiniteSet(S)
    BY <2>1, FS_Subset
  <2>3. Cardinality(S) \in Nat
    BY <2>2, FS_CardinalityType
  <2>4. QED BY <2>3
<1>1. n \in T
  <2>1. UpTo(S, n) = S
    BY <1>0 DEF UpTo
  <2>2. QED BY <1>0, <2>1
<1>2. PICK i \in T : \A j \in T : i <= j
  BY <1>1, LeastExists
<1>3. i \in Nat /\ k <= Cardinality(UpTo(S, i))
  OBVIOUS
<1>4. i # 0
  <2>1. ASSUME NEW j \in UpTo(S, 0) PROVE FALSE
    <3>1. j \in S /\ j <= 0
      BY DEF UpTo
    <3>2. j \in Nat /\ 1 <= j
      BY <1>0, <3>1
    <3>3. QED BY <3>1, <3>2
  <2>2. UpTo(S, 0) = {}
    BY <2>1
  <2>3. QED BY <1>0, <1>3, <2>2, FS_EmptySet
<1>5. ~ (k <= Cardinality(UpTo(S, i - 1)))
  <2>1. i - 1 \in Nat /\ ~ (i <= i - 1)
    BY <1>3, <1>4
  <2>2. QED BY <1>2, <2>1
<1>6. i \in S /\ Cardinality(UpTo(S, i)) = k
  <2>1. i \in Nat \ {0}
    BY <1>3, <1>4
  <2>2. /\ Cardinality(UpTo(S, i)) \in Nat /\ Cardinality(UpTo(S, i - 1)) \in Nat
        /\ i \in S => Cardinality(UpTo(S, i)) = Cardinality(UpTo(S, i - 1)) + 1
        /\ i \notin S => Cardinality(UpTo(S, i)) = Cardinality(UpTo(S, i - 1))
    BY <2>1, CountSteps
  <2>3. QED BY <1>0, <1>3, <1>5, <2>2
<1>7. \E j \in S : Cardinality({l \in S : l <= j}) = k
  BY <1>6 DEF UpTo
<1>8. QED BY <1>7 DEF Kth, UpTo

\* Positions of a set have different numbers of them up to there.
LEMMA UpToTells ==
  ASSUME NEW n \in Nat, NEW S \in SUBSET (1..n), NEW i \in S, NEW j \in S,
         Cardinality(UpTo(S, i)) = Cardinality(UpTo(S, j))
  PROVE  i = j
<1>0. S \subseteq Nat /\ i \in Nat /\ j \in Nat
  OBVIOUS
<1>1. IsFiniteSet(UpTo(S, i)) /\ IsFiniteSet(UpTo(S, j))
  <2>1. IsFiniteSet(1..n)
    BY FS_Interval
  <2>2. UpTo(S, i) \in SUBSET (1..n) /\ UpTo(S, j) \in SUBSET (1..n)
    BY DEF UpTo
  <2>3. QED BY <2>1, <2>2, FS_Subset
<1>2. CASE i <= j
  <2>1. UpTo(S, i) \in SUBSET UpTo(S, j)
    <3>1. \A l \in Nat : l <= i => l <= j
      BY <1>0, <1>2
    <3>2. QED BY <1>0, <3>1 DEF UpTo
  <2>2. UpTo(S, i) = UpTo(S, j)
    BY <1>1, <2>1, FS_Subset
  <2>3. j \in UpTo(S, i)
    BY <1>0, <2>2 DEF UpTo
  <2>4. QED BY <1>0, <1>2, <2>3 DEF UpTo
<1>3. CASE j <= i
  <2>1. UpTo(S, j) \in SUBSET UpTo(S, i)
    <3>1. \A l \in Nat : l <= j => l <= i
      BY <1>0, <1>3
    <3>2. QED BY <1>0, <3>1 DEF UpTo
  <2>2. UpTo(S, i) = UpTo(S, j)
    BY <1>1, <2>1, FS_Subset
  <2>3. i \in UpTo(S, j)
    BY <1>0, <2>2 DEF UpTo
  <2>4. QED BY <1>0, <1>3, <2>3 DEF UpTo
<1>4. QED BY <1>0, <1>2, <1>3

\* When they are the first ones, the k-th is k.
LEMMA KthOfFirst ==
  ASSUME NEW n \in Nat, NEW k \in 1..n
  PROVE  Kth(1..n, k) = k
<1>1. Cardinality(1..n) = n /\ 1..n \in SUBSET (1..n)
  BY FS_Interval
<1>2. Kth(1..n, k) \in 1..n /\ Cardinality(UpTo(1..n, Kth(1..n, k))) = k
  BY <1>1, KthIs
<1>3. \A i \in 1..n : UpTo(1..n, i) = 1..i
  BY DEF UpTo
<1>4. \A i \in 1..n : Cardinality(1..i) = i
  BY FS_Interval
<1>5. QED BY <1>2, <1>3, <1>4

\* Positions that leave none out below are the first ones.
LEMMA FirstOnes ==
  ASSUME NEW n \in Nat, NEW S \in SUBSET (1..n),
         \A j \in S : \A i \in 1..n : i < j => i \in S
  PROVE  S = 1..Cardinality(S) /\ Cardinality(S) \in 0..n
<1> DEFINE T == {i \in Nat : i + 1 \notin S}
<1>1. n \in T
  OBVIOUS
<1>2. PICK m \in T : \A j \in T : m <= j
  BY <1>1, LeastExists
<1>3. m \in Nat /\ m + 1 \notin S /\ m <= n
  BY <1>1, <1>2
<1>4. \A i \in 1..m : i \in S
  <2>1. ASSUME NEW i \in 1..m PROVE i \in S
    <3>1. i - 1 \in Nat /\ ~ (m <= i - 1) /\ (i - 1) + 1 = i
      BY <1>3
    <3>2. QED BY <1>2, <3>1
  <2>2. QED BY <2>1
<1>5. \A j \in S : j <= m
  BY <1>3
<1>6. S = 1..m
  <2>1. \A j \in S : j \in 1..m
    BY <1>3, <1>5
  <2>2. QED BY <1>4, <2>1
<1>7. Cardinality(S) = m
  BY <1>3, <1>6, FS_Interval
<1>8. QED BY <1>3, <1>6, <1>7

-----------------------------------------------------------------------------
(* The invariant.                                                          *)

LEMMA MatchInit == InitMatch => MatchInv
<1> SUFFICES ASSUME InitMatch PROVE MatchInv
  OBVIOUS
<1>1. chain \in {"eth", "icon"} /\ shape \in Seq([dynamic : BOOLEAN, indexed : BOOLEAN])
  BY MatchAssumption DEF InitMatch
<1>2. asked = <<>> /\ told = <<>> /\ stage = "asking"
  BY DEF InitMatch
<1>3. asked \in Seq(Filters)
  BY <1>2
<1>4. QED BY <1>1, <1>2, <1>3 DEF MatchInv

\* After the log was emitted nothing that decides about it changes.
LEMMA Settled ==
  ASSUME UNCHANGED <<chain, shape, asked, log>>
  PROVE  /\ Sends' = Sends /\ Passing' = Passing /\ NewEvent' = NewEvent
         /\ Filters' = Filters
<1>1. Inputs' = Inputs /\ Indexed' = Indexed /\ NumberIndexed' = NumberIndexed
  BY DEF Inputs, Indexed, NumberIndexed
<1>2. Topics' = Topics
  BY <1>1 DEF Topics, Topic
<1>3. AskedAddresses' = AskedAddresses /\ \A a : AskedOf(a)' = AskedOf(a)
  BY DEF AskedAddresses, AskedOf
<1>4. EthSends' = EthSends
  BY <1>2, <1>3 DEF EthSends
<1>5. IconSends' = IconSends
  BY <1>3 DEF IconSends
<1>6. Sends' = Sends
  BY <1>4, <1>5 DEF Sends
<1>7. \A i : LooksLikeTopic(i)' = LooksLikeTopic(i)
  BY <1>1 DEF LooksLikeTopic
<1>8. IconParams' = IconParams /\ EthParams' = EthParams
  BY <1>1, <1>2, <1>7 DEF IconParams, EthParams
<1>9. NewEvent' = NewEvent
  BY <1>8 DEF NewEvent
<1>10. Decodes' = Decodes
  BY <1>1, <1>7 DEF Decodes
<1>11. \A i, v, q : Agrees(i, v, q)' = Agrees(i, v, q)
  BY <1>7 DEF Agrees
<1>12. \A f : Passes(f)' = Passes(f)
  BY <1>1, <1>9, <1>10, <1>11 DEF Passes
<1>13. Passing' = Passing
  BY <1>12 DEF Passing
<1>14. Filters' = Filters
  BY <1>1 DEF Filters, ParamChoices
<1>15. QED BY <1>6, <1>9, <1>13, <1>14

LEMMA MatchStep == MatchInv /\ [NextMatch]_matchVars => MatchInv'
<1> SUFFICES ASSUME MatchInv, [NextMatch]_matchVars PROVE MatchInv'
  OBVIOUS
<1>0. /\ chain \in {"eth", "icon"} /\ shape \in Seq([dynamic : BOOLEAN, indexed : BOOLEAN])
      /\ asked \in Seq(Filters)
  BY DEF MatchInv
<1>1. CASE AddFilter
  <2>1. PICK address \in Emitters, signature \in Signatures,
             params \in [Inputs -> ParamChoices \cup {Unset}] :
          asked' = Append(asked, [address |-> address, signature |-> signature,
                                  params |-> params])
    BY <1>1 DEF AddFilter
  <2>2. stage = "asking" /\ stage' = stage /\ told' = told /\ UNCHANGED <<chain, shape>>
    BY <1>1 DEF AddFilter
  <2>3. Filters' = Filters
    BY <2>2 DEF Filters, ParamChoices, Inputs
  <2>4. [address |-> address, signature |-> signature, params |-> params] \in Filters
    BY DEF Filters
  <2>5. asked' \in Seq(Filters)
    BY <1>0, <2>1, <2>4
  <2>6. QED BY <1>0, <2>2, <2>3, <2>5 DEF MatchInv
<1>2. CASE Emit
  <2>1. stage = "asking" /\ stage' = "emitted" /\ UNCHANGED <<chain, shape, asked, told>>
    BY <1>2 DEF Emit
  <2>2. Filters' = Filters
    BY <2>1 DEF Filters, ParamChoices, Inputs
  <2>3. QED BY <1>0, <2>1, <2>2 DEF MatchInv
<1>3. CASE OnBaseEvent
  <2>1. stage' = "told" /\ told' = Answer /\ UNCHANGED <<chain, shape, asked, log>>
    BY <1>3 DEF OnBaseEvent, Answer, Passing
  <2>2. Answer' = Answer /\ Filters' = Filters
    BY <2>1, Settled DEF Answer
  <2>3. QED BY <1>0, <2>1, <2>2 DEF MatchInv
<1>4. CASE Unsent
  <2>1. /\ stage = "emitted" /\ ~ Sends /\ stage' = "unsent"
        /\ UNCHANGED <<chain, shape, asked, log, told>>
    BY <1>4 DEF Unsent
  <2>2. Sends' = Sends /\ Filters' = Filters
    BY <2>1, Settled
  <2>3. QED BY <1>0, <2>1, <2>2 DEF MatchInv
<1>5. CASE UNCHANGED matchVars
  <2>1. UNCHANGED <<chain, shape, asked, log, told, stage>>
    BY <1>5 DEF matchVars
  <2>2. Sends' = Sends /\ Filters' = Filters /\ Answer' = Answer
    BY <2>1, Settled DEF Answer
  <2>3. QED BY <1>0, <2>1, <2>2 DEF MatchInv
<1>6. QED BY <1>1, <1>2, <1>3, <1>4, <1>5 DEF NextMatch

-----------------------------------------------------------------------------
(* What a filter makes of the log.                                         *)

LEMMA Shape ==
  ASSUME MatchInv
  PROVE  /\ Len(shape) \in Nat /\ Inputs = 1..Len(shape) /\ Indexed \in SUBSET (1..Len(shape))
         /\ IsFiniteSet(Indexed) /\ NumberIndexed \in Nat
         /\ \A i \in Inputs : shape[i].dynamic \in BOOLEAN /\ shape[i].indexed \in BOOLEAN
<1>1. Len(shape) \in Nat /\ Inputs = 1..Len(shape)
      /\ \A i \in Inputs : shape[i].dynamic \in BOOLEAN /\ shape[i].indexed \in BOOLEAN
  <2>1. shape \in Seq([dynamic : BOOLEAN, indexed : BOOLEAN])
    BY DEF MatchInv
  <2>2. Len(shape) \in Nat /\ Inputs = 1..Len(shape)
    BY <2>1 DEF Inputs
  <2>3. \A i \in 1..Len(shape) : shape[i] \in [dynamic : BOOLEAN, indexed : BOOLEAN]
    <3> DEFINE T == [dynamic : BOOLEAN, indexed : BOOLEAN]
    <3>1. shape \in Seq(T)
      BY <2>1
    <3> HIDE DEF T
    <3>2. \A i \in 1..Len(shape) : shape[i] \in T
      BY <3>1
    <3>3. QED BY <3>2 DEF T
  <2>4. QED BY <2>2, <2>3
<1>2. Indexed \in SUBSET (1..Len(shape))
  BY <1>1 DEF Indexed
<1>3. IsFiniteSet(1..Len(shape))
  BY <1>1, FS_Interval
<1>4. IsFiniteSet(Indexed)
  BY <1>2, <1>3, FS_Subset
<1>5. NumberIndexed \in Nat
  BY <1>4, FS_CardinalityType DEF NumberIndexed
<1>6. QED BY <1>1, <1>2, <1>4, <1>5

\* With indexed inputs first, the topic at which NewEvent looks for an input is its own.
LEMMA OwnTopics ==
  ASSUME MatchInv, IndexedFirst
  PROVE  /\ \A i \in Inputs : shape[i].indexed <=> i <= NumberIndexed
         /\ \A i \in Inputs : LooksLikeTopic(i) =>
              shape[i].indexed /\ Topics[i + 1] = Hash(log.values[i])
<1>1. \A j \in Indexed : \A i \in 1..Len(shape) : i < j => i \in Indexed
  BY Shape DEF IndexedFirst, Indexed
<1>2. Indexed = 1..NumberIndexed /\ NumberIndexed \in 0..Len(shape)
  BY <1>1, Shape, FirstOnes DEF NumberIndexed
<1>3. ASSUME NEW i \in Inputs PROVE shape[i].indexed <=> i <= NumberIndexed
  <2>1. shape[i].indexed <=> i \in Indexed
    BY DEF Indexed
  <2>2. i \in Nat \ {0}
    BY Shape
  <2>3. QED BY <1>2, <2>1, <2>2
<1>4. ASSUME NEW i \in Inputs, LooksLikeTopic(i)
      PROVE  shape[i].indexed /\ Topics[i + 1] = Hash(log.values[i])
  <2>1. i \in 1..NumberIndexed /\ shape[i].dynamic
    BY <1>4, Shape DEF LooksLikeTopic
  <2>2. Kth(Indexed, i) = i
    BY <1>2, <2>1, KthOfFirst
  <2> DEFINE rest == [k \in 1..NumberIndexed |->
                        Topic(Kth(Indexed, k), log.values[Kth(Indexed, k)])]
  <2>3. rest[i] = Hash(log.values[i])
    BY <2>1, <2>2 DEF Topic
  <2>4. Topics = <<SignatureTopic(log.signature)>> \o rest
    BY DEF Topics
  <2>5. Len(rest) = NumberIndexed
    BY Shape
  <2> HIDE DEF rest
  <2>6. Topics[i + 1] = rest[i]
    BY <2>1, <2>4, <2>5
  <2>7. QED BY <1>3, <2>1, <2>3, <2>6
<1>5. QED BY <1>3, <1>4

\* What is told of an input, then, and what the answer of a filter means.
LEMMA Comparisons ==
  ASSUME MatchInv, IndexedFirst \/ chain = "icon", NEW i \in Inputs
  PROVE  /\ NewEvent[i] \in {Word(log.values[i]), Hash(log.values[i])}
         /\ \A q : Agrees(i, NewEvent[i], q) => q.n = log.values[i]
         /\ \A q : q.n = log.values[i] /\ q.form = "chain" => Agrees(i, NewEvent[i], q)
<1>1. CASE chain = "eth" /\ LooksLikeTopic(i)
  <2>1. IndexedFirst
    BY <1>1
  <2>2. shape[i].indexed /\ Topics[i + 1] = Hash(log.values[i])
    BY <1>1, <2>1, OwnTopics
  <2>3. NewEvent[i] = Hash(log.values[i])
    BY <1>1, <2>2 DEF NewEvent, EthParams
  <2>4. \A q : Agrees(i, NewEvent[i], q) <=> Hash(log.values[i]) = Hash(q.n)
    BY <1>1, <2>2, <2>3 DEF Agrees
  <2>5. \A m, n : Hash(m) = Hash(n) => m = n
    <3>1. \A m : Hash(m).hash = m
      BY DEF Hash
    <3>2. QED BY <3>1
  <2>6. QED BY <2>3, <2>4, <2>5
<1>2. CASE ~ (chain = "eth" /\ LooksLikeTopic(i))
  <2>1. NewEvent[i] = Word(log.values[i])
    BY <1>2 DEF MatchInv, NewEvent, EthParams, IconParams
  <2>2. \A q : Agrees(i, NewEvent[i], q)
                 <=> Word(log.values[i]) = Word(q.n) /\ q.form = "chain"
    BY <1>2, <2>1 DEF Agrees, EqualsText
  <2>3. \A m, n : Word(m) = Word(n) => m = n
    <3>1. \A m : Word(m).word = m
      BY DEF Word
    <3>2. QED BY <3>1
  <2>4. QED BY <2>1, <2>2, <2>3
<1>3. QED BY <1>1, <1>2

LEMMA PassingIs ==
  ASSUME MatchInv
  PROVE  /\ Len(asked) \in Nat /\ DOMAIN asked = 1..Len(asked)
         /\ Passing \in SUBSET (1..Len(asked))
         /\ Cardinality(Passing) \in Nat
<1>1. Len(asked) \in Nat /\ DOMAIN asked = 1..Len(asked)
  BY DEF MatchInv
<1>2. Passing \in SUBSET (1..Len(asked))
  BY <1>1 DEF Passing
<1>3. IsFiniteSet(1..Len(asked))
  BY <1>1, FS_Interval
<1>4. IsFiniteSet(Passing)
  BY <1>2, <1>3, FS_Subset
<1>5. QED BY <1>1, <1>2, <1>4, FS_CardinalityType

\* Every passing filter is told, and once.
LEMMA ToldOnce ==
  ASSUME MatchInv, stage = "told"
  PROVE  /\ DOMAIN told = 1..Cardinality(Passing)
         /\ \A k \in DOMAIN told : told[k].filter \in Passing /\ told[k].params = NewEvent
         /\ \A k, l \in DOMAIN told : k # l => told[k].filter # told[l].filter
         /\ \A i \in Passing : TellsOf(i)
<1>1. told = Answer
  BY DEF MatchInv
<1>2. /\ DOMAIN told = 1..Cardinality(Passing)
      /\ \A k \in 1..Cardinality(Passing) :
           told[k].filter = Kth(Passing, k) /\ told[k].params = NewEvent
  BY <1>1 DEF Answer
<1>3. \A k \in 1..Cardinality(Passing) :
        Kth(Passing, k) \in Passing /\ Cardinality(UpTo(Passing, Kth(Passing, k))) = k
  BY PassingIs, KthIs
<1>4. \A k, l \in DOMAIN told : k # l => told[k].filter # told[l].filter
  BY <1>2, <1>3
<1>5. ASSUME NEW i \in Passing PROVE TellsOf(i)
  <2> DEFINE k == Cardinality(UpTo(Passing, i))
  <2>1. i \in UpTo(Passing, i) /\ UpTo(Passing, i) \in SUBSET Passing
    BY PassingIs DEF UpTo
  <2>2. IsFiniteSet(Passing)
    <3>1. IsFiniteSet(1..Len(asked))
      BY PassingIs, FS_Interval
    <3>2. QED BY <3>1, PassingIs, FS_Subset
  <2>3. IsFiniteSet(UpTo(Passing, i)) /\ k <= Cardinality(Passing)
    BY <2>1, <2>2, FS_Subset
  <2>4. k \in Nat /\ k # 0
    BY <2>1, <2>3, FS_CardinalityType, FS_EmptySet
  <2>5. k \in 1..Cardinality(Passing)
    BY <2>3, <2>4, PassingIs
  <2>6. Kth(Passing, k) = i
    <3>1. Kth(Passing, k) \in Passing /\ Cardinality(UpTo(Passing, Kth(Passing, k))) = k
      BY <1>3, <2>5
    <3>2. QED BY <2>1, <3>1, UpToTells, PassingIs
  <2>7. QED BY <1>2, <2>5, <2>6 DEF TellsOf
<1>6. QED BY <1>2, <1>3, <1>4, <1>5

-----------------------------------------------------------------------------
(* The theorems.                                                           *)

LEMMA OnlyWanted == MatchInv => OnlyWantedIsTold
<1> SUFFICES ASSUME MatchInv PROVE OnlyWantedIsTold
  OBVIOUS
<1>1. CASE stage # "told"
  <2>1. told = <<>>
    BY <1>1 DEF MatchInv
  <2>2. DOMAIN told = {}
    BY <2>1
  <2>3. QED BY <2>2 DEF OnlyWantedIsTold
<1>2. CASE stage = "told"
  <2>1. ASSUME NEW k \in DOMAIN told
        PROVE  LET f == asked[told[k].filter] IN
                 /\ f.address = log.address /\ f.signature = log.signature
                 /\ IndexedFirst \/ chain = "icon" =>
                      /\ IsFor(f)
                      /\ \A i \in Inputs :
                           told[k].params[i] \in {Word(log.values[i]), Hash(log.values[i])}
    <3> DEFINE f == asked[told[k].filter]
    <3>1. Passes(f) /\ told[k].params = NewEvent
      BY <1>2, ToldOnce DEF Passing
    <3> HIDE DEF f
    <3>2. f.address = log.address /\ f.signature = log.signature
      BY <3>1 DEF Passes
    <3>3. ASSUME IndexedFirst \/ chain = "icon"
          PROVE  /\ IsFor(f)
                 /\ \A i \in Inputs :
                      told[k].params[i] \in {Word(log.values[i]), Hash(log.values[i])}
      <4>1. \A i \in Inputs : f.params[i] # Unset => Agrees(i, NewEvent[i], f.params[i])
        BY <3>1 DEF Passes
      <4>2. \A i \in Inputs : f.params[i] # Unset => f.params[i].n = log.values[i]
        BY <3>3, <4>1, Comparisons
      <4>3. \A i \in Inputs : NewEvent[i] \in {Word(log.values[i]), Hash(log.values[i])}
        BY <3>3, Comparisons
      <4>4. QED BY <3>1, <3>2, <4>2, <4>3 DEF IsFor
    <3>4. QED BY <3>2, <3>3 DEF f
  <2>2. \A k, l \in DOMAIN told : k # l => told[k].filter # told[l].filter
    BY <1>2, ToldOnce
  <2>3. QED BY <2>1, <2>2 DEF OnlyWantedIsTold
<1>3. QED BY <1>1, <1>2

LEMMA AskedAreFinite ==
  ASSUME MatchInv
  PROVE  IsFiniteSet(AskedAddresses)
<1> DEFINE S == 1..Len(asked)
           addresses == [j \in S |-> asked[j].address]
<1>1. IsFiniteSet(S) /\ DOMAIN asked = S
  BY PassingIs, FS_Interval
<1>2. AskedAddresses = {addresses[j] : j \in S}
  BY <1>1 DEF AskedAddresses, ToSet
<1>3. addresses \in Surjection(S, AskedAddresses)
  BY <1>2 DEF Surjection
<1>4. QED BY <1>1, <1>3, FS_Surjection

\* A monitor of one contract asks for its events, by their first topic.
LEMMA OneContractIsSent ==
  ASSUME MatchInv, NEW i \in DOMAIN asked, IsFor(asked[i]),
         chain = "eth" => Cardinality(AskedAddresses) <= 1
  PROVE  Sends
<1>1. asked[i] \in ToSet(asked)
  BY DEF ToSet
<1>2. log.address \in AskedAddresses /\ log.signature \in AskedOf(log.address)
  BY <1>1 DEF IsFor, AskedAddresses, AskedOf
<1>3. CASE chain = "eth"
  <2>1. IsFiniteSet(AskedAddresses)
    BY AskedAreFinite
  <2>2. Cardinality(AskedAddresses) = 1
    <3>1. Cardinality(AskedAddresses) \in Nat
      BY <2>1, FS_CardinalityType
    <3>2. Cardinality(AskedAddresses) # 0
      BY <1>2, <2>1, FS_EmptySet
    <3>3. QED BY <1>3, <3>1, <3>2
  <2>3. AskedAddresses = {log.address}
    BY <1>2, <2>1, <2>2, FS_Singleton
  <2> DEFINE order == [j \in 1..1 |-> log.address]
  <2>4. order \in SetToSeqs(AskedAddresses)
    BY <2>2, <2>3 DEF SetToSeqs
  <2>5. Len(order) = 1 /\ DOMAIN order = {1} /\ order[1] = log.address
    OBVIOUS
  <2> DEFINE rest == [k \in 1..NumberIndexed |->
                        Topic(Kth(Indexed, k), log.values[Kth(Indexed, k)])]
  <2>6. Topics = <<SignatureTopic(log.signature)>> \o rest
    BY DEF Topics
  <2>7. Len(rest) = NumberIndexed /\ NumberIndexed \in Nat
    BY Shape
  <2> HIDE DEF rest
  <2>8. Len(Topics) = 1 + NumberIndexed /\ Topics[1] = SignatureTopic(log.signature)
    BY <2>6, <2>7
  <2> HIDE DEF order
  <2>9. Len(order) <= Len(Topics)
    BY <2>5, <2>7, <2>8
  <2>10. \A j \in DOMAIN order :
           Topics[j] \in {SignatureTopic(s) : s \in AskedOf(order[j])}
    BY <1>2, <2>5, <2>8
  <2>11. EthSends
    BY <1>2, <2>4, <2>9, <2>10 DEF EthSends
  <2>12. QED BY <1>3, <2>11 DEF Sends
<1>4. CASE chain = "icon"
  BY <1>2, <1>4 DEF Sends, IconSends
<1>5. QED BY <1>3, <1>4 DEF MatchInv

LEMMA Wanted == MatchInv => WantedIsTold
<1> SUFFICES ASSUME MatchInv, NEW i \in DOMAIN asked,
                    stage \in {"told", "unsent"}, IsFor(asked[i]), AsTheChain(asked[i]),
                    ~ (chain = "eth" /\ (Cardinality(AskedAddresses) > 1 \/ ~ IndexedFirst))
             PROVE  TellsOf(i)
  BY DEF WantedIsTold
<1>1. IndexedFirst \/ chain = "icon"
  BY DEF MatchInv
<1>2. chain = "eth" => Cardinality(AskedAddresses) <= 1
  <2>1. SUFFICES ASSUME chain = "eth" PROVE Cardinality(AskedAddresses) <= 1
    OBVIOUS
  <2>2. ~ (Cardinality(AskedAddresses) > 1)
    BY <2>1
  <2>3. Cardinality(AskedAddresses) \in Nat
    BY AskedAreFinite, FS_CardinalityType
  <2>4. QED BY <2>2, <2>3
<1>3. stage = "told"
  BY <1>2, OneContractIsSent DEF MatchInv
<1>4. Decodes
  <2>1. ASSUME chain = "eth", NEW j \in Inputs, shape[j].dynamic, shape[j].indexed
        PROVE  LooksLikeTopic(j)
    BY <1>1, <2>1, OwnTopics DEF LooksLikeTopic
  <2>2. QED BY <2>1 DEF Decodes
<1>5. ASSUME NEW j \in Inputs, asked[i].params[j] # Unset
      PROVE  Agrees(j, NewEvent[j], asked[i].params[j])
  <2>1. asked[i].params[j].n = log.values[j] /\ asked[i].params[j].form = "chain"
    BY <1>5 DEF IsFor, AsTheChain
  <2>2. QED BY <1>1, <2>1, Comparisons
<1>6. Passes(asked[i])
  BY <1>4, <1>5 DEF Passes, IsFor
<1>7. QED BY <1>3, <1>6, ToldOnce DEF Passing

\* Only events that a filter is for are told, once for each such filter: Filter of both
\* adaptors and onBaseEvent of MonitorEvent.
THEOREM OnlyWantedAreTold == SpecMatch => []OnlyWantedIsTold
<1>1. MatchInv /\ [NextMatch]_matchVars => MatchInv'
  BY MatchStep
<1>2. QED BY MatchInit, <1>1, OnlyWanted, PTL DEF SpecMatch

\* An event that a filter is for is told, unless its monitor asks for two contracts of
\* Ethereum, writes an integer in another way, or the event has its indexed inputs elsewhere:
\* newFilterQuery, newEventFilters, NewEvent and Filter.
THEOREM WantedAreTold == SpecMatch => []WantedIsTold
<1>1. MatchInv /\ [NextMatch]_matchVars => MatchInv'
  BY MatchStep
<1>2. QED BY MatchInit, <1>1, Wanted, PTL DEF SpecMatch
==============================================================================
