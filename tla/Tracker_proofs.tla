---------------------------- MODULE Tracker_proofs ----------------------------
(***************************************************************************)
(* Theorems about the tracker, for every set of networks and messages,     *)
(* every journey, every block size and every load.                         *)
(***************************************************************************)
EXTENDS Tracker, SequenceTheorems, FiniteSetTheorems, NaturalsInduction, TLAPS

-----------------------------------------------------------------------------
(* Least and greatest elements.                                            *)

Less == OpToRel(<, Nat)

LEMMA LeastExists ==
  ASSUME NEW S, S \subseteq Nat, S # {}
  PROVE  \E x \in S : \A y \in S : x <= y
<1>1. IsWellFoundedOn(Less, Nat)
  BY NatLessThanWellFounded DEF Less
<1>2. PICK x \in S : \A y \in S : <<y, x>> \notin Less
  BY <1>1, WFMin, Zenon
<1>3. \A y \in S : y < x => <<y, x>> \in Less
  BY DEF Less, OpToRel
<1>4. ASSUME NEW y \in S PROVE x <= y
  <2>1. x \in Nat /\ y \in Nat /\ ~ (y < x)
    BY <1>2, <1>3
  <2>2. QED BY <2>1
<1>5. QED BY <1>4

LEMMA MinNat ==
  ASSUME NEW S, S \subseteq Nat, S # {}
  PROVE  Min(S) \in S /\ \A y \in S : Min(S) <= y
BY LeastExists DEF Min

LEMMA MaxNat ==
  ASSUME NEW S, NEW n \in Nat, S \subseteq 0..n, S # {}
  PROVE  Max(S) \in S /\ \A y \in S : Max(S) >= y
<1> DEFINE T == {k \in Nat : n - k \in S}
<1>1. PICK k \in T : \A y \in T : k <= y
  <2>1. \A x \in S : x \in Nat /\ x <= n
    OBVIOUS
  <2>2. PICK x \in S : TRUE
    OBVIOUS
  <2>3. n - x \in T
    BY <2>1
  <2>4. QED BY <2>3, LeastExists
<1>2. ASSUME NEW y \in S PROVE n - k >= y
  <2>1. n - y \in T /\ y \in Nat
    OBVIOUS
  <2>2. k <= n - y /\ k \in Nat
    BY <1>1, <2>1
  <2>3. QED BY <2>1, <2>2
<1>3. n - k \in S
  OBVIOUS
<1>4. QED BY <1>2, <1>3 DEF Max


-----------------------------------------------------------------------------
(* The invariant.                                                          *)

Labels == {"down", "closed", "stream", "findStatus", "newStatus", "commit", "findAgain",
           "event", "links", "save"}

ChainEvent == [msg : Messages, step : Nat, height : Nat]
BlockRow == [net : Networks, height : Nat, final : BOOLEAN]
StatusRow == [msg : Messages, links : Seq(Nat), status : Statuses]
EventRow == [msg : Messages, step : Nat, height : Nat, sid : Nat, final : BOOLEAN]

\* What getLinks may have returned.
Found(w) == /\ w \in [links : Seq(Nat), status : Statuses]
            /\ \A k \in DOMAIN w.links : w.links[k] \in DOMAIN events

Shapes ==
  /\ chain \in [Networks -> Seq(ChainEvent)]
  /\ blocks \subseteq BlockRow
  /\ statuses \in Seq(StatusRow) /\ events \in Seq(EventRow)
  /\ hidden \subseteq DOMAIN statuses
  /\ pc \in [Networks -> Labels] /\ at \in [Networks -> Nat] /\ since \in [Networks -> Nat]
  /\ queue \in [Networks -> Seq(ChainEvent)]
  /\ cur \in [Networks -> ChainEvent \cup {None}]
  /\ sid \in [Networks -> Nat]
  /\ DOMAIN found = Networks /\ \A n \in Networks : Found(found[n])
  /\ \A i \in DOMAIN statuses : \A k \in DOMAIN statuses[i].links :
       statuses[i].links[k] \in DOMAIN events

\* The events of a network are steps that messages take there, in blocks of
\* rising height.
ChainOK(n) ==
  /\ \A i \in DOMAIN chain[n] :
       /\ chain[n][i].step \in DOMAIN Journey[chain[n][i].msg]
       /\ Step(chain[n][i]).net = n
       /\ chain[n][i].height \in 1..HeadOf(n)
  /\ \A i, j \in DOMAIN chain[n] : i <= j => chain[n][i].height <= chain[n][j].height

\* The stream is after every block in the table, and none is missing since it began.
StreamFollows(n) ==
  /\ at[n] \in 1..(HeadOf(n) + 1) /\ RecordedHeights(n) \subseteq 1..(at[n] - 1)
  /\ since[n] # 0 /\ since[n]..(at[n] - 1) \subseteq RecordedHeights(n)
  /\ n \notin load.subscriptions => since[n] = 1

Core(e) == [msg |-> e.msg, step |-> e.step, height |-> e.height]

\* The event that is handled is not recorded yet.
Unrecorded(n) == pc[n] \in {"findStatus", "newStatus", "commit", "findAgain", "event"}

Handling(n) == pc[n] \notin {"down", "closed", "stream"}

\* The stream of n has passed on the first q events of its chain.
PassedOn(n, q) ==
  /\ \A i \in DOMAIN queue[n] : /\ queue[n][i] = chain[n][q + i]
                                /\ queue[n][i].height + 1 = at[n]
  /\ q + Len(queue[n]) <= Len(chain[n])
  /\ \A i \in DOMAIN chain[n] : (i <= q + Len(queue[n])) <=> (chain[n][i].height < at[n])
  /\ Handling(n) => q >= 1 /\ cur[n] = chain[n][q]
  /\ \A i \in DOMAIN events : At(i).net = n =>
       \E k \in 1..q : /\ Unrecorded(n) => k < q
                       /\ chain[n][k] = Core(events[i])

Visible == DOMAIN statuses \ hidden

\* A status of message m that can be found, and the first one where no commit overtook
\* another.
FirstOf(i, m) ==
  /\ i \in Visible /\ statuses[i].msg = m
  /\ m \notin overtaken => \A j \in Visible : statuses[j].msg = m => i <= j

StatusKnown(n) == pc[n] \in {"event", "links", "save"}

Committing(n) == /\ sid[n] \in hidden /\ statuses[sid[n]].msg = cur[n].msg
                 /\ \A v \in Networks \ {n} : pc[v] = "commit" => sid[v] # sid[n]

SharedStatus ==
  /\ \A n \in Networks : StatusKnown(n) => FirstOf(sid[n], cur[n].msg)
  /\ \A n \in Networks : pc[n] = "commit" => Committing(n)
  /\ \A n \in Networks : pc[n] = "findAgain" => StatusesOf(cur[n].msg) # {}
  /\ \A i \in DOMAIN events : FirstOf(events[i].sid, events[i].msg)

\* What a stream got is gone when it is closed.
QueueEmpty == \A n \in Networks : pc[n] \in {"down", "closed"} => queue[n] = <<>>

\* The block of every event is in the table.
EventsInBlocks ==
  /\ \A i \in DOMAIN events : events[i].height \in RecordedHeights(At(i).net)
  /\ \A n \in Networks : Handling(n) => cur[n].height \in RecordedHeights(n)

\* The events of a network are recorded once, and in the order of its chain.
InOrder(n) ==
  \A i, j \in DOMAIN events :
    i < j /\ At(i).net = n /\ At(j).net = n =>
      \E k, l \in DOMAIN chain[n] : /\ k < l
                                    /\ chain[n][k] = Core(events[i])
                                    /\ chain[n][l] = Core(events[j])

StreamInv(n) == /\ ChainOK(n) /\ StreamFollows(n) /\ InOrder(n)
                /\ \E q \in 0..Len(chain[n]) : PassedOn(n, q)

StepsExist == \A i \in DOMAIN events : events[i].step \in DOMAIN Journey[events[i].msg]

IInv == /\ Shapes /\ StepsExist /\ SharedStatus /\ FinalInFinalBlock
        /\ QueueEmpty /\ EventsInBlocks
        /\ \A n \in Networks : StreamInv(n)

-----------------------------------------------------------------------------
(* The walk of getLinks.                                                   *)

Steps == [net : Networks, event : EventNames, next : Networks \cup {None}]

LEMMA StepsHaveType ==
  ASSUME NEW m \in Messages, NEW k \in DOMAIN Journey[m]
  PROVE  Journey[m][k] \in Steps
<1>1. Journey[m] \in Seq(Steps)
  BY TrackerAssumption DEF Steps
<1>2. QED BY <1>1

LEMMA EventsOfFinite ==
  ASSUME NEW m, events \in Seq(EventRow)
  PROVE  IsFiniteSet(EventsOf(m)) /\ Cardinality(EventsOf(m)) \in Nat
<1>1. EventsOf(m) \subseteq 1..Len(events) /\ Len(events) \in Nat
  BY DEF EventsOf
<1>2. IsFiniteSet(1..Len(events))
  BY <1>1, FS_Interval
<1>3. QED BY <1>1, <1>2, FS_Subset, FS_CardinalityType

\* The walks of k links over the events R, as getLinks builds them up.
Builds(f, N, R) ==
  f = [k \in 1..N |-> IF k = 1 THEN Starts(R) ELSE UNION {From(w, R) : w \in f[k - 1]}]

LEMMA WalkExists ==
  ASSUME NEW N \in Nat, NEW R
  PROVE  \E f : Builds(f, N, R)
<1> DEFINE S == {k \in Nat : k <= N /\ ~ \E f : Builds(f, k, R)}
<1>1. SUFFICES ASSUME S # {} PROVE FALSE
  OBVIOUS
<1>2. PICK k \in S : \A y \in S : k <= y
  BY <1>1, LeastExists
<1> DEFINE e == [j \in 1..0 |-> {}]
<1>3. Builds(e, 0, R)
  BY DEF Builds
<1>4. k \in Nat /\ k # 0
  BY <1>3
<1>5. k - 1 \in Nat /\ k - 1 \notin S /\ k - 1 <= N
  BY <1>2, <1>4
<1>6. PICK f : Builds(f, k - 1, R)
  BY <1>5
<1> DEFINE last == IF k = 1 THEN Starts(R) ELSE UNION {From(w, R) : w \in f[k - 1]}
           g == [j \in 1..k |-> IF j < k THEN f[j] ELSE last]
           h == [j \in 1..k |-> IF j = 1 THEN Starts(R) ELSE UNION {From(w, R) : w \in g[j - 1]}]
<1>7. ASSUME NEW j \in 1..k PROVE g[j] = h[j]
  <2>1. CASE j = 1 /\ k = 1
    BY <2>1
  <2>2. CASE j = 1 /\ k # 1
    BY <1>4, <1>6, <2>2 DEF Builds
  <2>3. CASE j # 1 /\ j < k
    <3>1. f[j] = UNION {From(w, R) : w \in f[j - 1]}
      BY <1>4, <1>6, <2>3 DEF Builds
    <3>2. g[j - 1] = f[j - 1] /\ g[j] = f[j]
      BY <1>4, <2>3
    <3>3. QED BY <2>3, <3>1, <3>2
  <2>4. CASE j # 1 /\ j = k
    <3>1. g[j - 1] = f[k - 1] /\ g[j] = last
      BY <1>4, <2>4
    <3>2. QED BY <2>4, <3>1
  <2>5. QED BY <1>4, <2>1, <2>2, <2>3, <2>4
<1>8. g = h
  BY <1>7
<1>9. Builds(g, k, R)
  BY <1>8 DEF Builds
<1>10. QED BY <1>9

\* What holds of the first links, and of a walk after k turns of the loop, holds of
\* what getLinks returns after as many turns as there are events.
LEMMA WalkInductionBy ==
  ASSUME events \in Seq(EventRow), NEW m, NEW P, Starts(EventsOf(m)) \subseteq P[1],
         \A k \in Nat \ {0} : \A w \in P[k] : From(w, EventsOf(m)) \subseteq P[k + 1]
  PROVE  IF Starts(EventsOf(m)) = {} THEN Walks(m) = {NoLinks}
         ELSE Walks(m) \subseteq P[Cardinality(EventsOf(m))]
<1> DEFINE R == EventsOf(m)
           N == Cardinality(R)
           walk[k \in 1..N] ==
             IF k = 1 THEN Starts(R) ELSE UNION {From(w, R) : w \in walk[k - 1]}
<1>1. N \in Nat /\ IsFiniteSet(R)
  BY EventsOfFinite
<1>2. Builds(walk, N, R)
  <2>1. PICK f : Builds(f, N, R)
    BY <1>1, WalkExists
  <2>2. f = [k \in 1..N |-> IF k = 1 THEN Starts(R) ELSE UNION {From(w, R) : w \in f[k - 1]}]
    BY <2>1 DEF Builds
  <2>3. walk = CHOOSE g : g = [k \in 1..N |-> IF k = 1 THEN Starts(R)
                                              ELSE UNION {From(w, R) : w \in g[k - 1]}]
    BY DEF walk
  <2> HIDE DEF walk, N, R
  <2>4. walk = [k \in 1..N |-> IF k = 1 THEN Starts(R)
                               ELSE UNION {From(w, R) : w \in walk[k - 1]}]
    BY <2>2, <2>3, Zenon
  <2>5. QED BY <2>4 DEF Builds
<1>3. Walks(m) = IF Starts(R) = {} THEN {NoLinks} ELSE walk[N]
  BY DEF Walks
<1> HIDE DEF walk, N, R
<1> DEFINE S == {k \in Nat : k \in 1..N /\ ~ walk[k] \subseteq P[k]}
<1>4. S = {}
  <2>1. SUFFICES ASSUME S # {} PROVE FALSE
    OBVIOUS
  <2>2. PICK k \in S : \A y \in S : k <= y
    BY <2>1, LeastExists
  <2>3. CASE k = 1
    BY <1>1, <1>2, <2>2, <2>3 DEF Builds, R
  <2>4. CASE k # 1
    <3>1. k - 1 \in Nat /\ k - 1 \in 1..N /\ k - 1 \notin S
      BY <1>1, <2>2, <2>4
    <3>2. walk[k - 1] \subseteq P[k - 1] /\ k - 1 \in Nat \ {0} /\ (k - 1) + 1 = k
      BY <3>1
    <3>3. walk[k] = UNION {From(w, R) : w \in walk[k - 1]}
      BY <1>1, <1>2, <2>4 DEF Builds
    <3>4. walk[k] \subseteq P[k]
      BY <3>2, <3>3 DEF R
    <3>5. QED BY <2>2, <3>4
  <2>5. QED BY <2>3, <2>4
<1>5. CASE Starts(R) = {}
  BY <1>3, <1>5 DEF R
<1>6. CASE Starts(R) # {}
  <2>1. R # {}
    BY <1>6 DEF Starts
  <2>2. N # 0
    BY <1>1, <2>1, FS_EmptySet DEF N
  <2>3. N \in 1..N
    BY <1>1, <2>2
  <2>4. walk[N] \subseteq P[N]
    BY <1>1, <1>4, <2>3
  <2>5. QED BY <1>3, <1>6, <2>4 DEF R, N
<1>7. QED BY <1>5, <1>6

\* The same for what does not depend on the number of turns.
LEMMA WalkInduction ==
  ASSUME events \in Seq(EventRow), NEW m, NEW P, Starts(EventsOf(m)) \subseteq P,
         \A w \in P : From(w, EventsOf(m)) \subseteq P
  PROVE  Walks(m) \subseteq P \cup {NoLinks}
<1> DEFINE Q == [k \in Nat |-> P]
<1>1. Cardinality(EventsOf(m)) \in Nat
  BY EventsOfFinite
<1>2. \A k \in Nat : Q[k] = P
  OBVIOUS
<1> HIDE DEF Q
<1>3. Starts(EventsOf(m)) \subseteq Q[1]
  BY <1>2
<1>4. \A k \in Nat \ {0} : \A w \in Q[k] : From(w, EventsOf(m)) \subseteq Q[k + 1]
  BY <1>2
<1>5. IF Starts(EventsOf(m)) = {} THEN Walks(m) = {NoLinks}
      ELSE Walks(m) \subseteq Q[Cardinality(EventsOf(m))]
  BY <1>3, <1>4, WalkInductionBy
<1>6. QED BY <1>1, <1>2, <1>5

LEMMA WalksAreFound ==
  ASSUME events \in Seq(EventRow), NEW m, NEW w \in Walks(m)
  PROVE  Found(w)
<1> DEFINE R == EventsOf(m)
           P == [links : Seq(R), status : Statuses]
<1>0. R \subseteq DOMAIN events /\ R \subseteq Nat
  BY DEF EventsOf
<1> HIDE DEF R
<1>1. Starts(R) \subseteq P
  <2>1. \A i \in R : <<i>> \in Seq(R)
    OBVIOUS
  <2>2. "Sending" \in Statuses
    BY DEF Statuses
  <2>3. ASSUME NEW u \in Starts(R) PROVE u \in P
    <3>1. PICK i \in R : u = [links |-> <<i>>, status |-> "Sending"]
      BY <2>3 DEF Starts
    <3>2. QED BY <2>1, <2>2, <3>1
  <2>4. QED BY <2>3
<1>2. ASSUME NEW v \in P PROVE From(v, R) \subseteq P
  <2>1. \A j \in NextLinks(Last(v.links), R \ Range(v.links)) : j \in R
    BY DEF NextLinks
  <2>2. \A e : Infer(e, v.status) \in Statuses
    BY DEF Infer, Statuses
  <2>3. \A j \in R : Append(v.links, j) \in Seq(R)
    OBVIOUS
  <2>4. ASSUME NEW u \in Longer(v, R) PROVE u \in P
    <3>1. PICK j \in NextLinks(Last(v.links), R \ Range(v.links)) :
            u = [links |-> Append(v.links, j), status |-> Infer(At(j), v.status)]
      BY <2>4 DEF Longer
    <3>2. Append(v.links, j) \in Seq(R) /\ Infer(At(j), v.status) \in Statuses
      BY <2>1, <2>2, <2>3
    <3>3. QED BY <3>1, <3>2
  <2>5. QED BY <2>4 DEF From
<1>3. w \in P \cup {NoLinks}
  BY <1>1, <1>2, WalkInduction DEF R
<1>5. CASE w = NoLinks
  BY <1>5 DEF Found, NoLinks, Statuses
<1>6. CASE w \in P
  BY <1>0, <1>6 DEF Found
<1>7. QED BY <1>3, <1>5, <1>6

-----------------------------------------------------------------------------
(* Every step keeps the shapes.                                            *)


LEMMA HeadIsNat ==
  ASSUME Shapes, NEW n \in Networks
  PROVE  /\ HeadOf(n) \in Nat
         /\ chain[n] # <<>> => /\ Len(chain[n]) \in DOMAIN chain[n]
                               /\ HeadOf(n) = chain[n][Len(chain[n])].height
<1>1. chain[n] \in Seq(ChainEvent)
  BY DEF Shapes
<1>2. CASE chain[n] = <<>>
  BY <1>2 DEF HeadOf
<1>3. CASE chain[n] # <<>>
  <2>1. Len(chain[n]) \in DOMAIN chain[n]
    BY <1>1, <1>3
  <2>2. chain[n][Len(chain[n])] \in ChainEvent
    BY <1>1, <2>1
  <2>3. QED BY <1>3, <2>1, <2>2 DEF HeadOf, Last, ChainEvent
<1>4. QED BY <1>2, <1>3

LEMMA StepsAreFinite ==
  ASSUME Shapes, \A n \in Networks : ChainOK(n), NEW m \in Messages
  PROVE  StepsTaken(m) \subseteq DOMAIN Journey[m] /\ Cardinality(StepsTaken(m)) \in Nat
<1>1. Journey[m] \in Seq([net : Networks, event : EventNames, next : Networks \cup {None}])
  BY TrackerAssumption
<1>2. StepsTaken(m) \subseteq DOMAIN Journey[m]
  <2>1. ASSUME NEW x \in StepsTaken(m) PROVE x \in DOMAIN Journey[m]
    <3>1. PICK n \in Networks : x \in {e.step : e \in {f \in Range(chain[n]) : f.msg = m}}
      BY DEF StepsTaken
    <3>2. PICK i \in DOMAIN chain[n] : x = chain[n][i].step /\ chain[n][i].msg = m
      BY <3>1 DEF Range
    <3>3. QED BY <3>2 DEF ChainOK
  <2>2. QED BY <2>1
<1>3. IsFiniteSet(DOMAIN Journey[m])
  <2>1. DOMAIN Journey[m] = 1..Len(Journey[m]) /\ Len(Journey[m]) \in Nat
    BY <1>1
  <2>2. IsFiniteSet(1..Len(Journey[m]))
    BY <2>1, FS_Interval
  <2>3. QED BY <2>1, <2>2
<1>4. QED BY <1>2, <1>3, FS_Subset, FS_CardinalityType

\* The event of a new block that message ms[i] adds.
IsNext(e, n, ms, i) ==
  /\ e.msg = ms[i] /\ e.height = HeadOf(n) + 1
  /\ e.step = Cardinality(StepsTaken(ms[i])) + Cardinality({j \in 1..i : ms[j] = ms[i]})
  /\ e.step \in DOMAIN Journey[ms[i]] /\ Step(e).net = n

LEMMA NewEvents ==
  ASSUME Shapes, \A v \in Networks : ChainOK(v), NEW n \in Networks,
         NEW k \in Nat, NEW ms \in [1..k -> Messages],
         \A e \in Range(BlockWith(n, ms)) : e.step <= Len(Journey[e.msg]) /\ Step(e).net = n
  PROVE  /\ BlockWith(n, ms) \in Seq(ChainEvent) /\ Len(BlockWith(n, ms)) = k
         /\ \A i \in 1..k : IsNext(BlockWith(n, ms)[i], n, ms, i)
<1> DEFINE B == BlockWith(n, ms)
           Same(i) == {j \in 1..i : ms[j] = ms[i]}
<1>1. B = [i \in 1..k |-> [msg |-> ms[i], height |-> HeadOf(n) + 1,
                           step |-> Cardinality(StepsTaken(ms[i])) + Cardinality(Same(i))]]
  BY DEF BlockWith
<1>2. ASSUME NEW i \in 1..k
      PROVE  Cardinality(Same(i)) \in Nat \ {0}
  <2>1. IsFiniteSet(1..i)
    BY FS_Interval
  <2>2. IsFiniteSet(Same(i))
    BY <2>1, FS_Subset
  <2>3. i \in Same(i)
    OBVIOUS
  <2>4. Cardinality(Same(i)) # 0 /\ Cardinality(Same(i)) \in Nat
    BY <2>2, <2>3, FS_EmptySet, FS_CardinalityType
  <2>5. QED BY <2>4
<1> HIDE DEF B, Same
<1>3. ASSUME NEW i \in 1..k
      PROVE  /\ B[i] \in ChainEvent
             /\ B[i].msg = ms[i] /\ B[i].height = HeadOf(n) + 1
             /\ B[i].step = Cardinality(StepsTaken(ms[i])) + Cardinality(Same(i))
             /\ B[i].step \in DOMAIN Journey[ms[i]] /\ Step(B[i]).net = n
  <2>1. /\ B[i].msg = ms[i] /\ B[i].height = HeadOf(n) + 1
        /\ B[i].step = Cardinality(StepsTaken(ms[i])) + Cardinality(Same(i))
    BY <1>1
  <2>2. Cardinality(StepsTaken(ms[i])) \in Nat /\ Cardinality(Same(i)) \in Nat \ {0}
    BY <1>2, StepsAreFinite
  <2>3. B[i] \in Range(BlockWith(n, ms))
    BY <1>1 DEF Range, B
  <2>4. B[i].step <= Len(Journey[B[i].msg]) /\ Step(B[i]).net = n
    BY <2>3
  <2>5. /\ Journey[ms[i]] \in Seq([net : Networks, event : EventNames,
                                  next : Networks \cup {None}])
        /\ HeadOf(n) \in Nat
    BY TrackerAssumption, HeadIsNat
  <2>6. B[i] \in ChainEvent
    BY <1>1, <2>2, <2>5 DEF ChainEvent
  <2>7. QED BY <2>1, <2>2, <2>4, <2>5, <2>6
<1>4. B \in [1..k -> ChainEvent]
  BY <1>1, <1>3
<1>5. B \in Seq(ChainEvent) /\ Len(B) = k
  BY <1>4
<1>6. QED BY <1>3, <1>5 DEF B, Same, IsNext

LEMMA ShapesNewBlock ==
  ASSUME Shapes, \A v \in Networks : ChainOK(v), NEW n \in Networks, NewBlock(n)
  PROVE  Shapes'
<1>1. PICK k \in 1..MaxBlockSize : \E ms \in [1..k -> Messages] :
        /\ \A e \in Range(BlockWith(n, ms)) : e.step <= Len(Journey[e.msg]) /\ Step(e).net = n
        /\ chain' = [chain EXCEPT ![n] = @ \o BlockWith(n, ms)]
  BY DEF NewBlock
<1>2. PICK ms \in [1..k -> Messages] :
        /\ \A e \in Range(BlockWith(n, ms)) : e.step <= Len(Journey[e.msg]) /\ Step(e).net = n
        /\ chain' = [chain EXCEPT ![n] = @ \o BlockWith(n, ms)]
  BY <1>1
<1>3. k \in Nat
  BY TrackerAssumption
<1>4. BlockWith(n, ms) \in Seq(ChainEvent)
  BY <1>2, <1>3, NewEvents
<1>5. chain' \in [Networks -> Seq(ChainEvent)]
  BY <1>2, <1>4 DEF Shapes
<1>6. UNCHANGED <<blocks, statuses, hidden, overtaken, events, pc, at, since, queue, cur, sid, found>>
  BY DEF NewBlock, tables, stream, handler
<1>7. QED BY <1>5, <1>6 DEF Shapes, Found


\* getMonitorHeight goes on where a stream that is polled was.
LEMMA StreamGoesOn ==
  ASSUME NEW n \in Networks, HeadOf(n) \in Nat, StreamFollows(n), n \notin load.subscriptions
  PROVE  AfterRecorded(n) = at[n]
<1> DEFINE S == {0} \cup RecordedHeights(n)
<1>1. at[n] \in Nat /\ at[n] - 1 \in Nat
  BY DEF StreamFollows
<1>2. S = 0..(at[n] - 1)
  <2>1. RecordedHeights(n) = 1..(at[n] - 1)
    BY DEF StreamFollows
  <2>2. QED BY <1>1, <2>1
<1>3. Max(S) \in S /\ \A y \in S : Max(S) >= y
  BY <1>1, <1>2, MaxNat
<1>4. Max(S) = at[n] - 1
  <2> HIDE DEF S
  <2>1. at[n] - 1 \in S
    BY <1>1, <1>2
  <2>2. Max(S) \in Nat /\ Max(S) <= at[n] - 1 /\ Max(S) >= at[n] - 1
    BY <1>1, <1>2, <1>3, <2>1
  <2>3. QED BY <1>1, <2>2
<1>5. QED BY <1>1, <1>4 DEF AfterRecorded

\* Where a stream begins.
Opened(n) ==
  /\ pc[n] = "closed" /\ pc' = [pc EXCEPT ![n] = "stream"]
  /\ IF n \in load.subscriptions
       THEN /\ at' = [at EXCEPT ![n] = HeadOf(n) + 1]
            /\ since' = [since EXCEPT ![n] = HeadOf(n) + 1]
       ELSE UNCHANGED <<at, since>>
  /\ UNCHANGED <<load, chain, blocks, statuses, hidden, overtaken, events, queue, cur, sid, found>>

LEMMA OpenIs ==
  ASSUME Shapes, NEW n \in Networks, StreamFollows(n), OpenStream(n)
  PROVE  Opened(n)
<1>1. HeadOf(n) \in Nat /\ at \in [Networks -> Nat]
  BY HeadIsNat DEF Shapes
<1>2. n \notin load.subscriptions => at' = at /\ since' = since
  <2>1. SUFFICES ASSUME n \notin load.subscriptions PROVE at' = at /\ since' = since
    OBVIOUS
  <2>2. at' = [at EXCEPT ![n] = AfterRecorded(n)] /\ since' = since
    BY <2>1 DEF OpenStream
  <2>3. QED BY <1>1, <2>1, <2>2, StreamGoesOn
<1>3. QED BY <1>2 DEF OpenStream, Opened, Goto, tables, handler

LEMMA ShapesOpen ==
  ASSUME Shapes, NEW n \in Networks, Opened(n)
  PROVE  Shapes'
<1>1. HeadOf(n) + 1 \in Nat
  BY HeadIsNat
<1>2. /\ pc' \in [Networks -> Labels] /\ at' \in [Networks -> Nat]
      /\ since' \in [Networks -> Nat]
  BY <1>1 DEF Shapes, Opened, Labels
<1>3. QED BY <1>2 DEF Shapes, Opened, Found

\* What a stream keeps when it stops.
Stopped(n) == /\ pc' = [pc EXCEPT ![n] = "closed"] /\ queue' = [queue EXCEPT ![n] = <<>>]
              /\ cur' = [cur EXCEPT ![n] = None] /\ sid' = [sid EXCEPT ![n] = 0]
              /\ found' = [found EXCEPT ![n] = NoLinks]
              /\ UNCHANGED <<load, chain, blocks, statuses, hidden, overtaken, events, at, since>>

LEMMA StopIs ==
  ASSUME NEW n \in Networks, ConnectionLost(n) \/ SaveStatusFails(n)
  PROVE  Stopped(n)
BY DEF ConnectionLost, SaveStatusFails, tables, StopStream, Forget, Goto, Stopped

\* What is left when the process dies.
Dead == /\ pc' = ForAll("down") /\ queue' = ForAll(<<>>)
        /\ cur' = ForAll(None) /\ sid' = ForAll(0) /\ found' = ForAll(NoLinks)
        /\ UNCHANGED <<load, chain, blocks, statuses, hidden, overtaken, events, at, since>>

LEMMA DieIs == Die => Dead
BY DEF Die, Dead, tables

\* What every row keeps when it starts again.
Relinks == /\ statuses' \in Seq(StatusRow) /\ Len(statuses') = Len(statuses)
           /\ \A i \in DOMAIN statuses :
                /\ statuses'[i].msg = statuses[i].msg
                /\ \A k \in DOMAIN statuses'[i].links :
                     statuses'[i].links[k] \in DOMAIN events
           /\ pc = ForAll("down") /\ pc' = ForAll("closed")
           /\ UNCHANGED <<load, chain, blocks, hidden, overtaken, events, at, since, queue,
                          cur, sid, found>>

LEMMA RelinkedIs ==
  ASSUME Shapes, NEW i \in DOMAIN statuses, NEW r \in Relinked(i)
  PROVE  \/ r = statuses[i]
         \/ \E w \in Walks(statuses[i].msg) \cup {NoLinks} :
              r = [statuses[i] EXCEPT !.links = w.links, !.status = w.status]
BY DEF Relinked

LEMMA NothingFound == Found(NoLinks) /\ Found(NoLinks)'
BY DEF Found, NoLinks, Statuses

LEMMA RelinkIs ==
  ASSUME Shapes, Relink
  PROVE  Relinks
<1>2. statuses \in Seq(StatusRow) /\ events \in Seq(EventRow)
  BY DEF Shapes
<1>3. DOMAIN statuses' = DOMAIN statuses /\ \A i \in DOMAIN statuses : statuses'[i] \in Relinked(i)
  BY DEF Relink
<1>4. ASSUME NEW i \in DOMAIN statuses, NEW r \in Relinked(i)
      PROVE  /\ r \in StatusRow /\ r.msg = statuses[i].msg
             /\ \A k \in DOMAIN r.links : r.links[k] \in DOMAIN events
  <2>1. statuses[i] \in StatusRow
    BY <1>2
  <2>2. CASE r = statuses[i]
    BY <2>1, <2>2 DEF Shapes
  <2>3. CASE r # statuses[i]
    <3>1. PICK w \in Walks(statuses[i].msg) \cup {NoLinks} :
            r = [statuses[i] EXCEPT !.links = w.links, !.status = w.status]
      BY <2>3, RelinkedIs
    <3>2. Found(w)
      BY <1>2, WalksAreFound, NothingFound
    <3>3. QED BY <2>1, <3>1, <3>2 DEF Found, StatusRow
  <2>4. QED BY <2>2, <2>3
<1>5. statuses' \in Seq(StatusRow) /\ Len(statuses') = Len(statuses)
  <2>1. DOMAIN statuses = 1..Len(statuses) /\ Len(statuses) \in Nat
    BY <1>2
  <2>2. statuses' = [i \in 1..Len(statuses) |-> statuses'[i]]
    BY <2>1 DEF Relink
  <2>3. \A i \in 1..Len(statuses) : statuses'[i] \in StatusRow
    BY <1>3, <1>4, <2>1
  <2>4. QED BY <2>1, <2>2, <2>3
<1>6. QED BY <1>3, <1>4, <1>5 DEF Relink, Relinks, stream, handler

LEMMA ShapesStop ==
  ASSUME Shapes, NEW n \in Networks, Stopped(n)
  PROVE  Shapes'
BY NothingFound DEF Shapes, Stopped, Found, Labels

LEMMA ShapesDead ==
  ASSUME Shapes, Dead
  PROVE  Shapes'
<1>1. /\ pc' \in [Networks -> Labels] /\ queue' \in [Networks -> Seq(ChainEvent)]
      /\ cur' \in [Networks -> ChainEvent \cup {None}] /\ sid' \in [Networks -> Nat]
      /\ DOMAIN found' = Networks /\ \A n \in Networks : found'[n] = NoLinks
  BY DEF Dead, ForAll, Labels
<1>2. \A n \in Networks : Found(found[n])'
  BY <1>1, NothingFound DEF Found
<1>3. QED BY <1>1, <1>2 DEF Shapes, Dead

LEMMA ShapesRelinks ==
  ASSUME Shapes, Relinks
  PROVE  Shapes'
<1>1. pc' \in [Networks -> Labels]
  BY DEF Relinks, ForAll, Labels
<1>2. /\ UNCHANGED <<load, chain, blocks, hidden, events, at, since, queue, cur, sid, found>>
      /\ statuses' \in Seq(StatusRow) /\ DOMAIN statuses' = DOMAIN statuses
  BY DEF Relinks, Shapes
<1>3. \A i \in DOMAIN statuses' : \A k \in DOMAIN statuses'[i].links :
        statuses'[i].links[k] \in DOMAIN events'
  BY <1>2 DEF Relinks
<1>4. QED BY <1>1, <1>2, <1>3 DEF Shapes, Found

\* The events of the next block of a stream, with the first passed on.
LEMMA BlockIs ==
  ASSUME Shapes, NEW n \in Networks, ChainOK(n), BlockEvents(n, at[n]) # <<>>
  PROVE  \E a, b \in DOMAIN chain[n] :
           /\ a <= b /\ BlockEvents(n, at[n]) = SubSeq(chain[n], a, b)
           /\ chain[n][a].height = at[n]
           /\ \A i \in DOMAIN chain[n] : (chain[n][i].height = at[n]) <=> (a <= i /\ i <= b)
<1> DEFINE S == {i \in DOMAIN chain[n] : chain[n][i].height = at[n]}
<1>1. chain[n] \in Seq(ChainEvent) /\ DOMAIN chain[n] = 1..Len(chain[n]) /\ Len(chain[n]) \in Nat
  BY DEF Shapes
<1>2. S # {} /\ BlockEvents(n, at[n]) = SubSeq(chain[n], Min(S), Max(S))
  BY DEF BlockEvents
<1>3. S \subseteq Nat /\ S \subseteq 0..Len(chain[n])
  BY <1>1
<1>4. Min(S) \in S /\ \A y \in S : Min(S) <= y
  BY <1>2, <1>3, MinNat
<1>5. Max(S) \in S /\ \A y \in S : Max(S) >= y
  BY <1>1, <1>2, <1>3, MaxNat
<1>6. ASSUME NEW i \in DOMAIN chain[n], Min(S) <= i, i <= Max(S) PROVE i \in S
  <2>1. /\ chain[n][i].height \in Nat /\ Min(S) <= i /\ i <= Max(S)
        /\ Min(S) \in DOMAIN chain[n] /\ Max(S) \in DOMAIN chain[n]
        /\ chain[n][Min(S)].height = at[n] /\ chain[n][Max(S)].height = at[n]
        /\ at[n] \in Nat
    <3>1. chain[n][i] \in ChainEvent /\ at[n] \in Nat
      BY <1>1 DEF Shapes
    <3>2. Min(S) <= i /\ i <= Max(S)
      BY <1>1, <1>3, <1>4, <1>5, <1>6
    <3>3. QED BY <1>4, <1>5, <3>1, <3>2 DEF ChainEvent
  <2>2. at[n] <= chain[n][i].height /\ chain[n][i].height <= at[n]
    BY <2>1 DEF ChainOK
  <2>3. QED BY <2>1, <2>2
<1>7. \A i \in DOMAIN chain[n] : i \in S <=> (Min(S) <= i /\ i <= Max(S))
  BY <1>1, <1>3, <1>4, <1>5, <1>6
<1>8. QED BY <1>1, <1>2, <1>3, <1>4, <1>5, <1>7


\* The next event of a stream, the events left after it, and whether it begins
\* a block.
Takes(n, e, rest) == /\ e \in ChainEvent /\ rest \in Seq(ChainEvent)
                     /\ cur' = [cur EXCEPT ![n] = e] /\ queue' = [queue EXCEPT ![n] = rest]
                     /\ blocks' = IF BlockOf(n, e) # {} THEN blocks
                                  ELSE blocks \cup {[net |-> n, height |-> e.height, final |-> FALSE]}
                     /\ at' = [at EXCEPT ![n] = e.height + 1]
                     /\ pc' = [pc EXCEPT ![n] = "findStatus"]
                     /\ UNCHANGED <<load, chain, statuses, hidden, overtaken, events, since, sid, found>>

LEMMA PendingIsSeq ==
  ASSUME Shapes, NEW n \in Networks, ChainOK(n)
  PROVE  Pending(n) \in Seq(ChainEvent)
<1>1. queue[n] \in Seq(ChainEvent) /\ chain[n] \in Seq(ChainEvent)
  BY DEF Shapes
<1>2. CASE queue[n] # <<>>
  BY <1>1, <1>2 DEF Pending
<1>3. CASE queue[n] = <<>> /\ BlockEvents(n, at[n]) = <<>>
  BY <1>3 DEF Pending
<1>4. CASE queue[n] = <<>> /\ BlockEvents(n, at[n]) # <<>>
  <2>1. PICK a, b \in DOMAIN chain[n] : BlockEvents(n, at[n]) = SubSeq(chain[n], a, b)
    BY <1>4, BlockIs
  <2>2. \A i \in a..b : chain[n][i] \in ChainEvent
    BY <1>1
  <2>3. a \in Int /\ b \in Int
    BY <1>1
  <2>4. SubSeq(chain[n], a, b) \in Seq(ChainEvent)
    BY <2>2, <2>3, SubSeqProperties
  <2>5. QED BY <1>4, <2>1, <2>4 DEF Pending
<1>5. QED BY <1>2, <1>3, <1>4

LEMMA StoreBlockIs ==
  ASSUME Shapes, NEW n \in Networks, ChainOK(n), StoreBlock(n)
  PROVE  /\ Pending(n) # <<>> /\ pc[n] = "stream"
         /\ Takes(n, Head(Pending(n)), Tail(Pending(n)))
<1>1. Pending(n) \in Seq(ChainEvent) /\ Pending(n) # <<>>
  BY PendingIsSeq DEF StoreBlock
<1>2. Head(Pending(n)) \in ChainEvent /\ Tail(Pending(n)) \in Seq(ChainEvent)
  BY <1>1, HeadTailProperties
<1>3. QED BY <1>1, <1>2 DEF StoreBlock, Takes, Goto

LEMMA ShapesTakes ==
  ASSUME Shapes, NEW n \in Networks, NEW e, NEW rest, Takes(n, e, rest)
  PROVE  Shapes'
<1>1. cur' \in [Networks -> ChainEvent \cup {None}] /\ queue' \in [Networks -> Seq(ChainEvent)]
  BY DEF Shapes, Takes
<1>2. blocks' \subseteq BlockRow
  <2>1. e.height \in Nat /\ blocks \subseteq BlockRow
    BY DEF Shapes, Takes, ChainEvent
  <2>2. [net |-> n, height |-> e.height, final |-> FALSE] \in BlockRow
    BY <2>1 DEF BlockRow
  <2>3. QED BY <2>1, <2>2 DEF Takes
<1>3. at' \in [Networks -> Nat] /\ pc' \in [Networks -> Labels]
  BY DEF Shapes, Takes, ChainEvent, Labels
<1>4. UNCHANGED <<load, chain, statuses, hidden, overtaken, events, since, sid, found>>
  BY DEF Takes
<1>5. QED BY <1>1, <1>2, <1>3, <1>4 DEF Shapes, Found

LEMMA SameRow ==
  ASSUME Shapes, NEW n \in Networks, NEW l \in Labels, pc' = [pc EXCEPT ![n] = l],
         UNCHANGED <<load, chain, blocks, statuses, hidden, overtaken, events, at, since, queue, cur, sid, found>>
  PROVE  Shapes'
BY DEF Shapes, Found

LEMMA FirstIs ==
  ASSUME NEW m, StatusesOf(m) # {}, statuses \in Seq(StatusRow)
  PROVE  FirstOf(Min(StatusesOf(m)), m) /\ Min(StatusesOf(m)) \in Nat
<1>1. StatusesOf(m) \subseteq Nat
  BY DEF StatusesOf
<1>2. Min(StatusesOf(m)) \in StatusesOf(m) /\ \A y \in StatusesOf(m) : Min(StatusesOf(m)) <= y
  BY <1>1, MinNat
<1>3. QED BY <1>1, <1>2 DEF FirstOf, StatusesOf, Visible

LEMMA FirstIsUnique ==
  ASSUME statuses \in Seq(StatusRow), NEW m, m \notin overtaken, NEW i, NEW j,
         FirstOf(i, m), FirstOf(j, m)
  PROVE  i = j
BY DEF FirstOf, Visible

\* A new row, not yet committed.
Inserts(n) ==
  /\ pc[n] = "newStatus" /\ pc' = [pc EXCEPT ![n] = "commit"]
  /\ statuses' \in Seq(StatusRow) /\ Len(statuses') = Len(statuses) + 1
  /\ Len(statuses) \in Nat /\ DOMAIN statuses = 1..Len(statuses)
  /\ DOMAIN statuses' = DOMAIN statuses \cup {Len(statuses) + 1}
  /\ \A i \in DOMAIN statuses : statuses'[i] = statuses[i]
  /\ statuses'[Len(statuses) + 1].msg = cur[n].msg
  /\ statuses'[Len(statuses) + 1].links = <<>>
  /\ statuses'[Len(statuses) + 1].status = "Unknown"
  /\ hidden' = hidden \cup {Len(statuses) + 1}
  /\ sid' = [sid EXCEPT ![n] = Len(statuses) + 1]
  /\ UNCHANGED <<load, chain, blocks, events, overtaken, at, since, queue, cur, found>>

LEMMA InsertIs ==
  ASSUME Shapes, NEW n \in Networks, cur[n] \in ChainEvent, InsertStatus(n)
  PROVE  Inserts(n)
<1> DEFINE row == [msg |-> cur[n].msg, links |-> <<>>, status |-> "Unknown"]
<1>1. statuses \in Seq(StatusRow) /\ Len(statuses) \in Nat /\ DOMAIN statuses = 1..Len(statuses)
  BY DEF Shapes
<1>2. row \in StatusRow
  BY DEF ChainEvent, StatusRow, Statuses
<1>3. statuses' = Append(statuses, row)
  BY DEF InsertStatus
<1>4. row.msg = cur[n].msg /\ row.links = <<>> /\ row.status = "Unknown"
  OBVIOUS
<1> HIDE DEF row
<1>5. /\ statuses' \in Seq(StatusRow) /\ Len(statuses') = Len(statuses) + 1
      /\ \A i \in DOMAIN statuses : statuses'[i] = statuses[i]
      /\ statuses'[Len(statuses) + 1] = row
      /\ DOMAIN statuses' = DOMAIN statuses \cup {Len(statuses) + 1}
  BY <1>1, <1>2, <1>3
<1>6. QED BY <1>1, <1>4, <1>5 DEF InsertStatus, Inserts, Goto, stream

LEMMA ShapesInsert ==
  ASSUME Shapes, NEW n \in Networks, Inserts(n)
  PROVE  Shapes'
<1>1. sid' \in [Networks -> Nat] /\ pc' \in [Networks -> Labels]
  BY DEF Inserts, Shapes, Labels
<1>2. ASSUME NEW i \in DOMAIN statuses', NEW k \in DOMAIN statuses'[i].links
      PROVE  statuses'[i].links[k] \in DOMAIN events'
  <2>1. CASE i \in DOMAIN statuses
    BY <1>2, <2>1 DEF Shapes, Inserts
  <2>2. CASE i = Len(statuses) + 1
    BY <1>2, <2>2 DEF Inserts
  <2>3. QED BY <2>1, <2>2 DEF Inserts
<1>3. hidden' \subseteq DOMAIN statuses'
  BY DEF Inserts, Shapes
<1>4. QED BY <1>1, <1>2, <1>3 DEF Shapes, Found, Inserts

\* The row is committed.
Commits(n) ==
  /\ pc[n] = "commit" /\ pc' = [pc EXCEPT ![n] = "findAgain"]
  /\ hidden' = hidden \ {sid[n]}
  /\ overtaken' = IF Overtakes(n) THEN overtaken \cup {cur[n].msg} ELSE overtaken
  /\ UNCHANGED <<load, chain, blocks, statuses, events, at, since, queue, cur, sid, found>>

LEMMA CommitIs ==
  ASSUME NEW n \in Networks, CommitStatus(n)
  PROVE  Commits(n)
BY DEF CommitStatus, Commits, Goto, stream, handler

LEMMA ShapesCommit ==
  ASSUME Shapes, NEW n \in Networks, Commits(n)
  PROVE  Shapes'
BY DEF Shapes, Commits, Found, Labels

\* The key of a status that is found is kept for the event.
Keys(n, i, l) ==
  /\ pc' = [pc EXCEPT ![n] = l] /\ sid' = [sid EXCEPT ![n] = i]
  /\ l = "newStatus" => i = sid[n]
  /\ l = "event" => StatusesOf(cur[n].msg) # {} /\ i = Min(StatusesOf(cur[n].msg))
  /\ l \in {"newStatus", "event"} /\ i \in Nat
  /\ UNCHANGED <<load, chain, blocks, statuses, hidden, overtaken, events, at, since, queue,
                 cur, found>>

LEMMA FindIs ==
  ASSUME Shapes, SharedStatus, NEW n \in Networks, FindStatus(n) \/ FindAgain(n)
  PROVE  /\ pc[n] \in {"findStatus", "findAgain"}
         /\ \E i \in Nat : \E l \in {"newStatus", "event"} : Keys(n, i, l)
<1>1. statuses \in Seq(StatusRow) /\ sid \in [Networks -> Nat]
  BY DEF Shapes
<1>2. CASE FindStatus(n) /\ StatusesOf(cur[n].msg) = {}
  <2>1. sid' = [sid EXCEPT ![n] = sid[n]] /\ sid[n] \in Nat
    BY <1>1, <1>2 DEF FindStatus
  <2>2. Keys(n, sid[n], "newStatus")
    BY <1>2, <2>1 DEF FindStatus, Keys, Goto, tables, stream
  <2>3. QED BY <1>2, <2>1, <2>2 DEF FindStatus
<1>3. CASE FindStatus(n) /\ StatusesOf(cur[n].msg) # {}
  <2>1. Min(StatusesOf(cur[n].msg)) \in Nat
    BY <1>1, <1>3, FirstIs
  <2>2. Keys(n, Min(StatusesOf(cur[n].msg)), "event")
    BY <1>3, <2>1 DEF FindStatus, Keys, Goto, tables, stream
  <2>3. QED BY <1>3, <2>1, <2>2 DEF FindStatus
<1>4. CASE FindAgain(n)
  <2>1. StatusesOf(cur[n].msg) # {} /\ pc[n] = "findAgain"
    BY <1>4 DEF FindAgain, SharedStatus
  <2>2. Min(StatusesOf(cur[n].msg)) \in Nat
    BY <1>1, <2>1, FirstIs
  <2>3. Keys(n, Min(StatusesOf(cur[n].msg)), "event")
    BY <1>4, <2>1, <2>2 DEF FindAgain, FoundAgain, Keys, Goto, tables, stream
  <2>4. QED BY <2>1, <2>2, <2>3
<1>5. QED BY <1>2, <1>3, <1>4

LEMMA ShapesKeys ==
  ASSUME Shapes, NEW n \in Networks, NEW i, NEW l, Keys(n, i, l)
  PROVE  Shapes'
<1>1. sid' \in [Networks -> Nat] /\ pc' \in [Networks -> Labels]
  BY DEF Keys, Shapes, Labels
<1>2. QED BY <1>1 DEF Shapes, Found, Keys

\* The row of the event that is handled.
Recording(n) == [msg |-> cur[n].msg, step |-> cur[n].step, height |-> cur[n].height,
                 sid |-> sid[n], final |-> FALSE]

LEMMA StoreEventIs ==
  ASSUME Shapes, NEW n \in Networks, cur[n] \in ChainEvent, StoreEvent(n)
  PROVE  /\ events' \in Seq(EventRow) /\ Len(events') = Len(events) + 1
         /\ \A i \in DOMAIN events : events'[i] = events[i]
         /\ events'[Len(events) + 1] = Recording(n)
         /\ DOMAIN events' = DOMAIN events \cup {Len(events) + 1}
         /\ Len(events) \in Nat /\ DOMAIN events = 1..Len(events)
         /\ pc[n] = "event" /\ pc' = [pc EXCEPT ![n] = "links"]
         /\ UNCHANGED <<load, chain, blocks, statuses, hidden, overtaken, at, since, queue, cur, sid, found>>
<1>1. events \in Seq(EventRow) /\ Len(events) \in Nat /\ Recording(n) \in EventRow
  BY DEF Shapes, Recording, EventRow, ChainEvent
<1>2. events' = Append(events, Recording(n)) /\ pc[n] = "event"
      /\ pc' = [pc EXCEPT ![n] = "links"]
      /\ UNCHANGED <<load, chain, blocks, statuses, hidden, overtaken, at, since, queue, cur, sid, found>>
  BY DEF StoreEvent, Recording, Goto, stream, handler
<1>3. QED BY <1>1, <1>2

LEMMA ShapesStoreEvent ==
  ASSUME Shapes, NEW n \in Networks, cur[n] \in ChainEvent, StoreEvent(n)
  PROVE  Shapes'
<1>1. /\ events' \in Seq(EventRow) /\ DOMAIN events \subseteq DOMAIN events'
      /\ pc' = [pc EXCEPT ![n] = "links"]
      /\ UNCHANGED <<load, chain, blocks, statuses, hidden, overtaken, at, since, queue, cur, sid, found>>
  BY StoreEventIs
<1>2. pc' \in [Networks -> Labels]
  BY <1>1 DEF Shapes, Labels
<1>3. QED BY <1>1, <1>2 DEF Shapes, Found

LEMMA ShapesGetLinks ==
  ASSUME Shapes, NEW n \in Networks, GetLinks(n) \/ GetLinksFails(n)
  PROVE  Shapes'
<1>1. \E w : Found(w) /\ found' = [found EXCEPT ![n] = w]
  <2>1. CASE GetLinks(n)
    <3>1. PICK w \in Walks(cur[n].msg) : found' = [found EXCEPT ![n] = w]
      BY <2>1 DEF GetLinks
    <3>2. Found(w)
      BY WalksAreFound DEF Shapes
    <3>3. QED BY <3>1, <3>2
  <2>2. CASE GetLinksFails(n)
    BY <2>2, NothingFound DEF GetLinksFails
  <2>3. QED BY <2>1, <2>2
<1>2. PICK w : Found(w) /\ found' = [found EXCEPT ![n] = w]
  BY <1>1
<1>3. /\ UNCHANGED <<load, chain, blocks, statuses, hidden, overtaken, events, at, since, queue, cur, sid>>
      /\ pc' = [pc EXCEPT ![n] = "save"]
  BY DEF GetLinks, GetLinksFails, tables, stream, Goto
<1>4. DOMAIN found' = Networks /\ \A v \in Networks : found'[v] = IF v = n THEN w ELSE found[v]
  BY <1>2 DEF Shapes
<1>5. \A v \in Networks : Found(found[v])'
  BY <1>2, <1>3, <1>4 DEF Shapes, Found
<1>6. pc' \in [Networks -> Labels]
  BY <1>3 DEF Shapes, Labels
<1>7. QED BY <1>3, <1>4, <1>5, <1>6 DEF Shapes

LEMMA SaveStatusIs ==
  ASSUME Shapes, NEW n \in Networks, SaveStatus(n)
  PROVE  /\ pc' = [pc EXCEPT ![n] = "stream"]
         /\ cur' = [cur EXCEPT ![n] = None] /\ sid' = [sid EXCEPT ![n] = 0]
         /\ found' = [found EXCEPT ![n] = NoLinks]
         /\ UNCHANGED <<load, chain, blocks, hidden, overtaken, events, at, since, queue>>
         /\ statuses' \in Seq(StatusRow) /\ Len(statuses') = Len(statuses)
         /\ \A i \in DOMAIN statuses :
              /\ statuses'[i].msg = statuses[i].msg
              /\ i # sid[n] => statuses'[i] = statuses[i]
              /\ i = sid[n] => /\ statuses'[i].links = found[n].links
                               /\ statuses'[i].status = found[n].status
<1>1. statuses \in Seq(StatusRow) /\ DOMAIN statuses = 1..Len(statuses) /\ Len(statuses) \in Nat
  BY DEF Shapes
<1>2. found[n].links \in Seq(Nat) /\ found[n].status \in Statuses
  BY DEF Shapes, Found
<1> DEFINE row(i) == IF i = sid[n] THEN [statuses[i] EXCEPT !.links = found[n].links,
                                                            !.status = found[n].status]
                     ELSE statuses[i]
<1>3. \A i \in DOMAIN statuses :
        /\ row(i) \in StatusRow /\ row(i).msg = statuses[i].msg
        /\ i # sid[n] => row(i) = statuses[i]
        /\ i = sid[n] => row(i).links = found[n].links /\ row(i).status = found[n].status
  <2>1. ASSUME NEW i \in DOMAIN statuses PROVE statuses[i] \in StatusRow
    BY <1>1
  <2>2. QED BY <1>2, <2>1 DEF StatusRow
<1>4. statuses' = [i \in 1..Len(statuses) |-> row(i)]
  BY <1>1 DEF SaveStatus
<1> HIDE DEF row
<1>5. statuses' \in Seq(StatusRow) /\ Len(statuses') = Len(statuses)
  BY <1>1, <1>3, <1>4
<1>6. \A i \in DOMAIN statuses : statuses'[i] = row(i)
  BY <1>1, <1>4
<1>7. QED BY <1>3, <1>5, <1>6 DEF SaveStatus, Goto, Forget, stream

LEMMA ShapesSaveStatus ==
  ASSUME Shapes, NEW n \in Networks, SaveStatus(n)
  PROVE  Shapes'
<1>1. /\ pc' = [pc EXCEPT ![n] = "stream"]
      /\ cur' = [cur EXCEPT ![n] = None] /\ sid' = [sid EXCEPT ![n] = 0]
      /\ found' = [found EXCEPT ![n] = NoLinks]
      /\ UNCHANGED <<load, chain, blocks, hidden, overtaken, events, at, since, queue>>
      /\ statuses' \in Seq(StatusRow) /\ Len(statuses') = Len(statuses)
      /\ \A i \in DOMAIN statuses :
           /\ i # sid[n] => statuses'[i] = statuses[i]
           /\ i = sid[n] => statuses'[i].links = found[n].links
  BY SaveStatusIs
<1>2. DOMAIN statuses' = DOMAIN statuses
  BY <1>1 DEF Shapes
<1>3. \A i \in DOMAIN statuses' : \A k \in DOMAIN statuses'[i].links :
        statuses'[i].links[k] \in DOMAIN events'
  BY <1>1, <1>2 DEF Shapes, Found
<1>4. /\ pc' \in [Networks -> Labels] /\ cur' \in [Networks -> ChainEvent \cup {None}]
      /\ sid' \in [Networks -> Nat]
  BY <1>1 DEF Shapes, Labels
<1>5. DOMAIN found' = Networks /\ \A v \in Networks : Found(found[v])'
  BY <1>1, NothingFound DEF Shapes, Found
<1>6. QED BY <1>1, <1>3, <1>4, <1>5 DEF Shapes

\* The blocks that become final, with their events.
Finalizes(n, ids) ==
  /\ ids \subseteq {b \in blocks : b.net = n /\ ~ b.final}
  /\ blocks' = (blocks \ ids) \cup {[b EXCEPT !.final = TRUE] : b \in ids}
  /\ events' \in Seq(EventRow) /\ Len(events') = Len(events)
  /\ \A i \in DOMAIN events :
       /\ events'[i].msg = events[i].msg /\ events'[i].step = events[i].step
       /\ events'[i].height = events[i].height /\ events'[i].sid = events[i].sid
       /\ events'[i].final <=> (events[i].final \/ \E b \in ids : InBlock(b, i))
  /\ UNCHANGED <<load, chain, statuses, hidden, overtaken, pc, at, since, queue, cur, sid, found>>

LEMMA FinalizeIs ==
  ASSUME Shapes, NEW n \in Networks, FinalizeBlock(n)
  PROVE  \E ids : Finalizes(n, ids)
<1>1. PICK h \in 1..HeadOf(n) :
        LET ids == {b \in blocks : b.net = n /\ ~b.final /\ b.height <= h}
        IN /\ blocks' = (blocks \ ids) \cup {[b EXCEPT !.final = TRUE] : b \in ids}
           /\ events' = [i \in DOMAIN events |->
                [events[i] EXCEPT !.final = @ \/ \E b \in ids : InBlock(b, i)]]
           /\ UNCHANGED <<load, chain, statuses, hidden, overtaken, pc, stream, handler>>
  BY DEF FinalizeBlock
<1> DEFINE ids == {b \in blocks : b.net = n /\ ~b.final /\ b.height <= h}
           row(i) == [events[i] EXCEPT !.final = @ \/ \E b \in ids : InBlock(b, i)]
<1>2. events \in Seq(EventRow) /\ DOMAIN events = 1..Len(events) /\ Len(events) \in Nat
  BY DEF Shapes
<1>3. ASSUME NEW i \in DOMAIN events
      PROVE  /\ row(i) \in EventRow
             /\ row(i).msg = events[i].msg /\ row(i).step = events[i].step
             /\ row(i).height = events[i].height /\ row(i).sid = events[i].sid
             /\ row(i).final = (events[i].final \/ \E b \in ids : InBlock(b, i))
  <2>1. events[i] \in EventRow
    BY <1>2
  <2>2. QED BY <2>1 DEF EventRow
<1>4. events' = [i \in 1..Len(events) |-> row(i)]
  BY <1>1, <1>2
<1> HIDE DEF row
<1>5. events' \in Seq(EventRow) /\ Len(events') = Len(events)
  BY <1>2, <1>3, <1>4
<1>6. \A i \in DOMAIN events : events'[i] = row(i)
  BY <1>2, <1>4
<1>7. UNCHANGED <<load, chain, statuses, hidden, overtaken, pc, at, since, queue, cur, sid, found>>
  BY <1>1 DEF stream, handler
<1>8. ids \subseteq {b \in blocks : b.net = n /\ ~ b.final}
  OBVIOUS
<1>9. blocks' = (blocks \ ids) \cup {[b EXCEPT !.final = TRUE] : b \in ids}
  BY <1>1
<1> HIDE DEF ids
<1>10. Finalizes(n, ids)
  BY <1>3, <1>5, <1>6, <1>7, <1>8, <1>9 DEF Finalizes
<1>11. QED BY <1>10

LEMMA ShapesFinalize ==
  ASSUME Shapes, NEW n \in Networks, NEW ids, Finalizes(n, ids)
  PROVE  Shapes'
<1>1. blocks' \subseteq BlockRow
  <2>1. \A b \in BlockRow : [b EXCEPT !.final = TRUE] \in BlockRow
    BY DEF BlockRow
  <2>2. blocks \subseteq BlockRow /\ ids \subseteq blocks
    BY DEF Shapes, Finalizes
  <2>3. QED BY <2>1, <2>2 DEF Finalizes
<1>2. events' \in Seq(EventRow) /\ DOMAIN events' = DOMAIN events
  BY DEF Shapes, Finalizes
<1>3. UNCHANGED <<load, chain, statuses, hidden, overtaken, pc, at, since, queue, cur, sid, found>>
  BY DEF Finalizes
<1>4. QED BY <1>1, <1>2, <1>3 DEF Shapes, Found


-----------------------------------------------------------------------------
(* Every step keeps the streams in step with the chains and the blocks.    *)

\* The events of a new block.
Appends(n, B) ==
  /\ B \in Seq(ChainEvent) /\ B # <<>>
  /\ \A i \in DOMAIN B : /\ B[i].step \in DOMAIN Journey[B[i].msg]
                         /\ Step(B[i]).net = n /\ B[i].height = HeadOf(n) + 1
  /\ chain' = [chain EXCEPT ![n] = @ \o B]
  /\ UNCHANGED <<load, blocks, statuses, hidden, overtaken, events, pc, at, since, queue, cur,
                 sid, found>>

LEMMA NewBlockIs ==
  ASSUME Shapes, \A v \in Networks : ChainOK(v), NEW n \in Networks, NewBlock(n)
  PROVE  \E B : Appends(n, B)
<1>1. PICK k \in 1..MaxBlockSize : \E ms \in [1..k -> Messages] :
        /\ \A e \in Range(BlockWith(n, ms)) : e.step <= Len(Journey[e.msg]) /\ Step(e).net = n
        /\ chain' = [chain EXCEPT ![n] = @ \o BlockWith(n, ms)]
  BY DEF NewBlock
<1>2. PICK ms \in [1..k -> Messages] :
        /\ \A e \in Range(BlockWith(n, ms)) : e.step <= Len(Journey[e.msg]) /\ Step(e).net = n
        /\ chain' = [chain EXCEPT ![n] = @ \o BlockWith(n, ms)]
  BY <1>1
<1>3. k \in Nat /\ k # 0
  BY TrackerAssumption
<1> DEFINE B == BlockWith(n, ms)
<1>4. /\ B \in Seq(ChainEvent) /\ Len(B) = k
      /\ \A i \in 1..k : IsNext(B[i], n, ms, i)
  BY <1>2, <1>3, NewEvents
<1>5. UNCHANGED <<load, blocks, statuses, hidden, overtaken, events, pc, at, since, queue, cur,
                  sid, found>>
  BY DEF NewBlock, tables, stream, handler
<1>6. chain' = [chain EXCEPT ![n] = @ \o B]
  BY <1>2
<1> HIDE DEF B
<1>7. DOMAIN B = 1..k /\ B # <<>>
  BY <1>3, <1>4
<1>8. Appends(n, B)
  BY <1>4, <1>5, <1>6, <1>7 DEF Appends, IsNext
<1>9. QED BY <1>8

LEMMA ChainGrows ==
  ASSUME Shapes, NEW n \in Networks, NEW B, Appends(n, B)
  PROVE  /\ Len(B) \in Nat \ {0} /\ Len(chain[n]) \in Nat
         /\ chain'[n] \in Seq(ChainEvent) /\ Len(chain'[n]) = Len(chain[n]) + Len(B)
         /\ \A i \in DOMAIN chain[n] : chain'[n][i] = chain[n][i]
         /\ \A i \in DOMAIN chain'[n] :
              i \notin DOMAIN chain[n] => /\ i - Len(chain[n]) \in DOMAIN B
                                          /\ chain'[n][i] = B[i - Len(chain[n])]
         /\ HeadOf(n)' = HeadOf(n) + 1
         /\ \A v \in Networks \ {n} : chain'[v] = chain[v]
<1>1. chain[n] \in Seq(ChainEvent) /\ chain'[n] = chain[n] \o B /\ B \in Seq(ChainEvent) /\ B # <<>>
  BY DEF Shapes, Appends
<1>2. /\ Len(B) \in Nat \ {0} /\ Len(chain[n]) \in Nat
      /\ chain'[n] \in Seq(ChainEvent) /\ Len(chain'[n]) = Len(chain[n]) + Len(B)
      /\ \A i \in DOMAIN chain[n] : chain'[n][i] = chain[n][i]
      /\ \A i \in DOMAIN chain'[n] :
           i \notin DOMAIN chain[n] => /\ i - Len(chain[n]) \in DOMAIN B
                                       /\ chain'[n][i] = B[i - Len(chain[n])]
  BY <1>1
<1>3. Len(chain'[n]) \in DOMAIN chain'[n] /\ Len(chain'[n]) \notin DOMAIN chain[n]
  BY <1>1, <1>2
<1>4. chain'[n][Len(chain'[n])].height = HeadOf(n) + 1 /\ chain'[n] # <<>>
  BY <1>1, <1>2, <1>3 DEF Appends
<1>5. HeadOf(n)' = HeadOf(n) + 1
  BY <1>4 DEF HeadOf, Last
<1>6. \A v \in Networks \ {n} : chain'[v] = chain[v]
  BY DEF Shapes, Appends
<1>7. QED BY <1>2, <1>5, <1>6

LEMMA StreamNewBlock ==
  ASSUME Shapes, NEW n \in Networks, NEW B, Appends(n, B),
         NEW v \in Networks, ChainOK(v), StreamFollows(v)
  PROVE  ChainOK(v)' /\ StreamFollows(v)'
<1>1. RecordedHeights(v)' = RecordedHeights(v) /\ UNCHANGED <<load, at, since>>
  BY DEF Appends, RecordedHeights
<1>2. CASE v # n
  <2>1. chain'[v] = chain[v] /\ HeadOf(v)' = HeadOf(v)
    BY <1>2, ChainGrows DEF HeadOf
  <2>2. QED BY <1>1, <2>1 DEF ChainOK, StreamFollows, Step
<1>3. CASE v = n
  <2>1. /\ \A i \in DOMAIN chain[n] : chain'[n][i] = chain[n][i]
        /\ \A i \in DOMAIN chain'[n] :
             i \notin DOMAIN chain[n] => /\ i - Len(chain[n]) \in DOMAIN B
                                         /\ chain'[n][i] = B[i - Len(chain[n])]
        /\ HeadOf(n)' = HeadOf(n) + 1 /\ HeadOf(n) \in Nat
    BY ChainGrows, HeadIsNat
  <2>2. DOMAIN chain[n] = 1..Len(chain[n]) /\ DOMAIN chain'[n] = 1..Len(chain'[n])
        /\ Len(chain[n]) \in Nat /\ Len(chain'[n]) \in Nat
    BY ChainGrows, SMTT(30) DEF Shapes
  <2>3. ASSUME NEW i \in DOMAIN chain'[n]
        PROVE  /\ chain'[n][i].step \in DOMAIN Journey[chain'[n][i].msg]
               /\ Step(chain'[n][i]).net = n
               /\ chain'[n][i].height \in 1..(HeadOf(n) + 1)
               /\ i \notin DOMAIN chain[n] => chain'[n][i].height = HeadOf(n) + 1
               /\ i \in DOMAIN chain[n] => chain'[n][i].height = chain[n][i].height
    <3>1. CASE i \in DOMAIN chain[n]
      BY <1>3, <2>1, <3>1 DEF ChainOK
    <3>2. CASE i \notin DOMAIN chain[n]
      BY <2>1, <3>2 DEF Appends
    <3>3. QED BY <3>1, <3>2
  <2>4. ASSUME NEW i \in DOMAIN chain'[n], NEW j \in DOMAIN chain'[n], i <= j
        PROVE  chain'[n][i].height <= chain'[n][j].height
    <3>1. CASE j \in DOMAIN chain[n]
      <4>1. i \in DOMAIN chain[n]
        BY <2>2, <2>4, <3>1
      <4>2. QED BY <1>3, <2>3, <2>4, <3>1, <4>1 DEF ChainOK
    <3>2. CASE j \notin DOMAIN chain[n]
      BY <2>1, <2>3, <3>2
    <3>3. QED BY <3>1, <3>2
  <2>5. ChainOK(n)'
    BY <2>1, <2>3, <2>4 DEF ChainOK, Step
  <2>6. StreamFollows(n)'
    BY <1>1, <1>3, <2>1 DEF StreamFollows
  <2>7. QED BY <1>3, <2>5, <2>6
<1>4. QED BY <1>2, <1>3

\* The first events of a rising chain below height h; what follows them.
Below(c, q, h) == \A i \in DOMAIN c : (i <= q) <=> (c[i].height < h)

Rising(c) == \A i, j \in DOMAIN c : i <= j => c[i].height <= c[j].height

\* The events a to b of the chain are those at height h.
IsBlock(c, h, a, b) ==
  /\ a <= b /\ c[a].height = h
  /\ \A i \in DOMAIN c : (c[i].height = h) <=> (a <= i /\ i <= b)

\* The events u follow the first q of the chain.
Follow(c, q, u, h) == \A i \in DOMAIN u : u[i] = c[q + i] /\ u[i].height + 1 = h

\* An event e of the chain, and the rest of its block.
NextInChain(c, q, e, rest) ==
  /\ q + 1 \in DOMAIN c /\ e = c[q + 1] /\ e.height \in Nat
  /\ \A i \in DOMAIN rest : rest[i] = c[q + 1 + i] /\ rest[i].height = e.height
  /\ q + 1 + Len(rest) <= Len(c)
  /\ Below(c, q + 1 + Len(rest), e.height + 1)

BeginsBlock(c, q, u, h) ==
  u # <<>> /\ NextInChain(c, q, Head(u), Tail(u)) /\ Head(u).height = h

LEMMA RestOfBlock ==
  ASSUME NEW c \in Seq(ChainEvent), NEW h \in Nat, NEW q \in Nat, NEW u \in Seq(ChainEvent), u # <<>>,
         Follow(c, q, u, h), q + Len(u) <= Len(c), Below(c, q + Len(u), h)
  PROVE  NextInChain(c, q, Head(u), Tail(u)) /\ Head(u).height + 1 = h
<1>1. /\ Len(u) \in Nat /\ Len(u) >= 1 /\ DOMAIN u = 1..Len(u)
      /\ Len(c) \in Nat /\ DOMAIN c = 1..Len(c)
  OBVIOUS
<1>2. /\ Head(u) = u[1] /\ Tail(u) \in Seq(ChainEvent) /\ Len(Tail(u)) = Len(u) - 1
      /\ \A i \in 1..(Len(u) - 1) : Tail(u)[i] = u[i + 1]
      /\ DOMAIN Tail(u) = 1..(Len(u) - 1)
  OBVIOUS
<1>3. \A i \in 1..Len(u) : u[i].height \in Nat /\ u[i].height = h - 1 /\ u[i] = c[q + i]
  <2>1. \A i \in 1..Len(u) : u[i] \in ChainEvent
    OBVIOUS
  <2>2. \A i \in 1..Len(u) : u[i].height \in Nat
    BY <2>1 DEF ChainEvent
  <2>3. \A i \in 1..Len(u) : u[i] = c[q + i] /\ u[i].height + 1 = h
    BY <1>1 DEF Follow
  <2>4. \A k \in Nat : k + 1 = h => k = h - 1
    OBVIOUS
  <2>5. QED BY <2>2, <2>3, <2>4
<1>4. 1 \in 1..Len(u) /\ q + 1 \in DOMAIN c
  BY <1>1
<1>5. ASSUME NEW i \in 1..(Len(u) - 1)
      PROVE  Tail(u)[i] = c[q + 1 + i] /\ Tail(u)[i].height = h - 1
  <2>1. i + 1 \in 1..Len(u) /\ q + (i + 1) = q + 1 + i
    BY <1>1
  <2>2. QED BY <1>2, <1>3, <2>1
<1>6. q + 1 + Len(Tail(u)) = q + Len(u)
  BY <1>1, <1>2
<1>7. Head(u) = c[q + 1] /\ Head(u).height \in Nat /\ Head(u).height = h - 1
  BY <1>2, <1>3, <1>4
<1>8. Head(u).height + 1 = h
  BY <1>7
<1>9. QED BY <1>2, <1>4, <1>5, <1>6, <1>7, <1>8 DEF NextInChain

LEMMA NextBlock ==
  ASSUME NEW c \in Seq(ChainEvent), NEW h \in Nat, NEW q \in Nat, Below(c, q, h),
         Rising(c), NEW a \in DOMAIN c, NEW b \in DOMAIN c, IsBlock(c, h, a, b)
  PROVE  BeginsBlock(c, q, SubSeq(c, a, b), h)
<1> DEFINE u == SubSeq(c, a, b)
<1>1. /\ a \in Nat /\ b \in Nat /\ 1 <= a /\ b <= Len(c) /\ Len(c) \in Nat
      /\ DOMAIN c = 1..Len(c) /\ a <= b
  BY DEF IsBlock
<1>2. \A i \in DOMAIN c : c[i].height \in Nat
  <2>1. \A i \in DOMAIN c : c[i] \in ChainEvent
    OBVIOUS
  <2>2. QED BY <2>1 DEF ChainEvent
<1>3. \A i \in DOMAIN c : (c[i].height = h) <=> (a <= i /\ i <= b)
  BY DEF IsBlock
<1>4. a = q + 1
  <2>1. ~ (a <= q)
    BY DEF Below, IsBlock
  <2>2. q + 1 \in DOMAIN c /\ q + 1 <= a /\ ~ (q + 1 <= q)
    BY <1>1, <2>1
  <2>3. ~ (c[q + 1].height < h) /\ c[q + 1].height <= c[a].height
    BY <2>2 DEF Below, Rising
  <2>4. c[q + 1].height = h
    BY <1>2, <2>2, <2>3 DEF IsBlock
  <2>5. a <= q + 1
    BY <1>3, <2>2, <2>4
  <2>6. QED BY <1>1, <2>2, <2>5
<1>5. /\ u \in Seq(ChainEvent) /\ Len(u) = b - a + 1
      /\ \A i \in 1..(b - a + 1) : u[i] = c[a + i - 1]
  <2>1. \A i \in a..b : c[i] \in ChainEvent
    BY <1>1
  <2>2. a \in Int /\ b \in Int
    BY <1>1
  <2>3. QED BY <1>1, <2>1, <2>2, SubSeqProperties
<1> HIDE DEF u
<1>6. u # <<>> /\ Len(u) >= 1
  BY <1>1, <1>5
<1>7. /\ Head(u) = u[1] /\ Tail(u) \in Seq(ChainEvent) /\ Len(Tail(u)) = b - a
      /\ \A i \in 1..(b - a) : Tail(u)[i] = u[i + 1]
      /\ DOMAIN Tail(u) = 1..(b - a)
  <2>1. Head(u) = u[1] /\ Tail(u) \in Seq(ChainEvent) /\ Len(Tail(u)) = Len(u) - 1
    BY <1>5, <1>6
  <2>2. Len(Tail(u)) = b - a /\ DOMAIN Tail(u) = 1..(b - a)
    BY <1>1, <1>5, <2>1
  <2>3. \A i \in 1..Len(Tail(u)) : Tail(u)[i] = u[i + 1]
    BY <1>5, <1>6
  <2>4. QED BY <2>1, <2>2, <2>3
<1>8. Head(u) = c[q + 1] /\ Head(u).height = h /\ q + 1 \in DOMAIN c
  <2>1. 1 \in 1..(b - a + 1) /\ a + 1 - 1 = q + 1
    BY <1>1, <1>4
  <2>2. QED BY <1>4, <1>5, <1>7, <2>1 DEF IsBlock
<1>9. ASSUME NEW i \in 1..(b - a)
      PROVE  Tail(u)[i] = c[q + 1 + i] /\ Tail(u)[i].height = h
  <2>1. /\ i + 1 \in 1..(b - a + 1) /\ a + (i + 1) - 1 = q + 1 + i
        /\ q + 1 + i \in DOMAIN c /\ a <= q + 1 + i /\ q + 1 + i <= b
    <3>1. i \in Nat /\ 1 <= i /\ i <= b - a
      BY <1>1
    <3>2. QED BY <1>1, <1>4, <3>1
  <2>2. Tail(u)[i] = c[q + 1 + i]
    BY <1>5, <1>7, <2>1
  <2>3. QED BY <1>3, <2>1, <2>2
<1>10. q + 1 + Len(Tail(u)) = b
  <2>1. Len(Tail(u)) = b - a
    BY <1>7
  <2>2. q + 1 + (b - a) = b
    BY <1>1, <1>4
  <2>3. QED BY <2>1, <2>2
<1>11. ASSUME NEW i \in DOMAIN c
       PROVE  (i <= b) <=> (c[i].height < h + 1)
  <2>1. /\ c[i].height \in Nat /\ i \in Nat
        /\ (i <= q) <=> (c[i].height < h)
        /\ (c[i].height = h) <=> (a <= i /\ i <= b)
    BY <1>1, <1>2, <1>3 DEF Below
  <2>2. QED BY <1>1, <1>4, <2>1
<1>12. NextInChain(c, q, Head(u), Tail(u))
  BY <1>1, <1>7, <1>8, <1>9, <1>10, <1>11 DEF NextInChain, Below
<1>13. QED BY <1>6, <1>8, <1>12 DEF u, BeginsBlock

\* An event and the rest of its block, as the stream passes them on.
LEMMA NextIs ==
  ASSUME Shapes, NEW n \in Networks, ChainOK(n),
         NEW q \in 0..Len(chain[n]), PassedOn(n, q), Pending(n) # <<>>
  PROVE  /\ NextInChain(chain[n], q, Head(Pending(n)), Tail(Pending(n)))
         /\ \/ Head(Pending(n)).height = at[n]
            \/ Head(Pending(n)).height + 1 = at[n] /\ queue[n] # <<>>
<1>1. /\ chain[n] \in Seq(ChainEvent) /\ q \in Nat /\ queue[n] \in Seq(ChainEvent)
      /\ at[n] \in Nat /\ Len(queue[n]) \in Nat
  BY DEF Shapes
<1>2. /\ Follow(chain[n], q, queue[n], at[n])
      /\ q + Len(queue[n]) <= Len(chain[n])
      /\ Below(chain[n], q + Len(queue[n]), at[n])
  BY DEF PassedOn, Below, Follow
<1>3. CASE queue[n] # <<>>
  <2>1. /\ NextInChain(chain[n], q, Head(queue[n]), Tail(queue[n]))
        /\ Head(queue[n]).height + 1 = at[n]
    BY <1>1, <1>2, <1>3, RestOfBlock
  <2>2. Pending(n) = queue[n]
    BY <1>3 DEF Pending
  <2>3. QED BY <1>3, <2>1, <2>2
<1>4. CASE queue[n] = <<>>
  <2>1. Pending(n) = BlockEvents(n, at[n]) /\ q + Len(queue[n]) = q
    BY <1>1, <1>4 DEF Pending
  <2>2. PICK a \in DOMAIN chain[n] : \E b \in DOMAIN chain[n] :
           /\ a <= b /\ BlockEvents(n, at[n]) = SubSeq(chain[n], a, b)
           /\ chain[n][a].height = at[n]
           /\ \A i \in DOMAIN chain[n] : (chain[n][i].height = at[n]) <=> (a <= i /\ i <= b)
    BY <2>1, BlockIs
  <2>3. PICK b \in DOMAIN chain[n] :
           /\ a <= b /\ BlockEvents(n, at[n]) = SubSeq(chain[n], a, b)
           /\ chain[n][a].height = at[n]
           /\ \A i \in DOMAIN chain[n] : (chain[n][i].height = at[n]) <=> (a <= i /\ i <= b)
    BY <2>2
  <2>4. Rising(chain[n])
    BY DEF ChainOK, Rising
  <2>5. Below(chain[n], q, at[n])
    BY <1>2, <2>1
  <2>6. IsBlock(chain[n], at[n], a, b)
    BY <2>3 DEF IsBlock
  <2>7. BeginsBlock(chain[n], q, SubSeq(chain[n], a, b), at[n])
    BY <1>1, <2>4, <2>5, <2>6, NextBlock
  <2>8. Pending(n) = SubSeq(chain[n], a, b)
    BY <2>1, <2>3
  <2>9. QED BY <2>7, <2>8 DEF BeginsBlock
<1>5. QED BY <1>3, <1>4


LEMMA RecordedAfter ==
  ASSUME NEW n \in Networks, NEW e, NEW rest, Takes(n, e, rest)
  PROVE  /\ RecordedHeights(n)' = RecordedHeights(n) \cup {e.height}
         /\ \A v \in Networks \ {n} : RecordedHeights(v)' = RecordedHeights(v)
<1>1. CASE BlockOf(n, e) # {}
  <2>1. e.height \in RecordedHeights(n)
    BY <1>1 DEF BlockOf, RecordedHeights
  <2>2. blocks' = blocks
    BY <1>1 DEF Takes
  <2>3. QED BY <2>1, <2>2 DEF RecordedHeights
<1>2. CASE BlockOf(n, e) = {}
  <2>1. blocks' = blocks \cup {[net |-> n, height |-> e.height, final |-> FALSE]}
    BY <1>2 DEF Takes
  <2> DEFINE b == [net |-> n, height |-> e.height, final |-> FALSE]
  <2>2. b.net = n /\ b.height = e.height
    OBVIOUS
  <2> HIDE DEF b
  <2>3. ASSUME NEW v \in Networks
        PROVE  RecordedHeights(v)' = {c.height : c \in {d \in blocks \cup {b} : d.net = v}}
    BY <2>1 DEF RecordedHeights, b
  <2>4. RecordedHeights(n)' = RecordedHeights(n) \cup {e.height}
    BY <2>2, <2>3 DEF RecordedHeights
  <2>5. \A v \in Networks \ {n} : RecordedHeights(v)' = RecordedHeights(v)
    BY <2>2, <2>3 DEF RecordedHeights
  <2>6. QED BY <2>4, <2>5
<1>3. QED BY <1>1, <1>2

LEMMA StreamTakes ==
  ASSUME Shapes, NEW n \in Networks, NEW e, NEW rest, NEW q \in Nat, Takes(n, e, rest),
         NextInChain(chain[n], q, e, rest), e.height = at[n] \/ e.height + 1 = at[n],
         NEW v \in Networks, ChainOK(v), StreamFollows(v)
  PROVE  ChainOK(v)' /\ StreamFollows(v)'
<1>1. UNCHANGED <<load, chain, since>> /\ HeadOf(v)' = HeadOf(v) /\ HeadOf(v) \in Nat
  BY HeadIsNat DEF Takes, HeadOf
<1>2. ChainOK(v)'
  BY <1>1 DEF ChainOK, Step
<1>3. CASE v # n
  <2>1. at'[v] = at[v] /\ RecordedHeights(v)' = RecordedHeights(v)
    BY <1>3, RecordedAfter DEF Takes, Shapes
  <2>2. QED BY <1>1, <1>2, <2>1 DEF StreamFollows
<1>4. CASE v = n
  <2>1. at'[n] = e.height + 1 /\ RecordedHeights(n)' = RecordedHeights(n) \cup {e.height}
    BY RecordedAfter DEF Takes, Shapes
  <2>2. e.height \in 1..HeadOf(n) /\ e.height \in Nat
    BY <1>4 DEF NextInChain, ChainOK
  <2>3. /\ RecordedHeights(n) \subseteq 1..(at[n] - 1) /\ at[n] \in Nat \ {0}
        /\ since[n] \in Nat \ {0} /\ since[n]..(at[n] - 1) \subseteq RecordedHeights(n)
    BY <1>1, <1>4 DEF StreamFollows, Shapes
  <2>4. RecordedHeights(n)' \subseteq 1..e.height
    BY <2>1, <2>2, <2>3
  <2>5. since[n]..e.height \subseteq RecordedHeights(n)'
    BY <2>1, <2>2, <2>3
  <2>6. at'[n] \in 1..(HeadOf(n) + 1) /\ at'[n] - 1 = e.height
    BY <1>1, <1>4, <2>1, <2>2
  <2>7. QED BY <1>1, <1>2, <1>4, <2>3, <2>4, <2>5, <2>6 DEF StreamFollows
<1>5. QED BY <1>3, <1>4

LEMMA StreamFinalize ==
  ASSUME Shapes, NEW n \in Networks, NEW ids, Finalizes(n, ids),
         NEW v \in Networks, ChainOK(v), StreamFollows(v)
  PROVE  ChainOK(v)' /\ StreamFollows(v)'
<1>1. UNCHANGED <<load, chain, at, since>>
  BY DEF Finalizes
<1>2. RecordedHeights(v)' = RecordedHeights(v)
  <2>1. ids \subseteq blocks /\ blocks \subseteq BlockRow
        /\ blocks' = (blocks \ ids) \cup {[b EXCEPT !.final = TRUE] : b \in ids}
    BY DEF Finalizes, Shapes
  <2>2. \A b \in ids : /\ [b EXCEPT !.final = TRUE].net = b.net
                       /\ [b EXCEPT !.final = TRUE].height = b.height
    BY <2>1 DEF BlockRow
  <2>3. ASSUME NEW h \in RecordedHeights(v) PROVE h \in RecordedHeights(v)'
    <3>1. PICK b \in blocks : b.net = v /\ b.height = h
      BY DEF RecordedHeights
    <3>2. CASE b \in ids
      BY <2>1, <2>2, <3>1, <3>2 DEF RecordedHeights
    <3>3. CASE b \notin ids
      BY <2>1, <3>1, <3>3 DEF RecordedHeights
    <3>4. QED BY <3>2, <3>3
  <2>4. ASSUME NEW h \in RecordedHeights(v)' PROVE h \in RecordedHeights(v)
    <3>1. PICK b \in blocks' : b.net = v /\ b.height = h
      BY <2>4 DEF RecordedHeights
    <3>2. QED BY <2>1, <2>2, <3>1, ZenonT(60) DEF RecordedHeights
  <2>5. QED BY <2>3, <2>4
<1>3. QED BY <1>1, <1>2 DEF ChainOK, StreamFollows, HeadOf, Step

LEMMA StreamKept ==
  ASSUME NEW v \in Networks, ChainOK(v), StreamFollows(v),
         UNCHANGED <<load, chain, blocks, at, since>>
  PROVE  ChainOK(v)' /\ StreamFollows(v)'
BY DEF ChainOK, StreamFollows, HeadOf, RecordedHeights, Step

LEMMA StreamOpens ==
  ASSUME Shapes, NEW n \in Networks, Opened(n), NEW v \in Networks, ChainOK(v), StreamFollows(v)
  PROVE  ChainOK(v)' /\ StreamFollows(v)'
<1>1. /\ UNCHANGED <<load, chain, blocks>> /\ HeadOf(v)' = HeadOf(v) /\ HeadOf(v) \in Nat
      /\ RecordedHeights(v)' = RecordedHeights(v)
  BY HeadIsNat DEF Opened, HeadOf, RecordedHeights
<1>2. ChainOK(v)'
  BY <1>1 DEF ChainOK, Step
<1>3. CASE v = n /\ n \in load.subscriptions
  <2>1. at'[n] = HeadOf(n) + 1 /\ since'[n] = HeadOf(n) + 1
    BY <1>3 DEF Opened, Shapes
  <2>2. RecordedHeights(n) \subseteq 1..HeadOf(n)
    BY <1>1, <1>3 DEF StreamFollows
  <2>3. at'[n] - 1 = HeadOf(n) /\ since'[n]..(at'[n] - 1) = {} /\ at'[n] \in 1..(HeadOf(n) + 1)
    BY <1>1, <1>3, <2>1
  <2>4. since'[n] # 0
    BY <1>1, <1>3, <2>1
  <2>5. QED BY <1>1, <1>2, <1>3, <2>2, <2>3, <2>4 DEF StreamFollows
<1>4. CASE ~ (v = n /\ n \in load.subscriptions)
  <2>1. at'[v] = at[v] /\ since'[v] = since[v]
    BY <1>4 DEF Opened, Shapes
  <2>2. QED BY <1>1, <1>2, <2>1 DEF StreamFollows
<1>5. QED BY <1>3, <1>4

-----------------------------------------------------------------------------
(* Every step keeps what a stream passed on.                               *)

\* The events are the same ones, final or not.
SameEvents == /\ DOMAIN events' = DOMAIN events
              /\ \A i \in DOMAIN events :
                   /\ events'[i].msg = events[i].msg /\ events'[i].step = events[i].step
                   /\ events'[i].height = events[i].height /\ events'[i].sid = events[i].sid

LEMMA PassedKept ==
  ASSUME NEW v \in Networks, NEW q, PassedOn(v, q), SameEvents,
         chain'[v] = chain[v], at'[v] = at[v], queue'[v] = queue[v],
         Handling(v)' => Handling(v) /\ cur'[v] = cur[v],
         Unrecorded(v)' => Unrecorded(v)
  PROVE  PassedOn(v, q)'
<1>1. /\ \A i \in DOMAIN queue'[v] : /\ queue'[v][i] = chain'[v][q + i]
                                     /\ queue'[v][i].height + 1 = at'[v]
      /\ q + Len(queue'[v]) <= Len(chain'[v])
      /\ \A i \in DOMAIN chain'[v] : (i <= q + Len(queue'[v])) <=> (chain'[v][i].height < at'[v])
      /\ Handling(v)' => q >= 1 /\ cur'[v] = chain'[v][q]
  BY DEF PassedOn
<1>2. ASSUME NEW i \in DOMAIN events', Step(events'[i]).net = v
      PROVE  \E k \in 1..q : /\ Unrecorded(v)' => k < q
                             /\ chain'[v][k] = [msg |-> events'[i].msg, step |-> events'[i].step,
                                                height |-> events'[i].height]
  BY <1>2 DEF PassedOn, SameEvents, At, Step, Core
<1>3. QED BY <1>1, <1>2 DEF PassedOn, At, Step, Core

\* A stream that stops forgets the rest of a block.
LEMMA PassedStopped ==
  ASSUME Shapes, NEW v \in Networks, NEW q \in 0..Len(chain[v]), PassedOn(v, q),
         queue'[v] = <<>>, pc'[v] \in {"down", "closed"}, UNCHANGED <<load, chain, events, at, since>>
  PROVE  \E p \in 0..Len(chain'[v]) : PassedOn(v, p)'
<1>1. q \in Nat /\ Len(queue[v]) \in Nat /\ Len(chain[v]) \in Nat
  BY DEF Shapes
<1>p. PICK p \in Nat : p = q + Len(queue[v])
  BY <1>1
<1>2. p \in 0..Len(chain[v]) /\ p \in Nat /\ q <= p
  BY <1>1, <1>p DEF PassedOn
<1>3. Len(queue'[v]) = 0 /\ DOMAIN queue'[v] = {} /\ p + 0 = p
  BY <1>2
<1>4. \A i \in DOMAIN chain[v] : (i <= p) <=> (chain[v][i].height < at[v])
  BY <1>p DEF PassedOn
<1>5. ~ Unrecorded(v)' /\ ~ Handling(v)'
  BY DEF Unrecorded, Handling
<1>6. ASSUME NEW i \in DOMAIN events, At(i).net = v
      PROVE  \E k \in 1..p : chain[v][k] = Core(events[i])
  <2>1. PICK k \in 1..q : chain[v][k] = Core(events[i])
    BY <1>6 DEF PassedOn
  <2>2. k \in 1..p
    BY <1>1, <1>2
  <2>3. QED BY <2>1, <2>2
<1>7. PassedOn(v, p)'
  BY <1>2, <1>3, <1>4, <1>5, <1>6 DEF PassedOn, At, Step, Core
<1>8. QED BY <1>2, <1>7

LEMMA PassedOpens ==
  ASSUME Shapes, NEW v \in Networks, ChainOK(v), NEW q \in 0..Len(chain[v]), PassedOn(v, q),
         queue[v] = <<>>, Opened(v)
  PROVE  \E p \in 0..Len(chain'[v]) : PassedOn(v, p)'
<1>1. /\ q \in Nat /\ chain[v] \in Seq(ChainEvent) /\ Len(chain[v]) \in Nat
      /\ DOMAIN chain[v] = 1..Len(chain[v]) /\ HeadOf(v) \in Nat
  BY HeadIsNat DEF Shapes
<1>2. UNCHANGED <<chain, events, queue>> /\ pc'[v] = "stream"
  BY DEF Opened, Shapes
<1>3. ~ Unrecorded(v)' /\ ~ Handling(v)'
  BY <1>2 DEF Unrecorded, Handling
<1>4. CASE v \in load.subscriptions
  <2>p. PICK p \in Nat : p = Len(chain[v])
    BY <1>1
  <2>1. at'[v] = HeadOf(v) + 1
    BY <1>4 DEF Opened, Shapes
  <2>2. Len(queue[v]) = 0 /\ DOMAIN queue[v] = {} /\ p + 0 = p
    OBVIOUS
  <2>3. \A i \in DOMAIN chain[v] : (i <= p) <=> (chain[v][i].height < at'[v])
    BY <1>1, <2>p, <2>1 DEF ChainOK
  <2>4. ASSUME NEW i \in DOMAIN events, At(i).net = v
        PROVE  \E k \in 1..p : chain[v][k] = Core(events[i])
    <3>1. PICK k \in 1..q : chain[v][k] = Core(events[i])
      BY <2>4 DEF PassedOn
    <3>2. k \in 1..p
      BY <1>1, <2>p
    <3>3. QED BY <3>1, <3>2
  <2>6. p <= Len(chain[v]) /\ p \in 0..Len(chain[v])
    BY <1>1, <2>p
  <2>7. PassedOn(v, p)'
    BY <1>2, <1>3, <2>2, <2>3, <2>4, <2>6 DEF PassedOn, At, Step, Core
  <2>8. QED BY <1>2, <2>6, <2>7
<1>5. CASE v \notin load.subscriptions
  <2>1. SameEvents /\ at'[v] = at[v]
    BY <1>2, <1>5 DEF SameEvents, Opened
  <2>2. PassedOn(v, q)'
    BY <1>2, <1>3, <2>1, PassedKept
  <2>3. QED BY <1>2, <2>2
<1>6. QED BY <1>4, <1>5

LEMMA PassedTakes ==
  ASSUME Shapes, NEW n \in Networks, NEW e, NEW rest, NEW q \in 0..Len(chain[n]),
         Takes(n, e, rest), NextInChain(chain[n], q, e, rest), PassedOn(n, q)
  PROVE  \E p \in 0..Len(chain'[n]) : PassedOn(n, p)'
<1>1. q \in Nat /\ Len(chain[n]) \in Nat /\ q + 1 \in 1..Len(chain[n]) /\ e.height \in Nat
  BY DEF Shapes, NextInChain
<1>2. /\ chain' = chain /\ events' = events /\ queue'[n] = rest /\ at'[n] = e.height + 1
      /\ cur'[n] = e /\ pc'[n] = "findStatus"
  BY DEF Takes, Shapes
<1>3. /\ \A i \in DOMAIN queue'[n] : /\ queue'[n][i] = chain'[n][q + 1 + i]
                                     /\ queue'[n][i].height + 1 = at'[n]
      /\ q + 1 + Len(queue'[n]) <= Len(chain'[n])
      /\ \A i \in DOMAIN chain'[n] :
           (i <= q + 1 + Len(queue'[n])) <=> (chain'[n][i].height < at'[n])
      /\ cur'[n] = chain'[n][q + 1] /\ q + 1 >= 1
  BY <1>1, <1>2 DEF NextInChain, Below
<1>4. ASSUME NEW i \in DOMAIN events, At(i).net = n
      PROVE  \E k \in 1..(q + 1) : k < q + 1 /\ chain[n][k] = Core(events[i])
  <2>1. PICK k \in 1..q : chain[n][k] = Core(events[i])
    BY <1>4 DEF PassedOn
  <2>2. k \in 1..(q + 1) /\ k < q + 1
    BY <1>1
  <2>3. QED BY <2>1, <2>2
<1>5. PassedOn(n, q + 1)'
  BY <1>2, <1>3, <1>4 DEF PassedOn, At, Step, Core
<1>6. q + 1 \in 0..Len(chain'[n])
  BY <1>1, <1>2
<1>7. QED BY <1>5, <1>6

LEMMA PassedNewBlock ==
  ASSUME Shapes, NEW n \in Networks, NEW B, Appends(n, B), ChainOK(n), StreamFollows(n),
         NEW q \in 0..Len(chain[n]), PassedOn(n, q)
  PROVE  q \in 0..Len(chain'[n]) /\ PassedOn(n, q)'
<1>1. /\ Len(B) \in Nat \ {0} /\ Len(chain[n]) \in Nat /\ q \in Nat
      /\ Len(chain'[n]) = Len(chain[n]) + Len(B)
      /\ DOMAIN chain[n] = 1..Len(chain[n]) /\ DOMAIN chain'[n] = 1..Len(chain'[n])
      /\ \A i \in DOMAIN chain[n] : chain'[n][i] = chain[n][i]
      /\ \A i \in DOMAIN chain'[n] :
           i \notin DOMAIN chain[n] => /\ i - Len(chain[n]) \in DOMAIN B
                                       /\ chain'[n][i] = B[i - Len(chain[n])]
  BY ChainGrows DEF Shapes
<1>2. UNCHANGED <<events, pc, at, since, queue, cur>> /\ Len(queue[n]) \in Nat
  BY DEF Appends, Shapes
<1>3. HeadOf(n) \in Nat /\ at[n] \in 1..(HeadOf(n) + 1)
  BY HeadIsNat DEF StreamFollows
<1>4. q + Len(queue[n]) <= Len(chain[n])
  BY DEF PassedOn
<1>5. ASSUME NEW i \in DOMAIN queue[n]
      PROVE  queue[n][i] = chain'[n][q + i] /\ queue[n][i].height + 1 = at[n]
  <2>1. i \in 1..Len(queue[n])
    BY DEF Shapes
  <2>2. q + i \in DOMAIN chain[n]
    BY <1>1, <1>2, <1>4, <2>1
  <2>3. QED BY <1>1, <2>2 DEF PassedOn
<1>6. ASSUME NEW i \in DOMAIN chain'[n]
      PROVE  (i <= q + Len(queue[n])) <=> (chain'[n][i].height < at[n])
  <2>1. CASE i \in DOMAIN chain[n]
    BY <1>1, <2>1 DEF PassedOn
  <2>2. CASE i \notin DOMAIN chain[n]
    <3>1. i > Len(chain[n]) /\ i \in Nat
      BY <1>1, <2>2
    <3>2. chain'[n][i].height = HeadOf(n) + 1
      BY <1>1, <2>2 DEF Appends
    <3>3. QED BY <1>1, <1>2, <1>3, <1>4, <3>1, <3>2
  <2>3. QED BY <2>1, <2>2
<1>7. Handling(n) => q >= 1 /\ cur[n] = chain'[n][q]
  BY <1>1 DEF PassedOn
<1>8. ASSUME NEW i \in DOMAIN events, At(i).net = n
      PROVE  \E k \in 1..q : (Unrecorded(n) => k < q) /\ chain'[n][k] = Core(events[i])
  <2>1. PICK k \in 1..q : (Unrecorded(n) => k < q) /\ chain[n][k] = Core(events[i])
    BY <1>8 DEF PassedOn
  <2>2. k \in DOMAIN chain[n]
    BY <1>1
  <2>3. QED BY <1>1, <2>1, <2>2
<1>9. q + Len(queue[n]) <= Len(chain'[n]) /\ q \in 0..Len(chain'[n])
  BY <1>1, <1>2, <1>4
<1>10. PassedOn(n, q)'
  BY <1>2, <1>5, <1>6, <1>7, <1>8, <1>9 DEF PassedOn, At, Step, Core, Unrecorded, Handling
<1>11. QED BY <1>9, <1>10

LEMMA PassedStoreEvent ==
  ASSUME Shapes, NEW n \in Networks, cur[n] \in ChainEvent, Step(cur[n]).net = n, StoreEvent(n),
         NEW v \in Networks, NEW q \in 0..Len(chain[v]), PassedOn(v, q)
  PROVE  PassedOn(v, q)'
<1>1. /\ \A i \in DOMAIN events : events'[i] = events[i]
      /\ events'[Len(events) + 1] = Recording(n)
      /\ DOMAIN events' = DOMAIN events \cup {Len(events) + 1}
      /\ pc[n] = "event" /\ pc' = [pc EXCEPT ![n] = "links"]
      /\ UNCHANGED <<load, chain, blocks, statuses, hidden, overtaken, at, since, queue, cur, sid, found>>
  BY StoreEventIs
<1>2. pc'[v] = IF v = n THEN "links" ELSE pc[v]
  BY <1>1 DEF Shapes
<1>3. q \in Nat
  BY DEF Shapes
<1>4. ASSUME NEW i \in DOMAIN events', Step(events'[i]).net = v
      PROVE  \E k \in 1..q : (Unrecorded(v)' => k < q) /\ chain[v][k] = Core(events'[i])
  <2>1. CASE i \in DOMAIN events
    <3>1. PICK k \in 1..q : (Unrecorded(v) => k < q) /\ chain[v][k] = Core(events[i])
      BY <1>1, <1>4, <2>1 DEF PassedOn, At, Step
    <3>2. Unrecorded(v)' => Unrecorded(v)
      BY <1>2 DEF Unrecorded
    <3>3. QED BY <1>1, <2>1, <3>1, <3>2
  <2>2. CASE i = Len(events) + 1
    <3>1. events'[i] = Recording(n)
      BY <1>1, <2>2
    <3>2. Step(events'[i]) = Step(cur[n])
      BY <3>1 DEF Step, Recording
    <3>3. v = n
      BY <1>4, <3>2
    <3>4. q \in 1..q /\ cur[n] = chain[v][q]
      BY <1>1, <1>3, <3>3 DEF PassedOn, Handling
    <3>5. Core(events'[i]) = cur[n]
      BY <3>1 DEF Core, Recording, ChainEvent
    <3>6. ~ Unrecorded(v)'
      BY <1>2, <3>3 DEF Unrecorded
    <3>7. QED BY <3>4, <3>5, <3>6
  <2>3. QED BY <1>1, <2>1, <2>2
<1>5. Handling(v)' => Handling(v)
  BY <1>1, <1>2 DEF Handling
<1>6. QED BY <1>1, <1>4, <1>5 DEF PassedOn, At, Step, Core


-----------------------------------------------------------------------------
(* Every step keeps the events in order, their statuses and their blocks.  *)

LEMMA InOrderKept ==
  ASSUME Shapes, NEW v \in Networks, InOrder(v), SameEvents,
         DOMAIN chain[v] \subseteq DOMAIN chain'[v],
         \A i \in DOMAIN chain[v] : chain'[v][i] = chain[v][i]
  PROVE  InOrder(v)'
<1>1. ASSUME NEW i \in DOMAIN events, NEW j \in DOMAIN events, i < j,
             Step(events'[i]).net = v, Step(events'[j]).net = v
      PROVE  \E k, l \in DOMAIN chain'[v] : /\ k < l /\ chain'[v][k] = Core(events'[i])
                                            /\ chain'[v][l] = Core(events'[j])
  <2>1. At(i).net = v /\ At(j).net = v
    BY <1>1 DEF SameEvents, At, Step
  <2>2. PICK k \in DOMAIN chain[v] : \E l \in DOMAIN chain[v] :
          k < l /\ chain[v][k] = Core(events[i]) /\ chain[v][l] = Core(events[j])
    BY <1>1, <2>1 DEF InOrder
  <2>3. PICK l \in DOMAIN chain[v] :
          k < l /\ chain[v][k] = Core(events[i]) /\ chain[v][l] = Core(events[j])
    BY <2>2
  <2>4. Core(events'[i]) = Core(events[i]) /\ Core(events'[j]) = Core(events[j])
    BY DEF SameEvents, Core
  <2>5. QED BY <2>3, <2>4
<1>2. DOMAIN events' = DOMAIN events
  BY DEF SameEvents
<1>3. \A i, j \in DOMAIN events' :
        i < j /\ Step(events'[i]).net = v /\ Step(events'[j]).net = v =>
          \E k, l \in DOMAIN chain'[v] : /\ k < l
                                         /\ chain'[v][k] = Core(events'[i])
                                         /\ chain'[v][l] = Core(events'[j])
  BY <1>1, <1>2
<1>4. \A i : At(i)' = Step(events'[i])
  BY DEF At, Step
<1>5. QED BY <1>3, <1>4 DEF InOrder, Core

LEMMA InOrderStoreEvent ==
  ASSUME Shapes, NEW n \in Networks, cur[n] \in ChainEvent, Step(cur[n]).net = n, StoreEvent(n),
         NEW v \in Networks, InOrder(v), NEW q \in 0..Len(chain[v]), PassedOn(v, q)
  PROVE  InOrder(v)'
<1>1. /\ \A i \in DOMAIN events : events'[i] = events[i]
      /\ events'[Len(events) + 1] = Recording(n)
      /\ DOMAIN events' = DOMAIN events \cup {Len(events) + 1}
      /\ Len(events) \in Nat /\ DOMAIN events = 1..Len(events)
      /\ pc[n] = "event" /\ chain' = chain
  BY StoreEventIs
<1>2. q \in Nat /\ Len(chain[v]) \in Nat /\ DOMAIN chain[v] = 1..Len(chain[v])
  BY DEF Shapes
<1>3. ASSUME NEW i \in DOMAIN events', NEW j \in DOMAIN events', i < j,
             Step(events'[i]).net = v, Step(events'[j]).net = v
      PROVE  \E k, l \in DOMAIN chain[v] : /\ k < l /\ chain[v][k] = Core(events'[i])
                                           /\ chain[v][l] = Core(events'[j])
  <2>1. i \in DOMAIN events
    BY <1>1, <1>3
  <2>2. At(i).net = v
    BY <1>1, <1>3, <2>1 DEF At, Step
  <2>3. CASE j \in DOMAIN events
    <3>1. At(j).net = v
      BY <1>1, <1>3, <2>3 DEF At, Step
    <3>2. QED BY <1>1, <1>3, <2>1, <2>2, <2>3, <3>1 DEF InOrder
  <2>4. CASE j = Len(events) + 1
    <3>1. events'[j] = Recording(n)
      BY <1>1, <2>4
    <3>2. Step(events'[j]) = Step(cur[n]) /\ Core(events'[j]) = cur[n]
      BY <3>1 DEF Step, Recording, Core, ChainEvent
    <3>3. v = n
      BY <1>3, <3>2
    <3>4. q \in DOMAIN chain[v] /\ cur[n] = chain[v][q] /\ Unrecorded(v)
      BY <1>1, <1>2, <3>3 DEF PassedOn, Unrecorded, Handling
    <3>5. PICK k \in 1..q : k < q /\ chain[v][k] = Core(events[i])
      BY <2>1, <2>2, <3>4 DEF PassedOn
    <3>6. k \in DOMAIN chain[v]
      BY <1>2, <3>4
    <3>7. events'[i] = events[i]
      BY <1>1, <2>1
    <3>8. QED BY <3>2, <3>4, <3>5, <3>6, <3>7
  <2>5. QED BY <1>1, <2>3, <2>4
<1>4. QED BY <1>1, <1>3 DEF InOrder, At, Step, Core

LEMMA OrderIs ==
  ASSUME Shapes, StepsExist, \A n \in Networks : InOrder(n)
  PROVE  RecordedOnce
<1>1. ASSUME NEW i \in DOMAIN events, NEW j \in DOMAIN events, i < j, At(i).net = At(j).net
      PROVE  \E k, l \in DOMAIN chain[At(i).net] :
               /\ k < l
               /\ chain[At(i).net][k] = Core(events[i])
               /\ chain[At(i).net][l] = Core(events[j])
  <2>1. At(i).net \in Networks
    <3>1. events[i] \in EventRow
      BY DEF Shapes
    <3>2. events[i].msg \in Messages /\ events[i].step \in DOMAIN Journey[events[i].msg]
      BY <3>1 DEF EventRow, StepsExist
    <3>3. At(i) \in Steps
      BY <3>2, StepsHaveType DEF At, Step
    <3>4. QED BY <3>3 DEF Steps
  <2>2. QED BY <1>1, <2>1 DEF InOrder
<1>2. QED BY <1>1 DEF RecordedOnce, Core

LEMMA SharedKept ==
  ASSUME Shapes, SharedStatus, SameEvents, UNCHANGED <<hidden, overtaken>>,
         DOMAIN statuses' = DOMAIN statuses,
         \A i \in DOMAIN statuses : statuses'[i].msg = statuses[i].msg,
         \A n \in Networks :
           /\ StatusKnown(n)' => StatusKnown(n) /\ sid'[n] = sid[n] /\ cur'[n] = cur[n]
           /\ pc'[n] \in {"commit", "findAgain"} => /\ pc'[n] = pc[n] /\ sid'[n] = sid[n]
                                                   /\ cur'[n] = cur[n]
  PROVE  SharedStatus'
<1>1. ASSUME NEW i, NEW m, FirstOf(i, m)
      PROVE  /\ i \in Visible' /\ statuses'[i].msg = m
             /\ m \notin overtaken' => \A j \in Visible' : statuses'[j].msg = m => i <= j
  BY <1>1 DEF FirstOf, Visible
<1>2. ASSUME NEW n \in Networks, StatusKnown(n)' PROVE FirstOf(sid[n], cur[n].msg)'
  <2>1. FirstOf(sid[n], cur[n].msg) /\ sid'[n] = sid[n] /\ cur'[n] = cur[n]
    BY <1>2 DEF SharedStatus
  <2>2. QED BY <1>1, <2>1 DEF FirstOf
<1>3. ASSUME NEW i \in DOMAIN events' PROVE FirstOf(events[i].sid, events[i].msg)'
  <2>1. /\ i \in DOMAIN events /\ events'[i].msg = events[i].msg
        /\ events'[i].sid = events[i].sid
    BY <1>3 DEF SameEvents
  <2>2. FirstOf(events[i].sid, events[i].msg)
    BY <2>1 DEF SharedStatus
  <2>3. QED BY <1>1, <2>1, <2>2 DEF FirstOf
<1>4. ASSUME NEW n \in Networks, pc'[n] = "commit" PROVE Committing(n)'
  <2>1. pc[n] = "commit" /\ sid'[n] = sid[n] /\ cur'[n] = cur[n]
    BY <1>4
  <2>2. Committing(n)
    BY <2>1 DEF SharedStatus
  <2>3. sid[n] \in DOMAIN statuses
    BY <2>2 DEF Committing, Shapes
  <2>4. QED BY <2>1, <2>2, <2>3 DEF Committing
<1>5. ASSUME NEW n \in Networks, pc'[n] = "findAgain" PROVE StatusesOf(cur[n].msg)' # {}
  <2>1. pc[n] = "findAgain" /\ cur'[n] = cur[n]
    BY <1>5
  <2>2. StatusesOf(cur[n].msg) # {}
    BY <2>1 DEF SharedStatus
  <2>3. QED BY <2>1, <2>2 DEF StatusesOf
<1>6. QED BY <1>2, <1>3, <1>4, <1>5 DEF SharedStatus

LEMMA SharedKeys ==
  ASSUME Shapes, SharedStatus, NEW n \in Networks, NEW i, NEW l, Keys(n, i, l)
  PROVE  SharedStatus'
<1>1. UNCHANGED <<statuses, hidden, overtaken, events, cur>> /\ statuses \in Seq(StatusRow)
  BY DEF Keys, Shapes
<1>2. \A v \in Networks \ {n} : pc'[v] = pc[v] /\ sid'[v] = sid[v]
  BY DEF Keys, Shapes
<1>3. pc'[n] = l /\ sid'[n] = i /\ l \in {"newStatus", "event"}
  BY DEF Keys, Shapes
<1>4. ASSUME NEW v \in Networks, StatusKnown(v)' PROVE FirstOf(sid[v], cur[v].msg)'
  <2>1. CASE v = n
    <3>1. l = "event"
      BY <1>3, <1>4, <2>1 DEF StatusKnown
    <3>2. FirstOf(i, cur[n].msg)
      BY <1>1, <3>1, FirstIs DEF Keys
    <3>3. QED BY <1>1, <1>3, <2>1, <3>2 DEF FirstOf, Visible
  <2>2. CASE v # n
    <3>1. FirstOf(sid[v], cur[v].msg)
      BY <1>2, <1>4, <2>2 DEF SharedStatus, StatusKnown
    <3>2. QED BY <1>1, <1>2, <2>2, <3>1 DEF FirstOf, Visible
  <2>3. QED BY <2>1, <2>2
<1>5. ASSUME NEW v \in Networks, pc'[v] = "commit" PROVE Committing(v)'
  <2>1. v # n /\ pc[v] = "commit"
    BY <1>2, <1>3, <1>5
  <2>2. Committing(v)
    BY <2>1 DEF SharedStatus
  <2>3. QED BY <1>1, <1>2, <1>3, <2>1, <2>2 DEF Committing
<1>6. ASSUME NEW v \in Networks, pc'[v] = "findAgain" PROVE StatusesOf(cur[v].msg)' # {}
  <2>1. v # n /\ pc[v] = "findAgain"
    BY <1>2, <1>3, <1>6
  <2>2. QED BY <1>1, <2>1 DEF SharedStatus, StatusesOf
<1>7. QED BY <1>1, <1>4, <1>5, <1>6 DEF SharedStatus, FirstOf, Visible

LEMMA SharedInsert ==
  ASSUME Shapes, SharedStatus, NEW n \in Networks, Inserts(n)
  PROVE  SharedStatus'
<1>1. /\ Visible' = Visible /\ hidden \subseteq hidden' /\ hidden \subseteq DOMAIN statuses
      /\ \A i \in DOMAIN statuses : statuses'[i] = statuses[i]
      /\ UNCHANGED <<overtaken, events, cur>>
  BY DEF Inserts, Shapes, Visible
<1>2. \A v \in Networks \ {n} : pc'[v] = pc[v] /\ sid'[v] = sid[v]
  BY DEF Inserts, Shapes
<1>3. pc'[n] = "commit" /\ sid'[n] = Len(statuses) + 1
  BY DEF Inserts, Shapes
<1>4. ASSUME NEW i, NEW m, FirstOf(i, m)
      PROVE  /\ i \in Visible' /\ statuses'[i].msg = m
             /\ m \notin overtaken' => \A j \in Visible' : statuses'[j].msg = m => i <= j
  BY <1>1, <1>4 DEF FirstOf, Visible
<1>5. ASSUME NEW v \in Networks, StatusKnown(v)' PROVE FirstOf(sid[v], cur[v].msg)'
  <2>1. v # n
    BY <1>3, <1>5 DEF StatusKnown
  <2>2. FirstOf(sid[v], cur[v].msg)
    BY <1>2, <1>5, <2>1 DEF SharedStatus, StatusKnown
  <2>3. QED BY <1>1, <1>2, <1>4, <2>1, <2>2 DEF FirstOf
<1>6. ASSUME NEW i \in DOMAIN events PROVE FirstOf(events[i].sid, events[i].msg)'
  <2>1. FirstOf(events[i].sid, events[i].msg)
    BY DEF SharedStatus
  <2>2. QED BY <1>1, <1>4, <2>1 DEF FirstOf
<1>7. ASSUME NEW v \in Networks, pc'[v] = "commit" PROVE Committing(v)'
  <2>1. ASSUME NEW u \in Networks, u # n, pc[u] = "commit"
        PROVE  /\ sid[u] \in hidden /\ sid[u] \in DOMAIN statuses /\ sid[u] # Len(statuses) + 1
               /\ statuses[sid[u]].msg = cur[u].msg
    <3>1. sid[u] \in hidden /\ statuses[sid[u]].msg = cur[u].msg
      BY <2>1 DEF SharedStatus, Committing
    <3>2. QED BY <1>1, <3>1 DEF Inserts
  <2>2. CASE v = n
    <3>1. sid'[n] \in hidden' /\ statuses'[sid'[n]].msg = cur'[n].msg
      BY <1>1, <1>3 DEF Inserts
    <3>2. \A u \in Networks \ {n} : pc'[u] = "commit" => sid'[u] # sid'[n]
      BY <1>2, <1>3, <2>1
    <3>3. QED BY <2>2, <3>1, <3>2 DEF Committing
  <2>3. CASE v # n
    <3>1. pc[v] = "commit" /\ sid'[v] = sid[v]
      BY <1>2, <1>7, <2>3
    <3>2. sid'[v] \in hidden' /\ statuses'[sid'[v]].msg = cur'[v].msg
      BY <1>1, <2>1, <2>3, <3>1
    <3>3. ASSUME NEW u \in Networks \ {v}, pc'[u] = "commit" PROVE sid'[u] # sid'[v]
      <4>1. CASE u = n
        BY <1>3, <2>1, <2>3, <3>1, <4>1
      <4>2. CASE u # n
        BY <1>2, <2>3, <3>1, <3>3, <4>2 DEF SharedStatus, Committing
      <4>3. QED BY <4>1, <4>2
    <3>4. QED BY <3>2, <3>3 DEF Committing
  <2>4. QED BY <2>2, <2>3
<1>8. ASSUME NEW v \in Networks, pc'[v] = "findAgain" PROVE StatusesOf(cur[v].msg)' # {}
  <2>1. v # n /\ pc[v] = "findAgain"
    BY <1>2, <1>3, <1>8
  <2>2. PICK i \in Visible : statuses[i].msg = cur[v].msg
    BY <2>1 DEF SharedStatus, StatusesOf, Visible
  <2>3. i \in Visible' /\ statuses'[i].msg = cur'[v].msg
    BY <1>1, <2>2 DEF Visible
  <2>4. QED BY <2>3 DEF StatusesOf, Visible
<1>9. QED BY <1>1, <1>5, <1>6, <1>7, <1>8 DEF SharedStatus

LEMMA SharedCommit ==
  ASSUME Shapes, SharedStatus, NEW n \in Networks, Commits(n)
  PROVE  SharedStatus'
<1>1. /\ sid[n] \in hidden /\ statuses[sid[n]].msg = cur[n].msg
      /\ \A v \in Networks \ {n} : pc[v] = "commit" => sid[v] # sid[n]
  BY DEF SharedStatus, Committing, Commits
<1>2. /\ Visible' = Visible \cup {sid[n]} /\ hidden' = hidden \ {sid[n]}
      /\ UNCHANGED <<statuses, events, cur, sid>>
      /\ overtaken \subseteq overtaken'
      /\ Visible \subseteq Nat /\ sid[n] \in Nat
  BY <1>1 DEF Commits, Shapes, Visible
<1>3. \A v \in Networks \ {n} : pc'[v] = pc[v]
  BY DEF Commits, Shapes
<1>4. pc'[n] = "findAgain"
  BY DEF Commits, Shapes
<1>5. ASSUME NEW i, NEW m, FirstOf(i, m)
      PROVE  /\ i \in Visible' /\ statuses'[i].msg = m
             /\ m \notin overtaken' => \A j \in Visible' : statuses'[j].msg = m => i <= j
  <2>1. i \in Visible /\ statuses[i].msg = m
    BY <1>5 DEF FirstOf
  <2>2. SUFFICES ASSUME m \notin overtaken', NEW j \in Visible', statuses[j].msg = m
                 PROVE  i <= j
    BY <1>2, <2>1
  <2>3. CASE j \in Visible
    BY <1>2, <1>5, <2>2, <2>3 DEF FirstOf
  <2>4. CASE j = sid[n]
    <3>1. m = cur[n].msg /\ ~ Overtakes(n)
      BY <1>1, <2>2, <2>4 DEF Commits
    <3>2. i \in StatusesOf(cur[n].msg)
      BY <2>1, <3>1 DEF StatusesOf, Visible
    <3>3. ~ (sid[n] < i)
      BY <3>1, <3>2 DEF Overtakes
    <3>4. QED BY <1>2, <2>1, <2>4, <3>3
  <2>5. QED BY <1>2, <2>3, <2>4
<1>6. ASSUME NEW v \in Networks, StatusKnown(v)' PROVE FirstOf(sid[v], cur[v].msg)'
  <2>1. v # n
    BY <1>4, <1>6 DEF StatusKnown
  <2>2. FirstOf(sid[v], cur[v].msg)
    BY <1>3, <1>6, <2>1 DEF SharedStatus, StatusKnown
  <2>3. QED BY <1>2, <1>5, <2>2 DEF FirstOf
<1>7. ASSUME NEW i \in DOMAIN events PROVE FirstOf(events[i].sid, events[i].msg)'
  <2>1. FirstOf(events[i].sid, events[i].msg)
    BY DEF SharedStatus
  <2>2. QED BY <1>2, <1>5, <2>1 DEF FirstOf
<1>8. ASSUME NEW v \in Networks, pc'[v] = "commit" PROVE Committing(v)'
  <2>1. v # n /\ pc[v] = "commit"
    BY <1>3, <1>4, <1>8
  <2>2. Committing(v)
    BY <2>1 DEF SharedStatus
  <2>3. sid[v] # sid[n]
    BY <1>1, <2>1
  <2>4. ASSUME NEW u \in Networks \ {v}, pc'[u] = "commit" PROVE sid[u] # sid[v]
    <3>1. u # n /\ pc[u] = "commit"
      BY <1>3, <1>4, <2>4
    <3>2. QED BY <2>2, <3>1 DEF Committing
  <2>5. QED BY <1>2, <2>2, <2>3, <2>4 DEF Committing
<1>9. ASSUME NEW v \in Networks, pc'[v] = "findAgain" PROVE StatusesOf(cur[v].msg)' # {}
  <2>1. CASE v = n
    <3>1. sid[n] \in Visible' /\ statuses'[sid[n]].msg = cur'[v].msg
      BY <1>1, <1>2, <2>1
    <3>2. QED BY <3>1 DEF StatusesOf, Visible
  <2>2. CASE v # n
    <3>1. PICK i \in Visible : statuses[i].msg = cur[v].msg
      BY <1>3, <1>9, <2>2 DEF SharedStatus, StatusesOf, Visible
    <3>2. i \in Visible' /\ statuses'[i].msg = cur'[v].msg
      BY <1>2, <3>1
    <3>3. QED BY <3>2 DEF StatusesOf, Visible
  <2>3. QED BY <2>1, <2>2
<1>10. QED BY <1>2, <1>6, <1>7, <1>8, <1>9 DEF SharedStatus

LEMMA SharedStoreEvent ==
  ASSUME Shapes, SharedStatus, NEW n \in Networks, cur[n] \in ChainEvent, StoreEvent(n)
  PROVE  SharedStatus'
<1>1. /\ \A i \in DOMAIN events : events'[i] = events[i]
      /\ events'[Len(events) + 1] = Recording(n)
      /\ DOMAIN events' = DOMAIN events \cup {Len(events) + 1}
      /\ pc[n] = "event" /\ pc' = [pc EXCEPT ![n] = "links"]
      /\ UNCHANGED <<statuses, hidden, overtaken, cur, sid>>
  BY StoreEventIs
<1>2. ASSUME NEW v \in Networks, StatusKnown(v)' PROVE FirstOf(sid[v], cur[v].msg)'
  <2>1. StatusKnown(v)
    BY <1>1, <1>2 DEF StatusKnown, Shapes
  <2>2. QED BY <1>1, <2>1 DEF SharedStatus, FirstOf, Visible
<1>3. ASSUME NEW i \in DOMAIN events' PROVE FirstOf(events[i].sid, events[i].msg)'
  <2>1. CASE i \in DOMAIN events
    BY <1>1, <2>1 DEF SharedStatus, FirstOf, Visible
  <2>2. CASE i = Len(events) + 1
    <3>1. events'[i].sid = sid[n] /\ events'[i].msg = cur[n].msg
      BY <1>1, <2>2 DEF Recording
    <3>2. FirstOf(sid[n], cur[n].msg)
      BY <1>1 DEF SharedStatus, StatusKnown
    <3>3. QED BY <1>1, <3>1, <3>2 DEF FirstOf, Visible
  <2>3. QED BY <1>1, <2>1, <2>2
<1>4. ASSUME NEW v \in Networks, pc'[v] \in {"commit", "findAgain"} PROVE pc'[v] = pc[v]
  BY <1>1, <1>4 DEF Shapes
<1>5. ASSUME NEW v \in Networks, pc'[v] = "commit" PROVE Committing(v)'
  <2>1. pc[v] = "commit" /\ Committing(v)
    BY <1>4, <1>5 DEF SharedStatus
  <2>2. \A u \in Networks : pc'[u] = "commit" => pc[u] = "commit"
    BY <1>4
  <2>3. QED BY <1>1, <2>1, <2>2 DEF Committing
<1>6. ASSUME NEW v \in Networks, pc'[v] = "findAgain" PROVE StatusesOf(cur[v].msg)' # {}
  <2>1. pc[v] = "findAgain"
    BY <1>4, <1>6
  <2>2. QED BY <1>1, <2>1 DEF SharedStatus, StatusesOf
<1>7. QED BY <1>2, <1>3, <1>5, <1>6 DEF SharedStatus

LEMMA FinalKept ==
  ASSUME FinalInFinalBlock, UNCHANGED events,
         \A b \in blocks : b \in blocks'
  PROVE  FinalInFinalBlock'
BY DEF FinalInFinalBlock, At, Step

LEMMA FinalStoreEvent ==
  ASSUME Shapes, FinalInFinalBlock, NEW n \in Networks, cur[n] \in ChainEvent, StoreEvent(n)
  PROVE  FinalInFinalBlock'
<1>1. /\ \A i \in DOMAIN events : events'[i] = events[i]
      /\ events'[Len(events) + 1].final = FALSE
      /\ DOMAIN events' = DOMAIN events \cup {Len(events) + 1}
      /\ UNCHANGED blocks
  <2>1. Recording(n).final = FALSE
    BY DEF Recording
  <2>2. QED BY <2>1, StoreEventIs
<1>2. QED BY <1>1 DEF FinalInFinalBlock, At, Step

LEMMA FinalFinalize ==
  ASSUME Shapes, FinalInFinalBlock, NEW n \in Networks, NEW ids, Finalizes(n, ids)
  PROVE  FinalInFinalBlock'
<1>1. /\ DOMAIN events' = DOMAIN events
      /\ \A i \in DOMAIN events :
           /\ events'[i].msg = events[i].msg /\ events'[i].step = events[i].step
           /\ events'[i].height = events[i].height
           /\ events'[i].final <=> (events[i].final \/ \E b \in ids : InBlock(b, i))
      /\ ids \subseteq blocks /\ blocks \subseteq BlockRow /\ \A b \in ids : ~ b.final
      /\ blocks' = (blocks \ ids) \cup {[b EXCEPT !.final = TRUE] : b \in ids}
  BY DEF Finalizes, Shapes
<1>2. ASSUME NEW i \in DOMAIN events', events'[i].final
      PROVE  \E b \in blocks' : b.net = Step(events'[i]).net /\ b.height = events'[i].height /\ b.final
  <2>1. Step(events'[i]) = At(i) /\ i \in DOMAIN events
    BY <1>1 DEF Step, At
  <2>2. CASE events[i].final
    <3>1. PICK b \in blocks : b.net = At(i).net /\ b.height = events[i].height /\ b.final
      BY <2>1, <2>2 DEF FinalInFinalBlock
    <3>2. b \in blocks'
      BY <1>1, <3>1
    <3>3. QED BY <1>1, <2>1, <3>1, <3>2
  <2>3. CASE \E b \in ids : InBlock(b, i)
    <3>1. PICK b \in ids : InBlock(b, i)
      BY <2>3
    <3>2. [b EXCEPT !.final = TRUE] \in blocks' /\ b \in BlockRow
      BY <1>1
    <3>3. /\ [b EXCEPT !.final = TRUE].net = b.net /\ [b EXCEPT !.final = TRUE].height = b.height
          /\ [b EXCEPT !.final = TRUE].final
      BY <3>2 DEF BlockRow
    <3>4. QED BY <1>1, <2>1, <3>1, <3>2, <3>3 DEF InBlock
  <2>4. QED BY <1>1, <1>2, <2>1, <2>2, <2>3
<1>3. QED BY <1>2 DEF FinalInFinalBlock, At, Step


-----------------------------------------------------------------------------
(* The invariant holds at first, and every step keeps it.                  *)

LEMMA Handled ==
  ASSUME IInv, NEW n \in Networks, Handling(n)
  PROVE  /\ cur[n] \in ChainEvent /\ Step(cur[n]).net = n
         /\ cur[n].step \in DOMAIN Journey[cur[n].msg]
<1>1. PICK q \in 0..Len(chain[n]) : PassedOn(n, q)
  BY DEF IInv, StreamInv
<1>2. q >= 1 /\ cur[n] = chain[n][q]
  BY <1>1 DEF PassedOn
<1>3. chain[n] \in Seq(ChainEvent)
  BY DEF IInv, Shapes
<1>4. q \in DOMAIN chain[n]
  BY <1>2, <1>3
<1>5. QED BY <1>2, <1>3, <1>4 DEF IInv, StreamInv, ChainOK

\* A step that touches neither the chains nor the streams nor the events.
LEMMA HandlerStep ==
  ASSUME IInv, UNCHANGED <<load, chain, blocks, events, at, since, queue>>,
         \A v \in Networks : /\ Handling(v)' => Handling(v) /\ cur'[v] = cur[v]
                             /\ Unrecorded(v)' => Unrecorded(v)
  PROVE  /\ SameEvents /\ StepsExist' /\ FinalInFinalBlock'
         /\ \A v \in Networks : StreamInv(v)'
<1>1. SameEvents /\ StepsExist'
  BY DEF SameEvents, IInv, StepsExist
<1>2. FinalInFinalBlock'
  BY FinalKept DEF IInv
<1>3. ASSUME NEW v \in Networks PROVE StreamInv(v)'
  <2>1. ChainOK(v) /\ StreamFollows(v) /\ InOrder(v)
    BY DEF IInv, StreamInv
  <2>2. PICK q \in 0..Len(chain[v]) : PassedOn(v, q)
    BY DEF IInv, StreamInv
  <2>3. ChainOK(v)' /\ StreamFollows(v)'
    BY <2>1, StreamKept
  <2>4. InOrder(v)'
    BY <1>1, <2>1, InOrderKept DEF IInv
  <2>5. q \in 0..Len(chain'[v]) /\ PassedOn(v, q)'
    BY <1>1, <2>2, PassedKept
  <2>6. QED BY <2>3, <2>4, <2>5 DEF StreamInv
<1>4. QED BY <1>1, <1>2, <1>3

\* A stream that stops, or every one.
LEMMA StoppingStep ==
  ASSUME IInv, UNCHANGED <<load, chain, blocks, events, at, since>>,
         \A v \in Networks :
           \/ queue'[v] = <<>> /\ pc'[v] \in {"down", "closed"}
           \/ UNCHANGED <<queue[v], pc[v], cur[v]>>
  PROVE  /\ SameEvents /\ StepsExist' /\ FinalInFinalBlock'
         /\ \A v \in Networks : StreamInv(v)'
<1>1. SameEvents /\ StepsExist'
  BY DEF SameEvents, IInv, StepsExist
<1>2. FinalInFinalBlock'
  BY FinalKept DEF IInv
<1>3. ASSUME NEW v \in Networks PROVE StreamInv(v)'
  <2>1. ChainOK(v) /\ StreamFollows(v) /\ InOrder(v) /\ Shapes
    BY DEF IInv, StreamInv
  <2>2. PICK q \in 0..Len(chain[v]) : PassedOn(v, q)
    BY DEF IInv, StreamInv
  <2>3. ChainOK(v)' /\ StreamFollows(v)'
    BY <2>1, StreamKept
  <2>4. InOrder(v)'
    BY <1>1, <2>1, InOrderKept
  <2>5. CASE queue'[v] = <<>> /\ pc'[v] \in {"down", "closed"}
    <3>1. \E p \in 0..Len(chain'[v]) : PassedOn(v, p)'
      BY <2>1, <2>2, <2>5, PassedStopped
    <3>2. QED BY <2>3, <2>4, <3>1 DEF StreamInv
  <2>6. CASE UNCHANGED <<queue[v], pc[v], cur[v]>>
    <3>1. (Unrecorded(v)' => Unrecorded(v)) /\ (Handling(v)' => Handling(v))
      BY <2>6 DEF Unrecorded, Handling
    <3>2. q \in 0..Len(chain'[v]) /\ PassedOn(v, q)'
      BY <1>1, <2>2, <2>6, <3>1, PassedKept
    <3>3. QED BY <2>3, <2>4, <3>2 DEF StreamInv
  <2>7. QED BY <2>5, <2>6
<1>4. QED BY <1>1, <1>2, <1>3

\* The table of Blocks only grows.
RecordedKept == \A v \in Networks : RecordedHeights(v) \subseteq RecordedHeights(v)'

LEMMA RecordedGrows ==
  ASSUME \A b \in blocks : \E c \in blocks' : c.net = b.net /\ c.height = b.height
  PROVE  RecordedKept
<1> SUFFICES ASSUME NEW v \in Networks, NEW h \in RecordedHeights(v)
             PROVE  h \in RecordedHeights(v)'
  BY DEF RecordedKept
<1>1. PICK b \in blocks : b.net = v /\ b.height = h
  BY DEF RecordedHeights
<1>2. PICK c \in blocks' : c.net = v /\ c.height = h
  BY <1>1
<1>3. QED BY <1>2 DEF RecordedHeights

LEMMA NetworkOf ==
  ASSUME Shapes, StepsExist, NEW i \in DOMAIN events
  PROVE  At(i).net \in Networks
<1>1. events[i] \in EventRow
  BY DEF Shapes
<1>2. events[i].msg \in Messages /\ events[i].step \in DOMAIN Journey[events[i].msg]
  BY <1>1 DEF EventRow, StepsExist
<1>3. At(i) \in Steps
  BY <1>2, StepsHaveType DEF At, Step
<1>4. QED BY <1>3 DEF Steps

LEMMA InBlocksKept ==
  ASSUME Shapes, StepsExist, EventsInBlocks, SameEvents, RecordedKept,
         \A v \in Networks : Handling(v)' => Handling(v) /\ cur'[v] = cur[v]
  PROVE  EventsInBlocks'
<1>1. ASSUME NEW i \in DOMAIN events' PROVE (events[i].height \in RecordedHeights(At(i).net))'
  <2>1. /\ i \in DOMAIN events /\ events'[i].height = events[i].height
        /\ Step(events'[i]) = At(i)
    BY DEF SameEvents, At, Step
  <2>2. PICK v \in Networks : v = At(i).net
    BY <2>1, NetworkOf
  <2>3. events'[i].height \in RecordedHeights(v)'
    BY <2>1, <2>2 DEF EventsInBlocks, RecordedKept
  <2>4. (At(i).net)' = v
    BY <2>1, <2>2 DEF At, Step
  <2>5. QED BY <2>3, <2>4 DEF RecordedHeights
<1>2. ASSUME NEW v \in Networks, Handling(v)' PROVE (cur[v].height \in RecordedHeights(v))'
  BY <1>2 DEF EventsInBlocks, RecordedKept
<1>3. QED BY <1>1, <1>2 DEF EventsInBlocks

LEMMA InitInv == Init => IInv
<1> SUFFICES ASSUME Init PROVE IInv
  OBVIOUS
<1> USE DEF Init, ForAll
<1>1. Shapes
  BY NothingFound DEF Shapes, Labels, Found
<1>2. StepsExist /\ SharedStatus /\ FinalInFinalBlock /\ QueueEmpty /\ EventsInBlocks
  BY DEF StepsExist, SharedStatus, FinalInFinalBlock, StatusKnown, QueueEmpty, EventsInBlocks,
         Handling
<1>3. ASSUME NEW n \in Networks PROVE StreamInv(n)
  <2>1. chain[n] = <<>> /\ queue[n] = <<>> /\ events = <<>> /\ at[n] = 1 /\ HeadOf(n) = 0
        /\ blocks = {} /\ pc[n] = "closed" /\ since[n] = 1
    BY DEF HeadOf
  <2>2. ChainOK(n) /\ InOrder(n)
    BY <2>1 DEF ChainOK, InOrder
  <2>3. StreamFollows(n)
    <3>1. RecordedHeights(n) = {}
      BY <2>1 DEF RecordedHeights
    <3>2. QED BY <2>1, <3>1 DEF StreamFollows
  <2>4. PassedOn(n, 0)
    BY <2>1 DEF PassedOn, Handling
  <2>5. 0 \in 0..Len(chain[n])
    BY <2>1
  <2>6. QED BY <2>2, <2>3, <2>4, <2>5 DEF StreamInv
<1>4. QED BY <1>1, <1>2, <1>3 DEF IInv

LEMMA InvNewBlock ==
  ASSUME IInv, NEW n \in Networks, NewBlock(n)
  PROVE  IInv'
<1>1. Shapes /\ \A v \in Networks : ChainOK(v)
  BY DEF IInv, StreamInv
<1>2. PICK B : Appends(n, B)
  BY <1>1, NewBlockIs
<1>3. Shapes'
  BY <1>1, ShapesNewBlock
<1>4. UNCHANGED <<load, blocks, statuses, hidden, overtaken, events, pc, at, since, queue, cur,
                  sid, found>>
  BY <1>2 DEF Appends
<1>5. SameEvents /\ StepsExist' /\ FinalInFinalBlock'
  BY <1>4, FinalKept DEF SameEvents, IInv, StepsExist
<1>6. SharedStatus'
  BY <1>4 DEF IInv, SharedStatus, FirstOf, StatusKnown, Visible, Committing, StatusesOf
<1>e. QueueEmpty' /\ EventsInBlocks'
  <2>1. RecordedKept /\ \A v \in Networks : Handling(v)' => Handling(v)
    BY <1>4, RecordedGrows DEF Handling
  <2>2. EventsInBlocks'
    BY <1>1, <1>4, <1>5, <2>1, InBlocksKept DEF IInv
  <2>3. QED BY <1>4, <2>2 DEF IInv, QueueEmpty
<1>7. ASSUME NEW v \in Networks PROVE StreamInv(v)'
  <2>1. ChainOK(v) /\ StreamFollows(v) /\ InOrder(v)
    BY DEF IInv, StreamInv
  <2>2. PICK q \in 0..Len(chain[v]) : PassedOn(v, q)
    BY DEF IInv, StreamInv
  <2>3. ChainOK(v)' /\ StreamFollows(v)'
    BY <1>1, <1>2, <2>1, StreamNewBlock
  <2>4. DOMAIN chain[v] \subseteq DOMAIN chain'[v]
        /\ \A i \in DOMAIN chain[v] : chain'[v][i] = chain[v][i]
    <3>1. CASE v = n
      <4>1. /\ Len(B) \in Nat \ {0} /\ Len(chain[n]) \in Nat
            /\ chain'[n] \in Seq(ChainEvent) /\ Len(chain'[n]) = Len(chain[n]) + Len(B)
            /\ \A i \in DOMAIN chain[n] : chain'[n][i] = chain[n][i]
        BY <1>1, <1>2, ChainGrows
      <4>2. DOMAIN chain[n] = 1..Len(chain[n]) /\ DOMAIN chain'[n] = 1..Len(chain'[n])
        BY <1>1, <4>1 DEF Shapes
      <4>3. QED BY <3>1, <4>1, <4>2
    <3>2. CASE v # n
      BY <1>1, <1>2, <3>2, ChainGrows
    <3>3. QED BY <3>1, <3>2
  <2>5. InOrder(v)'
    BY <1>1, <1>5, <2>1, <2>4, InOrderKept
  <2>6. q \in 0..Len(chain'[v]) /\ PassedOn(v, q)'
    <3>1. CASE v = n
      BY <1>1, <1>2, <2>1, <2>2, <3>1, PassedNewBlock
    <3>2. CASE v # n
      <4>1. chain'[v] = chain[v]
        BY <1>1, <1>2, <3>2, ChainGrows
      <4>2. (Unrecorded(v)' => Unrecorded(v)) /\ (Handling(v)' => Handling(v))
        BY <1>4 DEF Unrecorded, Handling
      <4>3. QED BY <1>4, <1>5, <2>2, <4>1, <4>2, PassedKept
    <3>3. QED BY <3>1, <3>2
  <2>7. QED BY <2>3, <2>5, <2>6 DEF StreamInv
<1>8. QED BY <1>3, <1>5, <1>6, <1>e, <1>7 DEF IInv

LEMMA InvStoreBlock ==
  ASSUME IInv, NEW n \in Networks, StoreBlock(n)
  PROVE  IInv'
<1> DEFINE e == Head(Pending(n))
           rest == Tail(Pending(n))
<1>1. Shapes /\ \A v \in Networks : ChainOK(v) /\ StreamFollows(v) /\ InOrder(v)
  BY DEF IInv, StreamInv
<1>2. Pending(n) # <<>> /\ pc[n] = "stream" /\ Takes(n, e, rest)
  BY <1>1, StoreBlockIs
<1>3. PICK p \in 0..Len(chain[n]) : PassedOn(n, p)
  BY DEF IInv, StreamInv
<1>4. NextInChain(chain[n], p, e, rest) /\ (e.height = at[n] \/ e.height + 1 = at[n])
  BY <1>1, <1>2, <1>3, NextIs
<1>f. PICK f : f = e
  OBVIOUS
<1>r. PICK r : r = rest
  OBVIOUS
<1> HIDE DEF e, rest
<1>5. Takes(n, f, r) /\ NextInChain(chain[n], p, f, r) /\ (f.height = at[n] \/ f.height + 1 = at[n])
  BY <1>2, <1>4, <1>f, <1>r
<1>6. Shapes'
  BY <1>1, <1>5, ShapesTakes
<1>7. /\ UNCHANGED <<load, chain, statuses, hidden, overtaken, events, since, sid, found>>
      /\ p \in Nat
  BY <1>1, <1>5 DEF Takes, Shapes
<1>8. \A v \in Networks \ {n} : UNCHANGED <<at[v], queue[v], pc[v], cur[v]>>
  BY <1>1, <1>5 DEF Takes, Shapes
<1>9. SameEvents /\ StepsExist'
  BY <1>7 DEF SameEvents, IInv, StepsExist
<1>10. FinalInFinalBlock'
  <2>1. \A b \in blocks : b \in blocks'
    BY <1>5 DEF Takes
  <2>2. QED BY <1>7, <2>1, FinalKept DEF IInv
<1>11. SharedStatus'
  <2>1. ASSUME NEW v \in Networks
        PROVE  /\ StatusKnown(v)' => StatusKnown(v) /\ sid'[v] = sid[v] /\ cur'[v] = cur[v]
               /\ pc'[v] \in {"commit", "findAgain"} => /\ pc'[v] = pc[v] /\ sid'[v] = sid[v]
                                                       /\ cur'[v] = cur[v]
    <3>1. pc'[n] = "findStatus"
      BY <1>1, <1>5 DEF Takes, Shapes
    <3>2. CASE v = n
      BY <3>1, <3>2 DEF StatusKnown
    <3>3. CASE v # n
      BY <1>7, <1>8, <3>3 DEF StatusKnown
    <3>4. QED BY <3>2, <3>3
  <2>2. QED BY <1>1, <1>7, <1>9, <2>1, SharedKept DEF IInv
<1>e. QueueEmpty' /\ EventsInBlocks'
  <2>1. RecordedHeights(n)' = RecordedHeights(n) \cup {f.height} /\ RecordedKept
    <3>1. \A b \in blocks : b \in blocks'
      BY <1>5 DEF Takes
    <3>2. QED BY <1>5, <3>1, RecordedAfter, RecordedGrows
  <2>2. pc'[n] = "findStatus" /\ cur'[n] = f
    BY <1>1, <1>5 DEF Takes, Shapes
  <2>3. QueueEmpty'
    BY <1>8, <2>2 DEF IInv, QueueEmpty
  <2>4. ASSUME NEW v \in Networks, Handling(v)' PROVE (cur[v].height \in RecordedHeights(v))'
    <3>1. CASE v = n
      BY <2>1, <2>2, <3>1
    <3>2. CASE v # n
      <4>1. Handling(v) /\ cur'[v] = cur[v]
        BY <1>8, <2>4, <3>2 DEF Handling
      <4>2. QED BY <2>1, <4>1 DEF IInv, EventsInBlocks, RecordedKept
    <3>3. QED BY <3>1, <3>2
  <2>5. ASSUME NEW i \in DOMAIN events' PROVE (events[i].height \in RecordedHeights(At(i).net))'
    <3>1. PICK v \in Networks : v = At(i).net
      BY <1>1, <1>7, NetworkOf DEF IInv
    <3>2. events[i].height \in RecordedHeights(v)'
      BY <1>7, <2>1, <3>1 DEF IInv, EventsInBlocks, RecordedKept
    <3>3. (At(i).net)' = v
      BY <1>7, <3>1 DEF At, Step
    <3>4. QED BY <1>7, <3>2, <3>3 DEF RecordedHeights
  <2>6. QED BY <2>3, <2>4, <2>5 DEF EventsInBlocks
<1>12. ASSUME NEW v \in Networks PROVE StreamInv(v)'
  <2>1. ChainOK(v)' /\ StreamFollows(v)'
    BY <1>1, <1>5, <1>7, StreamTakes
  <2>2. InOrder(v)'
    BY <1>1, <1>7, <1>9, InOrderKept
  <2>3. \E q \in 0..Len(chain'[v]) : PassedOn(v, q)'
    <3>1. CASE v = n
      BY <1>1, <1>3, <1>5, <3>1, PassedTakes
    <3>2. CASE v # n
      <4>1. PICK q \in 0..Len(chain[v]) : PassedOn(v, q)
        BY DEF IInv, StreamInv
      <4>2. (Unrecorded(v)' => Unrecorded(v)) /\ (Handling(v)' => Handling(v))
        BY <1>8, <3>2 DEF Unrecorded, Handling
      <4>3. PassedOn(v, q)'
        BY <1>7, <1>8, <1>9, <3>2, <4>1, <4>2, PassedKept
      <4>4. QED BY <1>7, <4>3
    <3>3. QED BY <3>1, <3>2
  <2>4. QED BY <2>1, <2>2, <2>3 DEF StreamInv
<1>13. QED BY <1>6, <1>9, <1>10, <1>11, <1>e, <1>12 DEF IInv

\* Steps of a handler on the way to its status.
LEMMA InvStatusStep ==
  ASSUME IInv, NEW n \in Networks, Handling(n), Unrecorded(n), NEW l \in Labels,
         pc' = [pc EXCEPT ![n] = l], l \notin {"down", "closed"},
         UNCHANGED <<load, chain, blocks, events, at, since, queue, cur>>,
         Shapes', SharedStatus'
  PROVE  IInv'
<1>1. \A v \in Networks \ {n} : pc'[v] = pc[v]
  BY DEF IInv, Shapes
<1>2. pc'[n] = l
  BY DEF IInv, Shapes
<1>3. ASSUME NEW v \in Networks
      PROVE  /\ Handling(v)' => Handling(v) /\ cur'[v] = cur[v]
             /\ Unrecorded(v)' => Unrecorded(v)
             /\ pc'[v] \in {"down", "closed"} => pc[v] \in {"down", "closed"}
  BY <1>1, <1>2 DEF Handling, Unrecorded
<1>4. SameEvents /\ StepsExist' /\ FinalInFinalBlock' /\ \A v \in Networks : StreamInv(v)'
  BY <1>3, HandlerStep
<1>5. QueueEmpty'
  BY <1>3 DEF IInv, QueueEmpty
<1>6. EventsInBlocks'
  <2>1. RecordedKept
    BY RecordedGrows
  <2>2. QED BY <1>3, <1>4, <2>1, InBlocksKept DEF IInv
<1>7. QED BY <1>4, <1>5, <1>6 DEF IInv

LEMMA InvFind ==
  ASSUME IInv, NEW n \in Networks, FindStatus(n) \/ FindAgain(n)
  PROVE  IInv'
<1>1. Shapes /\ SharedStatus
  BY DEF IInv
<1>2. /\ pc[n] \in {"findStatus", "findAgain"}
      /\ \E i \in Nat : \E l \in {"newStatus", "event"} : Keys(n, i, l)
  BY <1>1, FindIs
<1>3. PICK i \in Nat : \E l \in {"newStatus", "event"} : Keys(n, i, l)
  BY <1>2
<1>4. PICK l \in {"newStatus", "event"} : Keys(n, i, l)
  BY <1>3
<1>5. Shapes' /\ SharedStatus'
  BY <1>1, <1>4, ShapesKeys, SharedKeys
<1>6. /\ l \in Labels /\ l \notin {"down", "closed"} /\ pc' = [pc EXCEPT ![n] = l]
      /\ UNCHANGED <<load, chain, blocks, events, at, since, queue, cur>>
  BY <1>4 DEF Keys, Labels
<1>7. Handling(n) /\ Unrecorded(n)
  BY <1>2 DEF Handling, Unrecorded
<1>8. QED BY <1>5, <1>6, <1>7, InvStatusStep

LEMMA InvInsert ==
  ASSUME IInv, NEW n \in Networks, InsertStatus(n)
  PROVE  IInv' /\ Inserts(n)
<1>1. Shapes /\ SharedStatus /\ Handling(n) /\ Unrecorded(n)
  BY DEF IInv, InsertStatus, Handling, Unrecorded
<1>2. Inserts(n)
  BY <1>1, Handled, InsertIs
<1>3. Shapes' /\ SharedStatus'
  BY <1>1, <1>2, ShapesInsert, SharedInsert
<1>4. /\ "commit" \in Labels /\ pc' = [pc EXCEPT ![n] = "commit"]
      /\ UNCHANGED <<load, chain, blocks, events, at, since, queue, cur>>
  BY <1>2 DEF Inserts, Labels
<1>5. QED BY <1>1, <1>2, <1>3, <1>4, InvStatusStep

LEMMA InvCommit ==
  ASSUME IInv, NEW n \in Networks, CommitStatus(n)
  PROVE  IInv'
<1>1. Shapes /\ SharedStatus /\ Handling(n) /\ Unrecorded(n)
  BY DEF IInv, CommitStatus, Handling, Unrecorded
<1>2. Commits(n)
  BY CommitIs
<1>3. Shapes' /\ SharedStatus'
  BY <1>1, <1>2, ShapesCommit, SharedCommit
<1>4. /\ "findAgain" \in Labels /\ pc' = [pc EXCEPT ![n] = "findAgain"]
      /\ UNCHANGED <<load, chain, blocks, events, at, since, queue, cur>>
  BY <1>2 DEF Commits, Labels
<1>5. QED BY <1>1, <1>3, <1>4, InvStatusStep

LEMMA InvStoreEvent ==
  ASSUME IInv, NEW n \in Networks, StoreEvent(n)
  PROVE  IInv'
<1>1. /\ Shapes /\ cur[n] \in ChainEvent /\ Step(cur[n]).net = n
      /\ cur[n].step \in DOMAIN Journey[cur[n].msg]
  BY Handled DEF IInv, StoreEvent, Handling
<1>2. Shapes' /\ SharedStatus' /\ FinalInFinalBlock'
  BY <1>1, ShapesStoreEvent, SharedStoreEvent, FinalStoreEvent DEF IInv
<1>3. /\ \A i \in DOMAIN events : events'[i] = events[i]
      /\ events'[Len(events) + 1] = Recording(n)
      /\ DOMAIN events' = DOMAIN events \cup {Len(events) + 1}
      /\ pc[n] = "event" /\ pc' = [pc EXCEPT ![n] = "links"]
      /\ UNCHANGED <<load, chain, blocks, at, since, queue, cur>>
  BY <1>1, StoreEventIs
<1>4. StepsExist'
  <2>1. Recording(n).msg = cur[n].msg /\ Recording(n).step = cur[n].step
    BY DEF Recording
  <2>2. QED BY <1>1, <1>3, <2>1 DEF IInv, StepsExist
<1>5. ASSUME NEW v \in Networks PROVE StreamInv(v)'
  <2>1. ChainOK(v) /\ StreamFollows(v) /\ InOrder(v)
    BY DEF IInv, StreamInv
  <2>2. PICK q \in 0..Len(chain[v]) : PassedOn(v, q)
    BY DEF IInv, StreamInv
  <2>3. ChainOK(v)' /\ StreamFollows(v)'
    BY <1>3, <2>1, StreamKept
  <2>4. InOrder(v)' /\ PassedOn(v, q)' /\ q \in 0..Len(chain'[v])
    BY <1>1, <1>3, <2>1, <2>2, InOrderStoreEvent, PassedStoreEvent
  <2>5. QED BY <2>3, <2>4 DEF StreamInv
<1>6. QueueEmpty'
  BY <1>1, <1>3 DEF IInv, QueueEmpty, Shapes
<1>7. EventsInBlocks'
  <2>1. \A v \in Networks : /\ RecordedHeights(v)' = RecordedHeights(v)
                            /\ Handling(v)' => Handling(v)
    BY <1>1, <1>3 DEF RecordedHeights, Handling, Shapes
  <2>2. cur[n].height \in RecordedHeights(n)
    BY <1>3 DEF IInv, EventsInBlocks, Handling
  <2>3. ASSUME NEW i \in DOMAIN events' PROVE (events[i].height \in RecordedHeights(At(i).net))'
    <3>1. CASE i \in DOMAIN events
      <4>1. events'[i] = events[i] /\ Step(events'[i]) = At(i)
        BY <1>3, <3>1 DEF At
      <4>2. QED BY <1>3, <3>1, <4>1 DEF IInv, EventsInBlocks, RecordedHeights, At, Step
    <3>2. CASE i = Len(events) + 1
      <4>1. events'[i].height = cur[n].height /\ Step(events'[i]).net = n
        BY <1>1, <1>3, <3>2 DEF Recording, Step
      <4>2. QED BY <1>3, <2>2, <4>1 DEF RecordedHeights, At, Step
    <3>3. QED BY <1>3, <3>1, <3>2
  <2>4. QED BY <1>3, <2>1, <2>3 DEF IInv, EventsInBlocks
<1>8. QED BY <1>2, <1>4, <1>5, <1>6, <1>7 DEF IInv

LEMMA InvLinks ==
  ASSUME IInv, NEW n \in Networks, StoreEventFails(n) \/ GetLinks(n) \/ GetLinksFails(n)
  PROVE  IInv'
<1>1. Shapes
  BY DEF IInv
<1>2. /\ pc[n] \in {"event", "links"} /\ pc' = [pc EXCEPT ![n] = pc'[n]]
      /\ pc'[n] \in {"links", "save"}
      /\ UNCHANGED <<load, chain, blocks, statuses, hidden, overtaken, events, at, since, queue, cur, sid>>
  BY <1>1 DEF StoreEventFails, GetLinks, GetLinksFails, Goto, tables, stream, handler, Shapes
<1>3. Shapes'
  <2>1. CASE StoreEventFails(n)
    <3>1. /\ pc' = [pc EXCEPT ![n] = "links"] /\ "links" \in Labels
          /\ UNCHANGED <<load, chain, blocks, statuses, hidden, overtaken, events, at, since, queue, cur, sid, found>>
      BY <2>1 DEF StoreEventFails, Goto, tables, stream, handler, Labels
    <3>2. QED BY <1>1, <3>1, SameRow
  <2>2. CASE GetLinks(n) \/ GetLinksFails(n)
    BY <1>1, <2>2, ShapesGetLinks
  <2>3. QED BY <2>1, <2>2
<1>4. ASSUME NEW v \in Networks
      PROVE  /\ Handling(v)' => Handling(v) /\ cur'[v] = cur[v]
             /\ Unrecorded(v)' => Unrecorded(v)
             /\ StatusKnown(v)' => StatusKnown(v)
             /\ pc'[v] \in {"down", "closed", "commit", "findAgain"} => pc'[v] = pc[v]
  <2>1. CASE v = n
    BY <1>2, <2>1 DEF Unrecorded, StatusKnown, Handling
  <2>2. CASE v # n
    <3>1. pc'[v] = pc[v]
      BY <1>1, <1>2, <2>2 DEF Shapes
    <3>2. QED BY <1>2, <3>1 DEF Unrecorded, StatusKnown, Handling
  <2>3. QED BY <2>1, <2>2
<1>5. SameEvents /\ StepsExist' /\ FinalInFinalBlock' /\ \A v \in Networks : StreamInv(v)'
  BY <1>2, <1>4, HandlerStep
<1>6. SharedStatus'
  BY <1>1, <1>2, <1>4, <1>5, SharedKept DEF IInv
<1>7. QueueEmpty'
  BY <1>2, <1>4 DEF IInv, QueueEmpty
<1>8. EventsInBlocks'
  BY <1>2, <1>4, <1>5, InBlocksKept, RecordedGrows DEF IInv
<1>9. QED BY <1>3, <1>5, <1>6, <1>7, <1>8 DEF IInv

LEMMA InvSaveStatus ==
  ASSUME IInv, NEW n \in Networks, SaveStatus(n)
  PROVE  IInv'
<1>1. Shapes /\ statuses \in Seq(StatusRow)
  BY DEF IInv, Shapes
<1>2. /\ pc' = [pc EXCEPT ![n] = "stream"]
      /\ cur' = [cur EXCEPT ![n] = None] /\ sid' = [sid EXCEPT ![n] = 0]
      /\ UNCHANGED <<load, chain, blocks, hidden, overtaken, events, at, since, queue>>
      /\ statuses' \in Seq(StatusRow) /\ Len(statuses') = Len(statuses)
      /\ \A i \in DOMAIN statuses : statuses'[i].msg = statuses[i].msg
  BY <1>1, SaveStatusIs
<1>3. ASSUME NEW v \in Networks
      PROVE  /\ Handling(v)' => Handling(v) /\ cur'[v] = cur[v]
             /\ Unrecorded(v)' => Unrecorded(v)
             /\ StatusKnown(v)' => StatusKnown(v) /\ sid'[v] = sid[v] /\ cur'[v] = cur[v]
             /\ pc'[v] \in {"down", "closed", "commit", "findAgain"} =>
                  /\ pc'[v] = pc[v] /\ sid'[v] = sid[v] /\ cur'[v] = cur[v]
  BY <1>1, <1>2 DEF Unrecorded, StatusKnown, Handling, Shapes
<1>4. SameEvents /\ StepsExist' /\ FinalInFinalBlock' /\ \A v \in Networks : StreamInv(v)'
  BY <1>2, <1>3, HandlerStep
<1>5. DOMAIN statuses' = DOMAIN statuses
  BY <1>1, <1>2
<1>6. SharedStatus'
  BY <1>1, <1>2, <1>3, <1>4, <1>5, SharedKept DEF IInv
<1>7. Shapes'
  BY <1>1, ShapesSaveStatus
<1>8. QueueEmpty'
  BY <1>2, <1>3 DEF IInv, QueueEmpty
<1>9. EventsInBlocks'
  BY <1>2, <1>3, <1>4, InBlocksKept, RecordedGrows DEF IInv
<1>10. QED BY <1>4, <1>6, <1>7, <1>8, <1>9 DEF IInv

LEMMA InvStop ==
  ASSUME IInv, NEW n \in Networks, ConnectionLost(n) \/ SaveStatusFails(n)
  PROVE  IInv'
<1>1. Shapes
  BY DEF IInv
<1>2. Stopped(n)
  BY StopIs
<1>3. \A v \in Networks : IF v = n THEN queue'[v] = <<>> /\ pc'[v] = "closed"
                          ELSE UNCHANGED <<queue[v], pc[v], cur[v], sid[v]>>
  BY <1>1, <1>2 DEF Stopped, Shapes
<1>4. UNCHANGED <<load, chain, blocks, statuses, hidden, overtaken, events, at, since>>
  BY <1>2 DEF Stopped
<1>5. SameEvents /\ StepsExist' /\ FinalInFinalBlock' /\ \A v \in Networks : StreamInv(v)'
  BY <1>3, <1>4, StoppingStep
<1>6. ASSUME NEW v \in Networks
      PROVE  /\ StatusKnown(v)' => StatusKnown(v) /\ sid'[v] = sid[v] /\ cur'[v] = cur[v]
             /\ pc'[v] \in {"commit", "findAgain"} => /\ pc'[v] = pc[v] /\ sid'[v] = sid[v]
                                                     /\ cur'[v] = cur[v]
             /\ Handling(v)' => Handling(v) /\ cur'[v] = cur[v]
  BY <1>3 DEF StatusKnown, Handling
<1>7. SharedStatus'
  BY <1>1, <1>4, <1>5, <1>6, SharedKept DEF IInv
<1>8. Shapes'
  BY <1>1, <1>2, ShapesStop
<1>9. QueueEmpty'
  BY <1>3 DEF IInv, QueueEmpty
<1>10. EventsInBlocks'
  BY <1>4, <1>5, <1>6, InBlocksKept, RecordedGrows DEF IInv
<1>11. QED BY <1>5, <1>7, <1>8, <1>9, <1>10 DEF IInv

LEMMA InvDie ==
  ASSUME IInv, Die
  PROVE  IInv'
<1>1. Shapes /\ Dead
  BY DieIs DEF IInv
<1>2. \A v \in Networks : queue'[v] = <<>> /\ pc'[v] = "down"
  BY <1>1 DEF Dead, ForAll
<1>3. UNCHANGED <<load, chain, blocks, statuses, hidden, overtaken, events, at, since>>
  BY <1>1 DEF Dead
<1>4. SameEvents /\ StepsExist' /\ FinalInFinalBlock' /\ \A v \in Networks : StreamInv(v)'
  BY <1>2, <1>3, StoppingStep
<1>5. \A v \in Networks : /\ ~ StatusKnown(v)' /\ ~ Handling(v)'
                          /\ pc'[v] \notin {"commit", "findAgain"}
  BY <1>2 DEF StatusKnown, Handling
<1>6. SharedStatus'
  BY <1>1, <1>3, <1>4, <1>5, SharedKept DEF IInv
<1>7. Shapes'
  BY <1>1, ShapesDead
<1>8. QueueEmpty'
  BY <1>2 DEF QueueEmpty
<1>9. EventsInBlocks'
  BY <1>3, <1>4, <1>5, InBlocksKept, RecordedGrows DEF IInv
<1>10. QED BY <1>4, <1>6, <1>7, <1>8, <1>9 DEF IInv

LEMMA InvRelink ==
  ASSUME IInv, Relink
  PROVE  IInv'
<1>1. Shapes /\ Relinks
  BY RelinkIs DEF IInv
<1>2. \A v \in Networks : pc[v] = "down" /\ pc'[v] = "closed"
  BY <1>1 DEF Relinks, ForAll
<1>3. /\ UNCHANGED <<load, chain, blocks, hidden, overtaken, events, at, since, queue, cur>>
      /\ DOMAIN statuses' = DOMAIN statuses
      /\ \A i \in DOMAIN statuses : statuses'[i].msg = statuses[i].msg
  BY <1>1 DEF Relinks, Shapes
<1>4. \A v \in Networks : /\ ~ StatusKnown(v)' /\ ~ Handling(v)' /\ ~ Unrecorded(v)'
                          /\ pc'[v] \notin {"commit", "findAgain"}
  BY <1>2 DEF StatusKnown, Handling, Unrecorded
<1>5. SameEvents /\ StepsExist' /\ FinalInFinalBlock' /\ \A v \in Networks : StreamInv(v)'
  BY <1>3, <1>4, HandlerStep
<1>6. SharedStatus'
  BY <1>1, <1>3, <1>4, <1>5, SharedKept DEF IInv
<1>7. Shapes'
  BY <1>1, ShapesRelinks
<1>8. QueueEmpty'
  BY <1>2, <1>3 DEF IInv, QueueEmpty
<1>9. EventsInBlocks'
  BY <1>3, <1>4, <1>5, InBlocksKept, RecordedGrows DEF IInv
<1>10. QED BY <1>5, <1>6, <1>7, <1>8, <1>9 DEF IInv

LEMMA InvOpen ==
  ASSUME IInv, NEW n \in Networks, OpenStream(n)
  PROVE  IInv'
<1>1. Shapes /\ \A v \in Networks : ChainOK(v) /\ StreamFollows(v) /\ InOrder(v)
  BY DEF IInv, StreamInv
<1>2. Opened(n)
  BY <1>1, OpenIs
<1>3. UNCHANGED <<load, chain, blocks, statuses, hidden, overtaken, events, queue, cur, sid>>
  BY <1>2 DEF Opened
<1>4. /\ pc[n] = "closed" /\ pc'[n] = "stream"
      /\ \A v \in Networks \ {n} : pc'[v] = pc[v] /\ at'[v] = at[v]
  BY <1>1, <1>2 DEF Opened, Shapes
<1>5. SameEvents /\ StepsExist' /\ FinalInFinalBlock'
  BY <1>3, FinalKept DEF SameEvents, IInv, StepsExist
<1>6. \A v \in Networks : /\ StatusKnown(v)' => StatusKnown(v)
                          /\ pc'[v] \in {"commit", "findAgain"} => pc'[v] = pc[v]
                          /\ Handling(v)' => Handling(v)
                          /\ Unrecorded(v)' => Unrecorded(v)
  BY <1>4 DEF StatusKnown, Handling, Unrecorded
<1>7. ASSUME NEW v \in Networks PROVE StreamInv(v)'
  <2>1. ChainOK(v)' /\ StreamFollows(v)'
    BY <1>1, <1>2, StreamOpens
  <2>2. InOrder(v)'
    BY <1>1, <1>3, <1>5, InOrderKept
  <2>3. PICK q \in 0..Len(chain[v]) : PassedOn(v, q)
    BY DEF IInv, StreamInv
  <2>4. \E p \in 0..Len(chain'[v]) : PassedOn(v, p)'
    <3>1. CASE v = n
      <4>1. queue[v] = <<>>
        BY <1>4, <3>1 DEF IInv, QueueEmpty
      <4>2. QED BY <1>1, <1>2, <2>3, <3>1, <4>1, PassedOpens
    <3>2. CASE v # n
      <4>1. PassedOn(v, q)'
        BY <1>3, <1>4, <1>5, <1>6, <2>3, <3>2, PassedKept
      <4>2. QED BY <1>3, <4>1
    <3>3. QED BY <3>1, <3>2
  <2>5. QED BY <2>1, <2>2, <2>4 DEF StreamInv
<1>8. SharedStatus'
  BY <1>1, <1>3, <1>5, <1>6, SharedKept DEF IInv
<1>9. Shapes'
  BY <1>1, <1>2, ShapesOpen
<1>10. QueueEmpty'
  BY <1>3, <1>4 DEF IInv, QueueEmpty
<1>11. EventsInBlocks'
  BY <1>1, <1>3, <1>5, <1>6, InBlocksKept, RecordedGrows DEF IInv
<1>12. QED BY <1>5, <1>7, <1>8, <1>9, <1>10, <1>11 DEF IInv

LEMMA InvFinalize ==
  ASSUME IInv, NEW n \in Networks, FinalizeBlock(n)
  PROVE  IInv'
<1>1. Shapes
  BY DEF IInv
<1>2. PICK ids : Finalizes(n, ids)
  BY <1>1, FinalizeIs
<1>3. UNCHANGED <<load, chain, statuses, hidden, overtaken, pc, at, since, queue, cur, sid, found>>
  BY <1>2 DEF Finalizes
<1>4. SameEvents
  BY <1>1, <1>2 DEF Finalizes, SameEvents, Shapes
<1>5. Shapes' /\ FinalInFinalBlock'
  BY <1>1, <1>2, ShapesFinalize, FinalFinalize DEF IInv
<1>6. StepsExist'
  BY <1>4 DEF IInv, StepsExist, SameEvents
<1>7. \A v \in Networks : /\ StatusKnown(v)' => StatusKnown(v)
                          /\ Unrecorded(v)' => Unrecorded(v)
                          /\ Handling(v)' => Handling(v)
  BY <1>3 DEF StatusKnown, Unrecorded, Handling
<1>8. SharedStatus'
  BY <1>1, <1>3, <1>4, <1>7, SharedKept DEF IInv
<1>9. ASSUME NEW v \in Networks PROVE StreamInv(v)'
  <2>1. ChainOK(v) /\ StreamFollows(v) /\ InOrder(v)
    BY DEF IInv, StreamInv
  <2>2. PICK q \in 0..Len(chain[v]) : PassedOn(v, q)
    BY DEF IInv, StreamInv
  <2>3. ChainOK(v)' /\ StreamFollows(v)'
    BY <1>1, <1>2, <2>1, StreamFinalize
  <2>4. InOrder(v)'
    BY <1>1, <1>3, <1>4, <2>1, InOrderKept
  <2>5. PassedOn(v, q)' /\ q \in 0..Len(chain'[v])
    BY <1>3, <1>4, <1>7, <2>2, PassedKept
  <2>6. QED BY <2>3, <2>4, <2>5 DEF StreamInv
<1>10. QueueEmpty'
  BY <1>3 DEF IInv, QueueEmpty
<1>11. RecordedKept
  <2>1. ids \subseteq blocks /\ blocks \subseteq BlockRow
        /\ blocks' = (blocks \ ids) \cup {[b EXCEPT !.final = TRUE] : b \in ids}
    BY <1>1, <1>2 DEF Finalizes, Shapes
  <2>2. ASSUME NEW b \in blocks PROVE \E c \in blocks' : c.net = b.net /\ c.height = b.height
    <3>1. CASE b \in ids
      <4>1. /\ [b EXCEPT !.final = TRUE] \in blocks'
            /\ [b EXCEPT !.final = TRUE].net = b.net /\ [b EXCEPT !.final = TRUE].height = b.height
        BY <2>1, <3>1 DEF BlockRow
      <4>2. QED BY <4>1
    <3>2. CASE b \notin ids
      BY <2>1, <3>2
    <3>3. QED BY <3>1, <3>2
  <2>3. QED BY <2>2, RecordedGrows
<1>12. EventsInBlocks'
  BY <1>1, <1>3, <1>4, <1>7, <1>11, InBlocksKept DEF IInv
<1>13. QED BY <1>5, <1>6, <1>8, <1>9, <1>10, <1>12 DEF IInv

LEMMA InvNext == IInv /\ [Next]_vars => IInv'
<1> SUFFICES ASSUME IInv, [Next]_vars PROVE IInv'
  OBVIOUS
<1>1. ASSUME NEW n \in Networks, NewBlock(n) PROVE IInv'
  BY <1>1, InvNewBlock
<1>2. ASSUME NEW n \in Networks, ConnectionLost(n) \/ SaveStatusFails(n) PROVE IInv'
  BY <1>2, InvStop
<1>3. ASSUME NEW n \in Networks, StoreBlock(n) PROVE IInv'
  BY <1>3, InvStoreBlock
<1>4. ASSUME NEW n \in Networks, FindStatus(n) \/ FindAgain(n) PROVE IInv'
  BY <1>4, InvFind
<1>5. ASSUME NEW n \in Networks, InsertStatus(n) \/ CommitStatus(n) PROVE IInv'
  BY <1>5, InvInsert, InvCommit
<1>6. ASSUME NEW n \in Networks, StatusFails(n) PROVE IInv'
  BY <1>6, InvDie DEF StatusFails
<1>7. ASSUME NEW n \in Networks, StoreEvent(n) PROVE IInv'
  BY <1>7, InvStoreEvent
<1>8. ASSUME NEW n \in Networks, StoreEventFails(n) \/ GetLinks(n) \/ GetLinksFails(n) PROVE IInv'
  BY <1>8, InvLinks
<1>9. ASSUME NEW n \in Networks, SaveStatus(n) PROVE IInv'
  BY <1>9, InvSaveStatus
<1>10. ASSUME NEW n \in Networks, FinalizeBlock(n) PROVE IInv'
  BY <1>10, InvFinalize
<1>11. CASE Crash
  BY <1>11, InvDie DEF Crash
<1>o. ASSUME NEW n \in Networks, OpenStream(n) PROVE IInv'
  BY <1>o, InvOpen
<1>r. CASE Relink
  BY <1>r, InvRelink
<1>12. CASE UNCHANGED vars
  <2>1. UNCHANGED <<load, chain, blocks, statuses, hidden, overtaken, events, pc, at, since, queue,
                    cur, sid, found>>
    BY <1>12 DEF vars, tables, stream, handler
  <2>2. Shapes /\ \A v \in Networks : /\ Unrecorded(v)' => Unrecorded(v)
                                      /\ StatusKnown(v)' => StatusKnown(v)
                                      /\ Handling(v)' => Handling(v)
    BY <2>1 DEF IInv, Unrecorded, StatusKnown, Handling
  <2>3. SameEvents /\ StepsExist' /\ FinalInFinalBlock' /\ \A v \in Networks : StreamInv(v)'
    BY <2>1, <2>2, HandlerStep
  <2>4. SharedStatus'
    BY <2>1, <2>2, <2>3, SharedKept DEF IInv
  <2>5. Shapes'
    BY <2>1, <2>2 DEF Shapes, Found
  <2>6. QueueEmpty' /\ EventsInBlocks'
    BY <2>1, <2>2, <2>3, InBlocksKept, RecordedGrows DEF IInv, QueueEmpty
  <2>7. QED BY <2>3, <2>4, <2>5, <2>6 DEF IInv
<1>13. QED
  BY <1>1, <1>2, <1>3, <1>4, <1>5, <1>6, <1>7, <1>8, <1>9, <1>10, <1>11, <1>o, <1>r, <1>12 DEF Next


LEMMA InvAlways == Spec => []IInv
<1>1. Init => IInv
  BY InitInv
<1>2. IInv /\ [Next]_vars => IInv'
  BY InvNext
<1>3. QED BY <1>1, <1>2, PTL DEF Spec

-----------------------------------------------------------------------------
(* The theorems.                                                           *)

LEMMA InvTyped == IInv => TypeOK
<1> SUFFICES ASSUME IInv PROVE TypeOK
  OBVIOUS
<1>1. Shapes
  BY DEF IInv
<1>2. \A n \in Networks : \A i \in DOMAIN chain[n] :
        chain[n][i] \in [msg : Messages, step : Nat, height : Nat]
  <2>1. \A n \in Networks : chain[n] \in Seq(ChainEvent)
    BY <1>1 DEF Shapes
  <2>2. \A n \in Networks : \A i \in DOMAIN chain[n] : chain[n][i] \in ChainEvent
    BY <2>1
  <2>3. QED BY <2>2 DEF ChainEvent
<1>3. \A b \in blocks : b \in [net : Networks, height : Nat, final : BOOLEAN]
  BY <1>1 DEF Shapes, BlockRow
<1>4. ASSUME NEW i \in DOMAIN statuses
      PROVE  /\ statuses[i].msg \in Messages /\ statuses[i].status \in Statuses
             /\ Range(statuses[i].links) \subseteq DOMAIN events
  <2>1. statuses[i] \in StatusRow
    BY <1>1 DEF Shapes
  <2>2. QED BY <1>1, <2>1, ZenonT(60) DEF StatusRow, Shapes, Range
<1>5. ASSUME NEW i \in DOMAIN events
      PROVE  /\ events[i].sid \in DOMAIN statuses
             /\ \E b \in blocks : b.net = At(i).net /\ b.height = events[i].height
  <2>1. events[i].sid \in DOMAIN statuses
    BY DEF IInv, SharedStatus, FirstOf, Visible
  <2>2. events[i].height \in RecordedHeights(At(i).net)
    BY DEF IInv, EventsInBlocks
  <2>3. QED BY <2>1, <2>2 DEF RecordedHeights
<1>6. ASSUME NEW n \in Networks
      PROVE  /\ pc[n] \in {"down", "closed", "stream", "findStatus", "newStatus", "commit",
                            "findAgain", "event", "links", "save"}
             /\ at[n] \in Nat
             /\ pc[n] \in {"commit", "event", "links", "save"} =>
                  sid[n] \in DOMAIN statuses /\ statuses[sid[n]].msg = cur[n].msg
  <2>1. pc[n] \in Labels /\ at[n] \in Nat /\ hidden \subseteq DOMAIN statuses
    BY <1>1 DEF Shapes
  <2>2. pc[n] = "commit" => sid[n] \in hidden /\ statuses[sid[n]].msg = cur[n].msg
    BY DEF IInv, SharedStatus, Committing
  <2>3. StatusKnown(n) => sid[n] \in DOMAIN statuses /\ statuses[sid[n]].msg = cur[n].msg
    BY DEF IInv, SharedStatus, FirstOf, Visible
  <2>4. QED BY <2>1, <2>2, <2>3 DEF Labels, StatusKnown
<1>7. QED BY <1>2, <1>3, <1>4, <1>5, <1>6 DEF TypeOK

\* Every variable of the tracker has its type, and every key that a goroutine
\* or a row holds refers to a row.
THEOREM TrackerTyped == Spec => []TypeOK
BY InvAlways, InvTyped, PTL

\* However often monitorEvent starts over, after lost connections, failing
\* writes and crashes, no event is recorded twice, and those of a network are
\* recorded in the order of its chain.
THEOREM EventsRecordedOnce == Spec => []RecordedOnce
<1>1. IInv => RecordedOnce
  BY OrderIs DEF IInv, StreamInv
<1>2. QED BY <1>1, InvAlways, PTL

\* A block that the stream of a network has passed since it began is in the table of
\* Blocks: since block 1 where it is polled, since it was opened where it is a subscription.
THEOREM StreamSkipsNoBlock == Spec => []NoBlockSkipped
<1>1. IInv => NoBlockSkipped
  BY DEF NoBlockSkipped, IInv, StreamInv, StreamFollows
<1>2. QED BY <1>1, InvAlways, PTL

\* A stream that is polled began at block 1, however often it starts over, so that the theorem
\* above is about all that it passed.
THEOREM PolledFromTheFirst ==
  Spec => [](\A n \in Networks \ load.subscriptions : since[n] = 1)
<1>1. IInv => \A n \in Networks \ load.subscriptions : since[n] = 1
  BY DEF IInv, StreamInv, StreamFollows
<1>2. QED BY <1>1, InvAlways, PTL

\* All the events of a message refer to one BTPStatus, also when several networks saw that
\* there was none and each made one - unless the status with the lower key was committed last.
THEOREM OneStatusPerMessage == Spec => []StatusShared
<1>1. IInv => StatusShared
  <2> SUFFICES ASSUME IInv, NEW i \in DOMAIN events, NEW j \in DOMAIN events,
                      events[i].msg = events[j].msg, events[i].msg \notin overtaken
               PROVE  events[i].sid = events[j].sid
    BY DEF StatusShared
  <2>1. FirstOf(events[i].sid, events[i].msg) /\ FirstOf(events[j].sid, events[i].msg)
    BY DEF IInv, SharedStatus
  <2>2. QED BY <2>1, FirstIsUnique DEF IInv, Shapes
<1>2. QED BY <1>1, InvAlways, PTL

\* Where one transaction writes at a time, as in SQLite, the row being committed is the last.
OneWriter == load.oneWriter => /\ overtaken = {}
                               /\ \A n \in Networks : pc[n] = "commit" => sid[n] = Len(statuses)

LEMMA WritersKept ==
  ASSUME OneWriter, UNCHANGED <<load, overtaken>>, Len(statuses') = Len(statuses),
         \A n \in Networks : pc'[n] = "commit" => pc[n] = "commit" /\ sid'[n] = sid[n]
  PROVE  OneWriter'
BY DEF OneWriter

LEMMA WritersNext == IInv /\ OneWriter /\ [Next]_vars => OneWriter'
<1> SUFFICES ASSUME IInv, OneWriter, [Next]_vars PROVE OneWriter'
  OBVIOUS
<1>t. pc \in [Networks -> Labels] /\ Shapes
  BY DEF IInv, Shapes
<1>1. ASSUME NEW n \in Networks, \/ NewBlock(n) \/ OpenStream(n) \/ ConnectionLost(n)
                                 \/ StoreBlock(n) \/ FindStatus(n) \/ FindAgain(n)
                                 \/ StoreEvent(n) \/ StoreEventFails(n)
                                 \/ GetLinks(n) \/ GetLinksFails(n) \/ SaveStatusFails(n)
                                 \/ FinalizeBlock(n)
      PROVE  OneWriter'
  <2>1. UNCHANGED <<load, statuses, overtaken>>
    BY <1>1 DEF NewBlock, OpenStream, ConnectionLost, StoreBlock, FindStatus, FindAgain, StoreEvent,
                StoreEventFails, GetLinks, GetLinksFails, SaveStatusFails, FinalizeBlock, tables
  <2>2. ASSUME NEW v \in Networks, pc'[v] = "commit" PROVE pc[v] = "commit" /\ sid'[v] = sid[v]
    <3>1. CASE NewBlock(n) \/ FinalizeBlock(n)
      BY <2>2, <3>1 DEF NewBlock, FinalizeBlock, handler
    <3>2. CASE OpenStream(n) \/ StoreBlock(n) \/ StoreEvent(n) \/ StoreEventFails(n)
      BY <1>t, <2>2, <3>2 DEF OpenStream, StoreBlock, StoreEvent, StoreEventFails, Goto, handler
    <3>3. CASE ConnectionLost(n) \/ SaveStatusFails(n)
      BY <1>t, <2>2, <3>3 DEF ConnectionLost, SaveStatusFails, StopStream, Forget, Goto, Shapes
    <3>4. CASE FindStatus(n) \/ FindAgain(n)
      BY <1>t, <2>2, <3>4 DEF FindStatus, FindAgain, Goto, Shapes
    <3>5. CASE GetLinks(n) \/ GetLinksFails(n)
      BY <1>t, <2>2, <3>5 DEF GetLinks, GetLinksFails, Goto
    <3>6. QED BY <1>1, <3>1, <3>2, <3>3, <3>4, <3>5
  <2>3. QED BY <2>1, <2>2, WritersKept
<1>2. ASSUME NEW n \in Networks, InsertStatus(n) PROVE OneWriter'
  <2>1. Inserts(n)
    BY <1>2, InvInsert
  <2>2. load.oneWriter => \A v \in Networks : pc[v] # "commit"
    BY <1>2 DEF InsertStatus
  <2>3. UNCHANGED <<load, overtaken>> /\ Len(statuses') = Len(statuses) + 1
        /\ sid'[n] = Len(statuses) + 1 /\ \A v \in Networks \ {n} : pc'[v] = pc[v]
    BY <1>t, <2>1 DEF Inserts, Shapes
  <2>4. QED BY <2>2, <2>3 DEF OneWriter
<1>3. ASSUME NEW n \in Networks, CommitStatus(n) PROVE OneWriter'
  <2>1. Commits(n)
    BY <1>3, CommitIs
  <2>2. load.oneWriter => ~ Overtakes(n)
    <3>1. SUFFICES ASSUME load.oneWriter, NEW i \in StatusesOf(cur[n].msg) PROVE ~ (sid[n] < i)
      BY DEF Overtakes
    <3>2. sid[n] = Len(statuses)
      BY <2>1, <3>1 DEF OneWriter, Commits
    <3>3. i \in 1..Len(statuses) /\ Len(statuses) \in Nat
      BY <1>t DEF StatusesOf, Shapes
    <3>4. QED BY <3>2, <3>3
  <2>3. UNCHANGED <<load, statuses, sid>> /\ (load.oneWriter => overtaken' = overtaken)
        /\ \A v \in Networks : pc'[v] = "commit" => pc[v] = "commit"
    BY <1>t, <2>1, <2>2 DEF Commits
  <2>4. QED BY <2>3 DEF OneWriter
<1>4. ASSUME NEW n \in Networks, SaveStatus(n) PROVE OneWriter'
  <2>1. /\ pc' = [pc EXCEPT ![n] = "stream"] /\ sid' = [sid EXCEPT ![n] = 0]
        /\ UNCHANGED <<load, overtaken>> /\ Len(statuses') = Len(statuses)
    BY <1>t, <1>4, SaveStatusIs
  <2>2. \A v \in Networks : pc'[v] = "commit" => pc[v] = "commit" /\ sid'[v] = sid[v]
    BY <1>t, <2>1 DEF Shapes
  <2>3. QED BY <2>1, <2>2, WritersKept
<1>5. CASE Crash \/ \E n \in Networks : StatusFails(n)
  <2>1. Dead
    BY <1>5, DieIs DEF Crash, StatusFails
  <2>2. \A v \in Networks : pc'[v] # "commit"
    BY <2>1 DEF Dead, ForAll
  <2>3. QED BY <2>1, <2>2, WritersKept DEF Dead
<1>6. CASE Relink
  <2>1. Relinks
    BY <1>t, <1>6, RelinkIs
  <2>2. \A v \in Networks : pc'[v] # "commit"
    BY <2>1 DEF Relinks, ForAll
  <2>3. QED BY <2>1, <2>2, WritersKept DEF Relinks
<1>7. CASE UNCHANGED vars
  BY <1>7, WritersKept DEF vars, tables, handler
<1>8. QED BY <1>1, <1>2, <1>3, <1>4, <1>5, <1>6, <1>7 DEF Next

\* With one writer at a time no commit overtakes another, so that every message has one status.
THEOREM OneWriterSharesStatus ==
  Spec => [](load.oneWriter =>
    \A i, j \in DOMAIN events : events[i].msg = events[j].msg => events[i].sid = events[j].sid)
<1>1. Init => OneWriter
  BY DEF Init, OneWriter, ForAll
<1>2. IInv /\ OneWriter /\ StatusShared => (load.oneWriter =>
        \A i, j \in DOMAIN events : events[i].msg = events[j].msg => events[i].sid = events[j].sid)
  BY DEF OneWriter, StatusShared
<1>3. QED BY <1>1, <1>2, WritersNext, InvAlways, OneStatusPerMessage, PTL DEF Spec

\* An event that finalizeEvent marked is in a block of its network that
\* finalizeBlock marked.
THEOREM FinalEventsInFinalBlocks == Spec => []FinalInFinalBlock
<1>1. IInv => FinalInFinalBlock
  BY DEF IInv
<1>2. QED BY <1>1, InvAlways, PTL

-----------------------------------------------------------------------------
(* The status of an orderly message.                                       *)

JourneyLen(m) == Len(Journey[m])

\* The message is received at step r.
ReceivedAt(m, r) ==
  /\ r \in 2..JourneyLen(m)
  /\ Journey[m][1].event = "SEND" /\ Journey[m][r].event = "RECEIVE"
  /\ \A k \in 2..(r - 1) : Journey[m][k].event = "ROUTE"
  /\ IF Journey[m][r].next = None THEN r = JourneyLen(m)
     ELSE /\ r + 1 < JourneyLen(m)
          /\ Journey[m][r + 1].event \in {"REPLY", "ERROR"}
          /\ Journey[m][JourneyLen(m)].event = "RECEIVE"
          /\ \A k \in (r + 2)..(JourneyLen(m) - 1) : Journey[m][k].event = "ROUTE"

LEMMA JourneyIs ==
  ASSUME NEW m \in Messages
  PROVE  /\ JourneyLen(m) \in Nat /\ DOMAIN Journey[m] = 1..JourneyLen(m)
         /\ \A k \in 1..JourneyLen(m) : Journey[m][k] \in Steps
<1>1. Journey[m] \in Seq(Steps)
  BY TrackerAssumption DEF Steps
<1>2. QED BY <1>1 DEF JourneyLen

LEMMA ReceivedSomewhere ==
  ASSUME NEW m \in Messages, Orderly(m)
  PROVE  \E r : ReceivedAt(m, r)
BY DEF Orderly, ReceivedAt, JourneyLen

LEMMA StatusIs ==
  ASSUME NEW m \in Messages, NEW r, ReceivedAt(m, r), NEW k \in 1..JourneyLen(m)
  PROVE  StatusAfter(m, k) = IF k = JourneyLen(m) THEN "Completed"
                             ELSE IF k < r THEN "Sending"
                             ELSE IF k = r THEN "WaitReply" ELSE "Replying"
<1> DEFINE L == JourneyLen(m)
           passed == {Journey[m][j].event : j \in 1..k}
<1>1. L \in Nat /\ k \in Nat /\ k # 0 /\ r \in Nat /\ r >= 2 /\ r <= L /\ k <= L
  BY JourneyIs DEF ReceivedAt
<1>2. StatusAfter(m, k) =
        CASE k = 0 -> "Unknown"
          [] k = L -> "Completed"
          [] k # L /\ passed \cap {"REPLY", "ERROR"} # {} -> "Replying"
          [] k \notin {0, L} /\ passed \cap {"REPLY", "ERROR"} = {} ->
               IF "RECEIVE" \in passed THEN "WaitReply" ELSE "Sending"
  BY DEF StatusAfter, JourneyLen
<1> HIDE DEF L
<1>3. CASE k = L
  BY <1>1, <1>2, <1>3 DEF L
<1>4. CASE k # L /\ k < r
  <2>1. \A j \in 1..k : j = 1 \/ j \in 2..(r - 1)
    BY <1>1, <1>4
  <2>2. \A j \in 1..k : Journey[m][j].event \in {"SEND", "ROUTE"}
    BY <2>1 DEF ReceivedAt
  <2>3. passed \cap {"REPLY", "ERROR"} = {} /\ "RECEIVE" \notin passed
    BY <2>2
  <2>4. StatusAfter(m, k) = "Sending"
    BY <1>1, <1>2, <1>4, <2>3
  <2>5. QED BY <1>4, <2>4 DEF L
<1>5. CASE k # L /\ k = r
  <2>1. \A j \in 1..k : j = 1 \/ j \in 2..(r - 1) \/ j = r
    BY <1>1, <1>5
  <2>2. \A j \in 1..k : Journey[m][j].event \in {"SEND", "ROUTE", "RECEIVE"}
    BY <2>1 DEF ReceivedAt
  <2>3. passed \cap {"REPLY", "ERROR"} = {}
    BY <2>2
  <2>4. "RECEIVE" \in passed
    BY <1>1, <1>5 DEF ReceivedAt
  <2>5. StatusAfter(m, k) = "WaitReply"
    BY <1>1, <1>2, <1>5, <2>3, <2>4
  <2>6. QED BY <1>1, <1>5, <2>5 DEF L
<1>6. CASE k # L /\ r < k
  <2>1. r # L /\ r + 1 \in 1..k
    BY <1>1, <1>6
  <2>2. Journey[m][r + 1].event \in {"REPLY", "ERROR"}
    BY <2>1 DEF ReceivedAt, L
  <2>3. passed \cap {"REPLY", "ERROR"} # {}
    BY <2>1, <2>2
  <2>4. StatusAfter(m, k) = "Replying"
    BY <1>1, <1>2, <1>6, <2>3
  <2>5. QED BY <1>1, <1>6, <2>4 DEF L
<1>7. QED BY <1>1, <1>3, <1>4, <1>5, <1>6 DEF L

\* inferStatus takes the status of a message to the next step.
LEMMA InferIs ==
  ASSUME NEW m \in Messages, Orderly(m)
  PROVE  /\ JourneyLen(m) \in Nat /\ JourneyLen(m) >= 2 /\ StatusAfter(m, 1) = "Sending"
         /\ \A k \in 2..JourneyLen(m) :
              Infer(Journey[m][k], StatusAfter(m, k - 1)) = StatusAfter(m, k)
         /\ \A k \in 1..JourneyLen(m) : Journey[m][k].event = "SEND" => k = 1
<1>1. PICK r : ReceivedAt(m, r)
  BY ReceivedSomewhere
<1>2. /\ JourneyLen(m) \in Nat /\ r \in Nat /\ r >= 2 /\ r <= JourneyLen(m)
      /\ JourneyLen(m) >= 2
  BY <1>1, JourneyIs DEF ReceivedAt
<1>3. StatusAfter(m, 1) = "Sending"
  BY <1>1, <1>2, StatusIs
<1>4. ASSUME NEW k \in 2..JourneyLen(m)
      PROVE  Infer(Journey[m][k], StatusAfter(m, k - 1)) = StatusAfter(m, k)
  <2>1. /\ k \in Nat /\ k \in 1..JourneyLen(m) /\ k - 1 \in 1..JourneyLen(m) /\ k - 1 \in Nat
        /\ k - 1 # JourneyLen(m)
    BY <1>2
  <2>2. StatusAfter(m, k - 1) = IF k - 1 < r THEN "Sending"
                                ELSE IF k - 1 = r THEN "WaitReply" ELSE "Replying"
    BY <1>1, <2>1, StatusIs
  <2>3. StatusAfter(m, k) = IF k = JourneyLen(m) THEN "Completed"
                            ELSE IF k < r THEN "Sending"
                            ELSE IF k = r THEN "WaitReply" ELSE "Replying"
    BY <1>1, <2>1, StatusIs
  <2>4. CASE k < r
    <3>1. Journey[m][k].event = "ROUTE"
      BY <1>1, <1>2, <2>1, <2>4 DEF ReceivedAt
    <3>2. Infer(Journey[m][k], StatusAfter(m, k - 1)) = StatusAfter(m, k - 1)
      BY <3>1 DEF Infer
    <3>3. QED BY <1>2, <2>1, <2>2, <2>3, <2>4, <3>2
  <2>5. CASE k = r
    <3>1. Journey[m][k].event = "RECEIVE" /\ StatusAfter(m, k - 1) = "Sending"
      BY <1>1, <1>2, <2>1, <2>2, <2>5 DEF ReceivedAt
    <3>2. Infer(Journey[m][k], StatusAfter(m, k - 1)) =
            IF Journey[m][k].next # None THEN "WaitReply" ELSE "Completed"
      BY <3>1 DEF Infer
    <3>3. (Journey[m][k].next = None) <=> (k = JourneyLen(m))
      BY <1>1, <1>2, <2>1, <2>5 DEF ReceivedAt
    <3>4. QED BY <1>2, <2>3, <2>5, <3>2, <3>3
  <2>6. CASE k > r
    <3>1. /\ r + 1 < JourneyLen(m)
          /\ Journey[m][r + 1].event \in {"REPLY", "ERROR"}
          /\ Journey[m][JourneyLen(m)].event = "RECEIVE"
          /\ \A j \in (r + 2)..(JourneyLen(m) - 1) : Journey[m][j].event = "ROUTE"
      BY <1>1, <1>2, <2>1, <2>6 DEF ReceivedAt
    <3>2. CASE k = r + 1
      <4>1. StatusAfter(m, k - 1) = "WaitReply" /\ StatusAfter(m, k) = "Replying"
        BY <1>2, <2>1, <2>2, <2>3, <3>1, <3>2
      <4>2. QED BY <3>1, <3>2, <4>1 DEF Infer
    <3>3. CASE k > r + 1 /\ k < JourneyLen(m)
      <4>1. StatusAfter(m, k - 1) = "Replying" /\ StatusAfter(m, k) = "Replying"
        BY <1>2, <2>1, <2>2, <2>3, <3>3
      <4>2. Journey[m][k].event = "ROUTE"
        BY <1>2, <2>1, <3>1, <3>3
      <4>3. QED BY <4>1, <4>2 DEF Infer
    <3>4. CASE k = JourneyLen(m)
      <4>1. StatusAfter(m, k - 1) = "Replying" /\ StatusAfter(m, k) = "Completed"
        BY <1>2, <2>1, <2>2, <2>3, <3>1, <3>4
      <4>2. QED BY <3>1, <3>4, <4>1 DEF Infer
    <3>5. QED BY <1>2, <2>1, <2>6, <3>2, <3>3, <3>4
  <2>7. QED BY <1>2, <2>1, <2>4, <2>5, <2>6
<1>5. ASSUME NEW k \in 1..JourneyLen(m), k # 1 PROVE Journey[m][k].event # "SEND"
  <2>1. k \in Nat /\ k >= 2 /\ k <= JourneyLen(m)
    BY <1>2, <1>5
  <2>2. CASE k < r
    BY <1>1, <1>2, <2>1, <2>2 DEF ReceivedAt
  <2>3. CASE k = r
    BY <1>1, <2>3 DEF ReceivedAt
  <2>4. CASE k > r
    <3>1. k = r + 1 \/ k \in (r + 2)..(JourneyLen(m) - 1) \/ k = JourneyLen(m)
      BY <1>2, <2>1, <2>4
    <3>2. QED BY <1>1, <1>2, <2>1, <2>4, <3>1 DEF ReceivedAt
  <2>5. QED BY <1>2, <2>1, <2>2, <2>3, <2>4
<1>6. QED BY <1>2, <1>3, <1>4, <1>5


-----------------------------------------------------------------------------
(* Messages take their steps one after another, each once.                 *)

LEMMA TakenIs ==
  ASSUME NEW m, NEW x
  PROVE  /\ x \in StepsTaken(m) <=>
              \E v \in Networks : \E i \in DOMAIN chain[v] :
                chain[v][i].msg = m /\ chain[v][i].step = x
         /\ x \in StepsTaken(m)' <=>
              \E v \in Networks : \E i \in DOMAIN chain'[v] :
                chain'[v][i].msg = m /\ chain'[v][i].step = x
BY DEF StepsTaken, Range

\* How many of the first i messages are m.
Count(ms, m, i) == Cardinality({j \in 1..i : ms[j] = m})

LEMMA CountIs ==
  ASSUME NEW ms, NEW m, NEW i \in Nat
  PROVE  /\ Count(ms, m, i) \in Nat /\ Count(ms, m, 0) = 0
         /\ Count(ms, m, i + 1) = IF ms[i + 1] = m THEN Count(ms, m, i) + 1 ELSE Count(ms, m, i)
<1> DEFINE S == {j \in 1..i : ms[j] = m}
           T == {j \in 1..(i + 1) : ms[j] = m}
<1>1. IsFiniteSet(1..i)
  BY FS_Interval
<1>2. IsFiniteSet(S) /\ Cardinality(S) \in Nat
  BY <1>1, FS_Subset, FS_CardinalityType
<1>3. i + 1 \notin S
  OBVIOUS
<1>4. {j \in 1..0 : ms[j] = m} = {}
  OBVIOUS
<1>5. Count(ms, m, 0) = 0
  BY <1>4, FS_EmptySet DEF Count
<1>6. CASE ms[i + 1] = m
  <2>1. T = S \cup {i + 1}
    BY <1>6
  <2>2. Cardinality(T) = Cardinality(S) + 1
    BY <1>2, <1>3, <2>1, FS_AddElement
  <2>3. QED BY <1>2, <1>5, <1>6, <2>2 DEF Count
<1>7. CASE ms[i + 1] # m
  <2>1. T = S
    BY <1>7
  <2>2. QED BY <1>2, <1>5, <1>7, <2>1 DEF Count
<1>8. QED BY <1>6, <1>7

LEMMA CountGrows ==
  ASSUME NEW ms, NEW m, NEW i \in Nat, NEW j \in Nat, i <= j
  PROVE  Count(ms, m, i) <= Count(ms, m, j)
<1> DEFINE S == {l \in 1..i : ms[l] = m}
           T == {l \in 1..j : ms[l] = m}
<1>1. IsFiniteSet(1..j)
  BY FS_Interval
<1>2. S \subseteq T /\ IsFiniteSet(T)
  BY <1>1, FS_Subset
<1>3. QED BY <1>2, FS_Subset DEF Count

LEMMA CountReaches ==
  ASSUME NEW ms, NEW m, NEW k \in Nat, NEW c \in 1..Count(ms, m, k)
  PROVE  \E i \in 1..k : ms[i] = m /\ Count(ms, m, i) = c
<1> DEFINE S == {i \in Nat : Count(ms, m, i) >= c}
<1>1. Count(ms, m, k) \in Nat /\ c \in Nat /\ c >= 1 /\ c <= Count(ms, m, k)
  BY CountIs
<1>2. k \in S
  BY <1>1
<1>3. PICK i \in S : \A y \in S : i <= y
  BY <1>2, LeastExists
<1>4. i \in Nat /\ i # 0 /\ i <= k
  BY <1>1, <1>2, <1>3, CountIs
<1>5. i - 1 \in Nat /\ i - 1 \notin S /\ (i - 1) + 1 = i
  BY <1>3, <1>4
<1>6. Count(ms, m, i - 1) \in Nat /\ ~ (Count(ms, m, i - 1) >= c)
  BY <1>5, CountIs
<1>7. Count(ms, m, i) = IF ms[i] = m THEN Count(ms, m, i - 1) + 1 ELSE Count(ms, m, i - 1)
  BY <1>5, CountIs
<1>8. Count(ms, m, i) \in Nat /\ Count(ms, m, i) >= c
  BY <1>3, <1>4, CountIs
<1>9. ms[i] = m /\ Count(ms, m, i) = c
  BY <1>1, <1>6, <1>7, <1>8
<1>10. QED BY <1>4, <1>9

\* A block with the next steps of the messages ms.
Extends(n, k, ms) ==
  /\ k \in Nat /\ ms \in [1..k -> Messages]
  /\ BlockWith(n, ms) \in Seq(ChainEvent) /\ Len(BlockWith(n, ms)) = k
  /\ \A i \in 1..k : IsNext(BlockWith(n, ms)[i], n, ms, i)
  /\ chain' = [chain EXCEPT ![n] = @ \o BlockWith(n, ms)]

LEMMA NewBlockExtends ==
  ASSUME Shapes, \A v \in Networks : ChainOK(v), NEW n \in Networks, NewBlock(n)
  PROVE  \E k, ms : Extends(n, k, ms)
<1>1. PICK k \in 1..MaxBlockSize : \E ms \in [1..k -> Messages] :
        /\ \A e \in Range(BlockWith(n, ms)) : e.step <= Len(Journey[e.msg]) /\ Step(e).net = n
        /\ chain' = [chain EXCEPT ![n] = @ \o BlockWith(n, ms)]
  BY DEF NewBlock
<1>2. PICK ms \in [1..k -> Messages] :
        /\ \A e \in Range(BlockWith(n, ms)) : e.step <= Len(Journey[e.msg]) /\ Step(e).net = n
        /\ chain' = [chain EXCEPT ![n] = @ \o BlockWith(n, ms)]
  BY <1>1
<1>3. k \in Nat
  BY TrackerAssumption
<1>4. /\ BlockWith(n, ms) \in Seq(ChainEvent) /\ Len(BlockWith(n, ms)) = k
      /\ \A i \in 1..k : IsNext(BlockWith(n, ms)[i], n, ms, i)
  BY <1>2, <1>3, NewEvents
<1>5. Extends(n, k, ms)
  BY <1>2, <1>3, <1>4 DEF Extends
<1>6. QED BY <1>5

\* What a longer chain holds.
LEMMA ExtendsIs ==
  ASSUME Shapes, NEW n \in Networks, NEW k, NEW ms, Extends(n, k, ms)
  PROVE  /\ k \in Nat /\ Len(chain[n]) \in Nat /\ DOMAIN chain[n] = 1..Len(chain[n])
         /\ DOMAIN chain'[n] = 1..(Len(chain[n]) + k)
         /\ \A i \in DOMAIN chain[n] : chain'[n][i] = chain[n][i]
         /\ \A i \in 1..k : /\ Len(chain[n]) + i \in DOMAIN chain'[n]
                            /\ chain'[n][Len(chain[n]) + i] = BlockWith(n, ms)[i]
         /\ \A v \in Networks \ {n} : chain'[v] = chain[v]
<1> DEFINE B == BlockWith(n, ms)
<1>1. /\ chain[n] \in Seq(ChainEvent) /\ B \in Seq(ChainEvent) /\ Len(B) = k /\ k \in Nat
      /\ chain'[n] = chain[n] \o B /\ \A v \in Networks \ {n} : chain'[v] = chain[v]
  BY DEF Extends, Shapes
<1> HIDE DEF B
<1>2. /\ Len(chain[n]) \in Nat /\ DOMAIN chain[n] = 1..Len(chain[n])
      /\ chain'[n] \in Seq(ChainEvent) /\ Len(chain'[n]) = Len(chain[n]) + Len(B)
      /\ \A i \in DOMAIN chain[n] : chain'[n][i] = chain[n][i]
      /\ \A i \in 1..Len(B) : chain'[n][Len(chain[n]) + i] = B[i]
  <2>1. chain[n] \in Seq(ChainEvent) /\ B \in Seq(ChainEvent) /\ chain'[n] = chain[n] \o B
    BY <1>1
  <2>2. /\ Len(chain[n]) \in Nat /\ DOMAIN chain[n] = 1..Len(chain[n])
        /\ Len(B) \in Nat /\ chain'[n] \in Seq(ChainEvent)
    BY <2>1
  <2>3. Len(chain'[n]) = Len(chain[n]) + Len(B)
    BY <2>1
  <2>4. \A i \in DOMAIN chain[n] : chain'[n][i] = chain[n][i]
    BY <2>1
  <2>5. \A i \in 1..Len(B) : chain'[n][Len(chain[n]) + i] = B[i]
    BY <2>1, <2>2
  <2>6. QED BY <2>2, <2>3, <2>4, <2>5
<1>3. DOMAIN chain'[n] = 1..(Len(chain[n]) + k)
  BY <1>1, <1>2
<1>4. ASSUME NEW i \in 1..k
      PROVE  /\ Len(chain[n]) + i \in DOMAIN chain'[n]
             /\ chain'[n][Len(chain[n]) + i] = B[i]
  BY <1>1, <1>2, <1>3
<1>5. QED BY <1>1, <1>2, <1>3, <1>4 DEF B

InTurn(m) == \E t \in Nat : StepsTaken(m) = 1..t

OnceOnChain(n) == \A i, j \in DOMAIN chain[n] :
                    i < j /\ chain[n][i].msg = chain[n][j].msg => chain[n][i].step # chain[n][j].step

LEMMA NewStep ==
  ASSUME NEW n \in Networks, NEW k, NEW ms, Extends(n, k, ms),
         NEW t \in Nat, NEW i \in 1..k, StepsTaken(ms[i]) = 1..t
  PROVE  /\ BlockWith(n, ms)[i].msg = ms[i]
         /\ BlockWith(n, ms)[i].step = t + Count(ms, ms[i], i)
<1>1. Cardinality(StepsTaken(ms[i])) = t
  BY FS_Interval
<1>2. QED BY <1>1 DEF Extends, IsNext, Count

LEMMA TurnNewBlock ==
  ASSUME Shapes, NEW n \in Networks, NEW k, NEW ms, Extends(n, k, ms),
         NEW m \in Messages, InTurn(m)
  PROVE  InTurn(m)'
<1>1. PICK t \in Nat : StepsTaken(m) = 1..t
  BY DEF InTurn
<1>2. k \in Nat /\ Count(ms, m, k) \in Nat
  BY CountIs DEF Extends
<1>3. \A i \in 1..k : ms[i] = m => /\ BlockWith(n, ms)[i].msg = m
                                   /\ BlockWith(n, ms)[i].step = t + Count(ms, m, i)
  BY <1>1, NewStep
<1>4. ASSUME NEW x \in StepsTaken(m)' PROVE x \in 1..(t + Count(ms, m, k))
  <2>1. PICK v \in Networks : \E i \in DOMAIN chain'[v] :
          chain'[v][i].msg = m /\ chain'[v][i].step = x
    BY <1>4, TakenIs
  <2>2. PICK i \in DOMAIN chain'[v] : chain'[v][i].msg = m /\ chain'[v][i].step = x
    BY <2>1
  <2>3. CASE i \in DOMAIN chain[v] /\ chain'[v][i] = chain[v][i]
    <3>1. x \in StepsTaken(m)
      BY <2>2, <2>3, TakenIs
    <3>2. QED BY <1>1, <1>2, <3>1
  <2>4. CASE ~ (i \in DOMAIN chain[v] /\ chain'[v][i] = chain[v][i])
    <3>1. v = n /\ i \notin DOMAIN chain[n]
      BY <2>2, <2>4, ExtendsIs
    <3>2. PICK l \in 1..k : i = Len(chain[n]) + l
      <4>1. /\ k \in Nat /\ Len(chain[n]) \in Nat /\ DOMAIN chain[n] = 1..Len(chain[n])
            /\ DOMAIN chain'[n] = 1..(Len(chain[n]) + k)
        BY ExtendsIs
      <4>2. i - Len(chain[n]) \in 1..k /\ i = Len(chain[n]) + (i - Len(chain[n]))
        BY <2>2, <3>1, <4>1
      <4>3. QED BY <4>2
    <3>3. chain'[n][i] = BlockWith(n, ms)[l]
      BY <3>2, ExtendsIs
    <3>4. IsNext(BlockWith(n, ms)[l], n, ms, l)
      BY DEF Extends
    <3>5. ms[l] = m
      BY <2>2, <3>1, <3>3, <3>4 DEF IsNext
    <3>6. x = t + Count(ms, m, l)
      BY <1>3, <2>2, <3>1, <3>3, <3>5
    <3>7. l \in Nat /\ l - 1 \in Nat /\ (l - 1) + 1 = l /\ l <= k
      BY <1>2
    <3>8. /\ Count(ms, m, l) = Count(ms, m, l - 1) + 1 /\ Count(ms, m, l - 1) \in Nat
          /\ Count(ms, m, l) <= Count(ms, m, k)
      BY <1>2, <3>5, <3>7, CountIs, CountGrows
    <3>9. QED BY <1>2, <3>6, <3>8
  <2>5. QED BY <2>3, <2>4
<1>5. ASSUME NEW x \in 1..(t + Count(ms, m, k)) PROVE x \in StepsTaken(m)'
  <2>1. CASE x \in 1..t
    <3>0. x \in StepsTaken(m)
      BY <1>1, <2>1
    <3>1. PICK v \in Networks : \E i \in DOMAIN chain[v] :
            chain[v][i].msg = m /\ chain[v][i].step = x
      BY <3>0, TakenIs
    <3>2. PICK i \in DOMAIN chain[v] : chain[v][i].msg = m /\ chain[v][i].step = x
      BY <3>1
    <3>3. i \in DOMAIN chain'[v] /\ chain'[v][i] = chain[v][i]
      <4>1. CASE v = n
        <5>1. /\ k \in Nat /\ Len(chain[n]) \in Nat /\ DOMAIN chain[n] = 1..Len(chain[n])
              /\ DOMAIN chain'[n] = 1..(Len(chain[n]) + k)
              /\ \A j \in DOMAIN chain[n] : chain'[n][j] = chain[n][j]
          BY ExtendsIs
        <5>2. QED BY <3>2, <4>1, <5>1
      <4>2. CASE v # n
        BY <4>2, ExtendsIs
      <4>3. QED BY <4>1, <4>2
    <3>4. QED BY <3>2, <3>3, TakenIs
  <2>2. CASE x \notin 1..t
    <3>1. x - t \in 1..Count(ms, m, k) /\ x = t + (x - t)
      BY <1>2, <2>2
    <3>2. PICK i \in 1..k : ms[i] = m /\ Count(ms, m, i) = x - t
      BY <1>2, <3>1, CountReaches
    <3>3. BlockWith(n, ms)[i].msg = m /\ BlockWith(n, ms)[i].step = x
      BY <1>3, <3>1, <3>2
    <3>4. /\ Len(chain[n]) + i \in DOMAIN chain'[n]
          /\ chain'[n][Len(chain[n]) + i] = BlockWith(n, ms)[i]
      BY ExtendsIs
    <3>5. QED BY <3>3, <3>4, TakenIs
  <2>3. QED BY <2>1, <2>2
<1>6. PICK u \in Nat : u = t + Count(ms, m, k)
  BY <1>2
<1>7. \A x : x \in StepsTaken(m)' <=> x \in 1..u
  BY <1>4, <1>5, <1>6
<1>8. StepsTaken(m)' = 1..u
  BY <1>7
<1>9. QED BY <1>8 DEF InTurn

LEMMA OnceNewBlock ==
  ASSUME Shapes, NEW n \in Networks, NEW k, NEW ms, Extends(n, k, ms),
         \A m \in Messages : InTurn(m), NEW v \in Networks, OnceOnChain(v)
  PROVE  OnceOnChain(v)'
<1>1. CASE v # n
  <2>1. chain'[v] = chain[v]
    BY <1>1, ExtendsIs
  <2>2. QED BY <2>1 DEF OnceOnChain
<1>2. CASE v = n
  <2>1. /\ k \in Nat /\ Len(chain[n]) \in Nat /\ DOMAIN chain[n] = 1..Len(chain[n])
        /\ DOMAIN chain'[n] = 1..(Len(chain[n]) + k)
        /\ \A j \in DOMAIN chain[n] : chain'[n][j] = chain[n][j]
        /\ \A i \in 1..k : chain'[n][Len(chain[n]) + i] = BlockWith(n, ms)[i]
    BY ExtendsIs
  <2>2. ASSUME NEW i \in DOMAIN chain'[n], NEW j \in DOMAIN chain'[n], i < j,
               chain'[n][i].msg = chain'[n][j].msg
        PROVE  chain'[n][i].step # chain'[n][j].step
    <3>1. CASE j \in DOMAIN chain[n]
      <4>1. i \in DOMAIN chain[n]
        BY <2>1, <2>2, <3>1
      <4>2. chain'[n][i] = chain[n][i] /\ chain'[n][j] = chain[n][j]
        BY <2>1, <3>1, <4>1
      <4>3. OnceOnChain(n)
        BY <1>2
      <4>4. chain[n][i].msg = chain[n][j].msg
        BY <2>2, <4>2
      <4>5. chain[n][i].step # chain[n][j].step
        BY <2>2, <3>1, <4>1, <4>3, <4>4 DEF OnceOnChain
      <4>6. QED BY <4>2, <4>5
    <3>2. CASE j \notin DOMAIN chain[n]
      <4>1. PICK b \in 1..k : j = Len(chain[n]) + b
        <5>1. j - Len(chain[n]) \in 1..k /\ j = Len(chain[n]) + (j - Len(chain[n]))
          BY <2>1, <3>2
        <5>2. QED BY <5>1
      <4>2. chain'[n][j] = BlockWith(n, ms)[b] /\ ms[b] \in Messages
        BY <2>1, <4>1 DEF Extends
      <4>3. PICK t \in Nat : StepsTaken(ms[b]) = 1..t
        BY <4>2 DEF InTurn
      <4>4. chain'[n][j].msg = ms[b] /\ chain'[n][j].step = t + Count(ms, ms[b], b)
        BY <4>2, <4>3, NewStep
      <4>5. b - 1 \in Nat /\ (b - 1) + 1 = b /\ b \in Nat
        BY <2>1
      <4>6. /\ Count(ms, ms[b], b) = Count(ms, ms[b], b - 1) + 1
            /\ Count(ms, ms[b], b - 1) \in Nat
        BY <4>5, CountIs
      <4>7. CASE i \in DOMAIN chain[n]
        <5>1. chain'[n][i].step \in StepsTaken(ms[b])
          BY <2>1, <2>2, <4>4, <4>7, TakenIs
        <5>2. QED BY <4>3, <4>4, <4>6, <5>1
      <4>8. CASE i \notin DOMAIN chain[n]
        <5>1. PICK a \in 1..k : i = Len(chain[n]) + a
          <6>1. i - Len(chain[n]) \in 1..k /\ i = Len(chain[n]) + (i - Len(chain[n]))
            BY <2>1, <4>8
          <6>2. QED BY <6>1
        <5>2. chain'[n][i] = BlockWith(n, ms)[a]
          BY <2>1, <5>1
        <5>3. IsNext(BlockWith(n, ms)[a], n, ms, a)
          BY DEF Extends
        <5>4. ms[a] = ms[b]
          BY <2>2, <4>4, <5>2, <5>3 DEF IsNext
        <5>5. chain'[n][i].step = t + Count(ms, ms[b], a)
          BY <4>3, <5>2, <5>4, NewStep
        <5>6. a \in Nat /\ a <= b - 1
          BY <2>1, <2>2, <4>1, <5>1
        <5>7. Count(ms, ms[b], a) <= Count(ms, ms[b], b - 1) /\ Count(ms, ms[b], a) \in Nat
          BY <4>5, <5>6, CountGrows, CountIs
        <5>8. QED BY <4>4, <4>6, <5>5, <5>7
      <4>9. QED BY <4>7, <4>8
    <3>3. QED BY <3>1, <3>2
  <2>3. QED BY <1>2, <2>2 DEF OnceOnChain
<1>3. QED BY <1>1, <1>2



-----------------------------------------------------------------------------
(* The links of every status follow the journey.                           *)

\* The first k steps of a message lead from one to the next.
Connected(m, k) == \A l \in 2..k : Leads(Journey[m][l - 1], Journey[m][l])

Follows(w, m) ==
  /\ Connected(m, Len(w.links))
  /\ \A k \in DOMAIN w.links : events[w.links[k]].msg = m /\ events[w.links[k]].step = k
  /\ w.status = StatusAfter(m, Len(w.links))

FollowsFound(n) == Follows(found[n], cur[n].msg)

FollowsRow(i) == Follows(statuses[i], statuses[i].msg)

StepsOnce == /\ \A m \in Messages : InTurn(m)
             /\ \A n \in Networks : OnceOnChain(n)

LInv == /\ StepsOnce
        /\ \A n \in Networks : pc[n] = "save" => FollowsFound(n)
        /\ \A i \in DOMAIN statuses : FollowsRow(i)

EachRecordedOnce ==
  \A i, j \in DOMAIN events :
    events[i].msg = events[j].msg /\ events[i].step = events[j].step => i = j

LEMMA OnceRecorded == IInv /\ StepsOnce => EachRecordedOnce
<1> SUFFICES ASSUME IInv, StepsOnce PROVE EachRecordedOnce
  OBVIOUS
<1>1. ASSUME NEW i \in DOMAIN events, NEW j \in DOMAIN events, i < j,
             events[i].msg = events[j].msg, events[i].step = events[j].step
      PROVE  FALSE
  <2>1. /\ events[i].msg \in Messages /\ events[i].step \in DOMAIN Journey[events[i].msg]
    <3>1. events[i] \in EventRow
      BY DEF IInv, Shapes
    <3>2. QED BY <3>1 DEF IInv, StepsExist, EventRow
  <2>2. At(i) \in Steps /\ At(i) = At(j)
    BY <1>1, <2>1, StepsHaveType DEF At, Step
  <2>3. PICK n \in Networks : n = At(i).net
    BY <2>2 DEF Steps
  <2>4. InOrder(n) /\ OnceOnChain(n)
    BY DEF IInv, StreamInv, StepsOnce
  <2>5. PICK k \in DOMAIN chain[n] : \E l \in DOMAIN chain[n] :
          k < l /\ chain[n][k] = Core(events[i]) /\ chain[n][l] = Core(events[j])
    BY <1>1, <2>2, <2>3, <2>4 DEF InOrder
  <2>6. PICK l \in DOMAIN chain[n] :
          k < l /\ chain[n][k] = Core(events[i]) /\ chain[n][l] = Core(events[j])
    BY <2>5
  <2>7. QED BY <1>1, <2>4, <2>6 DEF OnceOnChain, Core
<1>2. \A i, j \in DOMAIN events : i \in Nat /\ j \in Nat
  BY DEF IInv, Shapes
<1>3. ASSUME NEW i \in DOMAIN events, NEW j \in DOMAIN events,
             events[i].msg = events[j].msg, events[i].step = events[j].step
      PROVE  i = j
  <2>1. ~ (i < j) /\ ~ (j < i)
    BY <1>1, <1>3
  <2>2. QED BY <1>2, <2>1
<1>4. QED BY <1>3 DEF EachRecordedOnce

LEMMA NothingFollows ==
  ASSUME NEW m \in Messages, Orderly(m), NEW w, w.links = <<>>, w.status = "Unknown"
  PROVE  Follows(w, m) /\ Follows(w, m)'
<1>1. StatusAfter(m, 0) = "Unknown"
  <2>1. JourneyLen(m) # 0
    BY InferIs
  <2>2. QED BY <2>1 DEF StatusAfter, JourneyLen
<1>2. QED BY <1>1 DEF Follows, Connected

Following(m) == {u \in [links : Seq(EventsOf(m)), status : Statuses] :
                   Len(u.links) \in 1..JourneyLen(m) /\ Follows(u, m)}

\* A walk, however it chooses, takes the steps of the journey.
LEMMA WalksGoOn ==
  ASSUME IInv, StepsOnce, NEW m \in Messages, Orderly(m)
  PROVE  /\ \A i \in EventsOf(m) : /\ i \in DOMAIN events /\ events[i].msg = m
                                   /\ events[i].step \in 1..JourneyLen(m)
                                   /\ At(i) = Journey[m][events[i].step]
         /\ \A u \in Starts(EventsOf(m)) : u \in Following(m) /\ Len(u.links) = 1
         /\ \A v \in Following(m) : \A u \in Longer(v, EventsOf(m)) :
              u \in Following(m) /\ Len(u.links) = Len(v.links) + 1
<1> DEFINE R == EventsOf(m)
           L == JourneyLen(m)
           P == {u \in [links : Seq(R), status : Statuses] :
                   Len(u.links) \in 1..L /\ Follows(u, m)}
<1>1. /\ L \in Nat /\ L >= 2 /\ StatusAfter(m, 1) = "Sending"
      /\ \A k \in 2..L : Infer(Journey[m][k], StatusAfter(m, k - 1)) = StatusAfter(m, k)
      /\ \A k \in 1..L : Journey[m][k].event = "SEND" => k = 1
  BY InferIs
<1>2. EachRecordedOnce
  BY OnceRecorded
<1>3. /\ R \subseteq DOMAIN events
      /\ \A i \in R : /\ events[i].msg = m /\ events[i].step \in 1..L
                      /\ At(i) = Journey[m][events[i].step]
  <2>1. ASSUME NEW i \in R
        PROVE  /\ i \in DOMAIN events /\ events[i].msg = m /\ events[i].step \in 1..L
               /\ At(i) = Journey[m][events[i].step]
    <3>1. i \in DOMAIN events /\ events[i].msg = m
      BY DEF EventsOf
    <3>2. events[i].step \in DOMAIN Journey[m]
      BY <3>1 DEF IInv, StepsExist
    <3>3. QED BY <3>1, <3>2, JourneyIs DEF At, Step
  <2>2. QED BY <2>1
<1>4. \A k, l \in 1..L : k < l /\ Leads(Journey[m][k], Journey[m][l]) => l = k + 1
  BY JourneyIs DEF Orderly
<1> HIDE DEF R, L
<1>5. ASSUME NEW u \in Starts(R) PROVE u \in P /\ Len(u.links) = 1
  <2>1. PICK i \in R : At(i).event = "SEND" /\ u = [links |-> <<i>>, status |-> "Sending"]
    BY <1>5 DEF Starts
  <2>2. events[i].step = 1 /\ events[i].msg = m
    BY <1>1, <1>3, <2>1
  <2>3. u.links = <<i>> /\ Len(u.links) = 1 /\ u.links[1] = i /\ DOMAIN u.links = {1}
    BY <2>1
  <2>4. Follows(u, m)
    BY <1>1, <2>1, <2>2, <2>3 DEF Follows, Connected
  <2>5. <<i>> \in Seq(R) /\ "Sending" \in Statuses
    BY DEF Statuses
  <2>6. u \in [links : Seq(R), status : Statuses] /\ Len(u.links) \in 1..L
    BY <1>1, <2>1, <2>3, <2>5
  <2>7. QED BY <2>3, <2>4, <2>6
<1>6. ASSUME NEW v \in P, NEW u \in Longer(v, R) PROVE u \in P /\ Len(u.links) = Len(v.links) + 1
  <2> DEFINE s == v.links
             k == Len(s)
  <2>1. PICK j \in NextLinks(Last(s), R \ Range(s)) :
          u = [links |-> Append(s, j), status |-> Infer(At(j), v.status)]
    BY <1>6 DEF Longer
  <2>2. /\ s \in Seq(R) /\ k \in Nat /\ k \in 1..L /\ DOMAIN s = 1..k
        /\ v.status = StatusAfter(m, k) /\ Connected(m, k)
        /\ \A l \in 1..k : events[s[l]].msg = m /\ events[s[l]].step = l
    BY DEF Follows
  <2>3. /\ j \in R /\ j \notin Range(s) /\ Last(s) = s[k] /\ s[k] \in R
        /\ Leads(At(s[k]), At(j))
    <3>1. Last(s) = s[k]
      BY DEF Last
    <3>2. s[k] \in R
      BY <2>2
    <3>3. QED BY <2>1, <3>1, <3>2 DEF NextLinks
  <2> HIDE DEF s, k
  <2>4. PICK x \in 1..L : x = events[j].step
    BY <1>3, <2>3
  <2>5. events[j].msg = m /\ At(j) = Journey[m][x] /\ At(s[k]) = Journey[m][k]
    BY <1>3, <2>2, <2>3, <2>4
  <2>6. ~ (x \in 1..k)
    <3>1. SUFFICES ASSUME x \in 1..k PROVE FALSE
      OBVIOUS
    <3>2. s[x] \in R /\ events[s[x]].msg = m /\ events[s[x]].step = x
      BY <2>2, <3>1
    <3>3. s[x] = j
      BY <1>2, <1>3, <2>3, <2>4, <2>5, <3>2 DEF EachRecordedOnce
    <3>4. s[x] \in Range(s)
      BY <2>2, <3>1 DEF Range
    <3>5. QED BY <2>3, <3>3, <3>4
  <2>7. k < x
    BY <1>1, <2>2, <2>6
  <2>8. x = k + 1
    BY <1>4, <2>2, <2>3, <2>5, <2>7
  <2>9. Infer(At(j), v.status) = StatusAfter(m, k + 1)
    <3>1. x \in 2..L /\ x - 1 = k
      BY <1>1, <2>2, <2>8
    <3>2. Infer(Journey[m][x], StatusAfter(m, x - 1)) = StatusAfter(m, x)
      BY <1>1, <3>1
    <3>3. QED BY <2>2, <2>5, <2>8, <3>1, <3>2
  <2>10. /\ Append(s, j) \in Seq(R) /\ Len(Append(s, j)) = k + 1
         /\ DOMAIN Append(s, j) = 1..(k + 1)
         /\ Append(s, j)[k + 1] = j /\ \A l \in 1..k : Append(s, j)[l] = s[l]
    BY <2>2, <2>3 DEF k
  <2>11. Infer(At(j), v.status) \in Statuses
    BY DEF Infer, Statuses
  <2>12. \A l \in 1..(k + 1) : /\ events[Append(s, j)[l]].msg = m
                               /\ events[Append(s, j)[l]].step = l
    <3>1. ASSUME NEW l \in 1..(k + 1)
          PROVE  /\ events[Append(s, j)[l]].msg = m
                 /\ events[Append(s, j)[l]].step = l
      <4>1. CASE l = k + 1
        <5>1. Append(s, j)[l] = j
          BY <2>10, <4>1
        <5>2. QED BY <2>4, <2>5, <2>8, <4>1, <5>1
      <4>2. CASE l \in 1..k
        <5>1. Append(s, j)[l] = s[l]
          BY <2>10, <4>2
        <5>2. QED BY <2>2, <4>2, <5>1
      <4>3. QED BY <2>2, <3>1, <4>1, <4>2
    <3>2. QED BY <3>1
  <2>13. Follows(u, m)
    <3>1. Leads(Journey[m][k], Journey[m][k + 1])
      BY <2>3, <2>5, <2>8
    <3>2. \A l \in 2..(k + 1) : l \in 2..k \/ (l = k + 1 /\ l - 1 = k)
      BY <2>2
    <3>3. Connected(m, k + 1)
      BY <2>2, <3>1, <3>2 DEF Connected
    <3>4. QED BY <2>1, <2>9, <2>10, <2>12, <3>3 DEF Follows
  <2>14. k + 1 \in 1..L
    BY <1>1, <2>2, <2>8
  <2>15. Len(u.links) = k + 1
    BY <2>1, <2>10
  <2>16. QED BY <2>1, <2>10, <2>11, <2>13, <2>14, <2>15 DEF k, s
<1>7. QED BY <1>3, <1>5, <1>6 DEF R, L, Following

LEMMA WalksFollow ==
  ASSUME IInv, StepsOnce, NEW m \in Messages, Orderly(m), NEW w \in Walks(m)
  PROVE  Follows(w, m)
<1>1. Starts(EventsOf(m)) \subseteq Following(m)
  BY WalksGoOn
<1>2. \A v \in Following(m) : From(v, EventsOf(m)) \subseteq Following(m)
  BY WalksGoOn DEF From
<1>3. events \in Seq(EventRow)
  BY DEF IInv, Shapes
<1>4. w \in Following(m) \cup {NoLinks}
  BY <1>1, <1>2, <1>3, WalkInduction
<1>5. Follows(NoLinks, m)
  BY NothingFollows DEF NoLinks
<1>6. QED BY <1>4, <1>5 DEF Following


\* Some events of message m are its first k steps.
FirstSteps(s, m) ==
  /\ s \in Seq(Nat) /\ Connected(m, Len(s))
  /\ \A k \in DOMAIN s : s[k] \in DOMAIN events /\ events[s[k]].msg = m /\ events[s[k]].step = k

LEMMA FirstStepsAre ==
  ASSUME IInv, StepsOnce, NEW m \in Messages, NEW s, FirstSteps(s, m)
  PROVE  /\ Len(s) \in Nat /\ Len(s) <= JourneyLen(m) /\ Len(s) <= Cardinality(EventsOf(m))
         /\ \A k \in 1..Len(s) : s[k] \in EventsOf(m) /\ At(s[k]) = Journey[m][k]
<1> DEFINE R == EventsOf(m)
           K == Len(s)
<1>1. K \in Nat /\ DOMAIN s = 1..K
  BY DEF FirstSteps
<1>2. ASSUME NEW k \in 1..K
      PROVE  /\ s[k] \in R /\ At(s[k]) = Journey[m][k] /\ k \in 1..JourneyLen(m)
             /\ events[s[k]].step = k
  <2>1. s[k] \in DOMAIN events /\ events[s[k]].msg = m /\ events[s[k]].step = k
    BY <1>1 DEF FirstSteps
  <2>2. k \in 1..JourneyLen(m)
    BY <2>1, JourneyIs DEF IInv, StepsExist
  <2>3. QED BY <2>1, <2>2 DEF EventsOf, At, Step
<1>3. K <= JourneyLen(m)
  <2>1. CASE K = 0
    BY <2>1, JourneyIs
  <2>2. CASE K # 0
    <3>1. K \in 1..K
      BY <1>1, <2>2
    <3>2. K \in 1..JourneyLen(m)
      BY <1>2, <3>1
    <3>3. QED BY <3>2, JourneyIs
  <2>3. QED BY <2>1, <2>2
<1>4. K <= Cardinality(R)
  <2>1. IsFiniteSet(R)
    BY EventsOfFinite DEF IInv, Shapes
  <2>2. s \in [1..K -> R]
    <3>1. s = [k \in 1..K |-> s[k]]
      BY <1>1 DEF FirstSteps
    <3>2. QED BY <1>2, <3>1
  <2>3. \A k, l \in 1..K : s[k] = s[l] => k = l
    BY <1>2
  <2> HIDE DEF R, K
  <2>4. s \in Injection(1..K, R)
    BY <2>2, <2>3 DEF Injection, IsInjective
  <2>5. Cardinality(1..K) <= Cardinality(R)
    BY <2>1, <2>4, FS_Injection
  <2>6. Cardinality(1..K) = K
    BY <1>1, FS_Interval
  <2>7. QED BY <2>5, <2>6
<1>5. QED BY <1>1, <1>2, <1>3, <1>4

\* A walk gets as far as the events of its message go.
LEMMA WalksReach ==
  ASSUME IInv, StepsOnce, NEW m \in Messages, Orderly(m), NEW s, FirstSteps(s, m),
         NEW w \in Walks(m)
  PROVE  Len(s) <= Len(w.links)
<1> DEFINE R == EventsOf(m)
           N == Cardinality(R)
           K == Len(s)
           P == [k \in Nat |-> {u \in Following(m) : Len(u.links) >= k \/ Len(u.links) >= K}]
<1>1. /\ K \in Nat /\ K <= JourneyLen(m) /\ K <= N
      /\ \A k \in 1..K : s[k] \in R /\ At(s[k]) = Journey[m][k]
  BY FirstStepsAre
<1>2. N \in Nat /\ events \in Seq(EventRow)
  BY EventsOfFinite DEF IInv, Shapes
<1>3. CASE K = 0
  <2>1. Found(w)
    BY <1>2, WalksAreFound
  <2>2. Len(w.links) \in Nat
    BY <2>1 DEF Found
  <2>3. QED BY <1>3, <2>2
<1>4. CASE K # 0
  <2>1. PICK r : ReceivedAt(m, r)
    BY ReceivedSomewhere
  <2>2. \A k \in 1..K : k # K => StatusAfter(m, k) # "Completed"
    <3>1. ASSUME NEW k \in 1..K, k # K PROVE StatusAfter(m, k) # "Completed"
      <4>1. k \in 1..JourneyLen(m) /\ k # JourneyLen(m)
        BY <1>1, <3>1, JourneyIs
      <4>2. QED BY <2>1, <4>1, StatusIs
    <3>2. QED BY <3>1
  <2>3. Starts(R) # {}
    <3>1. 1 \in 1..K
      BY <1>1, <1>4
    <3>2. s[1] \in R /\ At(s[1]).event = "SEND"
      BY <1>1, <2>1, <3>1 DEF ReceivedAt
    <3>3. QED BY <3>2 DEF Starts
  <2>4. \A k \in Nat : P[k] = {u \in Following(m) : Len(u.links) >= k \/ Len(u.links) >= K}
    OBVIOUS
  <2> HIDE DEF P
  <2>5. Starts(R) \subseteq P[1]
    BY <2>4, WalksGoOn
  <2>6. ASSUME NEW k \in Nat \ {0}, NEW v \in P[k], NEW u \in From(v, R)
        PROVE  u \in P[k + 1]
    <3>1. v \in Following(m) /\ Len(v.links) \in Nat \ {0}
      BY <2>4, JourneyIs DEF Following
    <3>2. Len(v.links) >= k \/ Len(v.links) >= K
      BY <2>4
    <3>3. CASE u \in Longer(v, R)
      <4>1. u \in Following(m) /\ Len(u.links) = Len(v.links) + 1
        BY <3>1, <3>3, WalksGoOn
      <4>2. Len(u.links) >= k + 1 \/ Len(u.links) >= K
        BY <1>1, <3>1, <3>2, <4>1
      <4>3. QED BY <2>4, <4>1, <4>2
    <3>4. CASE u \notin Longer(v, R)
      <4>1. u = v /\ (v.status = "Completed" \/ Longer(v, R) = {})
        BY <2>6, <3>4 DEF From
      <4>2. Len(v.links) >= k + 1 \/ Len(v.links) >= K
        <5>1. SUFFICES ASSUME Len(v.links) = k, k < K PROVE FALSE
          BY <1>1, <3>1, <3>2
        <5>2. /\ v.links \in Seq(R) /\ DOMAIN v.links = 1..k /\ v.status = StatusAfter(m, k)
              /\ \A l \in 1..k : events[v.links[l]].msg = m /\ events[v.links[l]].step = l
          BY <3>1, <5>1 DEF Following, Follows
        <5>3. k \in 1..K /\ k # K /\ k + 1 \in 1..K /\ k + 1 \in 2..K
          BY <1>1, <5>1
        <5>4. v.status # "Completed"
          BY <2>2, <5>2, <5>3
        <5>5. s[k + 1] \in R \ Range(v.links)
          <6>1. s[k + 1] \in R /\ events[s[k + 1]].step = k + 1
            BY <1>1, <5>3 DEF FirstSteps
          <6>2. ASSUME NEW l \in 1..k PROVE v.links[l] # s[k + 1]
            BY <5>2, <6>1
          <6>3. QED BY <5>2, <6>1, <6>2 DEF Range
        <5>6. Last(v.links) = v.links[k] /\ At(v.links[k]) = Journey[m][k]
          <6>1. Last(v.links) = v.links[k] /\ k \in 1..k
            BY <5>1, <5>2 DEF Last
          <6>2. QED BY <5>2, <6>1 DEF At, Step
        <5>7. Leads(Journey[m][k], Journey[m][k + 1])
          <6>1. \A l \in 2..K : Leads(Journey[m][l - 1], Journey[m][l])
            BY DEF FirstSteps, Connected
          <6>2. (k + 1) - 1 = k
            OBVIOUS
          <6>3. QED BY <5>3, <6>1, <6>2
        <5>8. s[k + 1] \in NextLinks(Last(v.links), R \ Range(v.links))
          BY <1>1, <5>3, <5>5, <5>6, <5>7 DEF NextLinks
        <5>9. QED BY <4>1, <5>4, <5>8 DEF Longer
      <4>3. QED BY <2>4, <3>1, <4>1, <4>2
    <3>5. QED BY <3>3, <3>4
  <2>7. \A k \in Nat \ {0} : \A v \in P[k] : From(v, R) \subseteq P[k + 1]
    BY <2>6
  <2>8. Walks(m) \subseteq P[N]
    BY <1>2, <2>3, <2>5, <2>7, WalkInductionBy
  <2>9. w \in Following(m) /\ (Len(w.links) >= N \/ Len(w.links) >= K)
    BY <1>2, <2>4, <2>8
  <2>10. Len(w.links) \in Nat
    BY <2>9 DEF Following
  <2>11. QED BY <1>1, <1>2, <2>9, <2>10
<1>5. QED BY <1>3, <1>4

\* Nothing that was recorded changes but its final mark.
EventsGrow == \A i \in DOMAIN events : /\ i \in DOMAIN events'
                                       /\ events'[i].msg = events[i].msg
                                       /\ events'[i].step = events[i].step

LEMMA FollowsKept ==
  ASSUME EventsGrow, NEW w, Found(w), NEW m, Follows(w, m)
  PROVE  Follows(w, m)'
BY DEF EventsGrow, Found, Follows

\* A step keeps the links it does not touch, and makes others that follow.
LEMMA LinksStep ==
  ASSUME IInv, LInv, EventsGrow, StepsOnce',
         \A n \in Networks : pc'[n] = "save" =>
           \/ pc[n] = "save" /\ found'[n] = found[n] /\ cur'[n] = cur[n]
           \/ FollowsFound(n)',
         \A i \in DOMAIN statuses' :
           \/ i \in DOMAIN statuses /\ statuses'[i] = statuses[i]
           \/ FollowsRow(i)'
  PROVE  LInv'
<1>1. ASSUME NEW n \in Networks, pc'[n] = "save" PROVE FollowsFound(n)'
  <2>1. CASE pc[n] = "save" /\ found'[n] = found[n] /\ cur'[n] = cur[n]
    <3>1. PICK w : w = found[n]
      OBVIOUS
    <3>2. PICK m : m = cur[n].msg
      OBVIOUS
    <3>3. Found(w) /\ Follows(w, m)
      BY <2>1, <3>1, <3>2 DEF IInv, Shapes, LInv, FollowsFound
    <3>4. Follows(w, m)'
      BY <3>3, FollowsKept
    <3>5. found'[n] = w /\ cur'[n].msg = m
      BY <2>1, <3>1, <3>2
    <3>6. QED BY <3>4, <3>5 DEF FollowsFound, Follows
  <2>2. QED BY <1>1, <2>1
<1>2. ASSUME NEW i \in DOMAIN statuses' PROVE FollowsRow(i)'
  <2>1. CASE i \in DOMAIN statuses /\ statuses'[i] = statuses[i]
    <3>1. PICK w : w = statuses[i]
      OBVIOUS
    <3>2. PICK m : m = statuses[i].msg
      OBVIOUS
    <3>3. w \in StatusRow /\ \A k \in DOMAIN w.links : w.links[k] \in DOMAIN events
      BY <2>1, <3>1 DEF IInv, Shapes
    <3>4. Follows(w, m)
      BY <2>1, <3>1, <3>2 DEF LInv, FollowsRow
    <3>5. Follows(w, m)'
      BY <3>3, <3>4 DEF EventsGrow, Follows
    <3>6. statuses'[i] = w /\ statuses'[i].msg = m
      BY <2>1, <3>1, <3>2
    <3>7. QED BY <3>5, <3>6 DEF FollowsRow, Follows
  <2>2. QED BY <1>2, <2>1
<1>3. QED BY <1>1, <1>2 DEF LInv

LEMMA StepsOnceKept ==
  ASSUME StepsOnce, chain' = chain
  PROVE  StepsOnce'
<1>1. \A m : StepsTaken(m)' = StepsTaken(m)
  BY DEF StepsTaken
<1>2. ASSUME NEW m \in Messages PROVE InTurn(m)'
  <2>1. PICK t \in Nat : StepsTaken(m) = 1..t
    BY DEF StepsOnce, InTurn
  <2>2. StepsTaken(m)' = 1..t
    BY <1>1, <2>1
  <2>3. QED BY <2>2 DEF InTurn
<1>3. ASSUME NEW n \in Networks PROVE OnceOnChain(n)'
  BY DEF StepsOnce, OnceOnChain
<1>4. QED BY <1>2, <1>3 DEF StepsOnce

LEMMA StepsOnceNewBlock ==
  ASSUME IInv, StepsOnce, NEW n \in Networks, NewBlock(n)
  PROVE  StepsOnce'
<1>1. Shapes /\ \A v \in Networks : ChainOK(v)
  BY DEF IInv, StreamInv
<1>2. PICK k : \E ms : Extends(n, k, ms)
  BY <1>1, NewBlockExtends
<1>3. PICK ms : Extends(n, k, ms)
  BY <1>2
<1>4. \A m \in Messages : InTurn(m)'
  BY <1>1, <1>3, TurnNewBlock DEF StepsOnce
<1>5. \A v \in Networks : OnceOnChain(v)'
  BY <1>1, <1>3, OnceNewBlock DEF StepsOnce
<1>6. QED BY <1>4, <1>5 DEF StepsOnce

LEMMA InitLinks == Init => LInv
<1> SUFFICES ASSUME Init PROVE LInv
  OBVIOUS
<1>1. /\ \A n \in Networks : chain[n] = <<>> /\ pc[n] = "closed"
      /\ statuses = <<>>
  BY DEF Init, ForAll
<1>2. ASSUME NEW m \in Messages PROVE InTurn(m)
  <2>1. \A x : x \notin StepsTaken(m)
    BY <1>1, TakenIs
  <2>2. StepsTaken(m) = 1..0
    BY <2>1
  <2>3. QED BY <2>2 DEF InTurn
<1>3. \A n \in Networks : OnceOnChain(n)
  BY <1>1 DEF OnceOnChain
<1>4. QED BY <1>1, <1>2, <1>3 DEF LInv, StepsOnce

\* The steps that touch no links.
LEMMA LinksUntouched ==
  ASSUME IInv, LInv, NEW n \in Networks,
         \/ NewBlock(n) \/ OpenStream(n) \/ ConnectionLost(n) \/ StoreBlock(n)
         \/ FindStatus(n) \/ CommitStatus(n) \/ FindAgain(n)
         \/ StoreEventFails(n) \/ SaveStatusFails(n)
  PROVE  LInv'
<1>1. UNCHANGED <<statuses, events>>
  BY DEF NewBlock, OpenStream, ConnectionLost, StoreBlock, FindStatus, CommitStatus, FindAgain,
         StoreEventFails, SaveStatusFails, tables
<1>2. EventsGrow
  BY <1>1 DEF EventsGrow
<1>3. StepsOnce'
  <2>1. CASE NewBlock(n)
    BY <2>1, StepsOnceNewBlock DEF LInv
  <2>2. CASE ~ NewBlock(n)
    <3>1. chain' = chain
      BY <2>2 DEF OpenStream, ConnectionLost, StoreBlock, FindStatus, CommitStatus, FindAgain,
                  StoreEventFails, SaveStatusFails
    <3>2. QED BY <3>1, StepsOnceKept DEF LInv
  <2>3. QED BY <2>1, <2>2
<1>4. ASSUME NEW v \in Networks, pc'[v] = "save"
      PROVE  pc[v] = "save" /\ found'[v] = found[v] /\ cur'[v] = cur[v]
  <2>1. /\ pc \in [Networks -> Labels] /\ DOMAIN found = Networks
        /\ cur \in [Networks -> ChainEvent \cup {None}]
    BY DEF IInv, Shapes
  <2>2. CASE NewBlock(n)
    BY <1>4, <2>2 DEF NewBlock, handler
  <2>3. CASE ConnectionLost(n) \/ SaveStatusFails(n)
    <3>1. Stopped(n)
      BY <2>3, StopIs
    <3>2. QED BY <1>4, <2>1, <3>1 DEF Stopped
  <2>4. CASE StoreBlock(n)
    <3>1. /\ pc' = [pc EXCEPT ![n] = "findStatus"]
          /\ cur' = [cur EXCEPT ![n] = Head(Pending(n))] /\ found' = found
      BY <2>4 DEF StoreBlock, Goto
    <3>2. QED BY <1>4, <2>1, <3>1
  <2>5. CASE FindStatus(n) \/ CommitStatus(n) \/ FindAgain(n) \/ StoreEventFails(n)
    <3>1. PICK l \in {"newStatus", "findAgain", "event", "links"} : pc' = [pc EXCEPT ![n] = l]
      BY <2>5 DEF FindStatus, CommitStatus, FindAgain, StoreEventFails, Goto
    <3>2. found' = found /\ cur' = cur
      BY <2>5 DEF FindStatus, CommitStatus, FindAgain, StoreEventFails, handler
    <3>3. QED BY <1>4, <2>1, <3>1, <3>2
  <2>6. CASE OpenStream(n)
    <3>1. pc' = [pc EXCEPT ![n] = "stream"] /\ found' = found /\ cur' = cur
      BY <2>6 DEF OpenStream, Goto, handler
    <3>2. QED BY <1>4, <2>1, <3>1
  <2>7. QED BY <2>2, <2>3, <2>4, <2>5, <2>6
<1>5. QED BY <1>1, <1>2, <1>3, <1>4, LinksStep

LEMMA LinksInsert ==
  ASSUME IInv, LInv, \A m \in Messages : Orderly(m), NEW n \in Networks, InsertStatus(n)
  PROVE  LInv'
<1>1. Inserts(n) /\ cur[n] \in ChainEvent
  BY InvInsert, Handled DEF InsertStatus, Handling
<1>2. pc \in [Networks -> Labels]
  BY DEF IInv, Shapes
<1>3. EventsGrow /\ StepsOnce'
  BY <1>1, StepsOnceKept DEF EventsGrow, LInv, Inserts
<1>4. \A v \in Networks : pc'[v] = "save" =>
        pc[v] = "save" /\ found'[v] = found[v] /\ cur'[v] = cur[v]
  BY <1>1, <1>2 DEF Inserts
<1>5. ASSUME NEW i \in DOMAIN statuses', i \notin DOMAIN statuses
      PROVE  FollowsRow(i)'
  <2>1. PICK m \in Messages : m = cur[n].msg
    BY <1>1 DEF ChainEvent
  <2>2. PICK w : w = statuses'[i]
    OBVIOUS
  <2>3. w.links = <<>> /\ w.status = "Unknown" /\ w.msg = m
    BY <1>1, <1>5, <2>1, <2>2 DEF Inserts
  <2>4. Follows(w, m)'
    BY <2>3, NothingFollows
  <2>5. QED BY <2>2, <2>3, <2>4 DEF FollowsRow, Follows
<1>6. \A i \in DOMAIN statuses : statuses'[i] = statuses[i]
  BY <1>1 DEF Inserts
<1>7. QED BY <1>3, <1>4, <1>5, <1>6, LinksStep

LEMMA LinksStoreEvent ==
  ASSUME IInv, LInv, NEW n \in Networks, StoreEvent(n)
  PROVE  LInv'
<1>1. cur[n] \in ChainEvent /\ Shapes
  BY Handled DEF StoreEvent, IInv, Handling
<1>2. /\ UNCHANGED <<chain, statuses, cur, found>> /\ pc' = [pc EXCEPT ![n] = "links"]
      /\ \A i \in DOMAIN events : i \in DOMAIN events' /\ events'[i] = events[i]
  BY <1>1, StoreEventIs
<1>3. EventsGrow /\ StepsOnce'
  BY <1>2, StepsOnceKept DEF EventsGrow, LInv
<1>4. \A v \in Networks : pc'[v] = "save" => pc[v] = "save"
  BY <1>1, <1>2 DEF Shapes
<1>5. QED BY <1>2, <1>3, <1>4, LinksStep

LEMMA LinksFinalize ==
  ASSUME IInv, LInv, NEW n \in Networks, FinalizeBlock(n)
  PROVE  LInv'
<1>1. /\ UNCHANGED <<chain, statuses, pc, cur, found>>
  BY DEF FinalizeBlock, handler
<1>2. EventsGrow
  <2>1. events \in Seq(EventRow)
    BY DEF IInv, Shapes
  <2>2. \A i \in DOMAIN events : events[i] \in EventRow
    BY <2>1
  <2>3. QED BY <2>2 DEF FinalizeBlock, EventsGrow, EventRow
<1>3. StepsOnce'
  BY <1>1, StepsOnceKept DEF LInv
<1>4. QED BY <1>1, <1>2, <1>3, LinksStep

LEMMA LinksFound ==
  ASSUME IInv, LInv, \A m \in Messages : Orderly(m), NEW n \in Networks,
         GetLinks(n) \/ GetLinksFails(n)
  PROVE  LInv'
<1>1. UNCHANGED <<chain, statuses, events, cur>> /\ pc' = [pc EXCEPT ![n] = "save"]
  BY DEF GetLinks, GetLinksFails, tables, stream, Goto
<1>2. PICK m \in Messages : m = cur[n].msg
  <2>1. Handling(n)
    BY DEF GetLinks, GetLinksFails, Handling
  <2>2. cur[n] \in ChainEvent
    BY <2>1, Handled
  <2>3. QED BY <2>2 DEF ChainEvent
<1>3. \E w \in Walks(m) \cup {NoLinks} : found' = [found EXCEPT ![n] = w]
  BY <1>2 DEF GetLinks, GetLinksFails
<1>4. PICK w \in Walks(m) \cup {NoLinks} : found' = [found EXCEPT ![n] = w]
  BY <1>3
<1>5. Follows(w, m)
  <2>1. Follows(NoLinks, m)
    BY <1>2, NothingFollows DEF NoLinks
  <2>2. QED BY <1>2, <1>4, <2>1, WalksFollow DEF LInv
<1>6. EventsGrow /\ StepsOnce'
  BY <1>1, StepsOnceKept DEF EventsGrow, LInv
<1>7. pc \in [Networks -> Labels] /\ DOMAIN found = Networks
  BY DEF IInv, Shapes
<1>8. FollowsFound(n)'
  <2>1. found'[n] = w /\ cur'[n].msg = m
    BY <1>1, <1>2, <1>4, <1>7
  <2>2. QED BY <1>1, <1>5, <2>1 DEF FollowsFound, Follows
<1>9. \A v \in Networks : v # n /\ pc'[v] = "save" => pc[v] = "save" /\ found'[v] = found[v]
  BY <1>1, <1>4, <1>7
<1>10. QED BY <1>1, <1>6, <1>8, <1>9, LinksStep

LEMMA LinksSaved ==
  ASSUME IInv, LInv, NEW n \in Networks, SaveStatus(n)
  PROVE  LInv'
<1>1. /\ pc' = [pc EXCEPT ![n] = "stream"]
      /\ cur' = [cur EXCEPT ![n] = None] /\ found' = [found EXCEPT ![n] = NoLinks]
      /\ UNCHANGED <<chain, events>>
      /\ statuses' \in Seq(StatusRow) /\ Len(statuses') = Len(statuses)
      /\ statuses' = [statuses EXCEPT ![sid[n]] =
           [@ EXCEPT !.links = found[n].links, !.status = found[n].status]]
      /\ \A i \in DOMAIN statuses :
           /\ statuses'[i].msg = statuses[i].msg
           /\ i # sid[n] => statuses'[i] = statuses[i]
           /\ i = sid[n] => /\ statuses'[i].links = found[n].links
                            /\ statuses'[i].status = found[n].status
  BY SaveStatusIs DEF IInv, SaveStatus
<1>2. EventsGrow /\ StepsOnce'
  BY <1>1, StepsOnceKept DEF EventsGrow, LInv
<1>3. pc[n] = "save" /\ FollowsFound(n) /\ FirstOf(sid[n], cur[n].msg)
  BY DEF SaveStatus, LInv, IInv, SharedStatus, StatusKnown
<1>4. DOMAIN statuses' = DOMAIN statuses
  BY <1>1, SMTT(30) DEF IInv, Shapes
<1>5. ASSUME NEW i \in DOMAIN statuses', i = sid[n] PROVE FollowsRow(i)'
  <2>1. /\ statuses'[i].msg = cur[n].msg /\ statuses'[i].links = found[n].links
        /\ statuses'[i].status = found[n].status
    BY <1>1, <1>3, <1>4, <1>5 DEF FirstOf, Visible
  <2>2. PICK w : w = found[n]
    OBVIOUS
  <2>3. PICK m : m = cur[n].msg
    OBVIOUS
  <2>4. Follows(w, m)
    BY <1>3, <2>2, <2>3 DEF FollowsFound
  <2>5. QED BY <1>1, <2>1, <2>2, <2>3, <2>4 DEF FollowsRow, Follows
<1>6. \A v \in Networks : pc'[v] = "save" =>
        pc[v] = "save" /\ found'[v] = found[v] /\ cur'[v] = cur[v]
  <2>1. /\ pc \in [Networks -> Labels] /\ DOMAIN found = Networks
        /\ cur \in [Networks -> ChainEvent \cup {None}]
    BY DEF IInv, Shapes
  <2>2. QED BY <1>1, <2>1
<1>7. QED BY <1>1, <1>2, <1>4, <1>5, <1>6, LinksStep

LEMMA LinksDie ==
  ASSUME IInv, LInv, Die
  PROVE  LInv'
<1>1. Dead
  BY DieIs
<1>2. EventsGrow /\ StepsOnce' /\ statuses' = statuses /\ \A v \in Networks : pc'[v] = "down"
  BY <1>1, StepsOnceKept DEF EventsGrow, LInv, Dead, ForAll
<1>3. QED BY <1>2, LinksStep

\* What Relink makes of a row.
LEMMA RowRelinked ==
  ASSUME IInv, LInv, \A m \in Messages : Orderly(m), Relink, NEW i \in DOMAIN statuses
  PROVE  \/ statuses'[i] = statuses[i]
         \/ \E m \in Messages : \E w \in Walks(m) \cup {NoLinks} :
              /\ m = statuses[i].msg /\ Follows(w, m)
              /\ "db" \notin load.faults => w \in Walks(m)
              /\ statuses'[i].links = w.links /\ statuses'[i].status = w.status
<1> SUFFICES ASSUME statuses'[i] # statuses[i]
             PROVE  \E m \in Messages : \E w \in Walks(m) \cup {NoLinks} :
                      /\ m = statuses[i].msg /\ Follows(w, m)
                      /\ "db" \notin load.faults => w \in Walks(m)
                      /\ statuses'[i].links = w.links /\ statuses'[i].status = w.status
  OBVIOUS
<1>1. statuses[i] \in StatusRow /\ statuses'[i] \in Relinked(i)
  BY DEF IInv, Shapes, Relink
<1>2. PICK m \in Messages : m = statuses[i].msg
  BY <1>1 DEF StatusRow
<1>3. \E w \in Walks(m) \cup {NoLinks} :
        /\ statuses'[i] = [statuses[i] EXCEPT !.links = w.links, !.status = w.status]
        /\ "db" \notin load.faults => w \in Walks(m)
  BY <1>1, <1>2 DEF Relinked
<1>4. PICK w \in Walks(m) \cup {NoLinks} :
        /\ statuses'[i] = [statuses[i] EXCEPT !.links = w.links, !.status = w.status]
        /\ "db" \notin load.faults => w \in Walks(m)
  BY <1>3
<1>5. Follows(w, m)
  <2>1. Follows(NoLinks, m)
    BY NothingFollows DEF NoLinks
  <2>2. QED BY <2>1, WalksFollow DEF LInv
<1>6. statuses'[i].links = w.links /\ statuses'[i].status = w.status
  BY <1>1, <1>4 DEF StatusRow
<1>7. QED BY <1>2, <1>4, <1>5, <1>6

LEMMA LinksRelink ==
  ASSUME IInv, LInv, \A m \in Messages : Orderly(m), Relink
  PROVE  LInv'
<1>1. Relinks
  BY RelinkIs DEF IInv
<1>2. EventsGrow /\ StepsOnce' /\ \A v \in Networks : pc'[v] = "closed"
  BY <1>1, StepsOnceKept DEF EventsGrow, LInv, Relinks, ForAll
<1>3. DOMAIN statuses' = DOMAIN statuses
  BY DEF Relink
<1>4. ASSUME NEW i \in DOMAIN statuses', statuses'[i] # statuses[i] PROVE FollowsRow(i)'
  <2>1. PICK m \in Messages, w \in Walks(statuses[i].msg) \cup {NoLinks} :
          /\ m = statuses[i].msg /\ Follows(w, m)
          /\ statuses'[i].links = w.links /\ statuses'[i].status = w.status
    BY <1>3, <1>4, RowRelinked
  <2>2. statuses'[i].msg = m /\ events' = events
    BY <1>1, <1>3, <2>1 DEF Relinks
  <2>3. QED BY <2>1, <2>2 DEF FollowsRow, Follows
<1>5. QED BY <1>2, <1>3, <1>4, LinksStep

LEMMA LinksNext ==
  ASSUME IInv, LInv, \A m \in Messages : Orderly(m), [Next]_vars
  PROVE  LInv'
<1>1. ASSUME NEW n \in Networks,
             \/ NewBlock(n) \/ OpenStream(n) \/ ConnectionLost(n) \/ StoreBlock(n)
             \/ FindStatus(n) \/ CommitStatus(n) \/ FindAgain(n)
             \/ StoreEventFails(n) \/ SaveStatusFails(n)
      PROVE  LInv'
  BY <1>1, LinksUntouched
<1>2. ASSUME NEW n \in Networks, InsertStatus(n) PROVE LInv'
  BY <1>2, LinksInsert
<1>3. ASSUME NEW n \in Networks, StoreEvent(n) PROVE LInv'
  BY <1>3, LinksStoreEvent
<1>4. ASSUME NEW n \in Networks, FinalizeBlock(n) PROVE LInv'
  BY <1>4, LinksFinalize
<1>5. ASSUME NEW n \in Networks, GetLinks(n) \/ GetLinksFails(n) PROVE LInv'
  BY <1>5, LinksFound
<1>6. ASSUME NEW n \in Networks, SaveStatus(n) PROVE LInv'
  BY <1>6, LinksSaved
<1>7. CASE Crash \/ \E n \in Networks : StatusFails(n)
  BY <1>7, LinksDie DEF Crash, StatusFails
<1>8. CASE Relink
  BY <1>8, LinksRelink
<1>9. CASE UNCHANGED vars
  <2>1. UNCHANGED <<chain, statuses, events, pc, cur, found>>
    BY <1>9 DEF vars, tables, handler
  <2>2. EventsGrow /\ StepsOnce'
    BY <2>1, StepsOnceKept DEF EventsGrow, LInv
  <2>3. QED BY <2>1, <2>2, LinksStep
<1>10. QED BY <1>1, <1>2, <1>3, <1>4, <1>5, <1>6, <1>7, <1>8, <1>9 DEF Next

LEMMA LinksSay == LInv => LinksFollowJourney
BY DEF LInv, FollowsRow, Follows, LinksFollowJourney

\* For messages that go straight to where they are received and, if they ask
\* for an answer, straight back, the links of a status are the first steps of
\* the journey and its status is that of the message after them: in whatever
\* order the networks recorded the events, whichever queries failed and however
\* often the process restarted (getLinks, findNextLink, inferStatus, Relink).
THEOREM StatusFollowsJourney ==
  (\A m \in Messages : Orderly(m)) /\ Spec => []LinksFollowJourney
<1> SUFFICES ASSUME \A m \in Messages : Orderly(m) PROVE Spec => []LinksFollowJourney
  OBVIOUS
<1>1. Init => LInv
  BY InitLinks
<1>2. IInv /\ LInv /\ [Next]_vars => LInv'
  BY LinksNext
<1>3. LInv => LinksFollowJourney
  BY LinksSay
<1>4. QED BY <1>1, <1>2, <1>3, InvAlways, PTL DEF Spec

-----------------------------------------------------------------------------
(* What the race of two handlers takes: without it no status goes back.    *)

\* No two handlers have derived the links of one message without having saved them.
Alone ==
  \A n, k \in Networks :
    n # k /\ pc[n] = "save" /\ pc[k] = "save" => cur[n].msg # cur[k].msg

\* What a handler saves is as long as what it replaces.
Ahead ==
  \A n \in Networks : pc[n] = "save" => Len(statuses[sid[n]].links) <= Len(found[n].links)

RowsGrow ==
  \A i \in DOMAIN statuses : /\ i \in DOMAIN statuses'
                             /\ statuses'[i].msg = statuses[i].msg
                             /\ Len(statuses[i].links) <= Len(statuses'[i].links)

LEMMA RowIs ==
  ASSUME IInv, LInv, NEW i \in DOMAIN statuses
  PROVE  /\ statuses[i] \in StatusRow /\ Len(statuses[i].links) \in Nat
         /\ FirstSteps(statuses[i].links, statuses[i].msg)
         /\ statuses[i].status = StatusAfter(statuses[i].msg, Len(statuses[i].links))
<1>1. statuses[i] \in StatusRow
  BY DEF IInv, Shapes
<1>2. statuses[i].links \in Seq(Nat) /\ Len(statuses[i].links) \in Nat
  BY <1>1 DEF StatusRow
<1>3. \A k \in DOMAIN statuses[i].links : statuses[i].links[k] \in DOMAIN events
  BY DEF IInv, Shapes
<1>4. Follows(statuses[i], statuses[i].msg)
  BY DEF LInv, FollowsRow
<1>5. QED BY <1>1, <1>2, <1>3, <1>4 DEF Follows, FirstSteps

LEMMA RowReached ==
  ASSUME IInv, LInv, \A m \in Messages : Orderly(m), NEW i \in DOMAIN statuses,
         NEW w \in Walks(statuses[i].msg)
  PROVE  Len(statuses[i].links) <= Len(w.links)
<1>1. statuses[i].msg \in Messages
  BY RowIs DEF StatusRow
<1>2. QED BY <1>1, RowIs, WalksReach DEF LInv

\* A row is completed when it has all the steps.
CompletedWithAll ==
  \A i \in DOMAIN statuses :
    /\ Len(statuses[i].links) \in Nat /\ JourneyLen(statuses[i].msg) \in Nat
    /\ Len(statuses[i].links) <= JourneyLen(statuses[i].msg)
    /\ statuses[i].status = "Completed"
         <=> Len(statuses[i].links) = JourneyLen(statuses[i].msg)

LEMMA CompletedIs ==
  ASSUME IInv, LInv, \A m \in Messages : Orderly(m)
  PROVE  CompletedWithAll
<1> SUFFICES ASSUME NEW i \in DOMAIN statuses
             PROVE  /\ Len(statuses[i].links) \in Nat /\ JourneyLen(statuses[i].msg) \in Nat
                    /\ Len(statuses[i].links) <= JourneyLen(statuses[i].msg)
                    /\ statuses[i].status = "Completed"
                         <=> Len(statuses[i].links) = JourneyLen(statuses[i].msg)
  BY DEF CompletedWithAll
<1>1. PICK m \in Messages : m = statuses[i].msg
  BY RowIs DEF StatusRow
<1>2. PICK k \in Nat : k = Len(statuses[i].links)
  BY RowIs
<1>3. k <= JourneyLen(m) /\ JourneyLen(m) \in Nat /\ JourneyLen(m) >= 2
  BY <1>1, <1>2, RowIs, FirstStepsAre, InferIs DEF LInv
<1>4. statuses[i].status = StatusAfter(m, k)
  BY <1>1, <1>2, RowIs
<1>5. CASE k = 0
  <2>1. StatusAfter(m, k) = "Unknown"
    BY <1>3, <1>5 DEF StatusAfter, JourneyLen
  <2>2. QED BY <1>1, <1>2, <1>3, <1>4, <1>5, <2>1
<1>6. CASE k # 0
  <2>1. k \in 1..JourneyLen(m)
    BY <1>3, <1>6
  <2>2. PICK r : ReceivedAt(m, r)
    BY ReceivedSomewhere
  <2>3. StatusAfter(m, k) = "Completed" <=> k = JourneyLen(m)
    BY <2>1, <2>2, StatusIs
  <2>4. QED BY <1>1, <1>2, <1>3, <1>4, <2>3
<1>7. QED BY <1>5, <1>6

LEMMA AheadKept ==
  ASSUME IInv, LInv, Ahead,
         \A i \in DOMAIN statuses : i \in DOMAIN statuses' /\ statuses'[i] = statuses[i],
         \A n \in Networks : pc'[n] = "save" =>
           pc[n] = "save" /\ found'[n] = found[n] /\ sid'[n] = sid[n]
  PROVE  Ahead' /\ RowsGrow
<1>1. RowsGrow
  BY RowIs DEF RowsGrow
<1>2. ASSUME NEW n \in Networks, pc'[n] = "save"
      PROVE  Len(statuses'[sid'[n]].links) <= Len(found'[n].links)
  <2>1. sid[n] \in DOMAIN statuses
    BY <1>2 DEF IInv, SharedStatus, StatusKnown, FirstOf, Visible
  <2>2. QED BY <1>2, <2>1 DEF Ahead
<1>3. QED BY <1>1, <1>2 DEF Ahead

\* The steps that change no row.
LEMMA AheadUntouched ==
  ASSUME IInv, LInv, Ahead, NEW n \in Networks,
         \/ NewBlock(n) \/ OpenStream(n) \/ ConnectionLost(n) \/ StoreBlock(n)
         \/ FindStatus(n) \/ CommitStatus(n) \/ FindAgain(n)
         \/ StoreEvent(n) \/ FinalizeBlock(n)
  PROVE  Ahead' /\ RowsGrow
<1>1. statuses' = statuses
  BY DEF NewBlock, OpenStream, ConnectionLost, StoreBlock, FindStatus, CommitStatus, FindAgain,
         StoreEvent, FinalizeBlock, tables
<1>2. ASSUME NEW v \in Networks, pc'[v] = "save"
      PROVE  pc[v] = "save" /\ found'[v] = found[v] /\ sid'[v] = sid[v]
  <2>1. /\ pc \in [Networks -> Labels] /\ DOMAIN found = Networks
        /\ sid \in [Networks -> Nat]
    BY DEF IInv, Shapes
  <2>2. CASE NewBlock(n) \/ FinalizeBlock(n)
    BY <1>2, <2>2 DEF NewBlock, FinalizeBlock, handler
  <2>3. CASE ConnectionLost(n)
    <3>1. Stopped(n)
      BY <2>3, StopIs
    <3>2. QED BY <1>2, <2>1, <3>1 DEF Stopped
  <2>4. CASE OpenStream(n) \/ StoreBlock(n) \/ CommitStatus(n) \/ StoreEvent(n)
    <3>1. PICK l \in {"stream", "findStatus", "findAgain", "links"} : pc' = [pc EXCEPT ![n] = l]
      BY <2>4 DEF OpenStream, StoreBlock, CommitStatus, StoreEvent, Goto
    <3>2. found' = found /\ sid' = sid
      BY <2>4 DEF OpenStream, StoreBlock, CommitStatus, StoreEvent, handler
    <3>3. QED BY <1>2, <2>1, <3>1, <3>2
  <2>5. CASE FindStatus(n) \/ FindAgain(n)
    <3>1. PICK l \in {"newStatus", "event"} : pc' = [pc EXCEPT ![n] = l]
      BY <2>5 DEF FindStatus, FindAgain, Goto
    <3>2. found' = found /\ \A k \in Networks : k # n => sid'[k] = sid[k]
      BY <2>1, <2>5 DEF FindStatus, FindAgain
    <3>3. QED BY <1>2, <2>1, <3>1, <3>2
  <2>6. QED BY <2>2, <2>3, <2>4, <2>5
<1>3. QED BY <1>1, <1>2, AheadKept

LEMMA AheadInsert ==
  ASSUME IInv, LInv, Ahead, NEW n \in Networks, InsertStatus(n)
  PROVE  Ahead' /\ RowsGrow
<1>1. Inserts(n)
  BY InvInsert
<1>2. pc \in [Networks -> Labels]
  BY DEF IInv, Shapes
<1>3. \A i \in DOMAIN statuses : i \in DOMAIN statuses' /\ statuses'[i] = statuses[i]
  BY <1>1 DEF Inserts
<1>4. \A v \in Networks : pc'[v] = "save" =>
        pc[v] = "save" /\ found'[v] = found[v] /\ sid'[v] = sid[v]
  BY <1>1, <1>2 DEF Inserts, IInv, Shapes
<1>5. QED BY <1>3, <1>4, AheadKept

\* What getLinks returns is as long as what is in the row.
LEMMA AheadFound ==
  ASSUME IInv, LInv, \A m \in Messages : Orderly(m), Ahead, NEW n \in Networks, GetLinks(n)
  PROVE  Ahead' /\ RowsGrow
<1>1. UNCHANGED <<statuses, sid>> /\ pc' = [pc EXCEPT ![n] = "save"] /\ pc[n] = "links"
  BY DEF GetLinks, tables, Goto
<1>2. PICK w \in Walks(cur[n].msg) : found' = [found EXCEPT ![n] = w]
  BY DEF GetLinks
<1>3. sid[n] \in DOMAIN statuses /\ statuses[sid[n]].msg = cur[n].msg
  BY <1>1 DEF IInv, SharedStatus, StatusKnown, FirstOf, Visible
<1>4. Len(statuses[sid[n]].links) <= Len(w.links)
  BY <1>3, RowReached
<1>5. pc \in [Networks -> Labels] /\ DOMAIN found = Networks
  BY DEF IInv, Shapes
<1>6. Ahead'
  BY <1>1, <1>2, <1>4, <1>5 DEF Ahead
<1>7. RowsGrow
  BY <1>1, RowIs DEF RowsGrow
<1>8. QED BY <1>6, <1>7

\* No other handler has links for the row that is saved.
LEMMA AheadSaved ==
  ASSUME IInv, LInv, Alone, Ahead, NEW n \in Networks, SaveStatus(n)
  PROVE  Ahead' /\ RowsGrow
<1>1. /\ pc' = [pc EXCEPT ![n] = "stream"] /\ sid' = [sid EXCEPT ![n] = 0]
      /\ found' = [found EXCEPT ![n] = NoLinks]
      /\ statuses' \in Seq(StatusRow) /\ Len(statuses') = Len(statuses)
      /\ \A i \in DOMAIN statuses :
           /\ statuses'[i].msg = statuses[i].msg
           /\ i # sid[n] => statuses'[i] = statuses[i]
           /\ i = sid[n] => statuses'[i].links = found[n].links
  BY SaveStatusIs DEF IInv
<1>2. statuses \in Seq(StatusRow) /\ pc \in [Networks -> Labels] /\ DOMAIN found = Networks
      /\ sid \in [Networks -> Nat]
  BY DEF IInv, Shapes
<1>3. DOMAIN statuses' = DOMAIN statuses
  BY <1>1, <1>2
<1>4. pc[n] = "save"
  BY DEF SaveStatus
<1>5. RowsGrow
  <2>1. ASSUME NEW i \in DOMAIN statuses
        PROVE  Len(statuses[i].links) <= Len(statuses'[i].links)
    <3>1. CASE i = sid[n]
      BY <1>1, <1>4, <3>1 DEF Ahead
    <3>2. CASE i # sid[n]
      BY <1>1, <3>2, RowIs
    <3>3. QED BY <3>1, <3>2
  <2>2. QED BY <1>1, <1>3, <2>1 DEF RowsGrow
<1>6. ASSUME NEW v \in Networks, pc'[v] = "save"
      PROVE  Len(statuses'[sid'[v]].links) <= Len(found'[v].links)
  <2>1. v # n /\ pc[v] = "save" /\ found'[v] = found[v] /\ sid'[v] = sid[v]
    BY <1>1, <1>2, <1>6
  <2>2. FirstOf(sid[v], cur[v].msg) /\ FirstOf(sid[n], cur[n].msg)
    BY <1>4, <2>1 DEF IInv, SharedStatus, StatusKnown
  <2>3. cur[v].msg # cur[n].msg
    BY <1>4, <2>1 DEF Alone
  <2>4. sid[v] \in DOMAIN statuses /\ sid[v] # sid[n]
    BY <2>2, <2>3 DEF FirstOf, Visible
  <2>5. statuses'[sid[v]] = statuses[sid[v]]
    BY <1>1, <2>4
  <2>6. QED BY <2>1, <2>5 DEF Ahead
<1>7. QED BY <1>5, <1>6 DEF Ahead

\* Relink takes no row back.
LEMMA AheadRelink ==
  ASSUME IInv, LInv, \A m \in Messages : Orderly(m), "db" \notin load.faults, Relink
  PROVE  Ahead' /\ RowsGrow
<1>1. Relinks
  BY RelinkIs DEF IInv
<1>2. Ahead'
  BY <1>1 DEF Ahead, Relinks, ForAll
<1>3. DOMAIN statuses' = DOMAIN statuses
  BY DEF Relink
<1>4. ASSUME NEW i \in DOMAIN statuses
      PROVE  Len(statuses[i].links) <= Len(statuses'[i].links)
  <2>1. CASE statuses'[i] = statuses[i]
    BY <2>1, RowIs
  <2>2. CASE statuses'[i] # statuses[i]
    <3>1. PICK w \in Walks(statuses[i].msg) : statuses'[i].links = w.links
      BY <2>2, RowRelinked
    <3>2. QED BY <3>1, RowReached
  <2>3. QED BY <2>1, <2>2
<1>5. RowsGrow
  BY <1>1, <1>3, <1>4 DEF RowsGrow, Relinks
<1>6. QED BY <1>2, <1>5

LEMMA AheadNext ==
  ASSUME IInv, LInv, \A m \in Messages : Orderly(m), "db" \notin load.faults, Alone, Ahead,
         [Next]_vars
  PROVE  Ahead' /\ RowsGrow
<1>1. ASSUME NEW n \in Networks,
             \/ NewBlock(n) \/ OpenStream(n) \/ ConnectionLost(n) \/ StoreBlock(n)
             \/ FindStatus(n) \/ CommitStatus(n) \/ FindAgain(n)
             \/ StoreEvent(n) \/ FinalizeBlock(n)
      PROVE  Ahead' /\ RowsGrow
  BY <1>1, AheadUntouched
<1>2. ASSUME NEW n \in Networks, InsertStatus(n) PROVE Ahead' /\ RowsGrow
  BY <1>2, AheadInsert
<1>3. ASSUME NEW n \in Networks, GetLinks(n) PROVE Ahead' /\ RowsGrow
  BY <1>3, AheadFound
<1>4. ASSUME NEW n \in Networks, SaveStatus(n) PROVE Ahead' /\ RowsGrow
  BY <1>4, AheadSaved
<1>5. ASSUME NEW n \in Networks
      PROVE  /\ ~ StatusFails(n) /\ ~ StoreEventFails(n)
             /\ ~ GetLinksFails(n) /\ ~ SaveStatusFails(n)
  BY DEF StatusFails, StoreEventFails, GetLinksFails, SaveStatusFails
<1>6. CASE Crash
  <2>1. statuses' = statuses /\ \A v \in Networks : pc'[v] = "down"
    BY <1>6, DieIs DEF Crash, Dead, ForAll
  <2>2. QED BY <2>1, AheadKept
<1>7. CASE Relink
  BY <1>7, AheadRelink
<1>8. CASE UNCHANGED vars
  <2>1. UNCHANGED <<statuses, pc, found, sid>>
    BY <1>8 DEF vars, tables, handler
  <2>2. QED BY <2>1, AheadKept
<1>9. QED BY <1>1, <1>2, <1>3, <1>4, <1>5, <1>6, <1>7, <1>8 DEF Next

\* What may go wrong is given.
LEMMA LoadKept == [Next]_vars => load' = load
BY DieIs, RelinkIs DEF Next, vars, NewBlock, OpenStream, ConnectionLost, StoreBlock, FindStatus,
   InsertStatus, CommitStatus, FindAgain, StatusFails, StoreEvent, StoreEventFails, GetLinks,
   GetLinksFails, SaveStatus, SaveStatusFails, FinalizeBlock, Crash, Dead, Relink

LEMMA StaysCompleted ==
  ASSUME CompletedWithAll, CompletedWithAll', RowsGrow,
         NEW i \in DOMAIN statuses, statuses[i].status = "Completed"
  PROVE  statuses'[i].status = "Completed"
<1>1. /\ i \in DOMAIN statuses' /\ statuses'[i].msg = statuses[i].msg
      /\ Len(statuses[i].links) <= Len(statuses'[i].links)
  BY DEF RowsGrow
<1>2. Len(statuses[i].links) = JourneyLen(statuses[i].msg)
  BY DEF CompletedWithAll
<1>3. /\ Len(statuses'[i].links) \in Nat /\ JourneyLen(statuses[i].msg) \in Nat
      /\ Len(statuses'[i].links) <= JourneyLen(statuses[i].msg)
      /\ statuses'[i].status = "Completed"
           <=> Len(statuses'[i].links) = JourneyLen(statuses[i].msg)
  BY <1>1 DEF CompletedWithAll, JourneyLen
<1>4. QED BY <1>1, <1>2, <1>3

\* A step keeps every event that is recorded.
LEMMA EventsKept ==
  ASSUME IInv, [Next]_vars
  PROVE  EventsGrow
<1>1. CASE events' = events
  BY <1>1 DEF EventsGrow
<1>2. ASSUME NEW n \in Networks, StoreEvent(n) PROVE EventsGrow
  <2>1. cur[n] \in ChainEvent /\ Shapes
    BY <1>2, Handled DEF StoreEvent, IInv, Handling
  <2>2. \A i \in DOMAIN events : i \in DOMAIN events' /\ events'[i] = events[i]
    BY <1>2, <2>1, StoreEventIs
  <2>3. QED BY <2>2 DEF EventsGrow
<1>3. ASSUME NEW n \in Networks, FinalizeBlock(n) PROVE EventsGrow
  <2>1. \A i \in DOMAIN events : events[i] \in EventRow
    BY DEF IInv, Shapes
  <2>2. QED BY <1>3, <2>1 DEF FinalizeBlock, EventsGrow, EventRow
<1>4. events' = events \/ \E n \in Networks : StoreEvent(n) \/ FinalizeBlock(n)
  BY DEF Next, vars, tables, NewBlock, OpenStream, ConnectionLost, StoreBlock, FindStatus,
         InsertStatus, CommitStatus, FindAgain, StatusFails, StoreEventFails, GetLinks,
         GetLinksFails, SaveStatus, SaveStatusFails, Crash, Die, Relink
<1>5. QED BY <1>1, <1>2, <1>3, <1>4

RowsAreFirstSteps == \A i \in DOMAIN statuses : FirstSteps(statuses[i].links, statuses[i].msg)

\* Longer links begin as the shorter ones did.
LEMMA LinksExtended ==
  ASSUME RowsAreFirstSteps, RowsAreFirstSteps', EachRecordedOnce', EventsGrow, RowsGrow,
         NEW i \in DOMAIN statuses
  PROVE  IsPrefix(statuses[i].links, statuses'[i].links)
<1>1. /\ i \in DOMAIN statuses' /\ statuses'[i].msg = statuses[i].msg
      /\ Len(statuses[i].links) <= Len(statuses'[i].links)
  BY DEF RowsGrow
<1>2. PICK s : s = statuses[i].links
  OBVIOUS
<1>3. PICK t : t = statuses'[i].links
  OBVIOUS
<1>4. PICK m : m = statuses[i].msg
  OBVIOUS
<1>5. /\ s \in Seq(Nat)
      /\ \A k \in DOMAIN s : s[k] \in DOMAIN events /\ events[s[k]].msg = m /\ events[s[k]].step = k
  BY <1>2, <1>4 DEF RowsAreFirstSteps, FirstSteps
<1>6. /\ t \in Seq(Nat)
      /\ \A k \in DOMAIN t : t[k] \in DOMAIN events' /\ events'[t[k]].msg = m /\ events'[t[k]].step = k
  BY <1>1, <1>3, <1>4 DEF RowsAreFirstSteps, FirstSteps
<1>7. Len(s) <= Len(t) /\ DOMAIN s \subseteq DOMAIN t
  BY <1>1, <1>2, <1>3, <1>5, <1>6
<1>8. ASSUME NEW k \in DOMAIN s PROVE s[k] = t[k]
  <2>1. s[k] \in DOMAIN events' /\ events'[s[k]].msg = m /\ events'[s[k]].step = k
    BY <1>5 DEF EventsGrow
  <2>2. t[k] \in DOMAIN events' /\ events'[t[k]].msg = m /\ events'[t[k]].step = k
    BY <1>6, <1>7
  <2>3. QED BY <2>1, <2>2 DEF EachRecordedOnce
<1>9. IsPrefix(s, t)
  BY <1>5, <1>6, <1>7, <1>8 DEF IsPrefix
<1>10. QED BY <1>2, <1>3, <1>9

\* What holds of every step while handlers do not overlap.
Closed == (\A m \in Messages : Orderly(m)) /\ "db" \notin load.faults

AInv == Closed /\ IInv /\ LInv /\ Ahead

LEMMA InitAlone == Closed /\ Init => AInv
<1> SUFFICES ASSUME Closed, Init PROVE AInv
  OBVIOUS
<1>1. \A n \in Networks : pc[n] = "closed"
  BY DEF Init, ForAll
<1>2. Ahead
  BY <1>1 DEF Ahead
<1>3. QED BY <1>2, InitInv, InitLinks DEF AInv

LEMMA NextAlone == AInv /\ Alone /\ [Next]_vars => AInv' /\ RowsGrow
BY InvNext, LinksNext, AheadNext, LoadKept DEF AInv, Closed

\* The links of a status are a journal: as long as no two handlers have derived the links
\* of one message at once and every database operation succeeds, what was linked stays and
\* later steps are added behind it, by handlers and by Relink, over any crashes and lost
\* connections (updateLink, updateReLink).
LinksOnlyGrow ==
  [][\A i \in DOMAIN statuses : IsPrefix(statuses[i].links, statuses'[i].links)]_vars

THEOREM LinksOnlyGrowAlone ==
  (\A m \in Messages : Orderly(m)) /\ "db" \notin load.faults /\ Spec /\ []Alone => LinksOnlyGrow
<1> DEFINE Known == RowsAreFirstSteps /\ EachRecordedOnce
           Prolongs == \A i \in DOMAIN statuses : IsPrefix(statuses[i].links, statuses'[i].links)
<1>1. AInv => Known
  BY RowIs, OnceRecorded DEF AInv, LInv, RowsAreFirstSteps
<1>2. AInv /\ Alone /\ Known /\ Known' /\ [Next]_vars => [Prolongs]_vars
  BY NextAlone, EventsKept, LinksExtended DEF AInv
<1>3. AInv /\ Alone /\ [Next]_vars => AInv'
  BY NextAlone
<1> HIDE DEF Known, Prolongs
<1>4. Closed /\ Spec /\ []Alone => [][Prolongs]_vars
  BY <1>1, <1>2, <1>3, InitAlone, PTL DEF Spec
<1>5. QED BY <1>4 DEF LinksOnlyGrow, Prolongs, Closed

\* "It means the transfer closed" (getLinks) is true, of the same messages, of every run in
\* which no two handlers have derived the links of one message at once and every database
\* operation succeeds: what two networks do between getLinks and the save in updateLink,
\* which excludes nobody, is then all that can reopen a completed transfer.
THEOREM CompletedStaysAlone ==
  (\A m \in Messages : Orderly(m)) /\ "db" \notin load.faults /\ Spec /\ []Alone => CompletedStays
<1> DEFINE Keeps == \A i \in DOMAIN statuses :
                      statuses[i].status = "Completed" => statuses'[i].status = "Completed"
<1>1. AInv => CompletedWithAll
  BY CompletedIs DEF AInv, Closed
<1>2. AInv /\ Alone /\ CompletedWithAll /\ CompletedWithAll' /\ [Next]_vars => [Keeps]_vars
  BY NextAlone, StaysCompleted
<1>3. AInv /\ Alone /\ [Next]_vars => AInv'
  BY NextAlone
<1> HIDE DEF Keeps
<1>4. Closed /\ Spec /\ []Alone => [][Keeps]_vars
  BY <1>1, <1>2, <1>3, InitAlone, PTL DEF Spec
<1>5. QED BY <1>4 DEF CompletedStays, Keeps, Closed
=============================================================================
