----------------------- MODULE FinalityMonitor_proofs -----------------------
(***************************************************************************)
(* Proofs about FinalityMonitor and its consumers (FinalityConsumer), for  *)
(* every number of subscriptions, epochs, callers, consumers and blocks,   *)
(* every buffer size and both suppliers.                                   *)
(***************************************************************************)
EXTENDS FinalityConsumer, SequenceTheorems, TLAPS

LEMMA ThreadFacts ==
  /\ Epochs \subseteq Nat \ {0} /\ Epochs \subseteq Threads
  /\ Queries \subseteq Threads /\ Epochs \cap Queries = {}
  /\ Heights \subseteq Nat \ {0} /\ None \notin Heights /\ None \notin Epochs
BY FinalityAssumption DEF Epochs, Threads, Heights

(***************************************************************************)
(* The inductive invariant.  What a goroutine holds was final when it read *)
(* it: without that neither the type of m.last nor the soundness of an     *)
(* answer is preserved.                                                    *)
(***************************************************************************)
HoldsFinal ==
  /\ last # None => last <= final
  /\ \A e \in Epochs : bi[e] <= final /\ (pc[e] = "notify" => bi[e] >= 1)
  /\ \A t \in Threads : pc[t] \in {"serve", "notify"} => height[t] >= 1
  /\ \A t \in Threads : pc[t] = "compare" => height[t] <= final

TInv == TypeOK /\ HoldsFinal

-----------------------------------------------------------------------------
(* The types, together with HoldsFinal.                                    *)

LEMMA TInit == Init => TInv
BY ThreadFacts, FinalityAssumption
   DEF Init, TInv, TypeOK, HoldsFinal, Heights, Status, Labels, Answers, Epochs

LEMMA StartTypes ==
  ASSUME TInv, _start
  PROVE  /\ epoch' \in 0..MaxEpochs /\ cancel' \in {None, epoch'}
         /\ pc' \in [Threads -> Labels]
         /\ \A t \in Threads : pc'[t] \in {"serve", "notify", "compare"} => pc'[t] = pc[t]
<1>1. CASE _isStarted
  BY <1>1 DEF _start, TInv, TypeOK
<1>2. CASE ~ _isStarted
  <2>1. epoch + 1 \in Threads /\ epoch + 1 \in 0..MaxEpochs
    BY <1>2, FinalityAssumption DEF _start, TInv, TypeOK, Threads, Epochs
  <2>2. QED
    BY <1>2, <2>1 DEF _start, TInv, TypeOK, Labels
<1>3. QED BY <1>1, <1>2

LEMMA RemoveTypes ==
  ASSUME TInv, NEW D, _remove(D)
  PROVE  /\ subs' \in SUBSET Subs
         /\ chan' \in [Subs -> [status : Status, buf : Seq(Heights)]]
         /\ \A s \in Subs : Len(chan'[s].buf) <= BufferSize
BY DEF TInv, TypeOK, _remove, Status

LEMMA TUser == ASSUME TInv, User PROVE TInv'
<1>1. CASE Start
  BY <1>1, StartTypes, ThreadFacts DEF Start, TInv, TypeOK, HoldsFinal, network, queryVars, histVars
<1>2. CASE Stop
  BY <1>2, RemoveTypes DEF Stop, TInv, TypeOK, HoldsFinal, network, queryVars, histVars, threadVars
<1>3. ASSUME NEW s \in Subs, Subscribe(s) PROVE TInv'
  <2>1. Len(log) \in Nat
    BY DEF TInv, TypeOK
  <2>2. chan' \in [Subs -> [status : Status, buf : Seq(Heights)]]
        /\ \A r \in Subs : Len(chan'[r].buf) <= BufferSize
    BY <1>3, FinalityAssumption DEF Subscribe, TInv, TypeOK, Status
  <2>3. QED
    BY <1>3, <2>1, <2>2, StartTypes, ThreadFacts
       DEF Subscribe, TInv, TypeOK, HoldsFinal, network, queryVars
<1>4. ASSUME NEW s \in Subs, Unsubscribe(s) PROVE TInv'
  BY <1>4, RemoveTypes DEF Unsubscribe, TInv, TypeOK, HoldsFinal, network, queryVars, histVars, threadVars
<1>5. ASSUME NEW s \in Subs, Receive(s) PROVE TInv'
  <2>1. /\ Tail(chan[s].buf) \in Seq(Heights) /\ Head(chan[s].buf) \in Heights
        /\ Len(Tail(chan[s].buf)) <= BufferSize
    BY <1>5, HeadTailProperties, FinalityAssumption DEF Receive, TInv, TypeOK
  <2>2. /\ chan' \in [Subs -> [status : Status, buf : Seq(Heights)]]
        /\ \A r \in Subs : Len(chan'[r].buf) <= BufferSize
    BY <1>5, <2>1 DEF Receive, TInv, TypeOK
  <2>3. got' \in [Subs -> Seq(Heights)]
    BY <1>5, <2>1, AppendProperties DEF Receive, TInv, TypeOK
  <2>4. QED
    BY <1>5, <2>2, <2>3 DEF Receive, TInv, TypeOK, HoldsFinal, network, queryVars, threadVars
<1>6. QED BY <1>1, <1>2, <1>3, <1>4, <1>5 DEF User

LEMMA TLastOf == ASSUME TInv, NEW t \in Threads, LastOf(t) PROVE TInv'
<1>. USE DEF TInv, TypeOK, HoldsFinal, network, monitorVars, queryVars, histVars,
             Goto, Labels
<1>1. CASE LastIsStarted(t)
  BY <1>1 DEF LastIsStarted
<1>2. CASE LastGetLast(t)
  <2>1. CASE last # None
    <3>1. last \in Nat /\ last >= 1 /\ last <= final
      BY <2>1, ThreadFacts
    <3>2. height' \in [Threads -> Nat] /\ height'[t] = last
          /\ \A u \in Threads \ {t} : height'[u] = height[u]
      BY <1>2, <2>1, <3>1 DEF LastGetLast
    <3>3. pc' \in [Threads -> Labels] /\ pc'[t] \in {"serve", "compare"}
          /\ \A u \in Threads \ {t} : pc'[u] = pc[u]
      BY <1>2, <2>1 DEF LastGetLast, Returned
    <3>4. QED
      BY <1>2, <3>1, <3>2, <3>3, ThreadFacts DEF LastGetLast
  <2>2. CASE last = None
    BY <1>2, <2>2, ThreadFacts DEF LastGetLast
  <2>3. QED BY <2>1, <2>2
<1>3. CASE LastLatest(t)
  BY <1>3, ThreadFacts, SMTT(30) DEF LastLatest, Returned
<1>4. CASE LatestFails(t)
  BY <1>4 DEF LatestFails, Failed
<1>5. QED BY <1>1, <1>2, <1>3, <1>4 DEF LastOf

LEMMA DeliverTypes ==
  ASSUME TInv, NEW b \in Heights, Deliver(b)
  PROVE  /\ subs' \in SUBSET Subs
         /\ chan' \in [Subs -> [status : Status, buf : Seq(Heights)]]
         /\ \A s \in Subs : Len(chan'[s].buf) <= BufferSize
<1>1. ASSUME NEW s \in Subs
      PROVE  /\ chan'[s] \in [status : Status, buf : Seq(Heights)]
             /\ Len(chan'[s].buf) <= BufferSize
  <2>1. Append(chan[s].buf, b) \in Seq(Heights)
        /\ Len(Append(chan[s].buf, b)) = Len(chan[s].buf) + 1
    BY AppendProperties DEF TInv, TypeOK
  <2>2. ~ Full(s) => Len(chan[s].buf) + 1 <= BufferSize
    BY FinalityAssumption DEF Full, TInv, TypeOK
  <2>3. QED
    BY <2>1, <2>2 DEF Deliver, TInv, TypeOK, Status
<1>2. QED
  BY <1>1 DEF Deliver, TInv, TypeOK

LEMMA TGoroutine == ASSUME TInv, NEW e \in Epochs, Goroutine(e) PROVE TInv'
<1>. USE ThreadFacts DEF TInv, TypeOK, HoldsFinal, network, monitorVars, queryVars,
             histVars, Goto, Labels
<1>1. CASE Loop(e)
  BY <1>1 DEF Loop
<1>2. CASE LastOf(e)
  BY <1>2, TLastOf
<1>3. CASE ServeEnds(e)
  BY <1>3 DEF ServeEnds
<1>4. CASE ServeFetch(e)
  <2>1. PICK h \in Handover(e) : bi' = [bi EXCEPT ![e] = h]
    BY <1>4 DEF ServeFetch
  <2>2. h \in Heights /\ h <= final /\ h >= 1
    BY <1>4, <2>1, FinalityAssumption DEF Handover, ServeFetch, Heights
  <2>3. bi' \in [Epochs -> 0..MaxHeight] /\ \A f \in Epochs : bi'[f] <= final
    BY <2>1, <2>2 DEF Heights
  <2>4. QED
    BY <1>4, <2>1, <2>2, <2>3 DEF ServeFetch
<1>5. CASE Notify(e)
  <2>1. bi[e] \in Heights /\ bi[e] <= final
    BY <1>5 DEF Notify, Heights
  <2>2. Append(log, bi[e]) \in Seq(Heights)
    BY <2>1, AppendProperties
  <2>3. height' \in [Threads -> Nat] /\ height'[e] >= 1
        /\ \A t \in Threads \ {e} : height'[t] = height[t]
    BY <1>5, <2>1, SMTT(30) DEF Notify
  <2>4. bi' \in [Epochs -> 0..MaxHeight] /\ \A f \in Epochs : bi'[f] <= final
        /\ (f # e => bi'[f] = bi[f])
    BY <1>5, <2>1, FinalityAssumption DEF Notify, Heights
  <2>5. QED
    BY <1>5, <2>1, <2>2, <2>3, <2>4, DeliverTypes DEF Notify
<1>6. CASE Wake(e)
  BY <1>6 DEF Wake
<1>7. QED BY <1>1, <1>2, <1>3, <1>4, <1>5, <1>6 DEF Goroutine

LEMMA TQuery == ASSUME TInv, NEW q \in Queries, Query(q) PROVE TInv'
<1>. USE ThreadFacts DEF TInv, TypeOK, HoldsFinal, network, monitorVars, queryVars,
             histVars, Goto, Labels
<1>1. ASSUME NEW h \in Heights, NEW c \in BOOLEAN, Ask(q, h, c) PROVE TInv'
  BY <1>1 DEF Ask, Answers
<1>2. CASE LastOf(q)
  BY <1>2, TLastOf
<1>3. CASE Answer(q)
  BY <1>3 DEF Answer, Answers, Verdicts
<1>4. QED BY <1>1, <1>2, <1>3 DEF Query

LEMMA TStep == TInv /\ [Next]_vars => TInv'
<1> SUFFICES ASSUME TInv, [Next]_vars PROVE TInv'
  OBVIOUS
<1>1. CASE Finalize
  BY <1>1, FinalityAssumption
     DEF Finalize, TInv, TypeOK, HoldsFinal, Heights, monitorVars, threadVars,
         queryVars, histVars
<1>2. CASE User
  BY <1>2, TUser
<1>3. CASE \E e \in Epochs : Goroutine(e)
  BY <1>3, TGoroutine
<1>4. CASE \E q \in Queries : Query(q)
  BY <1>4, TQuery
<1>5. CASE UNCHANGED vars
  BY <1>5 DEF vars, network, monitorVars, threadVars, queryVars, histVars, TInv,
              TypeOK, HoldsFinal
<1>6. QED BY <1>1, <1>2, <1>3, <1>4, <1>5 DEF Next

\* Type correctness: in particular a channel never holds more than its capacity,
\* so a send in notify never blocks while m.mtx is held.
THEOREM TypeCorrect == Spec => []TypeOK
<1>1. Spec => []TInv
  BY TInit, TStep, PTL DEF Spec
<1>2. TInv => TypeOK
  BY DEF TInv
<1>3. QED BY <1>1, <1>2, PTL

-----------------------------------------------------------------------------
(* Subscriptions: the registration of channels, and what was sent on them. *)

\* Nothing is in the channel of a subscription that has not been made.
Fresh == \A s \in Subs : chan[s].status = "new" =>
           got[s] = <<>> /\ chan[s].buf = <<>>

SInv == TInv /\ RegisteredIffOpen /\ Fresh /\ NoSilentLoss

\* The variables the properties of subscriptions are about.
subVars == <<cancel, subs, chan, log, since, got>>

LEMMA SFrame == ASSUME SInv, TInv', UNCHANGED subVars PROVE SInv'
BY DEF SInv, RegisteredIffOpen, Fresh, NoSilentLoss, Delivered, subVars, _isStarted

LEMMA SInit == Init => SInv
BY TInit DEF SInv, Init, RegisteredIffOpen, Fresh, NoSilentLoss

\* Moving the head of one sequence to the end of another leaves their
\* concatenation as it was.
LEMMA MoveHead ==
  ASSUME NEW S, NEW g \in Seq(S), NEW b \in Seq(S), b # <<>>
  PROVE  Append(g, Head(b)) \o Tail(b) = g \o b
<1>1. Len(Append(g, Head(b)) \o Tail(b)) = Len(g \o b)
  OBVIOUS
<1>2. \A i \in 1..Len(g \o b) : (Append(g, Head(b)) \o Tail(b))[i] = (g \o b)[i]
  OBVIOUS
<1>3. Append(g, Head(b)) \o Tail(b) \in Seq(S) /\ g \o b \in Seq(S)
  OBVIOUS
<1>4. QED BY <1>1, <1>2, <1>3, SeqEqual

\* A segment of a log stays one when the log grows, and becomes a longer one
\* when it reached the end of the log and gets the same block.
LEMMA SegmentStays ==
  ASSUME NEW S, NEW l \in Seq(S), NEW x \in S, NEW k \in Nat, NEW d \in Seq(S),
         IsSegment(d, k, l)
  PROVE  IsSegment(d, k, Append(l, x))
BY DEF IsSegment

LongerByOne(g, b, x) ==
  /\ Len(g \o b) \in Nat
  /\ Len(g \o Append(b, x)) = Len(g \o b) + 1
  /\ (g \o Append(b, x))[Len(g \o b) + 1] = x
  /\ \A i \in 1..Len(g \o b) : (g \o Append(b, x))[i] = (g \o b)[i]

LEMMA ConcatAppend ==
  ASSUME NEW S, NEW g \in Seq(S), NEW b \in Seq(S), NEW x \in S
  PROVE  LongerByOne(g, b, x)
<1>1. Len(g \o b) \in Nat
  OBVIOUS
<1>2. Len(g \o Append(b, x)) = Len(g \o b) + 1
  OBVIOUS
<1>3. (g \o Append(b, x))[Len(g \o b) + 1] = x
  OBVIOUS
<1>4. \A i \in 1..Len(g \o b) : (g \o Append(b, x))[i] = (g \o b)[i]
  OBVIOUS
<1>5. QED BY <1>1, <1>2, <1>3, <1>4 DEF LongerByOne

LEMMA SegmentGrows ==
  ASSUME NEW S, NEW l \in Seq(S), NEW x \in S, NEW k \in Nat,
         NEW g \in Seq(S), NEW b \in Seq(S),
         IsSegment(g \o b, k, l), k + Len(g \o b) = Len(l)
  PROVE  /\ IsSegment(g \o Append(b, x), k, Append(l, x))
         /\ k + Len(g \o Append(b, x)) = Len(Append(l, x))
<1>1. LongerByOne(g, b, x)
  BY ConcatAppend
<1>2. \A i \in 1..Len(g \o Append(b, x)) :
        (g \o Append(b, x))[i] = Append(l, x)[k + i]
  <2>1. ASSUME NEW i \in 1..Len(g \o b)
        PROVE  (g \o Append(b, x))[i] = Append(l, x)[k + i]
    <3>1. (g \o b)[i] = l[k + i] /\ k + i \in 1..Len(l)
      BY DEF IsSegment
    <3>2. Append(l, x)[k + i] = l[k + i]
      BY <3>1
    <3>3. QED BY <1>1, <3>1, <3>2 DEF LongerByOne
  <2>2. Append(l, x)[k + Len(g \o b) + 1] = x
    <3>1. k + Len(g \o b) + 1 = Len(l) + 1
      OBVIOUS
    <3>2. Append(l, x)[Len(l) + 1] = x
      BY AppendProperties
    <3>3. QED BY <3>1, <3>2
  <2>. DEFINE n == Len(g \o b)
  <2>3. /\ n \in Nat /\ Len(g \o Append(b, x)) = n + 1
        /\ (g \o Append(b, x))[n + 1] = x
    BY <1>1 DEF LongerByOne
  <2>4. ASSUME NEW i \in 1..(n + 1)
        PROVE  (g \o Append(b, x))[i] = Append(l, x)[k + i]
    <3>1. CASE i \in 1..n
      BY <2>1, <3>1
    <3>2. CASE i = n + 1
      <4>1. k + i = k + n + 1
        BY <2>3, <3>2
      <4>2. QED BY <2>2, <2>3, <3>2, <4>1
    <3>3. i \in 1..n \/ i = n + 1
      <4>. HIDE DEF n
      <4>1. QED BY <2>3
    <3>4. QED BY <3>1, <3>2, <3>3
  <2>5. QED BY <2>3, <2>4
<1>3. Len(Append(l, x)) = Len(l) + 1
  BY AppendProperties
<1>4. Len(g \o Append(b, x)) = Len(g \o b) + 1
  BY <1>1 DEF LongerByOne
<1>5. k + Len(g \o Append(b, x)) = Len(Append(l, x))
  BY <1>3, <1>4
<1>6. k + Len(g \o Append(b, x)) <= Len(Append(l, x))
  BY <1>1, <1>3, <1>5 DEF LongerByOne
<1>7. QED BY <1>2, <1>5, <1>6 DEF IsSegment

\* The empty sequence is a segment of any log, at its end too.
LEMMA SegmentEmpty ==
  ASSUME NEW S, NEW l \in Seq(S)
  PROVE  IsSegment(<<>> \o <<>>, Len(l), l) /\ Len(l) + Len(<<>> \o <<>>) = Len(l)
BY DEF IsSegment

LEMMA HistoryTypes ==
  ASSUME TInv, NEW s \in Subs
  PROVE  /\ got[s] \in Seq(Heights) /\ chan[s].buf \in Seq(Heights)
         /\ Delivered(s) \in Seq(Heights) /\ since[s] \in Nat
         /\ log \in Seq(Heights)
BY DEF TInv, TypeOK, Delivered

\* Taking the head of a channel changes nothing in what was delivered.
LEMMA ReceiveKeepsDelivered ==
  ASSUME TInv, NEW s \in Subs, Receive(s)
  PROVE  \A r \in Subs : Delivered(r)' = Delivered(r)
<1>1. got[s] \in Seq(Heights) /\ chan[s].buf \in Seq(Heights) /\ chan[s].buf # <<>>
  BY DEF TInv, TypeOK, Receive
<1>2. Append(got[s], Head(chan[s].buf)) \o Tail(chan[s].buf) = got[s] \o chan[s].buf
  BY <1>1, MoveHead
<1>3. /\ got'[s] = Append(got[s], Head(chan[s].buf)) /\ chan'[s].buf = Tail(chan[s].buf)
      /\ \A r \in Subs \ {s} : got'[r] = got[r] /\ chan'[r] = chan[r]
  BY DEF Receive, TInv, TypeOK
<1>4. QED BY <1>2, <1>3 DEF Delivered

LEMMA SUser == ASSUME SInv, User PROVE SInv'
<1>0. TInv' /\ TInv
  BY TUser DEF SInv
<1>1. CASE Start
  <2>1. /\ UNCHANGED <<subs, chan, histVars>>
        /\ _isStarted => _isStarted'
    BY <1>0, <1>1, FinalityAssumption DEF Start, _start, _isStarted, TInv, TypeOK
  <2>2. QED
    BY <1>0, <2>1 DEF SInv, RegisteredIffOpen, Fresh, NoSilentLoss, Delivered, histVars
<1>2. ASSUME NEW D \in SUBSET Subs, _remove(D), UNCHANGED histVars,
             subs' # {} => _isStarted'
      PROVE  SInv'
  <2>1. \A s \in Subs : /\ chan'[s].buf = chan[s].buf
                        /\ chan'[s].status = "open" <=> s \in subs \ D
                        /\ chan'[s].status = "new" <=> chan[s].status = "new"
    <3>1. ASSUME NEW s \in Subs
          PROVE  chan'[s] = IF s \in subs \cap D THEN [chan[s] EXCEPT !.status = "closed"]
                                               ELSE chan[s]
      BY <1>2 DEF _remove
    <3>2. ASSUME NEW s \in Subs
          PROVE  chan[s] \in [status : Status, buf : Seq(Heights)]
                 /\ (s \in subs <=> chan[s].status = "open")
      BY <1>0 DEF SInv, RegisteredIffOpen, TInv, TypeOK
    <3>3. QED BY <3>1, <3>2
  <2>2. /\ subs' = subs \ D /\ UNCHANGED <<log, since, got>>
        /\ \A s \in Subs : Delivered(s)' = Delivered(s)
    BY <1>2, <2>1 DEF _remove, Delivered, histVars
  <2>3. RegisteredIffOpen' /\ Fresh'
    BY <1>2, <2>1, <2>2 DEF SInv, RegisteredIffOpen, Fresh
  <2>4. NoSilentLoss'
    BY <2>1, <2>2 DEF SInv, NoSilentLoss
  <2>5. QED BY <1>0, <2>3, <2>4 DEF SInv
<1>3. CASE Stop
  <2>1. subs' = {} /\ _remove(subs) /\ UNCHANGED histVars /\ subs \in SUBSET Subs
    BY <1>0, <1>3 DEF Stop, _remove, TInv, TypeOK
  <2>2. QED BY <1>2, <2>1
<1>4. ASSUME NEW s \in Subs, Unsubscribe(s) PROVE SInv'
  <2>1. _remove({s}) /\ UNCHANGED histVars /\ subs' = subs \ {s}
    BY <1>4 DEF Unsubscribe, _remove
  <2>2. subs' # {} => _isStarted'
    BY <1>4, <2>1 DEF Unsubscribe, SInv, RegisteredIffOpen, _isStarted
  <2>3. QED BY <1>2, <2>1, <2>2
<1>5. ASSUME NEW s \in Subs, Subscribe(s) PROVE SInv'
  <2>1. _isStarted'
    BY <1>0, <1>5, FinalityAssumption DEF Subscribe, _start, _isStarted, TInv, TypeOK
  <2>2. /\ chan'[s] = [status |-> "open", buf |-> <<>>] /\ since'[s] = Len(log)
        /\ got'[s] = <<>> /\ subs' = subs \cup {s} /\ log' = log /\ got' = got
        /\ \A r \in Subs \ {s} : chan'[r] = chan[r] /\ since'[r] = since[r]
    BY <1>0, <1>5 DEF Subscribe, SInv, Fresh, TInv, TypeOK
  <2>3. /\ Delivered(s)' = <<>> \o <<>>
        /\ \A r \in Subs \ {s} : Delivered(r)' = Delivered(r)
    <3>1. chan'[s].buf = <<>>
      BY <2>2
    <3>2. Delivered(s)' = <<>> \o <<>>
      BY <2>2, <3>1, Zenon DEF Delivered
    <3>3. ASSUME NEW r \in Subs \ {s} PROVE Delivered(r)' = Delivered(r)
      BY <2>2, Zenon DEF Delivered
    <3>4. QED BY <3>2, <3>3
  <2>4. RegisteredIffOpen'
    BY <2>1, <2>2 DEF SInv, RegisteredIffOpen
  <2>5. Fresh'
    BY <2>2 DEF SInv, Fresh
  <2>6. NoSilentLoss'
    <3>1. log \in Seq(Heights)
      BY <1>0 DEF TInv, TypeOK
    <3>2. IsSegment(Delivered(s)', since'[s], log')
          /\ since'[s] + Len(Delivered(s)') = Len(log')
      BY <2>2, <2>3, <3>1, SegmentEmpty
    <3>3. \A r \in Subs \ {s} : /\ chan'[r].status = chan[r].status
                               /\ Delivered(r)' = Delivered(r) /\ since'[r] = since[r]
                               /\ (r \in subs' <=> r \in subs)
      BY <2>2, <2>3
    <3>4. ASSUME NEW r \in Subs, chan'[r].status # "new"
          PROVE  IsSegment(Delivered(r)', since'[r], log')
                 /\ (r \in subs' => since'[r] + Len(Delivered(r)') = Len(log'))
      <4>1. CASE r = s
        BY <3>2, <4>1
      <4>2. CASE r # s
        BY <2>2, <3>3, <3>4, <4>2 DEF SInv, NoSilentLoss
      <4>3. QED BY <4>1, <4>2
    <3>5. QED BY <3>4 DEF NoSilentLoss
  <2>7. QED BY <1>0, <2>4, <2>5, <2>6 DEF SInv
<1>6. ASSUME NEW s \in Subs, Receive(s) PROVE SInv'
  <2>1. \A r \in Subs : Delivered(r)' = Delivered(r)
    BY <1>0, <1>6, ReceiveKeepsDelivered
  <2>2. /\ UNCHANGED <<cancel, subs, log, since>>
        /\ \A r \in Subs : chan'[r].status = chan[r].status
        /\ \A r \in Subs : chan[r].status = "new" => got'[r] = got[r] /\ chan'[r] = chan[r]
    BY <1>0, <1>6 DEF Receive, SInv, Fresh, TInv, TypeOK
  <2>3. QED
    BY <1>0, <2>1, <2>2 DEF SInv, RegisteredIffOpen, Fresh, NoSilentLoss, _isStarted
<1>7. QED BY <1>1, <1>3, <1>4, <1>5, <1>6 DEF User

LEMMA SNotify == ASSUME SInv, NEW e \in Epochs, Notify(e) PROVE SInv'
<1>0. TInv /\ TInv' /\ bi[e] \in Heights
  <2>1. TInv'
    BY TGoroutine DEF SInv, Goroutine
  <2>2. bi[e] \in Heights
    BY FinalityAssumption DEF SInv, TInv, TypeOK, HoldsFinal, Notify, Heights
  <2>3. QED BY <2>1, <2>2 DEF SInv
<1>1. /\ log' = Append(log, bi[e]) /\ UNCHANGED <<cancel, since, got>>
      /\ subs' = subs \ Slow
      /\ \A s \in Subs : chan'[s].status = IF s \in Slow THEN "closed" ELSE chan[s].status
      /\ \A s \in Subs : chan'[s].buf =
           IF s \in subs \ Slow THEN Append(chan[s].buf, bi[e]) ELSE chan[s].buf
  BY <1>0 DEF Notify, Deliver, Slow, TInv, TypeOK
<1>2. Slow \subseteq subs
  BY DEF Slow
<1>3. RegisteredIffOpen'
  BY <1>1, <1>2 DEF SInv, RegisteredIffOpen, _isStarted
<1>4. Fresh'
  BY <1>1, <1>2 DEF SInv, RegisteredIffOpen, Fresh
<1>5. ASSUME NEW s \in Subs, chan'[s].status # "new"
      PROVE  /\ IsSegment(Delivered(s)', since'[s], log')
             /\ s \in subs' => since'[s] + Len(Delivered(s)') = Len(log')
  <2>1. /\ chan[s].status # "new" /\ since'[s] = since[s] /\ got'[s] = got[s]
        /\ log' = Append(log, bi[e])
    BY <1>1, <1>2, <1>5 DEF SInv, RegisteredIffOpen
  <2>2. /\ IsSegment(Delivered(s), since[s], log)
        /\ s \in subs => since[s] + Len(Delivered(s)) = Len(log)
    BY <2>1 DEF SInv, NoSilentLoss
  <2>3. CASE s \in subs \ Slow
    <3>1. /\ Delivered(s)' = got[s] \o Append(chan[s].buf, bi[e])
          /\ Delivered(s) = got[s] \o chan[s].buf
      BY <1>1, <2>1, <2>3 DEF Delivered
    <3>2. /\ IsSegment(got[s] \o Append(chan[s].buf, bi[e]), since[s], Append(log, bi[e]))
          /\ since[s] + Len(got[s] \o Append(chan[s].buf, bi[e])) = Len(Append(log, bi[e]))
      <4>1. /\ got[s] \in Seq(Heights) /\ chan[s].buf \in Seq(Heights)
            /\ since[s] \in Nat /\ log \in Seq(Heights)
        BY <1>0, HistoryTypes
      <4>2. IsSegment(got[s] \o chan[s].buf, since[s], log)
            /\ since[s] + Len(got[s] \o chan[s].buf) = Len(log)
        BY <2>2, <2>3, <3>1
      <4>3. QED BY <1>0, <4>1, <4>2, SegmentGrows, ZenonT(60)
    <3>3. QED BY <2>1, <3>1, <3>2
  <2>4. CASE s \notin subs \ Slow
    <3>1. Delivered(s)' = Delivered(s) /\ s \notin subs'
      BY <1>1, <2>1, <2>4 DEF Delivered
    <3>2. IsSegment(Delivered(s), since[s], Append(log, bi[e]))
      BY <1>0, <2>2, HistoryTypes, SegmentStays
    <3>3. QED BY <2>1, <3>1, <3>2
  <2>5. QED BY <2>3, <2>4
<1>6. QED BY <1>0, <1>3, <1>4, <1>5 DEF SInv, NoSilentLoss

LEMMA SStep == SInv /\ [Next]_vars => SInv'
<1> SUFFICES ASSUME SInv, [Next]_vars PROVE SInv'
  OBVIOUS
<1>1. TInv'
  BY TStep DEF SInv
<1>2. CASE User
  BY <1>2, SUser
<1>3. ASSUME NEW e \in Epochs, Notify(e) PROVE SInv'
  BY <1>3, SNotify
<1>4. ASSUME NEW t \in Threads, LastOf(t) PROVE SInv'
  BY <1>1, <1>4, SFrame DEF LastOf, LastIsStarted, LastGetLast, LastLatest, LatestFails,
     monitorVars, histVars, subVars
<1>5. ASSUME NEW e \in Epochs, Goroutine(e), ~ Notify(e), ~ LastOf(e) PROVE SInv'
  BY <1>1, <1>5, SFrame DEF Goroutine, Loop, ServeEnds, ServeFetch, Wake,
     monitorVars, histVars, subVars
<1>6. ASSUME NEW q \in Queries, Query(q), ~ LastOf(q) PROVE SInv'
  BY <1>1, <1>6, SFrame DEF Query, Ask, Answer, monitorVars, histVars, subVars
<1>7. CASE Finalize \/ UNCHANGED vars
  BY <1>1, <1>7, SFrame DEF Finalize, vars, monitorVars, histVars, subVars
<1>8. QED
  BY <1>2, <1>3, <1>4, <1>5, <1>6, <1>7, ThreadFacts DEF Next

\* No send on a closed channel, no double close, no subscriber of a stopped
\* monitor.
THEOREM SubscriptionSafety == Spec => []RegisteredIffOpen
<1>1. Spec => []SInv
  BY SInit, SStep, PTL DEF Spec
<1>2. SInv => RegisteredIffOpen
  BY DEF SInv
<1>3. QED BY <1>1, <1>2, PTL

\* A subscriber gets every block in order until its channel is closed.
THEOREM Lossless == Spec => []NoSilentLoss
<1>1. Spec => []SInv
  BY SInit, SStep, PTL DEF Spec
<1>2. SInv => NoSilentLoss
  BY DEF SInv
<1>3. QED BY <1>1, <1>2, PTL

-----------------------------------------------------------------------------
(* IsFinalized.                                                            *)

AInv == TInv /\ AnswersSound

LEMMA AStep == AInv /\ [Next]_vars => AInv'
<1> SUFFICES ASSUME AInv, [Next]_vars PROVE AInv'
  OBVIOUS
<1>0. TInv /\ TInv'
  BY TStep DEF AInv
<1>1. ASSUME UNCHANGED queryVars, final' \in Heights, final' >= final PROVE AInv'
  <2>1. final \in Nat /\ final' \in Nat /\ \A q \in Queries : ask[q].height \in Nat
    BY <1>0, <1>1, ThreadFacts DEF TInv, TypeOK
  <2>2. ASSUME NEW q \in Queries, answer[q] \in {"true", "notFoundBlock"}
        PROVE  ask[q].height <= final'
    <3>1. ask[q].height <= final
      BY <2>2 DEF AInv, AnswersSound
    <3>2. QED BY <1>1, <2>1, <3>1
  <2>3. ask' = ask /\ answer' = answer
    BY <1>1 DEF queryVars
  <2>4. ASSUME NEW q \in Queries, answer[q] = "true", ~ ask[q].onChain
        PROVE  ServesOrphans /\ ask[q].height < final'
    <3>1. ServesOrphans /\ ask[q].height < final
      BY <2>4 DEF AInv, AnswersSound
    <3>2. QED BY <1>1, <2>1, <3>1
  <2>5. AnswersSound'
    BY <2>2, <2>3, <2>4 DEF AInv, AnswersSound
  <2>6. QED BY <1>0, <2>5 DEF AInv
<1>2. CASE Finalize
  BY <1>0, <1>1, <1>2, ThreadFacts DEF Finalize, queryVars, TInv, TypeOK
<1>x. final \in Heights /\ final >= final
  BY <1>0, ThreadFacts DEF TInv, TypeOK
<1>3. CASE User
  <2>1. UNCHANGED <<queryVars, final>>
    BY <1>3 DEF User, Start, Stop, Subscribe, Unsubscribe, Receive, network
  <2>2. QED BY <1>1, <1>x, <2>1
<1>4. ASSUME NEW t \in Threads, LastOf(t) PROVE AInv'
  BY <1>0, <1>1, <1>4, ThreadFacts
     DEF LastOf, LastIsStarted, LastGetLast, LastLatest, LatestFails, network, TInv, TypeOK
<1>5. ASSUME NEW e \in Epochs, Goroutine(e), ~ LastOf(e) PROVE AInv'
  BY <1>0, <1>1, <1>5, ThreadFacts
     DEF Goroutine, Loop, ServeEnds, ServeFetch, Notify, Wake, network, TInv, TypeOK
<1>6. ASSUME NEW q \in Queries, NEW h \in Heights, NEW c \in BOOLEAN, Ask(q, h, c)
      PROVE  AInv'
  BY <1>0, <1>6 DEF Ask, AInv, AnswersSound, TInv, TypeOK, network
<1>7. ASSUME NEW q \in Queries, Answer(q) PROVE AInv'
  <2>1. /\ height[q] <= final /\ height[q] \in Nat /\ final \in Nat
        /\ ask[q].height \in Nat /\ ask[q].onChain \in BOOLEAN
    BY <1>0, <1>7, ThreadFacts DEF Answer, TInv, TypeOK, HoldsFinal
  <2>2. /\ answer'[q] \in Verdicts(q) /\ UNCHANGED <<ask, final>>
        /\ \A r \in Queries \ {q} : answer'[r] = answer[r]
    BY <1>0, <1>7 DEF Answer, network, TInv, TypeOK
  <2>3. QED
    BY <1>0, <2>1, <2>2 DEF AInv, AnswersSound, Verdicts, OlderOrphanServed
<1>8. CASE UNCHANGED vars
  BY <1>0, <1>1, <1>8, ThreadFacts DEF vars, network, TInv, TypeOK
<1>9. QED
  BY <1>2, <1>3, <1>4, <1>5, <1>6, <1>7, <1>8, ThreadFacts DEF Next, Query

\* "true" and "not found" are only ever answered about a block whose height is
\* final, "true" about an orphan only by a node that serves orphans, whatever
\* the monitor went through during the call.
THEOREM SoundAnswers == Spec => []AnswersSound
<1>1. Init => AInv
  BY TInit DEF AInv, AnswersSound, Init
<1>2. Spec => []AInv
  BY <1>1, AStep, PTL DEF Spec
<1>3. AInv => AnswersSound
  BY DEF AInv
<1>4. QED BY <1>2, <1>3, PTL

-----------------------------------------------------------------------------
(* The monitor implements FinalityFeed.                                    *)

LEMMA FeedInit == Init => Feed!Init
BY DEF Init, Feed!Init, feedFirst, feedLimit

LEMMA FeedFrame == ASSUME UNCHANGED subVars PROVE UNCHANGED Feed!feedVars
<1>1. \A s \in Subs : Delivered(s)' = Delivered(s)
  BY Zenon DEF subVars, Delivered
<1>2. QED BY <1>1 DEF subVars, Feed!feedVars, feedFirst, feedLimit

\* What the state functions of the refinement are for one subscription.
LEMMA FeedPoint ==
  ASSUME SInv, NEW s \in Subs
  PROVE  /\ chan[s].status = "new" => feedFirst[s] = None /\ feedLimit[s] = None
         /\ chan[s].status = "open" =>
              /\ feedFirst[s] = since[s] /\ feedLimit[s] = None
              /\ since[s] + Len(Delivered(s)) = Len(log)
         /\ chan[s].status = "closed" =>
              feedFirst[s] = since[s] /\ feedLimit[s] = since[s] + Len(Delivered(s))
         /\ feedFirst[s] = None <=> chan[s].status = "new"
         /\ chan[s].status \in Status
BY FinalityAssumption
   DEF SInv, RegisteredIffOpen, NoSilentLoss, TInv, TypeOK, feedFirst, feedLimit, Status

\* Closing the channels in subs \cap D is a Close of the feed.
LEMMA FeedRemove ==
  ASSUME SInv, SInv', NEW D, _remove(D), UNCHANGED histVars
  PROVE  Feed!Close
<1>1. DEFINE C == subs \cap D
<1>2. \A s \in Subs : s \in subs <=> chan[s].status = "open"
  BY DEF SInv, RegisteredIffOpen
<1>3. C \in SUBSET Feed!Attached
  BY <1>2, FeedPoint DEF Feed!Attached, SInv, TInv, TypeOK
<1>4. ASSUME NEW s \in Subs
      PROVE  /\ chan'[s].buf = chan[s].buf
             /\ chan'[s].status = IF s \in C THEN "closed" ELSE chan[s].status
  <2>1. chan'[s] = IF s \in subs \cap D THEN [chan[s] EXCEPT !.status = "closed"]
                                       ELSE chan[s]
    BY DEF _remove
  <2>2. chan[s] \in [status : Status, buf : Seq(Heights)]
    BY DEF SInv, TInv, TypeOK
  <2>3. QED BY <2>1, <2>2
<1>5. ASSUME NEW s \in Subs PROVE Delivered(s)' = Delivered(s)
  <2>1. got' = got /\ chan'[s].buf = chan[s].buf
    BY <1>4 DEF histVars
  <2>2. QED BY <2>1, Zenon DEF Delivered
<1>6. feedFirst' = feedFirst /\ log' = log /\ got' = got
  BY <1>2, <1>4 DEF feedFirst, histVars
<1>7. feedLimit' = [s \in Subs |-> IF s \in C THEN Len(log) ELSE feedLimit[s]]
  <2>1. ASSUME NEW s \in Subs
        PROVE  (IF chan'[s].status = "closed" THEN since'[s] + Len(Delivered(s)') ELSE None)
                 = IF s \in C THEN Len(log) ELSE feedLimit[s]
    BY <1>2, <1>4, <1>5, FeedPoint DEF histVars, feedLimit
  <2>2. QED BY <2>1 DEF feedLimit
<1>8. QED BY <1>3, <1>6, <1>7 DEF Feed!Close, Feed!Detach

LEMMA FeedSubscribe ==
  ASSUME SInv, SInv', NEW s \in Subs, Subscribe(s)
  PROVE  Feed!Attach(s)
<1>1. /\ chan[s].status = "new" /\ chan'[s].status = "open" /\ since'[s] = Len(log)
      /\ UNCHANGED <<log, got>>
      /\ \A r \in Subs \ {s} : chan'[r] = chan[r] /\ since'[r] = since[r]
  BY DEF Subscribe, SInv, TInv, TypeOK
<1>2. \A r \in Subs \ {s} : Delivered(r)' = Delivered(r)
  BY <1>1, Zenon DEF Delivered
<1>3. feedFirst' = [feedFirst EXCEPT ![s] = Len(log)] /\ feedFirst[s] = None
  BY <1>1 DEF feedFirst
<1>4. feedLimit' = feedLimit
  BY <1>1, <1>2 DEF feedLimit
<1>5. QED BY <1>1, <1>3, <1>4 DEF Feed!Attach

\* The head of a channel is the next block of the log for its owner.
LEMMA HeadIsNext ==
  ASSUME NEW S, NEW l \in Seq(S), NEW k \in Nat, NEW g \in Seq(S),
         NEW b \in Seq(S), b # <<>>, IsSegment(g \o b, k, l)
  PROVE  /\ k + Len(g) + 1 <= k + Len(g \o b) /\ k + Len(g) + 1 <= Len(l)
         /\ Head(b) = l[k + Len(g) + 1]
<1>1. Len(g) + 1 \in 1..Len(g \o b) /\ (g \o b)[Len(g) + 1] = Head(b)
  OBVIOUS
<1>2. k + Len(g \o b) <= Len(l) /\ (g \o b)[Len(g) + 1] = l[k + (Len(g) + 1)]
  BY <1>1 DEF IsSegment
<1>3. QED BY <1>1, <1>2

LEMMA FeedReceive ==
  ASSUME SInv, SInv', NEW s \in Subs, Receive(s)
  PROVE  Feed!Take(s)
<1>0. TInv
  BY DEF SInv
<1>1. chan[s].buf # <<>> /\ chan[s].status # "new"
  BY DEF Receive, SInv, Fresh
<1>2. /\ got[s] \in Seq(Heights) /\ chan[s].buf \in Seq(Heights)
      /\ since[s] \in Nat /\ log \in Seq(Heights)
  BY <1>0, HistoryTypes
<1>3. IsSegment(got[s] \o chan[s].buf, since[s], log)
  BY <1>1 DEF SInv, NoSilentLoss, Delivered
<1>4. /\ since[s] + Len(got[s]) + 1 <= since[s] + Len(got[s] \o chan[s].buf)
      /\ since[s] + Len(got[s]) + 1 <= Len(log)
      /\ Head(chan[s].buf) = log[since[s] + Len(got[s]) + 1]
  BY <1>1, <1>2, <1>3, HeadIsNext
<1>5. /\ feedFirst[s] = since[s] /\ feedFirst[s] # None
      /\ feedLimit[s] # None => feedLimit[s] = since[s] + Len(got[s] \o chan[s].buf)
  BY <1>1, FeedPoint DEF Delivered, Status
<1>6. /\ got' = [got EXCEPT ![s] = Append(@, Head(chan[s].buf))]
      /\ \A r \in Subs : chan'[r].status = chan[r].status
      /\ UNCHANGED <<log, since>>
  BY DEF Receive, SInv, TInv, TypeOK
<1>7. \A r \in Subs : Delivered(r)' = Delivered(r)
  BY <1>0, ReceiveKeepsDelivered
<1>8. UNCHANGED <<feedFirst, feedLimit>>
  BY <1>6, <1>7 DEF feedFirst, feedLimit
<1>9. got' = [got EXCEPT ![s] = Append(@, log[since[s] + Len(got[s]) + 1])]
  BY <1>4, <1>6
<1>10. QED BY <1>4, <1>5, <1>6, <1>8, <1>9 DEF Feed!Take

LEMMA FeedNotify ==
  ASSUME SInv, SInv', NEW e \in Epochs, Notify(e)
  PROVE  Feed!Publish(bi[e])
<1>1. /\ log' = Append(log, bi[e]) /\ UNCHANGED <<since, got>>
      /\ \A s \in Subs : chan'[s].status = IF s \in Slow THEN "closed" ELSE chan[s].status
      /\ \A s \in Subs \ (subs \ Slow) : chan'[s].buf = chan[s].buf
  BY DEF Notify, Deliver, Slow, SInv, TInv, TypeOK
<1>2. Slow \subseteq subs /\ \A s \in Subs : s \in subs <=> chan[s].status = "open"
  BY DEF Slow, SInv, RegisteredIffOpen
<1>3. Slow \in SUBSET Feed!Attached
  BY <1>2, FeedPoint DEF Feed!Attached, SInv, TInv, TypeOK
<1>4. feedFirst' = feedFirst
  BY <1>1, <1>2 DEF feedFirst
<1>5. \A s \in Subs \ (subs \ Slow) : Delivered(s)' = Delivered(s)
  BY <1>1, Zenon DEF Delivered
<1>6. ASSUME NEW s \in Subs
      PROVE  (IF chan'[s].status = "closed" THEN since'[s] + Len(Delivered(s)') ELSE None)
               = IF s \in Slow THEN Len(log) ELSE feedLimit[s]
  <2>1. CASE s \in Slow
    BY <1>1, <1>2, <1>5, <2>1, FeedPoint
  <2>2. CASE s \in subs \ Slow
    BY <1>1, <1>2, <2>2, FeedPoint
  <2>3. CASE s \notin subs
    BY <1>1, <1>2, <1>5, <2>3 DEF feedLimit
  <2>4. QED BY <2>1, <2>2, <2>3
<1>7. feedLimit' = [s \in Subs |-> IF s \in Slow THEN Len(log) ELSE feedLimit[s]]
  BY <1>6 DEF feedLimit
<1>8. QED BY <1>1, <1>3, <1>4, <1>7 DEF Feed!Publish, Feed!Detach

LEMMA FeedStep ==
  ASSUME SInv, SInv', [Next]_vars
  PROVE  [Feed!Next]_Feed!feedVars
<1>0. ASSUME NEW e \in Epochs, Notify(e) PROVE bi[e] \in Heights
  BY <1>0, FinalityAssumption DEF SInv, TInv, TypeOK, HoldsFinal, Notify, Heights
<1>1. CASE User
  <2>1. CASE Start
    BY <2>1, FeedFrame DEF Start, histVars, subVars, FeedFrame, Feed!feedVars,
       feedFirst, feedLimit, Delivered
  <2>2. CASE Stop
    BY <2>2, FeedRemove DEF Stop, Feed!Next
  <2>3. ASSUME NEW s \in Subs, Subscribe(s) PROVE Feed!Next
    BY <2>3, FeedSubscribe DEF Feed!Next
  <2>4. ASSUME NEW s \in Subs, Unsubscribe(s) PROVE Feed!Next
    BY <2>4, FeedRemove DEF Unsubscribe, Feed!Next
  <2>5. ASSUME NEW s \in Subs, Receive(s) PROVE Feed!Next
    BY <2>5, FeedReceive DEF Feed!Next
  <2>6. QED BY <1>1, <2>1, <2>2, <2>3, <2>4, <2>5 DEF User
<1>2. ASSUME NEW e \in Epochs, Notify(e) PROVE Feed!Next
  BY <1>0, <1>2, FeedNotify DEF Feed!Next
<1>3. ASSUME NEW t \in Threads, LastOf(t) PROVE UNCHANGED subVars
  BY <1>3 DEF LastOf, LastIsStarted, LastGetLast, LastLatest, LatestFails,
     monitorVars, histVars, subVars
<1>4. ASSUME NEW e \in Epochs, Goroutine(e), ~ Notify(e), ~ LastOf(e)
      PROVE  UNCHANGED subVars
  BY <1>4 DEF Goroutine, Loop, ServeEnds, ServeFetch, Wake, monitorVars, histVars, subVars
<1>5. ASSUME NEW q \in Queries, Query(q), ~ LastOf(q) PROVE UNCHANGED subVars
  BY <1>5 DEF Query, Ask, Answer, monitorVars, histVars, subVars
<1>6. CASE Finalize \/ UNCHANGED vars
  BY <1>6, FeedFrame DEF Finalize, vars, monitorVars, histVars, subVars
<1>7. QED
  BY <1>1, <1>2, <1>3, <1>4, <1>5, <1>6, FeedFrame, ThreadFacts DEF Next

\* Goroutines, restarts and bounded channels together keep the promise a
\* subscriber relies on.
THEOREM MonitorImplementsFeed == Spec => FeedSpec
<1>1. Spec => []SInv
  BY SInit, SStep, PTL DEF Spec
<1>2. SInv /\ SInv' /\ [Next]_vars => [Feed!Next]_Feed!feedVars
  BY FeedStep
<1>3. QED BY <1>1, <1>2, FeedInit, PTL DEF Spec, FeedSpec, Feed!Spec


-----------------------------------------------------------------------------
(* The notifications of one goroutine.  The one that notified last stands  *)
(* where its next block is in order after m.last, or it was cancelled.  A  *)
(* cancelled one may still ask the network and stand anywhere, but it      *)
(* fetches no more; that is why it must not be taken for a later start.    *)

\* Only goroutines that were started run.
Born == \A e \in Epochs : pc[e] # "unborn" => e <= epoch

LastIsLogged == /\ notifier = None <=> log = <<>>
                /\ last = IF log = <<>> THEN None ELSE log[Len(log)]

GoesOn(e) ==
  /\ pc[e] = "latest" => Cancelled(e)
  /\ pc[e] = "serve" /\ ~ Cancelled(e) =>
       IF push THEN height[e] \in {last, last + 1} ELSE height[e] >= last
  /\ pc[e] = "notify" => InOrder(last, bi[e])

NotifierGoesOn == notifier # None => notifier <= epoch /\ GoesOn(notifier)

NInv == TInv /\ Born /\ LastIsLogged /\ NotifierGoesOn

\* What the goroutine that notified last knows of its next block.
LEMMA Notifier ==
  ASSUME NInv, notifier # None
  PROVE  /\ notifier \in Epochs /\ notifier \in Threads /\ notifier <= epoch
         /\ last \in Nat \ {0} /\ last # None /\ last = log[Len(log)]
         /\ height[notifier] \in Nat /\ epoch \in Nat
<1>1. log # <<>> /\ log \in Seq(Heights)
  BY DEF NInv, LastIsLogged, TInv, TypeOK
<1>2. last = log[Len(log)] /\ log[Len(log)] \in Heights
  BY <1>1 DEF NInv, LastIsLogged
<1>3. notifier \in Epochs /\ height \in [Threads -> Nat] /\ epoch \in Nat
  BY FinalityAssumption DEF NInv, TInv, TypeOK
<1>4. QED BY <1>2, <1>3, ThreadFacts DEF NInv, NotifierGoesOn

\* Steps of others leave its place; they may cancel it, and never start it again.
LEMMA OthersStep ==
  ASSUME NInv, TInv', UNCHANGED <<push, last, log, notifier>>,
         epoch' \in {epoch, epoch + 1},
         cancel' \in {cancel, None} \/ (epoch' = epoch + 1 /\ cancel' = epoch + 1),
         \A e \in Epochs : (pc'[e] = pc[e] /\ height'[e] = height[e] /\ bi'[e] = bi[e])
                           \/ (epoch' = epoch + 1 /\ e = epoch + 1)
                           \/ (pc[e] # "unborn" /\ e # notifier)
  PROVE  NInv'
<1>1. epoch \in Nat /\ None \notin Epochs
  BY FinalityAssumption, ThreadFacts DEF NInv, TInv, TypeOK
<1>2. Born'
  <2> SUFFICES ASSUME NEW e \in Epochs, pc'[e] # "unborn" PROVE e <= epoch'
    BY DEF Born
  <2>1. pc[e] # "unborn" => e <= epoch
    BY DEF NInv, Born
  <2>2. e \in Nat
    BY ThreadFacts
  <2>3. QED BY <1>1, <2>1, <2>2
<1>3. LastIsLogged'
  BY DEF NInv, LastIsLogged
<1>4. NotifierGoesOn'
  <2> SUFFICES ASSUME notifier # None
               PROVE  notifier <= epoch' /\ GoesOn(notifier)'
    BY DEF NotifierGoesOn
  <2>1. notifier \in Epochs /\ notifier <= epoch
    BY Notifier
  <2>2. notifier <= epoch' /\ notifier # epoch + 1
    BY <1>1, <2>1, ThreadFacts
  <2>3. pc'[notifier] = pc[notifier] /\ height'[notifier] = height[notifier]
        /\ bi'[notifier] = bi[notifier]
    BY <2>1, <2>2
  <2>4. cancel' = notifier => cancel = notifier
    BY <1>1, <2>1, <2>2
  <2>5. GoesOn(notifier)
    BY DEF NInv, NotifierGoesOn
  <2>6. QED BY <2>2, <2>3, <2>4, <2>5 DEF GoesOn, Cancelled, InOrder
<1>5. QED BY <1>2, <1>3, <1>4 DEF NInv

LEMMA NUser == ASSUME NInv, TInv', User PROVE NInv'
<1>1. UNCHANGED <<push, last, log, notifier, height, bi>>
  BY DEF User, Start, Stop, Subscribe, Unsubscribe, Receive, network, threadVars, histVars
<1>2. \/ _start
      \/ cancel' \in {cancel, None} /\ epoch' = epoch /\ pc' = pc
  BY DEF User, Start, Stop, Subscribe, Unsubscribe, Receive, threadVars
<1>3. CASE _start
  <2>1. pc \in [Threads -> Labels] /\ Epochs \subseteq Threads
    BY ThreadFacts DEF NInv, TInv, TypeOK
  <2>2. CASE _isStarted
    <3>1. UNCHANGED <<cancel, epoch, pc>>
      BY <1>3, <2>2 DEF _start
    <3>2. QED BY <1>1, <3>1, OthersStep
  <2>3. CASE ~ _isStarted
    <3>1. epoch' = epoch + 1 /\ cancel' = epoch + 1 /\ pc' = [pc EXCEPT ![epoch + 1] = "loop"]
      BY <1>3, <2>3 DEF _start
    <3>2. \A e \in Epochs : e # epoch + 1 => pc'[e] = pc[e]
      BY <2>1, <3>1
    <3>3. QED BY <1>1, <3>1, <3>2, OthersStep
  <2>4. QED BY <2>2, <2>3
<1>4. CASE cancel' \in {cancel, None} /\ epoch' = epoch /\ pc' = pc
  BY <1>1, <1>4, OthersStep
<1>5. QED BY <1>2, <1>3, <1>4


LEMMA NGoroutine ==
  ASSUME NInv, TInv', NEW e \in Epochs, Goroutine(e)
  PROVE  NInv'
<1>0. pc \in [Threads -> Labels] /\ height \in [Threads -> Nat] /\ bi \in [Epochs -> 0..MaxHeight]
      /\ e \in Threads /\ Epochs \subseteq Threads /\ None \notin Epochs
  BY ThreadFacts DEF NInv, TInv, TypeOK
<1>1. pc[e] # "unborn"
  BY DEF Goroutine, Loop, LastOf, LastIsStarted, LastGetLast, LastLatest, LatestFails,
     ServeEnds, ServeFetch, Notify, Wake
<1>2. epoch \in Nat /\ e \in Nat /\ e <= epoch
  BY <1>1, ThreadFacts DEF NInv, Born, TInv, TypeOK
<1>3. CASE Notify(e)
  <2>1. /\ last' = bi[e] /\ log' = Append(log, bi[e]) /\ notifier' = e
        /\ height' = [height EXCEPT ![e] = IF push THEN bi[e] + 1 ELSE bi[e]]
        /\ pc' = [pc EXCEPT ![e] = "serve"] /\ UNCHANGED <<cancel, epoch, push>>
    BY <1>3 DEF Notify, Goto, network
  <2>2. bi[e] \in Nat /\ log \in Seq(Heights) /\ bi[e] \in Heights
    BY <1>3, <1>0, FinalityAssumption DEF NInv, TInv, TypeOK, HoldsFinal, Notify, Heights
  <2>3. log' # <<>> /\ log'[Len(log')] = bi[e]
    BY <2>1, <2>2
  <2>4. LastIsLogged'
    BY <1>0, <2>1, <2>3 DEF LastIsLogged
  <2>5. pc'[e] = "serve" /\ height'[e] = IF push THEN bi[e] + 1 ELSE bi[e]
    BY <1>0, <2>1
  <2>6. GoesOn(e)'
    BY <2>1, <2>2, <2>5 DEF GoesOn
  <2>7. Born'
    BY <1>0, <1>2, <2>1 DEF NInv, Born
  <2>8. QED BY <1>2, <2>1, <2>4, <2>6, <2>7 DEF NInv, NotifierGoesOn
<1>4. CASE ~ Notify(e)
  <2>1. UNCHANGED <<push, cancel, epoch, last, log, notifier>>
    BY <1>4 DEF Goroutine, Loop, LastOf, LastIsStarted, LastGetLast, LastLatest, LatestFails,
       ServeEnds, ServeFetch, Wake, network, monitorVars, histVars
  <2>2. \A f \in Epochs \ {e} : pc'[f] = pc[f] /\ height'[f] = height[f] /\ bi'[f] = bi[f]
    BY <1>0, <1>4 DEF Goroutine, Loop, LastOf, LastIsStarted, LastGetLast, LastLatest,
       LatestFails, ServeEnds, ServeFetch, Wake, Goto
  <2>3. CASE e # notifier
    BY <1>1, <2>1, <2>2, <2>3, OthersStep
  <2>4. CASE e = notifier
    <3>1. /\ last \in Nat \ {0} /\ last # None /\ height[e] \in Nat
          /\ GoesOn(e) /\ notifier # None
      BY <1>0, <2>4, Notifier DEF NInv, NotifierGoesOn
    <3>2. GoesOn(e)'
      <4>1. CASE Loop(e) \/ ServeEnds(e) \/ Wake(e) \/ LatestFails(e)
        <5>1. pc'[e] \in {"done", "last", "sleep", "loop", "idle"}
          BY <1>0, <4>1 DEF Loop, ServeEnds, Wake, LatestFails, Failed, Goto
        <5>2. QED BY <5>1 DEF GoesOn
      <4>2. CASE LastIsStarted(e)
        <5>1. pc'[e] = IF cancel # None THEN "getLast" ELSE "latest"
          BY <1>0, <4>2 DEF LastIsStarted, _isStarted, Goto
        <5>2. QED BY <1>0, <2>1, <5>1 DEF GoesOn, Cancelled
      <4>3. CASE LastGetLast(e)
        <5>1. pc'[e] = "serve" /\ height'[e] = last
          BY <1>0, <3>1, <4>3 DEF LastGetLast, Returned, Goto
        <5>2. QED BY <2>1, <3>1, <5>1 DEF GoesOn
      <4>4. CASE LastLatest(e)
        <5>1. pc'[e] = "serve" /\ pc[e] = "latest"
          BY <1>0, <4>4 DEF LastLatest, Returned, Goto
        <5>2. QED BY <2>1, <3>1, <5>1 DEF GoesOn, Cancelled
      <4>5. CASE ServeFetch(e)
        <5>1. PICK h \in Handover(e) : bi' = [bi EXCEPT ![e] = h]
          BY <4>5 DEF ServeFetch
        <5>2. pc[e] = "serve" /\ ~ Cancelled(e) /\ pc'[e] = "notify" /\ bi'[e] = h
          BY <1>0, <4>5, <5>1 DEF ServeFetch, Goto
        <5>3. IF push THEN height[e] \in {last, last + 1} ELSE height[e] >= last
          BY <3>1, <5>2 DEF GoesOn
        <5>4. final \in Nat
          BY ThreadFacts DEF NInv, TInv, TypeOK
        <5>5. InOrder(last, h)
          BY <3>1, <5>1, <5>3, <5>4 DEF InOrder, Handover
        <5>6. InOrder(last, bi[e])'
          BY <2>1, <5>2, <5>5 DEF InOrder
        <5>7. QED BY <5>2, <5>6 DEF GoesOn
      <4>6. QED BY <1>4, <4>1, <4>2, <4>3, <4>4, <4>5 DEF Goroutine, LastOf
    <3>3. Born' /\ LastIsLogged'
      BY <1>0, <1>1, <1>2, <2>1, <2>2 DEF NInv, Born, LastIsLogged
    <3>4. QED BY <1>2, <2>1, <2>4, <3>2, <3>3 DEF NInv, NotifierGoesOn
  <2>5. QED BY <2>3, <2>4
<1>5. QED BY <1>3, <1>4

LEMMA NStep == NInv /\ [Next]_vars => NInv'
<1> SUFFICES ASSUME NInv, [Next]_vars PROVE NInv'
  OBVIOUS
<1>0. TInv'
  BY TStep DEF NInv
<1>1. CASE User
  BY <1>0, <1>1, NUser
<1>2. CASE \E e \in Epochs : Goroutine(e)
  BY <1>0, <1>2, NGoroutine
<1>3. ASSUME NEW q \in Queries, Query(q) PROVE NInv'
  <2>1. UNCHANGED <<push, cancel, epoch, last, log, notifier, bi>>
    BY <1>3 DEF Query, Ask, Answer, LastOf, LastIsStarted, LastGetLast, LastLatest,
       LatestFails, network, monitorVars, histVars
  <2>2. pc \in [Threads -> Labels] /\ height \in [Threads -> Nat]
    BY DEF NInv, TInv, TypeOK
  <2>3. \A e \in Epochs : pc'[e] = pc[e] /\ height'[e] = height[e]
    BY <1>3, <2>2, ThreadFacts DEF Query, Ask, Answer, LastOf, LastIsStarted, LastGetLast,
       LastLatest, LatestFails, Goto
  <2>4. QED BY <1>0, <2>1, <2>3, OthersStep
<1>4. CASE Finalize \/ UNCHANGED vars
  BY <1>0, <1>4, OthersStep DEF Finalize, vars, network, monitorVars, threadVars, histVars
<1>5. QED BY <1>1, <1>2, <1>3, <1>4 DEF Next

\* What the goroutine of one start passes on goes strictly up when it polls, and repeats
\* or goes up by one when the node pushes, over any failures and sleeps in between, and
\* whatever goroutines of other starts do to m.last meanwhile: a goroutine that was
\* cancelled is the only one that could ask the network anew while m.last is set
\* (_start and notify of contract/monitor.go, Serve of either supplier).
THEOREM OneServerInOrder == Spec => SameServerOrder
<1> DEFINE Ordered == log' # log /\ notifier' = notifier
                        => InOrder(log[Len(log)], log'[Len(log')])
<1>1. Init => NInv
  BY TInit, ThreadFacts DEF Init, NInv, Born, LastIsLogged, NotifierGoesOn
<1>2. NInv /\ [Next]_vars => Ordered
  <2> SUFFICES ASSUME NInv, [Next]_vars, log' # log, notifier' = notifier
               PROVE  InOrder(log[Len(log)], log'[Len(log')])
    OBVIOUS
  <2>1. PICK e \in Epochs : Notify(e)
    BY DEF Next, User, Start, Stop, Subscribe, Unsubscribe, Receive, Goroutine, Query, Ask,
       Answer, LastOf, LastIsStarted, LastGetLast, LastLatest, LatestFails, Loop, ServeEnds,
       ServeFetch, Wake, Finalize, vars, histVars
  <2>2. notifier = e /\ pc[e] = "notify" /\ log' = Append(log, bi[e]) /\ notifier # None
    BY <2>1, ThreadFacts DEF Notify
  <2>3. InOrder(last, bi[e]) /\ last = log[Len(log)]
    BY <2>2, Notifier DEF NInv, NotifierGoesOn, GoesOn
  <2>4. log \in Seq(Heights) /\ bi[e] \in Heights
    BY <2>1, FinalityAssumption DEF NInv, TInv, TypeOK, HoldsFinal, Notify, Heights
  <2>5. log'[Len(log')] = bi[e]
    BY <2>2, <2>4
  <2>6. QED BY <2>3, <2>5
<1>3. NInv /\ [Next]_vars => [Ordered]_vars
  BY <1>2
<1> HIDE DEF Ordered
<1>4. Spec => [][Ordered]_vars
  BY <1>1, <1>3, NStep, PTL DEF Spec
<1>5. QED BY <1>4 DEF SameServerOrder, Ordered

-----------------------------------------------------------------------------
(***************************************************************************)
(* The composition with its consumers.  What the consumers and the client  *)
(* do are steps of the monitor, so that the composition has all its        *)
(* properties; and a consumer never meets an "invalid FinalityMonitor      *)
(* state" as long as the monitor was started once.                         *)
(***************************************************************************)

Places == {"subscribe", "wait", "finalize", "asked"}

ConsumerTypes ==
  /\ loop \in [Queries -> Places]
  /\ sub \in [Queries -> Subs \cup {None}]
  /\ upTo \in [Queries -> 0..MaxHeight]
  /\ \A c \in Queries : loop[c] # "subscribe" => sub[c] \in Subs

\* A consumer asks only in its loop.
AsksInLoop == \A c \in Queries : loop[c] # "asked" => pc[c] = "idle"

\* No block on its way to a subscriber is higher than m.last.
SentBelow ==
  \A s \in Subs : \A i \in 1..Len(chan[s].buf) : last # None /\ chan[s].buf[i] <= last

\* A goroutine never lowers m.last.
ServesAbove ==
  \A e \in Epochs : last # None =>
    /\ pc[e] = "serve" => height[e] >= last
    /\ pc[e] = "notify" => bi[e] >= last

\* The block of a consumer is not above m.last, and what it asks about not above
\* its block.
AsksBelow ==
  \A c \in Queries :
    /\ loop[c] \in {"finalize", "asked"} => last # None /\ upTo[c] <= last
    /\ loop[c] = "asked" =>
         /\ ask[c].height <= upTo[c] /\ answer[c] # "false"
         /\ pc[c] = "compare" => upTo[c] <= height[c]

OneStart == SentBelow /\ ServesAbove /\ AsksBelow

CInv == TInv /\ ConsumerTypes /\ Born /\ AsksInLoop /\ (epoch <= 1 => OneStart)

-----------------------------------------------------------------------------
(* The composition takes steps of the monitor.                             *)

LEMMA ConsumerSteps ==
  ASSUME TInv, ConsumerTypes, NEW c \in Queries, Consumer(c)
  PROVE  [Next]_vars
<1>1. CASE DoSubscribe(c)
  BY <1>1 DEF DoSubscribe, Next, User
<1>2. CASE SeesClosed(c) \/ Resumes(c) \/ NothingToFinalize(c) \/ Restarts(c)
  BY <1>2 DEF SeesClosed, Resumes, NothingToFinalize, Restarts
<1>3. CASE TakesBlock(c)
  <2>1. sub[c] \in Subs
    BY <1>3 DEF TakesBlock, ConsumerTypes
  <2>2. QED BY <1>3, <2>1 DEF TakesBlock, Next, User
<1>4. CASE Finalizes(c)
  <2>1. PICK h \in AsksUpTo(c) : \E onChain \in BOOLEAN : Ask(c, h, onChain)
    BY <1>4 DEF Finalizes
  <2>2. h \in Heights
    BY <2>1, FinalityAssumption DEF AsksUpTo, ConsumerTypes, Heights
  <2>3. QED BY <2>1, <2>2 DEF Next, Query
<1>5. CASE Asked(c)
  BY <1>5 DEF Asked, Next, Query
<1>6. QED BY <1>1, <1>2, <1>3, <1>4, <1>5 DEF Consumer

LEMMA CompositionSteps ==
  ASSUME TInv, ConsumerTypes, [NextC]_allVars
  PROVE  [Next]_vars
<1>1. CASE Monitor
  BY <1>1 DEF Monitor, Next
<1>2. CASE Client
  BY <1>2, ConsumerAssumption DEF Client, Next, User
<1>3. CASE \E c \in Queries : Consumer(c)
  BY <1>3, ConsumerSteps
<1>4. CASE UNCHANGED allVars
  BY <1>4 DEF allVars
<1>5. QED BY <1>1, <1>2, <1>3, <1>4 DEF NextC

LEMMA ConsumerTypesStep ==
  ASSUME TInv, ConsumerTypes, [NextC]_allVars
  PROVE  ConsumerTypes'
<1>1. CASE Monitor \/ Client \/ UNCHANGED allVars
  BY <1>1 DEF Monitor, Client, allVars, consumerVars, ConsumerTypes
<1>2. ASSUME NEW c \in Queries, Consumer(c) PROVE ConsumerTypes'
  <2>1. CASE DoSubscribe(c)
    BY <2>1 DEF DoSubscribe, Go, ConsumerTypes, Places
  <2>2. CASE SeesClosed(c) \/ Resumes(c) \/ NothingToFinalize(c) \/ Restarts(c)
    <3>1. /\ UNCHANGED <<sub, upTo>> /\ loop[c] # "subscribe"
          /\ \E l \in Places : loop' = [loop EXCEPT ![c] = l]
      BY <2>2 DEF SeesClosed, Resumes, NothingToFinalize, Restarts, Go, Places
    <3>2. QED BY <3>1 DEF ConsumerTypes
  <2>3. CASE TakesBlock(c)
    <3>1. sub[c] \in Subs /\ Head(chan[sub[c]].buf) \in 0..MaxHeight
      <4>1. sub[c] \in Subs /\ chan[sub[c]].buf # <<>>
        BY <2>3 DEF TakesBlock, ConsumerTypes, Receive
      <4>2. chan[sub[c]].buf \in Seq(Heights)
        BY <4>1 DEF TInv, TypeOK
      <4>3. Head(chan[sub[c]].buf) \in Heights
        BY <4>1, <4>2
      <4>4. QED BY <4>1, <4>3, FinalityAssumption DEF Heights
    <3>2. QED BY <2>3, <3>1 DEF TakesBlock, Go, ConsumerTypes, Places
  <2>4. CASE Finalizes(c)
    BY <2>4 DEF Finalizes, Go, ConsumerTypes, Places
  <2>5. CASE Asked(c)
    BY <2>5 DEF Asked, consumerVars, ConsumerTypes
  <2>6. QED BY <1>2, <2>1, <2>2, <2>3, <2>4, <2>5 DEF Consumer
<1>3. QED BY <1>1, <1>2 DEF NextC

-----------------------------------------------------------------------------
(* What the steps of the monitor keep.                                     *)

Rises == last # None => last' # None /\ last' \in Nat /\ last' >= last

QueriesKept == /\ UNCHANGED <<ask, answer>>
               /\ \A q \in Queries : pc'[q] = pc[q] /\ height'[q] = height[q]

MonitorKeeps == /\ Born' /\ epoch' \in Nat /\ epoch' >= epoch /\ Rises /\ QueriesKept
                /\ (epoch' <= 1 => SentBelow' /\ ServesAbove')

LEMMA KeepsGoroutine ==
  ASSUME CInv, NEW e \in Epochs, Goroutine(e), ~ Notify(e)
  PROVE  MonitorKeeps
<1>1. TypeOK /\ HoldsFinal /\ Born /\ (epoch <= 1 => SentBelow /\ ServesAbove)
  BY DEF CInv, TInv, OneStart
<1>2. UNCHANGED <<epoch, last, chan, ask, answer>>
  BY DEF Goroutine, Loop, LastOf, LastIsStarted, LastGetLast, LastLatest, LatestFails,
         ServeEnds, ServeFetch, Wake, monitorVars, queryVars
<1>3. /\ \A t \in Threads \ {e} : pc'[t] = pc[t] /\ height'[t] = height[t]
      /\ \A d \in Epochs \ {e} : bi'[d] = bi[d]
      /\ pc[e] # "unborn"
  BY <1>1, ThreadFacts DEF Goroutine, Loop, LastOf, LastIsStarted, LastGetLast, LastLatest,
         LatestFails, ServeEnds, ServeFetch, Wake, Goto, TypeOK
<1>4. last # None => /\ pc'[e] = "serve" => height'[e] >= last
                     /\ pc'[e] = "notify" /\ epoch <= 1 => bi'[e] >= last
  <2>1. CASE Loop(e) \/ ServeEnds(e) \/ Wake(e) \/ LastIsStarted(e) \/ LatestFails(e)
    <3>1. pc'[e] \notin {"serve", "notify"}
      BY <1>1, <2>1, ThreadFacts DEF Loop, ServeEnds, Wake, LastIsStarted, LatestFails, Failed,
                                     Goto, TypeOK
    <3>2. QED BY <3>1
  <2>2. CASE LastGetLast(e)
    <3>1. last # None => height'[e] = last
      BY <1>1, <2>2, ThreadFacts DEF LastGetLast, TypeOK
    <3>2. pc'[e] # "notify" /\ (last # None => last \in Nat)
      BY <1>1, <2>2, ThreadFacts DEF LastGetLast, Returned, Goto, TypeOK
    <3>3. QED BY <3>1, <3>2
  <2>3. CASE LastLatest(e)
    <3>1. height'[e] = final /\ pc'[e] # "notify" /\ final \in Nat
      BY <1>1, <2>3, ThreadFacts DEF LastLatest, Returned, Goto, TypeOK
    <3>2. last # None => last <= final /\ last \in Nat
      BY <1>1, ThreadFacts DEF HoldsFinal, TypeOK
    <3>3. QED BY <3>1, <3>2
  <2>4. CASE ServeFetch(e)
    <3>1. pc[e] = "serve" /\ pc'[e] = "notify"
      BY <1>1, <2>4, ThreadFacts DEF ServeFetch, Goto, TypeOK
    <3>2. bi'[e] \in Nat /\ height[e] \in Nat /\ bi'[e] >= height[e]
      <4>1. PICK h \in Handover(e) : bi' = [bi EXCEPT ![e] = h]
        BY <2>4 DEF ServeFetch
      <4>2. h \in Nat /\ h >= height[e] /\ height[e] \in Nat
        BY <1>1, <4>1, ThreadFacts DEF Handover, TypeOK
      <4>3. QED BY <1>1, <4>1, <4>2 DEF TypeOK
    <3>3. last # None /\ epoch <= 1 => height[e] >= last /\ last \in Nat
      BY <1>1, <3>1, ThreadFacts DEF ServesAbove, TypeOK
    <3>4. QED BY <3>1, <3>2, <3>3
  <2>5. QED BY <2>1, <2>2, <2>3, <2>4 DEF Goroutine, LastOf
<1>5. Born'
  BY <1>1, <1>2, <1>3, ThreadFacts DEF Born
<1>6. epoch' \in Nat /\ epoch' >= epoch /\ Rises
  BY <1>1, <1>2, ThreadFacts, FinalityAssumption DEF TypeOK, Rises
<1>7. QueriesKept
  BY <1>2, <1>3, ThreadFacts DEF QueriesKept
<1>8. epoch' <= 1 => SentBelow' /\ ServesAbove'
  <2>1. SUFFICES ASSUME epoch <= 1 PROVE SentBelow' /\ ServesAbove'
    BY <1>2
  <2>2. SentBelow'
    BY <1>1, <1>2, <2>1 DEF SentBelow
  <2>3. ServesAbove'
    BY <1>1, <1>2, <1>3, <1>4, <2>1, ThreadFacts DEF ServesAbove
  <2>4. QED BY <2>2, <2>3
<1>9. QED BY <1>5, <1>6, <1>7, <1>8 DEF MonitorKeeps

LEMMA KeepsNotify ==
  ASSUME CInv, NEW e \in Epochs, Notify(e)
  PROVE  epoch <= 1 => MonitorKeeps
<1> SUFFICES ASSUME epoch <= 1 PROVE MonitorKeeps
  OBVIOUS
<1>1. TypeOK /\ HoldsFinal /\ Born /\ SentBelow /\ ServesAbove
  BY DEF CInv, TInv, OneStart
<1>2. PICK b : b = bi[e]
  OBVIOUS
<1>3. b \in Nat /\ b >= 1 /\ b # None
  BY <1>1, <1>2, FinalityAssumption DEF Notify, HoldsFinal, TypeOK
<1>4. /\ last' = b /\ UNCHANGED <<epoch, ask, answer>>
      /\ \A t \in Threads \ {e} : pc'[t] = pc[t] /\ height'[t] = height[t]
      /\ \A d \in Epochs \ {e} : bi'[d] = bi[d]
      /\ pc'[e] = "serve" /\ height'[e] \in {b, b + 1} /\ pc[e] = "notify"
  BY <1>1, <1>2, ThreadFacts DEF Notify, Goto, TypeOK, queryVars
<1>5. last # None => last <= b /\ last \in Nat
  BY <1>1, <1>2, <1>4, ThreadFacts DEF ServesAbove, TypeOK
<1>6. ASSUME NEW s \in Subs
      PROVE  chan'[s].buf = chan[s].buf \/ chan'[s].buf = Append(chan[s].buf, b)
  BY <1>1, <1>2 DEF Notify, Deliver, TypeOK
<1>7. SentBelow'
  <2>1. ASSUME NEW s \in Subs, NEW i \in 1..Len(chan'[s].buf) PROVE chan'[s].buf[i] <= b
    <3>1. /\ chan[s].buf \in Seq(Heights) /\ Len(chan[s].buf) \in Nat
          /\ \A j \in 1..Len(chan[s].buf) : chan[s].buf[j] \in Nat
      <4>1. chan[s].buf \in Seq(Heights)
        BY <1>1 DEF TypeOK
      <4>2. ASSUME NEW j \in 1..Len(chan[s].buf) PROVE chan[s].buf[j] \in Nat
        <5>1. chan[s].buf[j] \in Heights
          BY <4>1
        <5>2. QED BY <5>1, ThreadFacts
      <4>3. QED BY <4>1, <4>2
    <3>2. \A j \in 1..Len(chan[s].buf) : chan[s].buf[j] <= b
      BY <1>1, <1>3, <1>5, <3>1 DEF SentBelow
    <3>3. CASE chan'[s].buf = chan[s].buf
      BY <2>1, <3>2, <3>3
    <3>4. CASE chan'[s].buf = Append(chan[s].buf, b)
      BY <1>3, <2>1, <3>1, <3>2, <3>4
    <3>5. QED BY <1>6, <3>3, <3>4
  <2>2. QED BY <1>3, <1>4, <2>1 DEF SentBelow
<1>8. ASSUME NEW d \in Epochs, d # e PROVE pc[d] = "unborn"
  BY <1>1, <1>4, <1>8, ThreadFacts DEF Born, TypeOK
<1>9. ServesAbove'
  BY <1>3, <1>4, <1>8, ThreadFacts DEF ServesAbove
<1>10. Born' /\ epoch' \in Nat /\ epoch' >= epoch
  BY <1>1, <1>4, ThreadFacts, FinalityAssumption DEF Born, TypeOK
<1>11. Rises /\ QueriesKept
  BY <1>3, <1>4, <1>5, ThreadFacts DEF Rises, QueriesKept
<1>12. QED BY <1>7, <1>9, <1>10, <1>11 DEF MonitorKeeps

LEMMA KeepsUser ==
  ASSUME CInv, NEW s \in Subs, Subscribe(s) \/ Unsubscribe(s) \/ Receive(s)
  PROVE  MonitorKeeps
<1>1. TypeOK /\ Born /\ (epoch <= 1 => SentBelow /\ ServesAbove)
  BY DEF CInv, TInv, OneStart
<1>2. /\ UNCHANGED <<last, height, bi, ask, answer>>
      /\ epoch' \in Nat /\ epoch \in Nat /\ epoch' >= epoch
      /\ \A t \in Threads : pc'[t] = pc[t] \/ (t \in Epochs /\ t <= epoch' /\ pc'[t] = "loop")
  <2>1. CASE Subscribe(s)
    <3>1. UNCHANGED <<last, height, bi, ask, answer>> /\ _start
      BY <2>1 DEF Subscribe, queryVars
    <3>2. CASE _isStarted
      BY <1>1, <3>1, <3>2, FinalityAssumption DEF _start, TypeOK
    <3>3. CASE ~ _isStarted
      <4>1. epoch \in Nat /\ epoch + 1 \in Epochs /\ epoch' = epoch + 1
            /\ pc' = [pc EXCEPT ![epoch + 1] = "loop"]
        BY <1>1, <3>1, <3>3, FinalityAssumption DEF _start, TypeOK, Epochs
      <4>2. QED BY <1>1, <3>1, <4>1 DEF TypeOK
    <3>4. QED BY <3>2, <3>3
  <2>2. CASE Unsubscribe(s)
    BY <1>1, <2>2, FinalityAssumption DEF Unsubscribe, queryVars, threadVars, TypeOK
  <2>3. CASE Receive(s)
    BY <1>1, <2>3, FinalityAssumption DEF Receive, queryVars, threadVars, TypeOK
  <2>4. QED BY <2>1, <2>2, <2>3
<1>3. ASSUME NEW r \in Subs
      PROVE  \/ chan'[r].buf = chan[r].buf \/ chan'[r].buf = <<>>
             \/ chan[r].buf # <<>> /\ chan'[r].buf = Tail(chan[r].buf)
  <2>1. chan \in [Subs -> [status : Status, buf : Seq(Heights)]]
    BY <1>1 DEF TypeOK
  <2>2. CASE Subscribe(s)
    BY <2>1, <2>2 DEF Subscribe
  <2>3. CASE Unsubscribe(s)
    BY <2>1, <2>3 DEF Unsubscribe, _remove
  <2>4. CASE Receive(s)
    BY <2>1, <2>4 DEF Receive
  <2>5. QED BY <2>2, <2>3, <2>4
<1>4. SentBelow => SentBelow'
  <2>1. SUFFICES ASSUME SentBelow PROVE SentBelow'
    OBVIOUS
  <2>2. ASSUME NEW r \in Subs, NEW i \in 1..Len(chan'[r].buf)
        PROVE  last # None /\ chan'[r].buf[i] <= last
    <3>1. chan[r].buf \in Seq(Heights)
      BY <1>1 DEF TypeOK
    <3>2. CASE chan'[r].buf = chan[r].buf
      BY <2>1, <2>2, <3>2 DEF SentBelow
    <3>3. CASE chan'[r].buf = <<>>
      BY <2>2, <3>3
    <3>4. CASE chan[r].buf # <<>> /\ chan'[r].buf = Tail(chan[r].buf)
      <4>1. i + 1 \in 1..Len(chan[r].buf) /\ chan'[r].buf[i] = chan[r].buf[i + 1]
        BY <2>2, <3>1, <3>4
      <4>2. QED BY <2>1, <4>1 DEF SentBelow
    <3>5. QED BY <1>3, <3>2, <3>3, <3>4
  <2>3. QED BY <1>2, <2>2 DEF SentBelow
<1>5. ServesAbove => ServesAbove'
  BY <1>2, ThreadFacts DEF ServesAbove
<1>6. Born'
  BY <1>1, <1>2, ThreadFacts DEF Born
<1>7. Rises /\ QueriesKept
  BY <1>1, <1>2, ThreadFacts DEF Rises, QueriesKept, TypeOK
<1>8. epoch' <= 1 => epoch <= 1
  BY <1>2
<1>9. QED BY <1>1, <1>2, <1>4, <1>5, <1>6, <1>7, <1>8 DEF MonitorKeeps

-----------------------------------------------------------------------------
(* What the consumers keep.                                                *)

LEMMA AsksKept ==
  ASSUME CInv, MonitorKeeps, UNCHANGED consumerVars
  PROVE  AsksInLoop' /\ (epoch' <= 1 => AsksBelow')
<1>1. AsksInLoop'
  BY DEF CInv, AsksInLoop, MonitorKeeps, QueriesKept, consumerVars
<1>2. ASSUME epoch' <= 1, NEW c \in Queries, loop[c] \in {"finalize", "asked"}
      PROVE  /\ last' # None /\ upTo[c] <= last'
             /\ loop[c] = "asked" =>
                  /\ ask'[c].height <= upTo[c] /\ answer'[c] # "false"
                  /\ pc'[c] = "compare" => upTo[c] <= height'[c]
  <2>1. epoch \in Nat /\ epoch' >= epoch /\ epoch <= 1
    <3>1. epoch \in Nat /\ epoch' \in Nat /\ epoch' >= epoch
      BY FinalityAssumption DEF CInv, TInv, TypeOK, MonitorKeeps
    <3>2. QED BY <1>2, <3>1, FinalityAssumption
  <2>2. AsksBelow
    BY <2>1 DEF CInv, OneStart
  <2>3. last # None /\ upTo[c] <= last /\ last' # None /\ last' >= last /\ last' \in Nat
    BY <1>2, <2>2 DEF AsksBelow, MonitorKeeps, Rises
  <2>4. last \in Nat /\ upTo[c] \in Nat
    BY <2>3, ThreadFacts DEF CInv, TInv, TypeOK, ConsumerTypes
  <2>5. QED BY <1>2, <2>2, <2>3, <2>4 DEF AsksBelow, MonitorKeeps, QueriesKept
<1>3. QED BY <1>1, <1>2 DEF AsksBelow, consumerVars

LEMMA CInvKept ==
  ASSUME CInv, [NextC]_allVars, MonitorKeeps, AsksInLoop', epoch' <= 1 => AsksBelow'
  PROVE  CInv'
<1>1. TInv' /\ ConsumerTypes'
  BY CompositionSteps, TStep, ConsumerTypesStep DEF CInv
<1>2. QED BY <1>1 DEF CInv, OneStart, MonitorKeeps

\* A step of a consumer's loop.
LEMMA LoopSteps ==
  ASSUME CInv, NEW c \in Queries, MonitorKeeps,
         DoSubscribe(c) \/ SeesClosed(c) \/ TakesBlock(c) \/ Resumes(c)
           \/ NothingToFinalize(c) \/ Restarts(c)
  PROVE  AsksInLoop' /\ (epoch' <= 1 => AsksBelow')
<1>1. /\ loop \in [Queries -> Places] /\ upTo \in [Queries -> 0..MaxHeight]
      /\ AsksInLoop /\ TypeOK
  BY DEF CInv, TInv, ConsumerTypes
<1>2. /\ \A d \in Queries \ {c} : loop'[d] = loop[d] /\ upTo'[d] = upTo[d]
      /\ loop'[c] \in {"subscribe", "wait", "finalize"}
      /\ UNCHANGED ask
      /\ \/ loop'[c] # "finalize"
         \/ loop'[c] = "finalize" /\ loop[c] = "asked" /\ upTo'[c] = upTo[c]
         \/ loop'[c] = "finalize" /\ TakesBlock(c)
  BY <1>1 DEF DoSubscribe, SeesClosed, TakesBlock, Resumes, NothingToFinalize, Restarts, Go,
              MonitorKeeps, QueriesKept
<1>3. /\ \A q \in Queries : /\ pc'[q] = pc[q] /\ height'[q] = height[q]
                            /\ answer'[q] = answer[q]
  BY DEF MonitorKeeps, QueriesKept
<1>4. pc[c] = "idle"
  BY <1>1 DEF DoSubscribe, SeesClosed, TakesBlock, Resumes, NothingToFinalize, Restarts,
              AsksInLoop
<1>5. AsksInLoop'
  BY <1>1, <1>2, <1>3, <1>4 DEF AsksInLoop
<1>6. ASSUME epoch' <= 1 PROVE AsksBelow'
  <2>1. epoch \in Nat /\ epoch' \in Nat /\ epoch' >= epoch
    BY <1>1, FinalityAssumption DEF TypeOK, MonitorKeeps
  <2>2. AsksBelow /\ SentBelow
    BY <1>6, <2>1 DEF CInv, OneStart
  <2>3. ASSUME last # None PROVE last' # None /\ last' >= last /\ last \in Nat /\ last' \in Nat
    BY <1>1, <2>3, ThreadFacts DEF MonitorKeeps, Rises, TypeOK
  <2>4. ASSUME NEW d \in Queries, d # c, loop'[d] \in {"finalize", "asked"}
        PROVE  /\ last' # None /\ upTo'[d] <= last'
               /\ loop'[d] = "asked" =>
                    /\ ask'[d].height <= upTo'[d] /\ answer'[d] # "false"
                    /\ pc'[d] = "compare" => upTo'[d] <= height'[d]
    <3>1. last # None /\ upTo[d] <= last /\ upTo[d] \in Nat
      BY <1>1, <1>2, <2>2, <2>4 DEF AsksBelow
    <3>2. upTo'[d] = upTo[d] /\ loop'[d] = loop[d]
      BY <1>2, <2>4
    <3>3. last' # None /\ upTo'[d] <= last'
      BY <2>3, <3>1, <3>2
    <3>4. QED BY <1>2, <1>3, <2>2, <2>4, <3>2, <3>3 DEF AsksBelow
  <2>5. ASSUME loop'[c] = "finalize" PROVE last' # None /\ upTo'[c] <= last'
    <3>1. CASE loop[c] = "asked" /\ upTo'[c] = upTo[c]
      <4>1. last # None /\ upTo[c] <= last /\ upTo[c] \in Nat
        BY <1>1, <2>2, <3>1 DEF AsksBelow
      <4>2. QED BY <2>3, <3>1, <4>1
    <3>2. CASE TakesBlock(c)
      <4>1. sub[c] \in Subs /\ chan[sub[c]].buf # <<>>
        BY <3>2 DEF TakesBlock, CInv, ConsumerTypes, Receive
      <4>2. chan[sub[c]].buf \in Seq(Heights)
        BY <1>1, <4>1 DEF TypeOK
      <4>3. /\ 1 \in 1..Len(chan[sub[c]].buf)
            /\ Head(chan[sub[c]].buf) = chan[sub[c]].buf[1]
        BY <4>1, <4>2
      <4>4. last # None /\ Head(chan[sub[c]].buf) <= last
        BY <2>2, <4>1, <4>3 DEF SentBelow
      <4>5. Head(chan[sub[c]].buf) \in Nat
        <5>1. Head(chan[sub[c]].buf) \in Heights
          BY <4>1, <4>2
        <5>2. QED BY <5>1, ThreadFacts
      <4>6. upTo'[c] = Head(chan[sub[c]].buf)
        BY <1>1, <3>2 DEF TakesBlock
      <4>7. QED BY <2>3, <4>4, <4>5, <4>6
    <3>3. QED BY <1>2, <2>5, <3>1, <3>2
  <2>6. QED BY <1>2, <2>4, <2>5 DEF AsksBelow
<1>7. QED BY <1>5, <1>6

\* A step of one of its queries.
LEMMA QuerySteps ==
  ASSUME CInv, NEW c \in Queries, Finalizes(c) \/ Asked(c)
  PROVE  /\ Born' /\ epoch' \in Nat /\ AsksInLoop'
         /\ epoch' <= 1 => OneStart'
<1>1. TypeOK /\ HoldsFinal /\ Born /\ AsksInLoop /\ ConsumerTypes
  BY DEF CInv, TInv
<1>2. /\ UNCHANGED <<epoch, last, chan, bi, upTo, final>>
      /\ \A t \in Threads \ {c} : pc'[t] = pc[t] /\ height'[t] = height[t]
      /\ \A d \in Queries \ {c} : /\ ask'[d] = ask[d] /\ answer'[d] = answer[d]
                                  /\ loop'[d] = loop[d]
      /\ loop'[c] = "asked" /\ loop[c] \in {"finalize", "asked"}
  BY <1>1, ThreadFacts DEF Finalizes, Asked, Ask, LastOf, LastIsStarted, LastGetLast,
         LastLatest, LatestFails, Answer, Go, Goto, monitorVars, queryVars, consumerVars,
         TypeOK, ConsumerTypes, network
<1>3. Born'
  BY <1>1, <1>2, ThreadFacts DEF Born
<1>4. AsksInLoop'
  BY <1>1, <1>2, ThreadFacts DEF AsksInLoop
<1>5. epoch' \in Nat
  BY <1>1, <1>2, FinalityAssumption DEF TypeOK
<1>6. ASSUME epoch <= 1 PROVE OneStart'
  <2>1. SentBelow /\ ServesAbove /\ AsksBelow
    BY <1>6 DEF CInv, OneStart
  <2>2. SentBelow'
    BY <1>2, <2>1 DEF SentBelow
  <2>3. ServesAbove'
    BY <1>2, <2>1, ThreadFacts DEF ServesAbove
  <2>4. last # None /\ upTo[c] <= last /\ last \in Nat /\ upTo[c] \in Nat
    BY <1>1, <1>2, <2>1, ThreadFacts DEF AsksBelow, TypeOK, ConsumerTypes
  <2>5. /\ ask'[c].height <= upTo[c] /\ answer'[c] # "false"
        /\ pc'[c] = "compare" => upTo[c] <= height'[c]
    <3>1. CASE Finalizes(c)
      <4>1. PICK h \in AsksUpTo(c) : \E onChain \in BOOLEAN : Ask(c, h, onChain)
        BY <3>1 DEF Finalizes
      <4>2. /\ ask'[c].height = h /\ answer'[c] = "none" /\ pc'[c] = "last"
        BY <1>1, <4>1, ThreadFacts DEF Ask, Goto, TypeOK
      <4>3. QED BY <2>4, <4>1, <4>2 DEF AsksUpTo
    <3>2. CASE Asked(c)
      <4>1. loop[c] = "asked" /\ ask' = ask
        BY <3>2 DEF Asked, LastOf, LastIsStarted, LastGetLast, LastLatest, LatestFails, Answer,
                    queryVars
      <4>2. /\ ask[c].height <= upTo[c] /\ answer[c] # "false"
            /\ pc[c] = "compare" => upTo[c] <= height[c]
        BY <2>1, <4>1 DEF AsksBelow
      <4>3. ask[c].height \in Nat /\ height[c] \in Nat
        BY <1>1, ThreadFacts DEF TypeOK
      <4>4. CASE LastIsStarted(c) \/ LatestFails(c)
        <5>1. answer' = answer /\ pc'[c] # "compare"
          BY <1>1, <4>4, ThreadFacts DEF LastIsStarted, LatestFails, Failed, Goto, queryVars, TypeOK
        <5>2. QED BY <4>1, <4>2, <5>1
      <4>5. CASE LastGetLast(c)
        <5>1. answer' = answer /\ height'[c] = last
          BY <1>1, <2>4, <4>5, ThreadFacts DEF LastGetLast, queryVars, TypeOK
        <5>2. QED BY <2>4, <4>1, <4>2, <5>1
      <4>6. CASE LastLatest(c)
        <5>1. answer' = answer /\ height'[c] = final
          BY <1>1, <4>6, ThreadFacts DEF LastLatest, queryVars, TypeOK
        <5>2. last <= final /\ final \in Nat
          BY <1>1, <2>4, ThreadFacts DEF HoldsFinal, TypeOK
        <5>3. QED BY <2>4, <4>1, <4>2, <5>1, <5>2
      <4>7. CASE Answer(c)
        <5>1. pc[c] = "compare" /\ pc'[c] = "idle"
          BY <1>1, <4>7, ThreadFacts DEF Answer, Goto, TypeOK
        <5>2. ~ (ask[c].height > height[c])
          BY <2>4, <4>2, <4>3, <5>1
        <5>3. "false" \notin Verdicts(c)
          BY <5>2 DEF Verdicts
        <5>4. answer'[c] \in Verdicts(c)
          BY <1>1, <4>7 DEF Answer, TypeOK
        <5>5. QED BY <4>1, <4>2, <5>1, <5>3, <5>4
      <4>8. QED BY <3>2, <4>4, <4>5, <4>6, <4>7 DEF Asked, LastOf
    <3>3. QED BY <3>1, <3>2
  <2>6. AsksBelow'
    BY <1>2, <2>1, <2>4, <2>5, ThreadFacts DEF AsksBelow
  <2>7. QED BY <2>2, <2>3, <2>6 DEF OneStart
<1>7. QED BY <1>2, <1>3, <1>4, <1>5, <1>6

LEMMA CInit == InitC => CInv
<1> SUFFICES ASSUME InitC PROVE CInv
  OBVIOUS
<1>1. Init /\ TInv
  BY TInit DEF InitC
<1>2. ConsumerTypes
  BY FinalityAssumption DEF InitC, ConsumerTypes, Places
<1>3. Born /\ AsksInLoop
  BY <1>1, ThreadFacts DEF Init, InitC, Born, AsksInLoop
<1>4. SentBelow /\ ServesAbove /\ AsksBelow
  BY <1>1 DEF Init, InitC, SentBelow, ServesAbove, AsksBelow
<1>5. QED BY <1>1, <1>2, <1>3, <1>4 DEF CInv, OneStart

LEMMA NothingKept ==
  ASSUME CInv, UNCHANGED <<epoch, last, chan, pc, height, bi, ask, answer>>
  PROVE  MonitorKeeps
<1>1. UNCHANGED <<epoch, last, chan, pc, height, bi, ask, answer>>
  OBVIOUS
<1>2. Born /\ (epoch <= 1 => SentBelow /\ ServesAbove) /\ TypeOK
  BY DEF CInv, OneStart, TInv
<1>3. Born' /\ QueriesKept
  BY <1>1, <1>2 DEF Born, QueriesKept
<1>4. epoch' \in Nat /\ epoch' >= epoch /\ Rises
  BY <1>1, <1>2, FinalityAssumption, ThreadFacts DEF Rises, TypeOK
<1>5. epoch' <= 1 => SentBelow' /\ ServesAbove'
  BY <1>1, <1>2 DEF SentBelow, ServesAbove
<1>6. QED BY <1>3, <1>4, <1>5 DEF MonitorKeeps

LEMMA CStep == CInv /\ [NextC]_allVars => CInv'
<1> SUFFICES ASSUME CInv, [NextC]_allVars PROVE CInv'
  OBVIOUS
<1>1. ASSUME MonitorKeeps, UNCHANGED consumerVars PROVE CInv'
  BY <1>1, AsksKept, CInvKept
<1>2. CASE Monitor
  <2>1. CASE Finalize
    <3>1. UNCHANGED <<epoch, last, chan, pc, height, bi, ask, answer>>
      BY <2>1 DEF Finalize, monitorVars, threadVars, queryVars
    <3>2. QED BY <1>1, <1>2, <3>1, NothingKept DEF Monitor
  <2>2. ASSUME NEW e \in Epochs, Goroutine(e) PROVE CInv'
    <3>1. CASE ~ Notify(e)
      BY <1>1, <1>2, <2>2, <3>1, KeepsGoroutine DEF Monitor
    <3>2. CASE Notify(e) /\ epoch <= 1
      BY <1>1, <1>2, <3>2, KeepsNotify DEF Monitor
    <3>3. CASE Notify(e) /\ ~ (epoch <= 1)
      <4>1. TInv' /\ ConsumerTypes'
        BY CompositionSteps, TStep, ConsumerTypesStep DEF CInv
      <4>2. /\ UNCHANGED epoch /\ UNCHANGED consumerVars
            /\ \A t \in Threads \ {e} : pc'[t] = pc[t]
            /\ pc[e] = "notify"
        BY <1>2, <3>3 DEF Monitor, Notify, Goto, CInv, TInv, TypeOK
      <4>3. Born' /\ AsksInLoop'
        BY <4>2, ThreadFacts DEF CInv, Born, AsksInLoop, consumerVars
      <4>4. QED BY <3>3, <4>1, <4>2, <4>3 DEF CInv
    <3>4. QED BY <3>1, <3>2, <3>3
  <2>3. QED BY <1>2, <2>1, <2>2 DEF Monitor
<1>3. CASE Client
  BY <1>1, <1>3, KeepsUser, ConsumerAssumption DEF Client
<1>4. ASSUME NEW c \in Queries, Consumer(c) PROVE CInv'
  <2>1. CASE Finalizes(c) \/ Asked(c)
    <3>1. TInv' /\ ConsumerTypes'
      BY CompositionSteps, TStep, ConsumerTypesStep DEF CInv
    <3>2. QED BY <2>1, <3>1, QuerySteps DEF CInv
  <2>2. CASE ~ (Finalizes(c) \/ Asked(c))
    <3>1. MonitorKeeps
      <4>1. CASE DoSubscribe(c)
        BY <4>1, KeepsUser DEF DoSubscribe
      <4>2. CASE TakesBlock(c)
        <5>1. sub[c] \in Subs
          BY <4>2 DEF TakesBlock, CInv, ConsumerTypes
        <5>2. QED BY <4>2, <5>1, KeepsUser DEF TakesBlock
      <4>3. CASE SeesClosed(c) \/ Resumes(c) \/ NothingToFinalize(c) \/ Restarts(c)
        <5>1. UNCHANGED <<epoch, last, chan, pc, height, bi, ask, answer>>
          BY <4>3 DEF SeesClosed, Resumes, NothingToFinalize, Restarts, vars, monitorVars,
                      threadVars, queryVars
        <5>2. QED BY <5>1, NothingKept
      <4>4. QED BY <1>4, <2>2, <4>1, <4>2, <4>3 DEF Consumer
    <3>2. AsksInLoop' /\ (epoch' <= 1 => AsksBelow')
      BY <1>4, <2>2, <3>1, LoopSteps DEF Consumer
    <3>3. QED BY <3>1, <3>2, CInvKept
  <2>3. QED BY <2>1, <2>2
<1>5. CASE UNCHANGED allVars
  <2>1. UNCHANGED <<epoch, last, chan, pc, height, bi, ask, answer>>
    BY <1>5 DEF allVars, vars, monitorVars, threadVars, queryVars
  <2>2. QED BY <1>1, <1>5, <2>1, NothingKept DEF allVars
<1>6. QED BY <1>2, <1>3, <1>4, <1>5 DEF NextC

LEMMA CAlways == SpecC => []CInv
BY CInit, CStep, PTL DEF SpecC

-----------------------------------------------------------------------------
(* The theorems.                                                           *)

\* The consumers and the client are users of the monitor like any others:
\* whatever they do is a behaviour of FinalityMonitor, which so keeps every
\* property it was proved to have (monitorFinality of autocaller/xcall and of
\* tracker/bmc, contract/monitor.go).
THEOREM CompositionIsMonitor == SpecC => Spec
<1>1. InitC => Init
  BY DEF InitC
<1>2. CInv /\ [NextC]_allVars => [Next]_vars
  BY CompositionSteps DEF CInv
<1>3. QED BY <1>1, <1>2, CAlways, PTL DEF SpecC, Spec

\* The consumers are told "final" and "not found" only of heights that are
\* final (AnswersSound of FinalityMonitor).
THEOREM ConsumersAreToldSoundly == SpecC => []AnswersSound
BY CompositionIsMonitor, SoundAnswers, PTL

\* As long as the monitor was started once, no consumer that was handed a block
\* is then told that a record up to that block is not final yet: it never meets
\* what it logs as an "invalid FinalityMonitor state".
THEOREM StateIsValidUntilRestart == SpecC => []StateIsValidWhileStartedOnce
<1>1. CInv => StateIsValidWhileStartedOnce
  BY DEF CInv, OneStart, AsksBelow, StateIsValidWhileStartedOnce, StateIsValid
<1>2. QED BY <1>1, CAlways, PTL
=============================================================================
