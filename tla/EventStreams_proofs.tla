-------------------------- MODULE EventStreams_proofs --------------------------
(***************************************************************************)
(* Event streams, for every chain, range and caller, whatever fails and    *)
(* whenever: none skips an event, but for what the properties name, and    *)
(* each keeps the promise of EventFeed.                                    *)
(***************************************************************************)
EXTENDS EventStreams, TLAPS, FiniteSetTheorems, FunctionTheorems

-----------------------------------------------------------------------------
(* Polling.                                                                *)

\* What is known without a condition on where the streams begin.
Known == /\ TypeOK
         /\ stored <= head
         /\ \A e \in events : e.height <= head

LEMMA KnownInit == Init => Known
<1> SUFFICES ASSUME Init PROVE Known
  OBVIOUS
<1>1. initHeight \in Nat /\ resume \in {0, 1} /\ head \in 1..(MaxHead + 1)
  BY PollAssumption, StreamAssumption DEF Init, InitStream
<1>2. events = {} /\ logs = {} /\ delivered = {} /\ cut = {}
  BY DEF Init, InitStream
<1>3. stored = 0 /\ head = 1 /\ pc = "start" /\ ranAhead = FALSE
      /\ current = 0 /\ from = 0 /\ to = 0
  BY DEF Init, InitStream
<1>4. TypeOK
  BY <1>1, <1>2, <1>3 DEF TypeOK
<1>5. QED BY <1>2, <1>3, <1>4 DEF Known

LEMMA KnownStep == Known /\ [Next]_vars => Known'
<1> SUFFICES ASSUME Known, [Next]_vars PROVE Known'
  OBVIOUS
<1> USE PollAssumption, StreamAssumption DEF Known, TypeOK, Log
<1>1. CASE Mine
  <2>1. PICK n \in 0..MaxLogs :
          events' = events \cup [height : {head + 1}, index : 1..n]
    BY <1>1 DEF Mine
  <2>2. \A e \in [height : {head + 1}, index : 1..n] : e \in Log /\ e.height <= head + 1
    OBVIOUS
  <2>3. /\ events' \subseteq Log
        /\ \A e \in events' : e.height <= head + 1
    BY <2>1, <2>2
  <2>4. QED BY <1>1, <2>1, <2>3 DEF Mine, caller
<1>2. CASE Begin
  <2>1. ResumeHeight \in Nat
    BY DEF ResumeHeight
  <2>2. QED BY <1>2, <2>1 DEF Begin, caller
<1>3. CASE OnBlockHeader
  BY <1>3 DEF OnBlockHeader, caller
<1>4. CASE FilterLogs
  BY <1>4 DEF FilterLogs, caller, InRange
<1>5. CASE Callback
  <2>1. PICK e \in logs : /\ delivered' = delivered \cup {e}
                          /\ logs' = logs \ {e}
                          /\ stored' \in Recorded(e)
    BY <1>5 DEF Callback
  <2>2. e \in events /\ e.height \in Nat /\ e.height <= head
    OBVIOUS
  <2>3. stored' \in Nat /\ stored' <= head
    BY <2>1, <2>2 DEF Recorded
  <2>4. QED BY <1>5, <2>1, <2>2, <2>3 DEF Callback, caller
<1>6. CASE RangeDone
  BY <1>6 DEF RangeDone, NextFrom, caller
<1>7. CASE Stop
  <2>1. stored' \in Nat /\ stored' <= head
    BY <1>7 DEF Stop, Recorded
  <2>2. cut' \subseteq Nat
    BY <1>7 DEF Stop
  <2>3. QED BY <1>7, <2>1, <2>2 DEF Stop, caller
<1>8. CASE UNCHANGED vars
  BY <1>8 DEF vars, streamVars, pollVars, caller
<1>9. QED
  BY <1>1, <1>2, <1>3, <1>4, <1>5, <1>6, <1>7, <1>8 DEF Next

\* Type correctness of the polled stream.
THEOREM TypeCorrect == Spec => []TypeOK
<1>1. Spec => []Known
  BY KnownInit, KnownStep, PTL DEF Spec
<1>2. Known => TypeOK
  BY DEF Known
<1>3. QED BY <1>1, <1>2, PTL

-----------------------------------------------------------------------------
(* Nothing is skipped.                                                     *)

\* The condition of NothingSkipped; it can only be lost.
Sane == initHeight # 0 /\ ~ ranAhead

Handled(e) == e \in delivered \cup logs \/ (resume = 1 /\ e.height \in cut)

Wanted(e, h) == e \in events /\ initHeight <= e.height /\ e.height < h

\* How the range, the polled block and the records lie to each other.
RangeInv ==
  /\ pc # "start" => 1 <= from /\ from <= current
  /\ pc = "header" => current <= head + 1
  /\ pc \in {"header", "filter"} => stored + resume <= from
  /\ pc \in {"filter", "callback"} => from <= to /\ to <= current /\ current <= head
  /\ pc = "callback" => stored <= to /\ \A e \in logs : stored <= e.height

\* What lies below the records, below the range, and in it once it is answered.
HandledInv ==
  /\ \A e : Wanted(e, stored + resume) => Handled(e)
  /\ pc \in {"header", "filter"} => \A e : Wanted(e, from) => Handled(e)
  /\ pc = "callback" => \A e : Wanted(e, to + 1) => Handled(e)

SkipInv == Known /\ (Sane => RangeInv /\ HandledInv)

LEMMA SkipInit == Init => SkipInv
<1> SUFFICES ASSUME Init PROVE SkipInv
  OBVIOUS
<1>1. Known
  BY KnownInit
<1>2. QED BY <1>1 DEF SkipInv, Sane, RangeInv, HandledInv, Wanted, Init, InitStream

LEMMA SkipStep == SkipInv /\ [Next]_vars => SkipInv'
<1> SUFFICES ASSUME SkipInv, [Next]_vars, Sane' PROVE RangeInv' /\ HandledInv'
  BY KnownStep DEF SkipInv
<1>0. Known /\ Known'
  BY KnownStep DEF SkipInv
<1>sane. Sane /\ RangeInv /\ HandledInv
  <2>1. initHeight' = initHeight
    BY DEF Next, Mine, Begin, OnBlockHeader, FilterLogs, Callback, RangeDone, Stop,
           caller, vars, streamVars, pollVars
  <2>2. ranAhead' = ranAhead \/ Begin
    BY DEF Next, Mine, OnBlockHeader, FilterLogs, Callback, RangeDone, Stop, vars,
           pollVars
  <2>3. Begin => ranAhead' = (ranAhead \/ ResumeHeight > head)
    BY DEF Begin
  <2>4. ~ ranAhead
    BY <2>2, <2>3, Zenon DEF Sane
  <2>5. QED BY <2>1, <2>4 DEF Sane, SkipInv
<1>types. /\ head \in Nat /\ initHeight \in Nat /\ resume \in {0, 1} /\ stored \in Nat
          /\ current \in Nat /\ from \in Nat /\ to \in Nat
          /\ \A e \in events : e.height \in Nat /\ e.height <= head
          /\ logs \subseteq events /\ stored <= head
          /\ pc # "callback" => logs = {}
  BY <1>0 DEF Known, TypeOK, Log
<1>1. CASE Mine
  <2>1. PICK n \in 0..MaxLogs :
          events' = events \cup [height : {head + 1}, index : 1..n]
    BY <1>1 DEF Mine
  <2>2. \A e \in events' : e \in events \/ e.height = head + 1
    BY <2>1
  <2>3. RangeInv'
    BY <1>1, <1>sane, <1>types DEF Mine, RangeInv, caller
  <2>4. ASSUME NEW e, NEW h \in Nat, h <= head + 1, Wanted(e, h)' PROVE Wanted(e, h)
    BY <1>1, <1>types, <2>2, <2>4 DEF Mine, Wanted, caller
  <2>5. \A e : Handled(e) => Handled(e)'
    BY <1>1 DEF Mine, Handled, caller
  <2>6. ASSUME NEW e, Wanted(e, stored + resume)' PROVE Handled(e)'
    BY <1>1, <1>sane, <1>types, <2>4, <2>5, <2>6 DEF Mine, HandledInv, caller
  <2>7. ASSUME pc' \in {"header", "filter"}, NEW e, Wanted(e, from)' PROVE Handled(e)'
    BY <1>1, <1>sane, <1>types, <2>4, <2>5, <2>7 DEF Mine, HandledInv, RangeInv
  <2>8. ASSUME pc' = "callback", NEW e, Wanted(e, to + 1)' PROVE Handled(e)'
    BY <1>1, <1>sane, <1>types, <2>4, <2>5, <2>8 DEF Mine, HandledInv, RangeInv
  <2>9. QED BY <2>3, <2>6, <2>7, <2>8 DEF HandledInv
<1>2. CASE Begin
  <2>1. from' = ResumeHeight /\ current' = head /\ ResumeHeight <= head
    <3>1. ranAhead' = (ranAhead \/ ResumeHeight > head)
      BY <1>2 DEF Begin
    <3>2. ~ (ResumeHeight > head)
      BY <3>1, Zenon DEF Sane
    <3>3. ResumeHeight \in Nat
      BY <1>types DEF ResumeHeight
    <3>4. QED BY <1>2, <1>types, <3>2, <3>3 DEF Begin
  <2>2. RangeInv'
    BY <1>2, <1>sane, <1>types, <2>1 DEF Begin, RangeInv, ResumeHeight, Sane, caller
  <2>3. \A e : Wanted(e, ResumeHeight) => Wanted(e, stored + resume)
    BY <1>types DEF Wanted, ResumeHeight
  <2>4. QED
    BY <1>2, <1>sane, <2>1, <2>2, <2>3 DEF Begin, HandledInv, Wanted, Handled, caller
<1>3. CASE OnBlockHeader
  <2>1. from' = from /\ to' \in {from + MaxLogQueryRange, current}
        /\ from <= to' /\ to' <= current
    BY <1>3, <1>sane, <1>types, PollAssumption, StreamAssumption DEF OnBlockHeader, RangeInv, TooFar, Sub64
  <2>2. QED
    BY <1>3, <1>sane, <1>types, <2>1
       DEF OnBlockHeader, RangeInv, HandledInv, Wanted, Handled, caller
<1>4. CASE FilterLogs
  <2>1. \A e \in logs' : from <= e.height
    BY <1>4 DEF FilterLogs, InRange
  <2>2. RangeInv'
    <3>1. stored <= from /\ \A e \in logs' : e.height \in Nat
      BY <1>4, <1>sane, <1>types DEF FilterLogs, RangeInv
    <3>2. QED BY <1>4, <1>sane, <1>types, <2>1, <3>1 DEF FilterLogs, RangeInv, caller
  <2>3. \A e : Handled(e) => Handled(e)'
    BY <1>4, <1>types DEF FilterLogs, Handled, caller
  <2>4. ASSUME NEW e, Wanted(e, to + 1) PROVE Handled(e)'
    BY <1>4, <1>sane, <1>types, <2>3, <2>4 DEF FilterLogs, HandledInv, Wanted, Handled, InRange
  <2>5. ASSUME NEW e, Wanted(e, stored + resume) PROVE Handled(e)'
    BY <1>sane, <2>3, <2>5 DEF HandledInv
  <2>6. QED
    BY <1>4, <2>2, <2>4, <2>5 DEF FilterLogs, HandledInv, Wanted, caller
<1>5. CASE Callback
  <2>1. PICK e \in logs : /\ IsNext(e)
                          /\ delivered' = delivered \cup {e}
                          /\ logs' = logs \ {e}
                          /\ stored' \in Recorded(e)
    BY <1>5 DEF Callback
  <2>2. \A d \in logs : e.height <= d.height
    BY <1>types, <2>1 DEF IsNext, Before
  <2>3. e.height <= to /\ e.height \in Nat
    BY <1>0, <1>types DEF Known, TypeOK
  <2>4. stored' \in {stored, e.height} /\ stored <= stored'
    BY <1>types, <2>1, <2>3 DEF Recorded
  <2>5. RangeInv'
    BY <1>5, <1>sane, <1>types, <2>1, <2>2, <2>3, <2>4 DEF Callback, RangeInv
  <2>6. \A d : Handled(d) <=> Handled(d)'
    BY <1>5, <2>1 DEF Callback, Handled, caller
  <2>7. \A d : Wanted(d, stored' + resume) => Wanted(d, stored + resume) \/ Wanted(d, to + 1)
    BY <1>types, <2>3, <2>4 DEF Wanted
  <2>8. QED
    BY <1>5, <1>sane, <2>5, <2>6, <2>7 DEF Callback, HandledInv, Wanted, caller
<1>6. CASE RangeDone
  BY <1>6, <1>sane, <1>types
     DEF RangeDone, NextFrom, RangeInv, HandledInv, Wanted, Handled, caller
<1>7. CASE Stop
  <2>1. RangeInv'
    BY <1>7 DEF Stop, RangeInv
  <2>2. /\ stored' \in Nat /\ stored <= stored'
        /\ \A d \in logs : stored' <= d.height
        /\ pc = "callback" => stored' <= to
        /\ pc # "callback" => stored' = stored
    <3>1. CASE UNCHANGED stored
      BY <1>sane, <1>types, <3>1 DEF RangeInv
    <3>2. ASSUME pc = "callback", NEW e \in logs, IsNext(e), stored' \in Recorded(e)
          PROVE  /\ stored' \in Nat /\ stored <= stored' /\ stored' <= to
                 /\ \A d \in logs : stored' <= d.height
      <4>1. \A d \in logs : e.height <= d.height
        BY <1>types, <3>2 DEF IsNext, Before
      <4>2. e.height <= to /\ e.height \in Nat
        BY <1>0, <1>types, <3>2 DEF Known, TypeOK
      <4>3. stored' \in {stored, e.height} /\ stored <= stored'
        BY <1>types, <3>2, <4>2 DEF Recorded
      <4>4. QED BY <1>sane, <1>types, <3>2, <4>1, <4>2, <4>3 DEF RangeInv
    <3>3. QED BY <1>7, <3>1, <3>2 DEF Stop
  <2>3. ASSUME NEW d, Wanted(d, stored' + resume) PROVE Handled(d)
    BY <1>sane, <1>types, <2>2, <2>3 DEF HandledInv, Wanted
  <2>4. ASSUME NEW d, Wanted(d, stored' + resume) PROVE Handled(d)'
    <3>1. CASE d \in logs
      <4>1. resume = 1 /\ d.height <= stored'
        BY <1>types, <2>2, <2>4, <3>1 DEF Wanted
      <4>2. QED BY <1>7, <3>1, <4>1 DEF Stop, Handled, caller
    <3>2. CASE d \notin logs
      BY <1>7, <2>3, <2>4, <3>2 DEF Stop, Handled, caller
    <3>3. QED BY <3>1, <3>2
  <2>5. QED
    BY <1>7, <2>1, <2>4 DEF Stop, HandledInv, Wanted, caller
<1>8. CASE UNCHANGED vars
  BY <1>8, <1>sane DEF vars, streamVars, pollVars, caller, RangeInv, HandledInv, Wanted, Handled
<1>9. QED
  BY <1>1, <1>2, <1>3, <1>4, <1>5, <1>6, <1>7, <1>8 DEF Next

\* For every size of the range, every chain and every sequence of failures and
\* restarts, the stream passes on every log below the block it goes on from.
THEOREM NoLogSkipped == Spec => []NothingSkipped
<1>1. Spec => []SkipInv
  BY SkipInit, SkipStep, PTL DEF Spec
<1>2. SkipInv => NothingSkipped
  <2> SUFFICES ASSUME SkipInv, Sane, NEW e \in events, Missed(e)
               PROVE  resume = 1 /\ e.height \in cut
    BY DEF NothingSkipped, Sane
  <2>1. pc = "start" => ResumeHeight \in {initHeight, stored + resume}
    BY DEF SkipInv, Known, TypeOK, ResumeHeight
  <2>types. /\ initHeight \in Nat /\ stored \in Nat /\ resume \in {0, 1}
            /\ e.height \in Nat /\ from \in Nat /\ to \in Nat
            /\ pc \in {"start", "header", "filter", "callback"}
    BY DEF SkipInv, Known, TypeOK, Log
  <2>inv. HandledInv /\ RangeInv
    BY DEF SkipInv
  <2>3. CASE pc = "start"
    BY <2>1, <2>types, <2>inv, <2>3 DEF Missed, Scanned, HandledInv, Wanted, Handled
  <2>4. CASE pc # "start"
    BY <2>4, <2>types, <2>inv DEF Missed, Scanned, HandledInv, RangeInv, Wanted, Handled
  <2>5. QED BY <2>3, <2>4
<1>3. QED BY <1>1, <1>2, PTL

-----------------------------------------------------------------------------
(* Streams that a node pushes.  Types, the blocks of the chain, and what   *)
(* waits.                                                                  *)

Messages == [type : {"event"}, log : Log] \cup [type : {"progress"}, height : Nat]

IsEvent(m) == m.type = "event"

PTypes ==
  /\ kind \in {"subscription", "icon"} /\ initHeight \in Nat /\ resume \in {0, 1}
  /\ head \in Nat \ {0} /\ stored \in Nat /\ next \in Nat
  /\ phase \in {"start", "open", "flush"} /\ closing \in BOOLEAN
  /\ events \subseteq Log
  /\ es \in Seq(events)
  /\ messages \in Seq(Messages)
  /\ \A i \in DOMAIN messages : IsEvent(messages[i]) => messages[i].log \in events
  /\ kind = "subscription" =>
       /\ phase # "flush" /\ ~ closing /\ es = <<>>
       /\ \A i \in DOMAIN messages : IsEvent(messages[i])
  /\ phase = "start" => es = <<>> /\ messages = <<>>

\* The logs of a block are numbered.
Numbered(S, h) == \E n \in Nat : S = [height : {h}, index : 1..n]

Blocks ==
  /\ \A e \in events : e.height \in 1..head
  /\ \A h \in Nat : Numbered(LogsAt(h), h)

PTInv == PTypes /\ Blocks

\* Notifications come in the order of the chain.
Ordered(ms) ==
  \A i, j \in DOMAIN ms :
    i < j /\ IsEvent(ms[i]) /\ IsEvent(ms[j]) => Before(ms[i].log, ms[j].log)

-----------------------------------------------------------------------------

\* What a sequence is after its first element was taken.
LEMMA Rest ==
  ASSUME NEW T, NEW s \in Seq(T), s # <<>>
  PROVE  /\ Tail(s) \in Seq(T) /\ Len(Tail(s)) = Len(s) - 1 /\ Len(s) \in Nat \ {0}
         /\ DOMAIN Tail(s) = 1..(Len(s) - 1) /\ DOMAIN s = 1..Len(s)
         /\ Head(s) = s[1] /\ s[1] \in T
         /\ \A i \in 1..(Len(s) - 1) : Tail(s)[i] = s[i + 1]
OBVIOUS

\* The logs of a block can be put in order, so InOrder is a sequence of all of them.
LEMMA OrderedLogs ==
  ASSUME NEW S, NEW h \in Nat, Numbered(S, h)
  PROVE  /\ InOrder(S) \in Seq(S)
         /\ \A e \in S : \E i \in DOMAIN InOrder(S) : InOrder(S)[i] = e
         /\ \A i, j \in DOMAIN InOrder(S) : i < j => Before(InOrder(S)[i], InOrder(S)[j])
<1>1. PICK n \in Nat : S = [height : {h}, index : 1..n]
  BY DEF Numbered
<1> DEFINE f == [i \in 1..n |-> [height |-> h, index |-> i]]
           Lists(s) ==
             /\ \A e \in S : \E i \in DOMAIN s : s[i] = e
             /\ \A i, j \in DOMAIN s :
                  i < j => \/ s[i].height < s[j].height
                           \/ s[i].height = s[j].height /\ s[i].index < s[j].index
<1>2. \A e \in S : e = [height |-> h, index |-> e.index] /\ e.index \in 1..n
  BY <1>1
<1>3. f \in [1..n -> S]
  BY <1>1
<1>4. \A e \in S : \E i \in 1..n : f[i] = e
  BY <1>2
<1>5. ExistsBijection(1..n, S)
  <2>1. \A i, j \in 1..n : f[i] = f[j] => i = j
    <3>1. \A i \in 1..n : f[i].index = i
      OBVIOUS
    <3>2. QED BY <3>1
  <2>2. f \in Bijection(1..n, S)
    BY <1>3, <1>4, <2>1 DEF Bijection, Injection, Surjection, IsInjective
  <2>3. QED BY <2>2 DEF ExistsBijection
<1>6. Cardinality(S) = n
  BY <1>5, FS_CountingElements
<1>7. Lists(f)
  BY <1>3, <1>4
<1>8. \E s \in [1..Cardinality(S) -> S] : Lists(s)
  BY <1>3, <1>6, <1>7
<1>9. InOrder(S) = CHOOSE s \in [1..Cardinality(S) -> S] : Lists(s)
  BY DEF InOrder
<1> HIDE DEF Lists, f
<1>10. InOrder(S) \in [1..n -> S] /\ Lists(InOrder(S))
  BY <1>6, <1>8, <1>9
<1>11. QED BY <1>10 DEF Lists, Before

-----------------------------------------------------------------------------
(* They are kept.                                                          *)

LEMMA PTInit == PushedInit => PTInv
<1> SUFFICES ASSUME PushedInit PROVE PTInv
  OBVIOUS
<1>1. kind \in {"subscription", "icon"} /\ initHeight \in Nat /\ resume \in {0, 1}
  BY StreamAssumption, KindsAssumption DEF PushedInit, InitStream
<1>2. PTypes
  <2>1. /\ head = 1 /\ events = {} /\ stored = 0 /\ phase = "start" /\ next = 0
        /\ messages = <<>> /\ es = <<>> /\ closing = FALSE
    BY DEF PushedInit, InitStream
  <2>2. es \in Seq(events) /\ messages \in Seq(Messages) /\ DOMAIN messages = {}
    BY <2>1
  <2>3. head \in Nat \ {0} /\ stored \in Nat /\ next \in Nat
    BY <2>1
  <2>4. phase \in {"start", "open", "flush"} /\ events \subseteq Log
    BY <2>1
  <2>5. closing \in BOOLEAN
    BY <2>1
  <2>6. QED BY <1>1, <2>1, <2>2, <2>3, <2>4, <2>5 DEF PTypes
<1>3. \A h \in Nat : LogsAt(h) = [height : {h}, index : 1..0]
  <2>1. \A h \in Nat : LogsAt(h) = {}
    BY DEF PushedInit, InitStream, LogsAt
  <2>2. 1..0 = {}
    OBVIOUS
  <2>3. QED BY <2>1, <2>2
<1>4. Blocks
  BY <1>3 DEF PushedInit, InitStream, Blocks, Numbered
<1>5. QED BY <1>2, <1>4 DEF PTInv

\* A new block and its logs.
LEMMA ProduceBlock ==
  ASSUME PTInv, NEW n \in 0..MaxLogs,
         head' = head + 1,
         events' = events \cup [height : {head + 1}, index : 1..n]
  PROVE  events' \subseteq Log /\ head' \in Nat \ {0} /\ Blocks'
<1> DEFINE new == [height : {head + 1}, index : 1..n]
<1>1. head \in Nat \ {0} /\ events \subseteq Log /\ n \in Nat
  BY DEF PTInv, PTypes
<1>2. new \subseteq Log /\ \A e \in new : e.height = head + 1
  BY <1>1 DEF Log
<1>3. \A e \in events' : e.height \in 1..head'
  <2>1. \A e \in events : e.height \in 1..head
    BY DEF PTInv, Blocks
  <2>2. QED BY <1>1, <1>2, <2>1
<1>4. ASSUME NEW h \in Nat PROVE Numbered(LogsAt(h)', h)
  <2>1. CASE h = head + 1
    <3>1. {e \in events : e.height = h} = {}
      BY <1>1, <2>1 DEF PTInv, Blocks
    <3>2. {e \in new : e.height = h} = new
      BY <1>2, <2>1
    <3>3. {e \in events' : e.height = h} = new
      BY <3>1, <3>2
    <3>4. QED BY <1>1, <2>1, <3>3 DEF LogsAt, Numbered
  <2>2. CASE h # head + 1
    <3>1. {e \in events' : e.height = h} = {e \in events : e.height = h}
      BY <1>2, <2>2
    <3>2. QED BY <3>1 DEF LogsAt, Numbered, PTInv, Blocks
  <2>3. QED BY <2>1, <2>2
<1>5. QED BY <1>1, <1>2, <1>3, <1>4 DEF Blocks

\* What the node sends of a block.
LEMMA NodeSends ==
  ASSUME PTInv, NodeNotifies
  PROVE  /\ messages' \in Seq(Messages)
         /\ \A i \in DOMAIN messages' : IsEvent(messages'[i]) =>
              messages'[i].log \in events /\ messages'[i].log.height = next
         /\ \A i \in DOMAIN messages' : IsEvent(messages'[i]) <=> i # Len(messages')
         /\ Ordered(messages)'
         /\ \A e \in events : e.height = next =>
              \E i \in DOMAIN messages' : IsEvent(messages'[i]) /\ messages'[i].log = e
<1> DEFINE sent == InOrder(LogsAt(next))
           told == [i \in DOMAIN sent |-> EventOf(sent[i])]
<1>1. next \in Nat /\ events \subseteq Log
  BY DEF PTInv, PTypes
<1>2. Numbered(LogsAt(next), next)
  BY <1>1 DEF PTInv, Blocks
<1>3. /\ sent \in Seq(LogsAt(next))
      /\ \A e \in LogsAt(next) : \E i \in DOMAIN sent : sent[i] = e
      /\ \A i, j \in DOMAIN sent : i < j => Before(sent[i], sent[j])
  BY <1>1, <1>2, OrderedLogs
<1>4. /\ \A e \in events : e.height = next => e \in LogsAt(next)
      /\ \A e \in LogsAt(next) : e \in events /\ e.height = next /\ e \in Log
  BY <1>1 DEF LogsAt
<1>5. messages' = IF sent = <<>> THEN <<>> ELSE told \o <<Progress(next)>>
  BY DEF NodeNotifies, caller
<1>6. CASE sent = <<>>
  <2>1. messages' = <<>> /\ DOMAIN messages' = {} /\ DOMAIN sent = {}
    BY <1>5, <1>6
  <2>2. messages' \in Seq(Messages)
    BY <2>1
  <2>3. QED BY <1>3, <1>4, <2>1, <2>2 DEF Ordered
<1>7. CASE sent # <<>>
  <2>1. DOMAIN sent = 1..Len(sent) /\ Len(sent) \in Nat
        /\ \A i \in 1..Len(sent) : sent[i] \in LogsAt(next)
    BY <1>3
  <2>2. \A i \in 1..Len(sent) : EventOf(sent[i]) \in Messages /\ IsEvent(EventOf(sent[i]))
                                /\ EventOf(sent[i]).log = sent[i]
    BY <1>4, <2>1 DEF EventOf, Messages, IsEvent
  <2>3. told \in Seq(Messages) /\ Len(told) = Len(sent)
        /\ \A i \in 1..Len(sent) : told[i] = EventOf(sent[i])
    BY <2>1, <2>2
  <2>4. Progress(next) \in Messages /\ ~ IsEvent(Progress(next))
    BY <1>1 DEF Progress, Messages, IsEvent
  <2> HIDE DEF told, sent
  <2>5. messages' = Append(told, Progress(next))
    BY <1>5, <1>7, <2>3, <2>4
  <2>6. /\ messages' \in Seq(Messages) /\ Len(messages') = Len(sent) + 1
        /\ DOMAIN messages' = 1..(Len(sent) + 1)
        /\ messages'[Len(sent) + 1] = Progress(next)
        /\ \A i \in 1..Len(sent) : messages'[i] = EventOf(sent[i])
    BY <2>1, <2>3, <2>4, <2>5
  <2>7. \A i \in DOMAIN messages' : IsEvent(messages'[i]) =>
          i \in 1..Len(sent) /\ messages'[i].log = sent[i]
    BY <2>1, <2>2, <2>4, <2>6
  <2>8. \A i \in DOMAIN messages' : IsEvent(messages'[i]) =>
          messages'[i].log \in events /\ messages'[i].log.height = next
    BY <1>4, <2>1, <2>7
  <2>9. \A e \in events : e.height = next =>
          \E i \in DOMAIN messages' : IsEvent(messages'[i]) /\ messages'[i].log = e
    <3> SUFFICES ASSUME NEW e \in events, e.height = next
                 PROVE  \E i \in DOMAIN messages' :
                          IsEvent(messages'[i]) /\ messages'[i].log = e
      OBVIOUS
    <3>1. PICK i \in DOMAIN sent : sent[i] = e
      BY <1>3, <1>4
    <3>2. i \in 1..Len(sent) /\ i \in DOMAIN messages'
      BY <2>1, <2>6
    <3>3. QED BY <2>2, <2>6, <3>1, <3>2
  <2>10. \A i \in DOMAIN messages' : IsEvent(messages'[i]) <=> i # Len(messages')
    BY <2>1, <2>2, <2>4, <2>6
  <2>11. Ordered(messages)'
    <3> SUFFICES ASSUME NEW i \in DOMAIN messages', NEW j \in DOMAIN messages', i < j,
                        IsEvent(messages'[i]), IsEvent(messages'[j])
                 PROVE  Before(messages'[i].log, messages'[j].log)
      BY DEF Ordered
    <3>1. i \in DOMAIN sent /\ j \in DOMAIN sent
          /\ messages'[i].log = sent[i] /\ messages'[j].log = sent[j]
      BY <2>1, <2>7
    <3>2. QED BY <1>3, <3>1
  <2>12. QED BY <2>6, <2>8, <2>9, <2>10, <2>11
<1>8. QED BY <1>6, <1>7


\* A height that is recorded.
LEMMA RecordedHeight ==
  ASSUME stored \in Nat, NEW e \in Log, NEW s \in Recorded(e)
  PROVE  s \in Nat /\ (s = stored \/ (s = e.height /\ stored < s))
BY DEF Recorded, Log

LEMMA PTStep == PTInv /\ [PushedNext]_pushedVars => PTInv'
<1> SUFFICES ASSUME PTInv, [PushedNext]_pushedVars PROVE PTInv'
  OBVIOUS
<1> USE DEF PTInv
<1>a. PTypes
  OBVIOUS
<1>b. events' = events /\ head' = head => Blocks'
  BY DEF Blocks, LogsAt
<1>c. /\ es # <<>> => Head(es) \in events /\ Head(es) \in Log /\ Tail(es) \in Seq(events)
      /\ messages # <<>> => Tail(messages) \in Seq(Messages)
  <2>1. es # <<>> => Head(es) \in events /\ Tail(es) \in Seq(events)
    BY <1>a, Rest DEF PTypes
  <2>2. messages # <<>> => Tail(messages) \in Seq(Messages)
    BY <1>a, Rest DEF PTypes
  <2>3. QED BY <1>a, <2>1, <2>2 DEF PTypes
<1>d. messages # <<>> =>
        /\ \A i \in DOMAIN Tail(messages) : IsEvent(Tail(messages)[i]) =>
             Tail(messages)[i].log \in events
        /\ IsEvent(Head(messages)) => Head(messages).log \in events
        /\ kind = "subscription" => /\ IsEvent(Head(messages))
                                    /\ \A i \in DOMAIN Tail(messages) : IsEvent(Tail(messages)[i])
  <2> SUFFICES ASSUME messages # <<>>
               PROVE  /\ \A i \in DOMAIN Tail(messages) : IsEvent(Tail(messages)[i]) =>
                           Tail(messages)[i].log \in events
                      /\ IsEvent(Head(messages)) => Head(messages).log \in events
                      /\ kind = "subscription" =>
                           /\ IsEvent(Head(messages))
                           /\ \A i \in DOMAIN Tail(messages) : IsEvent(Tail(messages)[i])
    OBVIOUS
  <2>1. messages \in Seq(Messages)
    BY <1>a DEF PTypes
  <2>2. /\ Len(messages) \in Nat \ {0} /\ DOMAIN messages = 1..Len(messages)
        /\ DOMAIN Tail(messages) = 1..(Len(messages) - 1) /\ Head(messages) = messages[1]
        /\ \A i \in 1..(Len(messages) - 1) : Tail(messages)[i] = messages[i + 1]
    BY <2>1, Rest
  <2>3. \A i \in 1..(Len(messages) - 1) : i + 1 \in DOMAIN messages
    BY <2>2
  <2>4. 1 \in DOMAIN messages
    BY <2>2
  <2>5. QED BY <1>a, <2>2, <2>3, <2>4 DEF PTypes
<1>e. <<>> \in Seq(events) /\ <<>> \in Seq(Messages) /\ DOMAIN <<>> = {}
  OBVIOUS
<1>1. CASE Produce
  <2>1. PICK n \in 0..MaxLogs :
          /\ events' = events \cup [height : {head + 1}, index : 1..n]
          /\ \/ /\ kind = "subscription" /\ phase = "open"
                /\ messages' = messages \o
                     [i \in 1..n |-> EventOf([height |-> head + 1, index |-> i])]
             \/ UNCHANGED messages
    BY <1>1 DEF Produce, caller
  <2>2. head' = head + 1 /\ UNCHANGED <<kind, initHeight, resume, stored, phase, next, es, closing>>
    BY <1>1 DEF Produce, caller
  <2>3. events' \subseteq Log /\ head' \in Nat \ {0} /\ Blocks'
    BY <2>1, <2>2, ProduceBlock
  <2>4. es' \in Seq(events')
    BY <1>a, <2>1, <2>2 DEF PTypes
  <2>5. /\ messages' \in Seq(Messages)
        /\ \A i \in DOMAIN messages' : IsEvent(messages'[i]) => messages'[i].log \in events'
        /\ phase = "start" => messages' = <<>>
        /\ kind = "subscription" => \A i \in DOMAIN messages' : IsEvent(messages'[i])
    <3>1. CASE UNCHANGED messages
      BY <1>a, <2>1, <3>1 DEF PTypes
    <3>2. CASE /\ phase = "open"
               /\ messages' = messages \o
                    [i \in 1..n |-> EventOf([height |-> head + 1, index |-> i])]
      <4> DEFINE new == [i \in 1..n |-> EventOf([height |-> head + 1, index |-> i])]
      <4>1. \A i \in 1..n : /\ [height |-> head + 1, index |-> i] \in events'
                            /\ [height |-> head + 1, index |-> i] \in Log
        BY <1>a, <2>1 DEF PTypes, Log
      <4>2. \A i \in 1..n : EventOf([height |-> head + 1, index |-> i]) \in Messages
        BY <4>1 DEF EventOf, Messages
      <4>3. new \in Seq(Messages) /\ Len(new) = n
            /\ \A i \in 1..n : new[i].log \in events' /\ IsEvent(new[i])
        BY <4>1, <4>2 DEF EventOf, IsEvent
      <4>4. messages \in Seq(Messages) /\ events \subseteq events'
        BY <1>a, <2>1 DEF PTypes
      <4> HIDE DEF new
      <4>5. /\ messages' \in Seq(Messages)
            /\ \A i \in DOMAIN messages' : \/ i \in DOMAIN messages /\ messages'[i] = messages[i]
                                           \/ i - Len(messages) \in 1..n
                                              /\ messages'[i] = new[i - Len(messages)]
        BY <3>2, <4>3, <4>4 DEF new
      <4>6. QED BY <1>a, <3>2, <4>3, <4>4, <4>5 DEF PTypes
    <3>3. QED BY <2>1, <3>1, <3>2
  <2>6. QED BY <1>a, <2>2, <2>3, <2>4, <2>5 DEF PTypes
<1>2. CASE NodeNotifies
  <2>1. /\ messages' \in Seq(Messages)
        /\ \A i \in DOMAIN messages' : IsEvent(messages'[i]) => messages'[i].log \in events
    BY <1>2, NodeSends
  <2>2. next' = next + 1 /\ phase # "start" /\ kind = "icon"
        /\ UNCHANGED <<kind, initHeight, resume, head, events, stored, phase, es, closing>>
    BY <1>2 DEF NodeNotifies, caller
  <2>3. QED BY <1>a, <1>b, <2>1, <2>2 DEF PTypes
<1>3. CASE Open
  <2>1. next' \in Nat
    BY <1>3 DEF Open, caller, ResumeHeight, PTypes
  <2>2. QED BY <1>3, <1>a, <1>b, <1>e, <2>1 DEF Open, caller, PTypes
<1>4. CASE SubscribedLog
  <2>1. kind = "subscription" /\ phase = "open" /\ messages # <<>> /\ messages' = Tail(messages)
        /\ stored' \in Recorded(Head(messages).log)
        /\ UNCHANGED <<kind, initHeight, resume, head, events, phase, next, es, closing>>
    BY <1>4 DEF SubscribedLog, caller, Accept
  <2>2. Head(messages).log \in Log
    BY <1>a, <1>d, <2>1 DEF PTypes
  <2>3. stored' \in Nat
    BY <1>a, <2>1, <2>2, RecordedHeight DEF PTypes
  <2>4. QED BY <1>a, <1>b, <1>c, <1>d, <2>1, <2>3 DEF PTypes
<1>5. CASE Notified
  <2>1. phase = "open" /\ kind = "icon" /\ messages # <<>> /\ messages' = Tail(messages)
        /\ UNCHANGED <<kind, initHeight, resume, head, events, stored, next, closing>>
    BY <1>5 DEF Notified, caller
  <2>2. \/ IsEvent(Head(messages)) /\ es' = Append(es, Head(messages).log) /\ phase' = phase
        \/ phase' = "flush" /\ es' = es
    BY <1>5 DEF Notified, caller, IsEvent
  <2>3. es' \in Seq(events)
    <3>1. es \in Seq(events)
      BY <1>a DEF PTypes
    <3>2. QED BY <1>d, <2>1, <2>2, <3>1
  <2>4. QED BY <1>a, <1>b, <1>c, <1>d, <2>1, <2>2, <2>3 DEF PTypes
<1>6. CASE Flush
  <2>1. /\ phase = "flush" /\ es # <<>> /\ es' = Tail(es)
        /\ stored' \in Recorded(Head(es)) /\ closing' \in {closing, TRUE}
        /\ UNCHANGED <<kind, initHeight, resume, head, events, phase, next, messages>>
    BY <1>6 DEF Flush, caller, Accept
  <2>2. stored' \in Nat
    BY <2>1 DEF Recorded, PTypes
  <2>3. QED BY <1>a, <1>b, <1>c, <2>1, <2>2 DEF PTypes
<1>7. CASE Flushed
  <2>1. \/ phase' = "start" /\ messages' = <<>> /\ es' = <<>> /\ closing' = FALSE
        \/ phase' = "open" /\ UNCHANGED <<messages, es, closing>>
    BY <1>7 DEF Flushed, caller, Broken
  <2>2. UNCHANGED <<kind, initHeight, resume, head, events, next, stored>>
    BY <1>7 DEF Flushed, caller
  <2>3. CASE phase' = "start"
    BY <1>a, <1>b, <1>e, <2>1, <2>2, <2>3 DEF PTypes
  <2>4. CASE phase' = "open" /\ UNCHANGED <<messages, es, closing>>
    BY <1>a, <1>b, <2>2, <2>4 DEF PTypes
  <2>5. QED BY <2>1, <2>3, <2>4
<1>8. CASE Fail
  <2>1. /\ phase' = "start" /\ messages' = <<>> /\ es' = <<>> /\ closing' = FALSE
        /\ UNCHANGED <<kind, initHeight, resume, head, events, next>>
    BY <1>8 DEF Fail, caller, Broken
  <2>2. stored' \in Nat
    <3>1. CASE stored' = stored
      BY <3>1 DEF PTypes
    <3>2. CASE stored' # stored
      <4>1. kind = "subscription" /\ messages # <<>> /\ stored' \in Recorded(Head(messages).log)
        BY <1>8, <3>2 DEF Fail, caller
      <4>2. Head(messages).log \in Log
        BY <1>a, <1>d, <4>1 DEF PTypes
      <4>3. QED BY <1>a, <4>1, <4>2, RecordedHeight DEF PTypes
    <3>3. QED BY <3>1, <3>2
  <2>3. QED BY <1>a, <1>b, <1>e, <2>1, <2>2 DEF PTypes
<1>9. CASE UNCHANGED pushedVars
  BY <1>9, <1>a, <1>b DEF pushedVars, streamVars, pushVars, caller, PTypes
<1>10. QED BY <1>1, <1>2, <1>3, <1>4, <1>5, <1>6, <1>7, <1>8, <1>9 DEF PushedNext

-----------------------------------------------------------------------------
(* What has become of every event.                                         *)

\* A subscription: told of, on its way, or missed while the stream was not open.
SubInv == kind = "subscription" => \A e \in events : e \in delivered \cup OnTheWay \cup away

\* An ICON stream: one block is kept or passed on at a time, up to its progress
\* notification, and recorded heights are behind what is on its way.
IconQueues ==
  /\ \A i \in DOMAIN messages : IsEvent(messages[i]) <=> i # Len(messages)
  /\ phase = "open" /\ es # <<>> => messages # <<>>
  /\ closing => phase = "flush"
  /\ \A i, j \in DOMAIN es : es[i].height = es[j].height
  /\ \A i, j \in DOMAIN messages : IsEvent(messages[i]) /\ IsEvent(messages[j]) =>
       messages[i].log.height = messages[j].log.height
  /\ \A i \in DOMAIN es, j \in DOMAIN messages : IsEvent(messages[j]) =>
       IF phase = "open" THEN es[i].height = messages[j].log.height
                      ELSE es[i].height < messages[j].log.height
  /\ \A e \in OnTheWay : stored <= e.height /\ e.height < next

Heights ==
  /\ stored <= head
  /\ phase # "start" => stored <= next /\ (next <= head + 1 \/ next <= initHeight)

\* Told of, or in a block that was broken off and is not asked for again.
Told(e) == e \in delivered \/ (resume = 1 /\ e.height \in lost)

\* The callback failed for it, and the stream is about to end.
Refusing(e) == closing /\ stored <= e.height /\ \A i \in DOMAIN es : es[i].height <= e.height

Behind ==
  \A e \in events : initHeight <= e.height =>
    /\ e.height < stored => Told(e)
    /\ phase = "start" /\ e.height = stored => Told(e) \/ resume = 0
    /\ phase # "start" /\ e.height < next => Told(e) \/ e \in OnTheWay \/ Refusing(e)

IconInv == kind = "icon" => IconQueues /\ Heights /\ (initHeight # 0 => Behind)

PInv == PTInv /\ SubInv /\ IconInv

LEMMA Way ==
  \A x : x \in OnTheWay <=> \/ \E i \in DOMAIN es : es[i] = x
                            \/ \E j \in DOMAIN messages : IsEvent(messages[j]) /\ messages[j].log = x
BY DEF OnTheWay, IsEvent

\* Taking the first message, or the first of the events kept.
LEMMA WayMoves ==
  ASSUME PTInv
  PROVE  /\ es' = es /\ messages' = Tail(messages) /\ messages # <<>> =>
              /\ OnTheWay' \subseteq OnTheWay
              /\ \A x \in OnTheWay : \/ x \in OnTheWay'
                                     \/ IsEvent(Head(messages)) /\ x = Head(messages).log
         /\ es' = Tail(es) /\ messages' = messages /\ es # <<>> =>
              /\ OnTheWay' \subseteq OnTheWay
              /\ \A x \in OnTheWay : x \in OnTheWay' \/ x = Head(es)
<1>a. es \in Seq(events) /\ messages \in Seq(Messages)
  BY DEF PTInv, PTypes
<1>b. \A x : x \in OnTheWay' <=>
        \/ \E i \in DOMAIN es' : es'[i] = x
        \/ \E j \in DOMAIN messages' : IsEvent(messages'[j]) /\ messages'[j].log = x
  BY DEF OnTheWay, IsEvent
<1>1. ASSUME es' = es, messages' = Tail(messages), messages # <<>>
      PROVE  /\ OnTheWay' \subseteq OnTheWay
             /\ \A x \in OnTheWay : \/ x \in OnTheWay'
                                    \/ IsEvent(Head(messages)) /\ x = Head(messages).log
  <2>1. /\ Len(messages) \in Nat \ {0} /\ DOMAIN messages = 1..Len(messages)
        /\ DOMAIN messages' = 1..(Len(messages) - 1) /\ Head(messages) = messages[1]
        /\ \A i \in 1..(Len(messages) - 1) : messages'[i] = messages[i + 1]
    BY <1>a, <1>1, Rest
  <2>2. OnTheWay' \subseteq OnTheWay
    <3>1. \A j \in DOMAIN messages' : j + 1 \in DOMAIN messages /\ messages'[j] = messages[j + 1]
      BY <2>1
    <3>2. QED BY <1>b, <1>1, <3>1, Way
  <2>3. \A j \in DOMAIN messages :
          j = 1 \/ (j - 1 \in DOMAIN messages' /\ messages'[j - 1] = messages[j])
    BY <2>1
  <2>4. ASSUME NEW x \in OnTheWay, x \notin OnTheWay'
        PROVE  IsEvent(Head(messages)) /\ x = Head(messages).log
    <3>1. ~ \E i \in DOMAIN es : es[i] = x
      BY <1>b, <1>1, <2>4
    <3>2. PICK j \in DOMAIN messages : IsEvent(messages[j]) /\ messages[j].log = x
      BY <3>1, <2>4, Way
    <3>3. j = 1
      BY <1>b, <2>3, <2>4, <3>2
    <3>4. QED BY <2>1, <3>2, <3>3
  <2>5. QED BY <2>2, <2>4
<1>2. ASSUME es' = Tail(es), messages' = messages, es # <<>>
      PROVE  /\ OnTheWay' \subseteq OnTheWay
             /\ \A x \in OnTheWay : x \in OnTheWay' \/ x = Head(es)
  <2>1. /\ Len(es) \in Nat \ {0} /\ DOMAIN es = 1..Len(es)
        /\ DOMAIN es' = 1..(Len(es) - 1) /\ Head(es) = es[1]
        /\ \A i \in 1..(Len(es) - 1) : es'[i] = es[i + 1]
    BY <1>a, <1>2, Rest
  <2>2. OnTheWay' \subseteq OnTheWay
    <3>1. \A j \in DOMAIN es' : j + 1 \in DOMAIN es /\ es'[j] = es[j + 1]
      BY <2>1
    <3>2. QED BY <1>b, <1>2, <3>1, Way
  <2>3. \A j \in DOMAIN es : j = 1 \/ (j - 1 \in DOMAIN es' /\ es'[j - 1] = es[j])
    BY <2>1
  <2>4. QED BY <1>b, <1>2, <2>1, <2>2, <2>3, Way
<1>3. QED BY <1>1, <1>2

LEMMA WaySame ==
  /\ es' = es /\ messages' = messages => OnTheWay' = OnTheWay
  /\ es' = <<>> /\ messages' = <<>> => OnTheWay' = {}
  /\ es = <<>> /\ messages = <<>> => OnTheWay = {}
<1>1. DOMAIN <<>> = {}
  OBVIOUS
<1>2. QED BY <1>1 DEF OnTheWay

LEMMA PIInit == PushedInit => SubInv /\ IconInv
<1> SUFFICES ASSUME PushedInit PROVE SubInv /\ IconInv
  OBVIOUS
<1>1. head = 1 /\ events = {} /\ stored = 0 /\ phase = "start" /\ messages = <<>> /\ es = <<>>
      /\ closing = FALSE
  BY DEF PushedInit, InitStream
<1>2. DOMAIN es = {} /\ DOMAIN messages = {} /\ OnTheWay = {}
  BY <1>1, WaySame
<1>3. QED BY <1>1, <1>2 DEF SubInv, IconInv, IconQueues, Heights, Behind

LEMMA SubStep ==
  ASSUME PTInv, SubInv, PushedNext, kind = "subscription"
  PROVE  \A e \in events' : e \in delivered' \cup OnTheWay' \cup away'
<1>a. \A e \in events : e \in delivered \cup OnTheWay \cup away
  BY DEF SubInv
<1>b. es = <<>> /\ messages \in Seq(Messages)
  BY DEF PTInv, PTypes
<1>1. CASE Produce
  <2>1. PICK n \in 0..MaxLogs :
          /\ events' = events \cup [height : {head + 1}, index : 1..n]
          /\ IF phase = "open"
             THEN /\ messages' = messages \o
                       [i \in 1..n |-> EventOf([height |-> head + 1, index |-> i])]
                  /\ UNCHANGED away
             ELSE /\ away' = away \cup [height : {head + 1}, index : 1..n]
                  /\ UNCHANGED messages
    BY <1>1 DEF Produce, caller
  <2>2. es' = es /\ delivered' = delivered
    BY <1>1 DEF Produce, caller
  <2>3. CASE phase # "open"
    BY <1>a, <2>1, <2>2, <2>3, WaySame
  <2>4. CASE phase = "open"
    <3> DEFINE new == [i \in 1..n |-> EventOf([height |-> head + 1, index |-> i])]
    <3>1. \A i \in 1..n : EventOf([height |-> head + 1, index |-> i]) \in Messages
      BY DEF EventOf, Messages, Log, PTInv, PTypes
    <3>2. new \in Seq(Messages) /\ Len(new) = n /\ n \in Nat /\ \A i \in 1..n :
            IsEvent(new[i]) /\ new[i].log = [height |-> head + 1, index |-> i]
      BY <3>1 DEF EventOf, IsEvent
    <3> HIDE DEF new
    <3>3. /\ DOMAIN messages \subseteq DOMAIN messages' /\ DOMAIN messages = 1..Len(messages)
          /\ \A i \in DOMAIN messages : messages'[i] = messages[i]
          /\ \A i \in 1..n : Len(messages) + i \in DOMAIN messages'
                             /\ messages'[Len(messages) + i] = new[i]
      BY <1>b, <2>1, <2>4, <3>2 DEF new
    <3>4. \A x : x \in OnTheWay' <=>
            \/ \E i \in DOMAIN es' : es'[i] = x
            \/ \E j \in DOMAIN messages' : IsEvent(messages'[j]) /\ messages'[j].log = x
      BY DEF OnTheWay, IsEvent
    <3>5. OnTheWay \subseteq OnTheWay'
      BY <2>2, <3>3, <3>4, Way
    <3>6. \A e \in [height : {head + 1}, index : 1..n] : e \in OnTheWay'
      <4> SUFFICES ASSUME NEW e \in [height : {head + 1}, index : 1..n] PROVE e \in OnTheWay'
        OBVIOUS
      <4>1. e.index \in 1..n /\ e = [height |-> head + 1, index |-> e.index]
        OBVIOUS
      <4>2. IsEvent(new[e.index]) /\ new[e.index].log = e
        BY <3>2, <4>1
      <4>3. QED BY <3>3, <3>4, <4>1, <4>2
    <3>7. QED BY <1>a, <2>1, <2>2, <2>4, <3>5, <3>6
  <2>5. QED BY <2>3, <2>4
<1>2. CASE Open
  <2>1. phase = "start" /\ UNCHANGED <<events, delivered, away>>
    BY <1>2 DEF Open, caller
  <2>2. OnTheWay = {}
    BY <2>1, WaySame DEF PTInv, PTypes
  <2>3. QED BY <1>a, <2>1, <2>2
<1>3. CASE SubscribedLog
  <2>1. /\ messages # <<>> /\ messages' = Tail(messages) /\ es' = es
        /\ delivered' = delivered \cup {Head(messages).log}
        /\ UNCHANGED <<events, away>>
    BY <1>3 DEF SubscribedLog, caller, Accept
  <2>2. \A x \in OnTheWay : x \in OnTheWay' \/ x = Head(messages).log
    BY <2>1, WayMoves
  <2>3. QED BY <1>a, <2>1, <2>2
<1>4. CASE Flushed
  <2>1. UNCHANGED <<events, delivered>>
    BY <1>4 DEF Flushed, caller
  <2>2. \/ away' = away \cup OnTheWay
        \/ UNCHANGED <<messages, es, away>>
    BY <1>4 DEF Flushed, caller, Broken
  <2>3. QED BY <1>a, <2>1, <2>2, WaySame
<1>5. CASE Fail
  <2>1. UNCHANGED <<events, delivered>> /\ away' = away \cup OnTheWay
    BY <1>5 DEF Fail, caller, Broken
  <2>2. QED BY <1>a, <2>1
<1>6. ~ NodeNotifies /\ ~ Notified /\ ~ Flush
  BY <1>b DEF NodeNotifies, caller, Notified, caller, Flush, caller
<1>7. QED BY <1>1, <1>2, <1>3, <1>4, <1>5, <1>6 DEF PushedNext


LEMMA Recordings ==
  ASSUME PTInv, NEW e \in events, NEW s \in Recorded(e)
  PROVE  /\ s \in Nat /\ stored \in Nat /\ e.height \in 1..head /\ e.height \in Nat
         /\ s = stored \/ (s = e.height /\ stored < s)
<1>1. e \in Log /\ stored \in Nat /\ e.height \in 1..head /\ head \in Nat
  BY DEF PTInv, PTypes, Blocks
<1>2. QED BY <1>1, RecordedHeight

\* Breaking off: what was not told of in the block recorded last is gone for the tracker.
LEMMA IconBreaks ==
  ASSUME PTInv, IconQueues, Heights, Broken, stored' = stored,
         UNCHANGED <<kind, initHeight, resume, head, events, next, delivered>>
  PROVE  IconQueues' /\ Heights' /\ (Behind /\ initHeight # 0 => Behind')
<1>1. /\ phase' = "start" /\ messages' = <<>> /\ es' = <<>> /\ closing' = FALSE
      /\ lost' = lost \cup {e.height : e \in {d \in events \ delivered : d.height = stored}}
  BY DEF Broken, LeftBehind
<1>2. OnTheWay' = {} /\ DOMAIN es' = {} /\ DOMAIN messages' = {}
  BY <1>1, WaySame
<1>3. IconQueues'
  BY <1>1, <1>2 DEF IconQueues
<1>4. Heights'
  BY <1>1 DEF Heights
<1>5. ASSUME Behind, NEW e \in events, initHeight <= e.height
      PROVE  /\ e.height < stored => Told(e)'
             /\ e.height = stored => Told(e)' \/ resume = 0
  <2>1. Told(e) => Told(e)'
    BY <1>1 DEF Told
  <2>2. e.height < stored => Told(e)
    BY <1>5 DEF Behind
  <2>3. e.height = stored /\ e \notin delivered => e.height \in lost'
    BY <1>1
  <2>4. resume \in {0, 1}
    BY DEF PTInv, PTypes
  <2>5. QED BY <2>1, <2>2, <2>3, <2>4 DEF Told
<1>6. Behind => Behind'
  BY <1>1, <1>5 DEF Behind
<1>7. QED BY <1>3, <1>4, <1>6

LEMMA IconProduce ==
  ASSUME PTInv, PTInv', IconQueues, Heights, kind = "icon", Produce
  PROVE  IconQueues' /\ Heights' /\ (Behind /\ initHeight # 0 => Behind')
<1>1. /\ UNCHANGED <<kind, initHeight, resume, stored, phase, next, es, closing, delivered, lost>>
      /\ messages' = messages /\ head' = head + 1
  BY DEF Produce, caller
<1>2. \A e \in events' : e \in events \/ e.height = head + 1
  BY DEF Produce, caller
<1>3. OnTheWay' = OnTheWay
  BY <1>1, WaySame
<1>4. head \in Nat \ {0} /\ stored \in Nat /\ next \in Nat /\ initHeight \in Nat
  BY DEF PTInv, PTypes
<1>5. IconQueues'
  BY <1>1, <1>3 DEF IconQueues
<1>6. Heights'
  BY <1>1, <1>4 DEF Heights
<1>7. ASSUME Behind, NEW e \in events', initHeight <= e.height
      PROVE  /\ e.height < stored => Told(e)
             /\ phase = "start" /\ e.height = stored => Told(e) \/ resume = 0
             /\ phase # "start" /\ e.height < next => Told(e) \/ e \in OnTheWay \/ Refusing(e)
  <2>1. CASE e \in events
    BY <1>7, <2>1 DEF Behind
  <2>2. CASE e.height = head + 1
    BY <1>4, <1>7, <2>2 DEF Heights
  <2>3. QED BY <1>2, <2>1, <2>2
<1>8. Behind => Behind'
  BY <1>1, <1>3, <1>7 DEF Behind, Told, Refusing
<1>9. QED BY <1>5, <1>6, <1>8

LEMMA IconNodeNotifies ==
  ASSUME PTInv, IconQueues, Heights, NodeNotifies
  PROVE  IconQueues' /\ Heights' /\ (Behind /\ initHeight # 0 => Behind')
<1>1. /\ UNCHANGED <<kind, initHeight, resume, head, events, stored, phase, es, closing,
                     delivered, lost>>
      /\ messages = <<>> /\ next' = next + 1 /\ next <= head /\ phase # "start"
  BY DEF NodeNotifies, caller
<1>2. /\ \A i \in DOMAIN messages' : IsEvent(messages'[i]) =>
           messages'[i].log \in events /\ messages'[i].log.height = next
      /\ \A i \in DOMAIN messages' : IsEvent(messages'[i]) <=> i # Len(messages')
      /\ \A e \in events : e.height = next =>
           \E i \in DOMAIN messages' : IsEvent(messages'[i]) /\ messages'[i].log = e
  BY NodeSends
<1>3. head \in Nat \ {0} /\ stored \in Nat /\ next \in Nat /\ initHeight \in Nat
      /\ \A e \in events : e.height \in Nat
  BY DEF PTInv, PTypes, Log
<1>4. \A x : x \in OnTheWay' <=>
        \/ \E i \in DOMAIN es : es[i] = x
        \/ \E j \in DOMAIN messages' : IsEvent(messages'[j]) /\ messages'[j].log = x
  BY <1>1 DEF OnTheWay, IsEvent
<1>5. DOMAIN messages = {} /\ \A x \in OnTheWay : x \in OnTheWay'
  BY <1>1, <1>4, Way
<1>6. \A i \in DOMAIN es : es[i] \in OnTheWay /\ es[i] \in events
  <2>1. es \in Seq(events)
    BY DEF PTInv, PTypes
  <2>2. QED BY <2>1, Way
<1>7. IconQueues'
  <2>1. /\ \A i \in DOMAIN messages' : IsEvent(messages'[i]) <=> i # Len(messages')
        /\ phase' = "open" /\ es' # <<>> => messages' # <<>>
        /\ closing' => phase' = "flush"
        /\ \A i, j \in DOMAIN es' : es'[i].height = es'[j].height
    BY <1>1, <1>2 DEF IconQueues
  <2>2. \A i, j \in DOMAIN messages' : IsEvent(messages'[i]) /\ IsEvent(messages'[j]) =>
          messages'[i].log.height = messages'[j].log.height
    BY <1>2
  <2>3. \A i \in DOMAIN es', j \in DOMAIN messages' : IsEvent(messages'[j]) =>
          IF phase' = "open" THEN es'[i].height = messages'[j].log.height
                          ELSE es'[i].height < messages'[j].log.height
    <3> SUFFICES ASSUME NEW i \in DOMAIN es, NEW j \in DOMAIN messages', IsEvent(messages'[j])
                 PROVE  IF phase = "open" THEN es[i].height = messages'[j].log.height
                                       ELSE es[i].height < messages'[j].log.height
      BY <1>1
    <3>1. es # <<>>
      OBVIOUS
    <3>2. phase # "open"
      BY <1>1, <3>1 DEF IconQueues
    <3>3. es[i].height < next /\ es[i].height \in Nat
      BY <1>3, <1>6 DEF IconQueues
    <3>4. QED BY <1>2, <1>3, <3>2, <3>3
  <2>4. \A e \in OnTheWay' : stored <= e.height /\ e.height < next + 1
    <3> SUFFICES ASSUME NEW e \in OnTheWay' PROVE stored <= e.height /\ e.height < next + 1
      OBVIOUS
    <3>1. CASE \E i \in DOMAIN es : es[i] = e
      <4>1. e \in OnTheWay /\ e \in events
        BY <1>6, <3>1
      <4>2. stored <= e.height /\ e.height < next /\ e.height \in Nat
        BY <1>3, <4>1 DEF IconQueues
      <4>3. QED BY <1>3, <4>2
    <3>2. CASE \E j \in DOMAIN messages' : IsEvent(messages'[j]) /\ messages'[j].log = e
      BY <1>1, <1>2, <1>3, <3>2 DEF Heights
    <3>3. QED BY <1>4, <3>1, <3>2
  <2>5. QED BY <1>1, <2>1, <2>2, <2>3, <2>4 DEF IconQueues
<1>8. Heights'
  BY <1>1, <1>3 DEF Heights
<1>9. ASSUME Behind, NEW e \in events, initHeight <= e.height, e.height < next + 1
      PROVE  Told(e) \/ e \in OnTheWay' \/ Refusing(e)
  <2>1. CASE e.height = next
    BY <1>2, <1>4, <2>1
  <2>2. CASE e.height # next
    <3>1. e.height < next
      BY <1>3, <1>9, <2>2
    <3>2. QED BY <1>1, <1>5, <1>9, <3>1 DEF Behind
  <2>3. QED BY <2>1, <2>2
<1>10. Behind => Behind'
  BY <1>1, <1>9 DEF Behind, Told, Refusing
<1>11. QED BY <1>7, <1>8, <1>10

LEMMA IconOpen ==
  ASSUME PTInv, IconQueues, Heights, Open
  PROVE  IconQueues' /\ Heights' /\ (Behind /\ initHeight # 0 => Behind')
<1>1. /\ UNCHANGED <<kind, initHeight, resume, head, events, stored, delivered, lost>>
      /\ messages' = <<>> /\ es' = <<>> /\ closing' = FALSE /\ phase = "start" /\ phase' = "open"
      /\ next' = IF ResumeHeight = 0 THEN head ELSE ResumeHeight
  BY DEF Open, caller
<1>2. head \in Nat \ {0} /\ stored \in Nat /\ initHeight \in Nat /\ resume \in {0, 1}
      /\ \A e \in events : e.height \in Nat
  BY DEF PTInv, PTypes, Log
<1>3. \/ next' = initHeight /\ (stored = 0 \/ stored < initHeight)
      \/ next' = stored + resume /\ stored # 0
      \/ next' = head /\ initHeight = 0 /\ stored = 0
  BY <1>1, <1>2 DEF ResumeHeight
<1>4. OnTheWay' = {} /\ DOMAIN es' = {} /\ DOMAIN messages' = {}
  BY <1>1, WaySame
<1>5. IconQueues'
  BY <1>1, <1>4 DEF IconQueues
<1>6. Heights'
  <2>1. stored <= head /\ resume \in Nat /\ resume <= 1
    BY <1>2 DEF Heights
  <2>2. stored <= next' /\ (next' <= head + 1 \/ next' <= initHeight)
    BY <1>2, <1>3, <2>1
  <2>3. stored' = stored /\ head' = head /\ initHeight' = initHeight
    BY <1>1
  <2>4. QED BY <2>1, <2>2, <2>3 DEF Heights
<1>7. ASSUME Behind, initHeight # 0, NEW e \in events, initHeight <= e.height, e.height < next'
      PROVE  Told(e)
  <2>1. e.height < stored \/ (e.height = stored /\ resume = 1)
    BY <1>2, <1>3, <1>7
  <2>2. QED BY <1>1, <1>7, <2>1 DEF Behind
<1>8. Behind /\ initHeight # 0 => Behind'
  BY <1>1, <1>7 DEF Behind, Told
<1>9. QED BY <1>5, <1>6, <1>8

\* A notification moves an event from the messages to those kept.
LEMMA NotifiedWay ==
  ASSUME PTInv, Notified
  PROVE  OnTheWay' = OnTheWay
<1>1. messages # <<>> /\ messages' = Tail(messages)
      /\ \/ IsEvent(Head(messages)) /\ es' = Append(es, Head(messages).log)
         \/ ~ IsEvent(Head(messages)) /\ es' = es
  BY DEF Notified, IsEvent
<1>2. es \in Seq(events) /\ messages \in Seq(Messages)
  BY DEF PTInv, PTypes
<1>3. /\ Len(messages) \in Nat \ {0} /\ DOMAIN messages = 1..Len(messages)
      /\ DOMAIN messages' = 1..(Len(messages) - 1) /\ Head(messages) = messages[1]
      /\ \A i \in 1..(Len(messages) - 1) : messages'[i] = messages[i + 1]
  BY <1>1, <1>2, Rest
<1>4. \A x : x \in OnTheWay' <=>
        \/ \E i \in DOMAIN es' : es'[i] = x
        \/ \E j \in DOMAIN messages' : IsEvent(messages'[j]) /\ messages'[j].log = x
  BY DEF OnTheWay, IsEvent
<1>5. CASE ~ IsEvent(Head(messages)) /\ es' = es
  <2>1. OnTheWay' \subseteq OnTheWay /\ OnTheWay \subseteq OnTheWay'
    BY <1>1, <1>5, WayMoves
  <2>2. QED BY <2>1
<1>6. CASE IsEvent(Head(messages)) /\ es' = Append(es, Head(messages).log)
  <2> DEFINE l == Head(messages).log
  <2>1. IsEvent(messages[1]) /\ l = messages[1].log /\ 1 \in DOMAIN messages
    BY <1>3, <1>6
  <2>2. l \in events
    BY <2>1 DEF PTInv, PTypes
  <2>3. /\ DOMAIN es = 1..Len(es) /\ DOMAIN es' = 1..(Len(es) + 1)
        /\ Len(es) \in Nat /\ es'[Len(es) + 1] = l
        /\ \A i \in 1..Len(es) : es'[i] = es[i]
    BY <1>2, <1>6, <2>2
  <2> HIDE DEF l
  <2>4. \A x : (\E i \in DOMAIN es' : es'[i] = x) <=> x = l \/ \E i \in DOMAIN es : es[i] = x
    <3>1. \A i \in DOMAIN es' : i \in DOMAIN es \/ i = Len(es) + 1
      BY <2>3
    <3>2. DOMAIN es \subseteq DOMAIN es' /\ Len(es) + 1 \in DOMAIN es'
      BY <2>3
    <3>3. QED BY <2>3, <3>1, <3>2
  <2>5. \A j \in DOMAIN messages :
          j = 1 \/ (j - 1 \in DOMAIN messages' /\ messages'[j - 1] = messages[j])
    BY <1>3
  <2>6. \A j \in DOMAIN messages' : j + 1 \in DOMAIN messages /\ messages'[j] = messages[j + 1]
    BY <1>3
  <2>7. \A x : (\E j \in DOMAIN messages : IsEvent(messages[j]) /\ messages[j].log = x)
          <=> x = l \/ \E j \in DOMAIN messages' : IsEvent(messages'[j]) /\ messages'[j].log = x
    BY <2>1, <2>5, <2>6
  <2>8. \A x : x \in OnTheWay' <=> x \in OnTheWay
    BY <1>4, <2>4, <2>7, Way
  <2>9. QED BY <2>8
<1>7. QED BY <1>1, <1>5, <1>6

LEMMA IconNotified ==
  ASSUME PTInv, IconQueues, Heights, Notified
  PROVE  IconQueues' /\ Heights' /\ (Behind /\ initHeight # 0 => Behind')
<1>1. /\ UNCHANGED <<kind, initHeight, resume, head, events, stored, next, closing,
                     delivered, lost>>
      /\ phase = "open" /\ messages # <<>> /\ messages' = Tail(messages)
  BY DEF Notified, caller
<1>2. \/ IsEvent(Head(messages)) /\ es' = Append(es, Head(messages).log) /\ phase' = "open"
      \/ ~ IsEvent(Head(messages)) /\ es' = es /\ phase' = "flush"
  BY DEF Notified, caller, IsEvent
<1>3. es \in Seq(events) /\ messages \in Seq(Messages) /\ stored \in Nat /\ next \in Nat
      /\ \A e \in events : e.height \in Nat
  BY DEF PTInv, PTypes, Log
<1>4. /\ Len(messages) \in Nat \ {0} /\ DOMAIN messages = 1..Len(messages)
      /\ DOMAIN messages' = 1..(Len(messages) - 1) /\ Head(messages) = messages[1]
      /\ \A i \in 1..(Len(messages) - 1) : messages'[i] = messages[i + 1]
      /\ messages' \in Seq(Messages) /\ Len(messages') = Len(messages) - 1
  BY <1>1, <1>3, Rest
<1>5. \A j \in DOMAIN messages' : j + 1 \in DOMAIN messages /\ messages'[j] = messages[j + 1]
  BY <1>4
<1>6. \A i \in DOMAIN messages' : IsEvent(messages'[i]) <=> i # Len(messages')
  <2> SUFFICES ASSUME NEW i \in DOMAIN messages'
               PROVE  IsEvent(messages'[i]) <=> i # Len(messages')
    OBVIOUS
  <2>1. i \in Nat /\ (i # Len(messages') <=> i + 1 # Len(messages))
    BY <1>4
  <2>2. QED BY <1>5, <2>1 DEF IconQueues
<1>7. \A x : x \in OnTheWay' <=>
        \/ \E i \in DOMAIN es' : es'[i] = x
        \/ \E j \in DOMAIN messages' : IsEvent(messages'[j]) /\ messages'[j].log = x
  BY DEF OnTheWay, IsEvent
<1>8. \A i, j \in DOMAIN messages' : IsEvent(messages'[i]) /\ IsEvent(messages'[j]) =>
        messages'[i].log.height = messages'[j].log.height
  BY <1>5 DEF IconQueues
<1>9. Heights'
  BY <1>1, <1>2 DEF Heights
<1>10. CASE IsEvent(Head(messages))
  <2> DEFINE l == Head(messages).log
  <2>1. /\ es' = Append(es, l) /\ phase' = "open" /\ IsEvent(messages[1]) /\ l = messages[1].log
        /\ 1 \in DOMAIN messages
    BY <1>2, <1>4, <1>10
  <2>2. l \in events
    BY <2>1 DEF PTInv, PTypes
  <2>3. /\ es' \in Seq(events) /\ DOMAIN es = 1..Len(es) /\ DOMAIN es' = 1..(Len(es) + 1)
        /\ Len(es) \in Nat /\ es'[Len(es) + 1] = l
        /\ \A i \in 1..Len(es) : es'[i] = es[i]
    BY <1>3, <2>1, <2>2
  <2> HIDE DEF l
  <2>4. \A i \in DOMAIN es' : \/ i \in DOMAIN es /\ es'[i] = es[i]
                              \/ es'[i] = l
    BY <2>3
  <2>5. OnTheWay' = OnTheWay
    BY NotifiedWay
  <2>7. 1 # Len(messages)
    BY <2>1 DEF IconQueues
  <2>8. messages' # <<>>
    BY <1>4, <2>7
  <2>9. \A i \in DOMAIN es : es[i].height = l.height
    BY <1>1, <2>1 DEF IconQueues
  <2>10. \A i \in DOMAIN es' : es'[i].height = l.height
    BY <2>4, <2>9
  <2>11. \A j \in DOMAIN messages' : IsEvent(messages'[j]) => messages'[j].log.height = l.height
    BY <1>5, <2>1 DEF IconQueues
  <2>12. IconQueues'
    BY <1>1, <1>6, <1>8, <2>1, <2>5, <2>8, <2>10, <2>11 DEF IconQueues
  <2>13. ~ closing
    BY <1>1 DEF IconQueues
  <2>14. Behind => Behind'
    BY <1>1, <2>1, <2>5, <2>13 DEF Behind, Told, Refusing
  <2>15. QED BY <1>9, <2>12, <2>14
<1>11. CASE ~ IsEvent(Head(messages))
  <2>1. es' = es /\ phase' = "flush"
    BY <1>2, <1>11
  <2>2. OnTheWay' \subseteq OnTheWay /\ OnTheWay \subseteq OnTheWay'
    BY <1>1, <1>11, <2>1, WayMoves
  <2>3. DOMAIN messages' = {}
    BY <1>4, <1>11 DEF IconQueues
  <2>4. IconQueues'
    BY <1>1, <1>6, <1>8, <2>1, <2>2, <2>3 DEF IconQueues
  <2>5. ~ closing
    BY <1>1 DEF IconQueues
  <2>6. Behind => Behind'
    BY <1>1, <2>1, <2>2, <2>5 DEF Behind, Told, Refusing
  <2>7. QED BY <1>9, <2>4, <2>6
<1>12. QED BY <1>10, <1>11

LEMMA IconFlush ==
  ASSUME PTInv, IconQueues, Heights, Flush
  PROVE  IconQueues' /\ Heights' /\ (Behind /\ initHeight # 0 => Behind')
<1> DEFINE first == Head(es)
<1>1. /\ UNCHANGED <<kind, initHeight, resume, head, events, phase, next, messages, lost>>
      /\ phase = "flush" /\ es # <<>> /\ es' = Tail(es) /\ stored' \in Recorded(first)
      /\ \/ delivered' = delivered \cup {first} /\ closing' = closing
         \/ delivered' = delivered /\ closing' = TRUE
  BY DEF Flush, caller, Accept
<1>2. es \in Seq(events) /\ next \in Nat /\ closing \in BOOLEAN
      /\ \A e \in events : e.height \in Nat
  BY DEF PTInv, PTypes, Log
<1>3. /\ Len(es) \in Nat \ {0} /\ DOMAIN es = 1..Len(es)
      /\ DOMAIN es' = 1..(Len(es) - 1) /\ first = es[1] /\ first \in events
      /\ \A i \in 1..(Len(es) - 1) : es'[i] = es[i + 1]
  BY <1>1, <1>2, Rest
<1> HIDE DEF first
<1>4. \A j \in DOMAIN es' : j + 1 \in DOMAIN es /\ es'[j] = es[j + 1]
  BY <1>3
<1>5. 1 \in DOMAIN es /\ \A i \in DOMAIN es : es[i].height = first.height
  BY <1>3 DEF IconQueues
<1>6. stored <= first.height /\ first.height < next
  <2>1. first \in OnTheWay
    BY <1>3, <1>5, Way
  <2>2. QED BY <2>1 DEF IconQueues
<1>7. /\ stored' \in Nat /\ stored \in Nat /\ first.height \in 1..head /\ first.height \in Nat
      /\ stored' = stored \/ stored' = first.height
  BY <1>1, <1>3, Recordings
<1>8. /\ OnTheWay' \subseteq OnTheWay
      /\ \A x \in OnTheWay : x \in OnTheWay' \/ x = first
  BY <1>1, WayMoves DEF first
<1>9. \A x \in OnTheWay : first.height <= x.height
  <2> SUFFICES ASSUME NEW x \in OnTheWay PROVE first.height <= x.height
    OBVIOUS
  <2>1. CASE \E i \in DOMAIN es : es[i] = x
    BY <1>5, <1>7, <2>1
  <2>2. CASE \E j \in DOMAIN messages : IsEvent(messages[j]) /\ messages[j].log = x
    <3>1. x.height \in Nat /\ 1 \in DOMAIN es /\ phase # "open"
      BY <1>1, <1>2, <1>5, <2>2 DEF PTInv, PTypes
    <3>2. first.height < x.height
      BY <1>3, <2>2, <3>1 DEF IconQueues
    <3>3. QED BY <1>7, <3>1, <3>2
  <2>3. QED BY <2>1, <2>2, Way
<1>10. Heights'
  <2>1. stored' <= head /\ stored' <= next
    BY <1>1, <1>2, <1>6, <1>7 DEF Heights
  <2>2. QED BY <1>1, <2>1 DEF Heights
<1>11. IconQueues'
  <2>1. \A e \in OnTheWay' : stored' <= e.height /\ e.height < next
    BY <1>7, <1>8, <1>9 DEF IconQueues
  <2>2. \A i, j \in DOMAIN es' : es'[i].height = es'[j].height
    BY <1>4, <1>5
  <2>3. \A i \in DOMAIN es', j \in DOMAIN messages : IsEvent(messages[j]) =>
          es'[i].height < messages[j].log.height
    BY <1>1, <1>4 DEF IconQueues
  <2>4. QED BY <1>1, <2>1, <2>2, <2>3 DEF IconQueues
<1>12. ASSUME Behind, NEW e \in events, initHeight <= e.height
       PROVE  /\ e.height < stored' => Told(e)'
              /\ e.height < next => Told(e)' \/ e \in OnTheWay' \/ Refusing(e)'
  <2>a. e.height \in Nat /\ (Told(e) => Told(e)')
    BY <1>1, <1>2 DEF Told
  <2>b. /\ e.height < stored => Told(e)
        /\ e.height < next => Told(e) \/ e \in OnTheWay \/ Refusing(e)
    BY <1>1, <1>12 DEF Behind
  <2>c. Refusing(e) => closing /\ stored <= e.height /\ first.height <= e.height
    BY <1>3, <1>5 DEF Refusing
  <2>1. ASSUME e.height < stored' PROVE Told(e)'
    <3>1. CASE e.height < stored
      BY <2>a, <2>b, <3>1
    <3>2. CASE ~ e.height < stored
      <4>1. e.height < first.height /\ e.height < next
        BY <1>2, <1>6, <1>7, <2>a, <2>1, <3>2
      <4>2. e \notin OnTheWay /\ ~ Refusing(e)
        BY <1>7, <1>9, <2>a, <2>c, <4>1
      <4>3. QED BY <2>a, <2>b, <4>1, <4>2
    <3>3. QED BY <3>1, <3>2
  <2>2. ASSUME e.height < next PROVE Told(e)' \/ e \in OnTheWay' \/ Refusing(e)'
    <3>1. stored' <= first.height
      BY <1>6, <1>7
    <3>2. \A i \in DOMAIN es' : es'[i].height = first.height
      BY <1>4, <1>5
    <3>3. CASE Refusing(e)
      <4>1. closing'
        <5>1. closing = TRUE
          BY <1>2, <2>c, <3>3
        <5>2. closing' = TRUE
          BY <1>1, <5>1
        <5>3. QED BY <5>2
      <4>2. stored' <= e.height
        BY <1>7, <2>a, <2>c, <3>1, <3>3
      <4>3. \A i \in DOMAIN es' : es'[i].height <= e.height
        BY <2>c, <3>2, <3>3
      <4>4. QED BY <4>1, <4>2, <4>3 DEF Refusing
    <3>4. CASE e = first
      <4>1. CASE delivered' = delivered \cup {first}
        BY <3>4, <4>1 DEF Told
      <4>2. CASE closing'
        BY <1>7, <3>1, <3>2, <3>4, <4>2 DEF Refusing
      <4>3. QED BY <1>1, <4>1, <4>2
    <3>5. QED BY <1>8, <2>a, <2>b, <2>2, <3>3, <3>4
  <2>3. QED BY <2>1, <2>2
<1>13. Behind => Behind'
  BY <1>1, <1>12 DEF Behind
<1>14. QED BY <1>10, <1>11, <1>13

LEMMA IconFlushed ==
  ASSUME PTInv, IconQueues, Heights, Flushed
  PROVE  IconQueues' /\ Heights' /\ (Behind /\ initHeight # 0 => Behind')
<1>1. phase = "flush" /\ es = <<>> /\ stored' = stored
      /\ UNCHANGED <<kind, initHeight, resume, head, events, next, delivered>>
  BY DEF Flushed, caller
<1>2. CASE closing
  <2>1. Broken
    BY <1>2 DEF Flushed, caller
  <2>2. QED BY <1>1, <2>1, IconBreaks
<1>3. CASE ~ closing
  <2>1. phase' = "open" /\ UNCHANGED <<messages, es, closing, lost>>
    BY <1>3 DEF Flushed, caller
  <2>2. OnTheWay' = OnTheWay /\ DOMAIN es = {}
    BY <1>1, <2>1, WaySame
  <2>3. IconQueues'
    BY <1>1, <1>3, <2>1, <2>2 DEF IconQueues
  <2>4. Heights'
    BY <1>1, <2>1 DEF Heights
  <2>5. Behind => Behind'
    BY <1>1, <1>3, <2>1, <2>2 DEF Behind, Told, Refusing
  <2>6. QED BY <2>3, <2>4, <2>5
<1>4. QED BY <1>2, <1>3

LEMMA PIStep ==
  PTInv /\ PTInv' /\ SubInv /\ IconInv /\ [PushedNext]_pushedVars
    => SubInv' /\ IconInv'
<1> SUFFICES ASSUME PTInv, PTInv', SubInv, IconInv, [PushedNext]_pushedVars
             PROVE  SubInv' /\ IconInv'
  OBVIOUS
<1>1. CASE PushedNext
  <2>1. kind' = kind /\ initHeight' = initHeight
    BY <1>1 DEF PushedNext, Produce, caller, NodeNotifies, caller, Open, caller, SubscribedLog, caller, Notified, caller, Flush, caller,
                Flushed, Fail
  <2>2. SubInv'
    BY <1>1, <2>1, SubStep DEF SubInv
  <2>3. ASSUME kind = "icon"
        PROVE  IconQueues' /\ Heights' /\ (initHeight # 0 => Behind')
    <3>1. IconQueues /\ Heights /\ (initHeight # 0 => Behind)
      BY <2>3 DEF IconInv
    <3>2. ~ SubscribedLog
      BY <2>3 DEF SubscribedLog, caller
    <3>3. CASE Fail
      <4>1. Broken /\ stored' = stored
            /\ UNCHANGED <<kind, initHeight, resume, head, events, next, delivered>>
        BY <2>3, <3>3 DEF Fail, caller
      <4>2. QED BY <3>1, <4>1, IconBreaks
    <3>4. QED BY <1>1, <2>3, <3>1, <3>2, <3>3, IconProduce, IconNodeNotifies, IconOpen,
                 IconNotified, IconFlush, IconFlushed DEF PushedNext
  <2>4. QED BY <2>1, <2>2, <2>3 DEF IconInv
<1>2. CASE UNCHANGED pushedVars
  <2>1. OnTheWay' = OnTheWay
    BY <1>2, WaySame DEF pushedVars, streamVars, pushVars, caller
  <2>2. SubInv'
    BY <1>2, <2>1 DEF pushedVars, streamVars, pushVars, caller, SubInv
  <2>3. IconQueues => IconQueues'
    BY <1>2, <2>1 DEF pushedVars, streamVars, pushVars, caller, IconQueues
  <2>4. Heights => Heights'
    BY <1>2 DEF pushedVars, streamVars, pushVars, caller, Heights
  <2>5. Behind => Behind'
    BY <1>2, <2>1 DEF pushedVars, streamVars, pushVars, caller, Behind, Told, Refusing
  <2>6. QED BY <1>2, <2>2, <2>3, <2>4, <2>5 DEF pushedVars, streamVars, pushVars, caller, IconInv
<1>3. QED BY <1>1, <1>2

-----------------------------------------------------------------------------

LEMMA SkipsNothing == PInv => PushedNothingSkipped
<1> SUFFICES ASSUME PInv, initHeight # 0, ~ closing, NEW e \in events,
                    initHeight <= e.height, e.height < Passed,
                    e \notin delivered \cup OnTheWay
             PROVE  \/ kind = "subscription" /\ e \in away
                    \/ resume = 1 /\ e.height \in lost
  BY DEF PushedNothingSkipped
<1>1. kind \in {"subscription", "icon"} /\ resume \in {0, 1} /\ stored \in Nat
      /\ initHeight \in Nat /\ e.height \in Nat
  BY DEF PInv, PTInv, PTypes, Log
<1>2. CASE kind = "subscription"
  BY <1>2 DEF PInv, SubInv
<1>3. CASE kind = "icon"
  <2>1. Behind /\ ~ Refusing(e)
    BY <1>3 DEF PInv, IconInv, Refusing
  <2>2. CASE phase = "start"
    <3>1. e.height < ResumeHeight
      BY <2>2 DEF Passed
    <3>2. e.height < stored \/ (e.height = stored /\ resume = 1)
      BY <1>1, <3>1 DEF ResumeHeight
    <3>3. Told(e)
      BY <2>1, <2>2, <3>2 DEF Behind
    <3>4. QED BY <3>3 DEF Told
  <2>3. CASE phase # "start"
    <3>1. e.height < next
      BY <1>3, <2>3 DEF Passed
    <3>2. Told(e)
      BY <2>1, <2>3, <3>1 DEF Behind
    <3>3. QED BY <3>2 DEF Told
  <2>4. QED BY <2>2, <2>3
<1>4. QED BY <1>1, <1>2, <1>3

\* With a start height given, an event of a pushed stream is skipped in the ways the
\* property names only: for every chain, both callers, and whatever fails (MonitorEvent of
\* contract/icon/adaptor.go, MonitorBySubscribeFilterLogs of contract/eth/adaptor.go).
THEOREM PushedStreamSkipsNothing == PushedSpec => []PushedNothingSkipped
<1>1. PushedInit => PInv
  BY PTInit, PIInit DEF PInv
<1>2. PInv /\ [PushedNext]_pushedVars => PInv'
  <2> SUFFICES ASSUME PInv, [PushedNext]_pushedVars PROVE PInv'
    OBVIOUS
  <2>1. PTInv'
    BY PTStep DEF PInv
  <2>2. QED BY <2>1, PIStep DEF PInv
<1>3. PInv => PushedNothingSkipped
  BY SkipsNothing
<1>4. QED BY <1>1, <1>2, <1>3, PTL DEF PushedSpec

-----------------------------------------------------------------------------
(* What waits is in the order of the chain.                                *)

InLine ==
  /\ \A i, j \in DOMAIN es : i < j => Before(es[i], es[j])
  /\ Ordered(messages)
  /\ \A i \in DOMAIN es, j \in DOMAIN messages :
       IsEvent(messages[j]) => Before(es[i], messages[j].log)

\* The messages about the logs of a new block, as a sequence.
LEMMA ProducedMessages ==
  ASSUME PTInv, NEW n \in 0..MaxLogs,
         messages' = messages \o
           [i \in 1..n |-> EventOf([height |-> head + 1, index |-> i])]
  PROVE  /\ DOMAIN messages = 1..Len(messages) /\ Len(messages) \in Nat
         /\ DOMAIN messages' = 1..(Len(messages) + n)
         /\ \A i \in DOMAIN messages : messages'[i] = messages[i]
         /\ \A i \in 1..n : messages'[Len(messages) + i]
                              = EventOf([height |-> head + 1, index |-> i])
         /\ \A i \in DOMAIN messages' : i \in DOMAIN messages \/ i - Len(messages) \in 1..n
<1> DEFINE new == [i \in 1..n |-> EventOf([height |-> head + 1, index |-> i])]
<1>1. messages \in Seq(Messages) /\ n \in Nat
  BY StreamAssumption DEF PTInv, PTypes
<1>2. \A i \in 1..n : EventOf([height |-> head + 1, index |-> i]) \in Messages
  BY DEF EventOf, Messages, Log, PTInv, PTypes
<1>3. new \in Seq(Messages) /\ Len(new) = n
      /\ \A i \in 1..n : new[i] = EventOf([height |-> head + 1, index |-> i])
  BY <1>1, <1>2
<1> HIDE DEF new
<1>4. messages' = messages \o new
  BY DEF new
<1>5. /\ DOMAIN messages' = 1..(Len(messages) + n)
      /\ \A i \in DOMAIN messages : messages'[i] = messages[i]
      /\ \A i \in 1..n : messages'[Len(messages) + i] = new[i]
  BY <1>1, <1>3, <1>4
<1>6. QED BY <1>1, <1>3, <1>5

LEMMA InLineProduce == PTInv /\ InLine /\ Produce => InLine'
<1> SUFFICES ASSUME PTInv, InLine, Produce PROVE InLine'
  OBVIOUS
<1>1. PICK n \in 0..MaxLogs :
        \/ /\ kind = "subscription"
           /\ messages' = messages \o
                [i \in 1..n |-> EventOf([height |-> head + 1, index |-> i])]
        \/ UNCHANGED messages
  BY DEF Produce, caller
<1>2. es' = es
  BY DEF Produce, caller
<1>3. CASE UNCHANGED messages
  BY <1>2, <1>3 DEF InLine
<1>4. CASE /\ kind = "subscription"
           /\ messages' = messages \o
                [i \in 1..n |-> EventOf([height |-> head + 1, index |-> i])]
  <2> DEFINE l(i) == [height |-> head + 1, index |-> i]
  <2>1. /\ DOMAIN messages = 1..Len(messages) /\ Len(messages) \in Nat
        /\ DOMAIN messages' = 1..(Len(messages) + n)
        /\ \A i \in DOMAIN messages : messages'[i] = messages[i]
        /\ \A i \in 1..n : messages'[Len(messages) + i] = EventOf(l(i))
        /\ \A i \in DOMAIN messages' : i \in DOMAIN messages \/ i - Len(messages) \in 1..n
    BY <1>4, ProducedMessages
  <2>2. es = <<>> /\ DOMAIN es = {} /\ n \in Nat /\ head \in Nat
    BY <1>4, StreamAssumption DEF PTInv, PTypes
  <2>3. \A i \in DOMAIN messages : messages[i].log.height <= head
                                   /\ messages[i].log.height \in Nat
    BY <1>4 DEF PTInv, PTypes, Blocks
  <2>4. \A i \in DOMAIN messages' : i \notin DOMAIN messages =>
          messages'[i].log.height = head + 1 /\ messages'[i].log.index = i - Len(messages)
    <3> SUFFICES ASSUME NEW i \in DOMAIN messages', i \notin DOMAIN messages
                 PROVE  /\ messages'[i].log.height = head + 1
                        /\ messages'[i].log.index = i - Len(messages)
      OBVIOUS
    <3>1. i - Len(messages) \in 1..n /\ Len(messages) + (i - Len(messages)) = i
      BY <2>1
    <3>2. messages'[i] = EventOf(l(i - Len(messages)))
      BY <2>1, <3>1
    <3>3. QED BY <3>2 DEF EventOf
  <2>5. ASSUME NEW i \in DOMAIN messages', NEW j \in DOMAIN messages', i < j,
               IsEvent(messages'[i]), IsEvent(messages'[j])
        PROVE  Before(messages'[i].log, messages'[j].log)
    <3>1. CASE i \in DOMAIN messages /\ j \in DOMAIN messages
      BY <2>1, <2>5, <3>1 DEF InLine, Ordered
    <3>2. CASE i \in DOMAIN messages /\ j \notin DOMAIN messages
      <4>1. messages'[i].log.height <= head /\ messages'[j].log.height = head + 1
            /\ messages'[i].log.height \in Nat
        BY <2>1, <2>3, <2>4, <3>2
      <4>2. QED BY <2>2, <4>1 DEF Before
    <3>3. CASE i \notin DOMAIN messages /\ j \notin DOMAIN messages
      <4>1. /\ messages'[i].log.height = head + 1 /\ messages'[j].log.height = head + 1
            /\ messages'[i].log.index = i - Len(messages)
            /\ messages'[j].log.index = j - Len(messages)
        BY <2>4, <3>3
      <4>2. QED BY <2>1, <2>5, <4>1 DEF Before
    <3>4. QED BY <2>1, <2>5, <3>1, <3>2, <3>3
  <2>6. QED BY <1>2, <2>2, <2>5 DEF InLine, Ordered
<1>5. QED BY <1>1, <1>3, <1>4

LEMMA InLineStep ==
  ASSUME PTInv, kind = "icon" => IconQueues, InLine, PushedNext
  PROVE  InLine'
<1>a. es \in Seq(events) /\ messages \in Seq(Messages) /\ next \in Nat
      /\ \A e \in events : e.height \in Nat /\ e.index \in Nat
  BY DEF PTInv, PTypes, Log
<1>b. DOMAIN <<>> = {}
  OBVIOUS
<1>c. es' = <<>> /\ messages' = <<>> => InLine'
  BY <1>b DEF InLine, Ordered
<1>d. es' = es /\ messages' = messages => InLine'
  BY DEF InLine
<1>e. ASSUME messages # <<>>, messages' = Tail(messages)
      PROVE  /\ \A j \in DOMAIN messages' : j + 1 \in DOMAIN messages /\ j \in Nat
                                            /\ messages'[j] = messages[j + 1]
             /\ Ordered(messages)'
             /\ Head(messages) = messages[1] /\ 1 \in DOMAIN messages
  <2>1. /\ Len(messages) \in Nat \ {0} /\ DOMAIN messages = 1..Len(messages)
        /\ DOMAIN messages' = 1..(Len(messages) - 1) /\ Head(messages) = messages[1]
        /\ \A i \in 1..(Len(messages) - 1) : messages'[i] = messages[i + 1]
    BY <1>a, <1>e, Rest
  <2>2. \A j \in DOMAIN messages' : j + 1 \in DOMAIN messages /\ j \in Nat
                                    /\ messages'[j] = messages[j + 1]
    BY <2>1
  <2>3. \A i, j \in DOMAIN messages' : i < j => i + 1 < j + 1
    BY <2>2
  <2>4. Ordered(messages)'
    BY <2>2, <2>3 DEF InLine, Ordered
  <2>5. QED BY <2>1, <2>2, <2>4
<1>1. CASE Produce
  BY <1>1, InLineProduce
<1>2. CASE NodeNotifies
  <2>1. es' = es /\ kind = "icon" /\ Ordered(messages)'
        /\ \A j \in DOMAIN messages' : IsEvent(messages'[j]) => messages'[j].log.height = next
    BY <1>2, NodeSends DEF NodeNotifies, caller
  <2>2. \A i \in DOMAIN es : es[i] \in OnTheWay
    BY Way
  <2>3. \A i \in DOMAIN es : es[i].height < next
    BY <2>1, <2>2 DEF IconQueues
  <2>4. QED BY <1>a, <2>1, <2>3 DEF InLine, Before
<1>3. CASE Open
  BY <1>3, <1>c DEF Open, caller
<1>4. CASE SubscribedLog
  <2>1. messages # <<>> /\ messages' = Tail(messages) /\ es' = es
    BY <1>4 DEF SubscribedLog, caller
  <2>2. QED BY <1>e, <2>1 DEF InLine
<1>5. CASE Notified
  <2>1. messages # <<>> /\ messages' = Tail(messages)
    BY <1>5 DEF Notified, caller
  <2>2. \/ es' = es
        \/ es' = Append(es, Head(messages).log) /\ IsEvent(Head(messages))
    BY <1>5 DEF Notified, caller, IsEvent
  <2>3. CASE es' = es
    BY <1>e, <2>1, <2>3 DEF InLine
  <2>4. CASE es' = Append(es, Head(messages).log) /\ IsEvent(Head(messages))
    <3> DEFINE l == Head(messages).log
    <3>1. l = messages[1].log /\ IsEvent(messages[1]) /\ 1 \in DOMAIN messages
      BY <1>e, <2>1, <2>4
    <3>2. l \in events
      BY <3>1 DEF PTInv, PTypes
    <3>3. /\ DOMAIN es = 1..Len(es) /\ DOMAIN es' = 1..(Len(es) + 1) /\ Len(es) \in Nat
          /\ es'[Len(es) + 1] = l /\ \A i \in 1..Len(es) : es'[i] = es[i]
      BY <1>a, <2>4, <3>2
    <3> HIDE DEF l
    <3>4. \A i \in DOMAIN es : Before(es[i], l)
      BY <3>1 DEF InLine
    <3>5. \A j \in DOMAIN messages' : IsEvent(messages'[j]) => Before(l, messages'[j].log)
      <4>1. \A j \in DOMAIN messages' : 1 < j + 1
        BY <1>e, <2>1
      <4>2. QED BY <1>e, <2>1, <3>1, <4>1 DEF InLine, Ordered
    <3>6. \A i \in DOMAIN es' : \/ i \in DOMAIN es /\ es'[i] = es[i]
                                \/ i = Len(es) + 1 /\ es'[i] = l
      BY <3>3
    <3>7. \A i, j \in DOMAIN es' : i < j => Before(es'[i], es'[j])
      <4> SUFFICES ASSUME NEW i \in DOMAIN es', NEW j \in DOMAIN es', i < j
                   PROVE  Before(es'[i], es'[j])
        OBVIOUS
      <4>1. i \in DOMAIN es /\ es'[i] = es[i]
        BY <3>3, <3>6
      <4>2. QED BY <3>4, <3>6, <4>1 DEF InLine
    <3>8. \A i \in DOMAIN es', j \in DOMAIN messages' :
            IsEvent(messages'[j]) => Before(es'[i], messages'[j].log)
      BY <1>e, <2>1, <3>5, <3>6 DEF InLine
    <3>9. QED BY <1>e, <2>1, <3>7, <3>8 DEF InLine
  <2>5. QED BY <2>2, <2>3, <2>4
<1>6. CASE Flush
  <2>1. es # <<>> /\ es' = Tail(es) /\ messages' = messages
    BY <1>6 DEF Flush, caller
  <2>2. /\ Len(es) \in Nat \ {0} /\ DOMAIN es = 1..Len(es) /\ DOMAIN es' = 1..(Len(es) - 1)
        /\ \A i \in 1..(Len(es) - 1) : es'[i] = es[i + 1]
    BY <1>a, <2>1, Rest
  <2>3. \A i \in DOMAIN es' : i + 1 \in DOMAIN es /\ es'[i] = es[i + 1]
    BY <2>2
  <2>4. \A i, j \in DOMAIN es' : i < j => i + 1 < j + 1
    BY <2>2
  <2>5. QED BY <2>1, <2>3, <2>4 DEF InLine
<1>7. CASE Flushed
  BY <1>7, <1>c, <1>d DEF Flushed, caller, Broken
<1>8. CASE Fail
  BY <1>8, <1>c DEF Fail, caller, Broken
<1>9. QED
  BY <1>1, <1>2, <1>3, <1>4, <1>5, <1>6, <1>7, <1>8 DEF PushedNext

-----------------------------------------------------------------------------
(* A stream that a node pushes keeps the promise of EventFeed.             *)

LEMMA NotBeforeItself == \A d \in Log : ~ Before(d, d)
BY DEF Log, Before

\* The operators of EventFeed are those of the streams.
LEMMA FeedOperators ==
  /\ \A S, e : Feed!FirstOf(S, e) <=> e \in S /\ \A d \in S \ {e} : Before(e, d)
  /\ \A e : Feed!Recorded(e) = Recorded(e)
  /\ \A a, b : Feed!Greater(a, b) = Larger(a, b)
  /\ Feed!ResumeHeight = ResumeHeight
<1>1. \A S, e : Feed!FirstOf(S, e) <=> e \in S /\ \A d \in S \ {e} : Before(e, d)
  BY DEF Feed!FirstOf, Feed!Before, Before
<1>2. \A e : Feed!Recorded(e) = Recorded(e)
  BY DEF Feed!Recorded, Recorded
<1>3. \A a, b : Feed!Greater(a, b) = Larger(a, b)
  BY DEF Feed!Greater, Larger
<1>4. Feed!ResumeHeight = ResumeHeight
  BY DEF Feed!ResumeHeight, ResumeHeight
<1>5. QED BY <1>1, <1>2, <1>3, <1>4

LEMMA FeedStutters ==
  ASSUME UNCHANGED <<streamVars, Source, IsOpen, ToCome, Due, Astray>>
  PROVE  UNCHANGED Feed!feedVars
BY DEF streamVars, caller, Feed!feedVars, Feed!streamVars, Feed!caller, Feed!promised

LEMMA FeedPassesOn ==
  ASSUME IsOpen, NEW e \in ToCome, \A d \in ToCome \ {e} : Before(e, d),
         delivered' = delivered \cup {e}, stored' \in Recorded(e), ToCome' = ToCome \ {e},
         UNCHANGED <<head, events, caller, Source, IsOpen, Due, Astray>>
  PROVE  Feed!NextFeed
<1>1. Feed!PassOn
  BY FeedOperators DEF Feed!PassOn, Feed!caller, caller
<1>2. QED BY <1>1 DEF Feed!NextFeed

LEMMA FeedEnds ==
  ASSUME IsOpen, ~ IsOpen', IsOpen' \in BOOLEAN,
         \/ UNCHANGED stored
         \/ /\ Source # "icon"
            /\ \E e \in ToCome : (\A d \in ToCome \ {e} : Before(e, d)) /\ stored' \in Recorded(e),
         ToCome' = {}, Due' = 0, Astray' = FALSE,
         UNCHANGED <<head, events, caller, delivered, Source>>
  PROVE  Feed!NextFeed
<1>1. Feed!Ends
  BY FeedOperators DEF Feed!Ends, Feed!caller, caller
<1>2. QED BY <1>1 DEF Feed!NextFeed

\* What EventFeed sees of a pushed stream.
LEMMA PushedView ==
  ASSUME part = "push"
  PROVE  Source = kind /\ IsOpen = (phase # "start") /\ ToCome = PushToCome
         /\ Due = PushDue /\ Astray = FALSE
BY DEF Polled, Source, IsOpen, ToCome, Due, Astray

LEMMA PushedViews ==
  ASSUME part = "push", part' = "push"
  PROVE  /\ Source = kind /\ IsOpen = (phase # "start") /\ ToCome = PushToCome
         /\ Due = PushDue /\ Astray = FALSE
         /\ Source' = kind' /\ IsOpen' = (phase' # "start") /\ ToCome' = PushToCome'
         /\ Due' = PushDue' /\ Astray' = FALSE
<1>1. Source' = kind' /\ IsOpen' = (phase' # "start") /\ ToCome' = PushToCome'
      /\ Due' = PushDue' /\ Astray' = FALSE
  BY DEF Polled, Source, IsOpen, ToCome, Due, Astray
<1>2. QED BY <1>1, PushedView

Kept == {es[i] : i \in DOMAIN es}

\* The first message of a subscription is about the first event on the way.
LEMMA FirstMessage ==
  ASSUME PTInv, InLine, kind = "subscription", messages # <<>>
  PROVE  /\ Head(messages).log \in OnTheWay
         /\ \A d \in OnTheWay \ {Head(messages).log} : Before(Head(messages).log, d)
         /\ es' = es /\ messages' = Tail(messages) =>
              OnTheWay' = OnTheWay \ {Head(messages).log}
<1> DEFINE e == Head(messages).log
<1>1. /\ Len(messages) \in Nat \ {0} /\ DOMAIN messages = 1..Len(messages)
      /\ DOMAIN Tail(messages) = 1..(Len(messages) - 1) /\ e = messages[1].log
      /\ \A i \in 1..(Len(messages) - 1) : Tail(messages)[i] = messages[i + 1]
  BY Rest DEF PTInv, PTypes
<1>2. DOMAIN es = {} /\ \A i \in DOMAIN messages : IsEvent(messages[i])
  BY DEF PTInv, PTypes
<1>3. \A x : x \in OnTheWay <=> \E j \in DOMAIN messages : messages[j].log = x
  BY <1>2, Way
<1>4. e \in events /\ e \in Log
  BY <1>1, <1>2 DEF PTInv, PTypes
<1> HIDE DEF e
<1>5. \A j \in DOMAIN messages : j # 1 => Before(e, messages[j].log)
  BY <1>1, <1>2 DEF InLine, Ordered
<1>6. e \in OnTheWay /\ \A d \in OnTheWay \ {e} : Before(e, d)
  BY <1>1, <1>3, <1>5
<1>7. ASSUME es' = es, messages' = Tail(messages) PROVE OnTheWay' = OnTheWay \ {e}
  <2>1. /\ OnTheWay' \subseteq OnTheWay
        /\ \A x \in OnTheWay : x \in OnTheWay' \/ x = e
    BY <1>7, <1>1, WayMoves DEF e
  <2>2. e \notin OnTheWay'
    <3> SUFFICES ASSUME e \in OnTheWay' PROVE FALSE
      OBVIOUS
    <3>1. PICK j \in DOMAIN messages' : messages'[j].log = e
      BY <1>2, <1>7 DEF OnTheWay
    <3>2. j + 1 \in DOMAIN messages /\ j + 1 # 1 /\ messages[j + 1].log = e
      BY <1>1, <1>7, <3>1
    <3>3. QED BY <1>4, <1>5, <3>2, NotBeforeItself
  <2>3. QED BY <2>1, <2>2
<1>8. QED BY <1>6, <1>7 DEF e

\* The first event kept for an ICON stream is the first on the way, and what else is kept
\* is what is left of its block.
LEMMA FirstKept ==
  ASSUME PTInv, IconQueues, InLine, phase = "flush", es # <<>>
  PROVE  /\ Head(es) \in Kept /\ Kept \subseteq OnTheWay /\ OnTheWay \subseteq events
         /\ Head(es).height < next
         /\ \A d \in OnTheWay \ {Head(es)} : Before(Head(es), d)
         /\ \A d \in OnTheWay : d.height = Head(es).height <=> d \in Kept
         /\ es' = Tail(es) /\ messages' = messages =>
              OnTheWay' = OnTheWay \ {Head(es)} /\ Kept' = Kept \ {Head(es)}
<1> DEFINE e == Head(es)
<1>1. /\ Len(es) \in Nat \ {0} /\ DOMAIN es = 1..Len(es)
      /\ DOMAIN Tail(es) = 1..(Len(es) - 1) /\ e = es[1] /\ e \in events
      /\ \A i \in 1..(Len(es) - 1) : Tail(es)[i] = es[i + 1]
  BY Rest DEF PTInv, PTypes
<1>2. \A x : x \in OnTheWay <=>
        \/ x \in Kept
        \/ \E j \in DOMAIN messages : IsEvent(messages[j]) /\ messages[j].log = x
  BY Way DEF Kept
<1>3. e \in Log /\ 1 \in DOMAIN es /\ \A x \in events : x.height \in Nat
  BY <1>1 DEF PTInv, PTypes, Log
<1> HIDE DEF e
<1>4. e \in Kept /\ e \in OnTheWay
  BY <1>1, <1>2, <1>3 DEF Kept
<1>5. \A j \in DOMAIN es : j # 1 => Before(e, es[j])
  BY <1>1, <1>3 DEF InLine
<1>6. \A j \in DOMAIN messages : IsEvent(messages[j]) =>
        Before(e, messages[j].log) /\ e.height < messages[j].log.height
  BY <1>1, <1>3 DEF InLine, IconQueues
<1>7. \A x \in Kept : x.height = e.height /\ (x = e \/ Before(e, x))
  BY <1>1, <1>3, <1>5 DEF Kept, IconQueues
<1>8. \A d \in OnTheWay \ {e} : Before(e, d)
  BY <1>2, <1>6, <1>7
<1>9. OnTheWay \subseteq events
  BY <1>2 DEF Kept, PTInv, PTypes
<1>10. \A d \in OnTheWay : d.height = e.height <=> d \in Kept
  BY <1>1, <1>2, <1>3, <1>6, <1>7
<1>11. ASSUME es' = Tail(es), messages' = messages
       PROVE  OnTheWay' = OnTheWay \ {e} /\ Kept' = Kept \ {e}
  <2>1. \A j \in DOMAIN es' : j + 1 \in DOMAIN es /\ j + 1 # 1 /\ es'[j] = es[j + 1]
    BY <1>1, <1>11
  <2>2. \A j \in DOMAIN es : j = 1 \/ (j - 1 \in DOMAIN es' /\ es'[j - 1] = es[j])
    BY <1>1, <1>11
  <2>3. Kept' \subseteq Kept
    BY <2>1 DEF Kept
  <2>4. e \notin Kept'
    <3> SUFFICES ASSUME e \in Kept' PROVE FALSE
      OBVIOUS
    <3>1. PICK j \in DOMAIN es' : es'[j] = e
      BY DEF Kept
    <3>2. QED BY <1>3, <1>5, <2>1, <3>1, NotBeforeItself
  <2>5. \A x \in Kept : x \in Kept' \/ x = e
    BY <1>1, <2>2 DEF Kept
  <2>6. Kept' = Kept \ {e}
    BY <2>3, <2>4, <2>5
  <2>7. \A x : x \in OnTheWay' <=>
          \/ x \in Kept'
          \/ \E j \in DOMAIN messages : IsEvent(messages[j]) /\ messages[j].log = x
    BY <1>11 DEF OnTheWay, IsEvent, Kept
  <2>8. ~ \E j \in DOMAIN messages : IsEvent(messages[j]) /\ messages[j].log = e
    BY <1>3, <1>6, NotBeforeItself
  <2>9. OnTheWay' = OnTheWay \ {e}
    BY <1>2, <2>6, <2>7, <2>8
  <2>10. QED BY <2>6, <2>9
<1>12. e.height < next
  BY <1>4 DEF IconQueues
<1>13. Kept \subseteq OnTheWay
  BY <1>2
<1>14. QED BY <1>4, <1>8, <1>9, <1>10, <1>11, <1>12, <1>13 DEF e

\* What is known of the queues of a pushed stream.
QInv == PTInv /\ (kind = "icon" => IconQueues) /\ InLine

\* What is to come, by the phase of the stream.
ByPhase ==
  /\ phase = "start" => PushToCome = {} /\ PushDue = 0
  /\ phase # "start" /\ closing => PushToCome = Kept /\ PushDue = 0 /\ kind = "icon"
  /\ phase # "start" /\ ~ closing /\ kind = "icon" =>
       PushToCome = OnTheWay \cup From(next) /\ PushDue = Larger(next, head + 1)
  /\ phase # "start" /\ kind = "subscription" =>
       PushToCome = OnTheWay /\ PushDue = head + 1 /\ phase = "open" /\ ~ closing
  /\ kind \in {"subscription", "icon"} /\ closing \in BOOLEAN
  /\ OnTheWay \subseteq events

LEMMA ToComeByPhase == QInv => ByPhase
<1> SUFFICES ASSUME QInv PROVE ByPhase
  OBVIOUS
<1>1. kind \in {"subscription", "icon"} /\ closing \in BOOLEAN
      /\ phase \in {"start", "open", "flush"}
  BY DEF QInv, PTInv, PTypes
<1>2. kind = "subscription" => ~ closing /\ phase # "flush"
  BY DEF QInv, PTInv, PTypes
<1>3. OnTheWay \subseteq events
  BY Way DEF QInv, PTInv, PTypes
<1>4. QED BY <1>1, <1>2, <1>3 DEF ByPhase, PushToCome, PushDue, Reading, Kept

LEMMA ToComeByPhaseNext == QInv' => ByPhase'
BY ToComeByPhase, PTL

LEMMA ProduceFeeds ==
  ASSUME QInv, QInv', Produce, part = "push", part' = "push"
  PROVE  Feed!NextFeed
<1>by. ByPhase /\ ByPhase'
  BY ToComeByPhase, ToComeByPhaseNext
<1>1. PICK n \in 0..MaxLogs :
        /\ events' = events \cup [height : {head + 1}, index : 1..n]
        /\ IF kind = "subscription" /\ phase = "open"
           THEN messages' = messages \o
                  [i \in 1..n |-> EventOf([height |-> head + 1, index |-> i])]
           ELSE UNCHANGED messages
  BY DEF Produce, caller
<1> DEFINE new == [height : {head + 1}, index : 1..n]
<1>2. /\ head' = head + 1
      /\ UNCHANGED <<kind, initHeight, resume, stored, phase, next, es, closing, delivered>>
  BY DEF Produce, caller
<1>3. head \in Nat \ {0} /\ next \in Nat /\ \A x \in events : x.height \in Nat
  BY DEF QInv, PTInv, PTypes, Log
<1>4. \A x : x \in events' <=> x \in events \/ x \in new
  BY <1>1
<1>5. \A x \in new : x.height = head + 1
  OBVIOUS
<1>6. Source' = Source /\ IsOpen' = IsOpen /\ Astray' = FALSE /\ Astray = FALSE
  BY <1>2, PushedViews
<1> HIDE DEF new
<1>7. \/ /\ Due = head + 1 /\ Due' = Due + 1 /\ ToCome' = ToCome \cup new
      \/ /\ Due # head + 1 /\ UNCHANGED <<Due, ToCome>>
  <2>1. CASE phase = "start"
    <3>1. Due = 0 /\ Due' = 0 /\ ToCome = {} /\ ToCome' = {}
      BY <1>2, <2>1, PushedViews, <1>by DEF ByPhase
    <3>2. QED BY <1>3, <3>1
  <2>2. CASE phase # "start" /\ closing
    <3>1. Due = 0 /\ Due' = 0 /\ ToCome = Kept /\ ToCome' = Kept'
      BY <1>2, <2>2, PushedViews, <1>by DEF ByPhase
    <3>2. Kept' = Kept
      BY <1>2 DEF Kept
    <3>3. QED BY <1>3, <3>1, <3>2
  <2>3. CASE phase # "start" /\ ~ closing /\ kind = "icon"
    <3>1. /\ Due = Larger(next, head + 1) /\ Due' = Larger(next, head + 2)
          /\ ToCome = OnTheWay \cup From(next) /\ ToCome' = OnTheWay' \cup From(next)'
      BY <1>2, <1>3, <2>3, PushedViews, <1>by DEF ByPhase
    <3>2. OnTheWay' = OnTheWay
      BY <1>1, <1>2, <2>3, WaySame
    <3>3. CASE next <= head + 1
      <4>1. From(next)' = From(next) \cup new
        BY <1>2, <1>3, <1>4, <1>5, <3>3 DEF From
      <4>2. Due = head + 1 /\ Due' = head + 2
        BY <1>3, <3>1, <3>3 DEF Larger
      <4>3. QED BY <1>3, <3>1, <3>2, <4>1, <4>2
    <3>4. CASE ~ next <= head + 1
      <4>1. From(next)' = From(next)
        BY <1>2, <1>3, <1>4, <1>5, <3>4 DEF From
      <4>2. Due = next /\ Due' = next
        BY <1>3, <3>1, <3>4 DEF Larger
      <4>3. QED BY <1>3, <3>1, <3>2, <3>4, <4>1, <4>2
    <3>5. QED BY <3>3, <3>4
  <2>4. CASE phase # "start" /\ kind = "subscription"
    <3>1. /\ Due = head + 1 /\ Due' = head + 2 /\ ToCome = OnTheWay /\ ToCome' = OnTheWay'
          /\ phase = "open"
      BY <1>2, <1>3, <2>4, PushedViews, <1>by DEF ByPhase
    <3>2. /\ DOMAIN messages = 1..Len(messages) /\ Len(messages) \in Nat
          /\ DOMAIN messages' = 1..(Len(messages) + n)
          /\ \A i \in DOMAIN messages : messages'[i] = messages[i]
          /\ \A i \in 1..n : messages'[Len(messages) + i]
                               = EventOf([height |-> head + 1, index |-> i])
          /\ \A i \in DOMAIN messages' : i \in DOMAIN messages \/ i - Len(messages) \in 1..n
      BY <1>1, <2>4, <3>1, ProducedMessages DEF QInv
    <3>3. /\ \A x : x \in OnTheWay' <=>
               \/ \E i \in DOMAIN es : es[i] = x
               \/ \E j \in DOMAIN messages' : IsEvent(messages'[j]) /\ messages'[j].log = x
      BY <1>2 DEF OnTheWay, IsEvent
    <3>4. \A i \in 1..n : IsEvent(EventOf([height |-> head + 1, index |-> i]))
            /\ EventOf([height |-> head + 1, index |-> i]).log
                 = [height |-> head + 1, index |-> i]
      BY DEF IsEvent, EventOf
    <3>5. \A x : x \in new <=> \E i \in 1..n : x = [height |-> head + 1, index |-> i]
      <4>1. \A x \in new : x.index \in 1..n /\ x = [height |-> head + 1, index |-> x.index]
        BY DEF new
      <4>2. \A i \in 1..n : [height |-> head + 1, index |-> i] \in new
        BY DEF new
      <4>3. QED BY <4>1, <4>2
    <3>6. \A x \in OnTheWay : x \in OnTheWay'
      BY <3>2, <3>3, Way
    <3>7. \A x \in new : x \in OnTheWay'
      <4> SUFFICES ASSUME NEW x \in new PROVE x \in OnTheWay'
        OBVIOUS
      <4>1. PICK i \in 1..n : x = [height |-> head + 1, index |-> i]
        BY <3>5
      <4>2. Len(messages) + i \in DOMAIN messages'
        BY <3>2
      <4>3. messages'[Len(messages) + i] = EventOf([height |-> head + 1, index |-> i])
        BY <3>2
      <4>4. QED BY <3>3, <3>4, <4>1, <4>2, <4>3
    <3>8. ASSUME NEW x \in OnTheWay' PROVE x \in OnTheWay \/ x \in new
      <4>1. CASE \E i \in DOMAIN es : es[i] = x
        BY <4>1, Way
      <4>2. CASE \E j \in DOMAIN messages' : IsEvent(messages'[j]) /\ messages'[j].log = x
        <5>1. PICK j \in DOMAIN messages' : IsEvent(messages'[j]) /\ messages'[j].log = x
          BY <4>2
        <5>2. CASE j \in DOMAIN messages
          BY <3>2, <5>1, <5>2, Way
        <5>3. CASE j - Len(messages) \in 1..n
          <6>1. Len(messages) + (j - Len(messages)) = j
            BY <3>2
          <6>2. messages'[j] = EventOf([height |-> head + 1, index |-> j - Len(messages)])
            BY <3>2, <5>3, <6>1
          <6>3. QED BY <3>4, <3>5, <5>1, <5>3, <6>2
        <5>4. QED BY <3>2, <5>2, <5>3
      <4>3. QED BY <3>3, <4>1, <4>2
    <3>9. OnTheWay' = OnTheWay \cup new
      BY <3>6, <3>7, <3>8
    <3>10. QED BY <1>3, <3>1, <3>9
  <2>5. QED BY <2>1, <2>2, <2>3, <2>4, <1>by DEF ByPhase
<1>8. Feed!NewBlock
  <2>1. /\ events' = events \cup new
        /\ \/ Astray /\ Feed!Anything
           \/ /\ Due = head + 1
              /\ ToCome' = ToCome \cup new /\ Due' = Due + 1 /\ Astray' = Astray
           \/ Due # head + 1 /\ UNCHANGED <<ToCome, Due, Astray>>
    BY <1>1, <1>6, <1>7 DEF new
  <2>2. head' = head + 1 /\ UNCHANGED <<initHeight, resume, stored, delivered, Source, IsOpen>>
    BY <1>2, <1>6
  <2>3. QED BY <2>1, <2>2 DEF Feed!NewBlock, Feed!caller, new
<1>9. QED BY <1>8 DEF Feed!NextFeed

LEMMA NodeNotifiesFeeds ==
  ASSUME QInv, QInv', NodeNotifies, part = "push", part' = "push"
  PROVE  UNCHANGED Feed!feedVars
<1>by. ByPhase /\ ByPhase'
  BY ToComeByPhase, ToComeByPhaseNext
<1>1. /\ UNCHANGED <<streamVars, kind, phase, es, closing>>
      /\ kind = "icon" /\ phase # "start" /\ messages = <<>>
      /\ next <= head /\ next' = next + 1
  BY DEF NodeNotifies, streamVars, caller
<1>2. head' = head /\ events' = events /\ UNCHANGED <<initHeight, resume>>
  BY <1>1 DEF streamVars, caller
<1>3. head \in Nat /\ next \in Nat /\ \A x \in events : x.height \in Nat
  BY DEF QInv, PTInv, PTypes, Log
<1>4. /\ \A i \in DOMAIN messages' : IsEvent(messages'[i]) =>
           messages'[i].log \in events /\ messages'[i].log.height = next
      /\ \A e \in events : e.height = next =>
           \E i \in DOMAIN messages' : IsEvent(messages'[i]) /\ messages'[i].log = e
  BY NodeSends DEF QInv
<1>5. CASE closing
  <2>1. Kept' = Kept
    BY <1>1 DEF Kept
  <2>2. UNCHANGED <<Source, IsOpen, ToCome, Due, Astray>>
    BY <1>1, <1>5, <2>1, <1>by, PushedViews DEF ByPhase
  <2>3. QED BY <1>1, <2>2, FeedStutters
<1>6. CASE ~ closing
  <2>1. /\ \A x : x \in OnTheWay' <=>
             \/ x \in Kept
             \/ \E j \in DOMAIN messages' : IsEvent(messages'[j]) /\ messages'[j].log = x
        /\ OnTheWay = Kept
    <3>1. DOMAIN messages = {}
      BY <1>1
    <3>2. QED BY <1>1, <3>1 DEF OnTheWay, Kept, IsEvent
  <2>2. /\ \A x : x \in From(next) <=> x \in events /\ x.height >= next
        /\ \A x : x \in From(next)' <=> x \in events /\ x.height >= next + 1
    BY <1>1, <1>2 DEF From
  <2>3. \A x : x \in From(next) <=> x \in From(next)' \/ (x \in events /\ x.height = next)
    BY <1>3, <2>2
  <2>4. \A x : x \in OnTheWay' \cup From(next)' <=> x \in OnTheWay \cup From(next)
    BY <1>4, <2>1, <2>3
  <2>5. OnTheWay' \cup From(next)' = OnTheWay \cup From(next)
    BY <2>4
  <2>6. /\ ToCome = OnTheWay \cup From(next) /\ Due = Larger(next, head + 1)
        /\ ToCome' = OnTheWay' \cup From(next)' /\ Due' = Larger(next + 1, head + 1)
    BY <1>1, <1>2, <1>6, <1>by, PushedViews DEF ByPhase
  <2>7. Due' = Due
    BY <1>1, <1>3, <2>6 DEF Larger
  <2>8. UNCHANGED <<Source, IsOpen, Astray>>
    BY <1>1, PushedViews
  <2>9. QED BY <1>1, <2>5, <2>6, <2>7, <2>8, FeedStutters
<1>7. QED BY <1>5, <1>6

LEMMA OpenFeeds ==
  ASSUME QInv, QInv', Open, part = "push", part' = "push"
  PROVE  Feed!NextFeed
<1>by. ByPhase /\ ByPhase'
  BY ToComeByPhase, ToComeByPhaseNext
<1>1. /\ UNCHANGED <<kind, initHeight, resume, head, events, stored, delivered>>
      /\ phase = "start" /\ phase' = "open" /\ closing' = FALSE
      /\ messages' = <<>> /\ es' = <<>>
      /\ next' = IF ResumeHeight = 0 THEN head ELSE ResumeHeight
  BY DEF Open, caller
<1>2. OnTheWay' = {}
  BY <1>1, WaySame
<1>3. Source' = Source /\ ~ IsOpen /\ IsOpen' = TRUE /\ Source = kind /\ Astray' = FALSE
  BY <1>1, PushedViews
<1>4. IF kind = "subscription" THEN ToCome' = {} /\ Due' = head + 1
      ELSE ToCome' = {e \in events : e.height >= next'} /\ Due' = Larger(next', head + 1)
  <2>1. CASE kind = "subscription"
    BY <1>1, <1>2, <1>by, <2>1, PushedViews DEF ByPhase
  <2>2. CASE kind # "subscription"
    <3>1. kind' = "icon" /\ phase' # "start" /\ ~ closing'
      BY <1>1, <1>by, <2>2 DEF ByPhase
    <3>2. ToCome' = OnTheWay' \cup From(next)' /\ Due' = Larger(next', head' + 1)
      BY <1>by, <3>1, PushedViews DEF ByPhase
    <3>3. From(next)' = {e \in events : e.height >= next'}
      BY <1>1 DEF From
    <3>4. QED BY <1>1, <1>2, <2>2, <3>2, <3>3
  <2>3. QED BY <2>1, <2>2
<1>5. kind # "poll"
  BY <1>by DEF ByPhase
<1>6. Feed!Begins
  BY <1>1, <1>3, <1>4, <1>5, FeedOperators DEF Feed!Begins, Feed!streamVars, Feed!caller
<1>7. QED BY <1>6 DEF Feed!NextFeed

LEMMA SubscribedLogFeeds ==
  ASSUME QInv, QInv', SubscribedLog, part = "push", part' = "push"
  PROVE  Feed!NextFeed
<1>by. ByPhase /\ ByPhase'
  BY ToComeByPhase, ToComeByPhaseNext
<1> DEFINE e == Head(messages).log
<1>1. /\ UNCHANGED <<kind, caller, head, events, phase, es>>
      /\ kind = "subscription" /\ phase = "open" /\ messages # <<>>
      /\ messages' = Tail(messages)
      /\ delivered' = delivered \cup {e} /\ stored' \in Recorded(e)
  BY DEF SubscribedLog, Accept
<1>2. /\ e \in OnTheWay /\ \A d \in OnTheWay \ {e} : Before(e, d)
      /\ OnTheWay' = OnTheWay \ {e}
  BY <1>1, FirstMessage DEF QInv
<1> HIDE DEF e
<1>3. ToCome = OnTheWay /\ ToCome' = OnTheWay' /\ Due' = Due
      /\ UNCHANGED <<Source, IsOpen, Astray>> /\ IsOpen
  BY <1>1, <1>by, PushedViews DEF ByPhase
<1>4. QED BY <1>1, <1>2, <1>3, FeedPassesOn

LEMMA NotifiedFeeds ==
  ASSUME QInv, QInv', Notified, part = "push", part' = "push"
  PROVE  UNCHANGED Feed!feedVars
<1>by. ByPhase /\ ByPhase'
  BY ToComeByPhase, ToComeByPhaseNext
<1>1. /\ UNCHANGED <<streamVars, kind, next, closing>> /\ kind = "icon" /\ phase = "open"
      /\ phase' \in {"open", "flush"}
  BY DEF Notified, streamVars
<1>2. OnTheWay' = OnTheWay
  BY NotifiedWay DEF QInv
<1>3. ~ closing
  BY <1>1 DEF QInv, IconQueues
<1>4. /\ head' = head /\ From(next)' = From(next)
  BY <1>1 DEF From, streamVars
<1>5. UNCHANGED <<Source, IsOpen, ToCome, Due, Astray>>
  BY <1>1, <1>2, <1>3, <1>4, <1>by, PushedViews DEF ByPhase
<1>6. QED BY <1>1, <1>5, FeedStutters

LEMMA FlushFeeds ==
  ASSUME QInv, QInv', Flush, part = "push", part' = "push"
  PROVE  Feed!NextFeed
<1>by. ByPhase /\ ByPhase'
  BY ToComeByPhase, ToComeByPhaseNext
<1> DEFINE e == Head(es)
<1>1. /\ UNCHANGED <<kind, caller, head, events, phase, next, messages>>
      /\ phase = "flush" /\ es # <<>> /\ es' = Tail(es) /\ stored' \in Recorded(e)
      /\ \/ delivered' = delivered \cup {e} /\ closing' = closing
         \/ delivered' = delivered /\ closing' = TRUE
  BY DEF Flush, Accept
<1>2. kind = "icon" /\ kind' = "icon" /\ IconQueues /\ PTInv /\ InLine
  BY <1>1, <1>by DEF QInv, ByPhase, PTInv, PTypes
<1>3. /\ e \in Kept /\ Kept \subseteq OnTheWay /\ OnTheWay \subseteq events
      /\ e.height < next
      /\ \A d \in OnTheWay \ {e} : Before(e, d)
      /\ \A d \in OnTheWay : d.height = e.height <=> d \in Kept
      /\ OnTheWay' = OnTheWay \ {e} /\ Kept' = Kept \ {e}
  BY <1>1, <1>2, FirstKept
<1> HIDE DEF e
<1>4. next \in Nat /\ \A x \in events : x.height \in Nat
  BY DEF QInv, PTInv, PTypes, Log
<1>5. \A d \in From(next) : Before(e, d) /\ d # e /\ d.height # e.height
  BY <1>3, <1>4 DEF From, Before
<1>6. From(next)' = From(next)
  BY <1>1 DEF From
<1>7. /\ Source = "icon" /\ Source' = Source /\ IsOpen /\ IsOpen' = IsOpen
      /\ UNCHANGED Astray /\ Astray = FALSE
  BY <1>1, <1>2, PushedViews
<1>8. IF closing THEN ToCome = Kept /\ Due = 0
      ELSE ToCome = OnTheWay \cup From(next) /\ Due = Larger(next, head + 1)
  BY <1>1, <1>2, <1>by, PushedViews DEF ByPhase
<1>9. IF closing' THEN ToCome' = Kept' /\ Due' = 0
      ELSE ToCome' = OnTheWay' \cup From(next)' /\ Due' = Larger(next, head + 1)
  BY <1>1, <1>2, <1>by, PushedViews DEF ByPhase
<1>10. e \in ToCome /\ \A d \in ToCome \ {e} : Before(e, d)
  BY <1>3, <1>5, <1>8
<1>11. CASE delivered' = delivered \cup {e} /\ closing' = closing
  <2>1. ToCome' = ToCome \ {e} /\ Due' = Due
    BY <1>3, <1>5, <1>6, <1>8, <1>9, <1>11
  <2>2. QED BY <1>1, <1>7, <1>10, <1>11, <2>1, FeedPassesOn
<1>12. CASE delivered' = delivered /\ closing' = TRUE
  <2>1. ToCome' = Kept \ {e} /\ Due' = 0
    BY <1>3, <1>9, <1>12
  <2>2. \A d : d \in Kept \ {e} <=> d \in ToCome \ {e} /\ d.height = e.height
    BY <1>3, <1>5, <1>8
  <2>3. ToCome' = {d \in ToCome \ {e} : d.height = e.height}
    BY <2>1, <2>2
  <2>4. Feed!Refused
    BY <1>1, <1>7, <1>10, <1>12, <2>1, <2>3, FeedOperators DEF Feed!Refused, Feed!caller, caller
  <2>5. QED BY <2>4 DEF Feed!NextFeed
<1>13. QED BY <1>1, <1>11, <1>12

LEMMA BrokenFeeds ==
  ASSUME QInv, QInv', phase # "start", Broken,
         \/ UNCHANGED stored
         \/ /\ kind = "subscription" /\ messages # <<>>
            /\ stored' \in Recorded(Head(messages).log),
         UNCHANGED <<kind, caller, head, events, delivered>>, part = "push", part' = "push"
  PROVE  Feed!NextFeed
<1>by. ByPhase /\ ByPhase'
  BY ToComeByPhase, ToComeByPhaseNext
<1>1. phase' = "start"
  BY DEF Broken
<1>2. /\ IsOpen /\ ~ IsOpen' /\ IsOpen' \in BOOLEAN /\ ToCome' = {} /\ Due' = 0
      /\ Astray' = FALSE /\ Source' = Source /\ Source = kind
  BY <1>1, <1>by, PushedViews DEF ByPhase
<1>3. \/ UNCHANGED stored
      \/ /\ Source # "icon"
         /\ \E e \in ToCome : (\A d \in ToCome \ {e} : Before(e, d)) /\ stored' \in Recorded(e)
  <2>1. CASE UNCHANGED stored
    BY <2>1
  <2>2. CASE /\ kind = "subscription" /\ messages # <<>>
             /\ stored' \in Recorded(Head(messages).log)
    <3>1. ToCome = OnTheWay
      BY <1>by, <2>2, PushedViews DEF ByPhase
    <3>2. Head(messages).log \in OnTheWay
          /\ \A d \in OnTheWay \ {Head(messages).log} : Before(Head(messages).log, d)
      BY <2>2, FirstMessage DEF QInv
    <3>3. QED BY <1>2, <2>2, <3>1, <3>2
  <2>3. QED BY <2>1, <2>2
<1>4. QED BY <1>2, <1>3, FeedEnds

LEMMA FlushedFeeds ==
  ASSUME QInv, QInv', Flushed, part = "push", part' = "push"
  PROVE  Feed!NextFeed \/ UNCHANGED Feed!feedVars
<1>by. ByPhase /\ ByPhase'
  BY ToComeByPhase, ToComeByPhaseNext
<1>1. UNCHANGED <<kind, caller, head, events, next, delivered>> /\ phase = "flush"
      /\ IF closing THEN UNCHANGED stored /\ Broken
         ELSE phase' = "open" /\ UNCHANGED <<messages, es, closing, stored>>
  BY DEF Flushed
<1>2. CASE closing
  BY <1>1, <1>2, BrokenFeeds
<1>3. CASE ~ closing
  <2>1. kind = "icon" /\ kind' = "icon"
    BY <1>1, <1>by DEF ByPhase
  <2>2. OnTheWay' = OnTheWay /\ From(next)' = From(next) /\ head' = head
    BY <1>1, <1>3, WaySame DEF From
  <2>3. UNCHANGED <<Source, IsOpen, ToCome, Due, Astray>>
    BY <1>1, <1>3, <1>by, <2>1, <2>2, PushedViews DEF ByPhase
  <2>4. UNCHANGED streamVars
    BY <1>1, <1>3 DEF streamVars
  <2>5. QED BY <2>3, <2>4, FeedStutters
<1>4. QED BY <1>2, <1>3

LEMMA PushedFeeds ==
  ASSUME QInv, QInv', PushedNext, part = "push", part' = "push"
  PROVE  Feed!NextFeed \/ UNCHANGED Feed!feedVars
<1>1. CASE Produce
  BY <1>1, ProduceFeeds
<1>2. CASE NodeNotifies
  BY <1>2, NodeNotifiesFeeds
<1>3. CASE Open
  BY <1>3, OpenFeeds
<1>4. CASE SubscribedLog
  BY <1>4, SubscribedLogFeeds
<1>5. CASE Notified
  BY <1>5, NotifiedFeeds
<1>6. CASE Flush
  BY <1>6, FlushFeeds
<1>7. CASE Flushed
  BY <1>7, FlushedFeeds
<1>8. CASE Fail
  BY <1>8, BrokenFeeds DEF Fail
<1>9. QED BY <1>1, <1>2, <1>3, <1>4, <1>5, <1>6, <1>7, <1>8 DEF PushedNext

-----------------------------------------------------------------------------
(* A polled stream keeps the promise of EventFeed.                         *)

\* How the range and the polled block lie to each other, wherever the stream began.
PollInv ==
  /\ Polling => current >= 1
  /\ pc = "header" => current <= head + 1 /\ (from = 0 => current <= head)
  /\ pc \in {"filter", "callback"} => current <= head /\ 1 <= from
  /\ pc \in {"filter", "callback"} /\ ~ RunsAhead => from <= to

LEMMA PollStep ==
  ASSUME Known, PollInv, [Next]_vars
  PROVE  PollInv'
<1>types. /\ head \in Nat \ {0} /\ stored \in Nat /\ initHeight \in Nat /\ resume \in {0, 1}
          /\ current \in Nat /\ from \in Nat /\ to \in Nat /\ MaxLogQueryRange \in Nat
          /\ pc \in {"start", "header", "filter", "callback"}
  BY PollAssumption, StreamAssumption DEF Known, TypeOK
<1> USE DEF PollInv, Polling, RunsAhead
<1>1. CASE Mine
  BY <1>1, <1>types DEF Mine
<1>2. CASE Begin
  <2>1. ResumeHeight \in Nat
    BY <1>types DEF ResumeHeight
  <2>2. QED BY <1>2, <1>types, <2>1 DEF Begin
<1>3. CASE OnBlockHeader
  <2>1. from' = (IF from = 0 THEN current ELSE from) /\ current' = current
        /\ to' = (IF from # 0 /\ TooFar THEN from + MaxLogQueryRange ELSE current)
        /\ pc' = "filter" /\ pc = "header" /\ current <= head /\ head' = head
    BY <1>3 DEF OnBlockHeader
  <2>2. from <= current => from' <= to'
    BY <1>types, <2>1
  <2>3. QED BY <1>types, <2>1, <2>2
<1>4. CASE FilterLogs
  BY <1>4, <1>types DEF FilterLogs
<1>5. CASE Callback
  BY <1>5, <1>types DEF Callback
<1>6. CASE RangeDone
  BY <1>6, <1>types DEF RangeDone, NextFrom
<1>7. CASE Stop
  BY <1>7, <1>types DEF Stop
<1>8. CASE UNCHANGED vars
  BY <1>8 DEF vars, streamVars, pollVars
<1>9. QED BY <1>1, <1>2, <1>3, <1>4, <1>5, <1>6, <1>7, <1>8 DEF Next

LEMMA PolledViews ==
  ASSUME part = "poll", part' = "poll"
  PROVE  /\ Source = "poll" /\ IsOpen = Polling /\ ToCome = PollToCome /\ Due = PollDue
         /\ Astray = RunsAhead
         /\ Source' = "poll" /\ IsOpen' = Polling' /\ ToCome' = PollToCome' /\ Due' = PollDue'
         /\ Astray' = RunsAhead'
<1>1. Source = "poll" /\ IsOpen = Polling /\ ToCome = PollToCome /\ Due = PollDue
      /\ Astray = RunsAhead
  BY DEF Polled, Source, IsOpen, ToCome, Due, Astray, RunsAhead
<1>2. Source' = "poll" /\ IsOpen' = Polling' /\ ToCome' = PollToCome' /\ Due' = PollDue'
      /\ Astray' = RunsAhead'
  BY DEF Polled, Source, IsOpen, ToCome, Due, Astray, RunsAhead
<1>3. QED BY <1>1, <1>2

\* What is to come, by the step the poll is at.
ByStep ==
  /\ pc = "start" => ToCome = {} /\ Due = 0 /\ Astray = FALSE
  /\ pc # "start" => Due = Larger(from, head + 1)
                     /\ Astray = (from > current \/ (pc # "header" /\ to > current))
  /\ pc \in {"header", "filter"} =>
       ToCome = {e \in events : e.height >= (IF from = 0 THEN current ELSE from)}
  /\ pc = "callback" => ToCome = logs \cup {e \in events : e.height >= to + 1}
  /\ Source = "poll" /\ IsOpen = (pc # "start")
  /\ ToCome \subseteq events /\ Due \in Nat /\ Astray \in BOOLEAN

LEMMA ToComeByStep == Known /\ part = "poll" => ByStep
<1> SUFFICES ASSUME Known, part = "poll" PROVE ByStep
  OBVIOUS
<1>1. /\ head \in Nat /\ from \in Nat /\ logs \subseteq events
      /\ pc \in {"start", "header", "filter", "callback"}
  BY PollAssumption DEF Known, TypeOK
<1>2. /\ Source = "poll" /\ IsOpen = Polling /\ ToCome = PollToCome /\ Due = PollDue
      /\ Astray = RunsAhead
  BY DEF Polled, Source, IsOpen, ToCome, Due, Astray, RunsAhead
<1>3. \A h : From(h) \subseteq events
  BY DEF From
<1>4. PollToCome \subseteq events
  BY <1>1, <1>3 DEF PollToCome
<1>5. PollDue \in Nat
  BY <1>1 DEF PollDue, Larger
<1>6. RunsAhead \in BOOLEAN
  BY DEF RunsAhead
<1>7. QED
  BY <1>1, <1>2, <1>4, <1>5, <1>6 DEF ByStep, PollToCome, From, PollDue, RunsAhead, Polling

LEMMA ToComeByStepNext == (Known /\ part = "poll")' => ByStep'
BY ToComeByStep, PTL

\* A stream that began above the head may do with what is to come as it likes.
LEMMA FeedWanders ==
  ASSUME ByStep, ByStep', Astray, UNCHANGED <<streamVars, Source, IsOpen>>
  PROVE  Feed!NextFeed
<1>1. ToCome' \subseteq events' /\ Due' \in Nat /\ Astray' \in BOOLEAN
  BY DEF ByStep
<1>2. Feed!Wander
  BY <1>1 DEF Feed!Wander, Feed!Anything, streamVars, caller, Feed!streamVars, Feed!caller
<1>3. QED BY <1>2 DEF Feed!NextFeed

PollKnown == Known /\ PollInv /\ part = "poll"

LEMMA MineFeeds == PollKnown /\ PollKnown' /\ Mine => Feed!NextFeed
<1> SUFFICES ASSUME PollKnown, PollKnown', Mine PROVE Feed!NextFeed
  OBVIOUS
<1>by. ByStep /\ ByStep'
  BY ToComeByStep, ToComeByStepNext DEF PollKnown
<1>1. PICK n \in 0..MaxLogs : events' = events \cup [height : {head + 1}, index : 1..n]
  BY DEF Mine
<1> DEFINE new == [height : {head + 1}, index : 1..n]
<1>2. /\ head' = head + 1
      /\ UNCHANGED <<caller, stored, pc, current, from, to, logs, delivered>>
  BY DEF Mine
<1>3. /\ head \in Nat /\ current \in Nat /\ from \in Nat /\ to \in Nat
      /\ \A x \in events : x.height \in Nat
      /\ pc \in {"start", "header", "filter", "callback"}
  BY PollAssumption DEF PollKnown, Known, TypeOK, Log
<1>4. /\ \A x : x \in events' <=> x \in events \/ x \in new
      /\ \A x \in new : x.height = head + 1
  BY <1>1
<1>5. Source' = Source /\ IsOpen' = IsOpen
  BY <1>2, <1>by DEF ByStep
<1> HIDE DEF new
<1>6. ASSUME NEW h \in Nat, h <= head + 1
      PROVE  {e \in events' : e.height >= h} = {e \in events : e.height >= h} \cup new
  BY <1>3, <1>4, <1>6
<1>7. \/ Astray /\ Feed!Anything
      \/ /\ Due = head + 1
         /\ ToCome' = ToCome \cup new /\ Due' = Due + 1 /\ Astray' = Astray
      \/ Due # head + 1 /\ UNCHANGED <<ToCome, Due, Astray>>
  <2>1. CASE Astray
    BY <1>by, <2>1 DEF ByStep, Feed!Anything
  <2>2. CASE pc = "start"
    BY <1>2, <1>3, <1>by, <2>2 DEF ByStep
  <2>3. CASE ~ Astray /\ pc # "start"
    <3>1. from <= current /\ current <= head + 1 /\ (pc # "header" => to <= current /\ current <= head)
      <4>1. Astray = (from > current \/ (pc # "header" /\ to > current))
        BY <1>by, <2>3 DEF ByStep
      <4>2. ~ (from > current) /\ (pc # "header" => ~ (to > current))
        BY <2>3, <4>1, Zenon
      <4>3. QED BY <1>3, <2>3, <4>2 DEF PollKnown, PollInv
    <3>2. Due = head + 1 /\ Due' = Due + 1
      BY <1>2, <1>3, <1>by, <2>3, <3>1 DEF ByStep, Larger
    <3>3. Astray' = Astray
      BY <1>2, <1>by, <2>3 DEF ByStep
    <3>4. ToCome' = ToCome \cup new
      <4>1. CASE pc = "callback"
        <5>1. to + 1 \in Nat /\ to + 1 <= head + 1
          BY <1>3, <3>1, <4>1
        <5>2. /\ ToCome = logs \cup {e \in events : e.height >= to + 1}
              /\ ToCome' = logs \cup {e \in events' : e.height >= to + 1}
          BY <1>2, <1>by, <4>1 DEF ByStep
        <5>3. QED BY <1>6, <5>1, <5>2
      <4>2. CASE pc \in {"header", "filter"}
        <5> DEFINE h == IF from = 0 THEN current ELSE from
        <5>1. h \in Nat /\ h <= head + 1
          BY <1>3, <3>1
        <5>2. /\ ToCome = {e \in events : e.height >= h}
              /\ ToCome' = {e \in events' : e.height >= h}
          BY <1>2, <1>by, <4>2 DEF ByStep
        <5> HIDE DEF h
        <5>3. QED BY <1>6, <5>1, <5>2
      <4>3. QED BY <1>3, <2>3, <4>1, <4>2
    <3>5. QED BY <3>2, <3>3, <3>4
  <2>4. QED BY <1>by, <2>1, <2>2, <2>3 DEF ByStep
<1>8. Feed!NewBlock
  <2>1. /\ events' = events \cup new /\ head' = head + 1
        /\ UNCHANGED <<caller, stored, delivered, Source, IsOpen>>
    BY <1>1, <1>2, <1>5 DEF new
  <2>2. QED BY <1>7, <2>1 DEF Feed!NewBlock, Feed!caller, caller, new
<1>9. QED BY <1>8 DEF Feed!NextFeed

\* A stream that did not run ahead: the range ends at or below the polled block.
LEMMA NotAhead ==
  ASSUME ByStep, ~ Astray, pc # "start", current \in Nat, from \in Nat, to \in Nat
  PROVE  from <= current /\ (pc # "header" => to <= current)
<1>1. Astray = (from > current \/ (pc # "header" /\ to > current))
  BY DEF ByStep
<1>2. ~ (from > current) /\ (pc # "header" => ~ (to > current))
  BY <1>1, Zenon
<1>3. QED BY <1>2

LEMMA BeginFeeds == PollKnown /\ PollKnown' /\ Begin => Feed!NextFeed
<1> SUFFICES ASSUME PollKnown, PollKnown', Begin PROVE Feed!NextFeed
  OBVIOUS
<1>by. ByStep /\ ByStep'
  BY ToComeByStep, ToComeByStepNext DEF PollKnown
<1>1. /\ UNCHANGED <<head, events, initHeight, resume, stored, delivered>>
      /\ pc = "start" /\ pc' = "header" /\ from' = ResumeHeight /\ current' = head
  BY DEF Begin, caller
<1>2. /\ head \in Nat \ {0} /\ stored \in Nat /\ initHeight \in Nat /\ resume \in {0, 1}
      /\ ResumeHeight \in Nat
  BY PollAssumption DEF PollKnown, Known, TypeOK, ResumeHeight
<1> DEFINE first == IF ResumeHeight = 0 THEN head ELSE ResumeHeight
<1>3. Source = "poll" /\ Source' = "poll" /\ ~ IsOpen /\ IsOpen' = TRUE
  BY <1>1, <1>by DEF ByStep
<1>4. ToCome' = {e \in events : e.height >= first}
  BY <1>1, <1>by DEF ByStep
<1>5. Due' = Larger(first, head + 1)
  BY <1>1, <1>2, <1>by DEF ByStep, Larger
<1>6. Astray' = (ResumeHeight > head)
  BY <1>1, <1>by DEF ByStep
<1>7. Feed!Begins
  BY <1>1, <1>3, <1>4, <1>5, <1>6, FeedOperators
     DEF Feed!Begins, Feed!streamVars, Feed!caller
<1>8. QED BY <1>7 DEF Feed!NextFeed

LEMMA OnBlockHeaderFeeds ==
  PollKnown /\ PollKnown' /\ OnBlockHeader => Feed!NextFeed \/ UNCHANGED Feed!feedVars
<1> SUFFICES ASSUME PollKnown, PollKnown', OnBlockHeader
             PROVE  Feed!NextFeed \/ UNCHANGED Feed!feedVars
  OBVIOUS
<1>by. ByStep /\ ByStep'
  BY ToComeByStep, ToComeByStepNext DEF PollKnown
<1>1. /\ UNCHANGED <<head, events, caller, stored, current, delivered>>
      /\ pc = "header" /\ pc' = "filter" /\ current <= head
      /\ from' = (IF from = 0 THEN current ELSE from)
      /\ to' = (IF from # 0 /\ TooFar THEN from + MaxLogQueryRange ELSE current)
  BY DEF OnBlockHeader
<1>2. /\ head \in Nat /\ current \in Nat /\ from \in Nat /\ to \in Nat
      /\ MaxLogQueryRange \in Nat /\ Modulus \in Nat
  BY PollAssumption DEF PollKnown, Known, TypeOK
<1>3. UNCHANGED <<streamVars, Source, IsOpen>>
  BY <1>1, <1>by DEF ByStep, streamVars, caller
<1>4. CASE Astray
  BY <1>3, <1>4, <1>by, FeedWanders
<1>5. CASE ~ Astray
  <2>1. from <= current
    BY <1>1, <1>2, <1>5, <1>by, NotAhead
  <2>2. to' <= current
    BY <1>1, <1>2, <2>1 DEF TooFar, Sub64
  <2>3. from' <= current /\ from' \in Nat /\ to' \in Nat /\ (from' = 0 => current = 0)
    BY <1>1, <1>2, <2>1
  <2>4. Astray' = FALSE
    <3>1. Astray' = (from' > current' \/ (pc' # "header" /\ to' > current'))
      BY <1>1, <1>by DEF ByStep
    <3>2. ~ (from' > current') /\ ~ (to' > current')
      BY <1>1, <1>2, <2>2, <2>3
    <3>3. QED BY <3>1, <3>2, Zenon
  <2>5. Due' = Due
    BY <1>1, <1>2, <1>by, <2>1, <2>3 DEF ByStep, Larger
  <2>6. ToCome' = ToCome
    BY <1>1, <1>by, <2>3 DEF ByStep
  <2>7. Astray' = Astray
    BY <1>5, <1>by, <2>4 DEF ByStep
  <2>8. QED BY <1>3, <2>5, <2>6, <2>7, FeedStutters
<1>6. QED BY <1>4, <1>5

LEMMA FilterLogsFeeds ==
  PollKnown /\ PollKnown' /\ FilterLogs => Feed!NextFeed \/ UNCHANGED Feed!feedVars
<1> SUFFICES ASSUME PollKnown, PollKnown', FilterLogs
             PROVE  Feed!NextFeed \/ UNCHANGED Feed!feedVars
  OBVIOUS
<1>by. ByStep /\ ByStep'
  BY ToComeByStep, ToComeByStepNext DEF PollKnown
<1>1. /\ UNCHANGED <<head, events, caller, stored, current, from, to, delivered>>
      /\ pc = "filter" /\ pc' = "callback"
      /\ logs' = {e \in events : from <= e.height /\ e.height <= to}
  BY DEF FilterLogs, InRange
<1>2. /\ head \in Nat /\ current \in Nat /\ from \in Nat \ {0} /\ to \in Nat
      /\ \A x \in events : x.height \in Nat
  BY <1>1, PollAssumption DEF PollKnown, Known, TypeOK, Log, PollInv
<1>3. UNCHANGED <<streamVars, Source, IsOpen>>
  BY <1>1, <1>by DEF ByStep, streamVars, caller
<1>4. CASE Astray
  BY <1>3, <1>4, <1>by, FeedWanders
<1>5. CASE ~ Astray
  <2>1. from <= to
    <3>1. ~ RunsAhead
      BY <1>5, <1>by, <1>1 DEF ByStep, RunsAhead, Polling, PollKnown
    <3>2. QED BY <1>1, <3>1 DEF PollKnown, PollInv
  <2>2. /\ ToCome = {e \in events : e.height >= from}
        /\ ToCome' = logs' \cup {e \in events : e.height >= to + 1}
        /\ Due' = Due /\ Astray' = Astray
    BY <1>1, <1>2, <1>by DEF ByStep
  <2>3. \A x \in events : x.height >= from <=> x \in logs' \/ x.height >= to + 1
    BY <1>1, <1>2, <2>1
  <2>4. \A x : x \in ToCome' <=> x \in ToCome
    BY <1>1, <2>2, <2>3
  <2>5. ToCome' = ToCome
    BY <2>4
  <2>6. QED BY <1>3, <2>2, <2>5, FeedStutters
<1>6. QED BY <1>4, <1>5

\* The next log of an answer comes before all that is still to come.
LEMMA FirstAnswered ==
  ASSUME PollKnown, pc = "callback", NEW e \in logs, IsNext(e)
  PROVE  /\ e \in ToCome /\ \A d \in ToCome \ {e} : Before(e, d)
         /\ ToCome \ {e} = (logs \ {e}) \cup {d \in events : d.height >= to + 1}
<1>1. ToCome = logs \cup {d \in events : d.height >= to + 1}
  BY ToComeByStep DEF PollKnown, ByStep
<1>2. \A x \in events : x.height \in Nat
  BY DEF PollKnown, Known, TypeOK, Log
<1>3. e \in events /\ e.height <= to /\ to \in Nat
  BY DEF PollKnown, Known, TypeOK
<1>4. \A d \in events : d.height >= to + 1 => Before(e, d) /\ d # e
  BY <1>2, <1>3 DEF Before
<1>5. \A d \in logs \ {e} : Before(e, d)
  BY DEF IsNext
<1>6. QED BY <1>1, <1>4, <1>5

LEMMA CallbackFeeds == PollKnown /\ PollKnown' /\ Callback => Feed!NextFeed
<1> SUFFICES ASSUME PollKnown, PollKnown', Callback PROVE Feed!NextFeed
  OBVIOUS
<1>by. ByStep /\ ByStep'
  BY ToComeByStep, ToComeByStepNext DEF PollKnown
<1>1. PICK e \in logs : /\ IsNext(e)
                        /\ delivered' = delivered \cup {e}
                        /\ logs' = logs \ {e}
                        /\ stored' \in Recorded(e)
  BY DEF Callback
<1>2. UNCHANGED <<head, events, caller, pc, current, from, to>> /\ pc = "callback"
  BY DEF Callback
<1>3. /\ e \in ToCome /\ \A d \in ToCome \ {e} : Before(e, d)
      /\ ToCome \ {e} = (logs \ {e}) \cup {d \in events : d.height >= to + 1}
  BY <1>1, <1>2, FirstAnswered
<1>4. ToCome' = ToCome \ {e}
  BY <1>1, <1>2, <1>3, <1>by DEF ByStep
<1>5. IsOpen /\ UNCHANGED <<Source, IsOpen, Due, Astray>>
  BY <1>2, <1>by DEF ByStep
<1>6. QED BY <1>1, <1>2, <1>3, <1>4, <1>5, FeedPassesOn

LEMMA RangeDoneFeeds ==
  PollKnown /\ PollKnown' /\ RangeDone => Feed!NextFeed \/ UNCHANGED Feed!feedVars
<1> SUFFICES ASSUME PollKnown, PollKnown', RangeDone
             PROVE  Feed!NextFeed \/ UNCHANGED Feed!feedVars
  OBVIOUS
<1>by. ByStep /\ ByStep'
  BY ToComeByStep, ToComeByStepNext DEF PollKnown
<1>1. /\ UNCHANGED <<head, events, caller, stored, to, logs, delivered>>
      /\ pc = "callback" /\ pc' = "header" /\ logs = {}
      /\ from' = to + 1 /\ current' = current + 1
  BY DEF RangeDone, NextFrom
<1>2. /\ head \in Nat /\ current \in Nat /\ from \in Nat /\ to \in Nat /\ current <= head
  BY <1>1, PollAssumption DEF PollKnown, Known, TypeOK, PollInv
<1>3. UNCHANGED <<streamVars, Source, IsOpen>>
  BY <1>1, <1>by DEF ByStep, streamVars, caller
<1>4. CASE Astray
  BY <1>3, <1>4, <1>by, FeedWanders
<1>5. CASE ~ Astray
  <2>1. from <= current /\ to <= current
    BY <1>1, <1>2, <1>5, <1>by, NotAhead
  <2>2. Astray' = FALSE
    <3>1. Astray' = (from' > current' \/ (pc' # "header" /\ to' > current'))
      BY <1>1, <1>by DEF ByStep
    <3>2. ~ (from' > current')
      BY <1>1, <1>2, <2>1
    <3>3. QED BY <1>1, <3>1, <3>2, Zenon
  <2>3. Due' = Due
    BY <1>1, <1>2, <1>by, <2>1 DEF ByStep, Larger
  <2>4. ToCome' = ToCome
    <3>1. ToCome = {e \in events : e.height >= to + 1}
      BY <1>1, <1>by DEF ByStep
    <3>2. to + 1 # 0
      BY <1>2
    <3>3. ToCome' = {e \in events : e.height >= to + 1}
      BY <1>1, <1>by, <3>2 DEF ByStep
    <3>4. QED BY <3>1, <3>3
  <2>5. Astray' = Astray
    BY <1>5, <1>by, <2>2 DEF ByStep
  <2>6. QED BY <1>3, <2>3, <2>4, <2>5, FeedStutters
<1>6. QED BY <1>4, <1>5

LEMMA StopFeeds == PollKnown /\ PollKnown' /\ Stop => Feed!NextFeed
<1> SUFFICES ASSUME PollKnown, PollKnown', Stop PROVE Feed!NextFeed
  OBVIOUS
<1>by. ByStep /\ ByStep'
  BY ToComeByStep, ToComeByStepNext DEF PollKnown
<1>1. /\ UNCHANGED <<head, events, caller, delivered>> /\ pc # "start" /\ pc' = "start"
      /\ \/ UNCHANGED stored
         \/ pc = "callback" /\ \E e \in logs : IsNext(e) /\ stored' \in Recorded(e)
  BY DEF Stop
<1>2. /\ IsOpen /\ ~ IsOpen' /\ IsOpen' \in BOOLEAN /\ ToCome' = {} /\ Due' = 0
      /\ Astray' = FALSE /\ Source = "poll" /\ Source' = Source
  BY <1>1, <1>by DEF ByStep
<1>3. \/ UNCHANGED stored
      \/ \E e \in ToCome : (\A d \in ToCome \ {e} : Before(e, d)) /\ stored' \in Recorded(e)
  <2>1. CASE UNCHANGED stored
    BY <2>1
  <2>2. ASSUME pc = "callback", NEW e \in logs, IsNext(e), stored' \in Recorded(e)
        PROVE  \E x \in ToCome : (\A d \in ToCome \ {x} : Before(x, d)) /\ stored' \in Recorded(x)
    <3>1. e \in ToCome /\ \A d \in ToCome \ {e} : Before(e, d)
      BY <2>2, FirstAnswered
    <3>2. QED BY <2>2, <3>1
  <2>3. QED BY <1>1, <2>1, <2>2
<1>4. QED BY <1>1, <1>2, <1>3, FeedEnds

LEMMA PolledFeeds ==
  PollKnown /\ PollKnown' /\ Next => Feed!NextFeed \/ UNCHANGED Feed!feedVars
BY MineFeeds, BeginFeeds, OnBlockHeaderFeeds, FilterLogsFeeds, CallbackFeeds, RangeDoneFeeds,
   StopFeeds DEF Next

-----------------------------------------------------------------------------
(* All streams do.                                                         *)

allStreamVars == <<part, streamVars, pollVars, pushVars>>

StreamsInv == \/ part = "poll" /\ Known /\ PollInv
              \/ part = "push" /\ QInv /\ PInv

LEMMA StreamsInit == InitStreams => StreamsInv /\ Feed!InitFeed
<1> SUFFICES ASSUME InitStreams PROVE StreamsInv /\ Feed!InitFeed
  OBVIOUS
<1>1. InitStream
  BY DEF InitStreams, Init, PushedInit
<1>2. Feed!InitStream
  BY <1>1 DEF InitStream, Feed!InitStream
<1>3. CASE part = "poll" /\ Init /\ NoPush
  <2>1. Known
    BY <1>3, KnownInit
  <2>2. PollInv
    BY <1>3 DEF Init, PollInv, Polling
  <2>3. /\ Source = "poll" /\ IsOpen = FALSE /\ ToCome = {} /\ Due = 0 /\ Astray = FALSE
    BY <1>3, <2>1, ToComeByStep DEF ByStep, Init
  <2>4. QED BY <1>2, <1>3, <2>1, <2>2, <2>3 DEF StreamsInv, Feed!InitFeed
<1>4. CASE part = "push" /\ PushedInit /\ NoPoll
  <2>1. PInv
    BY <1>4, PTInit, PIInit DEF PInv
  <2>2. phase = "start" /\ es = <<>> /\ messages = <<>> /\ kind \in {"subscription", "icon"}
    BY <1>4, KindsAssumption DEF PushedInit
  <2>3. InLine
    <3>1. DOMAIN es = {} /\ DOMAIN messages = {}
      BY <2>2
    <3>2. QED BY <3>1 DEF InLine, Ordered
  <2>4. QInv
    BY <2>1, <2>3 DEF QInv, PInv, IconInv
  <2>5. /\ Source = kind /\ IsOpen = FALSE /\ ToCome = {} /\ Due = 0 /\ Astray = FALSE
    BY <1>4, <2>2, <2>4, PushedView, ToComeByPhase DEF ByPhase
  <2>6. QED BY <1>2, <1>4, <2>1, <2>2, <2>4, <2>5 DEF StreamsInv, Feed!InitFeed
<1>5. QED BY <1>3, <1>4 DEF InitStreams

LEMMA PushedInvStep == QInv /\ PInv /\ PushedNext => QInv' /\ PInv'
<1> SUFFICES ASSUME QInv, PInv, PushedNext PROVE QInv' /\ PInv'
  OBVIOUS
<1>1. PTInv'
  BY PTStep DEF PInv
<1>2. SubInv' /\ IconInv'
  BY <1>1, PIStep DEF PInv
<1>3. InLine'
  BY InLineStep DEF QInv
<1>4. QED BY <1>1, <1>2, <1>3 DEF QInv, PInv, IconInv

LEMMA StreamsStep ==
  StreamsInv /\ [NextStreams]_allStreamVars
    => StreamsInv' /\ [Feed!NextFeed]_Feed!feedVars
<1> SUFFICES ASSUME StreamsInv, [NextStreams]_allStreamVars
             PROVE  StreamsInv' /\ [Feed!NextFeed]_Feed!feedVars
  OBVIOUS
<1>1. CASE part = "poll" /\ Next /\ UNCHANGED <<part, pushVars>>
  <2>1. Known /\ PollInv
    BY <1>1 DEF StreamsInv
  <2>2. Known' /\ PollInv'
    BY <1>1, <2>1, KnownStep, PollStep
  <2>3. part' = "poll"
    BY <1>1
  <2>4. PollKnown /\ PollKnown'
    BY <1>1, <2>1, <2>2, <2>3 DEF PollKnown
  <2>5. QED BY <1>1, <2>2, <2>3, <2>4, PolledFeeds DEF StreamsInv
<1>2. CASE part = "push" /\ PushedNext /\ UNCHANGED <<part, pollVars>>
  <2>1. QInv /\ PInv
    BY <1>2 DEF StreamsInv
  <2>2. QInv' /\ PInv'
    BY <1>2, <2>1, PushedInvStep
  <2>3. part' = "push"
    BY <1>2
  <2>4. QED BY <1>2, <2>1, <2>2, <2>3, PushedFeeds DEF StreamsInv
<1>3. CASE UNCHANGED allStreamVars
  <2>1. /\ UNCHANGED <<part, streamVars, pc, current, from, to, logs, cut, ranAhead>>
        /\ UNCHANGED <<kind, phase, next, messages, es, closing, lost, away>>
    BY <1>3 DEF allStreamVars, pollVars, pushVars
  <2>2. UNCHANGED <<head, events, initHeight, resume, stored, delivered>>
    BY <2>1 DEF streamVars, caller
  <2>3. UNCHANGED <<Source, IsOpen, ToCome, Due, Astray>>
    BY <2>1, <2>2
       DEF Source, IsOpen, ToCome, Due, Astray, Polled, Polling, RunsAhead, PollToCome, PollDue,
           PushToCome, PushDue, Reading, From, OnTheWay
  <2>4. UNCHANGED Feed!feedVars
    BY <2>1, <2>3, FeedStutters
  <2>5. Known => Known'
    BY <2>1, KnownStep DEF vars, pollVars
  <2>6. PollInv => PollInv'
    BY <2>1, <2>2 DEF PollInv, Polling, RunsAhead
  <2>7. UNCHANGED pushedVars
    BY <2>1 DEF pushedVars, pushVars
  <2>8. PInv => PInv'
    <3>1. PTInv => PTInv'
      BY <2>7, PTStep
    <3>2. QED BY <2>7, <3>1, PIStep DEF PInv
  <2>9. InLine => InLine'
    BY <2>1 DEF InLine, Ordered
  <2>10. QInv /\ PInv => QInv' /\ PInv'
    BY <2>8, <2>9 DEF QInv, PInv, IconInv
  <2>11. StreamsInv'
    BY <2>1, <2>5, <2>6, <2>10 DEF StreamsInv
  <2>12. QED BY <2>4, <2>11
<1>4. QED BY <1>1, <1>2, <1>3 DEF NextStreams

\* Polling, a subscription and an ICON stream keep one promise: from the block it began
\* with, an open stream passes on every log once, in the order of the chain and without a
\* gap, for every chain, range, start height and caller, and whatever fails and whenever.
THEOREM StreamsKeepThePromise == SpecStreams => StreamsAsPromised
<1>1. InitStreams => StreamsInv
  BY StreamsInit
<1>2. StreamsInv /\ [NextStreams]_allStreamVars => StreamsInv'
  BY StreamsStep
<1>3. StreamsInv /\ [NextStreams]_allStreamVars => [Feed!NextFeed]_Feed!feedVars
  BY StreamsStep
<1>4. InitStreams => Feed!InitFeed
  BY StreamsInit
<1>5. SpecStreams => InitStreams /\ [][NextStreams]_allStreamVars
  BY DEF SpecStreams, allStreamVars
<1>6. QED
  BY <1>1, <1>2, <1>3, <1>4, <1>5, PTL DEF StreamsAsPromised, Feed!FeedSpec
=============================================================================
