-------------------------- MODULE WsSession_proofs --------------------------
(***************************************************************************)
(* Proofs about WsSession, for any source and any number of events.        *)
(***************************************************************************)
EXTENDS WsSession, SequenceTheorems, TLAPS

\* What may be on the wire.
Messages == [type : {"success", "error", "event", "ping"}, n : Nat]

\* The message that is read as the k-th, pings left out.
Expected(k) == IF k = 1 THEN {Success, Refusal} ELSE {Event(k - 1)}

\* r numbers the messages of l on from h, pings left out, and each is the one
\* that is expected under its number.
Ranks(l, h, r) ==
  /\ r \in [0..Len(l) -> Nat] /\ r[0] = h
  /\ \A i \in 1..Len(l) :
       /\ r[i] = IF l[i] = Ping THEN r[i - 1] ELSE r[i - 1] + 1
       /\ l[i] # Ping => l[i] \in Expected(r[i])

\* The messages that the handler has written: the answer, and the events but
\* the one it is about to write.
Writing == handler \in {"read", "answer", "refuse", "stream", "write"}
Written == IF handler = "stream" THEN sent + 1
           ELSE IF handler = "write" THEN sent ELSE 0

\* The messages of l are numbered on from h, up to w where that is known.
Numbered(l, h, known, w) == \E r : Ranks(l, h, r) /\ (known => r[Len(l)] = w)

\* Nothing that was written is lost or out of its place on the way to a client
\* that reads.
LineInOrder == ~ Gone => Numbered(line, Len(heard), Writing /\ ~ WriteFails, Written)

Types ==
  /\ line \in Seq(Messages) /\ heard \in Seq(Messages)
  /\ sent \in Nat
  /\ handler \in {"read", "answer", "refuse"} => sent = 0
  /\ handler = "write" => sent # 0
  /\ handler \in {"read", "answer", "refuse", "stream", "write", "returns", "done"}

WInv == Types /\ LineInOrder /\ AnswerThenEvents

-----------------------------------------------------------------------------
(* Writing and reading messages.                                           *)

LEMMA RankAppend ==
  ASSUME NEW l \in Seq(Messages), NEW h \in Nat, NEW r, Ranks(l, h, r), NEW x \in Messages,
         x = Ping \/ x \in Expected(r[Len(l)] + 1)
  PROVE  \E q : Ranks(Append(l, x), h, q)
                /\ q[Len(Append(l, x))] = IF x = Ping THEN r[Len(l)] ELSE r[Len(l)] + 1
<1> DEFINE k == Len(l)
           s == IF x = Ping THEN r[k] ELSE r[k] + 1
           q == [i \in 0..(k + 1) |-> IF i = k + 1 THEN s ELSE r[i]]
<1>1. /\ k \in Nat /\ Len(Append(l, x)) = k + 1 /\ Append(l, x)[k + 1] = x
      /\ \A i \in 1..k : Append(l, x)[i] = l[i]
  OBVIOUS
<1>2. r \in [0..k -> Nat] /\ r[0] = h
  BY DEF Ranks
<1>3. s \in Nat
  BY <1>1, <1>2
<1> HIDE DEF s, k
<1>4. q \in [0..(k + 1) -> Nat] /\ q[0] = h
  BY <1>1, <1>2, <1>3
<1>5. ASSUME NEW i \in 1..(k + 1)
      PROVE  /\ q[i] = IF Append(l, x)[i] = Ping THEN q[i - 1] ELSE q[i - 1] + 1
             /\ Append(l, x)[i] # Ping => Append(l, x)[i] \in Expected(q[i])
  <2>1. CASE i = k + 1
    <3>1. q[i] = s /\ q[i - 1] = r[k] /\ Append(l, x)[i] = x
      BY <1>1, <2>1
    <3>2. x # Ping => x \in Expected(s)
      BY DEF s, k
    <3>3. QED BY <3>1, <3>2 DEF s
  <2>2. CASE i \in 1..k
    <3>1. q[i] = r[i] /\ q[i - 1] = r[i - 1] /\ Append(l, x)[i] = l[i]
      BY <1>1, <2>2
    <3>2. /\ r[i] = IF l[i] = Ping THEN r[i - 1] ELSE r[i - 1] + 1
          /\ l[i] # Ping => l[i] \in Expected(r[i])
      BY <2>2 DEF Ranks, k
    <3>3. QED BY <3>1, <3>2
  <2>3. QED BY <1>1, <2>1, <2>2
<1>6. Ranks(Append(l, x), h, q)
  BY <1>1, <1>4, <1>5 DEF Ranks
<1>7. q[Len(Append(l, x))] = s
  BY <1>1
<1>8. QED BY <1>6, <1>7 DEF s, k

LEMMA RankTail ==
  ASSUME NEW l \in Seq(Messages), l # <<>>, NEW h \in Nat, NEW r, Ranks(l, h, r)
  PROVE  /\ Head(l) # Ping => Head(l) \in Expected(h + 1)
         /\ \E q : /\ Ranks(Tail(l), IF Head(l) = Ping THEN h ELSE h + 1, q)
                   /\ q[Len(Tail(l))] = r[Len(l)]
<1> DEFINE k == Len(Tail(l))
           q == [i \in 0..k |-> r[i + 1]]
<1>1. /\ k \in Nat /\ Len(l) = k + 1 /\ Head(l) = l[1] /\ \A i \in 1..k : Tail(l)[i] = l[i + 1]
  OBVIOUS
<1>2. r \in [0..Len(l) -> Nat] /\ r[0] = h
  BY DEF Ranks
<1>3. /\ r[1] = IF Head(l) = Ping THEN h ELSE h + 1
      /\ Head(l) # Ping => Head(l) \in Expected(r[1])
  <2>1. 1 \in 1..Len(l) /\ 1 - 1 = 0
    BY <1>1
  <2>2. QED BY <1>1, <1>2, <2>1 DEF Ranks
<1>4. ASSUME NEW i \in 1..k
      PROVE  /\ q[i] = IF Tail(l)[i] = Ping THEN q[i - 1] ELSE q[i - 1] + 1
             /\ Tail(l)[i] # Ping => Tail(l)[i] \in Expected(q[i])
  <2>1. q[i] = r[i + 1] /\ q[i - 1] = r[i] /\ Tail(l)[i] = l[i + 1]
    BY <1>1
  <2>2. i + 1 \in 1..Len(l) /\ (i + 1) - 1 = i
    BY <1>1
  <2>3. /\ r[i + 1] = IF l[i + 1] = Ping THEN r[i] ELSE r[i] + 1
        /\ l[i + 1] # Ping => l[i + 1] \in Expected(r[i + 1])
    BY <2>2 DEF Ranks
  <2>4. QED BY <2>1, <2>3
<1>5. q \in [0..k -> Nat] /\ q[0] = r[1] /\ q[k] = r[Len(l)]
  BY <1>1, <1>2
<1>6. Ranks(Tail(l), r[1], q)
  BY <1>4, <1>5 DEF Ranks
<1>7. QED BY <1>3, <1>5, <1>6


LEMMA NumberedKept ==
  ASSUME NEW l, NEW h, NEW known, NEW w, NEW known2, NEW w2, Numbered(l, h, known, w),
         known2 => known /\ w2 = w
  PROVE  Numbered(l, h, known2, w2)
BY DEF Numbered

LEMMA NumberedPing ==
  ASSUME NEW l \in Seq(Messages), NEW h \in Nat, NEW known, NEW w, Numbered(l, h, known, w)
  PROVE  Numbered(Append(l, Ping), h, known, w)
<1>1. PICK r : Ranks(l, h, r) /\ (known => r[Len(l)] = w)
  BY DEF Numbered
<1>2. Ping \in Messages
  BY DEF Ping, Message, Messages
<1>3. PICK q : /\ Ranks(Append(l, Ping), h, q)
               /\ q[Len(Append(l, Ping))] = r[Len(l)]
  BY <1>1, <1>2, RankAppend
<1>4. QED BY <1>1, <1>3 DEF Numbered

LEMMA NumberedNext ==
  ASSUME NEW l \in Seq(Messages), NEW h \in Nat, NEW w, Numbered(l, h, TRUE, w),
         NEW x \in Messages, x # Ping, x \in Expected(w + 1)
  PROVE  Numbered(Append(l, x), h, TRUE, w + 1)
<1>1. PICK r : Ranks(l, h, r) /\ r[Len(l)] = w
  BY DEF Numbered
<1>2. PICK q : Ranks(Append(l, x), h, q) /\ q[Len(Append(l, x))] = r[Len(l)] + 1
  BY <1>1, RankAppend
<1>3. QED BY <1>1, <1>2 DEF Numbered

LEMMA NumberedTail ==
  ASSUME NEW l \in Seq(Messages), l # <<>>, NEW h \in Nat, NEW known, NEW w,
         Numbered(l, h, known, w)
  PROVE  /\ Head(l) # Ping => Head(l) \in Expected(h + 1)
         /\ Numbered(Tail(l), IF Head(l) = Ping THEN h ELSE h + 1, known, w)
<1>1. PICK r : Ranks(l, h, r) /\ (known => r[Len(l)] = w)
  BY DEF Numbered
<1>2. Head(l) # Ping => Head(l) \in Expected(h + 1)
  BY <1>1, RankTail
<1>3. PICK q : /\ Ranks(Tail(l), IF Head(l) = Ping THEN h ELSE h + 1, q)
               /\ q[Len(Tail(l))] = r[Len(l)]
  BY <1>1, RankTail
<1>4. QED BY <1>1, <1>2, <1>3 DEF Numbered

-----------------------------------------------------------------------------
(* Every step keeps the order.                                             *)

LEMMA MessagesTyped ==
  /\ Success \in Messages /\ Refusal \in Messages /\ Ping \in Messages
  /\ \A n \in Nat : Event(n) \in Messages /\ Event(n) # Ping
  /\ Success # Ping /\ Refusal # Ping
BY DEF Success, Refusal, Event, Ping, Message, Messages

LEMMA WInit == InitSession => WInv
<1> SUFFICES ASSUME InitSession PROVE WInv
  OBVIOUS
<1>1. /\ line = <<>> /\ heard = <<>> /\ handler = "read" /\ sent = 0
  BY DEF InitSession
<1>2. Types /\ AnswerThenEvents
  BY <1>1 DEF Types, AnswerThenEvents
<1>3. Ranks(<<>>, 0, [i \in 0..0 |-> 0])
  BY DEF Ranks
<1>4. Numbered(<<>>, 0, TRUE, 0)
  BY <1>3 DEF Numbered
<1>5. Numbered(line, Len(heard), Writing /\ ~ WriteFails, Written)
  BY <1>1, <1>4, NumberedKept DEF Written
<1>6. QED BY <1>2, <1>5 DEF WInv, LineInOrder

\* A step that writes nothing and after which no more is known to be written.
LEMMA NoMessage ==
  ASSUME WInv, UNCHANGED <<line, heard>>, Types', Gone => Gone',
         ~ Gone' /\ Writing' /\ ~ WriteFails' => Writing /\ ~ WriteFails /\ Written' = Written
  PROVE  WInv'
<1>1. AnswerThenEvents'
  BY DEF WInv, AnswerThenEvents
<1>2. CASE Gone'
  BY <1>1, <1>2 DEF WInv, LineInOrder
<1>3. CASE ~ Gone'
  <2>1. Numbered(line, Len(heard), Writing /\ ~ WriteFails, Written)
    BY <1>3 DEF WInv, LineInOrder
  <2>2. Numbered(line', Len(heard'), (Writing /\ ~ WriteFails)', Written')
    BY <1>3, <2>1, NumberedKept
  <2>3. QED BY <1>1, <2>2 DEF WInv, LineInOrder
<1>4. QED BY <1>2, <1>3

\* The step of the handler or of the ping loop that writes a message.
LEMMA WritesData ==
  ASSUME WInv, NEW x \in Messages, x # Ping, Writes(x), UNCHANGED <<heard, client>>,
         Types', Writing, x \in Expected(Written + 1), WriteFails => WriteFails',
         ~ WriteFails' => Written' = Written + 1
  PROVE  WInv'
<1>1. AnswerThenEvents' /\ (Gone <=> Gone')
  BY DEF WInv, AnswerThenEvents, Gone
<1>2. CASE Gone
  BY <1>1, <1>2 DEF WInv, LineInOrder
<1>3. CASE ~ Gone /\ WriteFails
  <2>1. Numbered(line, Len(heard), Writing /\ ~ WriteFails, Written)
    BY <1>3 DEF WInv, LineInOrder
  <2>2. line' = line
    BY <1>3 DEF Writes
  <2>3. Numbered(line', Len(heard'), (Writing /\ ~ WriteFails)', Written')
    BY <1>3, <2>1, <2>2, NumberedKept
  <2>4. QED BY <1>1, <2>3 DEF WInv, LineInOrder
<1>4. CASE ~ Gone /\ ~ WriteFails
  <2>1. /\ Numbered(line, Len(heard), TRUE, Written)
        /\ line \in Seq(Messages) /\ Len(heard) \in Nat
    <3>1. Numbered(line, Len(heard), Writing /\ ~ WriteFails, Written)
      BY <1>4 DEF WInv, LineInOrder
    <3>2. Writing /\ ~ WriteFails
      BY <1>4
    <3>3. Numbered(line, Len(heard), TRUE, Written)
      BY <3>1, <3>2, NumberedKept
    <3>4. line \in Seq(Messages) /\ heard \in Seq(Messages)
      BY DEF WInv, Types
    <3>5. Len(heard) \in Nat
      BY <3>4
    <3>6. QED BY <3>3, <3>4, <3>5
  <2>2. line' = Append(line, x)
    BY <1>4 DEF Writes
  <2>3. Numbered(Append(line, x), Len(heard), TRUE, Written + 1)
    BY <2>1, NumberedNext
  <2>4. Numbered(line', Len(heard'), (Writing /\ ~ WriteFails)', Written')
    BY <2>2, <2>3, NumberedKept
  <2>5. QED BY <1>1, <2>4 DEF WInv, LineInOrder
<1>5. QED BY <1>2, <1>3, <1>4

LEMMA WritesPing ==
  ASSUME WInv, PingWritten
  PROVE  WInv'
<1>1. /\ UNCHANGED <<client, heard, handler, sent, broken>>
      /\ line' = IF WriteFails THEN line ELSE Append(line, Ping)
      /\ closed => closed'
  BY DEF PingWritten, Writes
<1>2. Types'
  BY <1>1, MessagesTyped DEF WInv, Types
<1>3. /\ AnswerThenEvents' /\ (Gone <=> Gone') /\ (WriteFails => WriteFails')
      /\ (Writing <=> Writing') /\ Written' = Written
  BY <1>1 DEF WInv, AnswerThenEvents, Gone, WriteFails, Writing, Written
<1>4. CASE Gone
  BY <1>2, <1>3, <1>4 DEF WInv, LineInOrder
<1>5. CASE ~ Gone
  <2>1. Numbered(line, Len(heard), Writing /\ ~ WriteFails, Written)
    BY <1>5 DEF WInv, LineInOrder
  <2>2. line \in Seq(Messages) /\ Len(heard) \in Nat
    BY DEF WInv, Types
  <2>3. Numbered(line', Len(heard), Writing /\ ~ WriteFails, Written)
    BY <1>1, <2>1, <2>2, NumberedPing
  <2>4. Numbered(line', Len(heard'), (Writing /\ ~ WriteFails)', Written')
    BY <1>1, <1>3, <2>3, NumberedKept
  <2>5. QED BY <1>2, <1>3, <2>4 DEF WInv, LineInOrder
<1>6. QED BY <1>4, <1>5

LEMMA Reads ==
  ASSUME WInv, ClientReads
  PROVE  WInv'
<1>1. /\ client \in {"handshake", "open"} /\ line # <<>> /\ line' = Tail(line)
      /\ UNCHANGED <<handler, closed, broken, sent>>
      /\ client' \in {"handshake", "open", "left"}
      /\ Head(line) = Ping => heard' = heard
      /\ Head(line) # Ping => heard' = Append(heard, Head(line))
  BY DEF ClientReads
<1>2. /\ line \in Seq(Messages) /\ heard \in Seq(Messages) /\ Len(heard) \in Nat
      /\ Head(line) \in Messages /\ Tail(line) \in Seq(Messages) /\ ~ Gone
  BY <1>1, HeadTailProperties DEF WInv, Types, Gone
<1>3. Numbered(line, Len(heard), Writing /\ ~ WriteFails, Written)
  BY <1>2 DEF WInv, LineInOrder
<1>4. /\ Head(line) # Ping => Head(line) \in Expected(Len(heard) + 1)
      /\ Numbered(Tail(line), IF Head(line) = Ping THEN Len(heard) ELSE Len(heard) + 1,
                  Writing /\ ~ WriteFails, Written)
  BY <1>1, <1>2, <1>3, NumberedTail
<1>5. Types'
  <2>1. heard' \in Seq(Messages)
    <3>1. CASE Head(line) = Ping
      BY <1>1, <1>2, <3>1
    <3>2. CASE Head(line) # Ping
      <4>1. heard' = Append(heard, Head(line))
        BY <1>1, <3>2
      <4>2. QED BY <1>2, <4>1
    <3>3. QED BY <3>1, <3>2
  <2>2. line' \in Seq(Messages)
    BY <1>1, <1>2
  <2>3. UNCHANGED <<handler, sent>>
    BY <1>1
  <2>4. QED BY <2>1, <2>2, <2>3 DEF WInv, Types
<1>6. Len(heard') = IF Head(line) = Ping THEN Len(heard) ELSE Len(heard) + 1
  BY <1>1, <1>2
<1>7. ~ Gone' => (WriteFails <=> WriteFails')
  BY <1>1, <1>2 DEF Gone, WriteFails
<1>8. (Writing <=> Writing') /\ Written' = Written
  BY <1>1 DEF Writing, Written
<1>9. LineInOrder'
  <2>1. SUFFICES ASSUME ~ Gone'
        PROVE  Numbered(line', Len(heard'), (Writing /\ ~ WriteFails)', Written')
    BY DEF LineInOrder
  <2>2. Numbered(line', Len(heard'), Writing /\ ~ WriteFails, Written)
    BY <1>1, <1>4, <1>6
  <2>3. QED BY <1>7, <1>8, <2>1, <2>2, NumberedKept
<1>10. AnswerThenEvents'
  <2>1. CASE Head(line) = Ping
    BY <1>1, <2>1 DEF WInv, AnswerThenEvents
  <2>2. CASE Head(line) # Ping
    <3>1. ASSUME NEW i \in DOMAIN heard' PROVE heard'[i] \in Expected(i)
      <4>1. /\ heard' = Append(heard, Head(line))
            /\ i \in 1..Len(heard) \/ i = Len(heard) + 1
        BY <1>1, <1>2, <2>2, <3>1
      <4>2. CASE i \in 1..Len(heard)
        <5>1. heard'[i] = heard[i] /\ i \in DOMAIN heard
          BY <1>2, <4>1, <4>2
        <5>2. QED BY <5>1 DEF WInv, AnswerThenEvents, Expected
      <4>3. CASE i = Len(heard) + 1
        <5>1. heard'[i] = Head(line)
          BY <1>2, <4>1, <4>3
        <5>2. QED BY <1>4, <2>2, <4>3, <5>1
      <4>4. QED BY <4>1, <4>2, <4>3
    <3>2. QED BY <3>1 DEF AnswerThenEvents, Expected
  <2>3. QED BY <2>1, <2>2
<1>11. QED BY <1>5, <1>9, <1>10 DEF WInv

LEMMA WStep == WInv /\ [NextSession]_wsVars => WInv'
<1> SUFFICES ASSUME WInv, [NextSession]_wsVars PROVE WInv'
  OBVIOUS
<1>1. CASE Asks \/ ClientSeesClose
  <2>1. UNCHANGED <<line, heard, handler, sent, closed, broken>> /\ ~ Gone
    BY <1>1 DEF Asks, ClientSeesClose, Gone
  <2>2. Types' /\ (~ Gone' => (WriteFails' <=> WriteFails))
    BY <1>1, <2>1 DEF WInv, Types, Asks, ClientSeesClose, WriteFails, Gone
  <2>3. (Writing' <=> Writing) /\ Written' = Written
    BY <2>1 DEF Writing, Written
  <2>4. QED BY <2>1, <2>2, <2>3, NoMessage
<1>2. CASE ClientReads
  BY <1>2, Reads
<1>3. CASE ClientLeaves \/ TcpGivesUp
  <2>1. UNCHANGED <<heard, handler, sent>> /\ line' = <<>> /\ Gone'
    BY <1>3 DEF ClientLeaves, TcpGivesUp, Gone
  <2>2. QED BY <2>1 DEF WInv, Types, LineInOrder, AnswerThenEvents
<1>4. CASE HandshakeRead \/ StreamCancelled \/ StreamEnds \/ HandlerReturns
  <2>1. UNCHANGED <<line, heard, sent, client, broken>> /\ (closed => closed')
    BY <1>4 DEF HandshakeRead, StreamCancelled, StreamEnds, HandlerReturns
  <2>2. Types'
    BY <1>4, <2>1 DEF WInv, Types, HandshakeRead, StreamCancelled, StreamEnds, HandlerReturns
  <2>3. (Gone <=> Gone') /\ (WriteFails => WriteFails')
    BY <2>1 DEF Gone, WriteFails
  <2>4. Writing' => Writing /\ Written' = Written
    BY <1>4, <2>1 DEF HandshakeRead, StreamCancelled, StreamEnds, HandlerReturns, Writing,
                      Written
  <2>5. QED BY <2>1, <2>2, <2>3, <2>4, NoMessage
<1>5. CASE SourceEvent
  <2>1. /\ UNCHANGED <<line, heard, client, broken, closed>>
        /\ handler = "stream" /\ handler' = "write" /\ sent' = sent + 1 /\ sent \in Nat
    BY <1>5 DEF SourceEvent, WInv, Types
  <2>2. Types'
    BY <2>1 DEF WInv, Types
  <2>3. (Gone <=> Gone') /\ (WriteFails <=> WriteFails') /\ Writing /\ Written' = Written
    BY <2>1 DEF Gone, WriteFails, Writing, Written
  <2>4. QED BY <2>1, <2>2, <2>3, NoMessage
<1>6. CASE HandshakeAnswer
  <2>1. /\ Writes(Success) /\ UNCHANGED <<heard, client, broken, closed, sent>>
        /\ handler = "answer" /\ handler' = "stream" /\ sent = 0
    BY <1>6 DEF HandshakeAnswer, WInv, Types
  <2>2. Types'
    BY <2>1, MessagesTyped DEF WInv, Types, Writes
  <2>3. /\ (WriteFails => WriteFails') /\ Writing /\ Written = 0 /\ Written' = 1
    BY <2>1 DEF WriteFails, Writing, Written
  <2>4. Success \in Expected(Written + 1)
    BY <2>3 DEF Expected
  <2>5. QED BY <2>1, <2>2, <2>3, <2>4, MessagesTyped, WritesData
<1>7. CASE HandshakeRefuse
  <2>1. /\ Writes(Refusal) /\ UNCHANGED <<heard, client, broken, sent>>
        /\ handler = "refuse" /\ handler' = "done" /\ closed' = TRUE
    BY <1>7 DEF HandshakeRefuse
  <2>2. Types'
    BY <2>1, MessagesTyped DEF WInv, Types, Writes
  <2>3. WriteFails' /\ Writing /\ Written = 0
    BY <2>1 DEF WriteFails, Writing, Written
  <2>4. Refusal \in Expected(Written + 1)
    BY <2>3 DEF Expected
  <2>5. QED BY <2>1, <2>2, <2>3, <2>4, MessagesTyped, WritesData
<1>8. CASE EventWritten
  <2>1. /\ Writes(Event(sent)) /\ UNCHANGED <<heard, client, broken, closed, sent>>
        /\ handler = "write" /\ handler' = IF WriteFails THEN "returns" ELSE "stream"
        /\ sent \in Nat /\ sent # 0
    BY <1>8 DEF EventWritten, WInv, Types
  <2>2. Types'
    BY <2>1, MessagesTyped DEF WInv, Types, Writes
  <2>3. /\ (WriteFails <=> WriteFails') /\ Writing /\ Written = sent
        /\ ~ WriteFails => Written' = sent + 1
    BY <2>1 DEF WriteFails, Writing, Written
  <2>4. Event(sent) \in Expected(Written + 1)
    <3>1. Written + 1 # 1 /\ (Written + 1) - 1 = sent
      BY <2>1, <2>3
    <3>2. QED BY <3>1 DEF Expected
  <2>5. QED BY <2>1, <2>2, <2>3, <2>4, MessagesTyped, WritesData
<1>9. CASE PingWritten
  BY <1>9, WritesPing
<1>10. CASE ReadLoop \/ PingTick \/ PingCancelled \/ UNCHANGED wsVars
  <2>1. UNCHANGED <<line, heard, client, broken, closed, handler, sent>>
    BY <1>10 DEF ReadLoop, PingTick, PingCancelled, wsVars
  <2>2. Types'
    BY <2>1 DEF WInv, Types
  <2>3. /\ (Gone <=> Gone') /\ (WriteFails <=> WriteFails') /\ (Writing <=> Writing')
        /\ Written' = Written
    BY <2>1 DEF Gone, WriteFails, Writing, Written
  <2>4. QED BY <2>1, <2>2, <2>3, NoMessage
<1>11. QED
  BY <1>1, <1>2, <1>3, <1>4, <1>5, <1>6, <1>7, <1>8, <1>9, <1>10
     DEF NextSession, HandlerSteps

-----------------------------------------------------------------------------

\* A client that reads is told the answer of the handshake first and then the
\* events in their order, none left out, however the writes of the handler and
\* of the ping loop fall and whichever of them fail (wsHandshake, onEvent and
\* wsPingLoop of api/server.go, wsReadLoop of api/client.go).
THEOREM ClientHearsInOrder == SpecSession => []AnswerThenEvents
<1>1. WInv => AnswerThenEvents
  BY DEF WInv
<1>2. QED BY <1>1, WInit, WStep, PTL DEF SpecSession
=============================================================================
