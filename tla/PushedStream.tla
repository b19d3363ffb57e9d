----------------------------- MODULE PushedStream -----------------------------
(***************************************************************************)
(* Event streams that the node pushes: MonitorEvent of the Ethereum        *)
(* adaptor by a subscription (MonitorBySubscribeFilterLogs of              *)
(* contract/eth/adaptor.go) and MonitorEvent of the ICON adaptor           *)
(* (contract/icon/adaptor.go).                                             *)
(*                                                                         *)
(* A subscription is given the logs of new blocks only.  An ICON stream is *)
(* given those of every block since the one asked for; each is kept until  *)
(* a progress notification tells that its block is complete, and the block *)
(* before, which has the transactions, can be asked for their hashes.  As  *)
(* the adaptor relies on, a block with events is followed by its progress. *)
(*                                                                         *)
(* The chain and the callers are those of EventStream.                     *)
(***************************************************************************)
EXTENDS EventStream, Sequences

CONSTANTS Kinds

ASSUME KindsAssumption == Kinds \subseteq {"subscription", "icon"}

VARIABLES
  kind,
  phase,       \* of MonitorEvent: "start", "open" or "flush"
  next,        \* the block the node looks at next for this stream
  messages,    \* notifications on their way
  es,          \* ICON: events kept until the block is complete
  closing,     \* ICON: a callback has failed, and the connection is closed
  lost,        \* history: heights of recorded blocks with events left unhandled
  away         \* history: events that came or waited with no stream to take them

pushVars == <<kind, phase, next, messages, es, closing, lost, away>>
pushedVars == <<streamVars, pushVars>>

PushedInit ==
  /\ InitStream
  /\ kind \in Kinds
  /\ phase = "start" /\ next = 0 /\ messages = <<>> /\ es = <<>> /\ closing = FALSE
  /\ lost = {} /\ away = {}

InOrder(logs) ==
  CHOOSE s \in [1..Cardinality(logs) -> logs] :
    /\ \A e \in logs : \E i \in DOMAIN s : s[i] = e
    /\ \A i, j \in DOMAIN s :
         i < j => \/ s[i].height < s[j].height
                  \/ s[i].height = s[j].height /\ s[i].index < s[j].index

EventOf(log) == [type |-> "event", log |-> log]
Progress(h) == [type |-> "progress", height |-> h]

LogsAt(h) == {e \in events : e.height = h}

\* A new block; a subscription is notified of its logs.
Produce ==
  /\ head < MaxHead
  /\ head' = head + 1
  /\ \E n \in 0..MaxLogs :
       LET new == [height : {head + 1}, index : 1..n] IN
       /\ events' = events \cup new
       /\ IF kind = "subscription" /\ phase = "open"
          THEN /\ messages' = messages \o
                    [i \in 1..n |-> EventOf([height |-> head + 1, index |-> i])]
               /\ UNCHANGED away
          ELSE away' = away \cup new /\ UNCHANGED messages
  /\ UNCHANGED <<kind, caller, stored, phase, next, es, closing, delivered, lost>>

\* The node of an ICON stream goes through the blocks from the one asked for.
NodeNotifies ==
  /\ kind = "icon" /\ phase # "start" /\ next <= head /\ messages = <<>>
  /\ LET logs == InOrder(LogsAt(next)) IN
     messages' = IF logs = <<>> THEN <<>>
                 ELSE [i \in DOMAIN logs |-> EventOf(logs[i])] \o <<Progress(next)>>
  /\ next' = next + 1
  /\ UNCHANGED <<kind, caller, head, events, stored, phase, es, closing,
                 delivered, lost, away>>

\* monitorHeight: without a height an ICON stream begins at the last block.
Open ==
  /\ phase = "start"
  /\ phase' = "open"
  /\ next' = IF ResumeHeight = 0 THEN head ELSE ResumeHeight
  /\ messages' = <<>> /\ es' = <<>> /\ closing' = FALSE
  /\ UNCHANGED <<kind, caller, head, events, stored, delivered, lost, away>>

\* The callback may record the height of an event it is given; when it fails, too.
Accept(log) == delivered' = delivered \cup {log} /\ stored' \in Recorded(log)

\* What is left of the blocks up to a height when a stream breaks off.
LeftBehind(height) ==
  {e.height : e \in {d \in events \ delivered : d.height = height}}

\* MonitorBySubscribeFilterLogs: an error of the callback ends it.
SubscribedLog ==
  /\ kind = "subscription" /\ phase = "open" /\ messages # <<>>
  /\ Accept(Head(messages).log)
  /\ messages' = Tail(messages)
  /\ UNCHANGED <<kind, caller, head, events, phase, next, es, closing, lost,
                 away>>

Notified ==
  /\ kind = "icon" /\ phase = "open" /\ messages # <<>>
  /\ \/ /\ Head(messages).type = "event"
        /\ es' = Append(es, Head(messages).log) /\ UNCHANGED phase
     \/ /\ Head(messages).type = "progress" /\ es # <<>>
        /\ phase' = "flush" /\ UNCHANGED es
  /\ messages' = Tail(messages)
  /\ UNCHANGED <<kind, caller, head, events, stored, next, closing,
                 delivered, lost, away>>

\* After an error of the callback the events left are passed on all the same.
Flush ==
  /\ phase = "flush" /\ es # <<>>
  /\ \/ Accept(Head(es)) /\ UNCHANGED closing
     \/ stored' \in Recorded(Head(es)) /\ closing' = TRUE /\ UNCHANGED delivered
  /\ es' = Tail(es)
  /\ UNCHANGED <<kind, caller, head, events, phase, next, messages, lost, away>>

\* Still to be passed on.
OnTheWay ==
  {es[i] : i \in DOMAIN es}
    \cup {messages[i].log : i \in {j \in DOMAIN messages : messages[j].type = "event"}}

Broken == /\ phase' = "start" /\ messages' = <<>> /\ es' = <<>> /\ closing' = FALSE
          /\ lost' = lost \cup LeftBehind(stored')
          /\ away' = IF kind = "subscription" THEN away \cup OnTheWay ELSE away

KeepsOpen ==
  /\ phase = "flush" /\ es = <<>>
  /\ phase' = "open" /\ closing' = FALSE
  /\ UNCHANGED <<kind, caller, head, events, stored, next, messages, es,
                 delivered, lost, away>>

\* The read after conn.Close() fails, and the stream ends.
Flushed ==
  /\ phase = "flush" /\ es = <<>>
  /\ IF closing THEN UNCHANGED stored /\ Broken
     ELSE phase' = "open" /\ UNCHANGED <<messages, es, closing, lost, away, stored>>
  /\ UNCHANGED <<kind, caller, head, events, next, delivered>>

\* The connection, a request for a block or the callback of a log fails, the last two
\* with the process: the answer for a block is used without a look at the error.
Fail ==
  /\ phase # "start"
  /\ \/ UNCHANGED stored
     \/ /\ kind = "subscription" /\ messages # <<>>
        /\ stored' \in Recorded(Head(messages).log)
  /\ Broken
  /\ UNCHANGED <<kind, caller, head, events, next, delivered>>

PushedNext == \/ Produce \/ NodeNotifies \/ Open \/ SubscribedLog \/ Notified
              \/ Flush \/ Flushed \/ Fail

PushedSpec == PushedInit /\ [][PushedNext]_pushedVars

-----------------------------------------------------------------------------
(* Properties.                                                             *)

\* Where the stream goes on, or will: nothing below is still to come.
Passed == IF phase = "start" THEN ResumeHeight ELSE IF kind = "icon" THEN next ELSE head + 1

\* With a start height given, an event is skipped in two ways only: a subscription does
\* not get again what came while it was not open, or waited when it broke; and the
\* tracker, which goes on after the block it recorded, skips the rest of a block it broke
\* off in.
PushedNothingSkipped ==
  initHeight # 0 /\ ~ closing =>
    \A e \in events :
      initHeight <= e.height /\ e.height < Passed /\ e \notin delivered \cup OnTheWay
        => \/ kind = "subscription" /\ e \in away
           \/ resume = 1 /\ e.height \in lost
=============================================================================
