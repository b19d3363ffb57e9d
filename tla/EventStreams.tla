----------------------------- MODULE EventStreams -----------------------------
(***************************************************************************)
(* The event streams together: whichever way a stream takes to the logs,   *)
(* it keeps what EventFeed promises.  A behaviour is one of one of the     *)
(* modules, and the variables of the other keep a value in which nothing   *)
(* happens.                                                                *)
(***************************************************************************)
EXTENDS EthPollMonitor, PushedStream

VARIABLE part  \* "poll" for a behaviour of EthPollMonitor

NoPoll ==
  /\ pc = "start" /\ current = 0 /\ from = 0 /\ to = 0 /\ logs = {} /\ cut = {}
  /\ ranAhead = TRUE  \* NothingSkipped is not about the other streams

NoPush ==
  /\ kind = "icon" /\ phase = "start" /\ next = 0 /\ messages = <<>> /\ es = <<>>
  /\ lost = {} /\ away = {}
  /\ closing = TRUE   \* nor is PushedNothingSkipped

InitStreams == \/ part = "poll" /\ Init /\ NoPush
               \/ part = "push" /\ PushedInit /\ NoPoll

NextStreams == \/ part = "poll" /\ Next /\ UNCHANGED <<part, pushVars>>
               \/ part = "push" /\ PushedNext /\ UNCHANGED <<part, pollVars>>

SpecStreams == InitStreams /\ [][NextStreams]_<<part, streamVars, pollVars, pushVars>>

-----------------------------------------------------------------------------
(* What a stream still has to pass on, and the block it takes next.        *)

From(h) == {e \in events : e.height >= h}

Larger(a, b) == IF a > b THEN a ELSE b

Polling == pc # "start"

\* The range that is scanned, or the next one, runs away from the head.
RunsAhead == Polling /\ (from > current \/ (pc # "header" /\ to > current))

PollToCome == IF ~ Polling THEN {}
              ELSE IF pc = "callback" THEN logs \cup From(to + 1)
              ELSE From(IF from = 0 THEN current ELSE from)

PollDue == IF Polling THEN Larger(from, head + 1) ELSE 0

\* An error of the callback closes an ICON stream.
Reading == phase # "start" /\ ~ closing

PushToCome == IF phase = "start" THEN {}
              ELSE IF closing THEN {es[i] : i \in DOMAIN es}
              ELSE IF kind = "icon" THEN OnTheWay \cup From(next)
              ELSE OnTheWay

PushDue == IF ~ Reading THEN 0
           ELSE IF kind = "icon" THEN Larger(next, head + 1)
           ELSE head + 1

Polled == part = "poll"

Source == IF Polled THEN "poll" ELSE kind
IsOpen == IF Polled THEN Polling ELSE phase # "start"
ToCome == IF Polled THEN PollToCome ELSE PushToCome
Due == IF Polled THEN PollDue ELSE PushDue
Astray == Polled /\ RunsAhead

Feed == INSTANCE EventFeed WITH
          source <- Source, open <- IsOpen, toCome <- ToCome, due <- Due, astray <- Astray

\* Whether it polls, subscribes or reads from an ICON node, an open stream passes on every
\* log from the block it began with, once, in the order of the chain: no range, no restart
\* of the scan, no notification that waits for its block and no error of a callback makes
\* it repeat, reorder or leave out one while it is open (FilterLogs of contract/eth,
\* MonitorEvent of contract/icon).
StreamsAsPromised == Feed!FeedSpec
=============================================================================
