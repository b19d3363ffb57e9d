---------------------------- MODULE EthPollMonitor ----------------------------
(***************************************************************************)
(* MonitorEvent of the Ethereum adaptor on a node without log              *)
(* subscriptions (contract/eth/adaptor.go): the head is polled block by    *)
(* block, and every new head triggers one FilterLogs request for the range *)
(* of blocks not scanned yet, cut to MaxLogQueryRange.                     *)
(***************************************************************************)
EXTENDS EventStream

CONSTANTS
  MaxLogQueryRange,
  Modulus       \* 2^64, the arithmetic of Uint64()

ASSUME PollAssumption ==
  /\ MaxLogQueryRange \in Nat
  /\ Modulus \in Nat /\ MaxHead < Modulus

VARIABLES
  pc,
  current,    \* the block that is polled next
  from, to,   \* the range of the filter query; 0 in from is nil
  logs,       \* answered logs that are not passed on yet
  cut,        \* history: heights of recorded blocks with logs left unhandled
  ranAhead    \* history: whether some stream began above the head

pollVars == <<pc, current, from, to, logs, cut, ranAhead>>
vars == <<streamVars, pollVars>>

Init ==
  /\ InitStream
  /\ pc = "start" /\ current = 0 /\ from = 0 /\ to = 0
  /\ logs = {} /\ cut = {} /\ ranAhead = FALSE

Mine ==
  /\ head < MaxHead
  /\ head' = head + 1
  /\ \E n \in 0..MaxLogs :
       events' = events \cup [height : {head + 1}, index : 1..n]
  /\ UNCHANGED <<caller, stored, pc, current, from, to, logs, delivered, cut,
                 ranAhead>>

Begin ==
  /\ pc = "start"
  /\ from' = ResumeHeight
  /\ current' = head
  /\ ranAhead' = (ranAhead \/ ResumeHeight > head)
  /\ pc' = "header"
  /\ UNCHANGED <<head, events, caller, stored, to, logs, delivered, cut>>

Sub64(a, b) == IF a >= b THEN a - b ELSE a - b + Modulus

TooFar == Sub64(current, from) > MaxLogQueryRange

\* onBlockHeader up to the request; a block that is not there yet is awaited.
OnBlockHeader ==
  /\ pc = "header"
  /\ current <= head
  /\ from' = IF from = 0 THEN current ELSE from
  /\ to' = IF from # 0 /\ TooFar THEN from + MaxLogQueryRange ELSE current
  /\ pc' = "filter"
  /\ UNCHANGED <<head, events, caller, stored, current, logs, delivered, cut,
                 ranAhead>>

NotBefore(e) == e.height >= from

InRange(e) == from <= e.height /\ e.height <= to

FilterLogs ==
  /\ pc = "filter"
  /\ logs' = {e \in events : InRange(e)}
  /\ pc' = "callback"
  /\ UNCHANGED <<head, events, caller, stored, current, from, to, delivered,
                 cut, ranAhead>>

IsNext(e) == e \in logs /\ \A d \in logs \ {e} : Before(e, d)

Callback ==
  /\ pc = "callback"
  /\ \E e \in logs :
       /\ IsNext(e)
       /\ delivered' = delivered \cup {e}
       /\ logs' = logs \ {e}
       /\ stored' \in Recorded(e)
  /\ UNCHANGED <<head, events, caller, pc, current, from, to, cut, ranAhead>>

AfterHead == current + 1

LastBlock == to

NextFrom == to + 1

RangeDone ==
  /\ pc = "callback" /\ logs = {}
  /\ from' = NextFrom
  /\ current' = current + 1
  /\ pc' = "header"
  /\ UNCHANGED <<head, events, caller, stored, to, logs, delivered, cut,
                 ranAhead>>

\* A request or the callback fails, or the process dies: the callback may have
\* recorded the height of the log, but not what it came for.
Stop ==
  /\ pc # "start"
  /\ \/ UNCHANGED stored
     \/ pc = "callback" /\ \E e \in logs : IsNext(e) /\ stored' \in Recorded(e)
  /\ cut' = cut \cup {e.height : e \in {d \in logs : d.height <= stored'}}
  /\ logs' = {}
  /\ pc' = "start"
  /\ UNCHANGED <<head, events, caller, current, from, to, delivered, ranAhead>>

Next == \/ Mine \/ Begin \/ OnBlockHeader \/ FilterLogs \/ Callback
        \/ RangeDone \/ Stop

Spec == Init /\ [][Next]_vars

-----------------------------------------------------------------------------
(* Properties.                                                             *)

Log == [height : Nat, index : Nat]

\* Every variable has its type; what is left to pass on is in the range asked.
TypeOK ==
  /\ head \in 1..(MaxHead + 1) /\ events \subseteq Log
  /\ initHeight \in Nat /\ resume \in {0, 1} /\ stored \in Nat
  /\ pc \in {"start", "header", "filter", "callback"}
  /\ current \in Nat /\ from \in Nat /\ to \in Nat
  /\ logs \subseteq {e \in events : from <= e.height /\ e.height <= to}
  /\ pc # "callback" => logs = {}
  /\ delivered \subseteq events
  /\ cut \subseteq Nat
  /\ ranAhead \in BOOLEAN

\* Where the stream will go on: everything below was scanned.
Scanned == IF pc = "start" THEN ResumeHeight ELSE from

Missed(e) == /\ initHeight <= e.height /\ e.height < Scanned
             /\ e \notin delivered \cup logs

\* With a start height given, no log is ever skipped, over any number of
\* failures, restarts and ranges - except that the tracker, which goes on after
\* the block it recorded, skips the rest of a block it broke off in.  This needs
\* every stream to begin at or below the head: above it the unsigned difference
\* of head and FromBlock wraps around and the range runs away from the head.
NothingSkipped ==
  initHeight # 0 /\ ~ ranAhead
    => \A e \in events : Missed(e) => resume = 1 /\ e.height \in cut
=============================================================================
