--------------------------- MODULE FinalityMonitor ---------------------------
(***************************************************************************)
(* DefaultFinalityMonitor (contract/monitor.go) with the FinalitySupplier  *)
(* of an Ethereum-type (contract/eth/monitor.go) or an ICON-type           *)
(* (contract/icon/monitor.go) network.                                     *)
(*                                                                         *)
(* A monitor is started by its first subscription and stopped with its     *)
(* last one; every start spawns a goroutine, and a stop only cancels that  *)
(* goroutine's context.  An "epoch" below is one such goroutine: after a   *)
(* stop and a new start the old one may still be inside Serve.  Every      *)
(* critical section of m.mtx is one action; what a goroutine does between  *)
(* two critical sections is one or more actions of its own.                *)
(*                                                                         *)
(* A finalized block is represented by its height: the finalized chain     *)
(* never changes, so a height on it names one block.                       *)
(***************************************************************************)
EXTENDS Naturals, Sequences, FiniteSets

CONSTANTS
  Subs,        \* subscriptions; each is made at most once
  Queries,     \* callers of IsFinalized
  BufferSize,  \* the "size" argument of Subscribe
  Suppliers,   \* kinds of FinalitySupplier: TRUE for ICON, FALSE for Ethereum
  ServesOrphans, \* whether nodes may answer for a block that lost its height
  None,        \* the nil of m.cancel and of m.last
  MaxHeight,   \* bound: highest block the network finalizes
  MaxEpochs,   \* bound: how often the monitor is started
  MaxNotices   \* bound: how many blocks the suppliers hand over

ASSUME FinalityAssumption ==
  /\ BufferSize \in Nat \ {0}
  /\ Suppliers \in SUBSET BOOLEAN /\ ServesOrphans \in BOOLEAN
  /\ MaxHeight \in Nat \ {0}
  /\ MaxEpochs \in Nat \ {0}
  /\ MaxNotices \in Nat
  /\ None \notin Nat
  /\ Queries \cap Nat = {}

Heights == 1..MaxHeight
Epochs  == 1..MaxEpochs
Threads == Epochs \cup Queries

VARIABLES
  final,   \* height of the latest finalized block of the network
  push,    \* the kind of the network's FinalitySupplier
  cancel,  \* m.cancel: the running epoch, or None
  epoch,   \* epochs started so far
  last,    \* m.last
  subs,    \* the keys of m.m
  chan,    \* the channel of every subscription
  pc,      \* what each goroutine and each IsFinalized call does next
  height,  \* result of Last(), then the "height" of the supplier's Serve
  bi,      \* the block a goroutine is about to pass to the callback, or 0
  ask,     \* the arguments of an IsFinalized call
  answer,  \* its result
  log,     \* history: every block notified
  notifier,\* history: the epoch that notified last
  since,   \* history: Len(log) when the subscription was made
  got      \* history: what the owner of a subscription has received

network     == <<final, push>>
monitorVars == <<cancel, epoch, last, subs, chan>>
threadVars  == <<pc, height, bi>>
queryVars   == <<ask, answer>>
histVars    == <<log, notifier, since, got>>
vars == <<network, monitorVars, threadVars, queryVars, histVars>>

Init ==
  /\ final = 1 /\ push \in Suppliers
  /\ cancel = None /\ epoch = 0 /\ last = None
  /\ subs = {}
  /\ chan = [s \in Subs |-> [status |-> "new", buf |-> <<>>]]
  /\ pc = [t \in Threads |-> IF t \in Queries THEN "idle" ELSE "unborn"]
  /\ height = [t \in Threads |-> 0]
  /\ bi = [e \in Epochs |-> 0]
  /\ ask = [q \in Queries |-> [height |-> 1, onChain |-> TRUE]]
  /\ answer = [q \in Queries |-> "none"]
  /\ log = <<>>
  /\ notifier = None
  /\ since = [s \in Subs |-> 0]
  /\ got = [s \in Subs |-> <<>>]

-----------------------------------------------------------------------------
(* Critical sections called by the users of a monitor.                     *)

_isStarted == cancel # None

_start ==
  IF _isStarted
    THEN UNCHANGED <<cancel, epoch, pc>>
    ELSE /\ epoch < MaxEpochs
         /\ epoch' = epoch + 1
         /\ cancel' = epoch + 1
         /\ pc' = [pc EXCEPT ![epoch + 1] = "loop"]

RemoveKeepsKey(D) ==
  /\ UNCHANGED subs
  /\ chan' = [s \in Subs |-> IF s \in subs \cap D
                               THEN [chan[s] EXCEPT !.status = "closed"]
                               ELSE chan[s]]

\* close(ch) and delete(m.m, k) for the keys in D; others are left alone.
_remove(D) ==
  /\ subs' = subs \ D
  /\ chan' = [s \in Subs |-> IF s \in subs \cap D
                               THEN [chan[s] EXCEPT !.status = "closed"]
                               ELSE chan[s]]

Start ==
  /\ _start
  /\ UNCHANGED <<network, last, subs, chan, height, bi, queryVars, histVars>>

Stop ==
  /\ _isStarted
  /\ cancel' = None
  /\ _remove(subs)
  /\ UNCHANGED <<network, epoch, last, threadVars, queryVars, histVars>>

Subscribe(s) ==
  /\ chan[s].status = "new"
  /\ _start
  /\ chan' = [chan EXCEPT ![s] = [status |-> "open", buf |-> <<>>]]
  /\ subs' = subs \cup {s}
  /\ since' = [since EXCEPT ![s] = Len(log)]
  /\ UNCHANGED <<network, last, height, bi, queryVars, log, notifier, got>>

\* May be called again: the second _remove does nothing, the second look at
\* the emptiness of m.m may stop the monitor all the same.
Unsubscribe(s) ==
  /\ chan[s].status # "new"
  /\ _remove({s})
  /\ cancel' = IF subs \ {s} = {} THEN None ELSE cancel
  /\ UNCHANGED <<network, epoch, last, threadVars, queryVars, histVars>>

\* The owner reads C(); what is buffered stays readable after the close.
Receive(s) ==
  /\ chan[s].buf # <<>>
  /\ chan' = [chan EXCEPT ![s].buf = Tail(@)]
  /\ got' = [got EXCEPT ![s] = Append(@, Head(chan[s].buf))]
  /\ UNCHANGED <<network, cancel, epoch, last, subs, threadVars, queryVars,
                 log, notifier, since>>

-----------------------------------------------------------------------------
(* Last(), called by an epoch before it serves and by IsFinalized: two     *)
(* critical sections (IsStarted, getLast), then maybe a request to the     *)
(* network that may fail.                                                  *)

Goto(t, label) == pc' = [pc EXCEPT ![t] = label]

GivesUp(t) == IF t \in Epochs THEN "done" ELSE "idle"

Returned(t) == IF t \in Epochs THEN "serve" ELSE "compare"
Failed(t)   == IF t \in Epochs THEN "sleep" ELSE "idle"

LastIsStarted(t) ==
  /\ pc[t] = "last"
  /\ Goto(t, IF _isStarted THEN "getLast" ELSE "latest")
  /\ UNCHANGED <<network, monitorVars, height, bi, queryVars, histVars>>

LastGetLast(t) ==
  /\ pc[t] = "getLast"
  /\ IF last # None
       THEN /\ height' = [height EXCEPT ![t] = last]
            /\ Goto(t, Returned(t))
       ELSE /\ Goto(t, "latest")
            /\ UNCHANGED height
  /\ UNCHANGED <<network, monitorVars, bi, queryVars, histVars>>

LastLatest(t) ==
  /\ pc[t] = "latest"
  /\ height' = [height EXCEPT ![t] = final]
  /\ Goto(t, Returned(t))
  /\ UNCHANGED <<network, monitorVars, bi, queryVars, histVars>>

LatestFails(t) ==
  /\ pc[t] \in {"latest", "compare"}
  /\ Goto(t, Failed(t))
  /\ UNCHANGED <<network, monitorVars, height, bi, queryVars, histVars>>

-----------------------------------------------------------------------------
(* The goroutine of one epoch.                                             *)

NotStarted(e) == ~ _isStarted

Cancelled(e) == cancel # e

Loop(e) ==
  /\ pc[e] = "loop"
  /\ Goto(e, IF Cancelled(e) THEN "done" ELSE "last")
  /\ UNCHANGED <<network, monitorVars, height, bi, queryVars, histVars>>

\* Serve sees its context done, or the request or connection fails; the
\* goroutine sleeps and goes back to the head of its loop.
ServeEnds(e) ==
  /\ pc[e] = "serve"
  /\ Goto(e, "sleep")
  /\ UNCHANGED <<network, monitorVars, height, bi, queryVars, histVars>>

\* Ethereum: poll the latest block, hand it over only if it is higher.
\* ICON: the node sends every block from "height" on, that one included.
\* The context is looked at before the request, not after it.
HandoverAgain(e) == {h \in {final} : h >= height[e]}

Handover(e) == IF push THEN {h \in {height[e]} : h <= final}
                       ELSE {h \in {final} : h > height[e]}

ServeFetch(e) ==
  /\ pc[e] = "serve"
  /\ ~ Cancelled(e)
  /\ Len(log) < MaxNotices
  /\ \E h \in Handover(e) : bi' = [bi EXCEPT ![e] = h]
  /\ Goto(e, "notify")
  /\ UNCHANGED <<network, monitorVars, height, queryVars, histVars>>

\* The critical section of notify(v): a subscriber that has room gets the
\* block, the channel of one that has none is closed and dropped.
FullOffByOne(s) == Len(chan[s].buf) > BufferSize
Full(s) == Len(chan[s].buf) >= BufferSize

SlowIgnored == {}
Slow == {s \in subs : Full(s)}

Deliver(b) ==
  /\ subs' = subs \ Slow
  /\ chan' = [s \in Subs |->
       IF s \in Slow THEN [chan[s] EXCEPT !.status = "closed"]
       ELSE IF s \in subs /\ ~ Full(s) THEN [chan[s] EXCEPT !.buf = Append(@, b)]
       ELSE chan[s]]

Notify(e) ==
  /\ pc[e] = "notify"
  /\ last' = bi[e]
  /\ Deliver(bi[e])
  /\ log' = Append(log, bi[e])
  /\ notifier' = e
  /\ height' = [height EXCEPT ![e] = IF push THEN bi[e] + 1 ELSE bi[e]]
  /\ Goto(e, "serve")
  /\ bi' = [bi EXCEPT ![e] = 0]
  /\ UNCHANGED <<network, cancel, epoch, queryVars, since, got>>

Wake(e) ==
  /\ pc[e] = "sleep"
  /\ Goto(e, "loop")
  /\ UNCHANGED <<network, monitorVars, height, bi, queryVars, histVars>>

-----------------------------------------------------------------------------
(* IsFinalized(height, id): "onChain" says whether the id is that of the   *)
(* finalized chain's block of that height.                                 *)

Ask(q, h, onChain) ==
  /\ pc[q] = "idle"
  /\ ask' = [ask EXCEPT ![q] = [height |-> h, onChain |-> onChain]]
  /\ answer' = [answer EXCEPT ![q] = "none"]
  /\ Goto(q, "last")
  /\ UNCHANGED <<network, monitorVars, height, bi, histVars>>

\* EqualID for the last block itself, HeightByID for an older one: a node may
\* still know an orphaned block by its id, and then tells its height.
TrustHeightByID(q) ==
  IF ask[q].onChain THEN {"true"}
  ELSE {"notFoundBlock"} \cup {a \in {"true"} : ServesOrphans}

OlderOrphanServed(q) == ServesOrphans /\ ask[q].height < height[q]

Verdicts(q) ==
  IF ask[q].height > height[q] THEN {"false"}
  ELSE IF ask[q].onChain THEN {"true"}
  ELSE {"notFoundBlock"} \cup {a \in {"true"} : OlderOrphanServed(q)}

Answer(q) ==
  /\ pc[q] = "compare"
  /\ \E a \in Verdicts(q) : answer' = [answer EXCEPT ![q] = a]
  /\ Goto(q, "idle")
  /\ UNCHANGED <<network, monitorVars, height, bi, ask, histVars>>

-----------------------------------------------------------------------------
Finalize ==
  /\ final < MaxHeight
  /\ final' = final + 1
  /\ UNCHANGED <<push, monitorVars, threadVars, queryVars, histVars>>

User == \/ Start \/ Stop
        \/ \E s \in Subs : Subscribe(s) \/ Unsubscribe(s) \/ Receive(s)

LastOf(t) == LastIsStarted(t) \/ LastGetLast(t) \/ LastLatest(t)
             \/ LatestFails(t)

Goroutine(e) == \/ Loop(e) \/ LastOf(e) \/ ServeEnds(e) \/ ServeFetch(e)
                \/ Notify(e) \/ Wake(e)

Query(q) == \/ \E h \in Heights, c \in BOOLEAN : Ask(q, h, c)
            \/ LastOf(q) \/ Answer(q)

Next == \/ Finalize
        \/ User
        \/ \E e \in Epochs : Goroutine(e)
        \/ \E q \in Queries : Query(q)

Spec == Init /\ [][Next]_vars

-----------------------------------------------------------------------------
(* Fairness.  The runtime runs every goroutine that can take a step, so a  *)
(* woken, looping or notifying goroutine goes on and a cancelled Serve     *)
(* returns.  A request to the network may fail any number of times but not *)
(* for ever: the successful outcome is strongly fair.  Users owe nothing.  *)

Fairness ==
  \A e \in Epochs :
    /\ WF_vars(Loop(e) \/ LastIsStarted(e) \/ LastGetLast(e) \/ Notify(e)
               \/ Wake(e) \/ (Cancelled(e) /\ ServeEnds(e)))
    /\ SF_vars(LastLatest(e))
    /\ SF_vars(ServeFetch(e))

FairSpec == Spec /\ Fairness

-----------------------------------------------------------------------------
(* Properties.                                                             *)

Status == {"new", "open", "closed"}
Labels == {"unborn", "loop", "last", "getLast", "latest", "serve", "notify",
           "sleep", "done", "idle", "compare"}
Answers == {"none", "true", "false", "notFoundBlock"}

\* Every variable has its type; no channel holds more than its capacity and
\* m.cancel belongs to the epoch started last.
TypeOK ==
  /\ final \in Heights /\ push \in Suppliers
  /\ cancel \in {None, epoch}
  /\ epoch \in 0..MaxEpochs
  /\ last \in Heights \cup {None}
  /\ subs \in SUBSET Subs
  /\ chan \in [Subs -> [status : Status, buf : Seq(Heights)]]
  /\ \A s \in Subs : Len(chan[s].buf) <= BufferSize
  /\ pc \in [Threads -> Labels]
  /\ height \in [Threads -> Nat]
  /\ bi \in [Epochs -> 0..MaxHeight]
  /\ ask \in [Queries -> [height : Heights, onChain : BOOLEAN]]
  /\ answer \in [Queries -> Answers]
  /\ log \in Seq(Heights)
  /\ notifier \in Epochs \cup {None}
  /\ since \in [Subs -> Nat]
  /\ got \in [Subs -> Seq(Heights)]

\* A channel is registered exactly as long as it is open, and only while the
\* monitor runs.  So notify never sends on a closed channel, no channel is
\* closed twice (either panics), and no subscriber waits on a stopped monitor.
RegisteredIffOpen ==
  /\ \A s \in Subs : s \in subs <=> chan[s].status = "open"
  /\ subs # {} => _isStarted

\* What s has taken from its channel or can still take.
Delivered(s) == got[s] \o chan[s].buf

\* d is what the log l holds from position k + 1 on.
IsSegment(d, k, l) == /\ k + Len(d) <= Len(l)
                      /\ \A i \in 1..Len(d) : d[i] = l[k + i]

\* A subscriber never misses a block without being told: what it was given is
\* what was notified from its subscription on, block by block, and as long as
\* its channel is open that is everything up to the latest block.
NoSilentLoss ==
  \A s \in Subs : chan[s].status # "new" =>
    /\ IsSegment(Delivered(s), since[s], log)
    /\ s \in subs => since[s] + Len(Delivered(s)) = Len(log)

\* IsFinalized answers "true" and "not found" only about heights that are
\* final, whatever starts, stops and stale notifications happen during the
\* call; "not found", on which its callers delete records, is only ever said of
\* a block that lost its height.  It calls such a block final only by asking a
\* node that still knows it, and never at the height of the latest finalized block.
AnswersSound ==
  \A q \in Queries :
    /\ answer[q] \in {"true", "notFoundBlock"} => ask[q].height <= final
    /\ answer[q] = "true" /\ ~ ask[q].onChain
         => ServesOrphans /\ ask[q].height < final
    /\ answer[q] = "notFoundBlock" => ~ ask[q].onChain

\* Two notifications in a row by one goroutine, across failures and retries of
\* Serve in between, go strictly up (a poll) or repeat or go up by one (a
\* push).  Only another goroutine's notification in between can break this.
InOrder(a, b) == IF push THEN b \in {a, a + 1} ELSE a < b

SameServerOrder ==
  [][log' # log /\ notifier' = notifier
       => InOrder(log[Len(log)], log'[Len(log')])]_vars

\* A goroutine whose context was cancelled ends, whatever it was doing.
CancelledEnds ==
  \A e \in Epochs : (e <= epoch /\ Cancelled(e)) ~> pc[e] = "done"

\* As long as the monitor is left running, its goroutine keeps catching up
\* with the network, however often requests fail.
CatchesUp ==
  \A e \in Epochs : <>[](cancel = e) => []<>(height[e] >= final)

\* The refinement: a subscription that was made starts at since[s]; one whose
\* channel was closed may read what was sent on it before.
feedFirst == [s \in Subs |-> IF chan[s].status = "new" THEN None ELSE since[s]]
feedLimit == [s \in Subs |-> IF chan[s].status = "closed"
                               THEN since[s] + Len(Delivered(s)) ELSE None]

Feed == INSTANCE FinalityFeed WITH
  Blocks <- Heights, NotYet <- None, Unlimited <- None,
  first <- feedFirst, limit <- feedLimit

\* The monitor implements the promise of FinalityFeed: one published sequence,
\* read in order and without a gap from the subscription to the detachment.
FeedSpec == Feed!Spec
=============================================================================
