# A verification of the BTP SDK

`btp-sdk` is a Go program that talks to the contracts of a set of BTP networks
(Ethereum-type and ICON-type) through one interface, serves them over an HTTP
API, and runs two services on top of it: the *auto-caller*, which executes the
calls that arrive at the xcall contract of a network, and the *tracker*, which
follows BTP messages over the networks they pass.

This directory holds TLA+ models of the parts of it whose correctness depends
on the order in which things happen, and of the conversions and filters between
them, the TLC runs that check the models, and proofs for TLAPS. Contents:

1. [The system](#1-the-system) - its parts, their state, how they interact, what is hard
2. [The models](#2-the-models) - which module models what, and how
3. [The runs](#3-the-runs) - what TLC checks, bounds, fairness
4. [The proofs](#4-the-proofs)
5. [What the models found](#5-what-the-models-found)
6. [What is not modelled](#6-what-is-not-modelled)
7. [The plan](#7-the-plan)

To check a run: `tlc -workers 2 -config Tracker.cfg MCTracker`. To check
proofs: `tlapm FinalityMonitor_proofs.tla`, and so on for every `*_proofs` module. `PROJECT.json` lists the runs, the
properties, for every property a plausible bug of the code that violates it,
the lines every definition models, and the hazards the properties are for.

## 1. The system

```
   networks (nodes)      contract/eth, contract/icon        contract
  ------------------    -----------------------------    ---------------
   headers, logs  --->   Adaptor.MonitorEvent      --->   event callbacks
   headers        --->   FinalitySupplier.Serve    --->   FinalityMonitor
   transactions   <---   Handler.Invoke, GetResult <---   service.Service
                                                              |
        +----------------------------+------------------------+
        v                            v                        v
   autocaller/xcall             tracker/bmc                 api (HTTP, ws)
        |                            |
        +-----------> database <-----+
```

| part | state | operations | behaviour that is hard |
|---|---|---|---|
| **Finality monitor** (`contract/monitor.go`, `contract/{eth,icon}/monitor.go`) | running context, last finalized block, one buffered channel per subscriber; one goroutine per start | Start, Stop, Subscribe, Unsubscribe, Last, IsFinalized; the goroutine: Last, Serve, notify | a stop only *cancels* the goroutine; the next start runs beside it. Slow subscribers are cut off. `IsFinalized` is several critical sections and requests |
| **Auto-caller, call task** (`autocaller/xcall`) | table of Calls; one `monitorEvent` and one `monitorFinality` goroutine per network, a `callResult` goroutine per transaction | onCallEvent, executeCall, callResult, onCallError, finalizeCall, dropBlock | crashes between sending a transaction and recording it; redelivered events; results and events about one record in any order; reorganisations |
| **Auto-caller, rollback task** | table of Rollbacks | onRollbackEvent, executeRollback, rollbackResult, finalizeRollback | the same, with two events that start a record and one more that ends it |
| **Tracker** (`tracker/bmc`) | tables of Blocks, BTPEvents and BTPStatuses, shared by the goroutines of all networks | onBTPEvent, updateLink/getLinks, Relink, finalizeBlock, finalizeEvent, dropBlock | events of one message are handled by the goroutines of several networks, in any order; nothing locks a status |
| **Adaptors** (`contract/eth/adaptor.go`, `contract/icon/adaptor.go`, `contract/*/result.go`) | position of a stream, events kept until their block is complete | MonitorEvent (polled, subscribed, ICON), newFilterQuery, Filter, GetResult | resumption after failures, ranges of blocks, unsigned block numbers; which logs a node sends, which of them a filter takes |
| **Contract handlers, signers** (`contract/*/handler.go`, `service/signer.go`, `Client.invoke`) | - | Invoke, Call, EventFilter, PrepareToSign, Sign | an Invoke is two rounds with the world moving in between; nonces of concurrent ones |
| **Codecs and conversions** (`contract/convert.go`, `contract/*/codec.go`) | - | ParamOf, ParamOfWithSpec, EqualParam, encode, decode | widths, notations, nested lists and structs, reflection that panics |
| **Repository** (`database`) | tables, locks of SaveIf and of transactions | Save, SaveIf, Find..., Transaction | which writers a lock excludes |
| **Services and their specification** (`service/*`) | merged specification | Spec.Merge, MergeOverloads, CopySpec, NewMergedService, Invoke/Call by network | overloads of several network types; networks come in the order of a Go map |
| **API server and client** (`api/server.go`, `api/client.go`) | websocket sessions of three goroutines | handlers of Call and Invoke, wsHandshake, event stream, read loop, ping loop | a session ends from any of its sides; each goroutine must find out |
| **OpenAPI, command line, web** | - | documents and wiring | - |

What makes each part correct:

* *Finality monitor.* A subscriber that is not told otherwise has seen every
  notified block; a channel is closed once and never sent to afterwards;
  notifications go up; `IsFinalized` never calls what is not final final or gone;
  a goroutine whose monitor was stopped ends, and one that runs catches up.
* *Auto-caller.* One record and one successful execution for a request; a record
  that is done stays done; what happened on the chain is recorded in the end, and
  a lost transaction is sent again - as far as the stream delivers what was missed; a
  record that is marked final is about the finalized chain.
* *Tracker.* An event is recorded once and under the one status of its message;
  no block of an open stream is passed over; the links of a status follow the journey of its
  message and its status is the one the journey implies; completed stays so.
* *Adaptors.* Over failures and resumptions no log is passed over; an event that a
  filter is for is told, others are not.
* *Handlers, signers.* The transaction that reaches a node is the one that was asked
  for and signed; options that the code completed are accepted by the code.
* *Conversions.* What reaches the contract means what was written; what fits is
  accepted; a filter finds the event that has its parameter.
* *Repository.* A predicate that made SaveIf save still holds when it saves.
* *Specification merge.* In whatever order networks are merged, each finds its own
  methods and events, and a merged service translates to it.
* *API server.* A client gets its answer before the events; a session ends its stream
  and its goroutines.

Interactions that the models keep: the auto-caller's and tracker's
`monitorFinality` loops subscribe to the finality monitor and call `IsFinalized`
on it (channel and call, `FinalityConsumer`); event streams call back into the
two services, whose errors end the stream (`AutoCaller`, `Tracker`,
`EthPollMonitor`); goroutines share tables, and nothing but the tables survives
a crash (`AutoCaller`, `Tracker`); networks include, revert, lose and
reorganise what is sent to them (`Ledger`). The two tasks of the auto-caller share a
chain, a monitor goroutine and a database (`AutoCaller`); the client, the signer of
the server and the handlers pass the options of a transaction to one another
(`Invoke`); server and client of a session share a connection (`WsSession`).

## 2. The models

| module | models | uses |
|---|---|---|
| `FinalityFeed` | abstract: what a subscription promises | - |
| `FinalityMonitor` | `DefaultFinalityMonitor` with the supplier of either type | implements `FinalityFeed` |
| `FinalityConsumer` | the `monitorFinality` loops of auto-caller and tracker on a monitor | extends `FinalityMonitor` |
| `EventStream` | the chain under an event stream, and its caller: what is recorded, where the next stream begins | - |
| `EthPollMonitor` | the polled `MonitorEvent` of the Ethereum adaptor | extends `EventStream` |
| `PushedStream` | `MonitorEvent` by a subscription (Ethereum) and of the ICON adaptor | extends `EventStream` |
| `EventFeed` | abstract: what an open event stream promises | extends `EventStream` |
| `EventStreams` | the two modules above, one to a behaviour, and how they refine `EventFeed` | extends `EthPollMonitor`, `PushedStream`; implements `EventFeed` |
| `EventMatch` | what filters ask of a node, and what `Filter` makes of a log | - |
| `Ledger` | external: a network as the SDK can observe it | - |
| `AutoCaller` | both tasks of the auto-caller and the repository under them | extends `Ledger` |
| `Tracker` | the tracker | - |
| `Invoke` | a transaction from its options to the pool: client, signers, both handlers | - |
| `Values` | parameters through conversions and both codecs, and `EqualParam` | - |
| `SpecMerge` | the merge of specifications, and merged services | - |
| `WsSession` | a websocket session, server and client | - |
| `MCFinalityMonitor`, `MCAutoCaller`, `MCTracker`, `MCValues` | definitions for TLC: symmetry, the journey, loads, types | |
| `MCInterfaces` | `EventStreams`, `EventMatch`, `Invoke`, `Values` and `SpecMerge` for TLC, one to a behaviour | extends them |
| `MCLiveness` | `FinalityMonitor` and `WsSession` under fairness, one to a behaviour | extends them |
| `EventStreams_proofs` | theorems about the polled and the pushed streams, and that both implement `EventFeed` | extends `EventStreams` |
| `EventMatch_proofs`, `AutoCaller_proofs`, `Tracker_proofs`, `Invoke_proofs`, `SpecMerge_proofs`, `WsSession_proofs` | theorems about the module of that name | extend it |
| `FinalityMonitor_proofs` | theorems about the monitor, and about its consumers | extends `FinalityConsumer` |

The conventions are those of the code: a record of the database is a TLA+
record, a goroutine has a program counter `pc[t]`, and an action is what the code
does between two points at which another goroutine can make a difference - a
critical section, an access to the database, a request to a network.

### FinalityMonitor, FinalityFeed, FinalityConsumer

A start of the monitor spawns a goroutine, here an *epoch*; `cancel` (`m.cancel`)
is the epoch that runs now. Stopping sets `cancel` to `None`, and the epoch that
was cancelled stays alive wherever it is, also between the last look at its
context and its critical section in `notify`. `last`, `subs` and `chan` are
`m.last`, the keys of `m.m` and the buffered channels.

| code | action |
|---|---|
| `Start`, `Stop`, `Subscribe`, `Unsubscribe` | the actions of these names, one critical section each; `_start`, `_remove`, `_isStarted` are operators as they are functions there |
| `<-s.C()` by the owner | `Receive` |
| `Last()`: `IsStarted()`, `getLast()`, `Latest()` | `LastIsStarted`, `LastGetLast`, `LastLatest`, `LatestFails` - by epochs and by callers of `IsFinalized` |
| the loop of `_start` | `Loop`, `ServeEnds`, `Wake` |
| `Serve` of `contract/eth`: poll, pass on a higher block | `ServeFetch` with `push = FALSE` |
| `Serve` of `contract/icon`: every block from `height` on | `ServeFetch` with `push = TRUE` |
| `notify` | `Notify`: one critical section |
| `IsFinalized` | `Ask`, the calls of `Last`, `Answer`; whether a node still serves a block that lost its height is the constant `ServesOrphans` |

A finalized block is its height, since the finalized chain does not change.
`FinalityFeed` has a log of published blocks and, per subscriber, where it began
and up to where it may still read; it says nothing about channels, contexts or
epochs. The refinement maps `first` to `since` and the limit of a closed
subscription to the part of the log its buffer reaches.

`FinalityConsumer` adds the loops of the consumers, which subscribe, take a
block, ask about records up to its height, and subscribe again when the channel
was closed. Consumers never unsubscribe; an independent client of the monitor
(the API has one per websocket) may, but with a consumer subscribed it does not
stop the monitor.

### EthPollMonitor

`MonitorEvent` on a node without subscriptions: `Begin` (first header),
`OnBlockHeader` (range with the unsigned comparison and the cut to
`MaxLogQueryRange`), `FilterLogs`, `Callback`, `RangeDone`, `Stop` (any failure or
crash, anywhere). Both users are in the model (`EventStream`): `resume` is 0 for the
auto-caller, which goes on *with* the height recorded last, and 1 for the
tracker, which goes on *after* it. `Modulus` is 2^64 in the code.

### PushedStream

The same two users over streams that the node pushes. `Open` begins a stream
(`monitorHeight` for ICON); the node notifies (`Produce` for a subscription,
`NodeNotifies` for ICON, which goes through the blocks from the one asked for).

| code | action |
|---|---|
| `MonitorBySubscribeFilterLogs` | `SubscribedLog`, `Fail` (the subscription's or the callback's error) |
| ICON: an event notification, filtered and kept in `es` | `Notified` |
| ICON: a progress notification; `GetBlockByHeight`; the callback for each of `es` | `Notified`, `Flush` for each, `Flushed` |
| ICON: a failing callback calls `conn.Close()` and goes on with the next event | `Flush` with `closing`, `Flushed` |
| ICON: a nil block is used after a failed request | `Fail`: the process dies, the stream begins again |

`PushedNothingSkipped` names what is skipped all the same: a subscription gets
nothing again of what came while it was not open, and the tracker goes on after the
block it broke off in.

### EventFeed, EventStreams

`EventFeed` says what the three kinds of streams have in common, with no word about
ranges, notifications or blocks that wait. It has a set of logs that an open stream
still has to pass on (`toCome`) and the block that comes next (`due`): when that block is mined
its logs are added; only the first of `toCome`, in the order of the chain, is ever
passed on, and it is gone from there afterwards. So an open stream repeats nothing, leaves
nothing out and keeps the order. An end may come at any time, and a failing callback may leave
its record behind; where streams begin and what a failing callback does to an ICON stream
(`Refused`: the rest of the block and nothing else) are the differences between them.

`EventStreams` maps the models to it:

| `EventFeed` | polled | subscription | ICON |
|---|---|---|---|
| `toCome` | answered logs not passed on yet, and the logs on the chain above the range; the logs from `FromBlock` on before there is an answer | the notifications that wait | the events kept and the notifications that wait, and the logs from the next block on; only the events kept once the callback has failed |
| `due` | the block after the head, or the one the range has run ahead to | the block after the head | the block after the head, or the one the stream was opened with |
| `astray` | the range is beyond the polled block | never | never |

A polled stream that begins above the head has a range that runs away (section 5); as long
as it does, `EventFeed` lets its expectations change (`Wander`) and promises only that what is
passed on comes in order and is on the chain. A requested block that is passed over in silence (`RangeDone`),
an answer (`FilterLogs`), a notification read (`Notified`) and the node's turning to the next
block (`NodeNotifies`) change nothing of the abstract state: that they lose nothing
is what the refinement shows.

### EventMatch

A monitor of one or two filters, and one log. `Sends` is what the node makes of the
question: `newFilterQuery` appends a list of topics *per address*, in the order of a
Go map, and a node takes the lists for the topics at position 1, 2, ... of a log.
`NewEvent` decodes (on Ethereum the first topics are taken for the first inputs),
`Decodes` is whether that succeeds, `Passes` is `Filter`. A value is a number, `Word` is one decoded, `Hash` one of which
only the hash is in the log; a filter's parameter has a notation too, because
`EqualParam` compares integers and addresses as texts.

### Ledger, AutoCaller

`Ledger` is no code of the SDK: it is the chain, the pool and the finalized
height, as far as the calls of the SDK can see them. It may mine, reorganise down
to the finalized height, finalize and lose transactions, and somebody else may
execute a request too. A stream asks for the events of a range of blocks
(`EventsBetween`): of the places in these blocks that hold an event, in their order.
`OnChain` is what is true of the chain; what the SDK is told of it is `IsFinalized` in `AutoCaller`.

What a stream begins with depends on its kind, which is `load.subscription`. A polled stream of
Ethereum and a stream of ICON begin at the height they are given, an Ethereum subscription
(`MonitorBySubscribeFilterLogs`, which is tried first) with whatever comes from then on
(`FirstHeight`). So a polled stream passes on again what a crash or a lost connection cut off, and a
subscription does not: `OnlyOlderForgotten`, `ExecutedIsRecorded` and `LostIsRetried` say
of subscriptions what holds until a crash. Chains fork under polled streams only: a
subscription tells of removed logs too, which `MonitorBySubscribeFilterLogs` passes on like
new ones, and that is not modelled.

| code | action |
|---|---|
| `monitorEvent`: `getMonitorHeight`, the stream and its end | `GetMonitorHeight`, `Fetch`, `ConnectionLost` |
| `onCallEvent` for CallMessage: look up, then execute or follow | `OnCallMessage` |
| `onRollbackEvent` for CallMessageSent: look up, then save | `OnCallMessageSent`, then `SaveDone` / `SaveDoneFails` |
| ... for ResponseMessage: look up, then save, execute or follow | `OnResponse` with either outcome; a success is saved as not applicable |
| `onCallEvent` for CallExecuted, `onRollbackEvent` for RollbackExecuted: look up; save | `OnExecuted`, then `SaveDone` / `SaveDoneFails` - two steps, as the record found in the first is written whole in the second; a rollback that was not applicable is a panic |
| `executeCall`, `executeRollback`: estimate and send | `InvokeSends`, `InvokeSkips`, `InvokeFails` (also after the transaction was accepted) |
| `SaveIfFoundStateIsNotDone` | `SaveIf` (transaction that excludes writers), or `SaveIfReads` and `SaveIfWrites`; `SaveIfFails`, which is only logged |
| `callResult`, `rollbackResult`: `GetResult`, `onCallError`, `onRollbackError` | `ResultSuccess`, `ResultFailure`, `ResultNotFound` |
| `finalizeCall`, `finalizeRollback`: a database transaction under the lock of the network; for each kind of block in turn, `Find` | `FinalizeBegins`, `FinalizeFinds` |
| ... `IsFinalized` for each record found, then `Update` by the same condition; the commit | `FinalizeUpdates` |
| ... `dropBlock` of the first one that was not found, and the commit | `FinalizeDrops` |
| ... a failing query or request, or the answer "not final": a rollback | `FinalizeFails` |
| process death | `Crash` |

The two tasks differ in names almost everywhere, so a record is a Call or a Rollback
by the kind of its request, and both tables are one (`rows`); a finalizer is given
the records of one of them (`TaskRows`), and `DropBlock` treats each kind its own way
(`DropCall`, `DropRollback`).

`fin` is the transaction of a finalizer that is open: the phase it is in, what it found, and the
marks it has written and not committed. Others work on meanwhile, but cannot write the rows
it has marked (`Writable`: MySQL and PostgreSQL lock them until the commit; SQLite, where nobody else writes at
all then, is a part of that). `Update` takes the rows that fit *now*, so one that was saved after
`Find` is marked without a question. `IsFinalized` is that of `FinalityMonitor`: right about a
block at the last finalized height, while below it `HeightByID` asks the node, which
may answer for a block that was replaced (`"orphans"`). `doubted` keeps the replaced blocks that
were marked in either way, and `FinalEventsOnChain` says that no others are. `NewResponse` keeps of the record found what
`onRollbackEvent` copies and resets the rest, the flag `trigger_finalized` included.

`Serializable` says which database is below: one whose plain `SELECT` in a
transaction excludes other writers (SQLite, as in the tests), or not (MySQL,
PostgreSQL). `Stop` of a service is not an action: nothing calls it;
`cmd/cli/server.go:470,484` call `Start` when the process starts.
`dropBlock` starts a second `monitorEvent` while the first goes on, because
`Start` stores the cancel function in a copy of the network; that is why
there may be several monitors. Where `monitorFinality`'s consistency check
between `IsFinalized` and its own height comes into play, see `FinalityConsumer`;
in `AutoCaller` finalization is asked about heights that are final, and an answer that
fails the check is a rollback like that of a failing request.

### Tracker

Every network has a chain of BTPEvents - the steps of journeys, in order - and
one goroutine that handles them. `OpenStream` is `getMonitorHeight` and the beginning of a stream: a
polled one goes on after the last recorded block, a subscription (`load.subscriptions`) with what comes
from now on; `since` is where it began. `StoreBlock`, `FindStatus`, `InsertStatus`, `CommitStatus`, `FindAgain`,
`StoreEvent`, `GetLinks`, `SaveStatus` are the accesses of `onBTPEvent` to the
database, in order; each has its failure: a failing `storeBlock` makes the
stream begin again with the same block (a polled one; a stutter), one in `storeBtpStatus`
leaves a nil status that the caller dereferences (`StatusFails`, the process dies), one
in `storeBtpEvent` is overwritten by the result of `updateLink`
(`StoreEventFails`), one in `getLinks`' query is taken for "no events"
(`GetLinksFails`), one of the last save ends the stream (`SaveStatusFails`).

`Walks` is `getLinks`: beginning with the SEND it takes a next link
(`findNextLink`) and infers the status (`inferStatus`) until there is none or the
status is completed. `FindBySrcAndNsn` asks for no order, so the model takes any
of the possible next links. `BlockEvents` are the consecutive events of one block in a
chain; `Longer` and `From` are one turn of the loop, `Leads` is `findNextLink`'s test of two
events. `Orderly` says of a journey when that test can only find the next step.

A new status gets its key when it is inserted and is seen by others when it is committed (`hidden` until
then, and for good if the process dies in between). With one writer at a time, as on SQLite
(`load.oneWriter`), nothing is inserted between the two. On MySQL and PostgreSQL the status with the lower key
may be committed second: the goroutine of the other network has found its own by then, and the events
of the message refer to two statuses. `overtaken` remembers such messages; `StatusShared` is
about the others.

`Relink` is what precedes `Start`, after `Crash` or `StatusFails`: statuses are derived anew, and a query that
fails is taken for "no events" there too. Chains do not fork, so `finalizeBlock` never drops blocks.

### Invoke

A caller asks with options (`Asking`); a client signs for itself, somebody else posts
options as they are. `p` is the transaction under construction, `opt` the options,
into which the handlers store what they fill in (`Fill`).

| code | action |
|---|---|
| `Client.invoke`: `PrepareToSign` by force | `ClientPrepares` |
| `SignerService.Invoke`: `PrepareToSign` with the server's signer | `ServerPrepares` |
| `newBaseTx`: estimate, nonce, fees and their checks | `Gas`, `Nonce`, `FromMissing`, `Fee` (three requests, between which the base fee and the nonces move) |
| ICON `newTransactionParam`: estimate, timestamp | `Gas`, `Time`, `FromMissing` |
| `RequireSignatureError`, `Sign`, the second round | `RequireSignature` |
| `TxData.WithSignature`, `SendTransaction` | `SendTransaction`; `Accepted` is the node |

The second round builds the transaction anew and the node recovers the sender from
the signature, so the sender is "unknown" unless both rounds built the same one:
that is what `SentAsAsked` is about. `Environment` moves the clock, the base fee and the
mined transactions at any point.

### Values

One parameter: from JSON (`JsonOf`: of the form of its type, of another form, or
incomplete) by `CallData` to the wire, by `Answer` back, and by `Compared` to the
parameter of a filter with the same text. The operators are the functions of
`convert.go` and `codec.go`; an error and a panic are values that pass through
(`InOrderOr` is the first failure of conversions made in order). Values carry the Go
type where reflection looks at it, since `reflect.Append` panics on it. An array type has a fixed size or
none; of a fixed size Ethereum's `encodeArray` panics (`EthEncodeArray`), ICON has none. Integers are a number and
its notation and have `Bits` bits (8 to 64 in the code, 3 in the run); booleans, bytes
and addresses behave like texts.

### SpecMerge

One name - a method or an event - in the contracts of the networks of a
service. Structs are not followed: `Spec.Merge` merges them only beside a method or
an event whose inputs or output differ, so that the structs of the first network,
and of one that equals it, are not found in the merged `Structs`, and nothing is
claimed of them; nor is the set of names followed that line 71 computes and discards.
`MergeNetwork` merges any next network, since the service iterates over a Go map.
`Handled` and `NotHandled` are the merge handler of `NewMergedService`, `CopyPanics` the nil
pointer in `CopyEventOverload`. `Resolved` and `Served` are how the server and a
merged service find the specification of a network.

### WsSession

Three goroutines at the server and one client over a connection whose messages wait
in `line`. `HandshakeRead`, `HandshakeAnswer`, `HandshakeRefuse`, `SourceEvent`,
`EventWritten`, `StreamEnds`, `HandlerReturns` are the handler, `ReadLoop` and
`PingTick`, `PingWritten`, `PingCancelled` the loops. A client leaves, or its
machine goes off (`vanished`), which only a write that is never acknowledged reveals
(`TcpGivesUp`). `aware` says whether the source of events looks at its context:
`MonitorBySubscribeFilterLogs` does not, so a session on it stays until the next event.

## 3. The runs

| run | question | size |
|---|---|---|
| `FinalityFeed` | Does every open subscription have every block (`NoSilentLoss`), is a channel registered exactly while it is open (`RegisteredIffOpen`), do the notifications of one goroutine go up (`SameServerOrder`), and is the monitor a `FinalityFeed` (`FeedSpec`)? | 2 subscriptions, 2 starts, 2 heights, buffer of 1, both suppliers |
| `FinalityConsumer` | Is what `IsFinalized` says true although it is not atomic (`AnswersSound`)? Is a consumer that was told of a height never refused below it, while the monitor was started once (`StateIsValidWhileStartedOnce`)? | a consumer with 2 subscriptions, a client, a caller |
| `FinalityStale` | ... and after a restart (`StateIsValid`)? **No**, see section 5 | the same |
| `Liveness` | Does a cancelled goroutine end (`CancelledEnds`), does a running one catch up (`CatchesUp`)? Do all goroutines of a session end (`SessionEnds`), does the client read its answer first and then every event (`AnswerThenEvents`)? | monitor: 1 subscription, 3 heights, 2 starts; session: 2 events, with and without pings, either kind of source |
| `AutoCallCrash` | One record per request (`OneRowPerRequest`), done stays done (`DoneStays`), a crash forgets only what lies below the resumed height, and a lost subscription nothing (`OnlyOlderForgotten`), no panic of `onRollbackEvent` (`PanicNeedsReorg`)? | a call and a rollback, 2 blocks of 1 or 2 items, 2 transactions, a crash; by subscription with 1 block finalized and lost connections, polled with either, and each task by itself polled with both |
| `AutoCallReorg` | Is a record marked final about the finalized chain, unless it was called final by mistake or marked unasked (`FinalEventsOnChain`)? | polled, 3 blocks, 2 branches, 2 monitors, a finalizer in steps; a call with 2 blocks finalized, replaced ones the node answers for and failing requests, a call with 1 and failing saves, a rollback with 1 |
| `AutoCallLive` | Is an execution recorded in the end (`ExecutedIsRecorded`), a lost transaction retried (`LostIsRetried`)? | a call or a rollback, polled or by subscription, with 1 block finalized; 2 calls, polled, with none; 3 blocks, a lost transaction, a crash |
| `AutoCallLostUpdate` | Does done stay done on a database without locking reads? **No**, see section 5 | 1 request, nothing fails |
| `Tracker` | Events recorded once and in order (`RecordedOnce`), no block of a stream passed over (`NoBlockSkipped`), one status for a message unless overtaken (`StatusShared`), finality of events is that of blocks (`FinalInFinalBlock`), links follow the journey (`LinksFollowJourney`)? | a two-way message over 2 networks: one by subscription, with lost connections and crashes, on a database of several writers; or both polled, with lost connections and failing statements, on one of a single writer |
| `TrackerRace` | Does a completed status stay so? **No**, see section 5 | the same message, nothing fails |
| `Interfaces` | Polled stream: is no log passed over (`NothingSkipped`)? Pushed streams: likewise (`PushedNothingSkipped`). Do all of them implement `EventFeed` (`StreamsAsPromised`)? Transactions: sent as asked and signed (`SentAsAsked`), completed options accepted (`InvalidOnlyAtFirst`), replaced only by a race (`ReplacedOnlyByRace`)? Values: `ArrivesAsWritten`, `FittingIsAccepted`, `FilterFindsItsEvent`. Filters: `WantedIsTold`, `OnlyWantedIsTold`. Specifications: `EachFindsItsOwn`, `TranslatesToOwn`, `HttpMethodFits`. | see below |
| `Dimensions` | Is an array of two dimensions decoded (`EveryDimensionDecoded`)? **No**, see section 5 | both codecs |

`Interfaces` and `Liveness` hold several modules that share no state: a variable `part`
says which one a behaviour is of, and the others stand still in a state where nothing is
left to happen. That is checking each of them by itself; they are
together because each is small. Under fairness standing still takes nothing away:
what is not enabled is owed nothing.

Some properties name exceptions: what the code does and nothing in the repository
promises otherwise is part of the statement, so that the rest of it is checked. They are
collected at the end of section 5.

`TypeOK` of every module also holds the relations between keys: a saved record
carries its own key, a key held by a goroutine refers to a row.

### Bounds, and why they are enough

* *Finality.* Two epochs are what it takes for an old goroutine to meet a new one;
  a third meets no one that two do not. Two heights tell "the one before" from
  "the latest", the consumer needs three (an old block, the one it was told of,
  the next). A buffer of one is full after one block and the second finds it full.
  `MaxNotices` bounds the history `log`. In `Liveness` it is no less than what
  the goroutines can hand over in the heights and starts there are, as the polled
  supplier hands over only what is new; so it cuts nothing off.
* *Event streams.* `MaxLogQueryRange` is 1, so that a range has at most two blocks and
  a backlog of four takes several; two logs in a block let a failure fall between;
  2^4 stands for 2^64. Pushed streams have the same blocks and logs.
* *Invoke.* Two callers are a race for a nonce, of one address or of two. The base
  fee goes from none to two values above the suggested fees, so that every fee
  branch is taken and a price changes between the rounds; callers give every
  combination of fee options that a check distinguishes.
* *Values.* Types up to three levels: every construct inside every other. Lists of up
  to two elements tell a first element from the next (the code does). With 3 bits the numbers
  -4..40 are in range, out of a signed range, and too long for either.
* *EventMatch.* No inputs or two, indexed or not, of a dynamic type or not; two filters over two
  addresses and two signatures; one log.
* *SpecMerge.* Three network types: two overloads beside a base is where an
  overload of one is mistaken for that of another. Each part has as many values as
  differ somewhere: three inputs, two outputs.
* *WsSession.* Two events tell an order; one ping on the wire is as good as several.
* *AutoCaller.* A call and a rollback, or two calls, are used where records can be
  confused or a resumed height can hide one; reorganisations are checked for
  each task by itself. Two blocks of up to two items have every order of two
  messages and two executions that is possible. Two monitors and two branches
  are the first reorganisation and the second `monitorEvent` it leaves behind; with two finalized
  blocks the first is below the last, where `IsFinalized` has to ask the node.
  How many get final is part of the load (`load.finalized`), as each of them multiplies the
  finalizers' steps: two for calls with orphans, one or none elsewhere.
  Where the pool of threads or transactions is used up, the model stops, so these
  bounds cut behaviours and never add any; for liveness the transactions are as
  many as can be used (`MaxTx = 5`, of which one may be lost).
* *Tracker.* A two-way message makes four events, two on each network; blocks of up
  to two events let a crash fall inside one. Two networks are two goroutines
  for every race, and `MaxKeys = 2` is a status of each. No other counter is bounded: crashes and failures are
  unlimited, and the finite journey bounds the rest.

Deadlock is not checked: with the chain, the starts and the transactions at
their bounds a model stops, and the program may indeed wait for ever for a network
that does nothing.

### Fairness

* `FinalityMonitor!Fairness`: weak fairness of what a goroutine can do on its
  own - the Go scheduler runs every runnable goroutine, locks are held for
  bounded time, a cancelled context ends `Serve`, a sleep ends. Strong fairness of
  the *successful* outcome of a request, which may fail any number of times but not
  for ever. Users of the monitor owe nothing: they may stop it or never read.
* `AutoCaller!FairSpec`: weak fairness of the goroutines, with requests that are
  answered (the run has no failing ones), and of a finalizer that has begun, since others wait for its
  rows. The network owes nothing: whether a
  block is mined or a transaction included stays open, and the properties
  only speak of what has happened on the chain or has been lost.
* `WsSession!SessionFairness`: weak fairness of the steps of the server's goroutines and of the
  client's noticing a closed connection; the ticker ticks, and TCP gives up a
  connection whose data is not acknowledged. No event has to come, no stream has to
  end, and no client has to leave. `SessionEnds` supposes a source that looks at its
  context, and pings where a machine went off: without them nothing finds out.

## 4. The proofs

Theorems hold for every value of the constants that the assumptions admit: any
number of subscriptions, callers, starts, blocks, requests, goroutines, records,
branches, crashes, messages, networks, events and network types; any buffer size
of at least 1, any range limit, any journey of a message where it is not said
otherwise. Each invariant below was checked by TLC on a run before it was proved.

| theorem | says |
|---|---|
| `FinalityMonitor_proofs!TypeCorrect` | `Spec => []TypeOK` |
| `FinalityMonitor_proofs!SubscriptionSafety` | `Spec => []RegisteredIffOpen`: no send on a closed channel, no double close |
| `FinalityMonitor_proofs!Lossless` | `Spec => []NoSilentLoss` |
| `FinalityMonitor_proofs!SoundAnswers` | `Spec => []AnswersSound` |
| `FinalityMonitor_proofs!MonitorImplementsFeed` | `Spec => FeedSpec`: every step is a step of `FinalityFeed` or stutters |
| `FinalityMonitor_proofs!OneServerInOrder` | `Spec => SameServerOrder` (an action property) |
| `FinalityMonitor_proofs!CompositionIsMonitor` | `SpecC => Spec`: consumers and client are users like any other |
| `FinalityMonitor_proofs!ConsumersAreToldSoundly` | `SpecC => []AnswersSound` |
| `FinalityMonitor_proofs!StateIsValidUntilRestart` | `SpecC => []StateIsValidWhileStartedOnce` |
| `AutoCaller_proofs!AutoCallerTyped` | `Spec => []TypeOK` |
| `AutoCaller_proofs!FinalMarksAreTrue` | `Spec => []FinalEventsOnChain`: over forks, second monitors, late writes, failures and crashes, with a finalizer that finds, asks and updates in steps |
| `AutoCaller_proofs!NoPanicWithoutReorg` | `Spec => []PanicNeedsReorg` |
| `AutoCaller_proofs!DoneIsKept` | `Serializable /\ Calm /\ Spec => DoneStays` |
| `AutoCaller_proofs!RequestsHaveOneRow` | `Spec => []OneRowPerRequest` |
| `AutoCaller_proofs!LatestIsNeverForgotten` | `Spec => [](Sure => OnlyOlderForgotten)`: of a polled stream always, of a subscription until a crash |
| `Tracker_proofs!TrackerTyped` | `Spec => []TypeOK` |
| `Tracker_proofs!EventsRecordedOnce` | `Spec => []RecordedOnce` |
| `Tracker_proofs!StreamSkipsNoBlock` | `Spec => []NoBlockSkipped`: since a stream began |
| `Tracker_proofs!PolledFromTheFirst` | a network without a subscription has begun at its first block for good, whatever it goes through |
| `Tracker_proofs!OneStatusPerMessage` | `Spec => []StatusShared`: unless a status was overtaken |
| `Tracker_proofs!OneWriterSharesStatus` | with one writer at a time all events of a message refer to one status |
| `Tracker_proofs!FinalEventsInFinalBlocks` | `Spec => []FinalInFinalBlock` |
| `Tracker_proofs!StatusFollowsJourney` | `(\A m \in Messages : Orderly(m)) /\ Spec => []LinksFollowJourney` |
| `Tracker_proofs!LinksOnlyGrowAlone` | `(\A m \in Messages : Orderly(m)) /\ "db" \notin load.faults /\ Spec /\ []Alone => LinksOnlyGrow` (an action property) |
| `Tracker_proofs!CompletedStaysAlone` | the same hypotheses `=> CompletedStays` (an action property) |
| `EventStreams_proofs!TypeCorrect` | `Spec => []TypeOK` |
| `EventStreams_proofs!NoLogSkipped` | `Spec => []NothingSkipped` |
| `EventStreams_proofs!PushedStreamSkipsNothing` | `PushedSpec => []PushedNothingSkipped` |
| `EventStreams_proofs!StreamsKeepThePromise` | `SpecStreams => StreamsAsPromised`: every step of a polled stream, a subscription or an ICON stream is a step of `EventFeed` or stutters |
| `EventMatch_proofs!OnlyWantedAreTold` | `SpecMatch => []OnlyWantedIsTold` |
| `EventMatch_proofs!WantedAreTold` | `SpecMatch => []WantedIsTold` |
| `Invoke_proofs!TransactionIsSentAsAsked` | `SpecInvoke => []SentAsAsked` |
| `Invoke_proofs!FilledOptionsAreAccepted` | `SpecInvoke => []InvalidOnlyAtFirst` |
| `Invoke_proofs!ReplacedByRaceOnly` | `SpecInvoke => []ReplacedOnlyByRace` |
| `SpecMerge_proofs!NetworksFindTheirOwn` | `SpecMerging => []EachFindsItsOwn`, of methods and events |
| `SpecMerge_proofs!ServiceTranslatesToOwn` | `SpecMerging => []TranslatesToOwn` |
| `SpecMerge_proofs!ReadonlyFits` | `SpecMerging => []HttpMethodFits` |
| `WsSession_proofs!ClientHearsInOrder` | `SpecSession => []AnswerThenEvents` |

### Assumptions and hypotheses

TLC evaluates the assumptions in the runs. They give the constants their types
(`FinalityAssumption`, `StreamAssumption`, `PollAssumption`, `KindsAssumption`, `LedgerAssumption`,
`AutoCallerAssumption`, `TrackerAssumption`, `InvokeAssumption`,
`MergeAssumption`, `MatchAssumption`, `ConsumerAssumption`), keep heights below 2^64
(`PollAssumption`), and tell `None`, which stands for a nil or a row that is not
there, from what could be in its place (`NoneAssumption` for the records of the
auto-caller: TLC only needs it to be a model value, a proof has to be told).

Four hypotheses stand in theorems, because the code does not keep the
property without them:

* `Calm` (no block is replaced) and `Sure` (nor does a save fail). With a subscription every behaviour
  is calm: see section 2.
  `OneRowPerRequest` and `PanicNeedsReorg` have such a premise of their own;
  `DoneStays` and `OnlyOlderForgotten` have none, and their run (`AutoCallCrash`) has no
  such faults. After a replaced block records are taken back on purpose, so that "done"
  does not stay, and after a failed save a goroutine holds a record without a key.
* `Serializable`: without it `DoneStays` fails, which is the run `AutoCallLostUpdate`.
* `Orderly(m)`: the journey of the message goes straight to where it is received
  and, if it asks for an answer, straight back, without a DROP, and no step but the next
  looks like the next one to `findNextLink`. `getLinks` only has the networks and kinds of
  events to go by, in no order: a message that passes a network twice the same way, or is
  dropped where the other way was open, can be followed along another path. `Orderly` is what is needed and
  no more is assumed of the length, the networks or the blocks.
* `[]Alone` with `"db" \notin load.faults`: no two handlers hold links of one message that they
  have derived and not saved, and no database operation fails. Without the first
  `CompletedStays` fails, which is the run `TrackerRace`; without the second a failed query in
  `getLinks` is taken for "no events" and saved over what was there. Each restricts
  behaviours and not the system: crashes, lost connections, `Relink`, races for the
  first status and every other overlap of handlers remain, in particular two handlers of one message
  where one has derived its links and the other records its event.

### Finality

`TypeOK` is not inductive: that `last` and what a supplier hands over
are heights of the chain needs that every height a goroutine holds is at most the
final one, or one more for a push supplier that waits for the next (`HoldsFinal`).
`TInv` is the two together. `SInv` adds that a subscription not made yet has an
empty history and is not registered (`Fresh`); without it `Subscribe` could
register a channel that has received something. The history property is an
equality of positions in a sequence, and the lemmas `MoveHead`, `SegmentGrows`,
`SegmentEmpty` and `ConcatAppend` say what appending to the log and moving the head
of a buffer do to it. `AInv` needs only `TInv`. The refinement uses `SInv`,
since `Take` of the feed is enabled because delivered blocks are a segment of the
log.

`OneServerInOrder` needs to know more of one goroutine than its height: the one that
handed over the last block (`NotifierGoesOn`). What it has read since is of a height at
or above it (the next one, from a push supplier), or its context was cancelled; and where it
asks the network anew (`latest`), it was cancelled, since a goroutine that was not takes
`m.last`. That `m.last` is what was handed over last (`LastIsLogged`) and that goroutines
which were not started do nothing (`Born`) are the other parts of `NInv`.

The composition inherits all of it by `CompositionIsMonitor`: every step of a consumer
or client is a step of the monitor or leaves it alone, once `sub[c]` is known to be a
subscription while it is used. `CInv` adds what the consumers know: `Born`
and, while there was one start, `OneStart`: no block on its
way is above `m.last` (`SentBelow`), a goroutine never lowers it (`ServesAbove`), and a
consumer asks about nothing above the block it was given, which is not above `m.last`
(`AsksBelow`). A second start breaks `ServesAbove` first; that is the run `FinalityStale`.

### Auto-caller

`TInv` says which record a goroutine may hold at which place (`Fits`), and that what a
stream passes on are events of requests that exist. Three independent arguments are
built on it:

* `FInv` (`FinalMarksAreTrue`): a mark travels from the table to the copy a goroutine
  holds and back, and the height it is about is at most the finalized one, which no fork
  reaches. So the invariant is of rows *and* copies, and needs no calm. What it does need is
  of the finalizer's transaction: a row that it has marked and not committed is what it was when it
  was marked (`FinMarks`), because nobody else writes that row before the commit (`Writable`), so that what
  is committed is what was asked about - or is in `doubted`, where `Good` says which. Between `Find` and
  `Update` nothing of the kind holds, and nothing of it is used.
* `CInv` (`NoPanicWithoutReorg`), while calm: the chain only grows and has a history that
  the xcall contract allows (`Hist`: a success excludes a failure and an execution), there is one monitor, and every
  record and copy says of the network what is so (`Recorded`). A record that is "not
  applicable" then has a success on the chain, after which nobody executes.
* `OInv` (`RequestsHaveOneRow`): a copy without a key is the monitor's and its request has
  no row, a copy with a key has the request of its row (`KeyFits`). `GInv`
  (`LatestIsNeverForgotten`) adds that a row and the copies of it are about the same
  event, which is on the chain; the row with the greatest height is then at or
  above the height a polled stream resumes from, and its event still comes (`LatestFollowed`). A
  subscription brings back nothing, but a goroutine that follows a row lasts as long as the
  process (`NewFollowed`).

`DoneIsKept` is an action property: `Exclusive` and `NotDoneYet` say that between the read and
the write of `SaveIf` nobody else writes, and that no copy held at a save is about a row that is done by
another writer's hand.

### Tracker

`IInv` says of every network that its stream has passed on the first `q` events of its
chain, and what is recorded is among them (`PassedOn`, with `q` one less where the event at
hand is not recorded yet); the recorded blocks are those from `since` to below `at`, and `since` is 1 but for a
subscription (`StreamFollows`); and a status that is seen, of a message that was not overtaken, is the first of
its message for good (`SharedStatus`), which is why the insertion that lost a race is never referred to.
With one writer no other goroutine is between its insertion and its commit, so no key is
overtaken (`OneWriter`). The crash inside a block is
where `q` may jump ahead of what is recorded: the tracker goes on after the block.

`LInv` needs `Orderly`: each step happens once, in turn (`StepsOnce`), so an event is
determined by its step, and the only event that `Leads` allows after step `k` is step `k + 1`.
The walk is a recursive function over a number; its values are
characterised by one lemma for the first and one for the next value, with induction
over the natural numbers inside one proof, where the predicate is an expression and not an
operator parameter. `GetLinks` works on events read in one step, so
`FollowsFound` is kept while other networks record more, as links only name rows.

What `TrackerRace` refutes holds where handlers do not overlap. `WalksReach` is the
converse of `WalksFollow`: if some events of a message are its first k steps, each walk has at least k
links, since after as many turns it has taken as many steps or found one that leads nowhere, and
`Connected` says that each of the k leads to the next. There are at least k turns because
the k events are different ones. So what `getLinks` or `Relink` derives is as long as what is in the
row, and `Ahead` says that it is still so when it is saved: the only step in
between that could make the row longer is the save of another handler of the same message, which
`Alone` excludes, as the key of a row belongs to one message (`SharedStatus`). Longer links begin as the
shorter ones did (`LinksExtended`, since an event is determined by its step), and a status is completed
exactly when its links are as many as the journey has steps (`CompletedIs`). `Ahead`
and both action properties were model-checked on `MCTracker` with `conn` and `crash` and
`Next /\ Alone'` as the next-state relation before they were proved.

### Polled stream

`Known` strengthens the types with what each program counter
knows about the range. `SkipInv` adds, as long as no stream began above the
head: the range asked never passes the head (`RangeInv`), and everything below it is
delivered, pending or in a block that was broken off (`HandledInv`). The proof
shows where each premise is needed: without `~ ranAhead` the unsigned difference
wraps around, and without an initial height a stream with nothing recorded begins
at the head of its next start.

### Pushed streams

A subscription (`SubInv`): every event is told of, on its way, or was missed while the
stream was not open. ICON (`IconInv`): what is kept and what is on its way is one block each, in
order, and ends with a progress notification (`IconQueues`); so the height that is recorded
is at most that of anything on its way. Everything below the next block is told of, on its way, in a
block broken off, or the callback has failed for it and the stream is about to end
(`Refusing`); `IconBreaks` is the one place where such events turn into what the property
names. That the node's notifications of a block are all of its logs needs that a set of logs can be
put in order (`OrderedLogs`).

### The promise of event streams

`StreamsInv` is inductive: for a polled stream `Known` and `PollInv`, for a pushed one what the
section above needs and `InLine`. Neither supposes a start height or a sane beginning, as
`NothingSkipped` and `PushedNothingSkipped` do: a promise about an open stream needs none.

* `PollInv` says, wherever the stream began, that the polled block is at most the one
  after the head and that a range which did not run ahead is not empty. With it
  the logs from `FromBlock` on are, after an answer, the logs of the range and those
  above it (`FilterLogsFeeds`), and when the range is done, those above it (`RangeDoneFeeds`).
* `InLine` says that what is kept and what waits is in the order of the chain, over the two queues.
  It is what makes the head of a queue the *first* of `toCome` (`FirstMessage`,
  `FirstKept`), and it needs `IconQueues`: an ICON stream takes up the next block only when
  no notification waits, but the events of the block before may still be kept.
* The rest is by step: each action keeps `toCome` and `due`, or is one of the steps of
  `EventFeed` (`...Feeds`), with the closed forms of `toCome` by phase and by step (`ByPhase`, `ByStep`).

### Filters

`MatchInv` says that filters are well typed and that what the callback is told is exactly one
answer for each filter that passes (`Answer`), in their order. Three facts about the
data carry the rest:

* `KthIs`: the k-th of a set of positions is one of them, by an induction over how many
  there are up to it. So the answers name different filters, and every passing filter has one.
* `FirstOnes`: where indexed inputs come first, the k-th indexed input is input k; then
  the topic at k + 1 is that of input k (`OwnTopics`), and what a filter is compared with is the
  log's own value or its hash (`Comparisons`).
* `OneContractIsSent`: with filters of one contract the query has one list of topics, whatever the order of
  the map, and the node sends every log of a signature asked for.

Where indexed inputs do not come first `Comparisons` is false; that is why `OnlyWantedIsTold`
claims only the contract and the event there, see section 5.

### Transactions

`Progress` says how far the transaction is built at each place, `SignedAsBuilt` that in the second
round the options are complete and the signature is over the very transaction that
complete options build, whatever base fee and nonces are by then: a handler that finds nothing to
fill in asks nobody. From it follow that the recovered sender is the one expected
(`TransactionIsSentAsAsked`) and that no check refuses in the second round (`FilledOptionsAreAccepted`).
`NonceWasFree` says that a nonce that was asked for was no transaction's when it was given; that a pending
nonce is one by which no accepted transaction goes is a pigeonhole argument over the counted ones (`PendingNonceIsFree`).

### Specifications

`Placed` says where Merge has put the networks: the base is the specification of each network that is in
its types, every overload was made for the contract of some network that differs
from the base, with exactly the parts that differ (`OverloadsOf`), and agrees with each
network in it; and every network is in one or the other. `OwnOrHidden` is the heart:
an overload over the base is the whole specification of a network in it, or the overload names a proper
part of what that network differs in, which is `Shadowed`. `BackToOwn` composes it with
what `TranslatesBack` adds: a part that is not translated is the same in the merged
specification, an overload's own, or the base's.

### Websocket session

A numbering: what was heard and what is on the wire, pings left out, are numbered one after
the other, and each is what is expected under its number (`Ranks`); the number of the last one is
how many the handler has written. Failing writes end the numbering, not its truth.

### Only model-checked

* All liveness properties (`CancelledEnds`, `CatchesUp`, `SessionEnds`, `ExecutedIsRecorded`,
  `LostIsRetried`): fairness and ENABLED are out of the prover's reach.
* `ArrivesAsWritten`, `FittingIsAccepted`, `FilterFindsItsEvent` (`Values`): the operators are recursive over types and values,
  and what a recursive definition does for every type is an induction over data.
* The properties the four failing runs refute, and everything outside the bounds that
  sections 2 and 3 name.

## 5. What the models found

Four runs are expected to be violated; each checks what the code says of
itself.

* **`FinalityStale`** - "invalid FinalityMonitor state"
  (`autocaller/xcall/autocaller.go:575`, `tracker/bmc/tracker.go:604`) can happen.
  The goroutine of an earlier start passes on an older block after a restart, and
  `notify` (`contract/monitor.go:103`) takes it, so `m.last` goes down below the
  block a consumer was told of. `FinalityConsumer` shows that it takes a restart.
* **`AutoCallLostUpdate`** - `SaveIf` (`database/repository.go:143`) evaluates its
  predicate on a plain read and saves later; its lock excludes other `SaveIf`s but
  not the `Save` by which `onCallEvent` records an execution
  (`autocaller/xcall/autocaller.go:316`). On a database that does not
  serialize the two the late result of a transaction turns a done record back.
* **`TrackerRace`** - `updateLink` (`tracker/bmc/tracker.go:428`) saves links and
  status derived from events read before. A handler of another network that read
  fewer events may save last, and a completed status is not completed any more;
  nothing corrects it until `Relink` at the next start. That overlap is all it takes and,
  for an orderly message and while the database works, all that can do it: `CompletedStaysAlone`.
* **`Dimensions`** - `decodeArray` (`contract/eth/codec.go:254`,
  `contract/icon/codec.go:217`) makes the slice of every dimension with the type of the
  whole value and panics on the first element of the outer one, although it calls
  itself for inner dimensions and `getFeeTable` of the BMC returns such an array.

Worth knowing although no document promises otherwise, and therefore exceptions
that the properties name:

* `NothingSkipped`, `PushedNothingSkipped`: the tracker resumes *after* the block it
  recorded, so that a failure in the middle of a block loses the rest of its events; a
  polled stream that begins above the head asks for a wrong range
  (`contract/eth/adaptor.go:288`); a subscription gets nothing of what came while it
  was not open (`:440`); without a start height a stream with nothing recorded begins at
  the head.
* `OneRowPerRequest`: a second record may come of two monitors after a reorganisation, which
  may also leave records of several callers under one serial number, of which a look-up
  sees the first; and of a failed save, after which the goroutine goes on with a record
  without a key.
* `OnlyOlderForgotten`, `ExecutedIsRecorded`, `LostIsRetried`, `NoBlockSkipped`: what an Ethereum subscription
  missed while it was closed, by a crash or between two connections, does not come again
  (`contract/eth/adaptor.go:440`), and the next event moves the height recorded past it; a
  transaction that was under way at a crash is not followed any more, and an execution
  in the gap is never recorded.
* `StatusShared`: a message has two statuses when the one with the lower key is committed after the other
  was found (`tracker/bmc/tracker.go:376`), which takes a database of several writers.
* `FinalEventsOnChain`: `IsFinalized` may call a replaced block final that is below the last one
  (`contract/eth/monitor.go:130`), and a record that is saved between `Find` and `Update`
  is marked without a question (`autocaller/xcall/autocaller.go:578`). When `dropBlock` takes a ResponseMessage away
  (`autocaller/xcall/repository.go:61`) it leaves `event_finalized`, so that a record may be
  marked final and have no event.
* `PanicNeedsReorg`: a reorganisation may lead to the panic of
  `autocaller/xcall/autocaller.go:448`.
* `ArrivesAsWritten`: a signed number of one or two bits too many passes the check of its
  length (`contract/eth/codec.go:66`) and loses its highest bits.
* `FittingIsAccepted`: a struct that holds a list is refused or panics, an array of
  arrays is refused by the ICON codec, and an array of a fixed size makes the Ethereum codec panic
  (`contract/eth/codec.go:162`: `reflect.MakeSlice` of an array type), although
  `contract/eth/spec.go:165` accepts it in a specification.
* `FilterFindsItsEvent`, `WantedIsTold`: integers must be written the way they are
  decoded; on Ethereum a monitor of two contracts hears of nothing
  (`contract/eth/adaptor.go:239`), and indexed inputs must come first
  (`contract/eth/result.go:474`).
* `OnlyWantedIsTold`: where indexed inputs do not come first, `NewEvent` gives an input of a
  dynamic type the topic of another one (`contract/eth/result.go:474`): a filter for one parameter
  may take an event for the value of another, and the event that is told carries that hash.
* `EachFindsItsOwn`, `TranslatesToOwn`, `HttpMethodFits`: a network that differs in more
  than an overload names is put in that overload when it agrees with what it names
  (`service/spec.go:202`), depending on the order of a Go map (`Shadowed`).
* `SentAsAsked`: not when somebody posts a signature of another transaction.
* `ReplacedOnlyByRace`: two Invokes that ask for the pending nonce before either was
  accepted get the same one.

## 6. What is not modelled

* *Forks under a subscription.* A node tells a subscriber of logs that were removed, and
  `MonitorBySubscribeFilterLogs` passes them on like new ones.
* *Structs of a merged specification*, see `SpecMerge` in section 2.
* *Tracker with forks.* `dropBlock` takes a read lock and defers the release of a
  write lock, which the Go runtime turns into a fatal error: every behaviour
  with a fork ends there, again at every start.
* *`MonitorBaseEvent`*, and `monitorByPollBlock` and `matchLog` under it, and
  `ResetStructs`: they have no caller.
* *`NewHandler`, reading an ABI, JSON forms of results and events, failure reasons*:
  parsing and formatting; what depends on them (shapes of events, receipts) is chosen
  freely.
* *Concurrent writers of a websocket connection*: what happens is up to
  gorilla/websocket, which forbids it.
* *Queries* (Find, FindOne, Summary, paging) and the handlers over them; registration of contract
  services, one map behind a lock.
* *OpenAPI document, command line, web pages, examples, Gradle plugin,
  contract bindings*: wiring, formatting and generated code without behaviour of
  their own over time.

## 7. The plan

Done, in this order: the finality monitor with its abstract feed and its
consumers, and its proofs; the auto-caller's call task over a ledger; the polled
event stream and its proofs; the tracker; the rollback task within `AutoCaller`; the
pushed streams, filters, transactions, values, specifications and websocket
sessions; the proofs of the consumers, the pushed streams, the auto-caller, the tracker, the transactions,
the specifications and the sessions; the abstract event stream and that all streams implement it;
the proofs about filters; that links only grow where handlers of one message do not overlap.

What would come next:

1. `FinalityConsumer`: a consumer asks about every block it was given before it takes the
   next.
2. Which lock or transaction around `getLinks` and the save makes `Alone` true of every behaviour:
   a model of the repaired `updateLink`, of which `CompletedStays` then holds without it.
