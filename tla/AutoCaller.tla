----------------------------- MODULE AutoCaller -----------------------------
(***************************************************************************)
(* The auto-caller (autocaller/xcall) on one network.  Its call task: for  *)
(* every CallMessage event it invokes executeCall, follows the result of   *)
(* the transaction, and marks the record done on the CallExecuted event.   *)
(* Its rollback task: it records every CallMessageSent, invokes            *)
(* executeRollback when a ResponseMessage reports a failure, and marks the *)
(* record done on the RollbackExecuted event.                              *)
(*                                                                         *)
(* Threads are the monitorEvent goroutines ("monitors") and the callResult *)
(* and rollbackResult goroutines ("results"); both run executeCall or      *)
(* executeRollback and their error handlers, which differ in names only.   *)
(* The monitorFinality goroutine marks records final and drops those of    *)
(* replaced blocks.  A step is what happens between two accesses to the    *)
(* database or the network.  The database is shared by all of them and     *)
(* survives a crash.                                                       *)
(* The tables of Calls and of Rollbacks are one table here: a record is a  *)
(* Call or a Rollback by the kind of its request.                          *)
(***************************************************************************)
EXTENDS Ledger, FiniteSetsExt

CONSTANTS
  None,          \* no record
  Monitors,      \* bound: monitorEvent goroutines ever alive at once
  Results,       \* bound: callResult, rollbackResult goroutines alive at once
  MaxRows,       \* bound: records ever created
  MaxCrashes,    \* bound: crashes of the process
  Serializable   \* whether SaveIf's transaction excludes other writers

ASSUME AutoCallerAssumption ==
  /\ MaxRows \in Nat /\ MaxCrashes \in Nat
  /\ \A l \in Loads : /\ l.faults \subseteq {"reorg", "orphans", "conn", "save", "rpc"}
                      /\ l.subscription \in BOOLEAN
                      /\ l.subscription => "reorg" \notin l.faults
  /\ Serializable \in BOOLEAN
  /\ 0 \notin Monitors \cup Results /\ Monitors \cap Results = {}

Threads == Monitors \cup Results
Ids == 1..MaxRows

VARIABLES
  rows,   \* the tables of Calls and Rollbacks by primary key
  ids,    \* the last primary key given out
  pc,     \* what a thread does next
  cm,     \* the *Call or *Rollback a thread works on
  at,     \* the height a monitor's stream goes on from
  batch,  \* the events a monitor's stream got and has not passed on
  fin,    \* the transaction of finalizeCall or finalizeRollback that is open
  doubted,\* history: replaced blocks with a mark that IsFinalized did not refuse, being
          \* told of an orphan or not asked
  crashes

dbVars == <<rows, ids>>
finVars == <<fin, doubted>>
threadVars == <<pc, cm>>
streamVars == <<at, batch>>
vars == <<ledgerVars, dbVars, threadVars, streamVars, finVars, crashes>>

\* A record as the Go zero value; id 0 is "not saved".  A Call has no trigger.
Blank(e) == [id |-> 0, req |-> e.req, from |-> e.from, state |-> "none", tx |-> 0,
             triggerHeight |-> 0, triggerId |-> 0, triggerFinal |-> FALSE,
             eventHeight |-> 0, eventId |-> 0, eventFinal |-> FALSE,
             blockHeight |-> 0, blockId |-> 0, final |-> FALSE]

WithEvent(v, e) == [v EXCEPT !.eventHeight = e.height, !.eventId = e.block]

\* Of a CallMessage.
NewCall(e) == WithEvent(Blank(e), e)

\* Of a CallMessageSent.
NewRollback(e) == [Blank(e) EXCEPT !.triggerHeight = e.height, !.triggerId = e.block]

NewResponseSwapped(e, found) ==
  [WithEvent(Blank(e), e) EXCEPT
     !.state = IF e.kind = "success" THEN "none" ELSE "notApplicable",
     !.id = found.id, !.from = found.from,
     !.triggerHeight = found.triggerHeight, !.triggerId = found.triggerId]

\* Of a ResponseMessage, with what it takes over from the record found; what
\* is not taken over is reset.
NewResponse(e, found) ==
  [WithEvent(Blank(e), e) EXCEPT
     !.state = IF e.kind = "success" THEN "notApplicable" ELSE "none",
     !.id = found.id, !.from = found.from,
     !.triggerHeight = found.triggerHeight, !.triggerId = found.triggerId]

Goto(t, label) == pc' = [pc EXCEPT ![t] = label]

\* "start" goes through time.After and getMonitorHeight.
Boot(m) == [t \in Threads |-> IF t = m THEN "start" ELSE "free"]

Init ==
  /\ LedgerInit
  /\ rows = [i \in Ids |-> None] /\ ids = 0
  /\ \E m \in Monitors : pc = Boot(m)
  /\ cm = [t \in Threads |-> None]
  /\ at = [m \in Monitors |-> 0]
  /\ batch = [m \in Monitors |-> <<>>]
  /\ fin = None /\ doubted = {}
  /\ crashes = 0

-----------------------------------------------------------------------------
(* The repository.                                                         *)

Saved == {i \in Ids : rows[i] # None}

FindUncompleted(r) ==
  LET matching == {i \in Saved : rows[i].req = r /\ rows[i].state # "done"}
  IN IF matching = {} THEN None ELSE rows[Min(matching)]

\* FindOneByNetworkAndReqID, FindOneByNetworkAndSn: the first by primary key.
FindOne(r) ==
  LET matching == {i \in Saved : rows[i].req = r}
  IN IF matching = {} THEN None ELSE rows[Min(matching)]

Is(v, state) == v # None /\ v.state = state

\* A row that an open transaction has written is locked.
Writable(i) == fin # None => \A mark \in fin.marks : mark[2] # i

\* Saving a record without a key creates one and gives it a key; saving one
\* with a key writes all its columns, and creates it again if it is gone.
Save(v) ==
  /\ Writable(v.id)
  /\ IF v.id # 0
       THEN rows' = [rows EXCEPT ![v.id] = v] /\ UNCHANGED ids
       ELSE /\ ids < MaxRows
            /\ ids' = ids + 1
            /\ rows' = [rows EXCEPT ![ids + 1] = [v EXCEPT !.id = ids + 1]]

\* The copy its caller has after Save(v).
WithKey(v) == IF v.id # 0 THEN v ELSE [v EXCEPT !.id = ids + 1]

AnyState(v) == TRUE

\* The predicate of SaveIfFoundStateIsNotDone.
NotDone(v) == v.id # 0 /\ rows[v.id] # None => rows[v.id].state # "done"

-----------------------------------------------------------------------------
(* monitorEvent.                                                           *)

MaxEventHeight == Max({0} \cup {rows[i].eventHeight : i \in Saved})

AfterMaxHeight == MaxEventHeight + 1

\* getMonitorHeight; initHeight is 1.
MonitorHeight == IF MaxEventHeight < 1 THEN 1 ELSE MaxEventHeight

\* What the stream begins with: an Ethereum subscription is given the height, but delivers
\* what comes from now on.
FirstHeight == IF load.subscription THEN Head_ + 1 ELSE MonitorHeight

GetMonitorHeight(m) ==
  /\ pc[m] = "start"
  /\ at' = [at EXCEPT ![m] = FirstHeight]
  /\ Goto(m, "stream")
  /\ UNCHANGED <<ledgerVars, dbVars, cm, batch, finVars, crashes>>

\* The adaptor gets the logs of some more blocks up to the head, or is given them.
Fetch(m) ==
  /\ pc[m] = "stream" /\ batch[m] = <<>>
  /\ \E to \in at[m]..Head_ :
       /\ \E events \in EventsBetween(at[m], to) : batch' = [batch EXCEPT ![m] = events]
       /\ at' = [at EXCEPT ![m] = to + 1]
  /\ UNCHANGED <<ledgerVars, dbVars, threadVars, finVars, crashes>>

\* MonitorEvent returns: a lost connection, a failed request, a failed callback.
StopStream(m) ==
  /\ Goto(m, "start")
  /\ batch' = [batch EXCEPT ![m] = <<>>]
  /\ UNCHANGED at

ConnectionLost(m) ==
  /\ "conn" \in load.faults
  /\ pc[m] = "stream"
  /\ StopStream(m)
  /\ UNCHANGED <<ledgerVars, dbVars, cm, finVars, crashes>>

-----------------------------------------------------------------------------
(* onCallEvent and onRollbackEvent: the event that a monitor passes on, and *)
(* the record found.                                                       *)

\* go callResult(v), go rollbackResult(v)
Spawned(g, v) == /\ pc[g] = "free"
                 /\ cm' = [cm EXCEPT ![g] = v]

NextEvent(m, kind) ==
  /\ pc[m] = "stream" /\ batch[m] # <<>>
  /\ Head(batch[m]).kind = kind
  /\ batch' = [batch EXCEPT ![m] = Tail(@)]
  /\ UNCHANGED <<ledgerVars, dbVars, at, finVars, crashes>>

OnCallMessage(m) ==
  LET e == Head(batch[m])
      found == FindOne(e.req)
  IN /\ NextEvent(m, "message")
     /\ \/ /\ found = None
           /\ cm' = [cm EXCEPT ![m] = NewCall(e)]
           /\ Goto(m, "invoke")
        \/ /\ Is(found, "sending")
           /\ \E g \in Results : Spawned(g, found) /\ Goto(g, "get")
        \/ /\ found # None /\ ~ Is(found, "sending")
           /\ UNCHANGED threadVars

SameCaller(v, e) == v # None /\ v.from = e.from

\* The record is saved whatever is in the table: Sn is no unique key.
OnCallMessageSent(m) ==
  LET e == Head(batch[m])
      found == FindOne(e.req)
  IN /\ NextEvent(m, "sent")
     /\ \/ /\ SameCaller(found, e)
           /\ UNCHANGED threadVars
        \/ /\ ~ SameCaller(found, e)
           /\ cm' = [cm EXCEPT ![m] = NewRollback(e)]
           /\ Goto(m, "save")

OnResponse(m, outcome) ==
  LET e == Head(batch[m])
      found == FindOne(e.req)
      v == NewResponse(e, found)
  IN /\ NextEvent(m, outcome)
     /\ \/ /\ Is(found, "none")
           /\ cm' = [cm EXCEPT ![m] = v]
           /\ Goto(m, IF Is(v, "notApplicable") THEN "save" ELSE "invoke")
        \/ /\ Is(found, "sending")
           /\ \E g \in Results : Spawned(g, found) /\ Goto(g, "get")
        \/ /\ ~ Is(found, "none") /\ ~ Is(found, "sending")
           /\ UNCHANGED threadVars

Done(v, e) == [v EXCEPT !.state = "done", !.tx = e.tx,
                        !.blockHeight = e.height, !.blockId = e.block]

\* CallExecuted, RollbackExecuted.  A Rollback that was not applicable is a
\* panic, which ends the process.
OnExecuted(m) ==
  LET e == Head(batch[m])
      found == FindOne(e.req)
  IN /\ NextEvent(m, "executed")
     /\ \/ /\ found = None \/ Is(found, "done")
           /\ UNCHANGED threadVars
        \/ /\ Is(found, "notApplicable")
           /\ pc' = [t \in Threads |-> "panic"]
           /\ UNCHANGED cm
        \/ /\ found # None /\ found.state \notin {"done", "notApplicable"}
           /\ cm' = [cm EXCEPT ![m] = Done(found, e)]
           /\ Goto(m, "save")

\* The record made above is written as a whole.
SaveDone(m) ==
  /\ pc[m] = "save"
  /\ Save(cm[m])
  /\ cm' = [cm EXCEPT ![m] = None]
  /\ Goto(m, "stream")
  /\ UNCHANGED <<ledgerVars, streamVars, finVars, crashes>>

SaveDoneFails(m) ==
  /\ "save" \in load.faults
  /\ pc[m] = "save"
  /\ cm' = [cm EXCEPT ![m] = None]
  /\ StopStream(m)
  /\ UNCHANGED <<ledgerVars, dbVars, finVars, crashes>>

-----------------------------------------------------------------------------
(* executeCall and onCallError, executeRollback and onRollbackError, in    *)
(* either kind of thread.                                                  *)

Set(t, v) == cm' = [cm EXCEPT ![t] = v]

TxOnly(v) == [v EXCEPT !.tx = NewTx]

AsSending(v) == [v EXCEPT !.state = "sending", !.tx = NewTx]

\* The estimation succeeds and the transaction is accepted, ...
InvokeSends(t) ==
  /\ pc[t] = "invoke"
  /\ Executable(Included, cm[t].req)
  /\ Send(cm[t].req)
  /\ Set(t, AsSending(cm[t]))
  /\ Goto(t, "saveIf")
  /\ UNCHANGED <<dbVars, streamVars, finVars, crashes>>

\* ... the estimation fails with InvalidRequestId, InvalidSerialNum or
\* RollbackNotEnabled, ...
InvokeSkips(t) ==
  /\ pc[t] = "invoke"
  /\ ~ Executable(Included, cm[t].req)
  /\ Set(t, [cm[t] EXCEPT !.state = "skip", !.tx = 0])
  /\ Goto(t, "saveIf")
  /\ UNCHANGED <<ledgerVars, dbVars, streamVars, finVars, crashes>>

\* ... or anything else fails, maybe after the transaction was accepted.
InvokeFails(t) ==
  /\ "rpc" \in load.faults
  /\ pc[t] = "invoke"
  /\ UNCHANGED ledgerVars \/ Send(cm[t].req)
  /\ Set(t, [cm[t] EXCEPT !.state = "error"])
  /\ Goto(t, "saveIf")
  /\ UNCHANGED <<dbVars, streamVars, finVars, crashes>>

\* After SaveIfFoundStateIsNotDone a sent transaction is followed by a new
\* goroutine, whatever became of the record; v is the caller's copy.
Continue(t, v) ==
  IF v.state = "sending"
    THEN IF t \in Results
           THEN Set(t, v) /\ Goto(t, "get")
           ELSE \E g \in Results :
                  /\ pc[g] = "free"
                  /\ cm' = [cm EXCEPT ![g] = v, ![t] = None]
                  /\ pc' = [pc EXCEPT ![g] = "get", ![t] = "stream"]
    ELSE /\ Set(t, None)
         /\ Goto(t, IF t \in Results THEN "free" ELSE "stream")

SaveIf(t) ==
  /\ pc[t] = "saveIf"
  /\ Serializable \/ cm[t].id = 0
  /\ IF NotDone(cm[t]) THEN Save(cm[t]) ELSE UNCHANGED dbVars
  /\ Continue(t, WithKey(cm[t]))
  /\ UNCHANGED <<ledgerVars, streamVars, finVars, crashes>>

\* Where a plain read takes no lock, the predicate is evaluated first and the
\* record written later.  The lock by primary key excludes another SaveIf of
\* the record, but not a Save.
Locked(i) == \E t \in Threads : pc[t] = "write" /\ cm[t].id = i

SaveIfReads(t) ==
  /\ pc[t] = "saveIf"
  /\ ~ Serializable /\ cm[t].id # 0
  /\ ~ Locked(cm[t].id)
  /\ IF NotDone(cm[t])
       THEN Goto(t, "write") /\ UNCHANGED cm
       ELSE Continue(t, cm[t])
  /\ UNCHANGED <<ledgerVars, dbVars, streamVars, finVars, crashes>>

SaveIfWrites(t) ==
  /\ pc[t] = "write"
  /\ Save(cm[t])
  /\ Continue(t, cm[t])
  /\ UNCHANGED <<ledgerVars, streamVars, finVars, crashes>>

\* The failure is logged and nothing else.
SaveIfFails(t) ==
  /\ "save" \in load.faults
  /\ pc[t] \in {"saveIf", "write"}
  /\ Continue(t, cm[t])
  /\ UNCHANGED <<ledgerVars, dbVars, streamVars, finVars, crashes>>

-----------------------------------------------------------------------------
(* callResult, rollbackResult.  GetResult blocks while the transaction is  *)
(* in the pool.                                                            *)

ResultSuccess(g) ==
  /\ pc[g] = "get"
  /\ \E e \in Receipts(cm[g].tx) :
       /\ e.kind = "executed"
       /\ Set(g, [cm[g] EXCEPT !.state = "sent", !.blockHeight = e.height,
                               !.blockId = e.block])
  /\ Goto(g, "saveIf")
  /\ UNCHANGED <<ledgerVars, dbVars, streamVars, finVars, crashes>>

\* The failure's reason is one to skip for, or could not be told.
ResultFailure(g) ==
  /\ pc[g] = "get"
  /\ \E e \in Receipts(cm[g].tx) : e.kind = "reverted"
  /\ \/ Set(g, [cm[g] EXCEPT !.state = "skip", !.tx = 0])
     \/ "rpc" \in load.faults /\ Set(g, [cm[g] EXCEPT !.state = "error"])
  /\ Goto(g, "saveIf")
  /\ UNCHANGED <<ledgerVars, dbVars, streamVars, finVars, crashes>>

ResultNotFound(g) ==
  /\ pc[g] = "get"
  /\ Receipts(cm[g].tx) = {} /\ cm[g].tx \notin pool
  /\ Set(g, [cm[g] EXCEPT !.tx = 0])
  /\ Goto(g, "invoke")
  /\ UNCHANGED <<ledgerVars, dbVars, streamVars, finVars, crashes>>

-----------------------------------------------------------------------------
(* monitorFinality: finalizeCall(bi) and finalizeRollback(bi), each one     *)
(* transaction.  For the blocks of the CallMessageSent events (of           *)
(* Rollbacks), then of the CallMessage or ResponseMessage events, then of   *)
(* the transactions, it finds the records that are not final, asks the      *)
(* FinalityMonitor for each, and then updates all of them.                  *)

Calls == {i \in Saved : rows[i].req \in Reqs}
Rollbacks == {i \in Saved : rows[i].req \in Sns}

TaskRows(task) == IF task = "call" THEN Calls ELSE Rollbacks

Phases == {"trigger", "event", "block"}
FirstPhase(task) == IF task = "call" THEN "event" ELSE "trigger"
NextPhase(phase) == IF phase = "trigger" THEN "event" ELSE "block"

BlockIn(v, phase) ==
  CASE phase = "trigger" -> [height |-> v.triggerHeight, id |-> v.triggerId]
    [] phase = "event" -> [height |-> v.eventHeight, id |-> v.eventId]
    [] phase = "block" -> [height |-> v.blockHeight, id |-> v.blockId]

IsMarked(v, phase) ==
  CASE phase = "trigger" -> v.triggerFinal
    [] phase = "event" -> v.eventFinal
    [] phase = "block" -> v.final

\* The rows of a query by network, mark and 1..bi.Height().
Unfinal(task, phase, h) ==
  {i \in TaskRows(task) : ~ IsMarked(rows[i], phase) /\ BlockIn(rows[i], phase).height \in 1..h}

FindUnfinal(task, phase, h) ==
  [i \in Unfinal(task, phase, h) |-> BlockIn(rows[i], phase)]

\* IsFinalized goes by the ID of the last finalized block at its height, and asks the node
\* for the height of the ID below, HeightByID.  Some nodes answer for replaced blocks too.
IsFinalized(b) ==
  IF "orphans" \in load.faults /\ b.height < final THEN {OnChain(b.height, b.id), TRUE}
  ELSE {OnChain(b.height, b.id)}

AsStateSending(v) == [v EXCEPT !.state = "sending", !.blockHeight = 0, !.blockId = 0]

AsStateNone(v) == [v EXCEPT !.state = "none", !.tx = 0, !.blockHeight = 0,
                            !.blockId = 0, !.eventHeight = 0, !.eventId = 0]

\* What is left of a Call and of a Rollback when the blocks from h on are gone.
DropCall(v, h) == IF v.eventHeight >= h THEN None
                  ELSE IF v.blockHeight >= h THEN AsStateSending(v) ELSE v

DropRollback(v, h) == IF v.triggerHeight >= h THEN None
                      ELSE IF v.eventHeight >= h THEN AsStateNone(v)
                      ELSE IF v.blockHeight >= h THEN AsStateSending(v) ELSE v

\* Then go monitorEvent.  The goroutine there was goes on: Start stores
\* n.Cancel in a copy of the network only.
DropBlock(table, h) ==
  /\ rows' = [i \in Ids |-> IF i \in Calls THEN DropCall(table[i], h)
                            ELSE IF i \in Rollbacks THEN DropRollback(table[i], h)
                            ELSE None]
  /\ \E m \in Monitors : pc[m] = "free" /\ Goto(m, "start")

\* The table with the marks <<phase, key>>.
WithMarks(marks) ==
  [i \in Ids |->
     IF i \notin Saved THEN rows[i]
     ELSE [rows[i] EXCEPT !.triggerFinal = @ \/ <<"trigger", i>> \in marks,
                          !.eventFinal = @ \/ <<"event", i>> \in marks,
                          !.final = @ \/ <<"block", i>> \in marks]]

Running == \A t \in Threads : pc[t] # "panic"

\* bi.Height() = h.
FinalizeBegins(task, h) ==
  /\ Running /\ fin = None
  /\ h \in 1..final /\ \E phase \in Phases : Unfinal(task, phase, h) # {}
  /\ fin' = [task |-> task, height |-> h, phase |-> FirstPhase(task), marks |-> {},
             found |-> FindUnfinal(task, FirstPhase(task), h)]
  /\ UNCHANGED <<ledgerVars, dbVars, threadVars, streamVars, doubted, crashes>>

NoneRefused(told) == {}

Refused(told) == {i \in DOMAIN told : ~ told[i]}

Asking == Running /\ fin # None /\ fin.found # None

\* What the FinalityMonitor may say about the rows that were found.
Answers == {told \in [DOMAIN fin.found -> BOOLEAN] :
              \A i \in DOMAIN told : told[i] \in IsFinalized(fin.found[i])}

\* Rows that the UPDATE takes: those its condition finds now, if any were found before.
Updated == IF DOMAIN fin.found = {} THEN {} ELSE Unfinal(fin.task, fin.phase, fin.height)

\* Of their blocks those that were replaced, where the answer was wrong or nobody asked.
Doubtful(told) ==
  {b \in {BlockIn(rows[i], fin.phase) : i \in Updated} :
     /\ ~ OnChain(b.height, b.id)
     /\ \A i \in DOMAIN told : fin.found[i] = b => told[i]}

FinalizeUpdates ==
  /\ Asking
  /\ \E told \in Answers :
       LET marks == fin.marks \cup ({fin.phase} \X Updated)
       IN /\ Refused(told) = {}
          /\ doubted' = doubted \cup Doubtful(told)
          /\ \/ /\ fin.phase = "block"
                /\ rows' = WithMarks(marks) /\ fin' = None
             \/ /\ fin.phase # "block"
                /\ fin' = [fin EXCEPT !.phase = NextPhase(@), !.marks = marks, !.found = None]
                /\ UNCHANGED rows
  /\ UNCHANGED <<ledgerVars, ids, threadVars, streamVars, crashes>>

\* The first one by key that was replaced; the rows after it are not asked for.
FinalizeDrops ==
  /\ Asking
  /\ \E told \in Answers :
       /\ Refused(told) # {}
       /\ DropBlock(WithMarks(fin.marks), fin.found[Min(Refused(told))].height)
  /\ fin' = None
  /\ UNCHANGED <<ledgerVars, ids, cm, streamVars, doubted, crashes>>

FinalizeFinds ==
  /\ Running /\ fin # None /\ fin.found = None
  /\ fin' = [fin EXCEPT !.found = FindUnfinal(fin.task, fin.phase, fin.height)]
  /\ UNCHANGED <<ledgerVars, dbVars, threadVars, streamVars, doubted, crashes>>

\* A query or a request fails, or the FinalityMonitor's answer is no: a rollback.
FinalizeFails ==
  /\ "rpc" \in load.faults
  /\ Running /\ fin # None
  /\ fin' = None
  /\ UNCHANGED <<ledgerVars, dbVars, threadVars, streamVars, doubted, crashes>>

Finalizer == \/ \E task \in {"call", "rollback"}, h \in 1..MaxHeight : FinalizeBegins(task, h)
             \/ FinalizeFinds \/ FinalizeUpdates \/ FinalizeDrops \/ FinalizeFails

-----------------------------------------------------------------------------
\* The process dies and is started again.
Crash ==
  /\ crashes < MaxCrashes
  /\ crashes' = crashes + 1
  /\ \E m \in Monitors : pc' = Boot(m)
  /\ cm' = [t \in Threads |-> None]
  /\ at' = [m \in Monitors |-> 0]
  /\ batch' = [m \in Monitors |-> <<>>]
  /\ fin' = None
  /\ UNCHANGED <<ledgerVars, dbVars, doubted>>

Network ==
  /\ \/ Mine
     \/ FinalizeNext
     \/ "reorg" \in load.faults /\ Reorg
     \/ Lose
  /\ UNCHANGED <<dbVars, threadVars, streamVars, finVars, crashes>>

Monitor(m) == \/ GetMonitorHeight(m) \/ Fetch(m) \/ ConnectionLost(m)
              \/ OnCallMessage(m) \/ OnCallMessageSent(m)
              \/ OnResponse(m, "success") \/ OnResponse(m, "failure")
              \/ OnExecuted(m)
              \/ SaveDone(m) \/ SaveDoneFails(m)

ExecuteCall(t) == \/ InvokeSends(t) \/ InvokeSkips(t) \/ InvokeFails(t)
                  \/ SaveIf(t) \/ SaveIfReads(t) \/ SaveIfWrites(t)
                  \/ SaveIfFails(t)

CallResult(g) == ResultSuccess(g) \/ ResultFailure(g) \/ ResultNotFound(g)

Next == \/ Network \/ Crash
        \/ Finalizer
        \/ \E m \in Monitors : Monitor(m)
        \/ \E t \in Threads : ExecuteCall(t)
        \/ \E g \in Results : CallResult(g)

Spec == Init /\ [][Next]_vars

\* Goroutines get to run and requests are answered; whether a block is mined,
\* a transaction included or a connection lost is up to the network.
FairSpec ==
  /\ Spec
  /\ \A m \in Monitors :
       WF_vars(GetMonitorHeight(m) \/ Fetch(m) \/ OnCallMessage(m)
               \/ OnCallMessageSent(m)
               \/ OnResponse(m, "success") \/ OnResponse(m, "failure")
               \/ OnExecuted(m) \/ SaveDone(m))
  /\ \A t \in Threads : WF_vars(InvokeSends(t) \/ InvokeSkips(t) \/ SaveIf(t))
  /\ \A g \in Results : WF_vars(CallResult(g))
  /\ WF_vars(FinalizeFinds \/ FinalizeUpdates \/ FinalizeDrops)

-----------------------------------------------------------------------------
(* Properties.                                                             *)

States == {"none", "sending", "sent", "skip", "done", "error", "notApplicable"}
Labels == {"free", "start", "stream", "save", "invoke", "saveIf", "write", "get", "panic"}

Record == [id : 0..MaxRows, req : Reqs \cup Sns, from : 1..MaxFork,
           state : States, tx : 0..MaxTx,
           triggerHeight : 0..MaxHeight, triggerId : 0..MaxFork, triggerFinal : BOOLEAN,
           eventHeight : 0..MaxHeight, eventId : 0..MaxFork, eventFinal : BOOLEAN,
           blockHeight : 0..MaxHeight, blockId : 0..MaxFork, final : BOOLEAN]

\* A row without a record is told from every record.
ASSUME NoneAssumption == None \notin Record

\* Every variable has its type; a saved record carries its own key.
TypeOK ==
  /\ rows \in [Ids -> Record \cup {None}] /\ ids \in 0..MaxRows
  /\ \A i \in Saved : /\ rows[i].id = i /\ i <= ids
                      /\ rows[i].req \in Reqs =>
                           rows[i].state \notin {"none", "notApplicable"}
  /\ pc \in [Threads -> Labels]
  /\ cm \in [Threads -> Record \cup {None}]
  /\ \A t \in Threads : cm[t] # None => cm[t].id <= ids
  /\ at \in [Monitors -> 0..(MaxHeight + 1)]
  /\ fin # None => /\ fin.task \in {"call", "rollback"} /\ fin.phase \in Phases
                   /\ fin.height \in 1..final
                   /\ fin.marks \subseteq Phases \X Ids
  /\ crashes \in 0..MaxCrashes

\* A redelivered CallMessage or CallMessageSent never creates a second record
\* of its request: the look-up before covers every crash and reconnection.  It
\* does not cover a replaced block, after which dropBlock starts a second
\* monitorEvent beside the first and a serial number may have records of
\* several callers, of which the look-up only sees the first; nor a failed save,
\* after which a goroutine goes on with a record that has no key and creates it
\* whenever it saves next.
OneRowPerRequest ==
  load.faults \cap {"reorg", "save"} = {} =>
    \A i, j \in Saved : rows[i].req = rows[j].req => i = j

\* A record that is done stays done: no late answer about a transaction, and
\* no retry of one, overwrites what CallExecuted established.
DoneStays ==
  [][\A i \in Saved : rows[i].state = "done"
       => rows'[i] # None /\ rows'[i].state = "done"]_vars

\* A record with a transaction under way is followed by a goroutine, or its
\* CallMessage is about to be passed on again, which starts one.  After a crash
\* this fails only for records below the height the monitor resumes from; with
\* a subscription, which passes on nothing again, for all that there are then.
Followed(i) == \E t \in Threads : cm[t] # None /\ cm[t].id = i
                                  /\ pc[t] \in {"saveIf", "write", "get", "invoke", "save"}

Redelivered(i) ==
  \E m \in Monitors :
    \/ pc[m] = "start" /\ ~ load.subscription
    \/ pc[m] # "free" /\ at[m] <= rows[i].eventHeight
    \/ \E k \in DOMAIN batch[m] : batch[m][k].kind \in {"message", "failure"}
                                  /\ batch[m][k].req = rows[i].req

OnlyOlderForgotten ==
  (load.subscription => crashes = 0) =>
    \A i \in Saved : rows[i].state = "sending" /\ rows[i].eventHeight = MaxEventHeight
      => Followed(i) \/ Redelivered(i)

\* The mark of an event or a trigger is right, whatever was dropped, created again
\* or written late: its block is a finalized one of the chain.  Or the FinalityMonitor
\* called it final by mistake, or was not asked, the record having been saved
\* between the query and the update.  A record may be marked and have no event:
\* dropBlock takes a ResponseMessage away and leaves the mark.
Final(b) == b.height <= final /\ (OnChain(b.height, b.id) \/ b \in doubted)

FinalEventsOnChain ==
  \A i \in Saved :
    /\ rows[i].eventFinal /\ rows[i].eventHeight # 0 => Final(BlockIn(rows[i], "event"))
    /\ rows[i].triggerFinal => Final(BlockIn(rows[i], "trigger"))

\* The process panics on the execution of a Rollback that it recorded as not applicable
\* ("not applicable RollbackExecuted").  Over crashes, events passed on again and
\* executions by others, that takes a replaced block: the ResponseMessage recorded then
\* is not the one the network goes on from.
PanicNeedsReorg == Running \/ "reorg" \in load.faults

\* An execution on the chain, by whomever, is in the end recorded as done, over
\* lost transactions and a crash at any point.  With a subscription, if the request
\* has its record and the execution is still to be passed on, and until a crash.
Heard(r) ==
  load.subscription =>
    /\ \E i \in Saved : rows[i].req = r
    /\ \E m \in Monitors :
         /\ pc[m] # "free" /\ pc[m] # "start"
         /\ \/ \E k \in DOMAIN batch[m] : batch[m][k].kind = "executed" /\ batch[m][k].req = r
            \/ \E e \in Included : e.kind = "executed" /\ e.req = r /\ at[m] <= e.height

Interrupted == load.subscription /\ crashes # 0

ExecutedIsRecorded ==
  \A r \in Reqs \cup Sns :
    Executed(Included, r) /\ Heard(r)
      ~> (\E i \in Saved : rows[i].req = r /\ rows[i].state = "done") \/ Interrupted

\* A lost transaction of the latest message is noticed and sent again (or found
\* unnecessary), over a crash too: its message is the one delivered again, but by
\* a subscription.
LatestIsLost(r) ==
  \E i \in Saved :
    /\ rows[i].req = r /\ rows[i].eventHeight = MaxEventHeight
    /\ rows[i].state = "sending"
    /\ rows[i].tx \notin pool /\ Receipts(rows[i].tx) = {}

LostIsRetried ==
  \A r \in Reqs \cup Sns : LatestIsLost(r) ~> ~ LatestIsLost(r) \/ Interrupted
=============================================================================
