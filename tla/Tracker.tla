------------------------------- MODULE Tracker -------------------------------
(***************************************************************************)
(* The BTP tracker (tracker/bmc): one monitorEvent and one monitorFinality *)
(* goroutine per network record the BTPEvents of every message in shared   *)
(* tables, and the handler of an event derives from them how far its       *)
(* message got.  A step is what lies between two accesses to the database. *)
(*                                                                         *)
(* A message travels along a journey, a sequence of BTPEvents on several   *)
(* networks; what the BMC contracts emit is given.  Chains do not fork, so *)
(* finalizeBlock never meets a dropped block.                              *)
(***************************************************************************)
EXTENDS Naturals, FiniteSets, SequencesExt

CONSTANTS
  Networks,
  Messages,    \* (src, nsn)
  Journey,     \* of a message: a sequence of [net, event, next]
  None,        \* no network, no event
  Loads,       \* what is given in a behaviour, see load
  MaxBlockSize,\* bound: BTPEvents in one block
  MaxKeys      \* bound: primary keys of BTPStatuses

EventNames == {"SEND", "ROUTE", "RECEIVE", "REPLY", "DROP", "ERROR"}
Statuses == {"Unknown", "Sending", "WaitReply", "Replying", "Completed"}

ASSUME TrackerAssumption ==
  /\ None \notin Networks
  /\ Journey \in [Messages -> Seq([net : Networks, event : EventNames,
                                  next : Networks \cup {None}])]
  /\ Loads \subseteq [faults : SUBSET {"conn", "db", "crash"},
                      subscriptions : SUBSET Networks, oneWriter : BOOLEAN]
  /\ MaxBlockSize \in Nat \ {0} /\ MaxKeys \in Nat

VARIABLES
  load,     \* what may go wrong, which networks have an Ethereum subscription for a stream,
            \* and whether the database has one writing transaction at a time, like SQLite
  chain,    \* per network: its BTPEvents [msg, step, height], in order
  blocks,   \* the table of Blocks: [net, height, final]
  statuses, \* the table of BTPStatuses by primary key: [msg, links, status]
  hidden,   \* its keys without a row to be found: not committed, or rolled back
  events,   \* the table of BTPEvents by primary key
  pc,       \* what the monitorEvent goroutine of a network does next
  at,       \* the height its stream goes on from
  since,    \* the height its subscription began at, or 1
  queue,    \* the events its stream got and has not passed on
  cur,      \* the event that is handled
  sid,      \* the key of its BTPStatus
  found,    \* the links and the status getLinks returned
  overtaken \* history: messages with a status committed after one of a higher key

tables == <<blocks, statuses, hidden, events, overtaken>>
stream == <<at, since, queue>>
handler == <<cur, sid, found>>
vars == <<load, chain, tables, pc, stream, handler>>

NoLinks == [links |-> <<>>, status |-> "Unknown"]
ForAll(v) == [n \in Networks |-> v]

Init ==
  /\ load \in Loads
  /\ chain = ForAll(<<>>)
  /\ blocks = {} /\ statuses = <<>> /\ events = <<>>
  /\ hidden = {} /\ overtaken = {}
  /\ pc = ForAll("closed") /\ at = ForAll(1) /\ since = ForAll(1) /\ queue = ForAll(<<>>)
  /\ cur = ForAll(None) /\ sid = ForAll(0) /\ found = ForAll(NoLinks)

Step(e) == Journey[e.msg][e.step]

Goto(n, label) == pc' = [pc EXCEPT ![n] = label]

-----------------------------------------------------------------------------
(* The networks.  A step of a message follows the step before it.          *)

HeadOf(n) == IF chain[n] = <<>> THEN 0 ELSE Last(chain[n]).height

StepsTaken(m) == UNION {{e.step : e \in {f \in Range(chain[n]) : f.msg = m}} : n \in Networks}

\* The block with the next step of each of these messages, one after another.
BlockWith(n, ms) ==
  [i \in DOMAIN ms |->
     [msg |-> ms[i], height |-> HeadOf(n) + 1,
      step |-> Cardinality(StepsTaken(ms[i])) + Cardinality({j \in 1..i : ms[j] = ms[i]})]]

NewBlock(n) ==
  /\ \E k \in 1..MaxBlockSize : \E ms \in [1..k -> Messages] :
       /\ \A e \in Range(BlockWith(n, ms)) : /\ e.step <= Len(Journey[e.msg])
                                             /\ Step(e).net = n
       /\ chain' = [chain EXCEPT ![n] = @ \o BlockWith(n, ms)]
  /\ UNCHANGED <<load, tables, pc, stream, handler>>

-----------------------------------------------------------------------------
(* monitorEvent.                                                           *)

RecordedHeights(n) == {b.height : b \in {c \in blocks : c.net = n}}

AfterAnyNetwork(n) == Max({0} \cup {b.height : b \in blocks}) + 1

FromRecorded(n) == Max({1} \cup RecordedHeights(n))

\* getMonitorHeight, with an initHeight of 1.
AfterRecorded(n) == Max({0} \cup RecordedHeights(n)) + 1

BlockEvents(n, h) ==
  LET S == {i \in DOMAIN chain[n] : chain[n][i].height = h}
  IN IF S = {} THEN <<>> ELSE SubSeq(chain[n], Min(S), Max(S))

\* The events the stream passes on next: what is left of a block, or the next
\* one.
Pending(n) == IF queue[n] # <<>> THEN queue[n] ELSE BlockEvents(n, at[n])

\* The handler of an event is through, and keeps nothing.
Forget(n) == /\ cur' = [cur EXCEPT ![n] = None]
             /\ sid' = [sid EXCEPT ![n] = 0]
             /\ found' = [found EXCEPT ![n] = NoLinks]

\* getMonitorHeight and MonitorEvent.  An Ethereum subscription is given the height, but
\* delivers what comes from now on.
OpenStream(n) ==
  /\ pc[n] = "closed"
  /\ IF n \in load.subscriptions
       THEN /\ at' = [at EXCEPT ![n] = HeadOf(n) + 1]
            /\ since' = [since EXCEPT ![n] = HeadOf(n) + 1]
       ELSE /\ at' = [at EXCEPT ![n] = AfterRecorded(n)]
            /\ UNCHANGED since
  /\ Goto(n, "stream")
  /\ UNCHANGED <<load, chain, tables, queue, handler>>

\* MonitorEvent returns, after a lost connection or an error of the callback,
\* and monitorEvent calls it again.
StopStream(n) ==
  /\ Goto(n, "closed")
  /\ queue' = [queue EXCEPT ![n] = <<>>]
  /\ UNCHANGED <<at, since>>
  /\ Forget(n)

ConnectionLost(n) ==
  /\ "conn" \in load.faults
  /\ pc[n] = "stream"
  /\ StopStream(n)
  /\ UNCHANGED <<load, chain, tables>>

-----------------------------------------------------------------------------
(* onBTPEvent: the block and the status of an event.                       *)

BlockAtHeight(n, e) == {b \in blocks : b.height = e.height}

BlockOf(n, e) == {b \in blocks : b.net = n /\ b.height = e.height}

\* storeBlock; where it fails the stream stops and gets the same block again.
StoreBlock(n) ==
  /\ pc[n] = "stream" /\ Pending(n) # <<>>
  /\ LET e == Head(Pending(n))
     IN /\ cur' = [cur EXCEPT ![n] = e]
        /\ blocks' = IF BlockOf(n, e) # {} THEN blocks
                     ELSE blocks \cup {[net |-> n, height |-> e.height, final |-> FALSE]}
        /\ at' = [at EXCEPT ![n] = e.height + 1]
  /\ queue' = [queue EXCEPT ![n] = Tail(Pending(n))]
  /\ Goto(n, "findStatus")
  /\ UNCHANGED <<load, chain, statuses, hidden, events, overtaken, since, sid, found>>

StatusesOf(m) == {i \in DOMAIN statuses \ hidden : statuses[i].msg = m}

\* storeBtpStatus, when FindOneBySrcAndNsn finds the first by primary key.
FindStatus(n) ==
  /\ pc[n] = "findStatus"
  /\ IF StatusesOf(cur[n].msg) = {}
       THEN Goto(n, "newStatus") /\ UNCHANGED sid
       ELSE /\ sid' = [sid EXCEPT ![n] = Min(StatusesOf(cur[n].msg))]
            /\ Goto(n, "event")
  /\ UNCHANGED <<load, chain, tables, stream, cur, found>>

\* The INSERT of Save allots a key.  Where writers exclude each other, none is between
\* its INSERT and its COMMIT then.
InsertStatus(n) ==
  /\ pc[n] = "newStatus" /\ Len(statuses) < MaxKeys
  /\ load.oneWriter => \A o \in Networks : pc[o] # "commit"
  /\ statuses' = Append(statuses, [msg |-> cur[n].msg, links |-> <<>>, status |-> "Unknown"])
  /\ hidden' = hidden \cup {Len(statuses) + 1}
  /\ sid' = [sid EXCEPT ![n] = Len(statuses) + 1]
  /\ Goto(n, "commit")
  /\ UNCHANGED <<load, chain, blocks, events, overtaken, stream, cur, found>>

Overtakes(n) == \E i \in StatusesOf(cur[n].msg) : sid[n] < i

\* Its COMMIT.
CommitStatus(n) ==
  /\ pc[n] = "commit"
  /\ hidden' = hidden \ {sid[n]}
  /\ overtaken' = IF Overtakes(n) THEN overtaken \cup {cur[n].msg} ELSE overtaken
  /\ Goto(n, "findAgain")
  /\ UNCHANGED <<load, chain, blocks, statuses, events, stream, handler>>

TheNewOne(n) == sid[n]

\* Of the statuses of a message, the one found when a new one is saved: it need not be
\* the new one.
FoundAgain(n) == Min(StatusesOf(cur[n].msg))

FindAgain(n) ==
  /\ pc[n] = "findAgain"
  /\ sid' = [sid EXCEPT ![n] = FoundAgain(n)]
  /\ Goto(n, "event")
  /\ UNCHANGED <<load, chain, tables, stream, cur, found>>

-----------------------------------------------------------------------------
(* The event itself.                                                       *)

\* storeBtpEvent.
StoreEvent(n) ==
  /\ pc[n] = "event"
  /\ events' = Append(events, [msg |-> cur[n].msg, step |-> cur[n].step,
                               height |-> cur[n].height, sid |-> sid[n], final |-> FALSE])
  /\ Goto(n, "links")
  /\ UNCHANGED <<load, chain, blocks, statuses, hidden, overtaken, stream, handler>>

\* Its error is overwritten by that of updateLink.
StoreEventFails(n) ==
  /\ "db" \in load.faults
  /\ pc[n] = "event"
  /\ Goto(n, "links")
  /\ UNCHANGED <<load, chain, tables, stream, handler>>

-----------------------------------------------------------------------------
(* getLinks: a walk over the events of a message.  They come in no         *)
(* particular order, so that it takes any of several next links.           *)

At(i) == Step(events[i])

\* inferStatus
Infer(e, status) ==
  CASE e.event = "DROP" -> "Completed"
    [] e.event = "RECEIVE" /\ status = "Sending" ->
         IF e.next # None THEN "WaitReply" ELSE "Completed"
    [] e.event \in {"REPLY", "ERROR"} /\ status = "WaitReply" -> "Replying"
    [] e.event = "RECEIVE" /\ status = "Replying" -> "Completed"
    [] OTHER -> status

NextAtNetwork(i, left) ==
  {j \in left : IF At(i).event = "RECEIVE" THEN At(j).event \in {"REPLY", "ERROR", "DROP"}
                                           ELSE At(i).next = At(j).net}

\* findNextLink takes step f for one that follows step e.
Leads(e, f) == IF e.event = "RECEIVE" THEN f.event \in {"REPLY", "ERROR", "DROP"}
               ELSE e.next = f.net /\ (f.next = e.net => f.event = "RECEIVE")

NextLinks(i, left) == {j \in left : Leads(At(i), At(j))}

EventsOf(m) == {i \in DOMAIN events : events[i].msg = m}

\* A walk over events R, one link longer; the walks that one becomes.
Longer(w, R) ==
  {[links |-> Append(w.links, j), status |-> Infer(At(j), w.status)] :
     j \in NextLinks(Last(w.links), R \ Range(w.links))}

From(w, R) == IF w.status = "Completed" \/ Longer(w, R) = {} THEN {w} ELSE Longer(w, R)

Starts(R) == {[links |-> <<i>>, status |-> "Sending"] : i \in {j \in R : At(j).event = "SEND"}}

Walks(m) ==
  LET R == EventsOf(m)
      walk[k \in 1..Cardinality(R)] ==
        IF k = 1 THEN Starts(R) ELSE UNION {From(w, R) : w \in walk[k - 1]}
  IN IF Starts(R) = {} THEN {NoLinks} ELSE walk[Cardinality(R)]

\* updateLink
GetLinks(n) ==
  /\ pc[n] = "links"
  /\ \E w \in Walks(cur[n].msg) : found' = [found EXCEPT ![n] = w]
  /\ Goto(n, "save")
  /\ UNCHANGED <<load, chain, tables, stream, cur, sid>>

\* An error of the query is taken for "no events".
GetLinksFails(n) ==
  /\ "db" \in load.faults
  /\ pc[n] = "links"
  /\ found' = [found EXCEPT ![n] = NoLinks]
  /\ Goto(n, "save")
  /\ UNCHANGED <<load, chain, tables, stream, cur, sid>>

SaveStatus(n) ==
  /\ pc[n] = "save"
  /\ statuses' = [statuses EXCEPT ![sid[n]] =
       [@ EXCEPT !.links = found[n].links, !.status = found[n].status]]
  /\ Goto(n, "stream")
  /\ Forget(n)
  /\ UNCHANGED <<load, chain, blocks, hidden, events, overtaken, stream>>

SaveStatusFails(n) ==
  /\ "db" \in load.faults
  /\ pc[n] = "save"
  /\ StopStream(n)
  /\ UNCHANGED <<load, chain, tables>>

-----------------------------------------------------------------------------
(* monitorFinality: finalizeBlock and finalizeEvent, for some block of the *)
(* chain that became final.                                                *)

AtHeightOf(b, i) == b.height = events[i].height

InBlock(b, i) == b.height = events[i].height /\ b.net = At(i).net

FinalizeBlock(n) ==
  \E h \in 1..HeadOf(n) :
    LET ids == {b \in blocks : b.net = n /\ ~b.final /\ b.height <= h}
    IN /\ ids # {}
       /\ blocks' = (blocks \ ids) \cup {[b EXCEPT !.final = TRUE] : b \in ids}
       /\ events' = [i \in DOMAIN events |->
            [events[i] EXCEPT !.final = @ \/ \E b \in ids : InBlock(b, i)]]
       /\ UNCHANGED <<load, chain, statuses, hidden, overtaken, pc, stream, handler>>

-----------------------------------------------------------------------------
(* The process dies and starts again, and Relink derives the uncompleted   *)
(* statuses anew before Start.                                             *)

\* What was not committed stays hidden.
Die ==
  /\ pc' = ForAll("down") /\ queue' = ForAll(<<>>)
  /\ cur' = ForAll(None) /\ sid' = ForAll(0) /\ found' = ForAll(NoLinks)
  /\ UNCHANGED <<load, chain, tables, at, since>>

Crash == "crash" \in load.faults /\ Die

\* storeBtpStatus returned an error and no status: onBTPEvent panics.
StatusFails(n) ==
  /\ "db" \in load.faults
  /\ pc[n] \in {"findStatus", "newStatus", "commit", "findAgain"}
  /\ Die

Uncompleted == {i \in DOMAIN statuses \ hidden : statuses[i].status # "Completed"}

\* updateReLink; a failure of its query is taken for "no events", and one to save ends
\* Relink, and is only logged.
Relinked(i) ==
  LET To(w) == [statuses[i] EXCEPT !.links = w.links, !.status = w.status]
      anew == {To(w) : w \in Walks(statuses[i].msg)}
  IN IF i \notin Uncompleted THEN {statuses[i]}
     ELSE IF "db" \in load.faults THEN anew \cup {To(NoLinks), statuses[i]} ELSE anew

Relink ==
  /\ pc = ForAll("down")
  /\ statuses' \in {s \in [DOMAIN statuses -> UNION {Relinked(i) : i \in DOMAIN statuses}] :
                      \A i \in DOMAIN statuses : s[i] \in Relinked(i)}
  /\ pc' = ForAll("closed")
  /\ UNCHANGED <<load, chain, blocks, hidden, events, overtaken, stream, handler>>

Next ==
  \/ \E n \in Networks :
       \/ NewBlock(n)
       \/ OpenStream(n) \/ ConnectionLost(n) \/ StoreBlock(n)
       \/ FindStatus(n) \/ InsertStatus(n) \/ CommitStatus(n) \/ FindAgain(n)
       \/ StatusFails(n)
       \/ StoreEvent(n) \/ StoreEventFails(n)
       \/ GetLinks(n) \/ GetLinksFails(n)
       \/ SaveStatus(n) \/ SaveStatusFails(n)
       \/ FinalizeBlock(n)
  \/ Crash \/ Relink

Spec == Init /\ [][Next]_vars

-----------------------------------------------------------------------------
(* Properties.                                                             *)

\* Every variable has its type, and every key that a goroutine or a row holds
\* refers to a row.
TypeOK ==
  /\ \A n \in Networks : \A i \in DOMAIN chain[n] :
       chain[n][i] \in [msg : Messages, step : Nat, height : Nat]
  /\ \A b \in blocks : b \in [net : Networks, height : Nat, final : BOOLEAN]
  /\ \A i \in DOMAIN statuses :
       /\ statuses[i].msg \in Messages
       /\ statuses[i].status \in Statuses
       /\ Range(statuses[i].links) \subseteq DOMAIN events
  /\ \A i \in DOMAIN events :
       /\ events[i].sid \in DOMAIN statuses
       /\ \E b \in blocks : b.net = At(i).net /\ b.height = events[i].height
  /\ \A n \in Networks :
       /\ pc[n] \in {"down", "closed", "stream", "findStatus", "newStatus", "commit",
                      "findAgain", "event", "links", "save"}
       /\ at[n] \in Nat
       /\ pc[n] \in {"commit", "event", "links", "save"} =>
            sid[n] \in DOMAIN statuses /\ statuses[sid[n]].msg = cur[n].msg

\* No event is recorded twice, and those of a network are recorded in the
\* order of its chain, however often monitorEvent starts over
\* (getMonitorHeight).
RecordedOnce ==
  \A i, j \in DOMAIN events :
    /\ i < j /\ At(i).net = At(j).net
    => \E k, l \in DOMAIN chain[At(i).net] :
         /\ k < l
         /\ chain[At(i).net][k] =
              [msg |-> events[i].msg, step |-> events[i].step, height |-> events[i].height]
         /\ chain[At(i).net][l] =
              [msg |-> events[j].msg, step |-> events[j].step, height |-> events[j].height]

\* A block that the stream of a network has passed is in the table, so that
\* only the rest of a block whose events were being handled is ever lost
\* (getMonitorHeight starts after the last block of this network in the table) -
\* except for what came before the subscription in place, where it is one.
NoBlockSkipped ==
  \A n \in Networks : \A i \in DOMAIN chain[n] :
    chain[n][i].height \in since[n]..(at[n] - 1) =>
      chain[n][i].height \in RecordedHeights(n)

\* All the events of a message refer to one status, also when two networks saw that there
\* was none and each made one (storeBtpStatus finds again what it saved) - unless the
\* status with the lower key was committed after the other, which a database with one
\* writer at a time excludes.
StatusShared ==
  \A i, j \in DOMAIN events :
    events[i].msg = events[j].msg /\ events[i].msg \notin overtaken => events[i].sid = events[j].sid

\* An event that is final is in a final block of its network (finalizeEvent
\* goes by the keys of the blocks that finalizeBlock marked).
FinalInFinalBlock ==
  \A i \in DOMAIN events : events[i].final =>
    \E b \in blocks : b.net = At(i).net /\ b.height = events[i].height /\ b.final

\* What a status has to be after the first k steps of a message.
StatusAfter(m, k) ==
  LET passed == {Journey[m][j].event : j \in 1..k}
  IN CASE k = 0 -> "Unknown"
       [] k = Len(Journey[m]) -> "Completed"
       [] k # Len(Journey[m]) /\ passed \cap {"REPLY", "ERROR"} # {} -> "Replying"
       [] k \notin {0, Len(Journey[m])} /\ passed \cap {"REPLY", "ERROR"} = {} ->
            IF "RECEIVE" \in passed THEN "WaitReply" ELSE "Sending"

\* A message that goes straight to where it is received and, if it asks for an
\* answer, straight back, on networks where no step but the next one looks like
\* the next one.
Orderly(m) ==
  LET J == Journey[m]
      Event(k) == J[k].event
  IN /\ \E r \in 2..Len(J) :
          /\ Event(1) = "SEND" /\ Event(r) = "RECEIVE"
          /\ \A k \in 2..(r - 1) : Event(k) = "ROUTE"
          /\ IF J[r].next = None THEN r = Len(J)
             ELSE /\ r + 1 < Len(J)
                  /\ Event(r + 1) \in {"REPLY", "ERROR"} /\ Event(Len(J)) = "RECEIVE"
                  /\ \A k \in (r + 2)..(Len(J) - 1) : Event(k) = "ROUTE"
     /\ \A k, l \in DOMAIN J : k < l /\ Leads(J[k], J[l]) => l = k + 1

\* The links of a status are the first steps of the journey of its message, in
\* order, and its status is that of the message after them, in whatever order
\* the networks recorded the events (getLinks, findNextLink, inferStatus).
LinksFollowJourney ==
  \A i \in DOMAIN statuses :
    LET s == statuses[i]
    IN /\ \A k \in DOMAIN s.links : /\ events[s.links[k]].msg = s.msg
                                    /\ events[s.links[k]].step = k
       /\ s.status = StatusAfter(s.msg, Len(s.links))

\* "It means the transfer closed" (getLinks): a completed status stays so.
CompletedStays ==
  [][\A i \in DOMAIN statuses :
       statuses[i].status = "Completed" => statuses'[i].status = "Completed"]_vars
=============================================================================
