-------------------------- MODULE FinalityConsumer --------------------------
(***************************************************************************)
(* The finality goroutines of the auto-caller (autocaller/xcall) and of    *)
(* the tracker (tracker/bmc) on top of one FinalityMonitor.  A consumer    *)
(* receives a block and asks IsFinalized about the recorded events up to   *)
(* that block's height.  It never unsubscribes; an independent client of   *)
(* the same monitor may.                                                   *)
(***************************************************************************)
EXTENDS FinalityMonitor

CONSTANT ClientSubs   \* the subscriptions of the independent client

ASSUME ConsumerAssumption == ClientSubs \subseteq Subs

VARIABLES
  loop, \* where the consumer's monitorFinality loop stands
  sub,  \* its subscription s
  upTo  \* the height of the block it received

consumerVars == <<loop, sub, upTo>>
allVars == <<vars, consumerVars>>

InitC ==
  /\ Init
  /\ loop = [c \in Queries |-> "subscribe"]
  /\ sub = [c \in Queries |-> None]
  /\ upTo = [c \in Queries |-> 0]

Go(c, label) == loop' = [loop EXCEPT ![c] = label]

\* The first subscription, and the one after "channel closed".
DoSubscribe(c) ==
  /\ loop[c] = "subscribe"
  /\ \E s \in Subs \ ClientSubs : Subscribe(s) /\ sub' = [sub EXCEPT ![c] = s]
  /\ Go(c, "wait")
  /\ UNCHANGED upTo

SeesClosed(c) ==
  /\ loop[c] = "wait"
  /\ chan[sub[c]].status = "closed" /\ chan[sub[c]].buf = <<>>
  /\ Go(c, "subscribe")
  /\ UNCHANGED <<vars, sub, upTo>>

TakesBlock(c) ==
  /\ loop[c] = "wait"
  /\ Receive(sub[c])
  /\ upTo' = [upTo EXCEPT ![c] = Head(chan[sub[c]].buf)]
  /\ Go(c, "finalize")
  /\ UNCHANGED sub

\* Records are looked up between height 1 and bi.Height(); one that turned out
\* on the chain may be followed by another one.
AsksOneMore(c) == 1..(upTo[c] + 1)

AsksUpTo(c) == 1..upTo[c]

Finalizes(c) ==
  /\ loop[c] = "finalize"
  /\ \E h \in AsksUpTo(c), onChain \in BOOLEAN : Ask(c, h, onChain)
  /\ Go(c, "asked")
  /\ UNCHANGED <<sub, upTo>>

\* The calls IsFinalized makes.
Asked(c) ==
  /\ loop[c] = "asked"
  /\ LastOf(c) \/ Answer(c)
  /\ UNCHANGED consumerVars

\* "true": the next record or done; "false", "not found" or an error: done.
Resumes(c) ==
  /\ loop[c] = "asked" /\ pc[c] = "idle"
  /\ \/ answer[c] = "true" /\ Go(c, "finalize")
     \/ Go(c, "wait")
  /\ UNCHANGED <<vars, sub, upTo>>

NothingToFinalize(c) ==
  /\ loop[c] = "finalize"
  /\ Go(c, "wait")
  /\ UNCHANGED <<vars, sub, upTo>>

\* ctx.Done(): the goroutine returns without unsubscribing; a later Start of
\* the service runs the loop anew, with a subscription of its own.
Restarts(c) ==
  /\ loop[c] = "wait"
  /\ Go(c, "subscribe")
  /\ UNCHANGED <<vars, sub, upTo>>

Consumer(c) == \/ DoSubscribe(c) \/ SeesClosed(c) \/ TakesBlock(c)
               \/ Finalizes(c) \/ Asked(c) \/ Resumes(c)
               \/ NothingToFinalize(c) \/ Restarts(c)

Client == /\ \E s \in ClientSubs : Subscribe(s) \/ Unsubscribe(s) \/ Receive(s)
          /\ UNCHANGED consumerVars

Monitor == /\ Finalize \/ \E e \in Epochs : Goroutine(e)
           /\ UNCHANGED consumerVars

NextC == Monitor \/ Client \/ \E c \in Queries : Consumer(c)

SpecC == InitC /\ [][NextC]_allVars

-----------------------------------------------------------------------------
\* "invalid FinalityMonitor state": a consumer told that everything up to a
\* height is final is then answered that some record up to that height is not
\* final yet.
StateIsValid ==
  \A c \in Queries : loop[c] = "asked" /\ pc[c] = "idle" => answer[c] # "false"

\* It cannot happen as long as the monitor was not restarted: m.last is set in
\* the critical section that sends the block, and one goroutine never lowers it.
StateIsValidWhileStartedOnce == epoch <= 1 => StateIsValid
=============================================================================
