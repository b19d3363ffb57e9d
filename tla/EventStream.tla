------------------------------ MODULE EventStream ------------------------------
(***************************************************************************)
(* The chain that an event stream reads, and the caller that reads it: the *)
(* monitorEvent loops of the auto-caller and the tracker, which record     *)
(* events and, when a stream fails, start it again from what is recorded.  *)
(* A crash of the process is such a failure: nothing but the records       *)
(* survives either.  The chain does not fork here.                         *)
(***************************************************************************)
EXTENDS Integers, FiniteSets

CONSTANTS
  InitHeights,  \* values of the option init_height; 0 is "not set"
  MaxHead,      \* bound: the height of the chain
  MaxLogs       \* bound: logs of interest in one block

ASSUME StreamAssumption ==
  InitHeights \subseteq Nat /\ MaxHead \in Nat /\ MaxLogs \in Nat

VARIABLES
  head,       \* the latest block of the node
  events,     \* the logs of interest on the chain
  initHeight,
  resume,     \* 0 for the auto-caller, 1 for the tracker: see ResumeHeight
  stored,     \* the highest height recorded, 0 if there is no record
  delivered   \* history: the logs the callback accepted

caller == <<initHeight, resume>>
streamVars == <<head, events, caller, stored, delivered>>

InitStream ==
  /\ head = 1 /\ events = {}
  /\ initHeight \in InitHeights /\ resume \in {0, 1}
  /\ stored = 0 /\ delivered = {}

\* getMonitorHeight: the tracker goes on after the block it recorded last, the
\* auto-caller with the block of the event it recorded last.
ResumeHeight == IF stored = 0 \/ (resume = 1 /\ stored < initHeight) THEN initHeight
                ELSE stored + resume

\* The order of the logs on the chain, and in an answer.
Before(d, e) == d.height < e.height \/ (d.height = e.height /\ d.index < e.index)

\* A log may leave a record of its height, higher than the ones there are.
Recorded(e) == {stored} \cup {h \in {e.height} : h > stored}
=============================================================================
