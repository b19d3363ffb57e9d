----------------------------- MODULE MCTracker -----------------------------
(***************************************************************************)
(* Tracker for model checking: the journey of a two-way message.           *)
(***************************************************************************)
EXTENDS Tracker

CONSTANTS A, B

Emitted(net, event, next) == [net |-> net, event |-> event, next |-> next]

TwoWay == <<Emitted(A, "SEND", B), Emitted(B, "RECEIVE", A),
            Emitted(B, "REPLY", A), Emitted(A, "RECEIVE", None)>>

Load(faults, subscriptions, oneWriter) ==
  [faults |-> faults, subscriptions |-> subscriptions, oneWriter |-> oneWriter]

\* Everything but a failing statement while one network has a subscription and writers run
\* at a time; everything but a crash on SQLite.
AnyFault == {Load({"conn", "crash"}, {B}, FALSE), Load({"conn", "db"}, {}, TRUE)}

NoFault == {Load({}, {}, TRUE)}

Journeys == [m \in Messages |-> TwoWay]

ASSUME JourneyAssumption == \A m \in Messages : Orderly(m)
=============================================================================
