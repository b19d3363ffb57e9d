------------------------------ MODULE MCLiveness ------------------------------
(***************************************************************************)
(* FinalityMonitor and WsSession under fairness, for model checking.  A    *)
(* behaviour is one of one of them, and nothing happens in the other.      *)
(***************************************************************************)
EXTENDS FinalityMonitor, WsSession

VARIABLES part

NoMonitor == Init /\ push = FALSE

NoSession ==
  /\ aware = FALSE /\ pinging = FALSE /\ client = "left" /\ request = "none" /\ line = <<>>
  /\ heard = <<>>
  /\ handler = "done" /\ reader = "done" /\ pinger = "done"
  /\ cancelled = TRUE /\ closed = TRUE /\ broken = FALSE /\ sent = 0

InitLiveness ==
  \/ part = "monitor" /\ Init /\ NoSession
  \/ part = "session" /\ InitSession /\ NoMonitor

NextLiveness ==
  \/ part = "monitor" /\ Next /\ UNCHANGED <<part, wsVars>>
  \/ part = "session" /\ NextSession /\ UNCHANGED <<part, vars>>

SpecLiveness ==
  /\ InitLiveness /\ [][NextLiveness]_<<part, vars, wsVars>>
  /\ Fairness /\ SessionFairness
=============================================================================
