------------------------------ MODULE EventFeed ------------------------------
(***************************************************************************)
(* What an event stream promises its caller, however it learns of the      *)
(* events: it begins at a block, and from there on passes on every log     *)
(* once, in the order of the chain and without a gap, until it ends, which *)
(* it may at any time.  A log is recorded when it is passed on, or when    *)
(* the stream ends over it.                                                *)
(*                                                                         *)
(* Polling, subscribing and reading from an ICON node differ in where they *)
(* begin and in what an error of the callback does.                        *)
(***************************************************************************)
EXTENDS EventStream

VARIABLES
  source,  \* "poll", "subscription" or "icon"
  open,
  toCome,  \* the logs on the chain that the open stream still has to pass on
  due,     \* the block it takes next, counting those of toCome as taken; or 0
  astray   \* a poll that began above the head: it promises nothing of what it takes

promised == <<source, open, toCome, due, astray>>
feedVars == <<streamVars, promised>>

Greater(a, b) == IF a > b THEN a ELSE b

FirstOf(S, e) == e \in S /\ \A d \in S \ {e} : Before(e, d)

InitFeed ==
  /\ InitStream
  /\ source \in {"poll", "subscription", "icon"}
  /\ open = FALSE /\ toCome = {} /\ due = 0 /\ astray = FALSE

Anything == toCome' \subseteq events' /\ due' \in Nat /\ astray' \in BOOLEAN

\* A new block is still to be passed on if it is the one due.
NewBlock ==
  /\ head' = head + 1
  /\ \E n \in 0..MaxLogs :
       LET new == [height : {head + 1}, index : 1..n] IN
       /\ events' = events \cup new
       /\ \/ astray /\ Anything
          \/ /\ due = head + 1
             /\ toCome' = toCome \cup new /\ due' = due + 1 /\ UNCHANGED astray
          \/ due # head + 1 /\ UNCHANGED <<toCome, due, astray>>
  /\ UNCHANGED <<caller, stored, delivered, source, open>>

Wander ==
  /\ astray /\ Anything
  /\ UNCHANGED <<streamVars, source, open>>

\* Without a height to go on from, a stream begins with the last block; a subscription
\* always with the next one.
Begins ==
  /\ ~ open /\ open' = TRUE
  /\ LET first == IF ResumeHeight = 0 THEN head ELSE ResumeHeight IN
     IF source = "subscription" THEN toCome' = {} /\ due' = head + 1
     ELSE /\ toCome' = {e \in events : e.height >= first}
          /\ due' = Greater(first, head + 1)
  /\ astray' = (source = "poll" /\ ResumeHeight > head)
  /\ UNCHANGED <<streamVars, source>>

PassOn ==
  /\ open
  /\ \E e \in toCome :
       /\ FirstOf(toCome, e)
       /\ delivered' = delivered \cup {e}
       /\ stored' \in Recorded(e)
       /\ toCome' = toCome \ {e}
  /\ UNCHANGED <<head, events, caller, source, open, due, astray>>

\* An error of the callback of an ICON stream: what is left of the block is passed on, and
\* nothing else.
Refused ==
  /\ open /\ source = "icon"
  /\ \E e \in toCome :
       /\ FirstOf(toCome, e)
       /\ stored' \in Recorded(e)
       /\ toCome' = {d \in toCome \ {e} : d.height = e.height}
  /\ due' = 0
  /\ UNCHANGED <<head, events, caller, delivered, source, open, astray>>

Ends ==
  /\ open /\ open' = FALSE
  /\ \/ UNCHANGED stored
     \/ source # "icon" /\ \E e \in toCome : FirstOf(toCome, e) /\ stored' \in Recorded(e)
  /\ toCome' = {} /\ due' = 0 /\ astray' = FALSE
  /\ UNCHANGED <<head, events, caller, delivered, source>>

NextFeed == NewBlock \/ Wander \/ Begins \/ PassOn \/ Refused \/ Ends

FeedSpec == InitFeed /\ [][NextFeed]_feedVars
=============================================================================
