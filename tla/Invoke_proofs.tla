---------------------------- MODULE Invoke_proofs ----------------------------
(***************************************************************************)
(* Proofs about Invoke: for any number of callers, whatever options they   *)
(* give, and however their invocations and the network interleave.         *)
(***************************************************************************)
EXTENDS Invoke, NaturalsInduction, FiniteSetTheorems, TLAPS

Options == [Fields -> Optional(Int)]

Calls ==
  [via : {"client", "request"}, own : Addrs, asked : Optional(Addrs), from : Optional(Addrs),
   given : SUBSET Fields, old : BOOLEAN,
   sig : Optional([by : Addrs, over : Optional(Transactions)]),
   opt : Options, p : Options,
   pc : {"client", "server", "gas", "time", "nonce", "fee", "ready", "answered", "failed",
         "invalid", "sent"},
   round : {1, 2}, seen : Nat, sender : Optional(Addrs \cup {"unknown"})]

Sent == [sender : Addrs, tx : Transactions, state : {"pending", "mined", "replaced"},
         seen : Nat, explicit : BOOLEAN]

\* The options of d that are named by S.
Part(d, S) == [f \in Fields |-> IF f \in S THEN d.opt[f] ELSE None]

\* The transaction the handler of a network n builds from complete options.
OptionsSigned(n, d) ==
  IF n = "icon" THEN {"gas", "time"}
  ELSE IF d.opt.price # None THEN {"gas", "nonce", "price"}
  ELSE {"gas", "nonce", "tip", "cap"}
Built(n, d) == [from |-> IF n = "icon" THEN d.from ELSE None,
                values |-> Part(d, OptionsSigned(n, d))]

\* The handler of a network n finds nothing to fill in, and nothing to refuse.
Complete(n, d) ==
  /\ d.opt.gas # None
  /\ n = "icon" => d.from # None /\ d.opt.time # None
  /\ n = "eth" => /\ d.opt.nonce # None /\ ~ FeesMissing(d) /\ ~ PriceAndCaps(d)
                  /\ d.opt.price = None => d.opt.tip <= d.opt.cap

\* How far the transaction is built.
Progress(n, d) ==
  /\ d.pc = "time" => /\ n = "icon" /\ d.p = Part(d, {"gas"})
                      /\ d.opt.gas # None /\ d.from # None
  /\ d.pc = "nonce" => n = "eth" /\ d.p = Part(d, {"gas"}) /\ d.opt.gas # None
  /\ d.pc = "fee" => /\ n = "eth" /\ d.p = Part(d, {"gas", "nonce"})
                     /\ d.opt.gas # None /\ d.opt.nonce # None
  /\ d.pc = "ready" => /\ Complete(n, d)
                       /\ [from |-> IF n = "icon" THEN d.from ELSE None,
                           values |-> IF d.p.price # None
                                      THEN [d.p EXCEPT !.tip = None, !.cap = None]
                                      ELSE d.p] = Built(n, d)

\* Who signs, and for whom.
Named(d) ==
  /\ d.pc = "client" => d.round = 1
  /\ d.via = "client" /\ d.pc # "client" => d.from = d.own
  /\ d.via = "request" => d.from = d.asked \/ (d.asked = None /\ d.from = Server)
  /\ d.round = 1 /\ ~ (d.via = "client" /\ d.pc = "client")
       => d.sig = None \/ (d.via = "request" /\ d.old /\ d.sig = OldSignature(d.own))

\* What was signed is what is built again from the options that came back.
SignedAsBuilt(n, d) ==
  d.round = 2 => /\ Complete(n, d)
                 /\ d.sig = [by |-> Expected(d), over |-> Built(n, d)]
                 /\ d.from = Expected(d)

Told(d) ==
  /\ d.sender # None => /\ d.pc \in {"sent", "failed"}
                        /\ ~ (d.via = "request" /\ d.old) => d.sender = Expected(d)
  /\ d.pc = "invalid" => d.round = 1

Good(n, d) == Progress(n, d) /\ Named(d) /\ SignedAsBuilt(n, d) /\ Told(d)

\* A nonce that was asked for is one that no transaction had taken by then.
NonceWasFree(n, P, d) ==
  n = "eth" /\ "nonce" \notin d.given =>
    /\ d.pc = "client" => d.opt.nonce = None
    /\ d.opt.nonce # None =>
         /\ d.from # None /\ d.seen <= Len(P)
         /\ \A i \in 1..d.seen : P[i].sender = d.from => P[i].tx.values.nonce # d.opt.nonce

Replacer(P, i, j) ==
  /\ P[j].sender = P[i].sender
  /\ P[j].tx.values.nonce = P[i].tx.values.nonce
  /\ P[j].explicit \/ P[j].seen < i

Settled(P) ==
  \A i \in DOMAIN P : P[i].state = "replaced" => \E j \in (i + 1)..Len(P) : Replacer(P, i, j)

Typed ==
  /\ net \in {"eth", "icon"} /\ key \in BOOLEAN /\ base \in Nat /\ clock \in Nat
  /\ call \in [Callers -> Calls] /\ pool \in Seq(Sent)

VInv ==
  /\ Typed
  /\ \A c \in Callers : Good(net, call[c]) /\ NonceWasFree(net, pool, call[c])
  /\ Settled(pool)


-----------------------------------------------------------------------------
(* Calls and the steps on them.                                            *)

LEMMA NoneIsNoNumber == \A v \in Int : v # None
BY InvokeAssumption

\* What the handler of a call leaves alone.
Same(d, e) ==
  /\ e.via = d.via /\ e.own = d.own /\ e.asked = d.asked /\ e.from = d.from
  /\ e.given = d.given /\ e.old = d.old /\ e.sig = d.sig /\ e.round = d.round
  /\ e.sender = d.sender

LEMMA AtTyped ==
  ASSUME NEW d \in Calls, NEW pc \in {"client", "server", "gas", "time", "nonce", "fee", "ready",
                                     "answered", "failed", "invalid", "sent"}
  PROVE  /\ At(d, pc) \in Calls /\ Same(d, At(d, pc)) /\ At(d, pc).pc = pc
         /\ At(d, pc).opt = d.opt /\ At(d, pc).p = d.p /\ At(d, pc).seen = d.seen
BY DEF At, Calls, Same

LEMMA FillTyped ==
  ASSUME NEW d \in Calls, NEW f \in Fields, NEW v, d.opt[f] # None \/ v \in Int
  PROVE  LET e == Fill(d, f, v) IN
         /\ e \in Calls /\ Same(d, e) /\ e.pc = d.pc /\ e.seen = d.seen
         /\ e.opt = [d.opt EXCEPT ![f] = IF d.opt[f] # None THEN @ ELSE v]
         /\ e.p = [d.p EXCEPT ![f] = IF d.opt[f] # None THEN d.opt[f] ELSE v]
         /\ e.opt[f] # None
<1> DEFINE o == [d.opt EXCEPT ![f] = v]
           a == [d.p EXCEPT ![f] = d.opt[f]]
           b == [d.p EXCEPT ![f] = v]
<1>1. d.opt \in Options /\ d.p \in Options
  BY DEF Calls
<1>2. d.opt[f] # None => [d.opt EXCEPT ![f] = d.opt[f]] = d.opt
  BY <1>1 DEF Options
<1>3. CASE d.opt[f] # None
  <2>1. Fill(d, f, v) = [d EXCEPT !.p = a]
    BY <1>3 DEF Fill, Calls
  <2>2. a \in Options
    BY <1>1 DEF Options
  <2> HIDE DEF a
  <2>3. /\ [d EXCEPT !.p = a] \in Calls /\ Same(d, [d EXCEPT !.p = a])
        /\ [d EXCEPT !.p = a].pc = d.pc /\ [d EXCEPT !.p = a].seen = d.seen
        /\ [d EXCEPT !.p = a].opt = d.opt /\ [d EXCEPT !.p = a].p = a
    BY <2>2 DEF Calls, Same
  <2>4. QED BY <1>2, <1>3, <2>1, <2>3 DEF a
<1>4. CASE d.opt[f] = None
  <2>1. v \in Int /\ v # None
    BY <1>4, NoneIsNoNumber
  <2>2. Fill(d, f, v) = [d EXCEPT !.p = b, !.opt = o]
    BY <1>4 DEF Fill, Calls
  <2>3. b \in Options /\ o \in Options /\ o[f] = v
    BY <1>1, <2>1 DEF Options, Optional
  <2>4. o = [d.opt EXCEPT ![f] = IF d.opt[f] # None THEN @ ELSE v]
    BY <1>4
  <2> HIDE DEF o, b
  <2>5. LET e == [d EXCEPT !.p = b, !.opt = o] IN
        /\ e \in Calls /\ Same(d, e) /\ e.pc = d.pc /\ e.seen = d.seen
        /\ e.opt = o /\ e.p = b
    BY <2>3 DEF Calls, Same
  <2>6. QED BY <1>4, <2>1, <2>2, <2>3, <2>4, <2>5 DEF b
<1>5. QED BY <1>3, <1>4

\* A step of the handler keeps what is known of a call.
LEMMA GoodKept ==
  ASSUME NEW n \in {"eth", "icon"}, NEW d \in Calls, NEW e \in Calls, Good(n, d), Same(d, e),
         d.pc # "client", e.pc # "client", d.sender = None, e.pc = "invalid" => d.round = 1,
         d.round = 2 => e.opt = d.opt, Progress(n, e)
  PROVE  Good(n, e)
<1>1. Named(e)
  BY DEF Good, Named, Same, OldSignature
<1>2. Told(e)
  BY DEF Good, Told, Same
<1>3. SignedAsBuilt(n, e)
  <2>1. SUFFICES ASSUME e.round = 2
        PROVE  /\ Complete(n, e) /\ e.from = Expected(e)
               /\ e.sig = [by |-> Expected(e), over |-> Built(n, e)]
    BY DEF SignedAsBuilt
  <2>2. /\ Complete(n, d) /\ d.from = Expected(d)
        /\ d.sig = [by |-> Expected(d), over |-> Built(n, d)] /\ e.opt = d.opt
    BY <2>1 DEF Good, SignedAsBuilt, Same
  <2>3. Expected(e) = Expected(d)
    BY DEF Same, Expected
  <2>4. Built(n, e) = Built(n, d)
    BY <2>2 DEF Same, Built, OptionsSigned, Part
  <2>5. Complete(n, e)
    BY <2>2 DEF Same, Complete, FeesMissing, PriceAndCaps
  <2>6. QED BY <2>2, <2>3, <2>4, <2>5 DEF Same
<1>4. QED BY <1>1, <1>2, <1>3 DEF Good

LEMMA NonceKept ==
  ASSUME NEW n, NEW P, NEW d, NEW e, NonceWasFree(n, P, d), Same(d, e), e.pc # "client",
         e.opt.nonce = d.opt.nonce, e.seen = d.seen
  PROVE  NonceWasFree(n, P, e)
BY DEF NonceWasFree, Same

LEMMA StepKeeps ==
  ASSUME VInv, NEW c \in Callers, NEW from, NEW e \in Calls, Step(c, from, e),
         Good(net, e), NonceWasFree(net, pool, e)
  PROVE  VInv'
<1>1. /\ UNCHANGED <<net, key, base, clock, pool>>
      /\ call' = [call EXCEPT ![c] = e]
  BY DEF Step
<1>2. call \in [Callers -> Calls] /\ Typed
  BY DEF VInv, Typed
<1>3. call' \in [Callers -> Calls] /\ \A b \in Callers : call'[b] = IF b = c THEN e ELSE call[b]
  BY <1>1, <1>2
<1>4. Typed'
  BY <1>1, <1>2, <1>3 DEF Typed
<1>5. ASSUME NEW b \in Callers PROVE Good(net, call'[b]) /\ NonceWasFree(net, pool, call'[b])
  BY <1>3 DEF VInv
<1>6. (\A b \in Callers : Good(net, call[b]) /\ NonceWasFree(net, pool, call[b]))'
  BY <1>1, <1>5
<1>7. Settled(pool)'
  BY <1>1 DEF VInv
<1>8. QED BY <1>4, <1>6, <1>7 DEF VInv


-----------------------------------------------------------------------------
(* One step.                                                               *)

LEMMA PrepareToSignTyped ==
  ASSUME NEW d \in Calls, NEW a \in Addrs, NEW force \in BOOLEAN
  PROVE  LET e == PrepareToSign(d, a, force) IN
         /\ e \in Calls
         /\ e.via = d.via /\ e.own = d.own /\ e.asked = d.asked /\ e.given = d.given
         /\ e.old = d.old /\ e.round = d.round /\ e.sender = d.sender /\ e.seen = d.seen
         /\ e.opt = d.opt /\ e.p = d.p /\ e.pc = d.pc
         /\ e.from = IF force \/ d.from = None THEN a ELSE d.from
         /\ e.sig = IF force THEN None ELSE d.sig
BY ZenonT(60) DEF PrepareToSign, Calls, Optional

LEMMA CallOf ==
  ASSUME VInv, NEW c \in Callers
  PROVE  /\ call[c] \in Calls /\ Good(net, call[c]) /\ NonceWasFree(net, pool, call[c])
         /\ net \in {"eth", "icon"} /\ key \in BOOLEAN /\ pool \in Seq(Sent)
         /\ base \in Nat /\ clock \in Nat
BY DEF VInv, Typed

LEMMA ClientPreparesKeeps ==
  ASSUME VInv, NEW c \in Callers, ClientPrepares(c)
  PROVE  VInv'
<1> DEFINE d == call[c]
           q == IF d.via = "client" THEN PrepareToSign(d, d.own, TRUE) ELSE d
           e == At(q, "server")
<1>1. /\ d \in Calls /\ Good(net, d) /\ NonceWasFree(net, pool, d) /\ d.pc = "client"
      /\ Step(c, "client", e)
  BY CallOf DEF ClientPrepares, Step
<1> HIDE DEF d
<1>2. d.own \in Addrs
  BY <1>1 DEF Calls
<1>3. /\ q \in Calls
      /\ q.via = d.via /\ q.own = d.own /\ q.asked = d.asked /\ q.given = d.given
      /\ q.old = d.old /\ q.round = d.round /\ q.sender = d.sender /\ q.seen = d.seen
      /\ q.opt = d.opt /\ q.p = d.p
      /\ q.from = IF d.via = "client" THEN d.own ELSE d.from
      /\ q.sig = IF d.via = "client" THEN None ELSE d.sig
  BY <1>1, <1>2, PrepareToSignTyped
<1> HIDE DEF q
<1>4. /\ e \in Calls /\ Same(q, e) /\ e.pc = "server" /\ e.opt = q.opt /\ e.seen = q.seen
  BY <1>3, AtTyped
<1> HIDE DEF e
<1>5. d.round = 1 /\ d.sender = None
  BY <1>1 DEF Good, Named, Told
<1>6. Named(e) /\ Told(e) /\ SignedAsBuilt(net, e) /\ Progress(net, e)
  BY <1>1, <1>3, <1>4, <1>5 DEF Good, Named, Told, SignedAsBuilt, Progress, Same
<1>7. NonceWasFree(net, pool, e)
  BY <1>1, <1>3, <1>4 DEF NonceWasFree, Same
<1>8. QED BY <1>1, <1>4, <1>6, <1>7, StepKeeps DEF Good

LEMMA ServerPreparesKeeps ==
  ASSUME VInv, NEW c \in Callers, ServerPrepares(c)
  PROVE  VInv'
<1> DEFINE d == call[c]
           q == IF key THEN PrepareToSign(d, Server, FALSE) ELSE d
           e == At(q, "gas")
<1>1. /\ d \in Calls /\ Good(net, d) /\ NonceWasFree(net, pool, d) /\ d.pc = "server"
      /\ Step(c, "server", e) /\ net \in {"eth", "icon"}
  BY CallOf DEF ServerPrepares, Step
<1> HIDE DEF d
<1>2. Server \in Addrs /\ None \notin Addrs /\ d.own \in Addrs
  BY <1>1, InvokeAssumption DEF Calls
<1>3. /\ q \in Calls
      /\ q.via = d.via /\ q.own = d.own /\ q.asked = d.asked /\ q.given = d.given
      /\ q.old = d.old /\ q.round = d.round /\ q.sender = d.sender /\ q.seen = d.seen
      /\ q.opt = d.opt /\ q.p = d.p /\ q.sig = d.sig
      /\ q.from = d.from \/ (d.from = None /\ q.from = Server)
  BY <1>1, <1>2, PrepareToSignTyped
<1> HIDE DEF q
<1>4. /\ e \in Calls /\ Same(q, e) /\ e.pc = "gas" /\ e.opt = q.opt /\ e.seen = q.seen
  BY <1>3, AtTyped
<1> HIDE DEF e
<1>5. /\ e.via = d.via /\ e.own = d.own /\ e.asked = d.asked /\ e.given = d.given
      /\ e.old = d.old /\ e.round = d.round /\ e.sender = d.sender /\ e.seen = d.seen
      /\ e.opt = d.opt /\ e.sig = d.sig
      /\ e.from = d.from \/ (d.from = None /\ e.from = Server)
  BY <1>3, <1>4 DEF Same
<1>6. CASE e.from = d.from
  <2>1. Same(d, e) /\ d.sender = None /\ Progress(net, e)
    BY <1>1, <1>4, <1>5, <1>6 DEF Same, Good, Told, Progress
  <2>2. Good(net, e)
    BY <1>1, <1>4, <1>5, <2>1, GoodKept
  <2>3. NonceWasFree(net, pool, e)
    BY <1>1, <1>4, <1>5, <2>1, NonceKept
  <2>4. QED BY <1>1, <1>4, <2>2, <2>3, StepKeeps
<1>7. CASE d.from = None /\ e.from = Server
  <2>1. d.via = "request" /\ d.asked = None
    BY <1>1, <1>2, <1>7 DEF Good, Named, Calls
  <2>2. Expected(d) = Server
    BY <1>2, <2>1 DEF Expected
  <2>3. d.round = 1
    BY <1>1, <1>2, <1>7, <2>2 DEF Good, SignedAsBuilt, Calls
  <2>4. Named(e) /\ Told(e) /\ SignedAsBuilt(net, e) /\ Progress(net, e)
    BY <1>1, <1>4, <1>5, <1>7, <2>1, <2>3
       DEF Good, Named, Told, SignedAsBuilt, Progress
  <2>5. NonceWasFree(net, pool, e)
    BY <1>1, <1>4, <1>5, <1>7 DEF NonceWasFree
  <2>6. QED BY <1>1, <1>4, <2>4, <2>5, StepKeeps DEF Good
<1>8. QED BY <1>5, <1>6, <1>7

\* A step of the handler that goes on, or gives up.
LEMMA HandlerStep ==
  ASSUME VInv, NEW c \in Callers, NEW from, NEW e \in Calls, Step(c, from, e),
         Same(call[c], e), from # "client", e.pc # "client",
         from \notin {"sent", "failed"}, e.pc = "invalid" => call[c].round = 1,
         call[c].round = 2 => e.opt = call[c].opt, Progress(net, e),
         NonceWasFree(net, pool, e)
  PROVE  VInv'
<1>1. /\ call[c] \in Calls /\ Good(net, call[c]) /\ net \in {"eth", "icon"}
      /\ call[c].pc = from
  BY CallOf DEF Step
<1>2. call[c].sender = None
  BY <1>1 DEF Good, Told
<1>3. Good(net, e)
  BY <1>1, <1>2, GoodKept
<1>4. QED BY <1>3, StepKeeps

LEMMA GivesUp ==
  ASSUME VInv, NEW c \in Callers, NEW from, NEW pc \in {"failed", "invalid", "answered"},
         Step(c, from, At(call[c], pc)), from \in {"gas", "nonce", "fee", "ready"},
         pc = "invalid" => call[c].round = 1
  PROVE  VInv'
<1> DEFINE e == At(call[c], pc)
<1>1. call[c] \in Calls /\ NonceWasFree(net, pool, call[c])
  BY CallOf
<1>2. /\ e \in Calls /\ Same(call[c], e) /\ e.pc = pc /\ e.opt = call[c].opt
      /\ e.seen = call[c].seen
  BY <1>1, AtTyped
<1>3. Progress(net, e)
  BY <1>2 DEF Progress
<1>4. NonceWasFree(net, pool, e)
  BY <1>1, <1>2, NonceKept
<1> HIDE DEF e
<1>5. Step(c, from, e)
  BY DEF e
<1>6. QED BY <1>2, <1>3, <1>4, <1>5, HandlerStep


LEMMA GasKeeps ==
  ASSUME VInv, NEW c \in Callers, Gas(c)
  PROVE  VInv'
<1> DEFINE d == call[c]
           q == [d EXCEPT !.p = Empty]
           r == Fill(q, "gas", DefaultGas)
           pc == IF net = "icon" THEN "time" ELSE "nonce"
           e == At(r, pc)
<1>1. /\ d \in Calls /\ Good(net, d) /\ NonceWasFree(net, pool, d) /\ net \in {"eth", "icon"}
  BY CallOf
<1>2. CASE d.opt.gas = None /\ Step(c, "gas", At(d, "failed"))
  BY <1>2, GivesUp
<1>3. CASE (net = "icon" => d.from # None) /\ Step(c, "gas", e)
  <2>1. /\ q \in Calls /\ Same(d, q) /\ q.pc = d.pc /\ q.opt = d.opt /\ q.p = Empty
        /\ q.seen = d.seen /\ Empty \in Options
    <3>1. Empty \in Options
      BY DEF Empty, Options, Optional
    <3>2. QED BY <1>1, <3>1 DEF Calls, Same
  <2> HIDE DEF d, q
  <2>2. "gas" \in Fields /\ DefaultGas \in Int
    BY DEF Fields, DefaultGas
  <2>3. /\ r \in Calls /\ Same(q, r) /\ r.seen = q.seen
        /\ r.opt = [q.opt EXCEPT !["gas"] = IF q.opt["gas"] # None THEN @ ELSE DefaultGas]
        /\ r.p = [q.p EXCEPT !["gas"] = IF q.opt["gas"] # None THEN q.opt["gas"]
                                       ELSE DefaultGas]
        /\ r.opt["gas"] # None
    BY <2>1, <2>2, FillTyped
  <2> HIDE DEF r
  <2>4. pc \in {"time", "nonce"} /\ (pc = "time" <=> net = "icon")
    BY <1>1
  <2>5. e \in Calls /\ Same(r, e) /\ e.pc = pc /\ e.opt = r.opt /\ e.p = r.p /\ e.seen = r.seen
    BY <2>3, <2>4, AtTyped
  <2> HIDE DEF e, pc
  <2>6. d.opt \in Options /\ q.opt \in Options
    BY <1>1, <2>1 DEF d, Calls
  <2>7. /\ r.opt.nonce = d.opt.nonce
        /\ d.opt.gas # None => r.opt = d.opt
        /\ r.p = Part(r, {"gas"})
    <3>1. r.opt.nonce = d.opt.nonce
      BY <2>1, <2>3, <2>6 DEF Options, Fields
    <3>2. d.opt.gas # None => r.opt = d.opt
      BY <2>1, <2>3, <2>6 DEF Options
    <3>3. r.p = Part(r, {"gas"})
      BY <2>1, <2>2, <2>3, <2>6 DEF Options, Empty, Part
    <3>4. QED BY <3>1, <3>2, <3>3
  <2>8. Same(d, e)
    BY <2>1, <2>3, <2>5 DEF Same
  <2>9. Progress(net, e)
    <3>1. e.p = Part(e, {"gas"}) /\ e.opt.gas # None
      BY <2>3, <2>5, <2>7 DEF Part
    <3>2. net = "icon" => e.from # None
      BY <1>3, <2>8 DEF Same
    <3>3. QED BY <1>1, <2>4, <2>5, <3>1, <3>2 DEF Progress
  <2>10. d.round = 2 => e.opt = d.opt
    <3>1. d.round = 2 => d.opt.gas # None
      BY <1>1 DEF Good, SignedAsBuilt, Complete
    <3>2. QED BY <2>5, <2>7, <3>1
  <2>11. NonceWasFree(net, pool, e)
    <3>1. e.opt.nonce = d.opt.nonce /\ e.seen = d.seen /\ e.pc # "client"
      BY <2>1, <2>3, <2>4, <2>5, <2>7
    <3>2. QED BY <1>1, <2>8, <3>1, NonceKept DEF d
  <2>12. QED BY <1>3, <2>4, <2>5, <2>8, <2>9, <2>10, <2>11, HandlerStep DEF d
<1>4. QED BY <1>2, <1>3 DEF Gas

LEMMA TimeKeeps ==
  ASSUME VInv, NEW c \in Callers, Time(c)
  PROVE  VInv'
<1> DEFINE d == call[c]
           r == Fill(d, "time", clock)
           e == At(r, "ready")
<1>1. /\ d \in Calls /\ Good(net, d) /\ NonceWasFree(net, pool, d) /\ clock \in Nat
      /\ Step(c, "time", e) /\ d.pc = "time"
  BY CallOf DEF Time, Step
<1>2. d.opt \in Options /\ d.p \in Options /\ d.p = Part(d, {"gas"}) /\ net = "icon"
      /\ d.opt.gas # None /\ d.from # None
  BY <1>1 DEF Good, Progress, Calls
<1> HIDE DEF d
<1>3. /\ r \in Calls /\ Same(d, r) /\ r.seen = d.seen
      /\ r.opt = [d.opt EXCEPT !["time"] = IF d.opt["time"] # None THEN @ ELSE clock]
      /\ r.p = [d.p EXCEPT !["time"] = IF d.opt["time"] # None THEN d.opt["time"] ELSE clock]
      /\ r.opt["time"] # None
  BY <1>1, FillTyped DEF Fields
<1> HIDE DEF r
<1>4. e \in Calls /\ Same(r, e) /\ e.pc = "ready" /\ e.opt = r.opt /\ e.p = r.p
      /\ e.seen = r.seen
  BY <1>3, AtTyped
<1> HIDE DEF e
<1>5. /\ e.opt.nonce = d.opt.nonce /\ e.opt.gas = d.opt.gas
      /\ d.opt.time # None => e.opt = d.opt
  BY <1>2, <1>3, <1>4 DEF Options, Fields
<1>6. e.p = Part(e, {"gas", "time"})
  BY <1>2, <1>3, <1>4 DEF Options, Fields, Part
<1>7. Same(d, e)
  BY <1>3, <1>4 DEF Same
<1>8. Progress(net, e)
  <2>1. e.from # None /\ e.opt.time # None /\ e.opt.gas # None
    BY <1>2, <1>3, <1>4, <1>5, <1>7 DEF Same
  <2>2. Complete(net, e)
    BY <1>2, <2>1 DEF Complete
  <2>3. e.p.price = None
    BY <1>6 DEF Part, Fields
  <2>4. QED BY <1>2, <1>4, <1>6, <2>2, <2>3 DEF Progress, Built, OptionsSigned
<1>9. d.round = 2 => e.opt = d.opt
  BY <1>1, <1>2, <1>5 DEF Good, SignedAsBuilt, Complete
<1>10. NonceWasFree(net, pool, e)
  BY <1>2 DEF NonceWasFree
<1>11. QED BY <1>1, <1>4, <1>7, <1>8, <1>9, <1>10, HandlerStep DEF d

LEMMA FromMissingKeeps ==
  ASSUME VInv, NEW c \in Callers, FromMissing(c)
  PROVE  VInv'
<1> DEFINE d == call[c]
<1>1. d \in Calls /\ Good(net, d) /\ net \in {"eth", "icon"}
  BY CallOf
<1>2. PICK from \in {"gas", "nonce"} :
        /\ d.from = None /\ Step(c, from, At(d, "invalid")) /\ d.pc = from
        /\ net = "icon" \/ d.opt.nonce = None
  BY DEF FromMissing, Step
<1>3. d.round # 2
  BY <1>1, <1>2 DEF Good, SignedAsBuilt, Complete
<1>4. d.round = 1
  BY <1>1, <1>3 DEF Calls
<1>5. QED BY <1>2, <1>4, GivesUp


-----------------------------------------------------------------------------
(* The nonce that PendingNonceAt finds.                                    *)

Less == OpToRel(<, Nat)

LEMMA LeastExists ==
  ASSUME NEW S, S \subseteq Nat, S # {}
  PROVE  \E x \in S : \A y \in S : x <= y
<1>1. IsWellFoundedOn(Less, Nat)
  BY NatLessThanWellFounded DEF Less
<1>2. PICK x \in S : \A y \in S : <<y, x>> \notin Less
  BY <1>1, WFMin, Zenon
<1>3. \A y \in S : y < x => <<y, x>> \in Less
  BY DEF Less, OpToRel
<1>4. ASSUME NEW y \in S PROVE x <= y
  <2>1. x \in Nat /\ y \in Nat /\ ~ (y < x)
    BY <1>2, <1>3
  <2>2. QED BY <2>1
<1>5. QED BY <1>4

\* Of n + 1 numbers one is not among n others, and there is a first such.
LEMMA FreeNumber ==
  ASSUME NEW n \in Nat, NEW T, IsFiniteSet(T), Cardinality(T) <= n
  PROVE  \E i \in 1..(n + 1) : i \notin T /\ 1..(i - 1) \subseteq T
<1> DEFINE Free == 1..(n + 1) \ T
<1>1. Free # {}
  <2>1. IsFiniteSet(1..(n + 1)) /\ Cardinality(1..(n + 1)) = n + 1
    BY FS_Interval
  <2>2. Cardinality(T) \in Nat
    BY FS_CardinalityType
  <2>3. 1..(n + 1) \subseteq T => n + 1 <= Cardinality(T)
    BY <2>1, FS_Subset
  <2>4. QED BY <2>2, <2>3
<1>2. Free \subseteq Nat
  OBVIOUS
<1>3. PICK i \in Free : \A k \in Free : i <= k
  <2> HIDE DEF Free
  <2>1. QED BY <1>1, <1>2, LeastExists
<1>4. i \in 1..(n + 1) /\ i \notin T
  OBVIOUS
<1>5. \A k \in 1..(i - 1) : k \in T
  BY <1>3, <1>4
<1>6. QED BY <1>4, <1>5

LEMMA PendingNonceIsFree ==
  ASSUME NEW a, pool \in Seq(Sent)
  PROVE  /\ PendingNonce(a) \in Int
         /\ \A i \in DOMAIN pool : pool[i].sender = a
                                     => pool[i].tx.values.nonce # PendingNonce(a)
<1> DEFINE J == {j \in DOMAIN pool : pool[j].sender = a}
           F == [j \in J |-> pool[j].tx.values.nonce]
           T == {pool[j].tx.values.nonce : j \in J}
           n == Len(pool)
<1>1. n \in Nat /\ DOMAIN pool = 1..n
  OBVIOUS
<1>2. IsFiniteSet(J) /\ Cardinality(J) <= n
  <2>1. IsFiniteSet(1..n) /\ Cardinality(1..n) = n /\ J \subseteq 1..n
    BY <1>1, FS_Interval
  <2> HIDE DEF J
  <2>2. QED BY <2>1, FS_Subset
<1>3. F \in Surjection(J, T)
  BY DEF Surjection
<1>4. IsFiniteSet(T) /\ Cardinality(T) <= Cardinality(J)
  <2> HIDE DEF J, F, T
  <2>1. QED BY <1>2, <1>3, FS_Surjection
<1>5. Cardinality(T) <= n
  <2>1. Cardinality(T) \in Nat /\ Cardinality(J) \in Nat
    BY <1>2, <1>4, FS_CardinalityType
  <2>2. QED BY <1>1, <1>2, <1>4, <2>1
<1>6. \E i \in 1..(n + 1) : i \notin T /\ 1..(i - 1) \subseteq T
  <2> HIDE DEF T, n
  <2>1. QED BY <1>1, <1>4, <1>5, FreeNumber
<1>7. PendingNonce(a) = CHOOSE i \in 1..(n + 1) : i \notin T /\ 1..(i - 1) \subseteq T
  BY DEF PendingNonce
<1>8. PendingNonce(a) \in 1..(n + 1) /\ PendingNonce(a) \notin T
  <2> HIDE DEF T, n
  <2>1. QED BY <1>6, <1>7
<1>9. QED BY <1>1, <1>8

LEMMA NonceKeeps ==
  ASSUME VInv, NEW c \in Callers, Nonce(c)
  PROVE  VInv'
<1> DEFINE d == call[c]
           v == IF d.opt.nonce # None THEN None ELSE PendingNonce(d.from)
           r == Fill(d, "nonce", v)
           q == IF d.opt.nonce # None THEN r ELSE [r EXCEPT !.seen = Len(pool)]
           e == At(q, "fee")
<1>1. /\ d \in Calls /\ Good(net, d) /\ NonceWasFree(net, pool, d) /\ pool \in Seq(Sent)
      /\ Step(c, "nonce", e) /\ d.pc = "nonce" /\ (d.opt.nonce = None => d.from # None)
  BY CallOf DEF Nonce, Step
<1>2. /\ d.opt \in Options /\ d.p \in Options /\ d.p = Part(d, {"gas"}) /\ net = "eth"
      /\ d.opt.gas # None
  BY <1>1 DEF Good, Progress, Calls
<1> HIDE DEF d
<1>3. d.opt["nonce"] # None \/ v \in Int
  BY <1>1, PendingNonceIsFree
<1>4. /\ r \in Calls /\ Same(d, r) /\ r.seen = d.seen
      /\ r.opt = [d.opt EXCEPT !["nonce"] = IF d.opt["nonce"] # None THEN @ ELSE v]
      /\ r.p = [d.p EXCEPT !["nonce"] = IF d.opt["nonce"] # None THEN d.opt["nonce"] ELSE v]
      /\ r.opt["nonce"] # None
  <2> HIDE DEF v
  <2>1. d \in Calls /\ "nonce" \in Fields
    BY <1>1 DEF Fields
  <2>2. QED BY <1>3, <2>1, FillTyped, SMTT(30)
<1> HIDE DEF r
<1>5. /\ q \in Calls /\ Same(r, q) /\ q.opt = r.opt /\ q.p = r.p
      /\ q.seen = IF d.opt.nonce # None THEN d.seen ELSE Len(pool)
  BY <1>1, <1>4 DEF Calls, Same
<1> HIDE DEF q
<1>6. e \in Calls /\ Same(q, e) /\ e.pc = "fee" /\ e.opt = q.opt /\ e.p = q.p
      /\ e.seen = q.seen
  BY <1>5, AtTyped
<1> HIDE DEF e
<1>7. /\ e.opt.gas = d.opt.gas /\ e.opt.nonce # None
      /\ e.opt.nonce = IF d.opt.nonce # None THEN d.opt.nonce ELSE PendingNonce(d.from)
      /\ d.opt.nonce # None => e.opt = d.opt
  BY <1>2, <1>4, <1>5, <1>6 DEF Options, Fields
<1>8. e.p = Part(e, {"gas", "nonce"})
  BY <1>2, <1>4, <1>5, <1>6 DEF Options, Fields, Part
<1>9. Same(d, e)
  BY <1>4, <1>5, <1>6 DEF Same
<1>10. Progress(net, e)
  BY <1>2, <1>6, <1>7, <1>8 DEF Progress
<1>11. d.round = 2 => e.opt = d.opt
  BY <1>1, <1>2, <1>7 DEF Good, SignedAsBuilt, Complete
<1>12. NonceWasFree(net, pool, e)
  <2>1. CASE d.opt.nonce # None
    <3>1. e.opt.nonce = d.opt.nonce /\ e.seen = d.seen
      BY <1>5, <1>6, <1>7, <2>1
    <3>2. QED BY <1>1, <1>6, <1>9, <3>1, NonceKept
  <2>2. CASE d.opt.nonce = None
    <3>1. /\ e.seen = Len(pool) /\ e.opt.nonce = PendingNonce(d.from)
          /\ e.from = d.from /\ e.from # None
      BY <1>1, <1>5, <1>6, <1>7, <1>9, <2>2 DEF Same
    <3>2. \A i \in 1..Len(pool) : pool[i].sender = e.from
                                    => pool[i].tx.values.nonce # e.opt.nonce
      BY <1>1, <3>1, PendingNonceIsFree
    <3>3. QED BY <1>1, <1>6, <3>1, <3>2 DEF NonceWasFree
  <2>3. QED BY <2>1, <2>2
<1>13. QED BY <1>1, <1>6, <1>9, <1>10, <1>11, <1>12, HandlerStep DEF d


-----------------------------------------------------------------------------
(* The fees.                                                               *)

\* What the handler of Ethereum signs of e is what its options name.
PartsBuilt(e) ==
  /\ e.p.gas = e.opt.gas /\ e.p.nonce = e.opt.nonce /\ e.p.time = None
  /\ e.p.price = e.opt.price
  /\ e.opt.price = None => e.p.tip = e.opt.tip /\ e.p.cap = e.opt.cap

LEMMA ReadyWhenBuilt ==
  ASSUME NEW e \in Calls, PartsBuilt(e), Complete("eth", e)
  PROVE  Progress("eth", [e EXCEPT !.pc = "ready"])
<1> DEFINE r == [e EXCEPT !.pc = "ready"]
           values == IF r.p.price # None THEN [r.p EXCEPT !.tip = None, !.cap = None] ELSE r.p
<1>1. r.pc = "ready" /\ r.p = e.p /\ r.opt = e.opt /\ r.from = e.from
  BY DEF Calls
<1>2. e.p \in Options /\ e.opt \in Options
  BY DEF Calls
<1> HIDE DEF r
<1>3. Complete("eth", r)
  BY <1>1 DEF Complete, FeesMissing, PriceAndCaps
<1>4. values = Part(r, OptionsSigned("eth", r))
  <2>1. CASE e.opt.price # None
    <3>1. values = [e.p EXCEPT !.tip = None, !.cap = None]
      BY <1>1, <2>1 DEF PartsBuilt
    <3>2. OptionsSigned("eth", r) = {"gas", "nonce", "price"}
      BY <1>1, <2>1 DEF OptionsSigned
    <3>3. ASSUME NEW f \in Fields
          PROVE  values[f] = IF f \in {"gas", "nonce", "price"} THEN e.opt[f] ELSE None
      BY <1>2, <3>1, ZenonT(60) DEF PartsBuilt, Options, Fields
    <3>4. values \in [Fields -> Optional(Int)]
      BY <1>2, <3>1 DEF Options, Optional
    <3>5. QED BY <1>1, <3>2, <3>3, <3>4 DEF Part
  <2>2. CASE e.opt.price = None
    <3>1. values = e.p
      BY <1>1, <2>2 DEF PartsBuilt
    <3>2. OptionsSigned("eth", r) = {"gas", "nonce", "tip", "cap"}
      BY <1>1, <2>2 DEF OptionsSigned
    <3>3. ASSUME NEW f \in Fields
          PROVE  values[f] = IF f \in {"gas", "nonce", "tip", "cap"} THEN e.opt[f] ELSE None
      BY <2>2, <3>1 DEF PartsBuilt, Fields
    <3>4. QED BY <1>1, <1>2, <3>1, <3>2, <3>3 DEF Part, Options
  <2>3. QED BY <2>1, <2>2
<1>5. QED BY <1>1, <1>3, <1>4 DEF Progress, Built, r

LEMMA FeesGivenAre ==
  ASSUME NEW d \in Calls, d.p = Part(d, {"gas", "nonce"})
  PROVE  LET q == FeesGiven(d) IN
         /\ q \in Calls /\ Same(d, q) /\ q.pc = d.pc /\ q.seen = d.seen /\ q.opt = d.opt
         /\ q.p = Part(d, {"gas", "nonce", "price", "tip", "cap"})
<1> DEFINE o == [f \in Fields |-> IF f \in {"price", "tip", "cap"} THEN d.opt[f] ELSE d.p[f]]
<1>1. d.opt \in Options /\ d.p \in Options
  BY DEF Calls
<1>2. FeesGiven(d) = [d EXCEPT !.p = o]
  BY DEF FeesGiven, Calls
<1>3. o = Part(d, {"gas", "nonce", "price", "tip", "cap"})
  BY DEF Part
<1>4. o \in Options
  BY <1>1 DEF Options
<1> HIDE DEF o
<1>5. QED BY <1>2, <1>3, <1>4 DEF Calls, Same

\* The fees that are filled in, if no price excludes the caps.
LEMMA FeesAre ==
  ASSUME NEW d \in Calls, d.p = Part(d, {"gas", "nonce"}), base \in Nat
  PROVE  LET u == Fees(d) IN
         /\ u \in Calls /\ Same(d, u) /\ u.pc = d.pc /\ u.seen = d.seen
         /\ u.opt.gas = d.opt.gas /\ u.opt.nonce = d.opt.nonce
         /\ ~ FeesMissing(d) => u.opt = d.opt
         /\ PartsBuilt(u) /\ ~ FeesMissing(u)
         /\ ~ PriceAndCaps(d) => ~ PriceAndCaps(u)
<1> DEFINE q == FeesGiven(d)
<1>1. /\ q \in Calls /\ Same(d, q) /\ q.pc = d.pc /\ q.seen = d.seen /\ q.opt = d.opt
      /\ q.p = Part(d, {"gas", "nonce", "price", "tip", "cap"})
  BY FeesGivenAre
<1>2. d.opt \in Options /\ q.p \in Options
  BY <1>1 DEF Calls
<1>3. /\ q.p.gas = d.opt.gas /\ q.p.nonce = d.opt.nonce /\ q.p.time = None
      /\ q.p.price = d.opt.price /\ q.p.tip = d.opt.tip /\ q.p.cap = d.opt.cap
  BY <1>1 DEF Part, Fields
<1>4. "price" \in Fields /\ "tip" \in Fields /\ "cap" \in Fields
  BY DEF Fields
<1> HIDE DEF q
<1>5. CASE ~ FeesMissing(d)
  <2>1. Fees(d) = q
    BY <1>5 DEF Fees, q
  <2>2. PartsBuilt(q)
    BY <1>1, <1>3 DEF PartsBuilt
  <2>3. QED BY <1>1, <1>5, <2>1, <2>2 DEF FeesMissing, PriceAndCaps
<1>6. CASE FeesMissing(d) /\ base = 0
  <2> DEFINE r == Fill(q, "price", SuggestedPrice)
             o == [r.opt EXCEPT !.tip = None, !.cap = None]
             u == [r EXCEPT !.opt = o]
  <2>1. d.opt.price = None
    BY <1>6 DEF FeesMissing
  <2>2. /\ r \in Calls /\ Same(q, r) /\ r.pc = q.pc /\ r.seen = q.seen
        /\ r.opt = [q.opt EXCEPT !["price"] = SuggestedPrice]
        /\ r.p = [q.p EXCEPT !["price"] = SuggestedPrice]
    BY <1>1, <1>4, <2>1, FillTyped DEF SuggestedPrice
  <2>3. Fees(d) = u
    BY <1>6, <2>2 DEF Fees, LegacyFees, q, Calls
  <2> HIDE DEF r
  <2>4. r.opt \in Options /\ SuggestedPrice \in Int /\ SuggestedPrice # None
    BY <2>2, NoneIsNoNumber DEF Calls, SuggestedPrice
  <2>5. /\ o \in Options /\ o.tip = None /\ o.cap = None /\ o.price = SuggestedPrice
        /\ o.gas = d.opt.gas /\ o.nonce = d.opt.nonce
    <3>1. r.opt.price = SuggestedPrice /\ r.opt.gas = d.opt.gas /\ r.opt.nonce = d.opt.nonce
      BY <1>1, <1>2, <2>2 DEF Options, Fields
    <3>2. None \in Optional(Int)
      BY DEF Optional
    <3>3. o \in Options
      BY <2>4, <3>2 DEF Options
    <3>4. QED BY <2>4, <3>1, <3>3 DEF Options, Fields
  <2> HIDE DEF o
  <2>6. /\ u \in Calls /\ Same(r, u) /\ u.pc = r.pc /\ u.seen = r.seen /\ u.opt = o
        /\ u.p = r.p
    BY <2>2, <2>5 DEF Calls, Same
  <2> HIDE DEF u
  <2>7. /\ u.p.gas = q.p.gas /\ u.p.nonce = q.p.nonce /\ u.p.time = q.p.time
        /\ u.p.price = SuggestedPrice
    BY <1>2, <2>2, <2>6 DEF Options, Fields
  <2>8. PartsBuilt(u)
    BY <1>3, <2>4, <2>5, <2>6, <2>7 DEF PartsBuilt
  <2>9. ~ FeesMissing(u) /\ ~ PriceAndCaps(u)
    BY <2>4, <2>5, <2>6 DEF FeesMissing, PriceAndCaps
  <2>10. Same(d, u)
    BY <1>1, <2>2, <2>6 DEF Same
  <2>11. QED BY <1>1, <1>6, <2>2, <2>3, <2>5, <2>6, <2>8, <2>9, <2>10
<1>7. CASE FeesMissing(d) /\ base # 0
  <2> DEFINE t == Fill(q, "tip", SuggestedTip)
             v == t.p.tip + 2 * base
             u == Fill(t, "cap", v)
  <2>1. d.opt.price = None
    BY <1>7 DEF FeesMissing
  <2>2. Fees(d) = u
    BY <1>7 DEF Fees, DynamicFees, q
  <2>3. /\ t \in Calls /\ Same(q, t) /\ t.pc = q.pc /\ t.seen = q.seen
        /\ t.opt = [q.opt EXCEPT !["tip"] = IF q.opt["tip"] # None THEN @ ELSE SuggestedTip]
        /\ t.p = [q.p EXCEPT !["tip"] = IF q.opt["tip"] # None THEN q.opt["tip"]
                                       ELSE SuggestedTip]
        /\ t.opt["tip"] # None
    <3>1. SuggestedTip \in Int
      BY DEF SuggestedTip
    <3>2. q \in Calls /\ "tip" \in Fields
      BY <1>1, <1>4
    <3>3. QED BY <3>1, <3>2, FillTyped
  <2> HIDE DEF t
  <2>4. /\ t.opt.price = None /\ t.p.price = None /\ t.p.tip = t.opt.tip /\ t.opt.tip # None
        /\ t.p.cap = d.opt.cap /\ t.opt.cap = d.opt.cap
        /\ t.opt.gas = d.opt.gas /\ t.p.gas = d.opt.gas /\ t.opt.nonce = d.opt.nonce
        /\ t.p.nonce = d.opt.nonce /\ t.p.time = None
    BY <1>1, <1>2, <1>3, <2>1, <2>3 DEF Options, Fields
  <2>5. t.opt \in Options /\ t.p \in Options
    BY <2>3 DEF Calls
  <2>6. v \in Int
    <3>1. t.p.tip \in Int
      BY <2>4, <2>5 DEF Options, Optional, Fields
    <3>2. QED BY <3>1
  <2> HIDE DEF v
  <2>7. /\ u \in Calls /\ Same(t, u) /\ u.pc = t.pc /\ u.seen = t.seen
        /\ u.opt = [t.opt EXCEPT !["cap"] = IF t.opt["cap"] # None THEN @ ELSE v]
        /\ u.p = [t.p EXCEPT !["cap"] = IF t.opt["cap"] # None THEN t.opt["cap"] ELSE v]
        /\ u.opt["cap"] # None
    <3>1. t \in Calls /\ "cap" \in Fields
      BY <1>4, <2>3
    <3>2. QED BY <2>6, <3>1, FillTyped
  <2> HIDE DEF u
  <2>8. /\ u.opt.price = None /\ u.p.price = None /\ u.p.tip = u.opt.tip /\ u.opt.tip # None
        /\ u.p.cap = u.opt.cap
        /\ u.opt.gas = d.opt.gas /\ u.p.gas = d.opt.gas /\ u.opt.nonce = d.opt.nonce
        /\ u.p.nonce = d.opt.nonce /\ u.p.time = None
    BY <2>4, <2>5, <2>7 DEF Options, Fields
  <2>9. PartsBuilt(u) /\ ~ FeesMissing(u) /\ ~ PriceAndCaps(u)
    BY <2>7, <2>8 DEF PartsBuilt, FeesMissing, PriceAndCaps
  <2>10. Same(d, u)
    BY <1>1, <2>3, <2>7 DEF Same
  <2>11. QED BY <1>1, <1>7, <2>2, <2>3, <2>7, <2>8, <2>9, <2>10
<1>8. QED BY <1>5, <1>6, <1>7

LEMMA FeeKeeps ==
  ASSUME VInv, NEW c \in Callers, Fee(c)
  PROVE  VInv'
<1> DEFINE d == call[c]
           u == Fees(d)
           pc == IF PriceAndCaps(d) \/ CapBelowTip(u) THEN "invalid" ELSE "ready"
           e == At(u, pc)
<1>1. CASE FeesMissing(d) /\ Step(c, "fee", At(d, "failed"))
  BY <1>1, GivesUp
<1>2. CASE Step(c, "fee", e)
  <2>1. /\ d \in Calls /\ Good(net, d) /\ NonceWasFree(net, pool, d) /\ base \in Nat
        /\ d.pc = "fee"
    BY <1>2, CallOf DEF Step
  <2>2. d.p = Part(d, {"gas", "nonce"}) /\ net = "eth" /\ d.opt.gas # None
        /\ d.opt.nonce # None
    BY <2>1 DEF Good, Progress
  <2> HIDE DEF d
  <2>3. /\ u \in Calls /\ Same(d, u) /\ u.seen = d.seen
        /\ u.opt.gas = d.opt.gas /\ u.opt.nonce = d.opt.nonce
        /\ ~ FeesMissing(d) => u.opt = d.opt
        /\ PartsBuilt(u) /\ ~ FeesMissing(u)
        /\ ~ PriceAndCaps(d) => ~ PriceAndCaps(u)
    BY <2>1, <2>2, FeesAre
  <2> HIDE DEF u
  <2>4. pc \in {"invalid", "ready"}
    OBVIOUS
  <2>5. /\ e \in Calls /\ Same(u, e) /\ e.pc = pc /\ e.opt = u.opt /\ e.p = u.p
        /\ e.seen = u.seen
    BY <2>3, <2>4, AtTyped
  <2>6. u.opt.price = None => u.opt.tip \in Int /\ u.opt.cap \in Int
    <3>1. u.opt \in Options
      BY <2>3 DEF Calls
    <3>2. QED BY <2>3, <3>1 DEF Options, Optional, Fields, FeesMissing
  <2>7. d.round = 2 => e.opt = d.opt /\ pc # "invalid"
    <3>1. d.round = 2 => /\ ~ FeesMissing(d) /\ ~ PriceAndCaps(d)
                         /\ d.opt.price = None => d.opt.tip <= d.opt.cap
      BY <2>1, <2>2 DEF Good, SignedAsBuilt, Complete
    <3>2. QED BY <2>3, <2>5, <2>6, <3>1 DEF CapBelowTip, PartsBuilt
  <2>8. d.round \in {1, 2}
    BY <2>1 DEF Calls
  <2>9. Progress(net, e)
    <3>1. CASE pc = "invalid"
      BY <2>5, <3>1 DEF Progress
    <3>2. CASE pc = "ready"
      <4>1. ~ PriceAndCaps(u) /\ ~ CapBelowTip(u)
        BY <2>3, <3>2
      <4>2. u.opt.price = None => u.opt.tip <= u.opt.cap
        BY <2>3, <2>6, <4>1 DEF CapBelowTip, PartsBuilt
      <4>3. Complete("eth", u)
        BY <2>2, <2>3, <4>1, <4>2 DEF Complete
      <4>4. e = [u EXCEPT !.pc = "ready"]
        BY <3>2 DEF At
      <4>5. QED BY <2>2, <2>3, <4>3, <4>4, ReadyWhenBuilt
    <3>3. QED BY <2>4, <3>1, <3>2
  <2> HIDE DEF e
  <2>10. Same(d, e)
    BY <2>3, <2>5 DEF Same
  <2>11. NonceWasFree(net, pool, e)
    <3>1. e.opt.nonce = d.opt.nonce /\ e.seen = d.seen /\ e.pc # "client"
      BY <2>3, <2>4, <2>5
    <3>2. QED BY <2>1, <2>10, <3>1, NonceKept
  <2> HIDE DEF pc
  <2>12. QED BY <1>2, <2>4, <2>5, <2>7, <2>8, <2>9, <2>10, <2>11, HandlerStep DEF d
<1>3. QED BY <1>1, <1>2 DEF Fee


-----------------------------------------------------------------------------
(* Signing and sending.                                                    *)

LEMMA ExpectedIs ==
  ASSUME NEW d \in Calls, Named(d), d.pc # "client",
         d.via = "client" \/ d.from # None
  PROVE  d.from = Expected(d)
<1>1. CASE d.via = "client"
  BY <1>1 DEF Named, Expected
<1>2. CASE d.via = "request"
  BY <1>2, InvokeAssumption DEF Named, Expected
<1>3. QED BY <1>1, <1>2 DEF Calls

LEMMA ReadyIsBuilt ==
  ASSUME NEW d \in Calls, net \in {"eth", "icon"}, Good(net, d), d.pc = "ready"
  PROVE  Tx(d) = Built(net, d) /\ Complete(net, d) /\ Tx(d) \in Transactions
<1>1. Complete(net, d)
  BY DEF Good, Progress
<1>2. Tx(d) = Built(net, d)
  BY DEF Tx, Good, Progress
<1>3. Built(net, d) \in Transactions
  <2>1. d.opt \in Options /\ d.from \in Optional(Addrs)
    BY DEF Calls
  <2>2. Part(d, OptionsSigned(net, d)) \in Options
    BY <2>1 DEF Part, Options, Optional
  <2>3. QED BY <2>1, <2>2 DEF Built, Transactions, Options, Optional
<1>4. QED BY <1>1, <1>2, <1>3

\* The signer that answers signs for the one it is asked for.
LEMMA SignedKeeps ==
  ASSUME VInv, NEW c \in Callers, NEW a \in Addrs, NEW pc \in {"gas", "server"},
         Step(c, "ready", At(Signed(call[c], a), pc)), call[c].sig = None,
         call[c].from = a, call[c].via = "client" \/ pc = "gas"
  PROVE  VInv'
<1> DEFINE d == call[c]
           q == Signed(d, a)
           e == At(q, pc)
<1>1. /\ d \in Calls /\ Good(net, d) /\ NonceWasFree(net, pool, d) /\ d.pc = "ready"
      /\ net \in {"eth", "icon"} /\ d.sig = None /\ d.from = a /\ Step(c, "ready", e)
  BY CallOf DEF Step
<1> HIDE DEF d
<1>2. Tx(d) = Built(net, d) /\ Complete(net, d) /\ Tx(d) \in Transactions
  BY <1>1, ReadyIsBuilt
<1>3. a # None
  BY InvokeAssumption
<1>4. d.from = Expected(d)
  BY <1>1, <1>3, ExpectedIs DEF Good
<1>5. /\ q \in Calls /\ q.via = d.via /\ q.own = d.own /\ q.asked = d.asked
      /\ q.from = d.from /\ q.given = d.given /\ q.old = d.old /\ q.opt = d.opt /\ q.p = d.p
      /\ q.seen = d.seen /\ q.sender = d.sender /\ q.round = 2
      /\ q.sig = [by |-> a, over |-> Tx(d)]
  <2>1. [by |-> a, over |-> Tx(d)] \in Optional([by : Addrs, over : Optional(Transactions)])
    BY <1>2 DEF Optional
  <2>2. QED BY <1>1, <2>1 DEF Signed, Calls
<1> HIDE DEF q
<1>6. /\ e \in Calls /\ Same(q, e) /\ e.pc = pc /\ e.opt = q.opt /\ e.p = q.p
      /\ e.seen = q.seen
  BY <1>5, AtTyped
<1> HIDE DEF e
<1>7. /\ e.via = d.via /\ e.own = d.own /\ e.asked = d.asked /\ e.from = d.from
      /\ e.given = d.given /\ e.old = d.old /\ e.opt = d.opt /\ e.p = d.p /\ e.seen = d.seen
      /\ e.sender = d.sender /\ e.round = 2 /\ e.sig = [by |-> a, over |-> Tx(d)]
      /\ e.pc \in {"gas", "server"}
  BY <1>5, <1>6 DEF Same
<1>8. Named(e)
  BY <1>1, <1>7 DEF Good, Named
<1>9. Expected(e) = Expected(d) /\ Built(net, e) = Built(net, d)
  BY <1>7 DEF Expected, Built, OptionsSigned, Part
<1>10. Complete(net, e)
  BY <1>2, <1>7 DEF Complete, FeesMissing, PriceAndCaps
<1>11. SignedAsBuilt(net, e)
  BY <1>1, <1>2, <1>4, <1>7, <1>9, <1>10 DEF SignedAsBuilt
<1>12. Told(e) /\ Progress(net, e)
  BY <1>1, <1>7 DEF Good, Told, Progress
<1>13. NonceWasFree(net, pool, e)
  BY <1>1, <1>7 DEF NonceWasFree
<1>14. QED BY <1>1, <1>6, <1>8, <1>11, <1>12, <1>13, StepKeeps DEF Good

LEMMA RequireSignatureKeeps ==
  ASSUME VInv, NEW c \in Callers, RequireSignature(c)
  PROVE  VInv'
<1>1. call[c] \in Calls /\ Good(net, call[c]) /\ call[c].sig = None
  BY CallOf DEF RequireSignature
<1>2. CASE key /\ ~ Mismatch(call[c], Server)
  <2>1. Step(c, "ready", At(Signed(call[c], Server), "gas")) /\ call[c].from = Server
    BY <1>2 DEF RequireSignature, Mismatch
  <2>2. Server \in Addrs
    BY InvokeAssumption
  <2>3. QED BY <1>1, <2>1, <2>2, SignedKeeps
<1>3. CASE ~ (key /\ ~ Mismatch(call[c], Server)) /\ call[c].via = "client"
  <2>1. Step(c, "ready", At(Signed(call[c], call[c].own), "server"))
    BY <1>3 DEF RequireSignature
  <2>2. call[c].own \in Addrs /\ call[c].from = call[c].own
    <3>1. call[c].pc = "ready"
      BY <2>1 DEF Step
    <3>2. QED BY <1>1, <1>3, <3>1 DEF Good, Named, Calls
  <2>3. QED BY <1>1, <1>3, <2>1, <2>2, SignedKeeps
<1>4. CASE ~ (key /\ ~ Mismatch(call[c], Server)) /\ call[c].via # "client"
  <2>1. Step(c, "ready", At(call[c], "answered"))
    BY <1>4 DEF RequireSignature
  <2>2. QED BY <2>1, GivesUp
<1>5. QED BY <1>2, <1>3, <1>4


\* The transactions of P are in Q, whatever became of them.
Extends(Q, P) ==
  /\ Q \in Seq(Sent) /\ Len(P) <= Len(Q)
  /\ \A i \in 1..Len(P) : /\ Q[i].sender = P[i].sender /\ Q[i].tx = P[i].tx
                          /\ Q[i].seen = P[i].seen /\ Q[i].explicit = P[i].explicit

LEMMA NonceStaysFree ==
  ASSUME NEW P \in Seq(Sent), NEW Q, Extends(Q, P), NEW n, NEW d \in Calls,
         NonceWasFree(n, P, d)
  PROVE  NonceWasFree(n, Q, d)
<1>1. Len(P) \in Nat /\ Len(Q) \in Nat /\ d.seen \in Nat
  BY DEF Extends, Calls
<1>2. SUFFICES ASSUME n = "eth", "nonce" \notin d.given, d.opt.nonce # None
      PROVE  /\ d.seen <= Len(Q)
             /\ \A i \in 1..d.seen : Q[i].sender = d.from
                                       => Q[i].tx.values.nonce # d.opt.nonce
  BY DEF NonceWasFree
<1>3. /\ d.seen <= Len(P)
      /\ \A i \in 1..d.seen : P[i].sender = d.from => P[i].tx.values.nonce # d.opt.nonce
  BY <1>2 DEF NonceWasFree
<1>4. \A i \in 1..d.seen : i \in 1..Len(P)
  BY <1>1, <1>3
<1>5. QED BY <1>1, <1>3, <1>4 DEF Extends

\* One that was replaced before has its replacer still.
LEMMA StaysReplaced ==
  ASSUME NEW P \in Seq(Sent), NEW Q, Extends(Q, P), Settled(P),
         NEW i \in 1..Len(P), P[i].state = "replaced"
  PROVE  \E j \in (i + 1)..Len(Q) : Replacer(Q, i, j)
<1>1. Len(P) \in Nat /\ Len(Q) \in Nat /\ DOMAIN P = 1..Len(P)
  BY DEF Extends
<1>2. PICK j \in (i + 1)..Len(P) : Replacer(P, i, j)
  BY <1>1 DEF Settled
<1>3. j \in 1..Len(P) /\ j \in (i + 1)..Len(Q)
  BY <1>1, <1>2 DEF Extends
<1>4. Replacer(Q, i, j)
  BY <1>2, <1>3 DEF Extends, Replacer
<1>5. QED BY <1>3, <1>4

LEMMA EnvironmentKeeps ==
  ASSUME VInv, Environment
  PROVE  VInv'
<1>1. net' = net /\ key' = key /\ call' = call /\ Typed /\ pool \in Seq(Sent)
  BY DEF Environment, VInv, Typed
<1>2. base' \in Nat /\ clock' \in Nat
  BY DEF Environment, VInv, Typed
<1>3. \/ pool' = pool
      \/ \E i \in DOMAIN pool : pool' = [pool EXCEPT ![i].state = "mined"]
  BY DEF Environment
<1>4. /\ Extends(pool', pool) /\ Len(pool') = Len(pool)
      /\ \A i \in 1..Len(pool) : pool'[i].state = "replaced" => pool[i].state = "replaced"
  <2>1. CASE pool' = pool
    BY <1>1, <2>1 DEF Extends
  <2>2. CASE \E i \in DOMAIN pool : pool' = [pool EXCEPT ![i].state = "mined"]
    <3>1. PICK i \in DOMAIN pool : pool' = [pool EXCEPT ![i].state = "mined"]
      BY <2>2
    <3>2. pool[i] \in Sent
      BY <1>1
    <3> DEFINE s == [pool[i] EXCEPT !.state = "mined"]
    <3>3. /\ s \in Sent /\ s.sender = pool[i].sender /\ s.tx = pool[i].tx
          /\ s.seen = pool[i].seen /\ s.explicit = pool[i].explicit /\ s.state = "mined"
      BY <3>2 DEF Sent
    <3>4. pool' = [pool EXCEPT ![i] = s]
      BY <3>1
    <3> HIDE DEF s
    <3>5. pool' \in Seq(Sent) /\ Len(pool') = Len(pool)
          /\ \A k \in 1..Len(pool) : pool'[k] = IF k = i THEN s ELSE pool[k]
      BY <1>1, <3>3, <3>4
    <3>6. QED BY <1>1, <3>3, <3>5 DEF Extends
  <2>3. QED BY <1>3, <2>1, <2>2
<1>5. Typed'
  BY <1>1, <1>2, <1>4 DEF Typed, Extends
<1>6. Settled(pool')
  <2>1. DOMAIN pool' = 1..Len(pool)
    BY <1>1, <1>4 DEF Extends
  <2>2. QED BY <1>1, <1>4, <2>1, StaysReplaced DEF VInv, Settled
<1>7. ASSUME NEW b \in Callers PROVE Good(net, call[b]) /\ NonceWasFree(net, pool', call[b])
  BY <1>1, <1>4, CallOf, NonceStaysFree
<1>8. QED BY <1>1, <1>5, <1>6, <1>7 DEF VInv

LEMMA SenderIs ==
  ASSUME NEW d \in Calls, net \in {"eth", "icon"}, Good(net, d), d.pc = "ready", d.sig # None
  PROVE  /\ ~ (d.via = "request" /\ d.old) => Sender(d) = Expected(d)
         /\ Sender(d) # "unknown" => Sender(d) = d.from /\ d.from # None
         /\ Sender(d) \in Addrs \cup {"unknown"}
<1>1. Tx(d) = Built(net, d) /\ Tx(d) \in Transactions
  BY ReadyIsBuilt
<1>2. CASE d.round = 2
  <2>1. Sender(d) = Expected(d) /\ d.from = Expected(d)
    BY <1>1, <1>2 DEF Good, SignedAsBuilt, Sender
  <2>2. Expected(d) \in Addrs
    BY InvokeAssumption DEF Calls, Expected, Optional
  <2>3. QED BY <2>1, <2>2, InvokeAssumption
<1>3. CASE d.round = 1
  <2>1. d.via = "request" /\ d.old /\ d.sig = OldSignature(d.own)
    BY <1>3 DEF Good, Named
  <2>2. Sender(d) = "unknown"
    BY <1>1, <2>1, InvokeAssumption DEF Sender, OldSignature
  <2>3. QED BY <2>1, <2>2
<1>4. QED BY <1>2, <1>3 DEF Calls

LEMMA SendKeeps ==
  ASSUME VInv, NEW c \in Callers, SendTransaction(c)
  PROVE  VInv'
<1> DEFINE d == call[c]
           tx == Tx(d)
           sender == Sender(d)
           sent == [d EXCEPT !.sender = sender]
           new == [sender |-> sender, tx |-> tx, state |-> "pending",
                   seen |-> sent.seen, explicit |-> "nonce" \in sent.given]
           Q == [i \in DOMAIN pool |-> IF net = "eth" /\ i \in Pending(sender, tx)
                                       THEN [pool[i] EXCEPT !.state = "replaced"]
                                       ELSE pool[i]]
<1>1. /\ d \in Calls /\ Good(net, d) /\ NonceWasFree(net, pool, d) /\ pool \in Seq(Sent)
      /\ net \in {"eth", "icon"} /\ d.pc = "ready" /\ d.sig # None
      /\ UNCHANGED <<net, key, base, clock>>
  BY CallOf DEF SendTransaction
<1>2. PICK pc \in {"sent", "failed"} :
        /\ call' = [call EXCEPT ![c] = At(sent, pc)]
        /\ pc = "failed" => pool' = pool
        /\ pc = "sent" => Accepted(sender, tx) /\ pool' = Append(Q, new)
  <2>1. CASE Accepted(sender, tx)
    BY <2>1 DEF SendTransaction
  <2>2. CASE ~ Accepted(sender, tx)
    BY <2>2 DEF SendTransaction
  <2>3. QED BY <2>1, <2>2
<1>3. call \in [Callers -> Calls]
  BY DEF VInv, Typed
<1>4. /\ Tx(d) = Built(net, d) /\ Complete(net, d) /\ tx \in Transactions
  BY <1>1, ReadyIsBuilt
<1>5. /\ ~ (d.via = "request" /\ d.old) => sender = Expected(d)
      /\ sender # "unknown" => sender = d.from /\ d.from # None
      /\ sender \in Addrs \cup {"unknown"}
  BY <1>1, SenderIs
<1> HIDE DEF d, sender, tx
<1>6. /\ sent \in Calls /\ sent.via = d.via /\ sent.own = d.own /\ sent.asked = d.asked
      /\ sent.from = d.from /\ sent.given = d.given /\ sent.old = d.old /\ sent.opt = d.opt
      /\ sent.p = d.p /\ sent.sig = d.sig /\ sent.round = d.round /\ sent.seen = d.seen
      /\ sent.sender = sender
  BY <1>1, <1>5 DEF Calls, Optional
<1>7. new.seen = d.seen /\ new.explicit = ("nonce" \in d.given)
  BY <1>6
<1> HIDE DEF sent
<1> DEFINE e == At(sent, pc)
<1>8. /\ e \in Calls /\ Same(sent, e) /\ e.pc = pc /\ e.opt = sent.opt /\ e.p = sent.p
      /\ e.seen = sent.seen
  BY <1>6, AtTyped
<1> HIDE DEF e
<1>9. /\ e.via = d.via /\ e.own = d.own /\ e.asked = d.asked /\ e.from = d.from
      /\ e.given = d.given /\ e.old = d.old /\ e.opt = d.opt /\ e.p = d.p /\ e.seen = d.seen
      /\ e.sig = d.sig /\ e.round = d.round /\ e.sender = sender
      /\ e.pc \in {"sent", "failed"}
  BY <1>6, <1>8 DEF Same
<1>10. Good(net, e)
  <2>1. Named(e)
    BY <1>1, <1>9 DEF Good, Named
  <2>2. Expected(e) = Expected(d) /\ Built(net, e) = Built(net, d)
    BY <1>9 DEF Expected, Built, OptionsSigned, Part
  <2>3. Told(e)
    BY <1>5, <1>9, <2>2 DEF Told
  <2>4. Complete(net, e)
    BY <1>4, <1>9 DEF Complete, FeesMissing, PriceAndCaps
  <2>5. SignedAsBuilt(net, e)
    BY <1>1, <1>9, <2>2, <2>4 DEF Good, SignedAsBuilt
  <2>6. Progress(net, e)
    BY <1>9 DEF Progress
  <2>7. QED BY <2>1, <2>3, <2>5, <2>6 DEF Good
<1>11. NonceWasFree(net, pool, e)
  BY <1>1, <1>9 DEF NonceWasFree
<1>12. /\ Q \in Seq(Sent) /\ Len(Q) = Len(pool)
       /\ \A i \in 1..Len(pool) :
            /\ Q[i].sender = pool[i].sender /\ Q[i].tx = pool[i].tx
            /\ Q[i].seen = pool[i].seen /\ Q[i].explicit = pool[i].explicit
            /\ Q[i].state = "replaced"
                 => pool[i].state = "replaced" \/ (net = "eth" /\ i \in Pending(sender, tx))
  <2>1. Len(pool) \in Nat /\ DOMAIN pool = 1..Len(pool)
    BY <1>1
  <2>2. ASSUME NEW i \in 1..Len(pool)
        PROVE  /\ Q[i] \in Sent
               /\ Q[i].sender = pool[i].sender /\ Q[i].tx = pool[i].tx
               /\ Q[i].seen = pool[i].seen /\ Q[i].explicit = pool[i].explicit
               /\ Q[i].state = "replaced"
                    => pool[i].state = "replaced" \/ (net = "eth" /\ i \in Pending(sender, tx))
    <3>1. pool[i] \in Sent
      BY <1>1
    <3>2. CASE net = "eth" /\ i \in Pending(sender, tx)
      <4>1. Q[i] = [pool[i] EXCEPT !.state = "replaced"]
        BY <2>1, <3>2
      <4>2. QED BY <3>1, <3>2, <4>1 DEF Sent
    <3>3. CASE ~ (net = "eth" /\ i \in Pending(sender, tx))
      <4>1. Q[i] = pool[i]
        BY <2>1, <3>3
      <4>2. QED BY <3>1, <4>1
    <3>4. QED BY <3>2, <3>3
  <2>3. DOMAIN Q = 1..Len(pool)
    BY <2>1
  <2> HIDE DEF Q
  <2>4. Q \in [1..Len(pool) -> Sent]
    <3>1. Q = [i \in 1..Len(pool) |-> Q[i]]
      BY <2>1 DEF Q
    <3>2. QED BY <2>2, <3>1
  <2>5. Q \in Seq(Sent) /\ Len(Q) = Len(pool)
    BY <2>1, <2>4
  <2>6. QED BY <2>2, <2>5
<1> HIDE DEF Q
<1>13. CASE pc = "failed"
  <2>1. /\ Typed' /\ Settled(pool)' /\ pool' = pool
    <3>1. call' \in [Callers -> Calls]
      BY <1>2, <1>3, <1>8 DEF e
    <3>2. QED BY <1>1, <1>2, <1>13, <3>1 DEF VInv, Typed
  <2>2. ASSUME NEW b \in Callers PROVE Good(net, call'[b]) /\ NonceWasFree(net, pool, call'[b])
    <3>1. call'[b] = IF b = c THEN e ELSE call[b]
      BY <1>2, <1>3 DEF e
    <3>2. QED BY <1>10, <1>11, <3>1, CallOf
  <2>3. QED BY <1>1, <2>1, <2>2 DEF VInv
<1>14. CASE pc = "sent"
  <2>1. sender = d.from /\ sender \in Addrs /\ Accepted(sender, tx) /\ pool' = Append(Q, new)
    BY <1>2, <1>5, <1>14 DEF Accepted
  <2>2. new \in Sent
    <3>1. d.seen \in Nat
      BY <1>1 DEF Calls
    <3>2. QED BY <1>4, <1>7, <2>1, <3>1 DEF Sent
  <2>3. /\ pool' \in Seq(Sent) /\ Len(pool') = Len(pool) + 1 /\ pool'[Len(pool) + 1] = new
        /\ \A i \in 1..Len(pool) : pool'[i] = Q[i]
    BY <1>1, <1>12, <2>1, <2>2
  <2>4. Extends(pool', pool)
    BY <1>1, <1>12, <2>3 DEF Extends
  <2>5. Typed'
    <3>1. call' \in [Callers -> Calls]
      BY <1>2, <1>3, <1>8 DEF e
    <3>2. QED BY <1>1, <2>3, <3>1 DEF VInv, Typed
  <2>6. ASSUME NEW b \in Callers PROVE Good(net, call'[b]) /\ NonceWasFree(net, pool', call'[b])
    <3>1. call'[b] = IF b = c THEN e ELSE call[b]
      BY <1>2, <1>3 DEF e
    <3>2. call'[b] \in Calls /\ Good(net, call'[b]) /\ NonceWasFree(net, pool, call'[b])
      BY <1>8, <1>10, <1>11, <3>1, CallOf
    <3>3. QED BY <1>1, <2>4, <3>2, NonceStaysFree
  <2>7. Settled(pool')
    <3>1. SUFFICES ASSUME NEW i \in DOMAIN pool', pool'[i].state = "replaced"
          PROVE  \E j \in (i + 1)..Len(pool') : Replacer(pool', i, j)
      BY DEF Settled
    <3>2. i # Len(pool) + 1
      BY <2>3, <3>1
    <3>3. i \in 1..Len(pool) /\ Len(pool) \in Nat
      BY <1>1, <2>3, <3>1, <3>2
    <3>4. CASE pool[i].state = "replaced"
      BY <1>1, <2>4, <3>3, <3>4, StaysReplaced DEF VInv
    <3>5. CASE net = "eth" /\ i \in Pending(sender, tx)
      <4>1. pool[i].sender = sender /\ pool[i].tx.values.nonce = tx.values.nonce
        BY <3>5 DEF Pending
      <4>2. tx.values.nonce = d.opt.nonce /\ d.opt.nonce # None
        BY <1>4, <3>5 DEF tx, Built, Part, OptionsSigned, Fields, Complete
      <4>3. "nonce" \in d.given \/ d.seen < i
        <5>1. CASE "nonce" \notin d.given
          <6>1. \A k \in 1..d.seen : pool[k].sender = d.from
                                       => pool[k].tx.values.nonce # d.opt.nonce
            BY <1>1, <3>5, <4>2, <5>1 DEF NonceWasFree
          <6>2. i \notin 1..d.seen
            BY <2>1, <4>1, <4>2, <6>1
          <6>3. d.seen \in Nat
            BY <1>1 DEF Calls
          <6>4. QED BY <3>3, <6>2, <6>3
        <5>2. QED BY <5>1
      <4>4. Replacer(pool', i, Len(pool) + 1)
        <5>1. new.sender = sender /\ new.tx = tx
          OBVIOUS
        <5>2. pool'[i].sender = sender /\ pool'[i].tx.values.nonce = tx.values.nonce
          BY <1>12, <2>3, <3>3, <4>1
        <5>3. new.explicit \/ new.seen < i
          BY <1>7, <4>3
        <5> HIDE DEF new
        <5>4. QED BY <2>3, <5>1, <5>2, <5>3 DEF Replacer
      <4>5. Len(pool) + 1 \in (i + 1)..Len(pool')
        BY <2>3, <3>3
      <4>6. QED BY <4>4, <4>5
    <3>6. pool[i].state = "replaced" \/ (net = "eth" /\ i \in Pending(sender, tx))
      BY <1>12, <2>3, <3>1, <3>3
    <3>7. QED BY <3>4, <3>5, <3>6
  <2>8. QED BY <1>1, <2>5, <2>6, <2>7 DEF VInv
<1>15. QED BY <1>2, <1>13, <1>14

-----------------------------------------------------------------------------

LEMMA AskingIsGood ==
  ASSUME NEW r \in Requests, NEW n \in {"eth", "icon"}, NEW P
  PROVE  Asking(r) \in Calls /\ Good(n, Asking(r)) /\ NonceWasFree(n, P, Asking(r))
<1> DEFINE d == Asking(r)
<1>1. /\ r.via \in {"client", "request"} /\ r.own \in Addrs /\ r.from \in Optional(Addrs)
      /\ r.given \in SUBSET Fields /\ r.old \in BOOLEAN
  BY InvokeAssumption
<1>2. d.opt \in Options /\ d.p \in Options
  <2>1. \A f \in Fields : GivenValue[f] \in Int
    BY DEF Fields, GivenValue
  <2>2. QED BY <2>1 DEF Asking, Options, Optional, Empty
<1>3. d.sig \in Optional([by : Addrs, over : Optional(Transactions)])
  BY <1>1 DEF Asking, OldSignature, Optional
<1>4. d \in Calls
  BY <1>1, <1>2, <1>3 DEF Asking, Calls, Optional
<1>5. /\ d.pc = "client" /\ d.round = 1 /\ d.sender = None /\ d.from = d.asked
      /\ d.via = r.via /\ d.old = r.old /\ d.own = r.own /\ d.given = r.given
      /\ d.sig = IF r.old THEN OldSignature(r.own) ELSE None
      /\ "nonce" \notin r.given => d.opt.nonce = None
  BY DEF Asking, Fields
<1>6. Progress(n, d) /\ SignedAsBuilt(n, d) /\ Told(d)
  BY <1>5 DEF Progress, SignedAsBuilt, Told
<1>7. Named(d)
  BY <1>1, <1>5 DEF Named
<1>8. NonceWasFree(n, P, d)
  BY <1>5 DEF NonceWasFree
<1>9. QED BY <1>4, <1>6, <1>7, <1>8 DEF Good

LEMMA VInit == InitInvoke => VInv
<1> SUFFICES ASSUME InitInvoke PROVE VInv
  OBVIOUS
<1>1. net \in {"eth", "icon"} /\ key \in BOOLEAN /\ base = 0 /\ clock = 1 /\ pool = <<>>
  BY InvokeAssumption DEF InitInvoke
<1>2. PICK asks \in [Callers -> Requests] : call = [c \in Callers |-> Asking(asks[c])]
  BY DEF InitInvoke
<1>3. ASSUME NEW c \in Callers
      PROVE  call[c] \in Calls /\ Good(net, call[c]) /\ NonceWasFree(net, pool, call[c])
  BY <1>1, <1>2, AskingIsGood
<1>4. call \in [Callers -> Calls]
  BY <1>2, <1>3
<1>5. Settled(pool)
  BY <1>1 DEF Settled
<1>6. QED BY <1>1, <1>3, <1>4, <1>5 DEF VInv, Typed

LEMMA VStep == VInv /\ [NextInvoke]_invokeVars => VInv'
<1> SUFFICES ASSUME VInv, [NextInvoke]_invokeVars PROVE VInv'
  OBVIOUS
<1>1. CASE Environment
  BY <1>1, EnvironmentKeeps
<1>2. CASE UNCHANGED invokeVars
  BY <1>2 DEF VInv, Typed, invokeVars
<1>3. CASE \E c \in Callers : \/ ClientPrepares(c) \/ ServerPrepares(c) \/ Gas(c) \/ Time(c)
                              \/ Nonce(c) \/ FromMissing(c) \/ Fee(c) \/ RequireSignature(c)
                              \/ SendTransaction(c)
  BY <1>3, ClientPreparesKeeps, ServerPreparesKeeps, GasKeeps, TimeKeeps, NonceKeeps,
     FromMissingKeeps, FeeKeeps, RequireSignatureKeeps, SendKeeps
<1>4. QED BY <1>1, <1>2, <1>3 DEF NextInvoke

LEMMA VAlways == SpecInvoke => []VInv
<1>1. QED BY VInit, VStep, PTL DEF SpecInvoke

\* Whatever options a caller gives, whoever signs and whatever happens in between, the
\* transaction that reaches the node is recovered to the one it was asked for (invoke of
\* api/client.go, Invoke of service/signer.go and of both handlers).
THEOREM TransactionIsSentAsAsked == SpecInvoke => []SentAsAsked
<1>1. VInv => SentAsAsked
  BY DEF VInv, Good, Told, SentAsAsked
<1>2. QED BY <1>1, VAlways, PTL

\* A handler takes the options that it answered with a RequireSignatureError as they are
\* (Invoke of contract/eth/handler.go and contract/icon/handler.go).
THEOREM FilledOptionsAreAccepted == SpecInvoke => []InvalidOnlyAtFirst
<1>1. VInv => InvalidOnlyAtFirst
  BY DEF VInv, Good, Told, InvalidOnlyAtFirst
<1>2. QED BY <1>1, VAlways, PTL

\* A pending transaction gives way only to a call that named its nonce or asked for one
\* before it was accepted (nonce of contract/eth/handler.go).
THEOREM ReplacedByRaceOnly == SpecInvoke => []ReplacedOnlyByRace
<1>1. VInv => ReplacedOnlyByRace
  BY DEF VInv, Settled, Replacer, ReplacedOnlyByRace
<1>2. QED BY <1>1, VAlways, PTL
=============================================================================
