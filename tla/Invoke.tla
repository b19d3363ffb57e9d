-------------------------------- MODULE Invoke --------------------------------
(***************************************************************************)
(* A transaction from its options to the pool of a node: Client.invoke     *)
(* (api/client.go), SignerService.Invoke (service/signer.go) and the       *)
(* Invoke handlers of both adaptors (contract/eth/handler.go,              *)
(* contract/icon/handler.go).                                              *)
(*                                                                         *)
(* A handler that is given no signature fills in the options that are left *)
(* out, answers RequireSignatureError with what is to be signed and the    *)
(* filled options, and is invoked again with these and a signature.  The   *)
(* transaction is built anew then, and the node recovers its sender from   *)
(* the signature: it is the right one if both were built alike.            *)
(***************************************************************************)
EXTENDS Integers, Sequences, FiniteSets

CONSTANTS
  Callers,   \* one Invoke each
  Addrs,     \* addresses of wallets
  Server,    \* the address of the signer of the server, one of Addrs
  Networks,  \* of {"eth", "icon"}
  Requests,  \* what callers ask for: [via : {"client", "request"}, own : Addrs,
             \* from : Addrs \cup {None}, given : SUBSET Fields, old : BOOLEAN]
  None

Fields == {"nonce", "gas", "price", "tip", "cap", "time"}

Optional(S) == S \cup {None}

Transactions == [from : Optional(Addrs), values : [Fields -> Optional(Int)]]

ASSUME InvokeAssumption ==
  /\ Server \in Addrs /\ Networks \subseteq {"eth", "icon"}
  /\ None \notin Addrs /\ None \notin Int /\ None \notin Transactions
  /\ Requests \subseteq [via : {"client", "request"}, own : Addrs, from : Optional(Addrs),
                         given : SUBSET Fields, old : BOOLEAN]

VARIABLES
  net,    \* the type of the network
  key,    \* whether the server has a signer for it
  base,   \* the base fee, 0 before the network has one
  clock,  \* the time in microseconds
  call,   \* by caller
  pool    \* the transactions the node accepted, in that order

invokeVars == <<net, key, base, clock, call, pool>>

-----------------------------------------------------------------------------
(* Options and transactions.                                               *)

\* The values callers give and nodes suggest.
GivenValue  == [nonce |-> 1, gas |-> 1, price |-> 2, tip |-> 2, cap |-> 1, time |-> 0]
SuggestedTip == 1
SuggestedPrice == 1
DefaultGas == 2

Empty == [f \in Fields |-> None]

\* What is signed and sent: a price makes it a LegacyTx, which has no caps; a
\* transaction of ICON names its sender.
Tx(c) ==
  LET p == c.p IN
  [from |-> IF net = "icon" THEN c.from ELSE None,
   values |-> IF p.price # None THEN [p EXCEPT !.tip = None, !.cap = None] ELSE p]

\* A signature left over from another transaction.
OldSignature(a) == [by |-> a, over |-> None]

Sender(c) == IF c.sig.over = Tx(c) THEN c.sig.by ELSE "unknown"

\* A call before it is prepared: opt are the options, p the transaction under
\* construction, seen the length of the pool when a nonce was asked for.
Asking(r) ==
  [via |-> r.via, own |-> r.own, asked |-> r.from, from |-> r.from,
   given |-> r.given, old |-> r.old,
   sig |-> IF r.old THEN OldSignature(r.own) ELSE None,
   opt |-> [f \in Fields |-> IF f \in r.given THEN GivenValue[f] ELSE None],
   p |-> Empty, pc |-> "client", round |-> 1, seen |-> 0, sender |-> None]

InitInvoke ==
  /\ net \in Networks /\ key \in BOOLEAN
  /\ base = 0 /\ clock = 1 /\ pool = <<>>
  /\ \E asks \in [Callers -> Requests] : call = [c \in Callers |-> Asking(asks[c])]

-----------------------------------------------------------------------------
(* The signers.                                                            *)

PreparedOnly(c, address, force) ==
  [c EXCEPT !.from = IF force \/ @ = None THEN address ELSE @]

\* An address where there is none; by force it replaces one, and a signature.
PrepareToSign(c, address, force) ==
  [c EXCEPT !.from = IF force \/ @ = None THEN address ELSE @,
            !.sig = IF force THEN None ELSE @]

\* Sign signs for its own address only.
Mismatch(c, address) == c.from # address

Signed(c, address) ==
  [c EXCEPT !.sig = [by |-> address, over |-> Tx(c)], !.round = 2]

Step(c, from, next) ==
  /\ call[c].pc = from
  /\ call' = [call EXCEPT ![c] = next]
  /\ UNCHANGED <<net, key, base, clock, pool>>

At(c, pc) == [c EXCEPT !.pc = pc]

\* Client.invoke up to the request; somebody else posts the options as they are.
ClientPrepares(c) ==
  Step(c, "client",
       At(IF call[c].via = "client" THEN PrepareToSign(call[c], call[c].own, TRUE)
          ELSE call[c], "server"))

\* SignerService.Invoke up to the handler, where there is a signer.
ServerPrepares(c) ==
  Step(c, "server",
       At(IF key THEN PrepareToSign(call[c], Server, FALSE) ELSE call[c], "gas"))

-----------------------------------------------------------------------------
(* The handlers.                                                           *)

\* An option that is given is taken, one that is not is stored in the options too.
Fill(c, f, value) ==
  IF c.opt[f] # None THEN [c EXCEPT !.p[f] = c.opt[f]]
  ELSE [c EXCEPT !.p[f] = value, !.opt[f] = value]

\* The limit of gas or steps; the request of an estimate may fail.
Gas(c) ==
  \/ /\ net = "icon" => call[c].from # None
     /\ Step(c, "gas", At(Fill([call[c] EXCEPT !.p = Empty], "gas", DefaultGas),
                          IF net = "icon" THEN "time" ELSE "nonce"))
  \/ call[c].opt.gas = None /\ Step(c, "gas", At(call[c], "failed"))

Time(c) == Step(c, "time", At(Fill(call[c], "time", clock), "ready"))

\* NonceAt, the one after the mined transactions.
MinedNonce(a) ==
  1 + Cardinality({i \in DOMAIN pool : pool[i].sender = a /\ pool[i].state = "mined"})

\* PendingNonceAt: the first nonce of an address that no transaction has taken.
PendingNonce(a) ==
  LET taken == {pool[i].tx.values.nonce : i \in {j \in DOMAIN pool : pool[j].sender = a}}
  IN  CHOOSE n \in 1..(Len(pool) + 1) : n \notin taken /\ 1..(n - 1) \subseteq taken

Nonce(c) ==
  \/ /\ call[c].opt.nonce # None
     /\ Step(c, "nonce", At(Fill(call[c], "nonce", None), "fee"))
  \/ /\ call[c].opt.nonce = None /\ call[c].from # None
     /\ Step(c, "nonce",
             At([Fill(call[c], "nonce", PendingNonce(call[c].from))
                   EXCEPT !.seen = Len(pool)], "fee"))

\* 'from' is required by ICON, and by Ethereum to find out a nonce.
FromMissing(c) ==
  /\ call[c].from = None
  /\ \/ net = "icon" /\ Step(c, "gas", At(call[c], "invalid"))
     \/ call[c].opt.nonce = None /\ Step(c, "nonce", At(call[c], "invalid"))

\* The fees as they are given; a price excludes the caps.
FeesGiven(c) ==
  [c EXCEPT !.p = [f \in Fields |-> IF f \in {"price", "tip", "cap"} THEN c.opt[f] ELSE @[f]]]

PriceAndCaps(c) == c.opt.price # None /\ (c.opt.tip # None \/ c.opt.cap # None)

FeesMissing(c) == c.opt.price = None /\ (c.opt.tip = None \/ c.opt.cap = None)

DynamicFees(c) ==
  LET t == Fill(FeesGiven(c), "tip", SuggestedTip)
  IN  Fill(t, "cap", t.p.tip + 2 * base)

LegacyKeepsCaps(c) == Fill(FeesGiven(c), "price", SuggestedPrice)

\* Before the base fee: a price, and the caps are cleared from the options.
LegacyFees(c) ==
  [Fill(FeesGiven(c), "price", SuggestedPrice) EXCEPT !.opt.tip = None, !.opt.cap = None]

Fees(c) == IF ~ FeesMissing(c) THEN FeesGiven(c)
           ELSE IF base = 0 THEN LegacyFees(c) ELSE DynamicFees(c)

CapBelowTip(c) == c.p.price = None /\ c.p.cap < c.p.tip

Fee(c) ==
  \/ FeesMissing(call[c]) /\ Step(c, "fee", At(call[c], "failed"))
  \/ LET filled == Fees(call[c]) IN
     Step(c, "fee", At(filled, IF PriceAndCaps(call[c]) \/ CapBelowTip(filled)
                               THEN "invalid" ELSE "ready"))

\* Without a signature the handler asks for one: the signer of the server signs
\* for itself, or else the caller is answered, and the client signs for itself.
RequireSignature(c) ==
  LET asked == call[c] IN
  /\ asked.sig = None
  /\ Step(c, "ready",
       IF key /\ ~ Mismatch(asked, Server) THEN At(Signed(asked, Server), "gas")
       ELSE IF asked.via = "client" THEN At(Signed(asked, asked.own), "server")
       ELSE At(asked, "answered"))

\* The node: an unknown sender has no funds, a mined nonce is too low, a pending
\* one is replaced by a higher fee only, and a price cap needs a base fee.
MaxFee(tx) == IF tx.values.price # None THEN tx.values.price ELSE tx.values.cap

Pending(sender, tx) ==
  {i \in DOMAIN pool : /\ pool[i].sender = sender /\ pool[i].state = "pending"
                       /\ pool[i].tx.values.nonce = tx.values.nonce}

Accepted(sender, tx) ==
  /\ sender # "unknown"
  /\ net = "icon" => sender = tx.from
  /\ net = "eth" =>
       /\ tx.values.price = None => base > 0
       /\ tx.values.nonce >= MinedNonce(sender)
       /\ \A i \in Pending(sender, tx) : MaxFee(pool[i].tx) < MaxFee(tx)

SendTransaction(c) ==
  LET tx == Tx(call[c])
      sender == Sender(call[c])
      sent == [call[c] EXCEPT !.sender = sender]
  IN  /\ call[c].pc = "ready" /\ call[c].sig # None
      /\ IF Accepted(sender, tx)
         THEN /\ pool' = Append([i \in DOMAIN pool |->
                           IF net = "eth" /\ i \in Pending(sender, tx)
                           THEN [pool[i] EXCEPT !.state = "replaced"] ELSE pool[i]],
                         [sender |-> sender, tx |-> tx, state |-> "pending",
                          seen |-> sent.seen, explicit |-> "nonce" \in sent.given])
              /\ call' = [call EXCEPT ![c] = At(sent, "sent")]
         ELSE /\ call' = [call EXCEPT ![c] = At(sent, "failed")]
              /\ UNCHANGED pool
      /\ UNCHANGED <<net, key, base, clock>>

\* Time passes, the base fee moves, and the next transaction of an address is mined.
Environment ==
  /\ \E c \in Callers : call[c].pc \notin {"sent", "failed", "invalid", "answered"}
  /\ \/ /\ net = "icon" /\ clock < 2 /\ clock' = 2
        /\ UNCHANGED <<base, pool>>
     \/ /\ net = "eth" /\ base < 2 /\ base' = base + 1
        /\ UNCHANGED <<clock, pool>>
     \/ /\ net = "eth"
        /\ \E i \in DOMAIN pool :
             /\ pool[i].state = "pending"
             /\ pool[i].tx.values.nonce = MinedNonce(pool[i].sender)
             /\ pool' = [pool EXCEPT ![i].state = "mined"]
        /\ UNCHANGED <<base, clock>>
  /\ UNCHANGED <<net, key, call>>

NextInvoke ==
  \/ Environment
  \/ \E c \in Callers :
       \/ ClientPrepares(c) \/ ServerPrepares(c) \/ Gas(c) \/ Time(c) \/ Nonce(c)
       \/ FromMissing(c) \/ Fee(c) \/ RequireSignature(c) \/ SendTransaction(c)

SpecInvoke == InitInvoke /\ [][NextInvoke]_invokeVars

-----------------------------------------------------------------------------
(* Properties.                                                             *)

\* Whose transaction it is to be: the client signs for itself; of other requests
\* the one that names nobody is left to the signer of the server.
Expected(c) == IF c.via = "client" THEN c.own
               ELSE IF c.asked # None THEN c.asked ELSE Server

\* Whatever happens between the two invocations, the transaction that reaches the
\* node is the one that was signed, by the one it was asked for - unless somebody
\* posts a signature of his own from another transaction.
SentAsAsked ==
  \A c \in Callers :
    LET d == call[c] IN
    d.sender # None /\ ~ (d.via = "request" /\ d.old) => d.sender = Expected(d)

\* The options that come with a RequireSignatureError are accepted as they are.
InvalidOnlyAtFirst == \A c \in Callers : call[c].pc = "invalid" => call[c].round = 1

\* A pending transaction is replaced only by a call that named its nonce, or that
\* was given its nonce before the replaced one was accepted.
ReplacedOnlyByRace ==
  \A i \in DOMAIN pool : pool[i].state = "replaced" =>
    \E j \in (i + 1)..Len(pool) :
      /\ pool[j].sender = pool[i].sender
      /\ pool[j].tx.values.nonce = pool[i].tx.values.nonce
      /\ pool[j].explicit \/ pool[j].seen < i
=============================================================================
