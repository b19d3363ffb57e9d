------------------------------ MODULE EventMatch ------------------------------
(***************************************************************************)
(* Which events reach the callback of MonitorEvent: what its filters ask   *)
(* of the node (newFilterQuery, newEventFilters), and what Filter makes of *)
(* a log (contract/eth/result.go, contract/icon/result.go, and MonitorEvent*)
(* of the adaptors and of the handlers).  The node sends the logs that it  *)
(* takes the question to be about.                                         *)
(*                                                                         *)
(* Numbers stand for values, and a parameter of a filter is also a         *)
(* notation, as only integers and addresses have several.  A hash is the   *)
(* record of what is hashed.                                               *)
(***************************************************************************)
EXTENDS Naturals, Sequences, FiniteSets, SequencesExt

CONSTANTS
  Chains,     \* of {"eth", "icon"}
  Emitters, Signatures,
  Shapes,     \* the inputs of the events: sequences of [dynamic, indexed : BOOLEAN]
  Numbers,    \* values in filters
  Logs,       \* what contracts emit: [address, signature, values]
  Notations,  \* of {"chain", "other"}: as events are decoded, or otherwise
  Longest     \* the number of filters of a monitor

ASSUME MatchAssumption ==
  /\ Chains \subseteq {"eth", "icon"}
  /\ Shapes \subseteq Seq([dynamic : BOOLEAN, indexed : BOOLEAN])

VARIABLES
  chain, shape,
  asked,    \* a sequence of [address, signature, params]
  log,      \* [address, signature, values]
  told,     \* the events of the callback: [filter, params]
  stage

matchVars == <<chain, shape, asked, log, told, stage>>

Inputs == DOMAIN shape
Unset == [form |-> "unset"]

\* Parameters of a filter: a value or none for each input.
ParamChoices == {[n |-> n, form |-> form] : n \in Numbers, form \in Notations}

\* Only a static type has several notations.
WellFormed(params) ==
  \A i \in Inputs : shape[i].dynamic /\ params[i] # Unset => params[i].form = "chain"

\* Of a set of positions, the one that has k of them up to it.
Kth(S, k) == CHOOSE i \in S : Cardinality({j \in S : j <= i}) = k

-----------------------------------------------------------------------------
(* What is asked of the node.                                              *)

AskedOf(address) == {f.signature : f \in {g \in ToSet(asked) : g.address = address}}
AskedAddresses == {f.address : f \in ToSet(asked)}

Indexed == {i \in Inputs : shape[i].indexed}
NumberIndexed == Cardinality(Indexed)

SignatureTopic(s) == [signature |-> s]
Hash(n) == [hash |-> n]
Word(n) == [word |-> n]  \* decoded
Topic(i, n) == IF shape[i].dynamic THEN Hash(n) ELSE [topic |-> n]

\* The topics of a log: its signature, and the indexed values.
Topics ==
  <<SignatureTopic(log.signature)>>
    \o [k \in 1..NumberIndexed |-> Topic(Kth(Indexed, k), log.values[Kth(Indexed, k)])]

\* The addresses of a query in the order of a Go map, and with each the signatures that
\* are asked of it.  The node takes them for what the first, the second topic and so on
\* may be.
EthSends ==
  /\ log.address \in AskedAddresses
  /\ \E order \in SetToSeqs(AskedAddresses) :
    /\ Len(order) <= Len(Topics)
    /\ \A i \in DOMAIN order : Topics[i] \in {SignatureTopic(s) : s \in AskedOf(order[i])}

IconSends == log.address \in AskedAddresses /\ log.signature \in AskedOf(log.address)

Sends == IF chain = "eth" THEN EthSends ELSE IconSends

-----------------------------------------------------------------------------
(* Filter.                                                                 *)

\* EqualParam of convert.go: integers are compared as they are written.
EqualsText(value, p) == value = Word(p.n) /\ p.form = "chain"

\* The parameters of an event of ICON are the decoded texts.
IconParams == [i \in Inputs |-> Word(log.values[i])]

\* Topics are those of the first inputs, whichever inputs are indexed: for a dynamic type
\* among the first the topic stands, and another type is looked up by its name.
LooksLikeTopic(i) == i <= NumberIndexed /\ shape[i].dynamic
Decodes ==
  chain = "eth" =>
    \A i \in Inputs : shape[i].dynamic /\ shape[i].indexed => LooksLikeTopic(i)
EthParams ==
  [i \in Inputs |-> IF LooksLikeTopic(i) THEN Topics[i + 1] ELSE Word(log.values[i])]

NewEvent == IF chain = "icon" THEN IconParams ELSE EthParams

ComparedAsText(i, value, p) == EqualsText(value, p)

\* With the hash of an indexed input, notation plays no part.
Agrees(i, value, p) ==
  IF chain = "eth" /\ LooksLikeTopic(i) /\ shape[i].indexed
  THEN value = Hash(p.n) ELSE EqualsText(value, p)

WithoutAddress(f) ==
  /\ f.signature = log.signature /\ Decodes
  /\ \A i \in Inputs : f.params[i] # Unset => Agrees(i, NewEvent[i], f.params[i])

Passes(f) ==
  /\ f.address = log.address /\ f.signature = log.signature
  /\ Decodes
  /\ \A i \in Inputs : f.params[i] # Unset => Agrees(i, NewEvent[i], f.params[i])

-----------------------------------------------------------------------------
(* A monitor and one log.                                                  *)

InitMatch ==
  /\ chain \in Chains /\ shape \in Shapes
  /\ asked = <<>> /\ told = <<>> /\ stage = "asking"
  /\ log = Unset

\* A filter of an event by its name: one for each of the given parameters, or one without.
AddFilter ==
  /\ stage = "asking" /\ Len(asked) < Longest
  /\ \E address \in Emitters, signature \in Signatures,
        params \in [Inputs -> ParamChoices \cup {Unset}] :
       /\ WellFormed(params)
       /\ asked' = Append(asked, [address |-> address, signature |-> signature,
                                  params |-> params])
  /\ UNCHANGED <<chain, shape, log, told, stage>>

Emit ==
  /\ stage = "asking" /\ asked # <<>> /\ stage' = "emitted"
  /\ log' \in {l \in Logs : DOMAIN l.values = Inputs}
  /\ UNCHANGED <<chain, shape, asked, told>>

\* Every filter is tried.
OnBaseEvent ==
  /\ stage = "emitted" /\ Sends /\ stage' = "told"
  /\ LET passing == {i \in DOMAIN asked : Passes(asked[i])} IN
     told' = [k \in 1..Cardinality(passing) |-> [filter |-> Kth(passing, k),
                                                params |-> NewEvent]]
  /\ UNCHANGED <<chain, shape, asked, log>>

Unsent ==
  /\ stage = "emitted" /\ ~ Sends /\ stage' = "unsent"
  /\ UNCHANGED <<chain, shape, asked, log, told>>

NextMatch == AddFilter \/ Emit \/ OnBaseEvent \/ Unsent

SpecMatch == InitMatch /\ [][NextMatch]_matchVars

-----------------------------------------------------------------------------
(* Properties.                                                             *)

\* Whether an event is one that a filter is for.
IsFor(f) ==
  /\ f.address = log.address /\ f.signature = log.signature
  /\ \A i \in Inputs : f.params[i] # Unset => f.params[i].n = log.values[i]

TellsOf(i) == \E k \in DOMAIN told : told[k].filter = i

IndexedFirst == \A i, j \in Inputs : i < j /\ shape[j].indexed => shape[i].indexed

\* Whether a filter writes what is compared as text the way the chain does.
AsTheChain(f) == \A i \in Inputs : f.params[i] # Unset => f.params[i].form = "chain"

\* An event that a filter is for is told - but a monitor of two contracts of Ethereum
\* hears of none, an integer of a filter must be written the way it is decoded, and
\* indexed inputs must come first.
WantedIsTold ==
  \A i \in DOMAIN asked :
    stage \in {"told", "unsent"} /\ IsFor(asked[i]) =>
      \/ TellsOf(i)
      \/ chain = "eth" /\ (Cardinality(AskedAddresses) > 1 \/ ~ IndexedFirst)
      \/ ~ AsTheChain(asked[i])

\* Only events that a filter is for are told, once for each such filter, and with the
\* parameters of the log, or their hashes.  When indexed inputs do not come first, an event of
\* Ethereum may be compared and told with the hash of another input, and only the contract
\* and the name are those of the filter.
OnlyWantedIsTold ==
  /\ \A k, l \in DOMAIN told : k # l => told[k].filter # told[l].filter
  /\ \A k \in DOMAIN told :
       LET f == asked[told[k].filter] IN
       /\ f.address = log.address /\ f.signature = log.signature
       /\ IndexedFirst \/ chain = "icon" =>
            /\ IsFor(f)
            /\ \A i \in Inputs :
                 told[k].params[i] \in {Word(log.values[i]), Hash(log.values[i])}
=============================================================================
