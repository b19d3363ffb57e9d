------------------------------ MODULE SpecMerge ------------------------------
(***************************************************************************)
(* One specification for the contracts of all networks: Spec.Merge and     *)
(* MergeOverloads (service/spec.go), called for the networks of a service  *)
(* in the order of a Go map, and MergedService (service/mergedservice.go), *)
(* which offers one signature and translates to that of each network.      *)
(*                                                                         *)
(* Methods and events are merged alike: the first specification of a name  *)
(* is the base, a network that differs from it is given an overload with   *)
(* the parts that differ.  One name is followed here.  A type, a set of    *)
(* inputs or indexed names are a number each; EqualsNameAndTypes and       *)
(* EqualsTypeSpec compare them by what they contain.                       *)
(*                                                                         *)
(* Structs are not followed: Spec.Merge merges those of a method or event  *)
(* only for a network that differs from the base in the part that has      *)
(* them, so Spec.Structs does not hold the structs of every network.       *)
(***************************************************************************)
EXTENDS Integers, Sequences, SequencesExt

CONSTANTS
  Entries,  \* of {"method", "event"}
  Types,    \* network types
  PartValues,   \* by part of a specification: what may stand there
  Flags     \* what merge handlers ask to be overloaded; {} is "None"

ASSUME MergeAssumption == Entries \subseteq {"method", "event"}

VARIABLES
  of,        \* what is merged
  contract,  \* by network type: the specification of its contract
  seen,      \* network types merged
  entry,     \* Spec.Methods[name] or Spec.Events[name]
  offered,   \* the specification a MergedService offers instead
  reverse,   \* the one it translates with, NoEntry without a translation
  flag,      \* what was overloaded
  made       \* "merging", or what became of NewMergedService

specVars == <<of, contract, seen, entry, offered, reverse, flag, made>>

ContractsOf(k) ==
  CASE k = "method" -> [inputs : PartValues["inputs"], output : PartValues["output"],
                        payable : PartValues["payable"], readonly : PartValues["readonly"]]
    [] k = "event"  -> [inputs : PartValues["inputs"], indexed : PartValues["indexed"]]

NoEntry == [types |-> {}, base |-> <<>>, overloads |-> <<>>]

InitMerge ==
  /\ of \in Entries /\ contract \in [Types -> ContractsOf(of)]
  /\ seen = {} /\ made = "merging" /\ flag = {}
  /\ entry = NoEntry /\ offered = NoEntry /\ reverse = NoEntry

-----------------------------------------------------------------------------
(* Merging a contract.                                                     *)

\* CompareMethodSpec, CompareEventSpec: the flags of the parts that differ.
Compare(base, cs) == {p \in DOMAIN base : base[p] # cs[p]}

\* A specification with the parts of an overload in place of its own.
Over(own, base) ==
  [p \in DOMAIN own \cup DOMAIN base |-> IF p \in DOMAIN own THEN own[p] ELSE base[p]]

NewOverload(f, cs, types) == [types |-> types, own |-> [p \in f |-> cs[p]]]

InputsAgree(o, cs) == "inputs" \in DOMAIN o.own => o.own["inputs"] = cs["inputs"]

\* CompareMethodOverload, CompareEventOverload: only the parts of the overload.
CompareOverload(o, cs) == \A p \in DOMAIN o.own : o.own[p] = cs[p]

\* The first overload of a list that has a property, 0 without one.
FirstOf(overloads, Test(_)) == SelectInSeq(overloads, Test)

Overload(e, t) == FirstOf(e.overloads, LAMBDA o : t \in o.types)

Agreeing(e, cs) == FirstOf(e.overloads, LAMBDA o : CompareOverload(o, cs))

\* A network that is like the base: it joins it, and leaves the overload it was in.
\* An event only leaves the overload.
MergeSame(e, t) ==
  LET i == Overload(e, t) IN
  IF t \in e.types THEN e
  ELSE IF i = 0 THEN [e EXCEPT !.types = @ \cup {t}]
  ELSE [e EXCEPT !.overloads[i].types = @ \ {t},
                 !.types = IF of = "event" THEN @ ELSE @ \cup {t}]

MergeOther(e, cs, t) ==
  LET i == Agreeing(e, cs) IN
  [e EXCEPT !.types = @ \ {t},
            !.overloads = IF i = 0
              THEN Append(e.overloads, NewOverload(Compare(e.base, cs), cs, {t}))
              ELSE [e.overloads EXCEPT ![i].types = @ \cup {t}]]

Merge(e, cs, t) ==
  IF e = NoEntry THEN [types |-> {t}, base |-> cs, overloads |-> <<>>]
  ELSE IF Compare(e.base, cs) = {} THEN MergeSame(e, t)
  ELSE MergeOther(e, cs, t)

\* NewDefaultService, NewMultiContractService: the next network, of any type; several
\* may have the same type.
MergeNetwork ==
  /\ made = "merging"
  /\ \E t \in Types :
       /\ entry' = Merge(entry, contract[t], t)
       /\ seen' = seen \cup {t}
  /\ UNCHANGED <<of, contract, offered, reverse, flag, made>>

-----------------------------------------------------------------------------
(* The merged service.                                                     *)

AnyOverloads(e, f) == TRUE

\* The flag a merge handler gives must be that of every overload there is.
Compatible(e, f) == f = {} \/ \A i \in DOMAIN e.overloads : DOMAIN e.overloads[i].own = f

TypesOf(e) == e.types \cup UNION {e.overloads[i].types : i \in DOMAIN e.overloads}

\* MergeOverloads: the flagged parts are taken from a contract specification.
MergeOverloads(e, cs, f) ==
  [types |-> TypesOf(e),
   base |-> [p \in DOMAIN e.base |-> IF f = {} \/ p \in f THEN cs[p] ELSE e.base[p]],
   overloads |-> <<>>]

\* The parts that a MergedService translates.
Translated == IF of = "method" THEN {"inputs", "output"} ELSE {"inputs", "indexed"}

OwnPartsOnly(merged, origin, o) ==
  {p \in Translated \cap DOMAIN o.own : merged[p] # o.own[p]}

\* What is to be translated for an overload of the origin: its own part where that is
\* not the merged one, the part of the base where the overload has none.
ToTranslate(merged, origin, o) ==
  {p \in Translated :
     IF p \in DOMAIN o.own THEN merged[p] # o.own[p] ELSE merged[p] # origin[p]}

\* newMethodSpec, newEventSpec: overloads that lead from the merged specification back
\* to that of each network.
TranslatesBack(merged, origin) ==
  LET back(o) == NewOverload(ToTranslate(merged.base, origin.base, o),
                             Over(o.own, origin.base), o.types)
  IN [merged EXCEPT !.overloads =
        <<NewOverload(Compare(merged.base, origin.base), origin.base, origin.types)>>
          \o [i \in DOMAIN origin.overloads |-> back(origin.overloads[i])]]

Merging == made = "merging" /\ seen # {}

\* CopySpec: the copy of an overload with indexed names follows a pointer that is nil.
CopyPanics ==
  /\ Merging
  /\ \E i \in DOMAIN entry.overloads : "indexed" \in DOMAIN entry.overloads[i].own
  /\ made' = "panic"
  /\ UNCHANGED <<of, contract, seen, entry, offered, reverse, flag>>

Copies == Merging /\ \A i \in DOMAIN entry.overloads :
                        "indexed" \notin DOMAIN entry.overloads[i].own

\* The merge handler does not know the name: there must be nothing to merge.
NotHandled ==
  /\ Copies
  /\ made' = IF entry.overloads = <<>> THEN "made" ELSE "error"
  /\ offered' = entry
  /\ UNCHANGED <<of, contract, seen, entry, reverse, flag>>

\* The merge handler takes the specification of one of the types, configured or not.
Handled ==
  /\ Copies
  /\ \E t \in Types, f \in Flags :
       IF ~ Compatible(entry, f) THEN made' = "error" /\ UNCHANGED <<offered, reverse, flag>>
       ELSE /\ made' = "made" /\ flag' = f
            /\ offered' = MergeOverloads(entry, contract[t], f)
            /\ reverse' = TranslatesBack(offered', entry)
  /\ UNCHANGED <<of, contract, seen, entry>>

NextMerge == MergeNetwork \/ CopyPanics \/ NotHandled \/ Handled

SpecMerging == InitMerge /\ [][NextMerge]_specVars

-----------------------------------------------------------------------------
(* Properties.                                                             *)

\* What a network of a type gets: the method list of the server (api/server.go), and
\* the overload a MergedService translates with.
Resolved(e, t) == IF t \in e.types THEN e.base
                  ELSE LET i == Overload(e, t)
                       IN  IF i = 0 THEN <<>> ELSE Over(e.overloads[i].own, e.base)

Served(t) == IF reverse = NoEntry THEN offered.base
             ELSE LET i == Overload(reverse, t)
                  IN  IF i = 0 THEN <<>> ELSE Over(reverse.overloads[i].own, offered.base)

\* An overload that leaves out parts in which the network differs: it was made for
\* another network, which agrees with this one in all the parts it names.
Shadowed(t) ==
  \E u \in seen \ {t} :
    LET d == Compare(entry.base, contract[u]) IN
    /\ d # {} /\ d # Compare(entry.base, contract[t])
    /\ \A p \in d : contract[u][p] = contract[t][p]

\* In whatever order the networks are merged, each finds its own specification under its
\* network type: the overload it is put in is its own, or agrees with it in all it names.
EachFindsItsOwn ==
  \A t \in seen : Resolved(entry, t) = contract[t] \/ Shadowed(t)

\* A merged service translates to what the contract of the network takes and answers.
TranslatesToOwn ==
  made = "made" =>
    \A t \in seen, p \in Translated :
      (p \in DOMAIN Served(t) /\ Served(t)[p] = contract[t][p]) \/ Shadowed(t)

\* The server checks GET and POST against the one Readonly it is offered: that is the
\* Readonly of every contract when overloads of other parts only were merged.
HttpMethodFits ==
  made = "made" /\ of = "method" /\ (flag # {} \/ reverse = NoEntry) /\ "readonly" \notin flag =>
    \A t \in seen : offered.base["readonly"] = contract[t]["readonly"] \/ Shadowed(t)
=============================================================================
