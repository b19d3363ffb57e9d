----------------------------- MODULE MCInterfaces -----------------------------
(***************************************************************************)
(* The modules between the networks and the clients of the API, for model  *)
(* checking: event streams, transactions, values, filters and              *)
(* specifications.  They share nothing but the code that calls them: a     *)
(* behaviour is one of one of them, and the variables of the others keep a *)
(* value in which nothing happens.                                         *)
(***************************************************************************)
EXTENDS EventStreams, Invoke, Values, EventMatch, SpecMerge, TLC

allVars == <<part, streamVars, pollVars, pushVars, invokeVars, valuesVars, matchVars, specVars>>

-----------------------------------------------------------------------------
(* Nothing happens.                                                        *)

NoStream ==
  head = 1 /\ events = {} /\ initHeight = 0 /\ resume = 0 /\ stored = 0 /\ delivered = {}

NoInvoke ==
  /\ net = "eth" /\ key = FALSE /\ base = 0 /\ clock = 1 /\ pool = <<>>
  /\ call = [c \in Callers |-> [pc |-> "failed", round |-> 1, sender |-> None]]

NoValue ==
  /\ codec = "eth" /\ type = [t |-> "int"] /\ given = Nil /\ wire = Nil /\ read = Nil
  /\ equal = Nil /\ at = "given"

NoMatch ==
  /\ chain = "eth" /\ shape = <<>> /\ asked = <<>> /\ log = Unset /\ told = <<>>
  /\ stage = "asking"

NoMerge ==
  /\ of = "event" /\ contract = <<>> /\ seen = {} /\ entry = NoEntry
  /\ offered = NoEntry /\ reverse = NoEntry /\ flag = {} /\ made = "none"

-----------------------------------------------------------------------------

InitInterfaces ==
  /\ \/ InitStreams
     \/ part \in {"invoke", "value", "match", "merge"} /\ NoStream /\ NoPoll /\ NoPush
  /\ IF part = "invoke" THEN InitInvoke ELSE NoInvoke
  /\ IF part = "value" THEN InitValues ELSE NoValue
  /\ IF part = "match" THEN InitMatch ELSE NoMatch
  /\ IF part = "merge" THEN InitMerge ELSE NoMerge

NextInterfaces ==
  \/ NextStreams /\ UNCHANGED <<invokeVars, valuesVars, matchVars, specVars>>
  \/ /\ part = "invoke" /\ NextInvoke
     /\ UNCHANGED <<part, streamVars, pollVars, pushVars, valuesVars, matchVars, specVars>>
  \/ /\ part = "value" /\ NextValues
     /\ UNCHANGED <<part, streamVars, pollVars, pushVars, invokeVars, matchVars, specVars>>
  \/ /\ part = "match" /\ NextMatch
     /\ UNCHANGED <<part, streamVars, pollVars, pushVars, invokeVars, valuesVars, specVars>>
  \/ /\ part = "merge" /\ NextMerge
     /\ UNCHANGED <<part, streamVars, pollVars, pushVars, invokeVars, valuesVars, matchVars>>

SpecInterfaces == InitInterfaces /\ [][NextInterfaces]_allVars

Symmetry == Permutations(Callers)

-----------------------------------------------------------------------------
(* The instances.                                                          *)

Ask(via, as, set, old) ==
  [via |-> via, own |-> "a", from |-> as, given |-> set, old |-> old]

Asked ==
  {Ask(v, f, {}, FALSE) : v \in {"client", "request"}, f \in {None, "a", Server}}
    \cup {Ask("client", "a", g, FALSE) :
            g \in {{"nonce"}, {"price"}, {"tip"}, {"tip", "cap"}, {"cap"}, {"price", "tip"}}}
    \cup {Ask(v, "a", {}, TRUE) : v \in {"client", "request"}}
    \cup {Ask("request", None, g, FALSE) : g \in {{"nonce"}, {"cap"}}}

Primitive(t) == [t |-> t]
Number == Primitive("int")
Text == Primitive("string")
ArrayOf(t) == [t |-> "array", of |-> t, size |-> 0]
PairOf(t) == [t |-> "array", of |-> t, size |-> 2]
StructWith(t) == [t |-> "struct", of |-> t]

Flat == {Number, Primitive("uint"), Text, ArrayOf(Number), ArrayOf(Text), StructWith(Number),
         ArrayOf(StructWith(Number)), StructWith(StructWith(Number)),
         PairOf(Number), ArrayOf(PairOf(Text))}

Nested == {ArrayOf(ArrayOf(Number)), StructWith(ArrayOf(Text)),
           StructWith(StructWith(ArrayOf(Number))), StructWith(ArrayOf(ArrayOf(Text))),
           ArrayOf(StructWith(ArrayOf(Number)))}

FollowedTypes == Flat \cup Nested

\* In the 3 bits of the instance, 5, 9 and 40 are out of the range of a signed integer;
\* 9 and 40 are out of that of an unsigned one, and 40 is too long for either.
Written ==
  {[n |-> n, form |-> "hex"] : n \in {-4, 1, 5, 9}}
    \cup {[n |-> n, form |-> "dec"] : n \in {-1, 1, 9, 40}}
    \cup {[n |-> 0, form |-> "word"]}

Input == [dynamic : BOOLEAN, indexed : BOOLEAN]

\* A static input is either like the other one or follows a dynamic one; or there is no input.
EventShapes ==
  {<<>>} \cup {s \in Input \X Input : s[1].dynamic \/ (s[1].indexed /\ s[2].dynamic)}

\* Filters vary enough about one log.
Emitted == [address : {"a"}, signature : {"s"}, values : {<<>>, <<0, 1>>}]

Parts == [inputs |-> 1..3, output |-> 1..2, payable |-> {1}, readonly |-> 1..2,
          indexed |-> 1..2]

Overloadable == {{}, {"inputs"}, {"output"}}
=============================================================================
