-------------------------------- MODULE Values --------------------------------
(***************************************************************************)
(* What becomes of a parameter on its way from the JSON of a request to a  *)
(* contract and back: encode and decode of both adaptors (contract/eth/    *)
(* codec.go, contract/icon/codec.go), the conversions they use             *)
(* (contract/convert.go), and EqualParam, by which filters compare it.     *)
(*                                                                         *)
(* Values carry their Go type where reflection looks at it: a list of JSON *)
(* is a []interface{}, one that was converted has typed elements.  Integers*)
(* are texts: a number and its notation.  The other primitive types behave *)
(* like "string" here; structs have one field, f.                          *)
(***************************************************************************)
EXTENDS Integers, Sequences, FiniteSets, SequencesExt

CONSTANTS
  Codecs,     \* of {"eth", "icon"}
  ParamTypes, \* the types followed, in the form below
  Texts,      \* what stands in a request: records [n |-> number, form |-> notation]
  Bits        \* the width of an integer type of Ethereum, one of 8, 16, 32 and 64

VARIABLES
  codec, type,
  given,   \* the parameter of the request
  wire,    \* encoded
  read,    \* decoded again, as the answer of a call or the data of an event
  equal,   \* compared with the filter parameter of the same text
  at       \* the conversions that are done

valuesVars == <<codec, type, given, wire, read, equal, at>>

\* Types: [t : {"int", "uint", "string"}], with `of' "struct", with `of' and `size' "array":
\* the size of an array of fixed size, which only Ethereum has, or else 0.
Nil == [k |-> "nil"]
Error == [k |-> "error"]
Panic == [k |-> "panic"]
Reflect == [k |-> "reflect"]  \* a reflect.Value that is passed on as a value
Prim(go, x) == [k |-> "prim", go |-> go, x |-> x]
List(elem, items) == [k |-> "list", elem |-> elem, items |-> items]
Map(go, f) == [k |-> "map", go |-> go, f |-> f]
Struct(f) == [k |-> "struct", f |-> f]

Fails(v) == v.k \in {"error", "panic"}

\* The first failure of some conversions made in order, or else what they make.
InOrderOr(results, made) ==
  LET i == SelectInSeq(results, Fails) IN IF i = 0 THEN made ELSE results[i]

GoType(v) == CASE v.k = "prim" -> <<v.go>>
               [] v.k = "list" -> <<"[]">> \o v.elem
               [] v.k = "map" -> <<v.go>>
               [] OTHER -> <<v.k>>

Field(v) == IF "f" \in DOMAIN v.f THEN v.f["f"] ELSE Nil

-----------------------------------------------------------------------------
(* convert.go.                                                             *)

RECURSIVE ParamOf(_)
RECURSIVE ParamOfWithSpec(_, _)

\* reflect.Append panics on an element of another type than the first one, and on the
\* slice that is not made when the elements need no conversion.
Elements(v, params) ==
  [i \in DOMAIN params |->
     IF Fails(params[i]) THEN params[i]
     ELSE IF IF i = 1 THEN GoType(params[1]) = v.elem ELSE GoType(params[i]) # GoType(params[1])
     THEN Panic ELSE params[i]]

ParamOfList(v) ==
  LET params == [i \in DOMAIN v.items |-> ParamOf(v.items[i])] IN
  IF params = <<>> THEN Reflect
  ELSE InOrderOr(Elements(v, params), List(GoType(params[1]), params))

ParamsOf(v) ==
  IF v.k # "map" THEN Error
  ELSE LET fields == [n \in DOMAIN v.f |-> ParamOf(v.f[n])] IN
       IF \E n \in DOMAIN fields : fields[n].k = "panic" THEN Panic
       ELSE IF \E n \in DOMAIN fields : fields[n].k = "error" THEN Error
       ELSE Map("Params", fields)

ParamOf(v) ==
  CASE v.k = "prim" -> IF v.go = "string" THEN [v EXCEPT !.go = "String"] ELSE v
    [] v.k = "nil" -> Panic
    [] v.k = "map" -> IF v.go = "Params" THEN v ELSE ParamsOf(v)
    [] v.k = "list" -> ParamOfList(v)
    [] OTHER -> v

AsStruct(v) == CASE v.k = "nil" -> Panic [] v.k = "struct" -> v [] OTHER -> Error

\* The fields are converted, but the result of that is not kept.
StructOf(v) ==
  LET st == AsStruct(v) IN
  IF Fails(st) THEN st ELSE InOrderOr(<<ParamOf(Field(st))>>, st)

IsInteger(v) == v.k = "prim" /\ (v.go = "Integer" \/ v.x.form # "word")

PrimitiveParamOf(t, v) ==
  CASE v.k # "prim" -> Error
    [] t = "string" -> IF v.go = "Integer" THEN Error ELSE Prim("String", v.x)
    [] OTHER -> IF IsInteger(v) THEN Prim("Integer", v.x) ELSE Error

\* An inner list of JSON is an interface, which is no list.
InnerList(s, v) == s.of.t = "array" /\ v.elem = <<"any">> /\ v.items # <<>>

ArrayParamOf(s, v) ==
  CASE v.k = "nil" -> Panic
    [] v.k # "list" -> Error
    [] InnerList(s, v) -> Error
    [] OTHER -> LET params == [i \in DOMAIN v.items |-> ParamOfWithSpec(s.of, v.items[i])]
                IN  InOrderOr(params, List(<<"any">>, params))

StructOfWithSpec(s, v) ==
  CASE v.k = "nil" -> Panic
    [] v.k \notin {"map", "struct"} -> Error
    [] DOMAIN v.f \ {"f"} # {} -> Error
    [] OTHER -> LET param == IF Field(v) = Nil THEN Nil ELSE ParamOfWithSpec(s.of, Field(v))
                IN  InOrderOr(<<param>>, Struct([n \in {"f"} |-> param]))

ParamOfWithSpec(s, v) == CASE s.t = "array" -> ArrayParamOf(s, v)
                           [] s.t = "struct" -> StructOfWithSpec(s, v)
                           [] OTHER -> PrimitiveParamOf(s.t, v)

\* Booleans, Error and Panic are kept apart by their records.
Is(b) == [k |-> "bool", b |-> b]

RECURSIVE EqualParam(_, _, _)

EqualStruct(s, a, b) ==
  InOrderOr(<<StructOf(a), StructOf(b)>>, EqualParam(s.of, Field(a), Field(b)))

ElementsAsArrays(s, a, b) ==
  IF a.k # "list" \/ b.k # "list" THEN Panic
  ELSE InOrderOr([i \in DOMAIN a.items |-> EqualParam(s, a.items[i], b.items[i])], Is(TRUE))

EqualArray(s, a, b) ==
  IF a.k # "list" /\ b.k # "list" THEN Error
  ELSE IF a.k # "list" \/ b.k # "list" THEN Panic
  ELSE IF Len(a.items) # Len(b.items) THEN Is(FALSE)
  ELSE LET each == [i \in DOMAIN a.items |-> EqualParam(s.of, a.items[i], b.items[i])]
           i == SelectInSeq(each, LAMBDA e : e # Is(TRUE))
       IN  IF i = 0 THEN Is(TRUE) ELSE each[i]

\* Integers are compared by their text.
EqualParam(s, a, b) ==
  CASE s.t = "array" -> EqualArray(s, a, b)
    [] s.t = "struct" -> EqualStruct(s, a, b)
    [] OTHER -> LET ca == PrimitiveParamOf(s.t, a)
                    cb == PrimitiveParamOf(s.t, b)
                IN  InOrderOr(<<ca, cb>>, Is(ca.x = cb.x))

-----------------------------------------------------------------------------
(* codec.go.                                                               *)

Abs(n) == IF n < 0 THEN -n ELSE n

AnyLength(t, n) == TRUE
MagnitudeFits(t, n) == IF t = "int" THEN Abs(n) < 2^(Bits - 1) ELSE 0 <= n /\ n < 2^Bits

\* The length in bits of the absolute value, which for a signed type may be one more
\* than the size.
LengthFits(t, n) == IF t = "int" THEN Abs(n) < 2^(Bits + 1) ELSE 0 <= n /\ n < 2^Bits

\* int8(i), uint8(i) and their like keep the lowest bits.
Truncated(t, n) ==
  LET low == n % 2^Bits IN IF t = "int" /\ low >= 2^(Bits - 1) THEN low - 2^Bits ELSE low

EncodePrimitive(t, v) ==
  LET p == PrimitiveParamOf(t, v) IN
  IF Fails(p) \/ t = "string" \/ codec = "icon" THEN p
  ELSE IF LengthFits(t, p.x.n) THEN Prim("Integer", [n |-> Truncated(t, p.x.n), form |-> "hex"])
  ELSE Error

RECURSIVE Encode(_, _)

\* encodeStruct takes a Struct, or else anything that makes Params.
EncodeStruct(s, v) ==
  LET st == StructOf(v)
      params == IF st.k = "error" THEN ParamsOf(v) ELSE st
  IN  IF Fails(params) THEN params
      ELSE LET field == Encode(s.of, Field(params))
           IN  InOrderOr(<<field>>, Struct([n \in {"f"} |-> field]))

EncodedItems(s, v) ==
  LET items == [i \in DOMAIN v.items |-> Encode(s.of, v.items[i])]
  IN  InOrderOr(items, List(<<"any">>, items))

\* A slice is made of the type of the array, which fails if that has a fixed size.
EthEncodeArray(s, v) ==
  CASE v.k = "nil" -> Panic
    [] v.k # "list" -> Error
    [] s.size # 0 -> Panic
    [] OTHER -> EncodedItems(s, v)

\* An inner list is passed on as it stands in the outer one.
IconEncodeArray(s, v) ==
  CASE v.k = "nil" -> Panic
    [] v.k # "list" \/ InnerList(s, v) -> Error
    [] OTHER -> EncodedItems(s, v)

EncodeArray(s, v) == IF codec = "eth" THEN EthEncodeArray(s, v) ELSE IconEncodeArray(s, v)

Encode(s, v) == CASE s.t = "array" -> EncodeArray(s, v)
                  [] s.t = "struct" -> EncodeStruct(s, v)
                  [] OTHER -> EncodePrimitive(s.t, v)

RECURSIVE Decode(_, _)

\* The slice of an inner dimension is made with the type of the outer one, and what is
\* appended to it does not fit.
DecodeArray(s, v) ==
  IF s.of.t = "array" /\ v.items # <<>> THEN Panic
  ELSE LET items == [i \in DOMAIN v.items |-> Decode(s.of, v.items[i])] IN
       InOrderOr(items, List(CASE s.of.t = "string" -> <<"String">>
                               [] s.of.t = "struct" -> <<"struct">>
                               [] s.of.t = "array" -> <<"[]">>
                               [] OTHER -> <<"Integer">>, items))

Decode(s, v) ==
  CASE s.t = "array" -> DecodeArray(s, v)
    [] s.t = "struct" -> LET field == Decode(s.of, Field(v))
                         IN  InOrderOr(<<field>>, Struct([n \in {"f"} |-> field]))
    [] OTHER -> v

-----------------------------------------------------------------------------
(* A parameter on its way.                                                 *)

RECURSIVE JsonOf(_, _), FixedSize(_)

\* Whether a type has an array of fixed size in it.
FixedSize(s) == CASE s.t = "array" -> s.size # 0 \/ FixedSize(s.of)
                  [] s.t = "struct" -> FixedSize(s.of)
                  [] OTHER -> FALSE

\* JSON for a type: of its form, of another form, or incomplete.
JsonOf(s, texts) ==
  {Nil} \cup
  CASE s.t = "array" ->
         LET items == JsonOf(s.of, {x \in texts : x.form # "dec"})
         IN  {List(<<"any">>, l) : l \in SeqOf(items, 2)} \cup {Map("map", <<>>)}
    [] s.t = "struct" ->
         LET fields == JsonOf(s.of, {x \in texts : x.form # "dec"})
             word == Prim("string", [n |-> 0, form |-> "word"])
         IN  {Map("map", [n \in {"f"} |-> v]) : v \in fields}
               \cup {Map("map", [n \in names |-> word]) : names \in {{}, {"f", "g"}}}
               \cup {word}
    [] OTHER -> {Prim("string", x) : x \in texts} \cup {List(<<"any">>, <<>>)}

InitValues ==
  /\ codec \in Codecs /\ type \in {s \in ParamTypes : codec = "icon" => ~ FixedSize(s)}
  /\ given \in JsonOf(type, Texts)
  /\ wire = Nil /\ read = Nil /\ equal = Nil /\ at = "given"

\* callData of the handlers: a parameter is required, and encoded.
CallData ==
  /\ at = "given" /\ at' = "encoded"
  /\ wire' = IF given = Nil THEN Error ELSE Encode(type, given)
  /\ UNCHANGED <<codec, type, given, read, equal>>

Answer ==
  /\ at = "encoded" /\ ~ Fails(wire) /\ at' = "decoded"
  /\ read' = Decode(type, wire)
  /\ UNCHANGED <<codec, type, given, wire, equal>>

\* Filter: the parameter as EventFilter has prepared it, and the one of the event.
Compared ==
  /\ at = "decoded" /\ ~ Fails(read) /\ at' = "compared"
  /\ LET param == ParamOfWithSpec(type, given) IN
     equal' = IF Fails(param) THEN param ELSE EqualParam(type, read, param)
  /\ UNCHANGED <<codec, type, given, wire, read>>

NextValues == CallData \/ Answer \/ Compared

SpecValues == InitValues /\ [][NextValues]_valuesVars

-----------------------------------------------------------------------------
(* Properties.                                                             *)

RECURSIVE Means(_, _, _), Wide(_, _), FitsType(_, _), Lists(_), ListInStruct(_), Canonical(_)

\* Whether two values mean the same, as values of a type.
Means(s, a, b) ==
  CASE s.t = "array" -> /\ Len(a.items) = Len(b.items)
                        /\ \A i \in DOMAIN a.items : Means(s.of, a.items[i], b.items[i])
    [] s.t = "struct" -> Means(s.of, Field(a), Field(b))
    [] s.t = "string" -> a.x = b.x
    [] OTHER -> a.x.n = b.x.n

InWidth(t, n) ==
  IF t = "int" THEN -(2^(Bits - 1)) <= n /\ n < 2^(Bits - 1) ELSE 0 <= n /\ n < 2^Bits

\* A value that a contract takes: complete, and its numbers in range.
FitsType(s, v) ==
  CASE s.t = "array" -> /\ v.k = "list" /\ s.size \in {0, Len(v.items)}
                        /\ \A i \in DOMAIN v.items : FitsType(s.of, v.items[i])
    [] s.t = "struct" -> v.k = "map" /\ FitsType(s.of, Field(v))
    [] s.t = "string" -> v.k = "prim"
    [] OTHER -> IsInteger(v) /\ (codec = "eth" => InWidth(s.t, v.x.n))

\* A signed number that is out of range.
Wide(s, v) ==
  CASE s.t = "array" -> \E i \in DOMAIN v.items : Wide(s.of, v.items[i])
    [] s.t = "struct" -> Wide(s.of, Field(v))
    [] OTHER -> s.t = "int" /\ codec = "eth" /\ ~ InWidth("int", v.x.n)

\* Whether a struct of the type has lists in it.
Lists(s) == s.t = "array" \/ (s.t = "struct" /\ Lists(s.of))
ListInStruct(s) == IF s.t = "array" THEN ListInStruct(s.of) ELSE s.t = "struct" /\ Lists(s.of)

TwoDimensions(s) == s.t = "array" /\ s.of.t = "array"

\* What reaches the contract is what was written, or the request is refused - but a
\* signed number up to four times out of range is taken for another one.
ArrivesAsWritten ==
  at # "given" /\ ~ Fails(wire) => Means(type, wire, given) \/ Wide(type, given)

\* A parameter that fits its type is accepted, unless a struct in it holds a list, it is an
\* array of arrays for an ICON contract, or there is an array of fixed size in it.
FittingIsAccepted ==
  at # "given" /\ FitsType(type, given) /\ Fails(wire)
    => ListInStruct(type) \/ (codec = "icon" /\ TwoDimensions(type)) \/ FixedSize(type)

Canonical(v) == CASE v.k = "list" -> \A i \in DOMAIN v.items : Canonical(v.items[i])
                  [] v.k = "map" -> Canonical(Field(v))
                  [] v.k = "prim" -> v.x.form # "dec"
                  [] OTHER -> TRUE

\* A filter on a parameter finds the event that has it, when its integers are written
\* the way they are decoded and no struct in it holds a list.
FilterFindsItsEvent ==
  at = "compared" /\ Canonical(given) /\ ~ Wide(type, given) /\ ~ ListInStruct(type)
    => equal = Is(TRUE)

\* Every value is decoded, whatever the dimension of its type.
EveryDimensionDecoded == at = "decoded" => read # Panic
=============================================================================
