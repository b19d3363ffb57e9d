------------------------------- MODULE MCValues -------------------------------
(* Values alone, with the array of arrays that getFeeTable of the BMC      *)
(* returns.                                                                *)
EXTENDS Values

SliceOf(t) == [t |-> "array", of |-> t, size |-> 0]

FeeTable == SliceOf(SliceOf([t |-> "int"]))

Lists1 == {SliceOf([t |-> t]) : t \in {"int", "string"}}

DimensionedTypes == {FeeTable} \cup Lists1

Amounts == [n : {-1, 1, 3}, form : {"hex"}]
=============================================================================
