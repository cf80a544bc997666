---------------------------- MODULE MCFieldValues ----------------------------
(* A small instance of FieldValues for TLC. *)
EXTENDS FieldValueProperties

SmallLimits == [t \in FieldType \ {"integer"} |-> IF t = "symbol" THEN 1 ELSE 2]
SmallSizes == 0 .. 3
=============================================================================
