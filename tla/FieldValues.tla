----------------------------- MODULE FieldValues -----------------------------
(***************************************************************************)
(* The life of one field value: validated as part of a draft               *)
(* (validateValue, validate.go), stored and read back through the MongoDB  *)
(* driver (mongo.go), saved again as it was read, and carried to another   *)
(* deployment as JSON with the checksums of transfer.go and persistor.go.  *)
(*                                                                         *)
(* Widths are parameters: integers of W bits, float64 of P significant     *)
(* bits, float32 of S.  A number is written n = 2 * number, so that halves *)
(* stand for the fractions.  Of a string n is its length in bytes, of an   *)
(* object its length as it was first marshalled; nothing looks at the      *)
(* length of an object later on.  Inside an object there is one more       *)
(* value, a number or nil, that stands for what it nests.                  *)
(***************************************************************************)
EXTENDS Integers, FiniteSets

CONSTANTS
  W, P, S,   \* bits: int64, significand of float64, of float32
  Limit,     \* fieldLimit: field type -> bytes
  Sizes,     \* lengths of the strings and objects that are offered
  None

FieldType == {"symbol", "text", "integer", "richText", "json"}

ASSUME WidthAssumption == W \in Nat /\ P \in Nat /\ S \in Nat /\ 0 < S /\ S <= P /\ P < W
ASSUME LimitAssumption ==
  /\ Limit \in [FieldType \ {"integer"} -> Nat]
  /\ Sizes \subseteq Nat

MaxInt64 == 2 * (2^(W-1) - 1)
MinInt64 == -(2 * 2^(W-1))

Halves == -(2 * 2^W) .. 2 * 2^W
Whole == {n \in Halves : n % 2 = 0}

Floats(bits) ==
  {n \in Halves : \E e \in 0 .. W + 1 : /\ n % 2^e = 0
                                        /\ -(2^bits) <= n \div 2^e
                                        /\ n \div 2^e <= 2^bits}
Float64s == Floats(P)

\* int: any signed kind.  digits, decimal: a json.Number without and with a
\* fraction or exponent.  object: map[string]any, bsonM: the driver's own map type.
GoNumber ==
  [kind : {"int", "digits"}, n : Whole]
  \cup [kind : {"uint"}, n : Whole \cap Nat]
  \cup [kind : {"float64"}, n : Float64s]
  \cup [kind : {"float32"}, n : Floats(S)]
  \cup [kind : {"decimal"}, n : Halves]

Nil == [kind |-> "nil", n |-> 0]

GoScalar ==
  GoNumber \cup {Nil}
  \cup [kind : {"string"}, n : Sizes]
  \cup [kind : {"bool", "notFinite", "cyclic"}, n : {0}]

Object(kind, n, inner) == [kind |-> kind, n |-> n, inner |-> inner]

Numeric == {"int", "uint", "float32", "float64", "digits", "decimal"}

\* A Go number has the width of its type.
InRange(v) ==
  /\ v.kind = "int" => MinInt64 <= v.n /\ v.n <= MaxInt64
  /\ v.kind = "uint" => v.n < 2 * 2^W

Offered ==
  {v \in GoScalar : InRange(v)}
  \cup {Object("object", n, inner) : n \in Sizes, inner \in {v \in GoNumber \cup {Nil} : InRange(v)}}

\* The number that a value is, or has inside.
Core(v) == IF v.kind \in {"object", "bsonM"} THEN v.inner ELSE v

------------------------------------------------------------------------------
(* Validation.                                                              *)

\* Mutants: the upper bound of a float is float64(MaxInt64), which rounds up;
\* unsigned numbers are not bounded.
IsInteger_RoundedBound(v) ==
  \/ v.kind = "int"
  \/ v.kind \in {"uint", "digits"} /\ MinInt64 <= v.n /\ v.n <= MaxInt64
  \/ v.kind \in {"float32", "float64"} /\ v.n \in Whole /\ MinInt64 <= v.n /\ v.n <= -MinInt64
IsInteger_AnyUint(v) ==
  \/ v.kind \in {"int", "uint"}
  \/ v.kind = "digits" /\ MinInt64 <= v.n /\ v.n <= MaxInt64
  \/ v.kind \in {"float32", "float64"} /\ v.n \in Whole /\ MinInt64 <= v.n /\ v.n < -MinInt64

IsInteger(v) ==
  \/ v.kind = "int"
  \/ v.kind = "uint" /\ v.n <= MaxInt64
  \/ /\ v.kind \in {"float32", "float64"}
     /\ v.n \in Whole /\ MinInt64 <= v.n /\ v.n < -MinInt64
  \/ v.kind = "digits" /\ MinInt64 <= v.n /\ v.n <= MaxInt64

\* An object with a cycle or a NaN in it cannot be marshalled: cyclic.
ValidateValue(type, v) ==
  \/ v.kind = "nil"
  \/ type \in {"symbol", "text"} /\ v.kind = "string" /\ v.n <= Limit[type]
  \/ type = "integer" /\ IsInteger(v)
  \/ type \in {"richText", "json"} /\ v.kind = "object" /\ v.n <= Limit[type]

------------------------------------------------------------------------------
(* Outside this code: encoding/json, strconv and the driver.                *)

Distance(m, n) == IF m < n THEN n - m ELSE m - n

\* How many trailing zeros the number n has in the base with these prime factors.
Zeros(n, primes) == Cardinality({e \in 1 .. W + 1 : \A p \in primes : n % p^e = 0})

\* Conversion to float64: the nearest, of two equally near the one whose last
\* significant bit is zero, which has more binary zeros than its neighbour.
Rounded == [n \in Halves |->
  LET near == {f \in Float64s : \A g \in Float64s : Distance(f, n) <= Distance(g, n)}
  IN CHOOSE f \in near : \A g \in near : Zeros(g, {2}) <= Zeros(f, {2})]

\* The decimals of the whole float f: as few digits as read back as f, and of
\* those the nearest.
DecimalZeros(n) == Zeros(n \div 2, {2, 5})
Shortest == [f \in Float64s \cap Whole |->
  LET reads == {n \in Whole : Rounded[n] = f}
  IN CHOOSE n \in reads : \A m \in reads :
       \/ DecimalZeros(n) > DecimalZeros(m)
       \/ DecimalZeros(n) = DecimalZeros(m) /\ Distance(n, f) <= Distance(m, f)]

\* json.Marshal of a number, as the text that a json.Number would keep.
Spelled(v) ==
  CASE v.kind \in {"int", "uint", "digits"} -> [kind |-> "digits", n |-> v.n]
    [] v.kind \in {"float32", "float64"} /\ v.n \in Whole -> [kind |-> "digits", n |-> Shortest[v.n]]
    [] v.kind \in {"float32", "float64"} /\ v.n \notin Whole -> [kind |-> "decimal", n |-> v.n]
    [] OTHER -> v

Text(v) ==
  IF v.kind \in {"object", "bsonM"} THEN Object("object", v.n, Spelled(v.inner)) ELSE Spelled(v)

\* json.Unmarshal into a FieldValue, with or without Decoder.UseNumber.
ReadNumber(text, decoder) ==
  IF text.kind \in {"digits", "decimal"} /\ decoder = "float64"
  THEN [kind |-> "float64", n |-> Rounded[text.n]] ELSE text

Decoded(text, decoder) ==
  IF text.kind = "object" THEN Object("object", text.n, ReadNumber(text.inner, decoder))
                          ELSE ReadNumber(text, decoder)

Storable(v) == Core(v).kind = "uint" => Core(v).n <= MaxInt64

\* Into a BSON integer go integers, and a json.Number that parses as one.
StoredAsInt(v) ==
  \/ v.kind \in {"int", "uint"}
  \/ v.kind = "digits" /\ MinInt64 <= v.n /\ v.n <= MaxInt64

\* Mutant: every number is stored as a double.
StoredNumber_Double(v) ==
  IF v.kind \in Numeric THEN [kind |-> "float64", n |-> Rounded[v.n]] ELSE v

\* What is read of a stored number.
StoredNumber(v) ==
  CASE StoredAsInt(v) -> [kind |-> "int", n |-> v.n]
    [] v.kind \in Numeric /\ ~StoredAsInt(v) -> [kind |-> "float64", n |-> Rounded[v.n]]
    [] OTHER -> v

\* What is read of a stored value: embedded documents come back as bson.M.
Persisted(v) ==
  IF v.kind \in {"object", "bsonM"} THEN Object("bsonM", v.n, StoredNumber(v.inner))
                                   ELSE StoredNumber(v)

------------------------------------------------------------------------------
VARIABLES
  type,     \* of the field
  sent,     \* the value a caller passed to SaveDraft or SetFieldValue
  value,    \* the value where it is now
  text,     \* its part of the exported JSON
  decoder,  \* how the receiving application unmarshals JSON
  pc
vars == <<type, sent, value, text, decoder, pc>>

Init ==
  /\ type \in FieldType
  /\ sent \in Offered
  /\ value = sent
  /\ text = None
  /\ decoder \in {"float64", "number"}
  /\ pc = "offered"

Move(from, to) == pc = from /\ pc' = to /\ UNCHANGED <<type, sent, decoder>>

Validate ==
  /\ Move("offered", IF ValidateValue(type, value) THEN "valid" ELSE "invalid")
  /\ UNCHANGED <<value, text>>

Store ==
  /\ Move("valid", IF Storable(value) THEN "stored" ELSE "unstorable")
  /\ value' = IF Storable(value) THEN Persisted(value) ELSE value
  /\ UNCHANGED text

\* The caller saves what it read.
SaveAgain ==
  /\ Move("stored", IF ValidateValue(type, value) THEN "stored" ELSE "refused")
  /\ value' = IF ValidateValue(type, value) THEN Persisted(value) ELSE value
  /\ UNCHANGED text

ExportValue ==
  /\ Move("stored", "exported")
  /\ text' = Text(value)
  /\ UNCHANGED value

Receive ==
  /\ Move("exported", "received")
  /\ value' = Decoded(text, decoder)
  /\ UNCHANGED text

\* validateContentExport: the checksum of what was received.
CheckPayload ==
  /\ Move("received", IF Text(value) = text THEN "checked" ELSE "mismatch")
  /\ UNCHANGED <<value, text>>

\* ReplaceAll: the checksum of what was stored.
Install ==
  /\ value' = Persisted(value)
  /\ Move("checked", IF Text(value') = text THEN "installed" ELSE "mismatch")
  /\ UNCHANGED text

Ended ==
  /\ pc \in {"invalid", "unstorable", "refused", "mismatch", "installed"}
  /\ UNCHANGED vars

Next == Validate \/ Store \/ SaveAgain \/ ExportValue \/ Receive \/ CheckPayload \/ Install \/ Ended

Spec == Init /\ [][Next]_vars
=============================================================================
