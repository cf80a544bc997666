------------------------ MODULE FieldValueProperties ------------------------
(***************************************************************************)
(* The correctness properties of a field value on its way through          *)
(* validation, the store and a transfer.                                   *)
(***************************************************************************)
EXTENDS FieldValues

IntegerField == type = "integer" /\ sent.kind \in Numeric
Fits(n) == n \in Whole /\ MinInt64 <= n /\ n <= MaxInt64

\* An integer field takes exactly the integers of 64 bits, whatever Go type they
\* come in; a json.Number has to spell them without fraction or exponent
\* (isInteger, validate.go:115-136: float64(MaxInt64) rounds up to 2^63).
AcceptedIffInt64 ==
  IntegerField =>
    /\ pc = "invalid" => ~Fits(sent.n) \/ sent.kind = "decimal"
    /\ pc \notin {"offered", "invalid"} => Fits(sent.n) /\ sent.kind # "decimal"

\* BSON has a type for the number.
BsonHolds(v) ==
  /\ v.kind = "uint" => v.n <= MaxInt64
  /\ v.kind \in {"digits", "decimal"} => StoredAsInt(v) \/ v.n \in Float64s

\* What validation accepts the driver stores, and the number that is read is the one
\* that was sent, also inside an object if BSON has a type for it; what is no object
\* is accepted again, as often as it is saved (validateValue, validate.go:82-112,
\* looks at no number inside an object).
StoresAsSaved ==
  /\ sent.kind # "object" \/ BsonHolds(sent.inner) =>
       /\ pc # "unstorable"
       /\ pc \in {"stored", "exported"} => Core(value).n = Core(sent).n
  /\ sent.kind # "object" => pc # "refused"

\* An object that was accepted and stored is accepted again when the caller saves
\* what it has read: it is still a map[string]any (mongo.go:34-37, validate.go:99).
ObjectsRoundTrip == sent.kind = "object" => pc # "refused"

\* Whether every number between them has a float64 of its own, or nothing on the
\* way makes a float64 of it.
Carried ==
  LET v == Core(sent) IN
  \/ v.kind \notin Numeric
  \/ v.n \in Float64s /\ -(2 * 2^P) <= v.n /\ v.n <= 2 * 2^P
  \/ /\ v.kind \in {"int", "uint", "digits"} /\ decoder = "number"
     /\ MinInt64 <= v.n /\ v.n <= MaxInt64

\* A transfer through JSON installs every string, every number of up to 53 bits, and
\* every 64-bit integer that was not sent as a float if the receiver reads numbers as
\* json.Number, and so every object with such a number inside: both checksums agree
\* and the number is the same (transfer.go:80-86, 118-127, persistor.go:151-161).
\* Beyond that an exported payload may be refused.
TransferKeeps ==
  Carried => /\ pc # "mismatch"
             /\ pc = "installed" => Core(value).n = Core(sent).n
=============================================================================
