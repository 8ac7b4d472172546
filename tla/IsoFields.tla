----------------------------- MODULE IsoFields -----------------------------
(***************************************************************************)
(* The fields of an ISO 8583 message the relays compute with: amounts of   *)
(* eight digits and identifiers padded to eleven.  A string of digits is a *)
(* sequence, an amount a number of hundredths: what is divided by 100 on   *)
(* the way in is multiplied by 100, exactly, on the way out.               *)
(***************************************************************************)
EXTENDS Naturals, Sequences, FiniteSets

\* The decimal digits of n, most significant first, and what they stand for.
Digits[n \in Nat] ==
  IF n < 10 THEN <<n>> ELSE Append(Digits[n \div 10], n % 10)

Number(digits) ==
  LET upTo[i \in 0..Len(digits)] ==
        IF i = 0 THEN 0 ELSE 10 * upTo[i - 1] + digits[i]
  IN  upTo[Len(digits)]

\* Mutant: padded on the right.
Pad_Right(value, length, char) ==
  IF Len(value) >= length THEN SubSeq(value, 1, length)
    ELSE value \o [i \in 1..(length - Len(value)) |-> char]

\* A value that is too long keeps its first characters.
Pad(value, length, char) ==
  IF Len(value) >= length THEN SubSeq(value, 1, length)
    ELSE [i \in 1..(length - Len(value)) |-> char] \o value

\* replace(/^0+/g, '')
LeadingZeros(value) ==
  {i \in DOMAIN value : \A j \in 1..i : value[j] = 0}
StripZeros(value) ==
  SubSeq(value, Cardinality(LeadingZeros(value)) + 1, Len(value))

-----------------------------------------------------------------------------
(* Fees: field 28 of the request, field 30 of its approval. *)

CalculateFee(field28) == Number(field28)
FeeField(fees) == Pad(Digits[fees], 8, 0)

-----------------------------------------------------------------------------
(* The original data elements of a reversal advice, field 90. *)

\* A stored message: stan stands for its type, time and trace number (fields
\* 0, 7 and 11); acquirer and forwarder are fields 32 and 33, empty if absent.
\* The terminal fills the identifiers up with zeros.
OriginalData(trace) ==
  [stan |-> trace.stan, acquirer |-> Pad(trace.acquirer, 11, 0),
   forwarder |-> Pad(trace.forwarder, 11, 0)]

\* An identifier of zeros only is not asked for.
Asks(field, id) == StripZeros(field) # <<>> => StripZeros(field) = id

\* The conditions of the query of mapFromReversalAdvice.
Names(data, trace) ==
  /\ data.stan = trace.stan
  /\ Asks(data.acquirer, trace.acquirer)
  /\ Asks(data.forwarder, trace.forwarder)
=============================================================================
