------------------------------ MODULE LoanCodec ------------------------------
(***************************************************************************)
(* The fixed-width codec of the loan accrual port as LND-4127 leaves it:   *)
(* pyledger/copybook.py, layouts.py and the PICTURE helpers of numeric.py. *)
(* Amounts are integers in units of their PICTURE's last decimal; a        *)
(* PICTURE is its capacity (10 to the number of digits), its sign and its  *)
(* usage; a numeric field on disk is its digits and the zone or sign       *)
(* nibble of the last one.                                                 *)
(***************************************************************************)
EXTENDS Integers

CONSTANT Width      \* capacity of each kind of numeric item

WidthKinds == {"account", "money", "amount", "interest", "fee", "days", "period", "tier",
               "rate", "count", "hash", "total"}

ASSUME WidthAssumption == Width \in [WidthKinds -> Nat \ {0}]

Magnitude(v) == IF v < 0 THEN -v ELSE v

Numeric(kind, signed, usage) ==
    [cap |-> Width[kind], signed |-> signed, usage |-> usage]

Alphanumeric == [cap |-> 1, signed |-> FALSE, usage |-> "ALNUM"]

(* MOVE to a signed item: digits beyond the capacity go, the sign stays. *)
FitToPic(v, pic) ==
    LET magnitude == Magnitude(v) % pic.cap
    IN  IF v < 0 /\ pic.signed THEN -magnitude ELSE magnitude

-----------------------------------------------------------------------------
(* DISPLAY: the sign is in the zone of the last digit. *)

(* A slip for TrailerAddsUp: the codec as the port had it, all zones positive. *)
EncodeUnsigned(v, pic) ==
    [digits |-> Magnitude(FitToPic(v, pic)),
     zone |-> IF pic.signed THEN "positive" ELSE "plain"]

EncodeDisplay(v, pic) ==
    LET fitted == FitToPic(v, pic)
    IN  [digits |-> Magnitude(fitted),
         zone |-> IF ~pic.signed THEN "plain" ELSE IF fitted < 0 THEN "negative" ELSE "positive"]

DisplayZones(pic) == IF pic.signed THEN {"positive", "negative", "plain"} ELSE {"plain"}

(* _DECODE_OVERPUNCH *)
DecodeDisplay(raw) == IF raw.zone = "negative" THEN -raw.digits ELSE raw.digits

(* COMP-3: the sign is the last nibble. *)
EncodeComp3(v, pic) ==
    LET fitted == FitToPic(v, pic)
    IN  [digits |-> Magnitude(fitted),
         zone |-> IF fitted < 0 THEN "D" ELSE IF pic.signed THEN "C" ELSE "F"]

Comp3Signs == {"C", "D", "F"}

DecodeComp3(raw) == IF raw.zone = "D" THEN -raw.digits ELSE raw.digits

-----------------------------------------------------------------------------
(* Field and Layout. *)

EncodeField(v, pic) ==
    CASE pic.usage = "ALNUM" -> v
      [] pic.usage = "COMP-3" -> EncodeComp3(v, pic)
      [] pic.usage = "DISPLAY" -> EncodeDisplay(v, pic)

(* Field.decode raises ValueError on any other zone or nibble. *)
Decodable(raw, pic) ==
    raw.zone \in (IF pic.usage = "COMP-3" THEN Comp3Signs ELSE DisplayZones(pic))

DecodeField(raw, pic) ==
    IF pic.usage = "COMP-3" THEN DecodeComp3(raw) ELSE DecodeDisplay(raw)

EncodeRecord(layout, values) == [f \in DOMAIN layout |-> EncodeField(values[f], layout[f])]

Display(kind) == Numeric(kind, FALSE, "DISPLAY")
SignedDisplay(kind) == Numeric(kind, TRUE, "DISPLAY")

(* The fields of LNMAST and LNTRAN whose encoding matters to the batch. *)
Lnmast == [principal |-> SignedDisplay("money"),
           paymentDue |-> Numeric("amount", FALSE, "COMP-3")]

Lntran == [amount |-> SignedDisplay("amount")]

LnoutDetail ==
    [account |-> Display("account"), product |-> Alphanumeric, asof |-> Alphanumeric,
     balance |-> SignedDisplay("money"), accrued |-> SignedDisplay("interest"),
     lateFee |-> Display("fee"), daysLate |-> Display("days"), status |-> Alphanumeric,
     tier |-> Display("tier"), rate |-> Display("rate"), accrDays |-> Display("days"),
     recType |-> Alphanumeric]

LnoutTrailer ==
    [count |-> Display("count"), hash |-> Display("hash"),
     totAccrued |-> SignedDisplay("money"), totFees |-> Display("money"),
     totBalance |-> SignedDisplay("total"), recType |-> Alphanumeric]

=============================================================================
