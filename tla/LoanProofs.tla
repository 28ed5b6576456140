------------------------------ MODULE LoanProofs ------------------------------
(***************************************************************************)
(* Theorems about pyledger.  The codec, for every width of its fields:     *)
(* what FitToPic keeps, what a value is after it was written and read.     *)
(* The comparison of two datasets: what a MATCH says of any two files.     *)
(* The calculators: the port and LNACCR01 have the same result for every   *)
(* account.  The batch, for any number of jobs: what is on disk at any     *)
(* moment, and that a run which had the file to itself leaves there what   *)
(* LNACCR01 writes.                                                        *)
(***************************************************************************)
EXTENDS LoanProperties, SequenceTheorems, SumProofs

(* A PICTURE as numeric.py knows it: copybook.py parses nothing else. *)
Picture == [cap : Nat \ {0}, signed : BOOLEAN, usage : {"DISPLAY", "COMP-3"}]

(* The values an item of the PICTURE holds. *)
Held(pic) == {v \in Int : Magnitude(v) < pic.cap /\ (pic.signed \/ v >= 0)}

(* The remainder of a division is below the divisor, and a number below it *)
(* is its own remainder.                                                   *)
LEMMA Remainder ==
    ASSUME NEW n \in Nat, NEW c \in Nat \ {0}
    PROVE  n % c \in 0 .. c - 1
PROOF BY SMT

LEMMA SmallRemainder ==
    ASSUME NEW c \in Nat \ {0}, NEW n \in 0 .. c - 1
    PROVE  n % c = n
PROOF BY SMT

LEMMA FitToPicType ==
    ASSUME NEW v \in Int, NEW pic \in Picture
    PROVE  FitToPic(v, pic) \in Held(pic)
PROOF
<1>1. Magnitude(v) \in Nat
  BY DEF Magnitude
<1>2. pic.cap \in Nat \ {0} /\ pic.signed \in BOOLEAN
  BY DEF Picture
<1> DEFINE m == Magnitude(v) % pic.cap
<1>3. m \in 0 .. pic.cap - 1
  BY <1>1, <1>2, Remainder
<1>4. CASE v < 0 /\ pic.signed
  <2>1. FitToPic(v, pic) = -m
    BY <1>4 DEF FitToPic
  <2> QED
    BY <1>2, <1>3, <1>4, <2>1 DEF Held, Magnitude
<1>5. CASE ~(v < 0 /\ pic.signed)
  <2>1. FitToPic(v, pic) = m
    BY <1>5 DEF FitToPic
  <2> QED
    BY <1>2, <1>3, <2>1 DEF Held, Magnitude
<1> QED
  BY <1>4, <1>5

(* FitToPic changes nothing that the item can hold. *)
LEMMA HeldIsKept ==
    ASSUME NEW pic \in Picture, NEW v \in Held(pic)
    PROVE  FitToPic(v, pic) = v
PROOF
<1>1. pic.cap \in Nat \ {0} /\ pic.signed \in BOOLEAN
  BY DEF Picture
<1>2. v \in Int /\ Magnitude(v) \in 0 .. pic.cap - 1 /\ (pic.signed \/ v >= 0)
  BY <1>1 DEF Held, Magnitude
<1>3. Magnitude(v) % pic.cap = Magnitude(v)
  BY <1>1, <1>2, SmallRemainder
<1> QED
  BY <1>2, <1>3 DEF FitToPic, Magnitude

-----------------------------------------------------------------------------
(* Writing and reading. *)

(***************************************************************************)
(* A COMP-3 field gives back what FitToPic made of the value, sign and     *)
(* all, and its nibble is one that Field.decode accepts (encode_comp3,     *)
(* decode_comp3).                                                          *)
(***************************************************************************)
THEOREM Comp3RoundTrip ==
    ASSUME NEW pic \in Picture, NEW v \in Int, pic.usage = "COMP-3"
    PROVE  /\ Decodable(EncodeField(v, pic), pic)
           /\ DecodeField(EncodeField(v, pic), pic) = FitToPic(v, pic)
PROOF
<1> DEFINE fitted == FitToPic(v, pic)
<1>1. fitted \in Int
  BY FitToPicType DEF Held
<1>2. EncodeField(v, pic) =
        [digits |-> Magnitude(fitted),
         zone |-> IF fitted < 0 THEN "D" ELSE IF pic.signed THEN "C" ELSE "F"]
  BY DEF EncodeField, EncodeComp3
<1> HIDE DEF fitted
<1> QED
  BY <1>1, <1>2 DEF Decodable, Comp3Signs, DecodeField, DecodeComp3, Magnitude, fitted

(***************************************************************************)
(* So does a DISPLAY field: the zone of the last digit carries the sign    *)
(* (encode_display, decode_display).                                       *)
(***************************************************************************)
THEOREM DisplayRoundTrip ==
    ASSUME NEW pic \in Picture, NEW v \in Int, pic.usage = "DISPLAY"
    PROVE  /\ Decodable(EncodeField(v, pic), pic)
           /\ DecodeField(EncodeField(v, pic), pic) = FitToPic(v, pic)
PROOF
<1> DEFINE fitted == FitToPic(v, pic)
<1>1. fitted \in Int /\ (pic.signed \/ fitted >= 0)
  BY FitToPicType DEF Held
<1>2. EncodeField(v, pic) =
        [digits |-> Magnitude(fitted),
         zone |-> IF ~pic.signed THEN "plain" ELSE IF fitted < 0 THEN "negative" ELSE "positive"]
  BY DEF EncodeField, EncodeDisplay
<1>3. DecodeField(EncodeField(v, pic), pic) =
        IF pic.signed /\ fitted < 0 THEN -Magnitude(fitted) ELSE Magnitude(fitted)
  <2> HIDE DEF fitted
  <2> QED
    BY <1>2 DEF DecodeField, DecodeDisplay
<1> HIDE DEF fitted
<1>4. Decodable(EncodeField(v, pic), pic)
  BY <1>2 DEF Decodable, DisplayZones
<1> QED
  BY <1>1, <1>3, <1>4 DEF Magnitude, fitted

-----------------------------------------------------------------------------
(* Sums. *)

LEMMA RemainderIsUnique ==
    ASSUME NEW c \in Nat \ {0}, NEW q \in Int, NEW r \in 0 .. c - 1
    PROVE  (q * c + r) % c = r
PROOF BY SMT

LEMMA DivisionIdentity ==
    ASSUME NEW c \in Nat \ {0}, NEW n \in Int
    PROVE  /\ n \div c \in Int
           /\ n % c \in 0 .. c - 1
           /\ n = (n \div c) * c + (n % c)
PROOF
<1>1. n \div c \in Int
  BY SMT
<1>2. n % c \in 0 .. c - 1
  BY SMT
<1>3. n = (n \div c) * c + (n % c)
  BY SMT
<1>4. QED
  BY <1>1, <1>2, <1>3

LEMMA SumModulo ==
    ASSUME NEW c \in Nat \ {0}, NEW a \in Int, NEW b \in Int
    PROVE  ((a % c) + b) % c = (a + b) % c
PROOF
<1> DEFINE r == a % c
           q == a \div c
           s == (r + b) % c
           p == (r + b) \div c
<1>1. q \in Int /\ r \in 0 .. c - 1 /\ a = q * c + r
  BY DivisionIdentity
<1>2. p \in Int /\ s \in 0 .. c - 1 /\ r + b = p * c + s
  BY <1>1, DivisionIdentity
<1> HIDE DEF r, q, s, p
<1>3. a + b = (q + p) * c + s
  BY <1>1, <1>2, SMT
<1>4. ((q + p) * c + s) % c = s
  BY <1>1, <1>2, RemainderIsUnique
<1> QED
  BY <1>3, <1>4 DEF s, r

(***************************************************************************)
(* While everything added is not negative, a total that is truncated at    *)
(* every account (BatchTotals.add) is the sum truncated once: the trailer  *)
(* does not depend on the order of the master.                             *)
(***************************************************************************)
THEOREM TotalsTruncateOnce ==
    ASSUME NEW pic \in Picture, NEW total \in Nat, NEW amount \in Nat
    PROVE  FitToPic(FitToPic(total, pic) + amount, pic) = FitToPic(total + amount, pic)
PROOF
<1> DEFINE c == pic.cap
           r == total % c
<1>1. c \in Nat \ {0}
  BY DEF Picture
<1>2. FitToPic(total, pic) = r
  BY <1>1 DEF FitToPic, Magnitude
<1>3. FitToPic(total + amount, pic) = (total + amount) % c
  BY <1>1 DEF FitToPic, Magnitude
<1> HIDE DEF c
<1>4. r \in 0 .. c - 1
  BY <1>1, Remainder
<1>5. r \in Nat
  BY <1>1, <1>4
<1> HIDE DEF r
<1>6. FitToPic(r + amount, pic) = (r + amount) % c
  BY <1>1, <1>5 DEF FitToPic, Magnitude, c
<1>7. (r + amount) % c = (total + amount) % c
  <2>1. total \in Int /\ amount \in Int
    OBVIOUS
  <2> QED
    BY <1>1, <2>1, SumModulo, Zenon DEF r
<1> QED
  BY <1>2, <1>3, <1>6, <1>7

-----------------------------------------------------------------------------
(* Two datasets that recon finds equal. *)

Places(dataset) == 1 .. Len(dataset) \div 2

LEMMA MaxOfOne ==
    ASSUME NEW k \in Int
    PROVE  Max({k}) = k
PROOF
  BY DEF Max

(***************************************************************************)
(* In a dataset without structural errors a detail is the one that its     *)
(* account leads to, and there is one record more than there are accounts. *)
(***************************************************************************)
LEMMA OneDetailPerKey ==
    ASSUME NEW f, StructureOk(f)
    PROVE  /\ IsFiniteSet(Keys(f)) /\ Cardinality(Keys(f)) \in Nat
           /\ Len(f) = 2 * (Cardinality(Keys(f)) + 1)
           /\ \A k \in OfType(f, "D") : DetailFor(f, KeyOf(Records(f)[k])) = Records(f)[k]
PROOF
<1> DEFINE D == OfType(f, "D")
           T == OfType(f, "T")
           n == Len(f) \div 2
           K == Keys(f)
           g == [k \in D |-> KeyOf(Records(f)[k])]
<1>1. Len(f) = 2 * n /\ n \in Nat
  <2>1. Len(f) \in Nat /\ Len(f) % 2 = 0
    BY DEF StructureOk
  <2> QED
    BY <2>1
<1>2. D \cup T = 1..n /\ D \cap T = {} /\ D \subseteq Nat
  BY DEF StructureOk, OfType
<1>3. Cardinality(K) = Cardinality(D) /\ Cardinality(T) = 1
  BY DEF StructureOk, NoDuplicate, OneTrailer
<1>4. g \in Surjection(D, K)
  BY DEF Surjection, Keys
<1>5. K = {KeyOf(Records(f)[k]) : k \in D}
  BY DEF Keys
<1>6. ASSUME NEW k \in D, NEW l \in D, KeyOf(Records(f)[k]) = KeyOf(Records(f)[l])
      PROVE  k = l
  <2>1. IsFiniteSet(D)
    <3> HIDE DEF D, T, n
    <3>1. IsFiniteSet(1..n) /\ D \in SUBSET (1..n)
      BY <1>1, <1>2, FS_Interval
    <3> QED
      BY <3>1, FS_Subset
  <2>2. g \in Injection(D, K)
    <3> HIDE DEF D, T, n, K, g
    <3> QED
      BY <1>3, <1>4, <2>1, FS_Surjection
  <2> QED
    BY <1>6, <2>2 DEF Injection, IsInjective
<1>7. /\ IsFiniteSet(K) /\ Cardinality(K) \in Nat
      /\ n = Cardinality(K) + 1
  <2> HIDE DEF D, T, n, K, g
  <2>1. IsFiniteSet(1..n) /\ Cardinality(1..n) = n
    BY <1>1, FS_Interval
  <2>2. D \in SUBSET (1..n) /\ T \in SUBSET (1..n)
    BY <1>2
  <2>3. IsFiniteSet(D) /\ IsFiniteSet(T)
    BY <2>1, <2>2, FS_Subset
  <2>4. Cardinality(D \cup T) = Cardinality(D) + Cardinality(T) - Cardinality(D \cap T)
    BY <2>3, FS_Union
  <2>5. Cardinality(D) \in Nat /\ Cardinality({}) = 0
    BY <2>3, FS_CardinalityType, FS_EmptySet
  <2>6. IsFiniteSet(K)
    BY <1>4, <2>3, FS_Surjection
  <2>7. Cardinality(D \cup T) = n /\ Cardinality(D \cap T) = 0
    BY <1>2, <2>1, <2>5
  <2> QED
    BY <1>3, <2>4, <2>5, <2>6, <2>7
<1>8. ASSUME NEW k \in D
      PROVE  DetailFor(f, KeyOf(Records(f)[k])) = Records(f)[k]
  <2> DEFINE key == KeyOf(Records(f)[k])
             S == {l \in D : KeyOf(Records(f)[l]) = key}
  <2>1. S = {k}
    BY <1>6
  <2>2. DetailFor(f, key) = Records(f)[Max(S)]
    BY DEF DetailFor
  <2> HIDE DEF S
  <2>3. Max(S) = k
    BY <1>2, <2>1, MaxOfOne
  <2> QED
    BY <2>2, <2>3
<1> QED
  BY <1>1, <1>7, <1>8

LEMMA CleanIsSame ==
    ASSUME NEW f, NEW g, Clean(f, g)
    PROVE  Len(g) = Len(f) /\ RecordsOf(g) = RecordsOf(f)
PROOF
<1>1. StructureOk(f) /\ StructureOk(g) /\ Keys(f) = Keys(g)
  BY DEF Clean, Missing, Extra
<1>2. Len(g) = Len(f)
  BY <1>1, OneDetailPerKey
<1>3. Trailers(f) = Trailers(g)
  BY <1>1 DEF Clean, TrailersDiffer, StructureOk
<1>4. \A key \in Keys(f) : DetailFor(f, key) = DetailFor(g, key)
  BY <1>1 DEF Clean, Mismatched
<1>5. ASSUME NEW x, NEW y, StructureOk(x), StructureOk(y), Keys(x) = Keys(y),
             Trailers(x) = Trailers(y),
             \A key \in Keys(x) : DetailFor(x, key) = DetailFor(y, key)
      PROVE  RecordsOf(x) \subseteq RecordsOf(y)
  <2> SUFFICES ASSUME NEW k \in DOMAIN Records(x)
               PROVE  Records(x)[k] \in RecordsOf(y)
    BY DEF RecordsOf
  <2>1. k \in OfType(x, "D") \cup OfType(x, "T")
    BY <1>5 DEF StructureOk, Records
  <2>2. \A type : OfType(y, type) \subseteq DOMAIN Records(y)
    BY DEF OfType, Records
  <2>3. CASE k \in OfType(x, "D")
    <3>1. KeyOf(Records(x)[k]) \in Keys(x)
      BY <2>3 DEF Keys
    <3>2. PICK l \in OfType(y, "D") : KeyOf(Records(y)[l]) = KeyOf(Records(x)[k])
      BY <1>5, <3>1 DEF Keys
    <3>3. Records(x)[k] = Records(y)[l]
      BY <1>5, <2>3, <3>1, <3>2, OneDetailPerKey
    <3> QED
      BY <2>2, <3>3 DEF RecordsOf
  <2>4. CASE k \in OfType(x, "T")
    <3>1. Records(x)[k] \in Trailers(y)
      BY <1>5, <2>4 DEF Trailers
    <3> QED
      BY <2>2, <3>1 DEF Trailers, RecordsOf
  <2> QED
    BY <2>1, <2>3, <2>4
<1>6. RecordsOf(f) \subseteq RecordsOf(g) /\ RecordsOf(g) \subseteq RecordsOf(f)
  BY <1>1, <1>3, <1>4, <1>5
<1> QED
  BY <1>2, <1>6

(***************************************************************************)
(* When `pyledger recon` reports MATCH the output has the mainframe's      *)
(* records, all of them and no others, whatever wrote the file and         *)
(* whenever it is read (split_records, reconcile).                         *)
(***************************************************************************)
THEOREM MatchMeansSame == Spec => []CleanMeansSame
PROOF
<1>1. CleanMeansSame
  BY CleanIsSame DEF CleanMeansSame
<1> QED
  BY <1>1, PTL

-----------------------------------------------------------------------------
(* Sequences of cells. *)

IsSequence(s) == s \in Seq(Range(s))

LEMMA SequenceIs ==
    ASSUME NEW s, IsSequence(s)
    PROVE  Len(s) \in Nat /\ DOMAIN s = 1 .. Len(s)
PROOF
  BY LenProperties DEF IsSequence

LEMMA FunctionIsSequence ==
    ASSUME NEW n \in Nat, NEW s, DOMAIN s = 1 .. n, s = [i \in DOMAIN s |-> s[i]]
    PROVE  IsSequence(s) /\ Len(s) = n
PROOF
<1>1. s \in [1 .. n -> Range(s)]
  BY DEF Range
<1> QED
  BY <1>1 DEF IsSequence

LEMMA RangeIs ==
    ASSUME NEW S, NEW s \in Seq(S)
    PROVE  IsSequence(s)
PROOF
<1>1. DOMAIN s = 1 .. Len(s) /\ s = [i \in DOMAIN s |-> s[i]] /\ Len(s) \in Nat
  BY LenProperties
<1> QED
  BY <1>1, FunctionIsSequence

LEMMA ConcatIs ==
    ASSUME NEW s, IsSequence(s), NEW t, IsSequence(t)
    PROVE  /\ IsSequence(s \o t) /\ Len(s \o t) = Len(s) + Len(t)
           /\ \A i \in 1 .. Len(s) + Len(t) :
                (s \o t)[i] = IF i <= Len(s) THEN s[i] ELSE t[i - Len(s)]
PROOF
<1> DEFINE S == Range(s) \cup Range(t)
<1>1. s \in Seq(S) /\ t \in Seq(S)
  BY SeqMonotonic DEF IsSequence
<1> HIDE DEF S
<1>2. /\ s \o t \in Seq(S) /\ Len(s \o t) = Len(s) + Len(t)
      /\ \A i \in 1 .. Len(s) + Len(t) : (s \o t)[i] = IF i <= Len(s) THEN s[i] ELSE t[i - Len(s)]
  BY <1>1, ConcatProperties
<1>3. IsSequence(s \o t)
  BY <1>2, RangeIs
<1> QED
  BY <1>2, <1>3

LEMMA PairIs ==
    ASSUME NEW a, NEW b
    PROVE  IsSequence(<<a, b>>) /\ Len(<<a, b>>) = 2
PROOF
<1>1. <<a, b>> \in Seq({a, b}) /\ Len(<<a, b>>) = 2
  OBVIOUS
<1>2. Range(<<a, b>>) = {a, b}
  BY <1>1 DEF Range
<1> QED
  BY <1>1, <1>2 DEF IsSequence

LEMMA PartIs ==
    ASSUME NEW s, IsSequence(s), NEW m \in 1 .. Len(s) + 1, NEW n \in m - 1 .. Len(s)
    PROVE  /\ IsSequence(SubSeq(s, m, n)) /\ Len(SubSeq(s, m, n)) = n - m + 1
           /\ \A i \in 1 .. n - m + 1 : SubSeq(s, m, n)[i] = s[m + i - 1]
PROOF
<1>1. Len(s) \in Nat /\ \A i \in m .. n : s[i] \in Range(s)
  BY SequenceIs DEF Range
<1>2. /\ SubSeq(s, m, n) \in Seq(Range(s)) /\ Len(SubSeq(s, m, n)) = n - m + 1
      /\ \A i \in 1 .. n - m + 1 : SubSeq(s, m, n)[i] = s[m + i - 1]
  BY <1>1, SubSeqProperties
<1>3. IsSequence(SubSeq(s, m, n))
  BY <1>2, RangeIs
<1> QED
  BY <1>2, <1>3

(* A write leaves a sequence, with Nul in the gap if it began past the end. *)
LEMMA OverlaidIs ==
    ASSUME IsSequence(file), NEW cells, IsSequence(cells), NEW from \in Nat
    PROVE  LET size == IF Len(file) >= from + Len(cells) THEN Len(file) ELSE from + Len(cells)
           IN  /\ IsSequence(Overlaid(cells, from)) /\ Len(Overlaid(cells, from)) = size
               /\ \A i \in 1 .. size :
                    Overlaid(cells, from)[i] = IF i \in from + 1 .. from + Len(cells)
                                               THEN cells[i - from]
                                               ELSE IF i <= Len(file) THEN file[i] ELSE Nul
PROOF
<1>1. PICK end \in Nat : end = from + Len(cells)
  BY SequenceIs
<1>2. PICK size \in Nat : size = IF Len(file) >= end THEN Len(file) ELSE end
  BY SequenceIs
<1>3. Max({Len(file), end}) = size
  BY <1>2, SequenceIs DEF Max
<1> DEFINE s == [i \in 1 .. size |-> IF i \in from + 1 .. from + Len(cells) THEN cells[i - from]
                                     ELSE IF i <= Len(file) THEN file[i] ELSE Nul]
<1>4. Overlaid(cells, from) = s
  BY <1>1, <1>3 DEF Overlaid
<1>5. DOMAIN s = 1 .. size /\ s = [i \in DOMAIN s |-> s[i]]
  OBVIOUS
<1>6. \A i \in 1 .. size : s[i] = IF i \in from + 1 .. from + Len(cells) THEN cells[i - from]
                                  ELSE IF i <= Len(file) THEN file[i] ELSE Nul
  OBVIOUS
<1> HIDE DEF s
<1>7. IsSequence(s) /\ Len(s) = size
  BY <1>5, FunctionIsSequence
<1> QED
  BY <1>1, <1>2, <1>4, <1>6, <1>7

-----------------------------------------------------------------------------
(* The types of LoanBatch. *)

Layouts == {LnoutDetail, LnoutTrailer}

IsCell(c) ==
    \/ c = Nul
    \/ \E layout \in Layouts : DOMAIN c \in {DOMAIN FrontHalf(layout), DOMAIN BackHalf(layout)}

HoldsCells(s) == IsSequence(s) /\ \A i \in DOMAIN s : IsCell(s[i])

(* How far a job that writes is through its master, and what it has        *)
(* written, on disk or in its buffer, by then.                             *)
Walk(j) ==
    LET written == offset[j] + Len(buffer[j])
        size == Len(input[j].master)
    IN  /\ pc[j] \in {"details", "raised"} =>
                next[j] \in 1 .. size + 1 /\ written <= 2 * (next[j] - 1)
        /\ pc[j] = "close" => next[j] = size + 1 /\ written <= 2 * (size + 1)

Stages == Ended \cup {"load", "details", "close", "raised"}

JobTypes ==
    /\ pc \in [Jobs -> Stages] /\ input \in [Jobs -> Inputs]
    /\ alone \in [Jobs -> BOOLEAN] /\ runs \in [Jobs -> 0 .. MaxRuns]
    /\ next \in [Jobs -> Nat] /\ offset \in [Jobs -> Nat]
    /\ DOMAIN buffer = Jobs /\ DOMAIN totals = Jobs

WriterInv ==
    /\ JobTypes
    /\ HoldsCells(file)
    /\ \A j \in Jobs : /\ HoldsCells(buffer[j])
                       /\ DOMAIN totals[j] = DOMAIN NoTotals
                       /\ Walk(j)

LEMMA CellsAre ==
    ASSUME NEW layout \in Layouts, NEW values
    PROVE  /\ HoldsCells(CellsOf(EncodeRecord(layout, values)))
           /\ Len(CellsOf(EncodeRecord(layout, values))) = 2
PROOF
<1> DEFINE rec == EncodeRecord(layout, values)
<1>1. DOMAIN rec = DOMAIN layout
  BY DEF EncodeRecord
<1>2. DOMAIN FrontHalf(rec) = DOMAIN FrontHalf(layout)
      /\ DOMAIN BackHalf(rec) = DOMAIN BackHalf(layout)
  BY <1>1 DEF FrontHalf, BackHalf, Restrict
<1> HIDE DEF rec
<1>3. IsSequence(CellsOf(rec)) /\ Len(CellsOf(rec)) = 2
  BY PairIs DEF CellsOf
<1>4. IsCell(FrontHalf(rec)) /\ IsCell(BackHalf(rec))
  BY <1>2 DEF IsCell
<1>5. \A i \in DOMAIN CellsOf(rec) : IsCell(CellsOf(rec)[i])
  BY <1>4 DEF CellsOf
<1> QED
  BY <1>3, <1>5 DEF HoldsCells, rec

LEMMA ConcatHoldsCells ==
    ASSUME NEW s, HoldsCells(s), NEW t, HoldsCells(t)
    PROVE  HoldsCells(s \o t) /\ Len(s \o t) = Len(s) + Len(t)
PROOF
<1>1. /\ IsSequence(s) /\ IsSequence(t)
      /\ \A i \in 1 .. Len(s) : IsCell(s[i])
      /\ \A i \in 1 .. Len(t) : IsCell(t[i])
  BY SequenceIs DEF HoldsCells
<1>2. Len(s) \in Nat /\ Len(t) \in Nat
  BY <1>1, SequenceIs
<1>3. /\ IsSequence(s \o t) /\ Len(s \o t) = Len(s) + Len(t)
      /\ \A i \in 1 .. Len(s) + Len(t) : (s \o t)[i] = IF i <= Len(s) THEN s[i] ELSE t[i - Len(s)]
  BY <1>1, ConcatIs
<1>4. DOMAIN (s \o t) = 1 .. Len(s) + Len(t)
  BY <1>3, SequenceIs
<1>5. ASSUME NEW i \in 1 .. Len(s) + Len(t)
      PROVE  IsCell((s \o t)[i])
  <2>1. CASE i <= Len(s)
    BY <1>1, <1>3, <2>1
  <2>2. CASE ~(i <= Len(s))
    <3>1. i - Len(s) \in 1 .. Len(t)
      BY <1>2, <2>2
    <3> QED
      BY <1>1, <1>3, <2>2, <3>1
  <2> QED
    BY <2>1, <2>2
<1> QED
  BY <1>3, <1>4, <1>5 DEF HoldsCells

LEMMA PartHoldsCells ==
    ASSUME NEW s, HoldsCells(s), NEW m \in 1 .. Len(s) + 1, NEW n \in m - 1 .. Len(s)
    PROVE  HoldsCells(SubSeq(s, m, n)) /\ Len(SubSeq(s, m, n)) = n - m + 1
PROOF
<1>1. IsSequence(s) /\ \A i \in 1 .. Len(s) : IsCell(s[i])
  BY SequenceIs DEF HoldsCells
<1>2. Len(s) \in Nat
  BY <1>1, SequenceIs
<1>3. /\ IsSequence(SubSeq(s, m, n)) /\ Len(SubSeq(s, m, n)) = n - m + 1
      /\ \A i \in 1 .. n - m + 1 : SubSeq(s, m, n)[i] = s[m + i - 1]
  BY <1>1, PartIs
<1>4. DOMAIN SubSeq(s, m, n) = 1 .. n - m + 1
  BY <1>3, SequenceIs
<1>5. \A i \in 1 .. n - m + 1 : m + i - 1 \in 1 .. Len(s)
  BY <1>2
<1> QED
  BY <1>1, <1>3, <1>4, <1>5 DEF HoldsCells

LEMMA OverlaidHoldsCells ==
    ASSUME HoldsCells(file), NEW cells, HoldsCells(cells), NEW from \in Nat
    PROVE  HoldsCells(Overlaid(cells, from))
PROOF
<1>1. /\ IsSequence(file) /\ IsSequence(cells)
      /\ \A i \in 1 .. Len(file) : IsCell(file[i])
      /\ \A i \in 1 .. Len(cells) : IsCell(cells[i])
  BY SequenceIs DEF HoldsCells
<1>2. Len(file) \in Nat /\ Len(cells) \in Nat
  BY <1>1, SequenceIs
<1> DEFINE size == IF Len(file) >= from + Len(cells) THEN Len(file) ELSE from + Len(cells)
           s == Overlaid(cells, from)
<1>3. /\ IsSequence(s) /\ Len(s) = size
      /\ \A i \in 1 .. size :
            s[i] = IF i \in from + 1 .. from + Len(cells) THEN cells[i - from]
                   ELSE IF i <= Len(file) THEN file[i] ELSE Nul
  BY <1>1, OverlaidIs
<1>4. DOMAIN s = 1 .. size
  BY <1>3, SequenceIs
<1> HIDE DEF s
<1>5. ASSUME NEW i \in 1 .. size
      PROVE  IsCell(s[i])
  <2>1. CASE i \in from + 1 .. from + Len(cells)
    <3>1. i - from \in 1 .. Len(cells)
      BY <1>2, <2>1
    <3> QED
      BY <1>1, <1>3, <2>1, <3>1
  <2>2. CASE i \notin from + 1 .. from + Len(cells) /\ i <= Len(file)
    BY <1>1, <1>2, <1>3, <2>2
  <2>3. CASE i \notin from + 1 .. from + Len(cells) /\ ~(i <= Len(file))
    BY <1>3, <2>3 DEF IsCell
  <2> QED
    BY <2>1, <2>2, <2>3
<1> QED
  BY <1>3, <1>4, <1>5 DEF HoldsCells, s

LEMMA NothingHoldsCells == HoldsCells(<<>>) /\ Len(<<>>) = 0
PROOF
<1>1. <<>> \in Seq({}) /\ Len(<<>>) = 0
  BY EmptySeq
<1>2. IsSequence(<<>>)
  BY <1>1, RangeIs
<1>3. DOMAIN <<>> = {}
  BY <1>1, <1>2, SequenceIs
<1> QED
  BY <1>1, <1>2, <1>3 DEF HoldsCells

(* What a step leaves to the jobs that did not take it. *)
OthersKeep(j) ==
    \A k \in Jobs \ {j} :
        /\ pc'[k] = pc[k] /\ input'[k] = input[k] /\ next'[k] = next[k]
        /\ totals'[k] = totals[k] /\ buffer'[k] = buffer[k] /\ offset'[k] = offset[k]

LEMMA OneJobSteps ==
    ASSUME WriterInv, JobTypes', HoldsCells(file'), NEW j \in Jobs, OthersKeep(j),
           HoldsCells(buffer'[j]), DOMAIN totals'[j] = DOMAIN NoTotals, Walk(j)'
    PROVE  WriterInv'
PROOF
<1>1. ASSUME NEW k \in Jobs
      PROVE  HoldsCells(buffer'[k]) /\ DOMAIN totals'[k] = DOMAIN NoTotals /\ Walk(k)'
  <2>1. CASE k = j
    BY <2>1
  <2>2. CASE k # j
    BY <2>2 DEF WriterInv, OthersKeep, Walk
  <2> QED
    BY <2>1, <2>2
<1> QED
  BY <1>1 DEF WriterInv

LEMMA MasterSize == \A in \in Inputs : Len(in.master) \in Nat
PROOF
<1> SUFFICES ASSUME NEW in \in Inputs
             PROVE  Len(in.master) \in Nat
  OBVIOUS
<1> DEFINE master == in.master
<1>1. master \in Seq(LnmastRecords)
  BY ItemsAssumption
<1> HIDE DEF master
<1>2. Len(master) \in Nat
  BY <1>1
<1> QED
  BY <1>2 DEF master

LEMMA MasterRecords ==
    ASSUME NEW in \in Inputs, NEW k \in DOMAIN in.master
    PROVE  in.master[k] \in LnmastRecords
PROOF
<1> DEFINE master == in.master
<1>1. master \in Seq(LnmastRecords) /\ k \in DOMAIN master
  BY ItemsAssumption
<1> HIDE DEF master
<1>2. master[k] \in LnmastRecords
  BY <1>1
<1> QED
  BY <1>2 DEF master

LEMMA InitWrites == Init => WriterInv
PROOF
<1> SUFFICES ASSUME Init
             PROVE  WriterInv
  OBVIOUS
<1>1. JobTypes
  <2>1. (CHOOSE in \in Inputs : TRUE) \in Inputs
    BY InputsAssumption
  <2> QED
    BY <2>1, RunsAssumption DEF Init, JobTypes, Stages, Ended
<1>2. HoldsCells(file)
  BY NothingHoldsCells DEF Init
<1>3. ASSUME NEW j \in Jobs
      PROVE  HoldsCells(buffer[j]) /\ DOMAIN totals[j] = DOMAIN NoTotals /\ Walk(j)
  BY NothingHoldsCells DEF Init, Walk
<1> QED
  BY <1>1, <1>2, <1>3 DEF WriterInv

LEMMA WriterStep ==
    ASSUME WriterInv, [Next]_vars
    PROVE  WriterInv'
PROOF
<1>0. /\ JobTypes /\ HoldsCells(file)
      /\ \A j \in Jobs : /\ HoldsCells(buffer[j]) /\ Len(buffer[j]) \in Nat
                         /\ DOMAIN totals[j] = DOMAIN NoTotals /\ Walk(j)
                         /\ Len(input[j].master) \in Nat
  BY SequenceIs, MasterSize DEF WriterInv, HoldsCells, JobTypes
<1>1. ASSUME NEW j \in Jobs, NEW in \in Inputs, Launch(j, in)
      PROVE  WriterInv'
  <2>1. JobTypes' /\ OthersKeep(j)
    BY <1>0, <1>1, RunsAssumption DEF Launch, JobTypes, Stages, OthersKeep
  <2>2. Walk(j)'
    BY <1>0, <1>1 DEF Launch, JobTypes, Walk
  <2> QED
    BY <1>0, <1>1, <2>1, <2>2, OneJobSteps DEF Launch
<1>2. ASSUME NEW j \in Jobs, LoadFails(j)
      PROVE  WriterInv'
  <2>1. JobTypes' /\ OthersKeep(j)
    BY <1>0, <1>2 DEF LoadFails, JobTypes, Stages, Ended, OthersKeep
  <2>2. Walk(j)'
    BY <1>0, <1>2 DEF LoadFails, JobTypes, Walk
  <2> QED
    BY <1>0, <1>2, <2>1, <2>2, OneJobSteps DEF LoadFails
<1>3. ASSUME NEW j \in Jobs, Open(j)
      PROVE  WriterInv'
  <2>1. JobTypes' /\ OthersKeep(j)
    BY <1>0, <1>3 DEF Open, JobTypes, Stages, OthersKeep
  <2>2. /\ file' = <<>> /\ buffer'[j] = <<>> /\ totals'[j] = NoTotals
        /\ pc'[j] = "details" /\ next'[j] = 1 /\ offset'[j] = 0 /\ input' = input
    BY <1>0, <1>3 DEF Open, JobTypes
  <2>3. Walk(j)'
    BY <1>0, <2>2, NothingHoldsCells DEF Walk
  <2> QED
    BY <1>0, <2>1, <2>2, <2>3, NothingHoldsCells, OneJobSteps
<1>4. ASSUME NEW j \in Jobs, SkipClosed(j)
      PROVE  WriterInv'
  <2>1. JobTypes' /\ OthersKeep(j)
    BY <1>0, <1>4 DEF SkipClosed, Advance, JobTypes, OthersKeep
  <2>2. /\ next'[j] = next[j] + 1 /\ pc' = pc /\ offset' = offset /\ buffer' = buffer
        /\ input' = input /\ totals' = totals /\ file' = file
        /\ pc[j] = "details" /\ next[j] <= Len(input[j].master)
    BY <1>0, <1>4 DEF SkipClosed, Advance, AtAccount, JobTypes
  <2>3. Walk(j)'
    <3>1. offset[j] + Len(buffer[j]) \in Nat /\ next[j] \in Nat
      BY <1>0 DEF JobTypes
    <3> QED
      BY <1>0, <2>2, <3>1 DEF Walk
  <2> QED
    BY <1>0, <2>1, <2>2, <2>3, OneJobSteps
<1>5. ASSUME NEW j \in Jobs, WriteDetail(j)
      PROVE  WriterInv'
  <2>1. PICK result :
          /\ buffer' = [buffer EXCEPT ![j] = @ \o CellsOf(DetailRecord(result, input[j].asof))]
          /\ totals' = [totals EXCEPT ![j] = Accumulate(@, result)]
    BY <1>5 DEF WriteDetail
  <2> DEFINE cells == CellsOf(DetailRecord(result, input[j].asof))
  <2>2. HoldsCells(cells) /\ Len(cells) = 2
    BY CellsAre DEF DetailRecord, Layouts
  <2>3. /\ next'[j] = next[j] + 1 /\ pc' = pc /\ offset' = offset
        /\ input' = input /\ file' = file
        /\ pc[j] = "details" /\ next[j] <= Len(input[j].master)
    BY <1>0, <1>5 DEF WriteDetail, Advance, AtAccount, JobTypes
  <2>4. buffer'[j] = buffer[j] \o cells /\ totals'[j] = Accumulate(totals[j], result)
    BY <1>0, <2>1 DEF JobTypes
  <2>5. JobTypes' /\ OthersKeep(j)
    BY <1>0, <1>5, <2>1 DEF WriteDetail, Advance, JobTypes, OthersKeep
  <2> HIDE DEF cells
  <2>6. HoldsCells(buffer'[j]) /\ Len(buffer'[j]) = Len(buffer[j]) + 2
    BY <1>0, <2>2, <2>4, ConcatHoldsCells
  <2>7. DOMAIN totals'[j] = DOMAIN NoTotals
    BY <2>4 DEF Accumulate, NoTotals
  <2>8. Walk(j)'
    <3>1. offset[j] + Len(buffer[j]) \in Nat /\ next[j] \in Nat
          /\ offset[j] \in Nat /\ Len(buffer[j]) \in Nat /\ Len(input[j].master) \in Nat
      BY <1>0 DEF JobTypes
    <3>2. next[j] \in 1 .. Len(input[j].master) + 1 /\ offset[j] + Len(buffer[j]) <= 2 * (next[j] - 1)
      BY <1>0, <2>3 DEF Walk
    <3>3. (offset[j] + Len(buffer[j]))' = offset[j] + Len(buffer[j]) + 2
      BY <2>3, <2>6, <3>1
    <3>4. next'[j] \in 1 .. Len(input'[j].master) + 1
      BY <2>3, <3>1, <3>2
    <3>5. (offset[j] + Len(buffer[j]))' <= 2 * (next'[j] - 1)
      <4>1. next'[j] - 1 = next[j]
        BY <2>3, <3>1
      <4>2. offset[j] + Len(buffer[j]) + 2 <= 2 * next[j]
        BY <3>1, <3>2
      <4> QED
        BY <3>3, <4>1, <4>2
    <3> QED
      BY <2>3, <3>4, <3>5 DEF Walk
  <2> QED
    BY <1>0, <2>3, <2>5, <2>6, <2>7, <2>8, OneJobSteps
<1>6. ASSUME NEW j \in Jobs, RaiseUnknown(j)
      PROVE  WriterInv'
  <2>1. JobTypes' /\ OthersKeep(j)
    BY <1>0, <1>6 DEF RaiseUnknown, JobTypes, Stages, OthersKeep
  <2>2. Walk(j)'
    BY <1>0, <1>6 DEF RaiseUnknown, AtAccount, JobTypes, Walk
  <2> QED
    BY <1>0, <1>6, <2>1, <2>2, OneJobSteps DEF RaiseUnknown
<1>7. ASSUME NEW j \in Jobs, WriteTrailer(j)
      PROVE  WriterInv'
  <2> DEFINE cells == CellsOf(TrailerRecord(totals[j]))
  <2>1. HoldsCells(cells) /\ Len(cells) = 2
    BY CellsAre DEF TrailerRecord, Layouts
  <2>2. /\ next' = next /\ pc'[j] = "close" /\ offset' = offset
        /\ input' = input /\ file' = file /\ totals' = totals
        /\ pc[j] = "details" /\ next[j] > Len(input[j].master)
        /\ buffer'[j] = buffer[j] \o cells
    BY <1>0, <1>7 DEF WriteTrailer, JobTypes
  <2>3. JobTypes' /\ OthersKeep(j)
    BY <1>0, <1>7 DEF WriteTrailer, JobTypes, Stages, OthersKeep
  <2> HIDE DEF cells
  <2>4. HoldsCells(buffer'[j]) /\ Len(buffer'[j]) = Len(buffer[j]) + 2
    BY <1>0, <2>1, <2>2, ConcatHoldsCells
  <2>5. Walk(j)'
    <3>1. offset[j] + Len(buffer[j]) \in Nat /\ next[j] \in Nat
          /\ offset[j] \in Nat /\ Len(buffer[j]) \in Nat /\ Len(input[j].master) \in Nat
      BY <1>0 DEF JobTypes
    <3>2. next[j] \in 1 .. Len(input[j].master) + 1 /\ offset[j] + Len(buffer[j]) <= 2 * (next[j] - 1)
      BY <1>0, <2>2 DEF Walk
    <3>3. (offset[j] + Len(buffer[j]))' = offset[j] + Len(buffer[j]) + 2
      BY <2>2, <2>4, <3>1
    <3>4. /\ next'[j] = Len(input'[j].master) + 1
          /\ (offset[j] + Len(buffer[j]))' <= 2 * (Len(input'[j].master) + 1)
      BY <2>2, <3>1, <3>2, <3>3
    <3> QED
      BY <2>2, <3>4 DEF Walk
  <2> QED
    BY <1>0, <2>2, <2>3, <2>4, <2>5, OneJobSteps
<1>8. ASSUME NEW j \in Jobs, Flush(j)
      PROVE  WriterInv'
  <2>1. PICK n \in 1 .. Len(buffer[j]) :
          /\ file' = Overlaid(SubSeq(buffer[j], 1, n), offset[j])
          /\ offset' = [offset EXCEPT ![j] = @ + n]
          /\ buffer' = [buffer EXCEPT ![j] = SubSeq(@, n + 1, Len(@))]
    BY <1>8 DEF Flush
  <2>2. /\ next' = next /\ pc' = pc /\ input' = input /\ totals' = totals
        /\ offset'[j] = offset[j] + n /\ buffer'[j] = SubSeq(buffer[j], n + 1, Len(buffer[j]))
    BY <1>0, <1>8, <2>1 DEF Flush, JobTypes
  <2>3. JobTypes' /\ OthersKeep(j)
    <3>1. offset[j] + n \in Nat
      BY <1>0 DEF JobTypes
    <3> QED
      BY <1>0, <1>8, <2>1, <3>1 DEF Flush, JobTypes, OthersKeep
  <2>4. HoldsCells(SubSeq(buffer[j], 1, n))
    BY <1>0, PartHoldsCells
  <2>5. HoldsCells(file')
    BY <1>0, <2>1, <2>4, OverlaidHoldsCells DEF JobTypes
  <2>6. HoldsCells(buffer'[j]) /\ Len(buffer'[j]) = Len(buffer[j]) - n
    <3>1. Len(buffer[j]) \in Nat /\ n + 1 \in 1 .. Len(buffer[j]) + 1
          /\ Len(buffer[j]) \in n + 1 - 1 .. Len(buffer[j])
      BY <1>0
    <3>2. Len(buffer[j]) - (n + 1) + 1 = Len(buffer[j]) - n
      BY <3>1
    <3> QED
      <4>1. HoldsCells(buffer[j])
        BY <1>0
      <4>2. /\ HoldsCells(SubSeq(buffer[j], n + 1, Len(buffer[j])))
            /\ Len(SubSeq(buffer[j], n + 1, Len(buffer[j]))) = Len(buffer[j]) - (n + 1) + 1
        BY <3>1, <4>1, PartHoldsCells
      <4> QED
        BY <2>2, <3>2, <4>2
  <2>7. Walk(j)'
    <3>1. offset'[j] + Len(buffer'[j]) = offset[j] + Len(buffer[j])
      BY <1>0, <2>2, <2>6 DEF JobTypes
    <3> QED
      BY <1>0, <2>2, <3>1 DEF Walk
  <2> QED
    BY <1>0, <2>2, <2>3, <2>5, <2>6, <2>7, OneJobSteps
<1>9. ASSUME NEW j \in Jobs, Close(j)
      PROVE  WriterInv'
  <2>1. JobTypes' /\ OthersKeep(j)
    BY <1>0, <1>9 DEF Close, JobTypes, Stages, Ended, OthersKeep
  <2>2. Walk(j)'
    BY <1>0, <1>9 DEF Close, JobTypes, Walk
  <2> QED
    BY <1>0, <1>9, <2>1, <2>2, OneJobSteps DEF Close
<1>10. ASSUME NEW j \in Jobs, Kill(j)
       PROVE  WriterInv'
  <2>1. JobTypes' /\ OthersKeep(j)
    BY <1>0, <1>10 DEF Kill, JobTypes, Stages, Ended, OthersKeep
  <2>2. Walk(j)' /\ buffer'[j] = <<>>
    BY <1>0, <1>10 DEF Kill, JobTypes, Walk
  <2> QED
    BY <1>0, <1>10, <2>1, <2>2, NothingHoldsCells, OneJobSteps DEF Kill
<1>11. CASE UNCHANGED vars
  BY <1>11 DEF vars, job, WriterInv, JobTypes, Walk
<1> QED
  BY <1>1, <1>2, <1>3, <1>4, <1>5, <1>6, <1>7, <1>8, <1>9, <1>10, <1>11 DEF Next, JobStep

LEMMA AlwaysWrites == Spec => []WriterInv
PROOF
  BY InitWrites, WriterStep, PTL DEF Spec

(***************************************************************************)
(* Every stage of a job has the data it needs, and what is on disk is      *)
(* cells of LNOUT records and gaps, however many jobs write it and         *)
(* whenever they are killed (run_batch, LnoutWriter).                      *)
(***************************************************************************)
THEOREM LoanTypes == Spec => []TypeOK
PROOF
<1>1. WriterInv => TypeOK
  <2> SUFFICES ASSUME WriterInv
               PROVE  TypeOK
    OBVIOUS
  <2>1. JobTypes /\ HoldsCells(file)
    BY DEF WriterInv
  <2>2. ASSUME NEW j \in Jobs
        PROVE  /\ next[j] \in 1 .. Len(input[j].master) + 1 \/ ~Writing(j)
               /\ DOMAIN totals[j] = DOMAIN NoTotals
               /\ Writing(j) => offset[j] + Len(buffer[j]) <= 2 * (Len(input[j].master) + 1)
    <3>1. Walk(j) /\ DOMAIN totals[j] = DOMAIN NoTotals /\ IsSequence(buffer[j])
      BY DEF WriterInv, HoldsCells
    <3>2. Len(input[j].master) \in Nat /\ Len(buffer[j]) \in Nat /\ offset[j] \in Nat
      BY <2>1, <3>1, SequenceIs, MasterSize DEF JobTypes
    <3> DEFINE size == Len(input[j].master)
               written == offset[j] + Len(buffer[j])
    <3>3. size \in Nat /\ written \in Nat
      BY <3>2
    <3>4. /\ pc[j] \in {"details", "raised"}
             => next[j] \in 1 .. size + 1 /\ written <= 2 * (next[j] - 1)
          /\ pc[j] = "close" => next[j] = size + 1 /\ written <= 2 * (size + 1)
      BY <3>1 DEF Walk
    <3> HIDE DEF size, written
    <3>5. CASE pc[j] \in {"details", "raised"}
      <4>1. next[j] \in 1 .. size + 1 /\ written <= 2 * (next[j] - 1)
        BY <3>4, <3>5
      <4>2. written <= 2 * (size + 1)
        BY <3>3, <4>1
      <4> QED
        BY <3>1, <4>1, <4>2 DEF size, written
    <3>6. CASE pc[j] = "close"
      <4>1. next[j] \in 1 .. size + 1 /\ written <= 2 * (size + 1)
        BY <3>3, <3>4, <3>6
      <4> QED
        BY <3>1, <4>1 DEF size, written
    <3>7. CASE ~Writing(j)
      BY <3>1, <3>7
    <3> QED
      BY <3>5, <3>6, <3>7 DEF Writing
  <2>3. \A i \in DOMAIN file :
          \/ file[i] = Nul
          \/ \E layout \in {LnoutDetail, LnoutTrailer} :
               DOMAIN file[i] \in {DOMAIN FrontHalf(layout), DOMAIN BackHalf(layout)}
    BY <2>1 DEF HoldsCells, IsCell, Layouts
  <2> QED
    BY <2>1, <2>2, <2>3 DEF TypeOK, JobTypes, Stages
<1> QED
  BY <1>1, AlwaysWrites, PTL

-----------------------------------------------------------------------------
(* Calculators. *)

(* Integers from a bound on have a least one. *)
LEMMA LeastFrom ==
    ASSUME NEW from \in Int, NEW S \in SUBSET Int, S # {}, \A x \in S : from <= x
    PROVE  Min(S) \in S /\ \A y \in S : Min(S) <= y
PROOF
<1>1. PICK e \in S : TRUE
  OBVIOUS
<1> DEFINE upTo == from .. e
           T == {from .. x : x \in {y \in S : y <= e}}
<1>2. T \in SUBSET SUBSET upTo /\ T # {}
  BY <1>1
<1>3. IsFiniteSet(upTo)
  BY <1>1, FS_Interval
<1>4. PICK t \in T : \A u \in T : u \subseteq t => u = t
  <2> HIDE DEF T, upTo
  <2> QED
    BY <1>2, <1>3, Minimal
<1>5. PICK x \in S : x <= e /\ t = from .. x
  OBVIOUS
<1>6. ASSUME NEW y \in S, ~(x <= y)
      PROVE  FALSE
  <2>1. y \in Int /\ x \in Int /\ y < x /\ y <= e /\ from <= x
    BY <1>1, <1>5, <1>6
  <2>2. from .. y \in T /\ from .. y \subseteq t
    BY <1>5, <2>1
  <2>3. from .. y = from .. x
    BY <1>4, <1>5, <2>2
  <2>4. x \in from .. x /\ x \notin from .. y
    BY <2>1
  <2> QED
    BY <2>3, <2>4
<1>7. \E z \in S : \A y \in S : z <= y
  BY <1>6
<1> QED
  BY <1>7 DEF Min

(* Every day has a number. *)
LEMMA DayNumber ==
    ASSUME NEW date \in Dates
    PROVE  IntegerOfDate(date) \in Int
PROOF
<1>1. date.y \in Int /\ date.m \in Nat /\ date.d \in Int
  BY DEF Dates
<1>2. (date.m + 9) % 12 \in Int
  BY <1>1
<1>3. ASSUME NEW y \in Int, NEW m \in Int, NEW d \in Int
      PROVE  365 * y + y \div 4 - y \div 100 + y \div 400 + (153 * m + 2) \div 5 + d - 584694 \in Int
  OBVIOUS
<1> QED
  BY <1>1, <1>2, <1>3 DEF IntegerOfDate

(* A windowed date is one. *)
LEMMA WindowIsDate ==
    ASSUME NEW field \in Dates
    PROVE  FromYymmdd(field) \in Dates
PROOF
<1>1. field.y \in Nat /\ field.m \in Nat /\ field.d \in Nat
  BY DEF Dates
<1> DEFINE y == (IF field.y > CenturyPivot THEN 1900 ELSE 2000) + field.y
<1>2. y \in Nat
  BY <1>1
<1> HIDE DEF y
<1>3. FromYymmdd(field) = [y |-> y, m |-> field.m, d |-> field.d]
  BY DEF FromYymmdd, Date, y
<1> QED
  BY <1>1, <1>2, <1>3 DEF Dates

(***************************************************************************)
(* Of one more week than there are holidays, one has a Monday that is not  *)
(* a holiday: roll_forward finds a business day, the first on or after the *)
(* date.                                                                   *)
(***************************************************************************)
THEOREM RollsToBusinessDay ==
    ASSUME NEW date \in Dates
    PROVE  /\ RollForward(date) \in Int /\ IsBusinessDay(RollForward(date))
           /\ RollForward(date) \in IntegerOfDate(date)
                                       .. IntegerOfDate(date) + 7 * (Cardinality(Holidays) + 1)
           /\ \A n \in IntegerOfDate(date) .. RollForward(date) - 1 : ~IsBusinessDay(n)
PROOF
<1> DEFINE from == IntegerOfDate(date)
           weeks == Cardinality(Holidays) + 1
           days == {n \in from .. from + 7 * weeks : IsBusinessDay(n)}
           monday == from + ((8 - (from % 7)) % 7)
<1>1. from \in Int
  BY DayNumber
<1>2. IsFiniteSet(Holidays) /\ Cardinality(Holidays) \in Nat
  BY UnitsAssumption, FS_CardinalityType
<1> HIDE DEF from
<1>3. monday \in from .. from + 6 /\ monday % 7 = 1
  BY <1>1
<1> HIDE DEF monday
<1>4. \A k \in 0 .. weeks - 1 : monday + 7 * k \in from .. from + 7 * weeks /\ (monday + 7 * k) % 7 = 1
  BY <1>1, <1>2, <1>3
<1>5. \E k \in 0 .. weeks - 1 : monday + 7 * k \notin HolidayNumbers
  <2>1. SUFFICES ASSUME \A k \in 0 .. weeks - 1 : monday + 7 * k \in HolidayNumbers
                 PROVE  FALSE
    OBVIOUS
  <2> DEFINE f == [k \in 0 .. weeks - 1 |-> CHOOSE h \in Holidays : IntegerOfDate(h) = monday + 7 * k]
  <2>2. \A k \in 0 .. weeks - 1 : f[k] \in Holidays /\ IntegerOfDate(f[k]) = monday + 7 * k
    BY <2>1 DEF HolidayNumbers
  <2>3. f \in [0 .. weeks - 1 -> Holidays]
    BY <2>2
  <2>4. IsFiniteSet(0 .. weeks - 1) /\ Cardinality(0 .. weeks - 1) = weeks
    BY <1>2, FS_Interval
  <2>5. Cardinality(Holidays) < Cardinality(0 .. weeks - 1)
    BY <1>2, <2>4
  <2> HIDE DEF f
  <2>6. \E a, b \in 0 .. weeks - 1 : a # b /\ f[a] = f[b]
    BY <1>2, <2>3, <2>4, <2>5, FS_PigeonHole
  <2>7. PICK a \in 0 .. weeks - 1, b \in 0 .. weeks - 1 : a # b /\ f[a] = f[b]
    BY <2>6
  <2>8. monday + 7 * a = monday + 7 * b
    BY <2>2, <2>7
  <2> QED
    BY <1>1, <1>2, <1>3, <2>7, <2>8
<1>6. days # {}
  BY <1>4, <1>5 DEF IsBusinessDay
<1>7. days \in SUBSET Int /\ \A n \in days : from <= n
  BY <1>1
<1>8. Min(days) \in days /\ \A n \in days : Min(days) <= n
  <2> HIDE DEF days
  <2> QED
    BY <1>1, <1>6, <1>7, LeastFrom
<1>9. RollForward(date) = Min(days)
  BY DEF RollForward, from
<1>10. \A n \in from .. Min(days) - 1 : ~IsBusinessDay(n)
  BY <1>1, <1>2, <1>8
<1> QED
  BY <1>7, <1>8, <1>9, <1>10 DEF from

(* find_tier and 3200-FIND-TIER stop at the same row. *)
LEMMA SameTier ==
    ASSUME NEW rates, NEW balance \in Int, rates.count \in Nat \ {0},
           \A ix \in 1 .. rates.count : rates.tiers[ix].upper \in Nat
    PROVE  /\ FindTier(rates, balance) \in 1 .. rates.count
           /\ LegacyTier(rates, balance) = FindTier(rates, balance)
PROOF
<1> DEFINE holds == {ix \in 1 .. rates.count : balance <= rates.tiers[ix].upper} \cup {rates.count}
           t == Min(holds)
<1>1. holds \in SUBSET Int /\ holds # {} /\ \A x \in holds : 1 <= x
  OBVIOUS
<1>2. t \in holds /\ \A y \in holds : t <= y
  <2> HIDE DEF holds
  <2> QED
    BY <1>1, LeastFrom
<1>3. t \in 1 .. rates.count /\ (balance <= rates.tiers[t].upper \/ t = rates.count)
  BY <1>2
<1>4. \A lower \in 1 .. t - 1 : balance > rates.tiers[lower].upper
  BY <1>2, <1>3
<1> DEFINE Stops(ix) == /\ balance <= rates.tiers[ix].upper \/ ix = rates.count
                        /\ \A lower \in 1 .. ix - 1 : balance > rates.tiers[lower].upper
<1>5. ASSUME NEW ix \in 1 .. rates.count, Stops(ix)
      PROVE  ix = t
  <2>1. /\ balance <= rates.tiers[ix].upper \/ ix = rates.count
        /\ \A lower \in 1 .. ix - 1 : balance > rates.tiers[lower].upper
    BY <1>5
  <2> HIDE DEF t
  <2>2. t <= ix
    <3>1. ix \in holds
      BY <1>5, <2>1
    <3> QED
      BY <1>2, <3>1
  <2>3. ~(t < ix)
    BY <1>3, <1>5, <2>1
  <2> QED
    BY <1>3, <1>5, <2>2, <2>3
<1>6. FindTier(rates, balance) = t
  BY DEF FindTier
<1>7. Stops(t)
  BY <1>3, <1>4
<1>8. LegacyTier(rates, balance) = CHOOSE ix \in 1 .. rates.count : Stops(ix)
  BY DEF LegacyTier
<1> HIDE DEF t, Stops
<1>9. (CHOOSE ix \in 1 .. rates.count : Stops(ix)) = t
  BY <1>3, <1>5, <1>7
<1> QED
  BY <1>3, <1>6, <1>8, <1>9

-----------------------------------------------------------------------------
(* Sets in order: InOrder, for every finite set and every total order of it. *)

(* A total order of the members of S. *)
Orders(order, S) ==
    /\ \A x, y \in S : <<x, y>> \in order \/ <<y, x>> \in order
    /\ \A x, y \in S : <<x, y>> \in order /\ <<y, x>> \in order => x = y
    /\ \A x, y, z \in S : <<x, y>> \in order /\ <<y, z>> \in order => <<x, z>> \in order

(* The members up to one of them, and how many they are. *)
UpTo(S, order, x) == {y \in S : <<y, x>> \in order}

Position(S, order, x) == Cardinality(UpTo(S, order, x))

(* Positions are numbered as the order has the members. *)
LEMMA PositionsOrder ==
    ASSUME NEW S, IsFiniteSet(S), NEW order, Orders(order, S)
    PROVE  /\ Cardinality(S) \in Nat
           /\ \A x \in S : Position(S, order, x) \in 1 .. Cardinality(S)
           /\ \A x, y \in S :
                <<x, y>> \in order <=> Position(S, order, x) <= Position(S, order, y)
PROOF
<1>1. Cardinality(S) \in Nat
  BY FS_CardinalityType
<1>2. ASSUME NEW x \in S
      PROVE  /\ IsFiniteSet(UpTo(S, order, x)) /\ x \in UpTo(S, order, x)
             /\ Position(S, order, x) \in 1 .. Cardinality(S)
  <2>1. UpTo(S, order, x) \in SUBSET S
    BY DEF UpTo
  <2>2. IsFiniteSet(UpTo(S, order, x)) /\ Cardinality(UpTo(S, order, x)) <= Cardinality(S)
    BY <2>1, FS_Subset
  <2>3. x \in UpTo(S, order, x)
    BY DEF UpTo, Orders
  <2>4. Cardinality(UpTo(S, order, x)) \in Nat /\ Cardinality(UpTo(S, order, x)) # 0
    BY <2>2, <2>3, FS_CardinalityType, FS_EmptySet
  <2> QED
    BY <1>1, <2>2, <2>3, <2>4 DEF Position
<1>3. ASSUME NEW x \in S, NEW y \in S, <<x, y>> \in order
      PROVE  Position(S, order, x) <= Position(S, order, y)
  <2>1. UpTo(S, order, x) \in SUBSET UpTo(S, order, y)
    BY <1>3 DEF UpTo, Orders
  <2> QED
    BY <1>2, <2>1, FS_Subset DEF Position
<1>4. ASSUME NEW x \in S, NEW y \in S, <<x, y>> \notin order
      PROVE  ~(Position(S, order, x) <= Position(S, order, y))
  <2>1. UpTo(S, order, y) \in SUBSET UpTo(S, order, x)
    BY <1>4 DEF UpTo, Orders
  <2>2. x \notin UpTo(S, order, y)
    BY <1>4 DEF UpTo
  <2>3. /\ Cardinality(UpTo(S, order, y)) <= Cardinality(UpTo(S, order, x))
        /\ Cardinality(UpTo(S, order, y)) # Cardinality(UpTo(S, order, x))
    BY <1>2, <2>1, <2>2, FS_Subset
  <2>4. Position(S, order, x) \in Nat /\ Position(S, order, y) \in Nat
    BY <1>1, <1>2
  <2> QED
    BY <2>3, <2>4 DEF Position
<1> QED
  BY <1>1, <1>2, <1>3, <1>4

(* InOrder has every member once, at its position. *)
LEMMA InOrderIs ==
    ASSUME NEW S, IsFiniteSet(S), NEW order, Orders(order, S)
    PROVE  LET n == Cardinality(S)
               at == InOrder(S, order)
           IN  /\ n \in Nat /\ at \in [1 .. n -> S]
               /\ at = [k \in 1 .. n |-> at[k]]
               /\ \A k \in 1 .. n : Position(S, order, at[k]) = k
               /\ \A x \in S : \E k \in 1 .. n : at[k] = x
               /\ \A i, k \in 1 .. n : at[i] = at[k] => i = k
               /\ \A i, k \in 1 .. n : <<at[i], at[k]>> \in order <=> i <= k
PROOF
<1> DEFINE n == Cardinality(S)
           at == InOrder(S, order)
           pos == [x \in S |-> Position(S, order, x)]
<1>1. /\ n \in Nat /\ \A x \in S : Position(S, order, x) \in 1 .. n
      /\ \A x, y \in S : <<x, y>> \in order <=> Position(S, order, x) <= Position(S, order, y)
  BY PositionsOrder
<1>2. \A x, y \in S : Position(S, order, x) = Position(S, order, y) => x = y
  <2> SUFFICES ASSUME NEW x \in S, NEW y \in S, Position(S, order, x) = Position(S, order, y)
               PROVE  x = y
    OBVIOUS
  <2>1. Position(S, order, x) <= Position(S, order, y) /\ Position(S, order, y) <= Position(S, order, x)
    BY <1>1
  <2> QED
    BY <1>1, <2>1 DEF Orders
<1>3. pos \in Injection(S, 1 .. n)
  BY <1>1, <1>2 DEF Injection, IsInjective
<1>4. IsFiniteSet(1 .. n) /\ Cardinality(1 .. n) = n
  <2>1. n \in Int /\ 1 \in Int /\ (IF 1 > n THEN 0 ELSE n - 1 + 1) = n
    BY <1>1
  <2> HIDE DEF n
  <2> QED
    BY <2>1, FS_Interval
<1>5. pos \in Surjection(S, 1 .. n)
  BY <1>3, <1>4, FS_Injection
<1>6. \A k \in 1 .. n : \E x \in S : Position(S, order, x) = k
  BY <1>5 DEF Surjection
<1>7. at = [k \in 1 .. n |-> CHOOSE x \in S : Position(S, order, x) = k]
  BY DEF InOrder, Position, UpTo
<1>8. \A k \in 1 .. n : at[k] \in S /\ Position(S, order, at[k]) = k
  <2> SUFFICES ASSUME NEW k \in 1 .. n
               PROVE  at[k] \in S /\ Position(S, order, at[k]) = k
    OBVIOUS
  <2>1. at[k] = CHOOSE x \in S : Position(S, order, x) = k
    BY <1>7
  <2> QED
    BY <1>6, <2>1
<1> HIDE DEF at, n, pos
<1>9. at \in [1 .. n -> S] /\ at = [k \in 1 .. n |-> at[k]]
  BY <1>7, <1>8
<1>10. \A x \in S : \E k \in 1 .. n : at[k] = x
  BY <1>1, <1>2, <1>8
<1>11. \A i, k \in 1 .. n : at[i] = at[k] => i = k
  BY <1>8
<1>12. \A i, k \in 1 .. n : <<at[i], at[k]>> \in order <=> i <= k
  BY <1>1, <1>8
<1> QED
  BY <1>1, <1>8, <1>9, <1>10, <1>11, <1>12 DEF at, n

(* A set of natural numbers has a least one. *)
LEMMA LeastOf ==
    ASSUME NEW S \in SUBSET Nat, S # {}
    PROVE  \E m \in S : \A k \in S : m <= k
PROOF
<1>1. 0 \in Int /\ S \in SUBSET Int /\ \A x \in S : 0 <= x
  OBVIOUS
<1>2. Min(S) \in S /\ \A y \in S : Min(S) <= y
  BY <1>1, LeastFrom
<1> QED
  BY <1>2

(* s is what seq has at some of its places, from first to last.            *)
Picked(s, n, at, seq, places) ==
    /\ n \in Nat /\ at \in [1 .. n -> places]
    /\ \A x \in places : \E k \in 1 .. n : at[k] = x
    /\ \A i, k \in 1 .. n : i < k => at[i] < at[k]
    /\ s = [k \in 1 .. n |-> seq[at[k]]]
    /\ IsSequence(s) /\ Len(s) = n

(* Kept goes up through the places it keeps. *)
LEMMA KeptIs ==
    ASSUME NEW seq, NEW places, IsFiniteSet(places), places \subseteq Int
    PROVE  \E n, at : Picked(Kept(seq, places), n, at, seq, places)
PROOF
<1> DEFINE order == {p \in places \X places : p[1] <= p[2]}
           n == Cardinality(places)
           at == InOrder(places, order)
           kept == [k \in 1 .. n |-> seq[at[k]]]
<1>1. \A x, y \in places : <<x, y>> \in order <=> x <= y
  OBVIOUS
<1>2. Orders(order, places)
  <2> HIDE DEF order
  <2> QED
    BY <1>1 DEF Orders
<1>3. /\ n \in Nat /\ at \in [1 .. n -> places]
      /\ \A x \in places : \E k \in 1 .. n : at[k] = x
      /\ \A i, k \in 1 .. n : at[i] = at[k] => i = k
      /\ \A i, k \in 1 .. n : <<at[i], at[k]>> \in order <=> i <= k
  <2> HIDE DEF order
  <2> QED
    BY <1>2, InOrderIs
<1>4. Kept(seq, places) = kept
  BY DEF Kept
<1> HIDE DEF order, at, n
<1>5. \A i, k \in 1 .. n : i < k => at[i] < at[k]
  <2> SUFFICES ASSUME NEW i \in 1 .. n, NEW k \in 1 .. n, i < k
               PROVE  at[i] < at[k]
    OBVIOUS
  <2>1. at[i] \in places /\ at[k] \in places /\ at[i] \in Int /\ at[k] \in Int
    BY <1>3
  <2>2. i \in Int /\ k \in Int /\ i <= k /\ i # k
    BY <1>3
  <2>3. <<at[i], at[k]>> \in order /\ at[i] # at[k]
    BY <1>3, <2>2
  <2>4. at[i] <= at[k]
    BY <1>1, <2>1, <2>3
  <2> QED
    BY <2>1, <2>3, <2>4
<1>6. IsSequence(kept) /\ Len(kept) = n
  <2>1. DOMAIN kept = 1 .. n /\ kept = [i \in DOMAIN kept |-> kept[i]]
    OBVIOUS
  <2> HIDE DEF kept
  <2> QED
    BY <1>3, <2>1, FunctionIsSequence
<1> QED
  BY <1>3, <1>4, <1>5, <1>6 DEF Picked

-----------------------------------------------------------------------------
(* Totals. *)

(* F has the total after each amount. *)
Runs(F, n, amounts, pic) ==
    /\ F[0] = 0
    /\ \A k \in 1 .. n : F[k] = FitToPic(F[k - 1] + amounts[k], pic)

TotalFunction(F, n, amounts, pic) ==
    F = [k \in 0 .. n |-> IF k = 0 THEN 0 ELSE FitToPic(F[k - 1] + amounts[k], pic)]

(* The function that Totalled defines runs over its amounts. *)
LEMMA TotalFunctionRuns ==
    ASSUME NEW n \in Nat, NEW F, NEW amounts, NEW pic, TotalFunction(F, n, amounts, pic)
    PROVE  Runs(F, n, amounts, pic)
PROOF
<1>1. 0 \in 0 .. n /\ \A k \in 1 .. n : k \in 0 .. n /\ k # 0
  OBVIOUS
<1> QED
  BY <1>1 DEF TotalFunction, Runs

(* There is such a function, for any number of amounts. *)
LEMMA RunsExist ==
    ASSUME NEW n \in Nat, NEW amounts, NEW pic
    PROVE  \E F : TotalFunction(F, n, amounts, pic)
PROOF
<1> DEFINE Bad == {k \in 0 .. n : ~ \E F : TotalFunction(F, k, amounts, pic)}
<1>1. SUFFICES ASSUME Bad # {}
               PROVE  FALSE
  <2>1. n \in 0 .. n
    OBVIOUS
  <2> QED
    BY <1>1, <2>1
<1>2. PICK m \in Bad : \A k \in Bad : m <= k
  <2>1. Bad \in SUBSET Nat
    OBVIOUS
  <2> HIDE DEF Bad
  <2> QED
    BY <1>1, <2>1, LeastOf
<1>3. m \in 0 .. n /\ ~ \E F : TotalFunction(F, m, amounts, pic)
  OBVIOUS
<1>4. CASE m = 0
  <2>1. TotalFunction([k \in 0 .. 0 |-> 0], 0, amounts, pic)
    <3>1. \A k \in 0 .. 0 : k = 0
      OBVIOUS
    <3> QED
      BY <3>1 DEF TotalFunction
  <2> QED
    BY <1>3, <1>4, <2>1
<1>5. CASE m # 0
  <2>1. m - 1 \in 0 .. n /\ m - 1 \in Nat /\ ~(m <= m - 1)
    BY <1>3, <1>5
  <2>2. PICK F : TotalFunction(F, m - 1, amounts, pic)
    BY <1>2, <2>1
  <2> DEFINE G == [k \in 0 .. m |-> IF k = m THEN FitToPic(F[m - 1] + amounts[m], pic) ELSE F[k]]
  <2>3. \A k \in 0 .. m : G[k] = IF k = 0 THEN 0 ELSE FitToPic(G[k - 1] + amounts[k], pic)
    <3> SUFFICES ASSUME NEW k \in 0 .. m
                 PROVE  G[k] = IF k = 0 THEN 0 ELSE FitToPic(G[k - 1] + amounts[k], pic)
      OBVIOUS
    <3>1. CASE k = m
      <4>1. k # 0 /\ k - 1 \in 0 .. m /\ k - 1 # m
        BY <1>3, <1>5, <3>1
      <4>2. G[k - 1] = F[m - 1] /\ G[k] = FitToPic(F[m - 1] + amounts[m], pic)
        BY <3>1, <4>1
      <4> QED
        BY <3>1, <4>1, <4>2
    <3>2. CASE k # m
      <4>1. k \in 0 .. m - 1
        BY <1>3, <3>2
      <4>2. G[k] = F[k]
        BY <3>2
      <4>3. F[k] = IF k = 0 THEN 0 ELSE FitToPic(F[k - 1] + amounts[k], pic)
        BY <2>2, <4>1 DEF TotalFunction
      <4>4. CASE k = 0
        BY <4>2, <4>3, <4>4
      <4>5. CASE k # 0
        <5>1. k - 1 \in 0 .. m /\ k - 1 # m
          BY <4>1, <4>5, <1>3
        <5>2. G[k - 1] = F[k - 1]
          BY <5>1
        <5> QED
          BY <4>2, <4>3, <5>2
      <4> QED
        BY <4>4, <4>5
    <3> QED
      BY <3>1, <3>2
  <2>4. G = [k \in 0 .. m |-> G[k]]
    OBVIOUS
  <2> HIDE DEF G
  <2>5. TotalFunction(G, m, amounts, pic)
    BY <2>3, <2>4 DEF TotalFunction
  <2> QED
    BY <1>3, <2>5
<1> QED
  BY <1>4, <1>5

(* Totalled is its last value. *)
LEMMA TotalledRuns ==
    ASSUME NEW amounts, NEW n \in Nat, Len(amounts) = n, NEW pic
    PROVE  \E F : Runs(F, n, amounts, pic) /\ Totalled(amounts, pic) = F[n]
PROOF
<1>1. PICK H : TotalFunction(H, n, amounts, pic)
  BY RunsExist
<1>2. \E F : TotalFunction(F, n, amounts, pic) /\ Totalled(amounts, pic) = F[n]
  BY <1>1 DEF Totalled, TotalFunction
<1> QED
  BY <1>2, TotalFunctionRuns

(* What holds of the first total and is kept by each is true of the last.  *)
LEMMA TotalsHeld ==
    ASSUME NEW n \in Nat, NEW amounts, \A k \in 1 .. n : amounts[k] \in Int,
           NEW pic \in Picture, NEW F, Runs(F, n, amounts, pic)
    PROVE  \A k \in 0 .. n : F[k] \in Held(pic)
PROOF
<1> DEFINE Bad == {k \in 0 .. n : F[k] \notin Held(pic)}
<1>1. SUFFICES ASSUME Bad # {}
               PROVE  FALSE
  OBVIOUS
<1>2. PICK m \in Bad : \A k \in Bad : m <= k
  <2>1. Bad \in SUBSET Nat
    OBVIOUS
  <2> HIDE DEF Bad
  <2> QED
    BY <1>1, <2>1, LeastOf
<1>3. CASE m = 0
  <2>1. 0 \in Held(pic)
    BY DEF Held, Magnitude, Picture
  <2> QED
    BY <1>3, <2>1 DEF Runs
<1>4. CASE m # 0
  <2>1. m \in 1 .. n /\ m - 1 \in 0 .. n /\ ~(m <= m - 1)
    BY <1>4
  <2>2. F[m - 1] \in Int /\ amounts[m] \in Int
    BY <1>2, <2>1 DEF Held
  <2>3. FitToPic(F[m - 1] + amounts[m], pic) \in Held(pic)
    <3> DEFINE v == F[m - 1] + amounts[m]
    <3>1. v \in Int
      BY <2>2
    <3> HIDE DEF v
    <3>2. FitToPic(v, pic) \in Held(pic)
      BY <3>1, FitToPicType
    <3> QED
      BY <3>2 DEF v
  <2> QED
    BY <2>1, <2>3 DEF Runs
<1> QED
  BY <1>3, <1>4

(* A total is always a value of its item. *)
LEMMA TotalledIsHeld ==
    ASSUME NEW amounts, NEW n \in Nat, Len(amounts) = n, \A k \in 1 .. n : amounts[k] \in Int,
           NEW pic \in Picture
    PROVE  Totalled(amounts, pic) \in Held(pic)
PROOF
<1>1. PICK F : Runs(F, n, amounts, pic) /\ Totalled(amounts, pic) = F[n]
  BY TotalledRuns
<1>2. n \in 0 .. n
  OBVIOUS
<1> QED
  BY <1>1, <1>2, TotalsHeld

(* While the amounts together are within the item, nothing is lost. *)
LEMMA NothingTruncated ==
    ASSUME NEW n \in Nat, NEW amounts, NEW sizes,
           \A k \in 1 .. n : /\ amounts[k] \in Int /\ sizes[k] \in Nat
                             /\ -sizes[k] <= amounts[k] /\ amounts[k] <= sizes[k],
           NEW pic \in Picture, pic.signed, Sum(sizes, 1 .. n) < pic.cap,
           NEW F, Runs(F, n, amounts, pic)
    PROVE  F[n] = Sum(amounts, 1 .. n)
PROOF
<1> DEFINE Bad == {k \in 0 .. n : F[k] # Sum(amounts, 1 .. k)}
<1>1. SUFFICES ASSUME Bad # {}
               PROVE  FALSE
  <2>1. n \in 0 .. n
    OBVIOUS
  <2> QED
    BY <1>1, <2>1
<1>2. PICK m \in Bad : \A k \in Bad : m <= k
  <2>1. Bad \in SUBSET Nat
    OBVIOUS
  <2> HIDE DEF Bad
  <2> QED
    BY <1>1, <2>1, LeastOf
<1>3. CASE m = 0
  <2>1. 1 .. 0 = {}
    OBVIOUS
  <2>2. Sum(amounts, {}) = 0
    BY FS_EmptySet, SumStep
  <2> QED
    BY <1>3, <2>1, <2>2 DEF Runs
<1>4. CASE m # 0
  <2>1. PICK p \in Nat : m = p + 1
    BY <1>4
  <2>2. m \in 1 .. n /\ p \in 0 .. n /\ ~(m <= p) /\ m - 1 = p
    BY <2>1
  <2>3. F[p] = Sum(amounts, 1 .. p)
    BY <1>2, <2>2
  <2>4. \A k \in 1 .. p + 1 : k \in 1 .. n
    BY <2>1, <2>2
  <2>5. Sum(amounts, 1 .. p + 1) = Sum(amounts, 1 .. p) + amounts[p + 1]
    BY <2>4, SumOneMore
  <2>6. IsFiniteSet(1 .. n) /\ IsFiniteSet(1 .. m)
    <3>1. n \in Int /\ m \in Int /\ 1 \in Int
      OBVIOUS
    <3> QED
      BY <3>1, FS_Interval
  <2>7. Sum(sizes, 1 .. m) <= Sum(sizes, 1 .. n)
    <3>1. 1 .. m \subseteq 1 .. n
      OBVIOUS
    <3> QED
      BY <2>6, <3>1, SumMonotone
  <2>8. -Sum(sizes, 1 .. m) <= Sum(amounts, 1 .. m) /\ Sum(amounts, 1 .. m) <= Sum(sizes, 1 .. m)
    BY <2>1, <2>4, <2>6, SumBetween
  <2>9. Sum(sizes, 1 .. m) \in Nat /\ Sum(sizes, 1 .. n) \in Nat /\ Sum(amounts, 1 .. m) \in Int
    <3>1. Sum(sizes, 1 .. n) \in Nat
      BY <2>6, SumNat
    <3>2. Sum(sizes, 1 .. m) \in Nat
      BY <2>1, <2>4, <2>6, SumNat
    <3>3. Sum(amounts, 1 .. m) \in Int
      BY <2>1, <2>4, <2>6, SumInt
    <3> QED
      BY <3>1, <3>2, <3>3
  <2> DEFINE v == Sum(amounts, 1 .. m)
             big == Sum(sizes, 1 .. n)
             mid == Sum(sizes, 1 .. m)
  <2>10. v \in Held(pic)
    <3>1. /\ v \in Int /\ big \in Nat /\ mid \in Nat /\ mid <= big
          /\ -mid <= v /\ v <= mid /\ big < pic.cap
      BY <2>7, <2>8, <2>9
    <3>2. pic.cap \in Nat
      BY DEF Picture
    <3> HIDE DEF v, big, mid
    <3> QED
      BY <3>1, <3>2 DEF Held, Magnitude
  <2>11. F[m] = FitToPic(v, pic)
    BY <2>1, <2>2, <2>3, <2>5 DEF Runs
  <2>12. FitToPic(v, pic) = v
    <3> HIDE DEF v
    <3> QED
      BY <2>10, HeldIsKept
  <2> QED
    BY <2>11, <2>12
<1> QED
  BY <1>3, <1>4

-----------------------------------------------------------------------------
(* The entries of an account. *)

(* The places of a sequence are finitely many numbers. *)
LEMMA PlacesOf ==
    ASSUME NEW seq, IsSequence(seq), NEW places, places \subseteq DOMAIN seq
    PROVE  IsFiniteSet(places) /\ places \subseteq Int
PROOF
<1>1. Len(seq) \in Int /\ 1 \in Int /\ DOMAIN seq = 1 .. Len(seq)
  BY SequenceIs
<1>2. IsFiniteSet(1 .. Len(seq))
  BY <1>1, FS_Interval
<1> QED
  BY <1>1, <1>2, FS_Subset

(* What is kept is a sequence. *)
LEMMA PickedIs ==
    ASSUME NEW s, NEW n, NEW at, NEW seq, NEW places, Picked(s, n, at, seq, places)
    PROVE  /\ n \in Nat /\ DOMAIN s = 1 .. n /\ IsSequence(s) /\ Len(s) = n
           /\ \A k \in 1 .. n : at[k] \in places /\ s[k] = seq[at[k]]
PROOF
  BY DEF Picked

(* The counted entries of an account, wherever they stand in a sequence. *)
CountedPlaces(seq, account) ==
    {k \in DOMAIN seq : seq[k].account = account /\ seq[k].void # "V"}

(* Filtered twice, an account's entries stand as they did. *)
LEMMA CountedOnAccount ==
    ASSUME NEW seq, IsSequence(seq), NEW account
    PROVE  \E n, at : Picked(Counted(OnAccount(seq, account)), n, at, seq,
                             CountedPlaces(seq, account))
PROOF
<1> DEFINE A == {k \in DOMAIN seq : seq[k].account = account}
           s == OnAccount(seq, account)
           B == {k \in DOMAIN s : s[k].void # "V"}
           t == Counted(s)
           C == CountedPlaces(seq, account)
<1>1. IsFiniteSet(A) /\ A \subseteq Int
  BY PlacesOf
<1>2. PICK m, at : Picked(s, m, at, seq, A)
  BY <1>1, KeptIs DEF OnAccount
<1>3. /\ m \in Nat /\ DOMAIN s = 1 .. m /\ IsSequence(s)
      /\ \A k \in 1 .. m : at[k] \in A /\ s[k] = seq[at[k]]
  BY <1>2, PickedIs
<1>4. IsFiniteSet(B) /\ B \subseteq Int
  BY <1>3, PlacesOf
<1>5. PICK n, pl : Picked(t, n, pl, s, B)
  BY <1>4, KeptIs DEF Counted
<1>6. /\ n \in Nat /\ \A k \in 1 .. n : pl[k] \in B /\ t[k] = s[pl[k]]
  BY <1>5, PickedIs
<1> DEFINE c == [k \in 1 .. n |-> at[pl[k]]]
<1>7. \A k \in 1 .. n : pl[k] \in 1 .. m /\ at[pl[k]] \in C
  BY <1>3, <1>6 DEF CountedPlaces
<1>8. c \in [1 .. n -> C]
  BY <1>7
<1>9. \A x \in C : \E k \in 1 .. n : c[k] = x
  <2> SUFFICES ASSUME NEW x \in C
               PROVE  \E k \in 1 .. n : c[k] = x
    OBVIOUS
  <2>1. x \in A /\ seq[x].void # "V"
    BY DEF CountedPlaces
  <2>2. PICK i \in 1 .. m : at[i] = x
    BY <1>2, <2>1 DEF Picked
  <2>3. i \in B
    BY <1>3, <2>1, <2>2
  <2>4. PICK k \in 1 .. n : pl[k] = i
    BY <1>5, <2>3 DEF Picked
  <2> QED
    BY <2>2, <2>4
<1>10. \A i, k \in 1 .. n : i < k => c[i] < c[k]
  <2> SUFFICES ASSUME NEW i \in 1 .. n, NEW k \in 1 .. n, i < k
               PROVE  at[pl[i]] < at[pl[k]]
    OBVIOUS
  <2>1. pl[i] < pl[k]
    BY <1>5 DEF Picked
  <2> QED
    BY <1>2, <1>7, <2>1 DEF Picked
<1>11. /\ t = [k \in 1 .. n |-> seq[c[k]]] /\ IsSequence(t) /\ Len(t) = n
  <2>1. t = [k \in 1 .. n |-> s[pl[k]]] /\ IsSequence(t) /\ Len(t) = n
    BY <1>5 DEF Picked
  <2>2. \A k \in 1 .. n : s[pl[k]] = seq[c[k]]
    BY <1>3, <1>7
  <2> HIDE DEF t, s, c
  <2> QED
    BY <2>1, <2>2
<1> HIDE DEF c, t, C
<1>12. Picked(t, n, c, seq, C)
  BY <1>6, <1>8, <1>9, <1>10, <1>11 DEF Picked
<1> QED
  BY <1>12 DEF t, C, s

(* Without an unknown type every counted entry is paid or reversed. *)
LEMMA UnknownOnAccount ==
    ASSUME NEW seq, IsSequence(seq), NEW account, ~UnknownType(OnAccount(seq, account))
    PROVE  \A k \in CountedPlaces(seq, account) : seq[k].type \in {"P", "R"}
PROOF
<1> DEFINE A == {k \in DOMAIN seq : seq[k].account = account}
           s == OnAccount(seq, account)
<1>1. IsFiniteSet(A) /\ A \subseteq Int
  BY PlacesOf
<1>2. PICK m, at : Picked(s, m, at, seq, A)
  BY <1>1, KeptIs DEF OnAccount
<1>3. /\ m \in Nat /\ DOMAIN s = 1 .. m
      /\ \A k \in 1 .. m : at[k] \in A /\ s[k] = seq[at[k]]
  BY <1>2, PickedIs
<1> SUFFICES ASSUME NEW x \in CountedPlaces(seq, account)
             PROVE  seq[x].type \in {"P", "R"}
  OBVIOUS
<1>4. x \in A /\ seq[x].void # "V"
  BY DEF CountedPlaces
<1>5. PICK i \in 1 .. m : at[i] = x
  BY <1>2, <1>4 DEF Picked
<1> HIDE DEF s
<1>6. ~UnknownType(s)
  BY DEF s
<1> QED
  BY <1>3, <1>4, <1>5, <1>6 DEF UnknownType

-----------------------------------------------------------------------------
(* The capture in posting order. *)

(* The sort keys of the capture are numbers. *)
LEMMA TransTypes ==
    ASSUME NEW in \in Inputs
    PROVE  /\ IsSequence(in.trans)
           /\ \A k \in DOMAIN in.trans :
                /\ in.trans[k].account \in Int /\ PostDay(in.trans[k]) \in Int
                /\ in.trans[k].seq \in Int
PROOF
<1>1. in.trans \in Seq(LntranRecords)
  BY ItemsAssumption
<1>2. IsSequence(in.trans)
  BY <1>1, RangeIs
<1>3. \A k \in DOMAIN in.trans : in.trans[k] \in LntranRecords
  BY <1>1
<1>4. ASSUME NEW t \in LntranRecords
      PROVE  t.account \in Int /\ PostDay(t) \in Int /\ t.seq \in Int
  <2>1. t.date \in Dates /\ t.seq \in Nat /\ t.account \in 0 .. Width.account - 1
    BY DEF LntranRecords
  <2>2. Width.account \in Int
    BY WidthAssumption DEF WidthKinds
  <2>3. FromYymmdd(t.date) \in Dates
    BY <2>1, WindowIsDate
  <2>4. PostDay(t) \in Int
    BY <2>3, DayNumber DEF PostDay
  <2> QED
    BY <2>1, <2>2, <2>4
<1> QED
  BY <1>2, <1>3, <1>4

PostedBefore(s, t) ==
    \/ PostDay(s) < PostDay(t)
    \/ PostDay(s) = PostDay(t) /\ s.seq <= t.seq

(* Posting puts the entries of an account by date and sequence number. *)
LEMMA PostingIs ==
    ASSUME NEW in \in Inputs
    PROVE  \E at :
             /\ at \in [DOMAIN in.trans -> DOMAIN in.trans]
             /\ \A x \in DOMAIN in.trans : \E k \in DOMAIN in.trans : at[k] = x
             /\ \A i, k \in DOMAIN in.trans : at[i] = at[k] => i = k
             /\ \A i, k \in DOMAIN in.trans :
                    i < k /\ in.trans[at[i]].account = in.trans[at[k]].account
                        => PostedBefore(in.trans[at[i]], in.trans[at[k]])
             /\ Posted[in] = [k \in DOMAIN in.trans |-> in.trans[at[k]]]
             /\ IsSequence(Posted[in]) /\ DOMAIN Posted[in] = DOMAIN in.trans
PROOF
<1> DEFINE capture == in.trans
           D == DOMAIN capture
           AtOrBefore(i, k) ==
            LET s == capture[i]
                t == capture[k]
            IN  \/ s.account < t.account
                \/ s.account = t.account /\ PostDay(s) < PostDay(t)
                \/ /\ s.account = t.account /\ PostDay(s) = PostDay(t)
                   /\ s.seq < t.seq \/ (s.seq = t.seq /\ i <= k)
           order == {p \in D \X D : AtOrBefore(p[1], p[2])}
           at == InOrder(D, order)
<1>1. /\ IsSequence(capture)
      /\ \A k \in D : capture[k].account \in Int /\ PostDay(capture[k]) \in Int
                      /\ capture[k].seq \in Int
  BY TransTypes
<1>2. Len(capture) \in Nat /\ D = 1 .. Len(capture) /\ IsFiniteSet(D) /\ Cardinality(D) = Len(capture)
  <2>1. Len(capture) \in Nat /\ D = 1 .. Len(capture)
    BY <1>1, SequenceIs
  <2>2. ASSUME NEW n \in Nat
        PROVE  IsFiniteSet(1 .. n) /\ Cardinality(1 .. n) = n
    <3>1. n \in Int /\ 1 \in Int /\ (IF 1 > n THEN 0 ELSE n - 1 + 1) = n
      OBVIOUS
    <3> QED
      BY <3>1, FS_Interval
  <2> HIDE DEF D, capture
  <2> QED
    BY <2>1, <2>2
<1> HIDE DEF D, capture
<1>3. \A i, k \in D : <<i, k>> \in order <=> AtOrBefore(i, k)
  OBVIOUS
<1>4. \A k \in D : k \in Int
  BY <1>2
<1>5. Orders(order, D)
  <2>1. \A i, k \in D : AtOrBefore(i, k) \/ AtOrBefore(k, i)
    BY <1>1, <1>4
  <2>2. \A i, k \in D : AtOrBefore(i, k) /\ AtOrBefore(k, i) => i = k
    BY <1>1, <1>4
  <2>3. \A i, k, l \in D : AtOrBefore(i, k) /\ AtOrBefore(k, l) => AtOrBefore(i, l)
    BY <1>1, <1>4
  <2> HIDE DEF order, AtOrBefore
  <2> QED
    BY <1>3, <2>1, <2>2, <2>3 DEF Orders
<1>6. /\ at \in [1 .. Cardinality(D) -> D]
      /\ \A x \in D : \E k \in 1 .. Cardinality(D) : at[k] = x
      /\ \A i, k \in 1 .. Cardinality(D) : at[i] = at[k] => i = k
      /\ \A i, k \in 1 .. Cardinality(D) : <<at[i], at[k]>> \in order <=> i <= k
  <2> HIDE DEF order, AtOrBefore, at
  <2>1. /\ InOrder(D, order) \in [1 .. Cardinality(D) -> D]
        /\ \A x \in D : \E k \in 1 .. Cardinality(D) : InOrder(D, order)[k] = x
        /\ \A i, k \in 1 .. Cardinality(D) : InOrder(D, order)[i] = InOrder(D, order)[k] => i = k
        /\ \A i, k \in 1 .. Cardinality(D) :
                <<InOrder(D, order)[i], InOrder(D, order)[k]>> \in order <=> i <= k
    <3>1. IsFiniteSet(D)
      BY <1>2
    <3> QED
      BY <1>5, <3>1, InOrderIs
  <2> QED
    BY <2>1 DEF at
<1>7. 1 .. Cardinality(D) = D
  BY <1>2
<1>8. ASSUME NEW i \in D, NEW k \in D, i < k, capture[at[i]].account = capture[at[k]].account
      PROVE  PostedBefore(capture[at[i]], capture[at[k]])
  <2> HIDE DEF at, order, AtOrBefore
  <2>0. i \in 1 .. Cardinality(D) /\ k \in 1 .. Cardinality(D) /\ i <= k
    <3>1. i \in Int /\ k \in Int
      BY <1>4
    <3>2. i <= k
      BY <1>8, <3>1
    <3> QED
      BY <1>7, <3>2, Zenon
  <2>1. at[i] \in D /\ at[k] \in D /\ <<at[i], at[k]>> \in order
    BY <1>6, <2>0
  <2>2. AtOrBefore(at[i], at[k])
    BY <1>3, <2>1
  <2> USE DEF AtOrBefore
  <2>3. capture[at[i]].account \in Int /\ capture[at[k]].account \in Int
        /\ capture[at[i]].seq \in Int /\ capture[at[k]].seq \in Int
    BY <1>1, <2>1
  <2> QED
    BY <1>8, <2>2, <2>3 DEF PostedBefore
<1>9. Posted[in] = [k \in D |-> capture[at[k]]]
  <2>1. Posted[in] = PostingOrder(capture)
    BY DEF Posted, capture
  <2> QED
    BY <2>1 DEF PostingOrder, D
<1>10. IsSequence(Posted[in]) /\ DOMAIN Posted[in] = D
  <2> DEFINE s == [k \in D |-> capture[at[k]]]
  <2>1. DOMAIN s = 1 .. Len(capture) /\ s = [i \in DOMAIN s |-> s[i]]
    BY <1>2
  <2> HIDE DEF s
  <2>2. IsSequence(s)
    BY <1>2, <2>1, FunctionIsSequence
  <2> QED
    BY <1>2, <1>9, <2>1, <2>2 DEF s
<1> HIDE DEF at
<1>11. at \in [D -> D] /\ \A x \in D : \E k \in D : at[k] = x
  BY <1>6, <1>7
<1>12. \A i, k \in D : at[i] = at[k] => i = k
  BY <1>6, <1>7
<1> QED
  BY <1>8, <1>9, <1>10, <1>11, <1>12 DEF D, capture

(* After the posting the counted entries go by date and sequence number. *)
LEMMA CountedInPostingOrder ==
    ASSUME NEW in \in Inputs, NEW account
    PROVE  \E n, at :
             LET s == Counted(OnAccount(Posted[in], account))
                 places == CountedPlaces(in.trans, account)
             IN  /\ n \in Nat /\ at \in [1 .. n -> places]
                 /\ \A x \in places : \E k \in 1 .. n : at[k] = x
                 /\ \A i, k \in 1 .. n : i < k =>
                        /\ PostedBefore(in.trans[at[i]], in.trans[at[k]])
                        /\ at[i] # at[k]
                 /\ s = [k \in 1 .. n |-> in.trans[at[k]]]
                 /\ IsSequence(s) /\ Len(s) = n
PROOF
<1> DEFINE trans == in.trans
           D == DOMAIN trans
           posted == Posted[in]
           s == Counted(OnAccount(posted, account))
           places == CountedPlaces(trans, account)
<1>1. PICK p :
        /\ p \in [D -> D]
        /\ \A x \in D : \E k \in D : p[k] = x
        /\ \A i, k \in D : p[i] = p[k] => i = k
        /\ \A i, k \in D :
              i < k /\ trans[p[i]].account = trans[p[k]].account
                  => PostedBefore(trans[p[i]], trans[p[k]])
        /\ posted = [k \in D |-> trans[p[k]]]
        /\ IsSequence(posted) /\ DOMAIN posted = D
  BY PostingIs
<1> HIDE DEF trans, D, posted
<1>2. PICK n, b : Picked(s, n, b, posted, CountedPlaces(posted, account))
  BY <1>1, CountedOnAccount
<1>3. /\ n \in Nat /\ IsSequence(s) /\ Len(s) = n
      /\ \A k \in 1 .. n : b[k] \in CountedPlaces(posted, account) /\ s[k] = posted[b[k]]
  BY <1>2, PickedIs
<1> DEFINE at == [k \in 1 .. n |-> p[b[k]]]
<1>4. \A k \in 1 .. n : b[k] \in D /\ p[b[k]] \in places /\ posted[b[k]] = trans[p[b[k]]]
  BY <1>1, <1>3 DEF CountedPlaces, D
<1>5. at \in [1 .. n -> places]
  BY <1>4
<1>6. \A x \in places : \E k \in 1 .. n : at[k] = x
  <2> SUFFICES ASSUME NEW x \in places
               PROVE  \E k \in 1 .. n : at[k] = x
    OBVIOUS
  <2>1. x \in D /\ trans[x].account = account /\ trans[x].void # "V"
    BY DEF CountedPlaces, D
  <2>2. PICK i \in D : p[i] = x
    BY <1>1, <2>1
  <2>3. posted[i] = trans[x]
    BY <1>1, <2>2
  <2>4. i \in CountedPlaces(posted, account)
    BY <1>1, <2>1, <2>3 DEF CountedPlaces
  <2>5. PICK k \in 1 .. n : b[k] = i
    BY <1>2, <2>4 DEF Picked
  <2> QED
    BY <2>2, <2>5
<1>7. ASSUME NEW i \in 1 .. n, NEW k \in 1 .. n, i < k
      PROVE  PostedBefore(trans[at[i]], trans[at[k]]) /\ at[i] # at[k]
  <2>1. b[i] < b[k]
    BY <1>2, <1>7 DEF Picked
  <2>2. b[i] \in Int /\ b[k] \in Int
    <3>1. \A x \in DOMAIN posted : x \in Int
      BY <1>1, SequenceIs
    <3> QED
      BY <1>1, <1>4, <3>1
  <2>3. b[i] # b[k]
    BY <2>1, <2>2
  <2>4. trans[p[b[i]]].account = account /\ trans[p[b[k]]].account = account
    BY <1>4 DEF CountedPlaces
  <2>5. PostedBefore(trans[p[b[i]]], trans[p[b[k]]]) /\ p[b[i]] # p[b[k]]
    BY <1>1, <1>4, <2>1, <2>3, <2>4
  <2> QED
    BY <2>5
<1>8. s = [k \in 1 .. n |-> trans[at[k]]]
  <2>1. s = [k \in 1 .. n |-> posted[b[k]]]
    BY <1>2 DEF Picked
  <2>2. \A k \in 1 .. n : posted[b[k]] = trans[at[k]]
    BY <1>4
  <2> HIDE DEF s, at
  <2> QED
    BY <2>1, <2>2
<1> HIDE DEF s, at, places
<1> QED
  BY <1>3, <1>5, <1>6, <1>7, <1>8 DEF s, places, trans, posted

(* An entry moves its amount, one way or the other. *)
LEMMA SignedIsInt ==
    ASSUME NEW t \in LntranRecords
    PROVE  /\ t.amount.digits \in Nat /\ Signed(t) \in Int
           /\ -t.amount.digits <= Signed(t) /\ Signed(t) <= t.amount.digits
PROOF
<1>1. t.amount.digits \in 0 .. Width["amount"] - 1
  BY DEF LntranRecords, Amounts
<1>2. Width["amount"] \in Nat \ {0}
  BY WidthAssumption DEF WidthKinds
<1> DEFINE d == t.amount.digits
           amount == DecodeField(t.amount, Lntran.amount)
<1>3. amount = IF t.amount.zone = "negative" THEN -d ELSE d
  BY DEF DecodeField, DecodeDisplay, Lntran, SignedDisplay, Numeric
<1>4. d \in Nat
  BY <1>1, <1>2
<1>5. Signed(t) = IF t.type = "P" THEN amount ELSE -amount
  BY DEF Signed
<1> HIDE DEF d, amount
<1>6. amount \in {d, -d}
  BY <1>3
<1>7. Signed(t) \in Int /\ -d <= Signed(t) /\ Signed(t) <= d
  BY <1>4, <1>5, <1>6
<1> QED
  BY <1>4, <1>7 DEF d

(* An amount that Field.decode accepts is the amount that LNACCR01 sees. *)
LEMMA SignedIsLegacy ==
    ASSUME NEW t, Decodable(t.amount, Lntran.amount), t.type \in {"P", "R"}
    PROVE  LegacySigned(t) = Signed(t)
PROOF
<1>1. t.amount.zone \in {"positive", "negative", "plain"}
  BY DEF Decodable, Lntran, SignedDisplay, Numeric, DisplayZones
<1> DEFINE amount == DecodeField(t.amount, Lntran.amount)
<1>2. amount = IF t.amount.zone = "negative" THEN -t.amount.digits ELSE t.amount.digits
  BY DEF DecodeField, DecodeDisplay, Lntran, SignedDisplay, Numeric
<1>3. Shown(t.amount) = amount
  BY <1>1, <1>2 DEF Shown
<1> HIDE DEF amount
<1>4. CASE t.type = "P"
  BY <1>3, <1>4 DEF LegacySigned, Signed, amount
<1>5. CASE t.type = "R"
  <2>1. LegacySigned(t) = -Shown(t.amount) /\ Signed(t) = -amount
    BY <1>5 DEF LegacySigned, Signed, amount
  <2> QED
    BY <1>3, <2>1
<1> QED
  BY <1>4, <1>5

(* The item in which the amount paid and the balance are held. *)
LEMMA PrincipalPicture == Lnmast.principal \in Picture /\ Lnmast.principal.signed
                          /\ Lnmast.principal.cap = Width.money
PROOF
  BY WidthAssumption DEF Lnmast, SignedDisplay, Numeric, Picture, WidthKinds

(***************************************************************************)
(* The amount that process_account is given is the account's net of the    *)
(* period by date and sequence number, whatever order the capture has.     *)
(* The sum of a sequence. *)
LEMMA SumIs ==
    ASSUME NEW s, NEW m \in Nat, DOMAIN s = 1 .. m
    PROVE  SumFunction(s) = Sum(s, 1 .. m)
PROOF
  BY DEF SumFunction, Sum

-----------------------------------------------------------------------------
(* The amount paid, for entries that come in either order. *)

(* All of a finite set, each member in one place. *)
Arranges(at, n, R) ==
    /\ n \in Nat /\ at \in [1 .. n -> R]
    /\ \A x \in R : \E k \in 1 .. n : at[k] = x
    /\ \A i, k \in 1 .. n : at[i] = at[k] => i = k

(* The sum of a set does not depend on how it is arranged. *)
LEMMA ArrangedSum ==
    ASSUME NEW R, IsFiniteSet(R), NEW n, NEW at, Arranges(at, n, R),
           NEW f, NEW g, \A x \in R : g[x] \in Int, \A k \in 1 .. n : f[k] = g[at[k]]
    PROVE  Sum(f, 1 .. n) = Sum(g, R)
PROOF
<1>1. IsFiniteSet(1 .. n)
  BY FS_Interval DEF Arranges
<1> QED
  BY <1>1, SumRenamed DEF Arranges

(* A value of an entry between its amount and the amount taken back. *)
Within(g, sizes, R) ==
    \A x \in R : g[x] \in Int /\ sizes[x] \in Nat /\ -sizes[x] <= g[x] /\ g[x] <= sizes[x]

ValuesOf(amounts, n, g, at) == \A k \in 1 .. n : amounts[k] = g[at[k]]

(* A total of amounts that fit into the item together is their sum. *)
LEMMA ArrangedTotal ==
    ASSUME NEW R, IsFiniteSet(R), NEW n, NEW at, Arranges(at, n, R),
           NEW amounts, Len(amounts) = n, NEW g, NEW sizes,
           ValuesOf(amounts, n, g, at), Within(g, sizes, R),
           NEW pic \in Picture, pic.signed, Sum(sizes, R) < pic.cap
    PROVE  Totalled(amounts, pic) = Sum(g, R)
PROOF
<1> USE DEF ValuesOf, Within
<1> DEFINE bounds == [k \in 1 .. n |-> sizes[at[k]]]
<1>1. n \in Nat /\ \A k \in 1 .. n : at[k] \in R
  BY DEF Arranges
<1>2. Sum(bounds, 1 .. n) = Sum(sizes, R)
  <2>1. \A k \in 1 .. n : bounds[k] = sizes[at[k]]
    OBVIOUS
  <2> HIDE DEF bounds
  <2>2. \A x \in R : sizes[x] \in Int
    OBVIOUS
  <2> QED
    BY <2>1, <2>2, ArrangedSum
<1>3. Sum(amounts, 1 .. n) = Sum(g, R)
  BY ArrangedSum
<1>4. PICK F : Runs(F, n, amounts, pic) /\ Totalled(amounts, pic) = F[n]
  BY <1>1, TotalledRuns
<1>5. \A k \in 1 .. n : /\ amounts[k] \in Int /\ bounds[k] \in Nat
                        /\ -bounds[k] <= amounts[k] /\ amounts[k] <= bounds[k]
  <2>1. \A k \in 1 .. n : bounds[k] = sizes[at[k]]
    OBVIOUS
  <2> HIDE DEF bounds
  <2> QED
    BY <1>1, <2>1
<1> HIDE DEF bounds
<1>6. F[n] = Sum(amounts, 1 .. n)
  BY <1>1, <1>2, <1>4, <1>5, NothingTruncated
<1> QED
  BY <1>3, <1>4, <1>6

(* What Kept keeps is arranged by place. *)
LEMMA PickedArranges ==
    ASSUME NEW s, NEW n, NEW at, NEW seq, NEW places, Picked(s, n, at, seq, places),
           places \subseteq Int
    PROVE  Arranges(at, n, places)
PROOF
<1>1. /\ n \in Nat /\ at \in [1 .. n -> places]
      /\ \A x \in places : \E k \in 1 .. n : at[k] = x
      /\ \A i, k \in 1 .. n : i < k => at[i] < at[k]
  BY DEF Picked
<1>2. ASSUME NEW i \in 1 .. n, NEW k \in 1 .. n, at[i] = at[k]
      PROVE  i = k
  <2>1. at[i] \in Int /\ at[k] \in Int
    BY <1>1
  <2>2. ~(i < k) /\ ~(k < i)
    BY <1>1, <1>2, <2>1
  <2> QED
    BY <1>1, <2>2
<1> QED
  BY <1>1, <1>2 DEF Arranges

(* Entries that are together within the paid item have the same total in   *)
(* posting order and as they arrive: their sum.                            *)
LEMMA SamePaid ==
    ASSUME NEW in \in Inputs, Loads[in], NEW raw, EntriesFit(in, raw),
           ~UnknownType(Entries(in, raw))
    PROVE  PaidInPeriod(Entries(in, raw)) = LegacyPaid(in.trans, raw.account)
PROOF
<1> DEFINE trans == in.trans
           account == raw.account
           R == CountedPlaces(trans, account)
           pic == Lnmast.principal
           g == [k \in DOMAIN trans |-> Signed(trans[k])]
           sizes == [k \in DOMAIN trans |-> trans[k].amount.digits]
<1>1. /\ IsSequence(trans) /\ R \subseteq DOMAIN trans
      /\ IsFiniteSet(R) /\ R \subseteq Int
  <2>1. IsSequence(trans)
    BY TransTypes
  <2>2. R \subseteq DOMAIN trans
    BY DEF CountedPlaces
  <2> HIDE DEF R, trans
  <2>3. IsFiniteSet(R) /\ R \subseteq Int
    BY <2>1, <2>2, PlacesOf
  <2> QED
    BY <2>1, <2>2, <2>3
<1>2. \A k \in DOMAIN trans : trans[k] \in LntranRecords
  <2>1. trans \in Seq(LntranRecords)
    BY ItemsAssumption
  <2> HIDE DEF trans
  <2> QED
    BY <2>1
<1>3. \A k \in DOMAIN trans :
        /\ sizes[k] \in Nat /\ g[k] \in Int /\ -sizes[k] <= g[k] /\ g[k] <= sizes[k]
        /\ sizes[k] = trans[k].amount.digits /\ g[k] = Signed(trans[k])
  <2>1. ASSUME NEW k \in DOMAIN trans
        PROVE  /\ sizes[k] \in Nat /\ g[k] \in Int /\ -sizes[k] <= g[k] /\ g[k] <= sizes[k]
               /\ sizes[k] = trans[k].amount.digits /\ g[k] = Signed(trans[k])
    <3> DEFINE t == trans[k]
               d == t.amount.digits
    <3>1. t \in LntranRecords
      BY <1>2
    <3>2. sizes[k] = d /\ g[k] = Signed(t)
      OBVIOUS
    <3> HIDE DEF t, sizes, g
    <3>3. d \in Nat /\ Signed(t) \in Int /\ -d <= Signed(t) /\ Signed(t) <= d
      BY <3>1, SignedIsInt
    <3> HIDE DEF d
    <3> QED
      BY <3>2, <3>3 DEF t, d
  <2> QED
    BY <2>1
<1>4. \A x \in R : g[x] \in Int /\ sizes[x] \in Nat /\ -sizes[x] <= g[x] /\ g[x] <= sizes[x]
  <2> HIDE DEF g, sizes, R, trans
  <2> QED
    BY <1>1, <1>3
<1> DEFINE arrived == Counted(OnAccount(trans, account))
<1>5. PICK n0, at0 : Picked(arrived, n0, at0, trans, R)
  <2> HIDE DEF trans
  <2> QED
    BY <1>1, CountedOnAccount
<1> HIDE DEF arrived
<1>6. /\ Arranges(at0, n0, R) /\ n0 \in Nat /\ DOMAIN arrived = 1 .. n0
      /\ \A k \in 1 .. n0 : at0[k] \in R /\ arrived[k] = trans[at0[k]]
  <2> HIDE DEF R, trans
  <2>1. Arranges(at0, n0, R)
    BY <1>1, <1>5, PickedArranges
  <2> QED
    BY <1>5, <2>1, PickedIs
<1>7. Sum(sizes, R) < pic.cap
  <2> DEFINE f == [k \in DOMAIN arrived |-> arrived[k].amount.digits]
  <2>1. SumFunction(f) < Width.money
    BY DEF EntriesFit, SumOver, arrived
  <2>2. DOMAIN f = 1 .. n0 /\ \A k \in 1 .. n0 : f[k] = sizes[at0[k]]
    <3>1. \A k \in 1 .. n0 : at0[k] \in DOMAIN trans
      BY <1>1, <1>6
    <3> HIDE DEF R, trans
    <3> QED
      BY <1>6, <3>1
  <2> HIDE DEF f, g, sizes, R, trans
  <2>3. SumFunction(f) = Sum(f, 1 .. n0)
    BY <1>6, <2>2, SumIs
  <2>4. \A x \in R : sizes[x] \in Int
    BY <1>4
  <2>5. Sum(f, 1 .. n0) = Sum(sizes, R)
    BY <1>1, <1>6, <2>2, <2>4, ArrangedSum
  <2>6. pic.cap = Width.money
    BY PrincipalPicture
  <2> HIDE DEF pic
  <2> QED
    BY <2>1, <2>3, <2>5, <2>6
<1>8. PaidInPeriod(Entries(in, raw)) = Sum(g, R)
  <2> DEFINE s == Counted(OnAccount(Posted[in], account))
  <2>1. PICK n, at :
          /\ n \in Nat /\ at \in [1 .. n -> R]
          /\ \A x \in R : \E k \in 1 .. n : at[k] = x
          /\ \A i, k \in 1 .. n : i < k =>
                 /\ PostedBefore(trans[at[i]], trans[at[k]])
                 /\ at[i] # at[k]
          /\ s = [k \in 1 .. n |-> trans[at[k]]]
          /\ IsSequence(s) /\ Len(s) = n
    <3> HIDE DEF account, pic, g, sizes
    <3> QED
      BY CountedInPostingOrder
  <2>2. Arranges(at, n, R)
    <3>1. ASSUME NEW i \in 1 .. n, NEW k \in 1 .. n, at[i] = at[k]
          PROVE  i = k
      <4>1. ~(i < k) /\ ~(k < i)
        BY <2>1, <3>1
      <4> QED
        BY <2>1, <4>1
    <3> QED
      BY <2>1, <3>1 DEF Arranges
  <2> DEFINE amounts == [k \in DOMAIN s |-> Signed(s[k])]
  <2>3. PaidInPeriod(Entries(in, raw)) = Totalled(amounts, pic)
    BY DEF PaidInPeriod, Entries
  <2>4. DOMAIN s = 1 .. n /\ \A k \in 1 .. n : at[k] \in R /\ s[k] = trans[at[k]]
    <3> HIDE DEF R, trans
    <3> QED
      BY <2>1
  <2> HIDE DEF s
  <2>5. IsSequence(amounts) /\ Len(amounts) = n
    <3>1. DOMAIN amounts = 1 .. n /\ amounts = [i \in DOMAIN amounts |-> amounts[i]]
      BY <2>4
    <3> HIDE DEF amounts
    <3> QED
      BY <2>1, <3>1, FunctionIsSequence
  <2>6. \A k \in 1 .. n : amounts[k] = g[at[k]]
    <3>1. \A k \in 1 .. n : at[k] \in DOMAIN trans
      BY <1>1, <2>4
    <3> HIDE DEF R, trans
    <3> QED
      BY <2>4, <3>1
  <2> HIDE DEF amounts, g, sizes, R, trans, pic
  <2>7. Totalled(amounts, pic) = Sum(g, R)
    <3>1. pic \in Picture /\ pic.signed
      BY PrincipalPicture DEF pic
    <3>2. Within(g, sizes, R)
      BY <1>4 DEF Within
    <3>3. ValuesOf(amounts, n, g, at)
      BY <2>6 DEF ValuesOf
    <3> QED
      BY <1>1, <1>7, <2>2, <2>5, <3>1, <3>2, <3>3, ArrangedTotal
  <2> QED
    BY <2>3, <2>7
<1>9. \A x \in R : LegacySigned(trans[x]) = g[x]
  <2>1. \A x \in R : trans[x].type \in {"P", "R"}
    <3>1. PICK pl :
            /\ pl \in [DOMAIN in.trans -> DOMAIN in.trans]
            /\ \A x \in DOMAIN in.trans : \E k \in DOMAIN in.trans : pl[k] = x
            /\ Posted[in] = [k \in DOMAIN in.trans |-> in.trans[pl[k]]]
            /\ IsSequence(Posted[in])
      <4>1. PICK pl :
              /\ pl \in [DOMAIN in.trans -> DOMAIN in.trans]
              /\ \A x \in DOMAIN in.trans : \E k \in DOMAIN in.trans : pl[k] = x
              /\ \A i, k \in DOMAIN in.trans : pl[i] = pl[k] => i = k
              /\ \A i, k \in DOMAIN in.trans :
                     i < k /\ in.trans[pl[i]].account = in.trans[pl[k]].account
                         => PostedBefore(in.trans[pl[i]], in.trans[pl[k]])
              /\ Posted[in] = [k \in DOMAIN in.trans |-> in.trans[pl[k]]]
              /\ IsSequence(Posted[in]) /\ DOMAIN Posted[in] = DOMAIN in.trans
        BY PostingIs
      <4> QED
        BY <4>1
    <3>2. \A k \in CountedPlaces(Posted[in], account) : Posted[in][k].type \in {"P", "R"}
      <4>1. ~UnknownType(OnAccount(Posted[in], account))
        BY DEF Entries
      <4> QED
        BY <3>1, <4>1, UnknownOnAccount
    <3>3. ASSUME NEW x \in R
          PROVE  trans[x].type \in {"P", "R"}
      <4>1. x \in DOMAIN trans /\ trans[x].account = account /\ trans[x].void # "V"
        BY DEF CountedPlaces
      <4>2. PICK k \in DOMAIN trans : pl[k] = x
        BY <3>1, <4>1
      <4>3. k \in DOMAIN Posted[in] /\ Posted[in][k] = trans[x]
        BY <3>1, <4>2
      <4>4. k \in CountedPlaces(Posted[in], account)
        BY <4>1, <4>3 DEF CountedPlaces
      <4> QED
        BY <3>2, <4>3, <4>4
    <3> QED
      BY <3>3
  <2>2. ASSUME NEW x \in R
        PROVE  LegacySigned(trans[x]) = g[x]
    <3>1. x \in DOMAIN trans
      BY <1>1
    <3>2. Decodable(trans[x].amount, Lntran.amount)
      BY <3>1 DEF Loads
    <3>3. LegacySigned(trans[x]) = Signed(trans[x])
      <4> HIDE DEF trans, g, R
      <4> QED
        BY <2>1, <3>2, SignedIsLegacy
    <3> QED
      BY <3>1, <3>3
  <2> QED
    BY <2>2
<1>10. LegacyPaid(in.trans, raw.account) = Sum(g, R)
  <2> DEFINE amounts == [k \in DOMAIN arrived |-> LegacySigned(arrived[k])]
  <2>3. LegacyPaid(in.trans, raw.account) = Totalled(amounts, pic)
    BY DEF LegacyPaid, Lnmast, arrived
  <2>5. IsSequence(amounts) /\ Len(amounts) = n0
    <3>1. DOMAIN amounts = 1 .. n0 /\ amounts = [i \in DOMAIN amounts |-> amounts[i]]
      BY <1>6
    <3> HIDE DEF amounts
    <3> QED
      BY <1>6, <3>1, FunctionIsSequence
  <2>6. \A k \in 1 .. n0 : amounts[k] = g[at0[k]]
    <3> HIDE DEF R, trans, g
    <3> QED
      BY <1>6, <1>9
  <2> HIDE DEF amounts, g, sizes, R, trans, pic
  <2>7. Totalled(amounts, pic) = Sum(g, R)
    <3>1. pic \in Picture /\ pic.signed
      BY PrincipalPicture DEF pic
    <3>2. Within(g, sizes, R)
      BY <1>4 DEF Within
    <3>3. ValuesOf(amounts, n0, g, at0)
      BY <2>6 DEF ValuesOf
    <3> QED
      BY <1>1, <1>6, <1>7, <2>5, <3>1, <3>2, <3>3, ArrangedTotal
  <2> QED
    BY <2>3, <2>7
<1> QED
  BY <1>8, <1>10

-----------------------------------------------------------------------------
(* What LNACCR01 works out for an account, and the port with it.           *)

LEMMA QuotientIsUnique ==
    ASSUME NEW c \in Nat \ {0}, NEW q \in Int, NEW r \in 0 .. c - 1
    PROVE  (q * c + r) \div c = q
PROOF BY SMT

(* One unit more from the half on, and half a unit added before the cut.   *)
LEMMA SameRounding ==
    ASSUME NEW num \in Int, NEW den \in Nat \ {0}
    PROVE  Rounded(num, den) = RoundedHalfUp(num, den) /\ Rounded(num, den) \in Int
PROOF
<1> DEFINE m == Magnitude(num)
           q == m \div den
           r == m % den
<1>1. m \in Nat
  BY DEF Magnitude
<1> HIDE DEF m
<1>2. q \in Int /\ r \in 0 .. den - 1 /\ m = q * den + r
  BY <1>1, DivisionIdentity
<1> HIDE DEF q, r
<1>3. 2 * den \in Nat \ {0} /\ 2 * m + den = q * (2 * den) + (2 * r + den)
  BY <1>1, <1>2
<1>4. (2 * m + den) \div (2 * den) = IF 2 * r >= den THEN q + 1 ELSE q
  <2>1. CASE 2 * r >= den
    <3>1. 2 * r - den \in 0 .. 2 * den - 1 /\ q + 1 \in Int
      BY <1>2, <2>1
    <3>2. 2 * m + den = (q + 1) * (2 * den) + (2 * r - den)
      BY <1>2, <1>3
    <3> QED
      BY <1>3, <2>1, <3>1, <3>2, QuotientIsUnique
  <2>2. CASE ~(2 * r >= den)
    <3>1. 2 * r + den \in 0 .. 2 * den - 1
      BY <1>2, <2>2
    <3> QED
      BY <1>2, <1>3, <2>2, <3>1, QuotientIsUnique
  <2> QED
    BY <2>1, <2>2
<1>5. Rounded(num, den) = IF num < 0 THEN -(IF 2 * r >= den THEN q + 1 ELSE q)
                          ELSE IF 2 * r >= den THEN q + 1 ELSE q
  BY DEF Rounded, m, q, r
<1>6. RoundedHalfUp(num, den) = IF num < 0 THEN -((2 * m + den) \div (2 * den))
                                ELSE (2 * m + den) \div (2 * den)
  BY DEF RoundedHalfUp, m
<1> QED
  BY <1>2, <1>4, <1>5, <1>6

LEMMA Units ==
    /\ RateUnit \in Nat \ {0} /\ DailyUnit \in Nat \ {0} /\ PctUnit \in Nat \ {0}
    /\ RateUnit * DailyUnit \in Nat \ {0}
PROOF
<1>1. RateUnit \in Nat \ {0} /\ DailyUnit \in Nat \ {0} /\ PctUnit \in Nat \ {0}
  BY UnitsAssumption
<1>2. RateUnit * DailyUnit \in Nat \ {0}
  BY <1>1
<1> QED
  BY <1>1, <1>2

LEMMA Pictures ==
    \A kind \in WidthKinds :
        /\ Width[kind] \in Nat \ {0}
        /\ Display(kind) \in Picture /\ SignedDisplay(kind) \in Picture
        /\ ~Display(kind).signed /\ SignedDisplay(kind).signed
        /\ Display(kind).cap = Width[kind] /\ SignedDisplay(kind).cap = Width[kind]
        /\ Display(kind).usage = "DISPLAY" /\ SignedDisplay(kind).usage = "DISPLAY"
PROOF
  BY WidthAssumption DEF Display, SignedDisplay, Numeric, Picture

LEMMA Fitted ==
    ASSUME NEW v \in Int, NEW pic \in Picture
    PROVE  FitToPic(v, pic) \in Int /\ (~pic.signed => FitToPic(v, pic) \in Nat)
PROOF
  BY FitToPicType DEF Held

LEMMA SameWindow ==
    ASSUME NEW field
    PROVE  CenturyWindow(field) = FromYymmdd(field)
PROOF
  BY DEF CenturyWindow, FromYymmdd, CenturyPivot

(* The days of interest, in either basis. *)
LEMMA SameAccrualDays ==
    ASSUME NEW product, NEW last \in Dates, NEW asof \in Dates
    PROVE  /\ AccrualDays(product, last, asof) = LegacyAccrualDays(product, last, asof)
           /\ AccrualDays(product, last, asof) \in Int
PROOF
<1> DEFINE days == IF product = "M" THEN Days360(last, asof) ELSE DaysBetween(last, asof)
<1>1. AccrualDays(product, last, asof) = FitToPic(days, SignedDisplay("period"))
  BY DEF AccrualDays
<1>2. LegacyAccrualDays(product, last, asof) = FitToPic(days, SignedDisplay("period"))
  BY DEF LegacyAccrualDays, LegacyDays360, Days360, DaysBetween
<1>3. days \in Int
  <2>1. DaysBetween(last, asof) \in Int
    BY DayNumber DEF DaysBetween
  <2>2. Days360(last, asof) \in Int
    <3>1. /\ last.y \in Int /\ last.m \in Int /\ last.d \in Int
          /\ asof.y \in Int /\ asof.m \in Int /\ asof.d \in Int
      BY DEF Dates
    <3> QED
      BY <3>1 DEF Days360
  <2> QED
    BY <2>1, <2>2
<1> HIDE DEF days
<1>4. FitToPic(days, SignedDisplay("period")) \in Int
  <2>1. "period" \in WidthKinds
    BY DEF WidthKinds
  <2> QED
    BY <1>3, <2>1, Pictures, Fitted
<1> QED
  BY <1>1, <1>2, <1>4

LEMMA SameRate ==
    ASSUME NEW tier, tier.rate \in Nat, NEW product
    PROVE  /\ DailyRate(tier, product) = LegacyDailyRate(tier, product)
           /\ DailyRate(tier, product) \in Int
PROOF
<1> DEFINE basis == IF product = "M" THEN 360 ELSE 365
           rate == (tier.rate * DailyUnit) \div basis
<1>1. /\ DailyRate(tier, product) = FitToPic(rate, Display("rate"))
      /\ LegacyDailyRate(tier, product) = FitToPic(rate, Display("rate"))
  BY DEF DailyRate, LegacyDailyRate, BasisFor
<1>2. rate \in Int
  <2>1. tier.rate * DailyUnit \in Nat /\ basis \in Nat \ {0}
    BY Units
  <2> HIDE DEF basis
  <2> DEFINE scaled == tier.rate * DailyUnit
  <2> HIDE DEF scaled
  <2>2. scaled \in Nat
    BY <2>1 DEF scaled
  <2>3. scaled \div basis \in Int
    BY <2>1, <2>2, DivisionIdentity
  <2> QED
    BY <2>3 DEF scaled
<1> HIDE DEF rate
<1>3. "rate" \in WidthKinds
  BY DEF WidthKinds
<1> QED
  BY <1>1, <1>2, <1>3, Pictures, Fitted

LEMMA SameInterest ==
    ASSUME NEW balance \in Int, NEW rate \in Int, NEW days \in Int
    PROVE  /\ AccruedInterest(balance, rate, days) = LegacyInterest(balance, rate, days)
           /\ AccruedInterest(balance, rate, days) \in Int
PROOF
<1> DEFINE num == balance * rate * days
           den == RateUnit * DailyUnit
           pic == SignedDisplay("interest")
<1>1. num \in Int /\ den \in Nat \ {0}
  BY Units
<1>2. pic \in Picture
  BY Pictures DEF WidthKinds
<1>3. AccruedInterest(balance, rate, days)
        = IF balance <= 0 THEN 0 ELSE FitToPic(Rounded(num, den), pic)
  BY DEF AccruedInterest
<1>4. LegacyInterest(balance, rate, days)
        = IF balance > 0 THEN FitToPic(RoundedHalfUp(num, den), pic) ELSE 0
  BY DEF LegacyInterest
<1> HIDE DEF num, den, pic
<1>5. Rounded(num, den) = RoundedHalfUp(num, den) /\ Rounded(num, den) \in Int
  BY <1>1, SameRounding
<1>6. FitToPic(Rounded(num, den), pic) \in Int
  BY <1>2, <1>5, Fitted
<1>7. balance <= 0 <=> ~(balance > 0)
  OBVIOUS
<1> QED
  BY <1>3, <1>4, <1>5, <1>6, <1>7

(* MOD 7 gives 1 to 5 on the business days of a week, 6 and 0 on the rest. *)
LEMMA SameRoll ==
    ASSUME NEW due \in Dates
    PROVE  LegacyRolled(due) = RollForward(due)
PROOF
<1> DEFINE from == IntegerOfDate(due)
           days == from .. from + 7 * (Cardinality(Holidays) + 1)
           roll == RollForward(due)
           Stops(n) == ~RollsOn(n) /\ \A m \in from .. n - 1 : RollsOn(m)
<1>1. from \in Int
  BY DayNumber
<1>2. /\ roll \in days /\ IsBusinessDay(roll)
      /\ \A n \in from .. roll - 1 : ~IsBusinessDay(n)
  BY RollsToBusinessDay
<1> HIDE DEF from, roll
<1>3. ASSUME NEW n \in Int
      PROVE  IsBusinessDay(n) <=> ~RollsOn(n)
  <2>1. n % 7 \in 0 .. 6
    BY <1>3
  <2> DEFINE r == n % 7
  <2> HIDE DEF r
  <2>2. r \in 1 .. 5 <=> r \notin {0, 6}
    BY <2>1 DEF r
  <2> QED
    BY <2>2 DEF IsBusinessDay, RollsOn, r
<1>4. \A n \in days : n \in Int
  BY <1>1, UnitsAssumption, FS_CardinalityType
<1>5. roll \in Int
  BY <1>2, <1>4
<1>6. Stops(roll)
  BY <1>1, <1>2, <1>3, <1>5
<1>7. ASSUME NEW n \in days, Stops(n)
      PROVE  n = roll
  <2>1. n \in Int /\ from <= n /\ from <= roll
    BY <1>1, <1>2, <1>4, <1>5
  <2>2. ~(n < roll)
    BY <1>1, <1>2, <1>3, <1>7, <2>1, <1>5
  <2>3. ~(roll < n)
    BY <1>1, <1>2, <1>3, <1>7, <2>1, <1>5
  <2> QED
    BY <1>5, <2>1, <2>2, <2>3
<1>8. LegacyRolled(due) = CHOOSE n \in days : Stops(n)
  BY DEF LegacyRolled, from
<1> HIDE DEF days, Stops
<1>9. (CHOOSE n \in days : Stops(n)) = roll
  BY <1>2, <1>6, <1>7
<1> QED
  BY <1>8, <1>9 DEF roll

(* The counter of days late holds every number of days a month can give.   *)
LEMMA SameDaysLate ==
    ASSUME NEW account, account.due \in Dates, NEW paid \in Int, account.paymentDue \in Int,
           NEW asof \in Dates,
           Magnitude(IntegerOfDate(asof) - RollForward(account.due)) < Width.period
    PROVE  /\ DaysLate(account, paid, asof)
                = LegacyDaysLate(account.due, account.paymentDue, paid, asof)
           /\ DaysLate(account, paid, asof) \in Nat
PROOF
<1> DEFINE late == IntegerOfDate(asof) - RollForward(account.due)
           pic == SignedDisplay("period")
<1>1. late \in Int
  BY DayNumber, RollsToBusinessDay
<1>2. pic \in Picture /\ pic.signed /\ pic.cap = Width.period
  BY Pictures DEF WidthKinds
<1>3. LegacyRolled(account.due) = RollForward(account.due)
  BY SameRoll
<1>4. DaysLate(account, paid, asof)
        = IF late < 0 \/ paid >= account.paymentDue THEN 0 ELSE late
  BY DEF DaysLate
<1>5. LegacyDaysLate(account.due, account.paymentDue, paid, asof)
        = IF paid >= account.paymentDue \/ FitToPic(late, pic) < 0 THEN 0 ELSE FitToPic(late, pic)
  BY <1>3 DEF LegacyDaysLate
<1>6. Magnitude(late) < Width.period
  OBVIOUS
<1> HIDE DEF late, pic
<1>7. FitToPic(late, pic) = late
  <2>1. late \in Held(pic)
    BY <1>1, <1>2, <1>6 DEF Held
  <2> QED
    BY <1>2, <2>1, HeldIsKept
<1> QED
  BY <1>1, <1>4, <1>5, <1>7

LEMMA PaidIsInt ==
    ASSUME NEW in \in Inputs, NEW raw
    PROVE  PaidInPeriod(Entries(in, raw)) \in Int
PROOF
<1> DEFINE account == raw.account
           s == Counted(OnAccount(Posted[in], account))
           places == CountedPlaces(in.trans, account)
<1>1. PICK n, at :
        /\ n \in Nat /\ at \in [1 .. n -> places]
        /\ s = [k \in 1 .. n |-> in.trans[at[k]]]
        /\ IsSequence(s) /\ Len(s) = n
  <2> HIDE DEF account
  <2>1. PICK n, at :
          /\ n \in Nat /\ at \in [1 .. n -> places]
          /\ \A x \in places : \E k \in 1 .. n : at[k] = x
          /\ \A i, k \in 1 .. n : i < k =>
                 /\ PostedBefore(in.trans[at[i]], in.trans[at[k]])
                 /\ at[i] # at[k]
          /\ s = [k \in 1 .. n |-> in.trans[at[k]]]
          /\ IsSequence(s) /\ Len(s) = n
    BY CountedInPostingOrder
  <2> QED
    BY <2>1
<1> DEFINE amounts == [k \in DOMAIN s |-> Signed(s[k])]
<1>2. PaidInPeriod(Entries(in, raw)) = Totalled(amounts, Lnmast.principal)
  BY DEF PaidInPeriod, Entries
<1>3. \A k \in 1 .. n : s[k] \in LntranRecords
  <2>1. PICK trans : trans = in.trans
    OBVIOUS
  <2>2. trans \in Seq(LntranRecords)
    BY <2>1, ItemsAssumption
  <2>3. \A k \in DOMAIN trans : trans[k] \in LntranRecords
    BY <2>2
  <2>4. \A k \in 1 .. n : at[k] \in DOMAIN trans
    BY <1>1, <2>1 DEF CountedPlaces
  <2> HIDE DEF s, places
  <2> QED
    BY <1>1, <2>1, <2>3, <2>4
<1>4. DOMAIN s = 1 .. n
  BY <1>1
<1> HIDE DEF s
<1>5. IsSequence(amounts) /\ Len(amounts) = n
  <2>1. DOMAIN amounts = 1 .. n /\ amounts = [i \in DOMAIN amounts |-> amounts[i]]
    BY <1>4
  <2> HIDE DEF amounts
  <2> QED
    BY <1>1, <2>1, FunctionIsSequence
<1>6. \A k \in 1 .. n : amounts[k] \in Int
  BY <1>3, <1>4, SignedIsInt
<1> HIDE DEF amounts
<1>7. Totalled(amounts, Lnmast.principal) \in Held(Lnmast.principal)
  BY <1>1, <1>5, <1>6, TotalledIsHeld, PrincipalPicture
<1> QED
  BY <1>2, <1>7 DEF Held

LEMMA PairBounds ==
    ASSUME NEW a \in Int, NEW b \in Int
    PROVE  /\ Max({a, b}) = IF a < b THEN b ELSE a
           /\ Min({a, b}) = IF a > b THEN b ELSE a
PROOF
<1>1. ASSUME NEW m \in {a, b}, \A y \in {a, b} : m >= y
      PROVE  m = IF a < b THEN b ELSE a
  BY <1>1
<1>2. ASSUME NEW m \in {a, b}, \A y \in {a, b} : m <= y
      PROVE  m = IF a > b THEN b ELSE a
  BY <1>2
<1>3. Max({a, b}) = IF a < b THEN b ELSE a
  <2>1. \E m \in {a, b} : \A y \in {a, b} : m >= y
    OBVIOUS
  <2>2. Max({a, b}) \in {a, b} /\ \A y \in {a, b} : Max({a, b}) >= y
    BY <2>1 DEF Max
  <2> QED
    BY <1>1, <2>2
<1>4. Min({a, b}) = IF a > b THEN b ELSE a
  <2>1. \E m \in {a, b} : \A y \in {a, b} : m <= y
    OBVIOUS
  <2>2. Min({a, b}) \in {a, b} /\ \A y \in {a, b} : Min({a, b}) <= y
    BY <2>1 DEF Min
  <2> QED
    BY <1>2, <2>2
<1> QED
  BY <1>3, <1>4

(* The percentage is stored in the fee's item before it is bounded.        *)
LEMMA SameFee ==
    ASSUME NEW account, NEW raw, account.grace = raw.grace, account.waive = (raw.waive = "Y"),
           account.orig = CenturyWindow(raw.orig), account.paymentDue \in Int,
           NEW tier \in RatetblRows, NEW late \in Nat, raw.grace \in Nat,
           account.orig \in Dates, NEW asof \in Dates
    PROVE  /\ LateFee(account, tier, late, asof)
                = LegacyFee(raw, account.paymentDue, tier, late, asof)
           /\ LateFee(account, tier, late, asof) \in Int
PROOF
<1> DEFINE num == account.paymentDue * tier.latePct
           pic == Display("fee")
           stored == FitToPic(RoundedHalfUp(num, PctUnit), pic)
           days == IntegerOfDate(asof) - IntegerOfDate(account.orig)
           atLeast == IF stored < tier.feeMin THEN tier.feeMin ELSE stored
           fee == IF atLeast > tier.feeMax THEN tier.feeMax ELSE atLeast
<1>1. tier.feeMin \in Int /\ tier.feeMax \in Int /\ tier.latePct \in Nat
  BY Pictures DEF RatetblRows, WidthKinds
<1>2. num \in Int /\ PctUnit \in Nat \ {0}
  BY <1>1, Units
<1>3. days \in Int
  BY DayNumber
<1>4. pic \in Picture
  BY Pictures DEF WidthKinds
<1>5. LegacyFee(raw, account.paymentDue, tier, late, asof)
        = IF late > raw.grace /\ raw.waive # "Y" /\ days > 90 THEN fee ELSE 0
  BY DEF LegacyFee
<1>6. LateFee(account, tier, late, asof)
        = IF late <= account.grace \/ account.waive \/ days <= 90 THEN 0
          ELSE Bounded(FitToPic(Rounded(num, PctUnit), pic), tier)
  BY DEF LateFee, IsNewAccount, DaysBetween, NewAccountWindowDays
<1> HIDE DEF num, pic, days
<1>7. FitToPic(Rounded(num, PctUnit), pic) = stored /\ stored \in Int
  <2>1. Rounded(num, PctUnit) = RoundedHalfUp(num, PctUnit) /\ Rounded(num, PctUnit) \in Int
    BY <1>2, SameRounding
  <2> QED
    BY <1>4, <2>1, Fitted
<1> HIDE DEF stored
<1>8. Bounded(stored, tier) = fee /\ fee \in Int
  <2>1. Max({stored, tier.feeMin}) = atLeast /\ atLeast \in Int
    BY <1>1, <1>7, PairBounds
  <2> HIDE DEF atLeast
  <2>2. Min({atLeast, tier.feeMax}) = fee
    BY <1>1, <2>1, PairBounds
  <2>3. Bounded(stored, tier) = Min({atLeast, tier.feeMax})
    BY <2>1 DEF Bounded
  <2> QED
    BY <1>1, <2>1, <2>2, <2>3
<1> HIDE DEF fee
<1>9. late <= account.grace <=> ~(late > raw.grace)
  OBVIOUS
<1>10. days <= 90 <=> ~(days > 90)
  BY <1>3
<1>11. account.waive <=> ~(raw.waive # "Y")
  OBVIOUS
<1> QED
  BY <1>5, <1>6, <1>7, <1>8, <1>9, <1>10, <1>11

(* The first rung passed is the one whose range has the days late.         *)
LEMMA SameStatus ==
    ASSUME NEW late \in Nat, NEW grace \in Nat
    PROVE  StatusLetter(late, grace) = LegacyStatus(late, grace)
PROOF
<1> DEFINE passed == {k \in DOMAIN Ladder : late > Ladder[k].threshold}
<1>1. /\ DOMAIN Ladder = 1 .. 3
      /\ Ladder[1].threshold = 90 /\ Ladder[2].threshold = 60 /\ Ladder[3].threshold = 30
      /\ Ladder[1].letter = "W" /\ Ladder[2].letter = "X" /\ Ladder[3].letter = "D"
  BY DEF Ladder
<1>2. 1 \in passed <=> late > 90
  BY <1>1
<1>3. 2 \in passed <=> late > 60
  BY <1>1
<1>4. 3 \in passed <=> late > 30
  BY <1>1
<1>5. passed \subseteq {1, 2, 3}
  BY <1>1
<1>6. StatusLetter(late, grace) = IF passed # {} THEN Ladder[Min(passed)].letter
                                  ELSE IF late > grace THEN "L" ELSE "C"
  BY DEF StatusLetter
<1> HIDE DEF passed
<1>7. passed # {} => Min(passed) \in passed /\ \A y \in passed : Min(passed) <= y
  <2>1. passed \in SUBSET Int /\ \A x \in passed : 1 <= x
    BY <1>5
  <2> QED
    BY <2>1, LeastFrom
<1>8. CASE late > 90
  <2>1. passed # {} /\ 1 \in passed
    BY <1>2, <1>8
  <2>2. Min(passed) \in passed /\ Min(passed) <= 1
    BY <1>7, <2>1
  <2>3. passed # {} /\ Min(passed) = 1
    <3>1. PICK m : m = Min(passed)
      OBVIOUS
    <3>2. m \in {1, 2, 3} /\ m <= 1
      BY <1>5, <2>1, <2>2, <3>1
    <3> QED
      BY <2>1, <3>1, <3>2
  <2> QED
    BY <1>1, <1>6, <1>8, <2>3 DEF LegacyStatus
<1>9. CASE late \in 61 .. 90
  <2>1. passed # {} /\ 2 \in passed /\ 1 \notin passed
    BY <1>2, <1>3, <1>9
  <2>2. Min(passed) \in passed /\ Min(passed) <= 2
    BY <1>7, <2>1
  <2>3. passed # {} /\ Min(passed) = 2
    <3>1. PICK m : m = Min(passed)
      OBVIOUS
    <3>2. m \in {1, 2, 3} /\ m <= 2 /\ m # 1
      BY <1>5, <2>1, <2>2, <3>1
    <3> QED
      BY <2>1, <3>1, <3>2
  <2>4. LegacyStatus(late, grace) = "X"
    BY <1>9 DEF LegacyStatus
  <2> QED
    BY <1>1, <1>6, <2>3, <2>4
<1>10. CASE late \in 31 .. 60
  <2>1. passed # {} /\ 3 \in passed /\ 1 \notin passed /\ 2 \notin passed
    BY <1>2, <1>3, <1>4, <1>10
  <2>2. Min(passed) \in passed /\ Min(passed) <= 3
    BY <1>7, <2>1
  <2>3. passed # {} /\ Min(passed) = 3
    <3>1. PICK m : m = Min(passed)
      OBVIOUS
    <3>2. m \in {1, 2, 3} /\ m <= 3 /\ m # 1 /\ m # 2
      BY <1>5, <2>1, <2>2, <3>1
    <3> QED
      BY <2>1, <3>1, <3>2
  <2>4. LegacyStatus(late, grace) = "D"
    BY <1>10 DEF LegacyStatus
  <2> QED
    BY <1>1, <1>6, <2>3, <2>4
<1>11. CASE late <= 30
  <2>1. passed = {}
    BY <1>2, <1>3, <1>4, <1>5, <1>11
  <2>2. LegacyStatus(late, grace) = IF late > grace THEN "L" ELSE "C"
    BY <1>11 DEF LegacyStatus
  <2> QED
    BY <1>6, <2>1, <2>2
<1> QED
  BY <1>8, <1>9, <1>10, <1>11

(* What load_master makes of a record, as LNACCR01 sees it.                *)
LEMMA AccountIs ==
    ASSUME NEW in \in Inputs, Loads[in], NEW k \in DOMAIN in.master, NEW raw,
           raw = in.master[k]
    PROVE  LET a == Account(raw)
           IN  /\ a.account = raw.account /\ a.product = raw.product
               /\ a.grace = raw.grace /\ a.waive = (raw.waive = "Y")
               /\ a.orig = CenturyWindow(raw.orig) /\ a.due = CenturyWindow(raw.due)
               /\ a.lastAccrual = CenturyWindow(raw.lastAccrual)
               /\ a.principal = Shown(raw.principal) /\ a.paymentDue = Shown(raw.paymentDue)
               /\ a.account \in Nat /\ a.grace \in Nat
               /\ a.orig \in Dates /\ a.due \in Dates /\ a.lastAccrual \in Dates
               /\ a.principal \in Int /\ a.paymentDue \in Int
PROOF
<1> DEFINE a == Account(raw)
<1>1. /\ raw.account \in 0 .. Width["account"] - 1 /\ raw.grace \in Nat
      /\ raw.orig \in Dates /\ raw.due \in Dates /\ raw.lastAccrual \in Dates
      /\ raw.principal.digits \in 0 .. Width["money"] - 1
      /\ raw.paymentDue.digits \in 0 .. Width["amount"] - 1
  BY MasterRecords DEF LnmastRecords, Amounts
<1>2. raw.account \in Nat /\ raw.principal.digits \in Int /\ raw.paymentDue.digits \in Int
  BY <1>1, Pictures DEF WidthKinds
<1>3. /\ raw.principal.zone \in {"positive", "negative", "plain"}
      /\ raw.paymentDue.zone \in {"C", "D", "F"}
  <2>1. Decodable(raw.principal, Lnmast.principal) /\ Decodable(raw.paymentDue, Lnmast.paymentDue)
    BY DEF Loads
  <2> QED
    BY <2>1 DEF Decodable, Lnmast, SignedDisplay, Numeric, DisplayZones, Comp3Signs
<1>4. DecodeField(raw.principal, Lnmast.principal) = Shown(raw.principal)
  BY <1>3 DEF DecodeField, DecodeDisplay, Lnmast, SignedDisplay, Numeric, Shown
<1>5. DecodeField(raw.paymentDue, Lnmast.paymentDue) = Shown(raw.paymentDue)
  BY <1>3 DEF DecodeField, DecodeComp3, Lnmast, Numeric, Shown
<1>6. Shown(raw.principal) \in Int /\ Shown(raw.paymentDue) \in Int
  BY <1>2 DEF Shown
<1>7. /\ FromYymmdd(raw.orig) \in Dates /\ FromYymmdd(raw.due) \in Dates
      /\ FromYymmdd(raw.lastAccrual) \in Dates
  BY <1>1, WindowIsDate
<1>8. /\ a.account = raw.account /\ a.product = raw.product /\ a.grace = raw.grace
      /\ a.waive = (raw.waive = "Y")
      /\ a.orig = FromYymmdd(raw.orig) /\ a.due = FromYymmdd(raw.due)
      /\ a.lastAccrual = FromYymmdd(raw.lastAccrual)
      /\ a.principal = DecodeField(raw.principal, Lnmast.principal)
      /\ a.paymentDue = DecodeField(raw.paymentDue, Lnmast.paymentDue)
  BY DEF Account
<1> HIDE DEF a
<1>9. /\ a.orig = CenturyWindow(raw.orig) /\ a.due = CenturyWindow(raw.due)
      /\ a.lastAccrual = CenturyWindow(raw.lastAccrual)
  BY <1>8, SameWindow
<1>10. /\ a.principal = Shown(raw.principal) /\ a.paymentDue = Shown(raw.paymentDue)
       /\ a.account \in Nat /\ a.grace \in Nat
       /\ a.orig \in Dates /\ a.due \in Dates /\ a.lastAccrual \in Dates
       /\ a.principal \in Int /\ a.paymentDue \in Int
  BY <1>1, <1>2, <1>4, <1>5, <1>6, <1>7, <1>8
<1> QED
  BY <1>8, <1>9, <1>10 DEF a

(* The numbers of a result. *)
ResultNumbers(result) ==
    /\ result.account \in Nat /\ result.balance \in Int /\ result.tier \in Int
    /\ result.rate \in Int /\ result.accrDays \in Int /\ result.accrued \in Int
    /\ result.daysLate \in Int /\ result.lateFee \in Int

(***************************************************************************)
(* For an account whose entries are together within the paid item the port *)
(* works out what LNACCR01 does: balance, tier, rate, days, interest, days *)
(* late, fee and status (process_account and 3000-PROCESS-MASTER).         *)
(***************************************************************************)
THEOREM SameResult ==
    ASSUME NEW in \in Inputs, Loads[in], NEW k \in DOMAIN in.master,
           EntriesFit(in, in.master[k]), ~UnknownType(Entries(in, in.master[k]))
    PROVE  /\ Results[in][k] = LegacyResult(in.master[k], in)
           /\ ResultNumbers(Results[in][k])
PROOF
<1>1. PICK raw : raw = in.master[k]
  OBVIOUS
<1>2. PICK a : a = Account(raw)
  OBVIOUS
<1>3. /\ a.account = raw.account /\ a.product = raw.product
      /\ a.grace = raw.grace /\ a.waive = (raw.waive = "Y")
      /\ a.orig = CenturyWindow(raw.orig) /\ a.due = CenturyWindow(raw.due)
      /\ a.lastAccrual = CenturyWindow(raw.lastAccrual)
      /\ a.principal = Shown(raw.principal) /\ a.paymentDue = Shown(raw.paymentDue)
      /\ a.account \in Nat /\ a.grace \in Nat
      /\ a.orig \in Dates /\ a.due \in Dates /\ a.lastAccrual \in Dates
      /\ a.principal \in Int /\ a.paymentDue \in Int
  BY <1>1, <1>2, AccountIs
<1>4. PICK paid : paid = PaidInPeriod(Entries(in, raw))
  OBVIOUS
<1>5. paid = LegacyPaid(in.trans, raw.account) /\ paid \in Int
  <2>1. paid = LegacyPaid(in.trans, raw.account)
    BY <1>1, <1>4, SamePaid
  <2>2. paid \in Int
    BY <1>1, PaidIsInt, <1>4
  <2> QED
    BY <2>1, <2>2
<1>6. PICK rates, asof : rates = in.rates /\ asof = in.asof
  OBVIOUS
<1>7. /\ rates.count \in Nat \ {0} /\ asof \in Dates
      /\ \A ix \in 1 .. rates.count : rates.tiers[ix] \in RatetblRows
  <2>1. asof \in Dates /\ rates.count \in 0 .. Width["tier"] - 1 /\ Width["tier"] \in Nat
    BY <1>6, ItemsAssumption, Pictures DEF WidthKinds
  <2>2. rates.count > 0 /\ Len(rates.tiers) >= rates.count
    BY <1>6 DEF Loads, RatesLoad
  <2>3. rates.tiers \in Seq(RatetblRows)
    BY <1>6, ItemsAssumption
  <2>4. PICK tiers : tiers = rates.tiers
    OBVIOUS
  <2>5. rates.count \in Nat \ {0}
    BY <2>1, <2>2
  <2>6. \A ix \in 1 .. rates.count : tiers[ix] \in RatetblRows
    BY <2>2, <2>3, <2>4, <2>5
  <2> QED
    BY <2>1, <2>4, <2>5, <2>6
<1>8. PICK balance : balance = ApplyPayments(a.principal, paid)
  OBVIOUS
<1>9. balance = LegacyBalance(raw, paid) /\ balance \in Int
  <2>1. PICK v \in Int : v = a.principal - paid
    BY <1>3, <1>5
  <2>2. balance = FitToPic(v, Lnmast.principal)
    BY <1>8, <2>1 DEF ApplyPayments
  <2>3. LegacyBalance(raw, paid) = FitToPic(v, Lnmast.principal)
    BY <1>3, <2>1 DEF LegacyBalance, Lnmast
  <2> QED
    BY <2>2, <2>3, PrincipalPicture, Fitted
<1>10. PICK ix : ix = FindTier(rates, balance)
  OBVIOUS
<1>11. ix = LegacyTier(rates, balance) /\ ix \in 1 .. rates.count
  <2>1. \A i \in 1 .. rates.count : rates.tiers[i].upper \in Nat
    BY <1>7 DEF RatetblRows
  <2> QED
    BY <1>7, <1>9, <1>10, <2>1, SameTier
<1>12. PICK tier \in RatetblRows : tier = rates.tiers[ix]
  BY <1>7, <1>11
<1>13. PICK rate : rate = DailyRate(tier, a.product)
  OBVIOUS
<1>14. rate = LegacyDailyRate(tier, raw.product) /\ rate \in Int
  <2>1. tier.rate \in Nat
    BY DEF RatetblRows
  <2> QED
    BY <1>3, <1>13, <2>1, SameRate
<1>15. PICK days : days = AccrualDays(a.product, a.lastAccrual, asof)
  OBVIOUS
<1>16. /\ days = LegacyAccrualDays(raw.product, CenturyWindow(raw.lastAccrual), asof)
       /\ days \in Int
  BY <1>3, <1>7, <1>15, SameAccrualDays
<1>17. PICK late : late = DaysLate(a, paid, asof)
  OBVIOUS
<1>18. /\ late = LegacyDaysLate(CenturyWindow(raw.due), Shown(raw.paymentDue), paid, asof)
       /\ late \in Nat
  <2>1. Magnitude(IntegerOfDate(asof) - RollForward(a.due)) < Width.period
    BY <1>1, <1>3, <1>6, SameWindow, PeriodAssumption
  <2> QED
    BY <1>3, <1>5, <1>7, <1>17, <2>1, SameDaysLate
<1>19. PICK fee : fee = LateFee(a, tier, late, asof)
  OBVIOUS
<1>20. fee = LegacyFee(raw, Shown(raw.paymentDue), tier, late, asof) /\ fee \in Int
  BY <1>3, <1>7, <1>18, <1>19, SameFee
<1>21. PICK accrued : accrued = AccruedInterest(balance, rate, days)
  OBVIOUS
<1>22. accrued = LegacyInterest(balance, rate, days) /\ accrued \in Int
  BY <1>9, <1>14, <1>16, <1>21, SameInterest
<1>23. PICK status : status = StatusLetter(late, a.grace)
  OBVIOUS
<1>24. status = LegacyStatus(late, raw.grace)
  BY <1>3, <1>18, <1>23, SameStatus
<1> DEFINE result == [account |-> a.account, product |-> a.product, balance |-> balance,
                      tier |-> ix, rate |-> rate, accrDays |-> days, accrued |-> accrued,
                      daysLate |-> late, lateFee |-> fee, status |-> status]
<1>25. ProcessAccount(a, paid, rates, asof) = result
  BY <1>8, <1>10, <1>12, <1>13, <1>15, <1>17, <1>19, <1>21, <1>23, Zenon DEF ProcessAccount
<1>26. Results[in][k] = ProcessAccount(a, paid, rates, asof)
  BY <1>1, <1>2, <1>4, <1>6 DEF Results
<1>27. LegacyResult(raw, in) = result
  BY <1>3, <1>5, <1>6, <1>9, <1>11, <1>12, <1>14, <1>16, <1>18, <1>20, <1>22, <1>24, Zenon
     DEF LegacyResult
<1>28. ResultNumbers(result)
  BY <1>3, <1>9, <1>11, <1>7, <1>14, <1>16, <1>18, <1>20, <1>22 DEF ResultNumbers
<1> QED
  BY <1>1, <1>25, <1>26, <1>27, <1>28

-----------------------------------------------------------------------------
(* The records of both programs. *)

(* Both programs put a number into a DISPLAY item alike, sign and all. *)
LEMMA SameField ==
    ASSUME NEW pic \in Picture, pic.usage = "DISPLAY", NEW v \in Int
    PROVE  EncodeField(v, pic) = LegacyField(v, pic)
PROOF
<1> DEFINE held == Magnitude(v) % pic.cap
           fitted == FitToPic(v, pic)
<1>1. pic.cap \in Nat \ {0} /\ pic.signed \in BOOLEAN
  BY DEF Picture
<1>2. held \in Nat
  <2>1. Magnitude(v) \in Nat
    BY DEF Magnitude
  <2> DEFINE m == Magnitude(v)
  <2> HIDE DEF m
  <2>2. m \in Nat
    BY <2>1 DEF m
  <2>3. m % pic.cap \in 0 .. pic.cap - 1
    BY <1>1, <2>2, Remainder
  <2> QED
    BY <1>1, <2>3 DEF m
<1>3. fitted = IF v < 0 /\ pic.signed THEN -held ELSE held
  BY DEF FitToPic
<1>4. EncodeField(v, pic) = [digits |-> Magnitude(fitted),
         zone |-> IF ~pic.signed THEN "plain" ELSE IF fitted < 0 THEN "negative" ELSE "positive"]
  BY DEF EncodeField, EncodeDisplay
<1>5. LegacyField(v, pic) = [digits |-> held,
         zone |-> CASE ~pic.signed -> "plain"
                    [] pic.signed /\ v < 0 /\ held # 0 -> "negative"
                    [] OTHER -> "positive"]
  BY DEF LegacyField
<1> HIDE DEF held, fitted
<1>6. Magnitude(fitted) = held
  BY <1>2, <1>3 DEF Magnitude
<1>7. CASE ~pic.signed
  BY <1>4, <1>5, <1>6, <1>7
<1>8. CASE pic.signed /\ v < 0 /\ held # 0
  <2>1. fitted < 0
    BY <1>2, <1>3, <1>8
  <2>2. EncodeField(v, pic) = [digits |-> held, zone |-> "negative"]
    BY <1>4, <1>6, <1>8, <2>1
  <2>3. LegacyField(v, pic) = [digits |-> held, zone |-> "negative"]
    BY <1>5, <1>8
  <2> QED
    BY <2>2, <2>3
<1>9. CASE pic.signed /\ ~(v < 0 /\ held # 0)
  <2>1. ~(fitted < 0)
    BY <1>2, <1>3, <1>9
  <2>2. EncodeField(v, pic) = [digits |-> held, zone |-> "positive"]
    BY <1>4, <1>6, <1>9, <2>1
  <2>3. LegacyField(v, pic) = [digits |-> held, zone |-> "positive"]
    BY <1>5, <1>9
  <2> QED
    BY <2>2, <2>3
<1> QED
  BY <1>1, <1>7, <1>8, <1>9

LEMMA SameText ==
    ASSUME NEW pic, pic.usage = "ALNUM", NEW v
    PROVE  EncodeField(v, pic) = LegacyField(v, pic)
PROOF
  BY DEF EncodeField, LegacyField

(* The numeric items of the two layouts. *)
LEMMA OutputPictures ==
    /\ DOMAIN LnoutDetail = {"account", "product", "asof", "balance", "accrued", "lateFee",
                             "daysLate", "status", "tier", "rate", "accrDays", "recType"}
    /\ \A f \in {"account", "balance", "accrued", "lateFee", "daysLate", "tier", "rate", "accrDays"} :
           LnoutDetail[f] \in Picture /\ LnoutDetail[f].usage = "DISPLAY"
    /\ \A f \in {"product", "asof", "status", "recType"} : LnoutDetail[f].usage = "ALNUM"
    /\ DOMAIN LnoutTrailer = {"count", "hash", "totAccrued", "totFees", "totBalance", "recType"}
    /\ \A f \in {"count", "hash", "totAccrued", "totFees", "totBalance"} :
           LnoutTrailer[f] \in Picture /\ LnoutTrailer[f].usage = "DISPLAY"
    /\ LnoutTrailer["recType"].usage = "ALNUM"
    /\ LnoutTrailer["count"].cap = Width["count"] /\ ~LnoutTrailer["count"].signed
PROOF
<1>1. \A kind \in WidthKinds : /\ Display(kind) \in Picture /\ SignedDisplay(kind) \in Picture
                               /\ Display(kind).usage = "DISPLAY"
                               /\ SignedDisplay(kind).usage = "DISPLAY"
                               /\ ~Display(kind).signed /\ Display(kind).cap = Width[kind]
  BY Pictures
<1>2. Alphanumeric.usage = "ALNUM"
  BY DEF Alphanumeric
<1>3. /\ LnoutDetail.account = Display("account") /\ LnoutDetail.balance = SignedDisplay("money")
      /\ LnoutDetail.accrued = SignedDisplay("interest") /\ LnoutDetail.lateFee = Display("fee")
      /\ LnoutDetail.daysLate = Display("days") /\ LnoutDetail.tier = Display("tier")
      /\ LnoutDetail.rate = Display("rate") /\ LnoutDetail.accrDays = Display("days")
      /\ LnoutDetail.product = Alphanumeric /\ LnoutDetail.asof = Alphanumeric
      /\ LnoutDetail.status = Alphanumeric /\ LnoutDetail.recType = Alphanumeric
  BY DEF LnoutDetail
<1>4. /\ LnoutTrailer.count = Display("count") /\ LnoutTrailer.hash = Display("hash")
      /\ LnoutTrailer.totAccrued = SignedDisplay("money")
      /\ LnoutTrailer.totFees = Display("money")
      /\ LnoutTrailer.totBalance = SignedDisplay("total") /\ LnoutTrailer.recType = Alphanumeric
  BY DEF LnoutTrailer
<1>5. {"account", "money", "interest", "fee", "days", "tier", "rate", "count", "hash", "total"}
        \subseteq WidthKinds
  BY DEF WidthKinds
<1>6. /\ DOMAIN LnoutDetail = {"account", "product", "asof", "balance", "accrued", "lateFee",
                               "daysLate", "status", "tier", "rate", "accrDays", "recType"}
      /\ DOMAIN LnoutTrailer = {"count", "hash", "totAccrued", "totFees", "totBalance", "recType"}
  BY DEF LnoutDetail, LnoutTrailer
<1>7. \A f \in {"account", "balance", "accrued", "lateFee", "daysLate", "tier", "rate", "accrDays"} :
          LnoutDetail[f] \in Picture /\ LnoutDetail[f].usage = "DISPLAY"
  <2>1. \A kind \in {"account", "money", "interest", "fee", "days", "tier", "rate"} :
            /\ Display(kind) \in Picture /\ SignedDisplay(kind) \in Picture
            /\ Display(kind).usage = "DISPLAY" /\ SignedDisplay(kind).usage = "DISPLAY"
    BY <1>1, <1>5
  <2>2. /\ LnoutDetail["account"] \in Picture /\ LnoutDetail["account"].usage = "DISPLAY"
        /\ LnoutDetail["balance"] \in Picture /\ LnoutDetail["balance"].usage = "DISPLAY"
        /\ LnoutDetail["accrued"] \in Picture /\ LnoutDetail["accrued"].usage = "DISPLAY"
        /\ LnoutDetail["lateFee"] \in Picture /\ LnoutDetail["lateFee"].usage = "DISPLAY"
        /\ LnoutDetail["daysLate"] \in Picture /\ LnoutDetail["daysLate"].usage = "DISPLAY"
        /\ LnoutDetail["tier"] \in Picture /\ LnoutDetail["tier"].usage = "DISPLAY"
        /\ LnoutDetail["rate"] \in Picture /\ LnoutDetail["rate"].usage = "DISPLAY"
        /\ LnoutDetail["accrDays"] \in Picture /\ LnoutDetail["accrDays"].usage = "DISPLAY"
    BY <1>3, <2>1
  <2> QED
    BY <2>2
<1>8. \A f \in {"count", "hash", "totAccrued", "totFees", "totBalance"} :
          LnoutTrailer[f] \in Picture /\ LnoutTrailer[f].usage = "DISPLAY"
  <2>1. \A kind \in {"money", "count", "hash", "total"} :
            /\ Display(kind) \in Picture /\ SignedDisplay(kind) \in Picture
            /\ Display(kind).usage = "DISPLAY" /\ SignedDisplay(kind).usage = "DISPLAY"
    BY <1>1, <1>5
  <2>2. /\ LnoutTrailer["count"] \in Picture /\ LnoutTrailer["count"].usage = "DISPLAY"
        /\ LnoutTrailer["hash"] \in Picture /\ LnoutTrailer["hash"].usage = "DISPLAY"
        /\ LnoutTrailer["totAccrued"] \in Picture /\ LnoutTrailer["totAccrued"].usage = "DISPLAY"
        /\ LnoutTrailer["totFees"] \in Picture /\ LnoutTrailer["totFees"].usage = "DISPLAY"
        /\ LnoutTrailer["totBalance"] \in Picture /\ LnoutTrailer["totBalance"].usage = "DISPLAY"
    BY <1>4, <2>1
  <2> QED
    BY <2>2
<1>9. \A f \in {"product", "asof", "status", "recType"} : LnoutDetail[f].usage = "ALNUM"
  BY <1>2, <1>3, Zenon
<1> QED
  BY <1>1, <1>2, <1>4, <1>5, <1>6, <1>7, <1>8, <1>9

(* The detail of an account is LNACCR01's when the result is. *)
LEMMA SameDetail ==
    ASSUME NEW raw, NEW in, NEW result, result = LegacyResult(raw, in), ResultNumbers(result)
    PROVE  DetailRecord(result, in.asof) = LegacyDetail(raw, in)
PROOF
<1> DEFINE values == [f \in DOMAIN LnoutDetail |->
                        CASE f = "asof" -> ToYyyymmdd(in.asof)
                          [] f = "recType" -> "D"
                          [] OTHER -> result[f]]
<1>1. DetailRecord(result, in.asof) = EncodeRecord(LnoutDetail, values)
  BY DEF DetailRecord
<1>2. LegacyDetail(raw, in) = LegacyRecord(LnoutDetail, values)
  BY DEF LegacyDetail
<1>3. \A f \in {"account", "balance", "accrued", "lateFee", "daysLate", "tier", "rate", "accrDays"} :
          values[f] \in Int
  <2>1. /\ result["account"] \in Int /\ result["balance"] \in Int /\ result["accrued"] \in Int
        /\ result["lateFee"] \in Int /\ result["daysLate"] \in Int /\ result["tier"] \in Int
        /\ result["rate"] \in Int /\ result["accrDays"] \in Int
    BY DEF ResultNumbers
  <2>2. \A f \in {"account", "balance", "accrued", "lateFee", "daysLate", "tier", "rate", "accrDays"} :
            /\ f \in DOMAIN LnoutDetail /\ f # "asof" /\ f # "recType"
            /\ result[f] \in Int
    BY <2>1, OutputPictures
  <2>3. \A f \in DOMAIN LnoutDetail : f # "asof" /\ f # "recType" => values[f] = result[f]
    OBVIOUS
  <2> HIDE DEF values
  <2> QED
    BY <2>2, <2>3
<1> HIDE DEF values
<1>4. ASSUME NEW f \in DOMAIN LnoutDetail
      PROVE  EncodeField(values[f], LnoutDetail[f]) = LegacyField(values[f], LnoutDetail[f])
  <2>1. CASE f \in {"product", "asof", "status", "recType"}
    BY <2>1, OutputPictures, SameText
  <2>2. CASE f \in {"account", "balance", "accrued", "lateFee", "daysLate", "tier", "rate", "accrDays"}
    BY <1>3, <2>2, OutputPictures, SameField
  <2> QED
    BY <2>1, <2>2, OutputPictures
<1> QED
  BY <1>1, <1>2, <1>4 DEF EncodeRecord, LegacyRecord

(* The totals of the port beside those in WS-TOTALS. *)
SameTotals(tot, legacy) ==
    /\ tot.count \in Nat /\ legacy.count = tot.count % Width.count
    /\ tot.hash \in Int /\ legacy.hash = tot.hash
    /\ tot.totAccrued \in Int /\ legacy.totAccrued = tot.totAccrued
    /\ tot.totFees \in Int /\ legacy.totFees = tot.totFees
    /\ tot.totBalance \in Int /\ legacy.totBalance = tot.totBalance

LEMMA SameTotalsStart == SameTotals(NoTotals, LegacyNothing)
PROOF
<1>1. Width["count"] \in Nat \ {0}
  BY Pictures DEF WidthKinds
<1>2. 0 % Width["count"] = 0
  BY <1>1, SmallRemainder
<1> QED
  BY <1>2 DEF SameTotals, NoTotals, LegacyNothing

LEMMA SameTotalsStep ==
    ASSUME NEW tot, NEW legacy, SameTotals(tot, legacy), NEW result, ResultNumbers(result)
    PROVE  SameTotals(Accumulate(tot, result), LegacyTotals(legacy, result))
PROOF
<1>1. PICK cap \in Nat \ {0} : cap = Width["count"]
  BY Pictures DEF WidthKinds
<1>2. /\ LnoutTrailer.totAccrued = SignedDisplay("money") /\ LnoutTrailer.totFees = Display("money")
      /\ LnoutTrailer.totBalance = SignedDisplay("total")
  BY DEF LnoutTrailer
<1>3. /\ tot.count \in Nat /\ legacy.count = tot.count % cap
      /\ tot.hash \in Int /\ legacy.hash = tot.hash
      /\ tot.totAccrued \in Int /\ legacy.totAccrued = tot.totAccrued
      /\ tot.totFees \in Int /\ legacy.totFees = tot.totFees
      /\ tot.totBalance \in Int /\ legacy.totBalance = tot.totBalance
  BY <1>1 DEF SameTotals
<1>4. /\ result.account \in Int /\ result.accrued \in Int /\ result.lateFee \in Int
      /\ result.balance \in Int
  BY DEF ResultNumbers
<1> DEFINE t == Accumulate(tot, result)
           l == LegacyTotals(legacy, result)
<1>5. /\ t.count = tot.count + 1 /\ t.hash = (tot.hash + result.account) % Width.hash
      /\ t.totAccrued = FitToPic(tot.totAccrued + result.accrued, SignedDisplay("money"))
      /\ t.totFees = FitToPic(tot.totFees + result.lateFee, Display("money"))
      /\ t.totBalance = FitToPic(tot.totBalance + result.balance, SignedDisplay("total"))
  BY <1>2 DEF Accumulate
<1>6. /\ l.count = (legacy.count + 1) % cap /\ l.hash = (tot.hash + result.account) % Width.hash
      /\ l.totAccrued = FitToPic(tot.totAccrued + result.accrued, SignedDisplay("money"))
      /\ l.totFees = FitToPic(tot.totFees + result.lateFee, Display("money"))
      /\ l.totBalance = FitToPic(tot.totBalance + result.balance, SignedDisplay("total"))
  BY <1>1, <1>3 DEF LegacyTotals
<1>7. ((tot.count % cap) + 1) % cap = (tot.count + 1) % cap
  <2>1. PICK n \in Int : n = tot.count
    BY <1>3
  <2>2. ((n % cap) + 1) % cap = (n + 1) % cap
    <3>1. 1 \in Int
      OBVIOUS
    <3> QED
      BY <3>1, SumModulo
  <2> QED
    BY <2>1, <2>2
<1>8. /\ t.totAccrued \in Int /\ t.totFees \in Int /\ t.totBalance \in Int /\ t.hash \in Int
  <2>1. \A v \in Int, kind \in {"money", "total"} :
            FitToPic(v, SignedDisplay(kind)) \in Int /\ FitToPic(v, Display(kind)) \in Int
    BY Pictures, Fitted DEF WidthKinds
  <2>2. PICK a \in Int, b \in Int, c \in Int :
          /\ a = tot.totAccrued + result.accrued /\ b = tot.totFees + result.lateFee
          /\ c = tot.totBalance + result.balance
    BY <1>3, <1>4
  <2>3. PICK h \in Int, w \in Nat \ {0} : h = tot.hash + result.account /\ w = Width["hash"]
    BY <1>3, <1>4, Pictures DEF WidthKinds
  <2>4. h % w \in Int
    BY DivisionIdentity
  <2>5. t.hash \in Int
    BY <1>5, <2>3, <2>4
  <2> QED
    BY <1>5, <2>1, <2>2, <2>5
<1> HIDE DEF t, l
<1>9. t.count \in Nat /\ l.count = t.count % cap
  BY <1>3, <1>5, <1>6, <1>7
<1> QED
  BY <1>1, <1>5, <1>6, <1>8, <1>9 DEF SameTotals, t, l

(* WS-TOT-COUNT drops what the count field of the trailer would. *)
LEMMA SameTrailer ==
    ASSUME NEW tot, NEW legacy, SameTotals(tot, legacy)
    PROVE  TrailerRecord(tot) = LegacyTrailer(legacy)
PROOF
<1> DEFINE mine == [f \in DOMAIN LnoutTrailer |-> IF f = "recType" THEN "T" ELSE tot[f]]
           theirs == [f \in DOMAIN LnoutTrailer |-> IF f = "recType" THEN "T" ELSE legacy[f]]
<1>1. TrailerRecord(tot) = EncodeRecord(LnoutTrailer, mine)
  BY DEF TrailerRecord
<1>2. LegacyTrailer(legacy) = LegacyRecord(LnoutTrailer, theirs)
  BY DEF LegacyTrailer
<1>3. /\ mine["recType"] = "T" /\ theirs["recType"] = "T"
      /\ mine["count"] = tot.count /\ theirs["count"] = legacy.count
  BY OutputPictures
<1>4. \A f \in {"hash", "totAccrued", "totFees", "totBalance"} :
          mine[f] = theirs[f] /\ mine[f] \in Int
  <2>1. \A f \in {"hash", "totAccrued", "totFees", "totBalance"} :
            tot[f] = legacy[f] /\ tot[f] \in Int
    <3>1. /\ tot["hash"] \in Int /\ legacy["hash"] = tot["hash"]
          /\ tot["totAccrued"] \in Int /\ legacy["totAccrued"] = tot["totAccrued"]
          /\ tot["totFees"] \in Int /\ legacy["totFees"] = tot["totFees"]
          /\ tot["totBalance"] \in Int /\ legacy["totBalance"] = tot["totBalance"]
      BY DEF SameTotals
    <3> QED
      BY <3>1
  <2>2. \A f \in {"hash", "totAccrued", "totFees", "totBalance"} :
            mine[f] = tot[f] /\ theirs[f] = legacy[f]
    BY OutputPictures
  <2> HIDE DEF mine, theirs
  <2> QED
    BY <2>1, <2>2
<1> HIDE DEF mine, theirs
<1>5. EncodeField(tot.count, LnoutTrailer["count"]) = LegacyField(legacy.count, LnoutTrailer["count"])
  <2>1. PICK n \in Nat : n = tot.count
    BY DEF SameTotals
  <2>2. PICK pic \in Picture : /\ pic = LnoutTrailer["count"] /\ pic.usage = "DISPLAY"
                               /\ ~pic.signed /\ pic.cap = Width["count"]
    BY OutputPictures
  <2>3. PICK cap \in Nat \ {0} : cap = pic.cap
    BY DEF Picture
  <2>4. PICK r \in 0 .. cap - 1 : r = n % cap
    BY Remainder
  <2>5. legacy.count = r
    BY <2>1, <2>2, <2>3, <2>4 DEF SameTotals
  <2>6. r % cap = r /\ r \in Int
    BY SmallRemainder
  <2>7. LegacyField(n, pic) = LegacyField(r, pic)
    <3>1. LegacyField(n, pic) = [digits |-> n % cap, zone |-> "plain"]
      BY <2>2, <2>3 DEF LegacyField, Magnitude
    <3>2. LegacyField(r, pic) = [digits |-> r % cap, zone |-> "plain"]
      BY <2>2, <2>3 DEF LegacyField, Magnitude
    <3> QED
      BY <2>4, <2>6, <3>1, <3>2
  <2>8. EncodeField(n, pic) = LegacyField(n, pic)
    BY <2>2, SameField
  <2> QED
    BY <2>1, <2>2, <2>5, <2>7, <2>8
<1>6. ASSUME NEW f \in DOMAIN LnoutTrailer
      PROVE  EncodeField(mine[f], LnoutTrailer[f]) = LegacyField(theirs[f], LnoutTrailer[f])
  <2>1. CASE f = "recType"
    BY <1>3, <2>1, OutputPictures, SameText
  <2>2. CASE f = "count"
    BY <1>3, <1>5, <2>2
  <2>3. CASE f \in {"hash", "totAccrued", "totFees", "totBalance"}
    BY <1>4, <2>3, OutputPictures, SameField
  <2> QED
    BY <2>1, <2>2, <2>3, OutputPictures
<1> QED
  BY <1>1, <1>2, <1>6 DEF EncodeRecord, LegacyRecord

-----------------------------------------------------------------------------
(* LNACCR01's file, account by account. *)

LegacyStart == [cells |-> <<>>, totals |-> LegacyNothing]

LegacyStep(before, in, k) ==
    IF IsClosed(in.master[k]) THEN before
    ELSE [cells |-> before.cells \o CellsOf(LegacyDetail(in.master[k], in)),
          totals |-> LegacyTotals(before.totals, LegacyResult(in.master[k], in))]

AfterFunction(F, in, n) ==
    F = [k \in 0 .. n |-> IF k = 0 THEN LegacyStart ELSE LegacyStep(F[k - 1], in, k)]

(* There is such a function, for a master of any length. *)
LEMMA AftersExist ==
    ASSUME NEW n \in Nat, NEW in
    PROVE  \E F : AfterFunction(F, in, n)
PROOF
<1> DEFINE Bad == {k \in 0 .. n : ~ \E F : AfterFunction(F, in, k)}
<1>1. SUFFICES ASSUME Bad # {}
               PROVE  FALSE
  <2>1. n \in 0 .. n
    OBVIOUS
  <2> QED
    BY <1>1, <2>1
<1>2. PICK m \in Bad : \A k \in Bad : m <= k
  <2>1. Bad \in SUBSET Nat
    OBVIOUS
  <2> HIDE DEF Bad
  <2> QED
    BY <1>1, <2>1, LeastOf
<1>3. m \in 0 .. n /\ ~ \E F : AfterFunction(F, in, m)
  OBVIOUS
<1>4. CASE m = 0
  <2>1. AfterFunction([k \in 0 .. 0 |-> LegacyStart], in, 0)
    <3>1. \A k \in 0 .. 0 : k = 0
      OBVIOUS
    <3> QED
      BY <3>1 DEF AfterFunction
  <2> QED
    BY <1>3, <1>4, <2>1
<1>5. CASE m # 0
  <2>1. m - 1 \in 0 .. n /\ m - 1 \in Nat /\ ~(m <= m - 1)
    BY <1>3, <1>5
  <2>2. PICK F : AfterFunction(F, in, m - 1)
    BY <1>2, <2>1
  <2> DEFINE G == [k \in 0 .. m |-> IF k = m THEN LegacyStep(F[m - 1], in, m) ELSE F[k]]
  <2>3. \A k \in 0 .. m : G[k] = IF k = 0 THEN LegacyStart ELSE LegacyStep(G[k - 1], in, k)
    <3> SUFFICES ASSUME NEW k \in 0 .. m
                 PROVE  G[k] = IF k = 0 THEN LegacyStart ELSE LegacyStep(G[k - 1], in, k)
      OBVIOUS
    <3>1. CASE k = m
      <4>1. k # 0 /\ k - 1 \in 0 .. m /\ k - 1 # m
        BY <1>3, <1>5, <3>1
      <4>2. G[k - 1] = F[m - 1] /\ G[k] = LegacyStep(F[m - 1], in, m)
        BY <3>1, <4>1
      <4> QED
        BY <3>1, <4>1, <4>2
    <3>2. CASE k # m
      <4>1. k \in 0 .. m - 1
        BY <1>3, <3>2
      <4>2. G[k] = F[k]
        BY <3>2
      <4>3. F[k] = IF k = 0 THEN LegacyStart ELSE LegacyStep(F[k - 1], in, k)
        BY <2>2, <4>1 DEF AfterFunction
      <4>4. CASE k = 0
        BY <4>2, <4>3, <4>4
      <4>5. CASE k # 0
        <5>1. k - 1 \in 0 .. m /\ k - 1 # m
          BY <4>1, <4>5, <1>3
        <5>2. G[k - 1] = F[k - 1]
          BY <5>1
        <5> QED
          BY <4>2, <4>3, <5>2
      <4> QED
        BY <4>4, <4>5
    <3> QED
      BY <3>1, <3>2
  <2>4. G = [k \in 0 .. m |-> G[k]]
    OBVIOUS
  <2> HIDE DEF G
  <2>5. AfterFunction(G, in, m)
    BY <2>3, <2>4 DEF AfterFunction
  <2> QED
    BY <1>3, <2>5
<1> QED
  BY <1>4, <1>5

LEMMA LegacyAfterIs ==
    ASSUME NEW in \in Inputs
    PROVE  /\ LegacyAfter(in)[0] = LegacyStart
           /\ \A k \in 1 .. Len(in.master) : LegacyAfter(in)[k] = LegacyStep(LegacyAfter(in)[k - 1], in, k)
PROOF
<1>1. PICK n \in Nat : n = Len(in.master)
  BY MasterSize
<1>2. \E F : AfterFunction(F, in, n)
  BY AftersExist
<1>3. AfterFunction(LegacyAfter(in), in, n)
  <2>1. \E F : AfterFunction(F, in, Len(in.master))
    BY <1>1, <1>2
  <2>2. AfterFunction(LegacyAfter(in), in, Len(in.master))
    BY <2>1, Zenon DEF LegacyAfter, AfterFunction, LegacyStart, LegacyStep
  <2> QED
    BY <1>1, <2>2
<1>4. 0 \in 0 .. n /\ \A k \in 1 .. n : k \in 0 .. n /\ k # 0
  OBVIOUS
<1>5. PICK F : F = LegacyAfter(in)
  OBVIOUS
<1>6. F[0] = LegacyStart /\ \A k \in 1 .. n : F[k] = LegacyStep(F[k - 1], in, k)
  BY <1>3, <1>4, <1>5 DEF AfterFunction
<1> QED
  BY <1>1, <1>5, <1>6

(* The records that are not closed are the open ones. *)
LEMMA OpenAccount ==
    ASSUME NEW in \in Inputs, NEW k \in DOMAIN in.master, ~IsClosed(in.master[k])
    PROVE  in.master[k] \in ToSet(OpenAccounts(in))
PROOF
<1>1. PICK master : master = in.master
  OBVIOUS
<1>2. master \in Seq(LnmastRecords)
  BY <1>1, ItemsAssumption
<1>3. IsSequence(master)
  BY <1>2, RangeIs
<1> DEFINE open == {i \in DOMAIN master : ~IsClosed(master[i])}
<1>4. IsFiniteSet(open) /\ open \subseteq Int
  <2>1. open \subseteq DOMAIN master
    OBVIOUS
  <2> HIDE DEF open
  <2> QED
    BY <1>3, <2>1, PlacesOf
<1>5. k \in open
  BY <1>1
<1> HIDE DEF open
<1>6. PICK n, at : Picked(Kept(master, open), n, at, master, open)
  BY <1>4, KeptIs
<1>7. PICK i \in 1 .. n : at[i] = k
  BY <1>5, <1>6 DEF Picked
<1>8. PICK s : s = Kept(master, open)
  OBVIOUS
<1>9. DOMAIN s = 1 .. n /\ s[i] = master[k]
  BY <1>6, <1>7, <1>8, PickedIs
<1>10. OpenAccounts(in) = s
  BY <1>1, <1>8 DEF OpenAccounts, open
<1> QED
  BY <1>1, <1>9, <1>10 DEF ToSet

-----------------------------------------------------------------------------
(* A run that ends without another job at the file. *)

(* The dataset text has the record in its k-th place. *)
RecordAt(text, k, rec) == text[2 * k - 1] = FrontHalf(rec) /\ text[2 * k] = BackHalf(rec)

(* What run_batch made of the first n accounts of its master: after each   *)
(* of them the number of details written so far and the totals, and for    *)
(* each open one the result of process_account.                            *)
RunOf(in, n, written, results, tot) ==
    /\ written[0] = 0 /\ tot[0] = NoTotals
    /\ \A k \in 0 .. n : written[k] \in Nat /\ written[k] <= written[n]
    /\ \A k \in 1 .. n :
        \/ /\ IsClosed(in.master[k])
           /\ written[k] = written[k - 1] /\ tot[k] = tot[k - 1]
        \/ /\ ~IsClosed(in.master[k]) /\ ~UnknownType(Entries(in, in.master[k]))
           /\ results[k] = Results[in][k]
           /\ written[k] = written[k - 1] + 1 /\ tot[k] = Accumulate(tot[k - 1], results[k])

(* The details of these accounts, one after the other. *)
Details(text, in, n, written, results) ==
    \A k \in 1 .. n : ~IsClosed(in.master[k]) =>
        RecordAt(text, written[k], DetailRecord(results[k], in.asof))

(* The details and nothing else; the details, the trailer and nothing else. *)
Partial(text, in, n, total) ==
    \E written, results, tot :
        /\ RunOf(in, n, written, results, tot)
        /\ Details(text, in, n, written, results)
        /\ Len(text) = 2 * written[n] /\ total = tot[n]

Whole(text, in) ==
    \E written, results, tot :
        LET n == Len(in.master)
        IN  /\ RunOf(in, n, written, results, tot)
            /\ Details(text, in, n, written, results)
            /\ RecordAt(text, written[n] + 1, TrailerRecord(tot[n]))
            /\ Len(text) = 2 * (written[n] + 1)

(* The entries of every open account are within its paid item. *)
AllFit(in) == \A raw \in ToSet(OpenAccounts(in)) : EntriesFit(in, raw)

(* That much is what LNACCR01 has written and totalled by then. *)
AsLegacy(text, in, n, total) ==
    AllFit(in) /\ Loads[in] =>
        /\ text = LegacyAfter(in)[n].cells
        /\ SameTotals(total, LegacyAfter(in)[n].totals)

PartialRun(text, in, n, total) == Partial(text, in, n, total) /\ AsLegacy(text, in, n, total)

WholeRun(text, in) ==
    Whole(text, in) /\ (AllFit(in) /\ Loads[in] => text = LegacyFile(in))

(* A job that has had the output to itself since it opened it: what is on  *)
(* disk and in its buffer is what it has made so far.                      *)
AloneFor(j) ==
    alone[j] =>
        /\ \A k \in Jobs \ {j} : ~Writing(k)
        /\ Writing(j) => offset[j] = Len(file)
        /\ pc[j] = "details" => PartialRun(file \o buffer[j], input[j], next[j] - 1, totals[j])
        /\ pc[j] \in {"close", "done"} => WholeRun(file \o buffer[j], input[j])
        /\ pc[j] = "done" => buffer[j] = <<>>

AloneInv == \A j \in Jobs : AloneFor(j)

(* f with a further value. *)
Further(f, n, v) == [k \in 0 .. n + 1 |-> IF k = n + 1 THEN v ELSE f[k]]

LEMMA FurtherIs ==
    ASSUME NEW f, NEW n \in Nat, NEW v
    PROVE  /\ Further(f, n, v)[n + 1] = v
           /\ \A k \in 0 .. n : Further(f, n, v)[k] = f[k]
PROOF
<1>1. n + 1 \in 0 .. n + 1 /\ \A k \in 0 .. n : k \in 0 .. n + 1 /\ k # n + 1
  OBVIOUS
<1> QED
  BY <1>1 DEF Further

LEMMA ConcatIsAssociative ==
    ASSUME NEW s, IsSequence(s), NEW t, IsSequence(t), NEW u, IsSequence(u)
    PROVE  s \o (t \o u) = (s \o t) \o u
PROOF
<1> DEFINE S == Range(s) \cup (Range(t) \cup Range(u))
<1>1. s \in Seq(S) /\ t \in Seq(S) /\ u \in Seq(S)
  BY SeqMonotonic DEF IsSequence
<1> HIDE DEF S
<1> QED
  BY <1>1, ConcatAssociative

LEMMA SameSequence ==
    ASSUME NEW s, IsSequence(s), NEW t, IsSequence(t), Len(s) = Len(t),
           \A i \in 1 .. Len(s) : s[i] = t[i]
    PROVE  s = t
PROOF
<1> DEFINE S == Range(s) \cup Range(t)
<1>1. s \in Seq(S) /\ t \in Seq(S)
  BY SeqMonotonic DEF IsSequence
<1> HIDE DEF S
<1> QED
  BY <1>1, SeqEqual

(* A record stays where it is when more is written after it, and the two   *)
(* cells appended to whole records are the next record.                    *)
LEMMA RecordStays ==
    ASSUME NEW s, IsSequence(s), NEW t, IsSequence(t), NEW rec,
           NEW k \in Nat, k >= 1, 2 * k <= Len(s), RecordAt(s, k, rec)
    PROVE  RecordAt(s \o t, k, rec)
PROOF
<1>1. Len(s) \in Nat /\ Len(t) \in Nat
  BY SequenceIs
<1>2. /\ 2 * k - 1 \in 1 .. Len(s) + Len(t) /\ 2 * k - 1 <= Len(s)
      /\ 2 * k \in 1 .. Len(s) + Len(t) /\ 2 * k <= Len(s)
  BY <1>1
<1>3. (s \o t)[2 * k - 1] = s[2 * k - 1] /\ (s \o t)[2 * k] = s[2 * k]
  BY <1>2, ConcatIs
<1> QED
  BY <1>3 DEF RecordAt

LEMMA RecordAppended ==
    ASSUME NEW s, IsSequence(s), NEW k \in Nat, Len(s) = 2 * k, NEW rec
    PROVE  RecordAt(s \o CellsOf(rec), k + 1, rec)
PROOF
<1> DEFINE t == CellsOf(rec)
<1>1. IsSequence(t) /\ Len(t) = 2 /\ t[1] = FrontHalf(rec) /\ t[2] = BackHalf(rec)
  BY PairIs DEF CellsOf
<1> HIDE DEF t
<1>2. /\ 2 * (k + 1) - 1 \in 1 .. Len(s) + Len(t) /\ ~(2 * (k + 1) - 1 <= Len(s))
      /\ 2 * (k + 1) - 1 - Len(s) = 1
      /\ 2 * (k + 1) \in 1 .. Len(s) + Len(t) /\ ~(2 * (k + 1) <= Len(s))
      /\ 2 * (k + 1) - Len(s) = 2
  BY <1>1
<1>3. \A i \in 1 .. Len(s) + Len(t) : (s \o t)[i] = IF i <= Len(s) THEN s[i] ELSE t[i - Len(s)]
  BY <1>1, ConcatIs
<1>4. (s \o t)[2 * (k + 1) - 1] = t[1]
  BY <1>2, <1>3
<1>5. (s \o t)[2 * (k + 1)] = t[2]
  BY <1>2, <1>3
<1> QED
  BY <1>1, <1>4, <1>5 DEF RecordAt, t

LEMMA DetailsStay ==
    ASSUME NEW in, NEW n \in Nat, NEW written, NEW results, NEW tot,
           RunOf(in, n, written, results, tot),
           NEW s, IsSequence(s), Len(s) = 2 * written[n], NEW t, IsSequence(t),
           Details(s, in, n, written, results)
    PROVE  Details(s \o t, in, n, written, results)
PROOF
<1> SUFFICES ASSUME NEW k \in 1 .. n, ~IsClosed(in.master[k])
             PROVE  RecordAt(s \o t, written[k], DetailRecord(results[k], in.asof))
  BY DEF Details
<1>1. k \in 0 .. n /\ k - 1 \in 0 .. n /\ n \in 0 .. n
  OBVIOUS
<1>2. written[k] \in Nat /\ written[k - 1] \in Nat /\ written[n] \in Nat /\ written[k] <= written[n]
  BY <1>1 DEF RunOf
<1>3. written[k] = written[k - 1] + 1
  BY DEF RunOf
<1>4. written[k] >= 1 /\ 2 * written[k] <= Len(s)
  BY <1>2, <1>3
<1>5. RecordAt(s, written[k], DetailRecord(results[k], in.asof))
  BY DEF Details
<1> QED
  BY <1>2, <1>4, <1>5, RecordStays

(* One account further: a closed one, and an open one whose detail is      *)
(* appended.                                                               *)
LEMMA PastClosed ==
    ASSUME NEW in, NEW n \in Nat, NEW total, NEW s, Partial(s, in, n, total),
           IsClosed(in.master[n + 1])
    PROVE  Partial(s, in, n + 1, total)
PROOF
<1>1. PICK written, results, tot :
        /\ RunOf(in, n, written, results, tot)
        /\ Details(s, in, n, written, results)
        /\ Len(s) = 2 * written[n] /\ total = tot[n]
  BY DEF Partial
<1> DEFINE w == Further(written, n, written[n])
           q == Further(tot, n, tot[n])
<1>2. /\ w[n + 1] = written[n] /\ q[n + 1] = tot[n]
      /\ \A k \in 0 .. n : w[k] = written[k] /\ q[k] = tot[k]
  BY FurtherIs
<1> HIDE DEF w, q
<1>3. \A k \in 0 .. n : written[k] \in Nat /\ written[k] <= written[n]
  BY <1>1 DEF RunOf
<1>4. /\ 0 \in 0 .. n /\ n \in 0 .. n
      /\ \A k \in 0 .. n + 1 : k \in 0 .. n \/ k = n + 1
      /\ \A k \in 1 .. n + 1 : (k \in 1 .. n /\ k \in 0 .. n /\ k - 1 \in 0 .. n) \/ k = n + 1
      /\ n + 1 - 1 = n
  OBVIOUS
<1>5. \A k \in 0 .. n + 1 : w[k] \in Nat /\ w[k] <= w[n + 1]
  BY <1>2, <1>3, <1>4
<1>6. ASSUME NEW k \in 1 .. n + 1
      PROVE  \/ /\ IsClosed(in.master[k])
                /\ w[k] = w[k - 1] /\ q[k] = q[k - 1]
             \/ /\ ~IsClosed(in.master[k]) /\ ~UnknownType(Entries(in, in.master[k]))
                /\ results[k] = Results[in][k]
                /\ w[k] = w[k - 1] + 1 /\ q[k] = Accumulate(q[k - 1], results[k])
  <2>1. CASE k = n + 1
    BY <1>2, <1>4, <2>1
  <2>2. CASE k \in 1 .. n
    <3>1. /\ k \in 0 .. n /\ k - 1 \in 0 .. n
          /\ w[k] = written[k] /\ w[k - 1] = written[k - 1]
          /\ q[k] = tot[k] /\ q[k - 1] = tot[k - 1]
      BY <1>2, <2>2
    <3> QED
      BY <1>1, <2>2, <3>1 DEF RunOf
  <2> QED
    BY <1>4, <2>1, <2>2
<1>61. w[0] = 0 /\ q[0] = NoTotals
  BY <1>1, <1>2, <1>4 DEF RunOf
<1>62. RunOf(in, n + 1, w, results, q)
  BY <1>5, <1>6, <1>61 DEF RunOf
<1>7. Details(s, in, n + 1, w, results)
  BY <1>1, <1>2, <1>4 DEF Details
<1> QED
  BY <1>1, <1>2, <1>62, <1>7 DEF Partial

LEMMA PastOpen ==
    ASSUME NEW in, NEW n \in Nat, NEW total, NEW s, IsSequence(s), Partial(s, in, n, total),
           ~IsClosed(in.master[n + 1]), ~UnknownType(Entries(in, in.master[n + 1])),
           NEW result, result = Results[in][n + 1]
    PROVE  Partial(s \o CellsOf(DetailRecord(result, in.asof)), in, n + 1,
                   Accumulate(total, result))
PROOF
<1>1. PICK written, results, tot :
        /\ RunOf(in, n, written, results, tot)
        /\ Details(s, in, n, written, results)
        /\ Len(s) = 2 * written[n] /\ total = tot[n]
  BY DEF Partial
<1> DEFINE w == Further(written, n, written[n] + 1)
           r == Further(results, n, result)
           q == Further(tot, n, Accumulate(tot[n], result))
           rec == DetailRecord(result, in.asof)
           t == CellsOf(rec)
<1>2. /\ w[n + 1] = written[n] + 1 /\ r[n + 1] = result /\ q[n + 1] = Accumulate(tot[n], result)
      /\ \A k \in 0 .. n : w[k] = written[k] /\ r[k] = results[k] /\ q[k] = tot[k]
  <2>1. w[n + 1] = written[n] + 1 /\ \A k \in 0 .. n : w[k] = written[k]
    BY FurtherIs
  <2>2. r[n + 1] = result /\ \A k \in 0 .. n : r[k] = results[k]
    <3>1. \A v : /\ Further(results, n, v)[n + 1] = v
                 /\ \A k \in 0 .. n : Further(results, n, v)[k] = results[k]
      BY FurtherIs
    <3> QED
      BY <3>1
  <2>3. q[n + 1] = Accumulate(tot[n], result) /\ \A k \in 0 .. n : q[k] = tot[k]
    BY FurtherIs
  <2> QED
    BY <2>1, <2>2, <2>3
<1>3. IsSequence(t) /\ Len(t) = 2
  BY PairIs DEF CellsOf
<1> HIDE DEF w, r, q
<1>4. \A k \in 0 .. n : written[k] \in Nat /\ written[k] <= written[n]
  BY <1>1 DEF RunOf
<1>5. /\ 0 \in 0 .. n /\ n \in 0 .. n
      /\ \A k \in 0 .. n + 1 : k \in 0 .. n \/ k = n + 1
      /\ \A k \in 1 .. n + 1 : (k \in 1 .. n /\ k \in 0 .. n /\ k - 1 \in 0 .. n) \/ k = n + 1
      /\ n + 1 - 1 = n
  OBVIOUS
<1>6. \A k \in 0 .. n + 1 : w[k] \in Nat /\ w[k] <= w[n + 1]
  BY <1>2, <1>4, <1>5
<1>70. ASSUME NEW k \in 1 .. n + 1
       PROVE  \/ /\ IsClosed(in.master[k])
                 /\ w[k] = w[k - 1] /\ q[k] = q[k - 1]
              \/ /\ ~IsClosed(in.master[k]) /\ ~UnknownType(Entries(in, in.master[k]))
                 /\ r[k] = Results[in][k]
                 /\ w[k] = w[k - 1] + 1 /\ q[k] = Accumulate(q[k - 1], r[k])
  <2>1. CASE k = n + 1
    BY <1>2, <1>5, <2>1
  <2>2. CASE k \in 1 .. n
    <3>1. /\ k \in 0 .. n /\ k - 1 \in 0 .. n
          /\ w[k] = written[k] /\ w[k - 1] = written[k - 1]
          /\ q[k] = tot[k] /\ q[k - 1] = tot[k - 1] /\ r[k] = results[k]
      BY <1>2, <2>2
    <3> QED
      BY <1>1, <2>2, <3>1 DEF RunOf
  <2> QED
    BY <1>5, <2>1, <2>2
<1>71. w[0] = 0 /\ q[0] = NoTotals
  BY <1>1, <1>2, <1>5 DEF RunOf
<1>7. RunOf(in, n + 1, w, r, q)
  BY <1>6, <1>70, <1>71 DEF RunOf
<1>8. Details(s \o t, in, n, written, results)
  <2> HIDE DEF t
  <2> QED
    BY <1>1, <1>3, DetailsStay
<1>9. RecordAt(s \o t, written[n] + 1, rec)
  BY <1>1, <1>4, <1>5, RecordAppended
<1>10. Len(s \o t) = 2 * (written[n] + 1)
  <2> HIDE DEF t
  <2>1. Len(s \o t) = Len(s) + Len(t)
    BY <1>3, ConcatIs
  <2>2. Len(s) \in Nat /\ written[n] \in Nat
    BY <1>4, <1>5, SequenceIs
  <2> QED
    BY <1>1, <1>3, <2>1, <2>2
<1>11. Details(s \o t, in, n + 1, w, r)
  <2> SUFFICES ASSUME NEW k \in 1 .. n + 1, ~IsClosed(in.master[k])
               PROVE  RecordAt(s \o t, w[k], DetailRecord(r[k], in.asof))
    BY DEF Details
  <2>1. CASE k = n + 1
    BY <1>2, <1>9, <2>1
  <2>2. CASE k \in 1 .. n
    <3>1. k \in 0 .. n
      BY <2>2
    <3>2. RecordAt(s \o t, written[k], DetailRecord(results[k], in.asof))
      BY <1>8, <2>2 DEF Details
    <3> QED
      BY <1>2, <3>1, <3>2
  <2> QED
    BY <1>5, <2>1, <2>2
<1> HIDE DEF t
<1> QED
  BY <1>1, <1>2, <1>7, <1>10, <1>11 DEF Partial, t

LEMMA WithTrailer ==
    ASSUME NEW in, NEW total, NEW s, IsSequence(s), Len(in.master) \in Nat,
           Partial(s, in, Len(in.master), total)
    PROVE  Whole(s \o CellsOf(TrailerRecord(total)), in)
PROOF
<1>1. PICK n \in Nat : n = Len(in.master)
  OBVIOUS
<1>2. PICK written, results, tot :
        /\ RunOf(in, n, written, results, tot)
        /\ Details(s, in, n, written, results)
        /\ Len(s) = 2 * written[n] /\ total = tot[n]
  BY <1>1 DEF Partial
<1> DEFINE t == CellsOf(TrailerRecord(total))
<1>3. IsSequence(t) /\ Len(t) = 2
  BY PairIs DEF CellsOf
<1>4. written[n] \in Nat
  BY <1>2 DEF RunOf
<1>5. RecordAt(s \o t, written[n] + 1, TrailerRecord(tot[n]))
  BY <1>2, <1>4, RecordAppended
<1> HIDE DEF t
<1>6. Details(s \o t, in, n, written, results)
  BY <1>2, <1>3, DetailsStay
<1>7. Len(s \o t) = 2 * (written[n] + 1)
  <2>1. Len(s) \in Nat /\ Len(s \o t) = Len(s) + Len(t)
    BY <1>3, ConcatIs, SequenceIs
  <2> QED
    BY <1>2, <1>3, <1>4, <2>1
<1> QED
  BY <1>1, <1>2, <1>5, <1>6, <1>7 DEF Whole, t

LEMMA AtStart ==
    ASSUME NEW in
    PROVE  Partial(<<>> \o <<>>, in, 0, NoTotals)
PROOF
<1> DEFINE written == [k \in {0} |-> 0]
           tot == [k \in {0} |-> NoTotals]
<1>1. <<>> \in Seq({}) /\ <<>> \o <<>> = <<>> /\ Len(<<>>) = 0
  BY ConcatEmptySeq, EmptySeq
<1>2. 0 .. 0 = {0} /\ 1 .. 0 = {}
  OBVIOUS
<1>3. written[0] = 0 /\ tot[0] = NoTotals
  OBVIOUS
<1> HIDE DEF written, tot
<1>4. RunOf(in, 0, written, tot, tot)
  BY <1>2, <1>3 DEF RunOf
<1>5. Details(<<>> \o <<>>, in, 0, written, tot)
  BY <1>2 DEF Details
<1> QED
  BY <1>1, <1>3, <1>4, <1>5 DEF Partial

(* The same of what LNACCR01 has written. *)
LEMMA RunAtStart ==
    ASSUME NEW in \in Inputs
    PROVE  PartialRun(<<>> \o <<>>, in, 0, NoTotals)
PROOF
<1>1. <<>> \o <<>> = <<>>
  <2>1. <<>> \in Seq({})
    BY EmptySeq
  <2> QED
    BY <2>1, ConcatEmptySeq
<1>2. LegacyAfter(in)[0].cells = <<>> /\ LegacyAfter(in)[0].totals = LegacyNothing
  BY LegacyAfterIs DEF LegacyStart
<1>3. AsLegacy(<<>> \o <<>>, in, 0, NoTotals)
  BY <1>1, <1>2, SameTotalsStart DEF AsLegacy
<1> QED
  BY <1>3, AtStart DEF PartialRun

LEMMA RunPastClosed ==
    ASSUME NEW in \in Inputs, NEW n \in Nat, n < Len(in.master), NEW total, NEW s,
           PartialRun(s, in, n, total), IsClosed(in.master[n + 1])
    PROVE  PartialRun(s, in, n + 1, total)
PROOF
<1>1. n + 1 \in 1 .. Len(in.master) /\ n + 1 - 1 = n
  BY MasterSize
<1>2. LegacyAfter(in)[n + 1] = LegacyAfter(in)[n]
  <2>1. PICK k \in 1 .. Len(in.master) : k = n + 1
    BY <1>1
  <2>2. LegacyAfter(in)[k] = LegacyStep(LegacyAfter(in)[k - 1], in, k)
    BY LegacyAfterIs
  <2>3. k - 1 = n /\ IsClosed(in.master[k])
    BY <1>1, <2>1
  <2> QED
    BY <2>1, <2>2, <2>3 DEF LegacyStep
<1>3. AsLegacy(s, in, n + 1, total)
  BY <1>2 DEF PartialRun, AsLegacy
<1>4. Partial(s, in, n + 1, total)
  BY PastClosed DEF PartialRun
<1> QED
  BY <1>3, <1>4 DEF PartialRun

LEMMA RunPastOpen ==
    ASSUME NEW in \in Inputs, NEW n \in Nat, n < Len(in.master), NEW total,
           NEW s, IsSequence(s), PartialRun(s, in, n, total),
           ~IsClosed(in.master[n + 1]), ~UnknownType(Entries(in, in.master[n + 1])),
           NEW result, result = Results[in][n + 1]
    PROVE  PartialRun(s \o CellsOf(DetailRecord(result, in.asof)), in, n + 1,
                      Accumulate(total, result))
PROOF
<1>1. PICK k : k = n + 1
  OBVIOUS
<1>2. k \in 1 .. Len(in.master) /\ k - 1 = n /\ k \in DOMAIN in.master
  <2>1. n + 1 \in 1 .. Len(in.master) /\ n + 1 - 1 = n
    BY MasterSize
  <2>2. PICK master : master = in.master
    OBVIOUS
  <2>3. master \in Seq(LnmastRecords)
    BY <2>2, ItemsAssumption
  <2>4. DOMAIN master = 1 .. Len(master)
    BY <2>3
  <2> QED
    BY <1>1, <2>1, <2>2, <2>4
<1>3. LegacyAfter(in)[k] = LegacyStep(LegacyAfter(in)[n], in, k)
  BY <1>2, LegacyAfterIs
<1>4. PICK before : before = LegacyAfter(in)[n]
  OBVIOUS
<1>5. PICK raw : raw = in.master[k]
  OBVIOUS
<1>6. ASSUME AllFit(in), Loads[in]
      PROVE  /\ s \o CellsOf(DetailRecord(result, in.asof)) = LegacyAfter(in)[k].cells
             /\ SameTotals(Accumulate(total, result), LegacyAfter(in)[k].totals)
  <2>1. EntriesFit(in, raw)
    BY <1>1, <1>2, <1>5, <1>6, OpenAccount DEF AllFit
  <2>2. result = LegacyResult(raw, in) /\ ResultNumbers(result)
    BY <1>1, <1>2, <1>5, <1>6, <2>1, SameResult
  <2>3. DetailRecord(result, in.asof) = LegacyDetail(raw, in)
    BY <2>2, SameDetail
  <2>4. s = before.cells /\ SameTotals(total, before.totals)
    BY <1>4, <1>6 DEF PartialRun, AsLegacy
  <2>5. LegacyAfter(in)[k] = [cells |-> before.cells \o CellsOf(LegacyDetail(raw, in)),
                              totals |-> LegacyTotals(before.totals, LegacyResult(raw, in))]
    BY <1>1, <1>3, <1>4, <1>5 DEF LegacyStep
  <2>6. SameTotals(Accumulate(total, result), LegacyTotals(before.totals, result))
    BY <2>2, <2>4, SameTotalsStep
  <2>7. LegacyAfter(in)[k].cells = before.cells \o CellsOf(LegacyDetail(raw, in))
    BY <2>5
  <2>8. LegacyAfter(in)[k].totals = LegacyTotals(before.totals, result)
    BY <2>2, <2>5
  <2>9. s \o CellsOf(DetailRecord(result, in.asof)) = LegacyAfter(in)[k].cells
    BY <2>3, <2>4, <2>7, Zenon
  <2> QED
    BY <2>6, <2>8, <2>9, Zenon
<1>7. Partial(s \o CellsOf(DetailRecord(result, in.asof)), in, n + 1, Accumulate(total, result))
  BY PastOpen DEF PartialRun
<1> QED
  BY <1>1, <1>6, <1>7 DEF PartialRun, AsLegacy

LEMMA RunWithTrailer ==
    ASSUME NEW in \in Inputs, NEW total, NEW s, IsSequence(s),
           PartialRun(s, in, Len(in.master), total)
    PROVE  WholeRun(s \o CellsOf(TrailerRecord(total)), in)
PROOF
<1>1. Len(in.master) \in Nat
  BY MasterSize
<1>2. PICK all : all = LegacyAfter(in)[Len(in.master)]
  OBVIOUS
<1>3. ASSUME AllFit(in), Loads[in]
      PROVE  s \o CellsOf(TrailerRecord(total)) = LegacyFile(in)
  <2>1. s = all.cells /\ SameTotals(total, all.totals)
    BY <1>2, <1>3 DEF PartialRun, AsLegacy
  <2>2. TrailerRecord(total) = LegacyTrailer(all.totals)
    BY <2>1, SameTrailer
  <2>3. LegacyFile(in) = all.cells \o CellsOf(LegacyTrailer(all.totals))
    BY <1>2 DEF LegacyFile
  <2> QED
    BY <2>1, <2>2, <2>3
<1>4. Whole(s \o CellsOf(TrailerRecord(total)), in)
  BY <1>1, WithTrailer DEF PartialRun
<1> QED
  BY <1>3, <1>4 DEF WholeRun

(* A flush moves cells from the buffer to the end of the file.             *)
LEMMA FlushKeepsText ==
    ASSUME IsSequence(file), NEW b, IsSequence(b), NEW n \in 1 .. Len(b)
    PROVE  /\ Overlaid(SubSeq(b, 1, n), Len(file)) \o SubSeq(b, n + 1, Len(b)) = file \o b
           /\ Len(Overlaid(SubSeq(b, 1, n), Len(file))) = Len(file) + n
PROOF
<1>1. PICK m \in Nat : m = Len(b)
  BY SequenceIs
<1>2. PICK from \in Nat : from = Len(file)
  BY SequenceIs
<1> DEFINE front == SubSeq(b, 1, n)
           back == SubSeq(b, n + 1, m)
           new == Overlaid(front, from)
<1>3. n \in 1 .. m /\ 1 \in 1 .. m + 1 /\ n \in 1 - 1 .. m /\ n + 1 \in 1 .. m + 1 /\ m \in n + 1 - 1 .. m
  BY <1>1
<1>4. /\ IsSequence(front) /\ Len(front) = n - 1 + 1
      /\ \A i \in 1 .. n - 1 + 1 : front[i] = b[1 + i - 1]
  BY <1>1, <1>3, PartIs
<1>5. /\ IsSequence(back) /\ Len(back) = m - (n + 1) + 1
      /\ \A i \in 1 .. m - (n + 1) + 1 : back[i] = b[n + 1 + i - 1]
  <2>1. PICK k \in 1 .. Len(b) + 1 : k = n + 1
    BY <1>1, <1>3
  <2>2. m \in k - 1 .. Len(b)
    BY <1>1, <1>3, <2>1
  <2> QED
    BY <1>1, <2>1, <2>2, PartIs
<1> HIDE DEF front, back
<1>6. Len(front) = n /\ Len(back) = m - n /\ ~(from >= from + n)
  BY <1>2, <1>3, <1>4, <1>5
<1>7. LET size == IF Len(file) >= from + Len(front) THEN Len(file) ELSE from + Len(front)
      IN  /\ IsSequence(new) /\ Len(new) = size
          /\ \A i \in 1 .. size : new[i] = IF i \in from + 1 .. from + Len(front)
                                           THEN front[i - from]
                                           ELSE IF i <= Len(file) THEN file[i] ELSE Nul
  BY <1>2, <1>4, OverlaidIs
<1> HIDE DEF new
<1>8. /\ IsSequence(new) /\ Len(new) = from + n
      /\ \A i \in 1 .. from + n : new[i] = IF i \in from + 1 .. from + n
                                           THEN front[i - from]
                                           ELSE IF i <= from THEN file[i] ELSE Nul
  BY <1>2, <1>6, <1>7
<1>9. /\ IsSequence(file \o b) /\ Len(file \o b) = from + m
      /\ \A i \in 1 .. from + m : (file \o b)[i] = IF i <= from THEN file[i] ELSE b[i - from]
  BY <1>1, <1>2, ConcatIs
<1>10. /\ IsSequence(new \o back) /\ Len(new \o back) = Len(new) + Len(back)
       /\ \A i \in 1 .. Len(new) + Len(back) :
             (new \o back)[i] = IF i <= Len(new) THEN new[i] ELSE back[i - Len(new)]
  BY <1>5, <1>8, ConcatIs
<1>11. Len(new) + Len(back) = from + m
  BY <1>3, <1>6, <1>8
<1>12. ASSUME NEW i \in 1 .. from + m
       PROVE  (new \o back)[i] = (file \o b)[i]
  <2>1. /\ (new \o back)[i] = IF i <= from + n THEN new[i] ELSE back[i - (from + n)]
        /\ (file \o b)[i] = IF i <= from THEN file[i] ELSE b[i - from]
    BY <1>8, <1>9, <1>10, <1>11
  <2>2. CASE i <= from
    <3>1. i \in 1 .. from + n /\ i \notin from + 1 .. from + n
      BY <1>3, <2>2
    <3> QED
      BY <1>3, <1>8, <2>1, <2>2, <3>1
  <2>3. CASE ~(i <= from) /\ i <= from + n
    <3>1. /\ i \in 1 .. from + n /\ i \in from + 1 .. from + n
          /\ i - from \in 1 .. n - 1 + 1 /\ 1 + (i - from) - 1 = i - from
      BY <1>3, <2>3
    <3>2. new[i] = front[i - from]
      BY <1>8, <3>1
    <3>3. front[i - from] = b[1 + (i - from) - 1]
      BY <1>4, <3>1
    <3> QED
      BY <2>1, <2>3, <3>1, <3>2, <3>3
  <2>4. CASE ~(i <= from + n)
    <3>1. /\ ~(i <= from) /\ i - (from + n) \in 1 .. m - (n + 1) + 1
          /\ n + 1 + (i - (from + n)) - 1 = i - from
      BY <1>3, <2>4
    <3>2. back[i - (from + n)] = b[n + 1 + (i - (from + n)) - 1]
      BY <1>5, <3>1
    <3> QED
      BY <2>1, <2>4, <3>1, <3>2
  <2> QED
    BY <2>2, <2>3, <2>4
<1>13. new \o back = file \o b
  BY <1>9, <1>10, <1>11, <1>12, SameSequence
<1> QED
  BY <1>1, <1>2, <1>8, <1>13 DEF new, front, back

(* What another job does leaves a job alone with its output, unless it     *)
(* opens the output.                                                       *)
LEMMA OthersLeaveAlone ==
    ASSUME WriterInv, AloneInv, NEW j \in Jobs, NEW k \in Jobs \ {j}, alone'[j],
           \/ \E in \in Inputs : Launch(k, in)
           \/ JobStep(k)
           \/ Kill(k)
    PROVE  AloneFor(j)'
PROOF
<1>1. ~Open(k)
  BY DEF Open
<1>2. alone' = alone
  BY <1>1 DEF Launch, JobStep, Kill, Close, Flush, WriteTrailer, SkipClosed, RaiseUnknown,
              WriteDetail, LoadFails
<1>3. AloneFor(j) /\ alone[j]
  BY <1>2 DEF AloneInv
<1>4. ~Writing(k)
  BY <1>3 DEF AloneFor
<1>5. (\E in \in Inputs : Launch(k, in)) \/ LoadFails(k) \/ Kill(k)
  BY <1>1, <1>4 DEF JobStep, Close, Flush, WriteTrailer, SkipClosed, RaiseUnknown, WriteDetail,
                    AtAccount, Writing
<1>6. JobTypes
  BY DEF WriterInv
<1>7. /\ file' = file /\ pc'[k] \in {"load", "failed", "killed"}
      /\ \A l \in Jobs \ {k} : pc'[l] = pc[l]
      /\ input'[j] = input[j] /\ next'[j] = next[j] /\ totals'[j] = totals[j]
      /\ buffer'[j] = buffer[j] /\ offset'[j] = offset[j]
  <2>1. CASE \E in \in Inputs : Launch(k, in)
    BY <1>6, <2>1 DEF Launch, JobTypes
  <2>2. CASE LoadFails(k)
    BY <1>6, <2>2 DEF LoadFails, JobTypes
  <2>3. CASE Kill(k)
    BY <1>6, <2>3 DEF Kill, JobTypes
  <2> QED
    BY <1>5, <2>1, <2>2, <2>3
<1>8. \A l \in Jobs \ {j} : ~Writing(l)'
  BY <1>3, <1>7 DEF AloneFor, Writing
<1>9. pc'[j] = pc[j]
  BY <1>7
<1> QED
  BY <1>3, <1>7, <1>8, <1>9 DEF AloneFor, Writing

(* What a job does that is alone with its output.                          *)
LEMMA OwnStepAlone ==
    ASSUME WriterInv, AloneInv, NEW j \in Jobs, alone'[j],
           \/ \E in \in Inputs : Launch(j, in)
           \/ JobStep(j)
           \/ Kill(j)
    PROVE  AloneFor(j)'
PROOF
<1> DEFINE text == file \o buffer[j]
<1>1. /\ JobTypes /\ IsSequence(file) /\ IsSequence(buffer[j])
      /\ next[j] \in Nat /\ Len(input[j].master) \in Nat
      /\ pc[j] = "details" => next[j] \in 1 .. Len(input[j].master) + 1
  BY MasterSize DEF WriterInv, HoldsCells, JobTypes, Walk
<1>0. input[j] \in Inputs
  BY DEF WriterInv, JobTypes
<1>2. IsSequence(text)
  BY <1>1, ConcatIs
<1>3. alone[j] => /\ \A k \in Jobs \ {j} : ~Writing(k)
                  /\ Writing(j) => offset[j] = Len(file)
                  /\ pc[j] = "details" => PartialRun(text, input[j], next[j] - 1, totals[j])
                  /\ pc[j] \in {"close", "done"} => WholeRun(text, input[j])
                  /\ pc[j] = "done" => buffer[j] = <<>>
  BY DEF AloneInv, AloneFor
<1>4. \A k \in Jobs \ {j} : pc'[k] = pc[k]
  BY <1>1 DEF JobTypes, Launch, JobStep, Kill, Close, Flush, WriteTrailer, SkipClosed, RaiseUnknown,
              WriteDetail, LoadFails, Open
<1>5. CASE \E in \in Inputs : Launch(j, in)
  <2>1. alone' = alone /\ pc'[j] = "load"
    BY <1>1, <1>5 DEF Launch, JobTypes
  <2> QED
    BY <1>3, <1>4, <2>1 DEF AloneFor, Writing
<1>6. CASE LoadFails(j)
  <2>1. alone' = alone /\ pc'[j] = "failed"
    BY <1>1, <1>6 DEF LoadFails, JobTypes
  <2> QED
    BY <1>3, <1>4, <2>1 DEF AloneFor, Writing
<1>7. CASE Open(j)
  <2>1. /\ \A k \in Jobs \ {j} : ~Writing(k)
        /\ file' = <<>> /\ buffer'[j] = <<>> /\ totals'[j] = NoTotals
        /\ pc'[j] = "details" /\ next'[j] = 1 /\ offset'[j] = 0
    BY <1>1, <1>7 DEF Open, JobTypes
  <2>2. PartialRun((file \o buffer[j])', input'[j], next'[j] - 1, totals'[j])
    <3>1. PICK in \in Inputs : in = input[j]
      BY <1>0
    <3>2. PartialRun(<<>> \o <<>>, in, 0, NoTotals)
      BY RunAtStart
    <3>3. input'[j] = in /\ next'[j] - 1 = 0
      BY <1>7, <2>1, <3>1 DEF Open
    <3> QED
      BY <2>1, <3>2, <3>3
  <2>3. offset'[j] = Len(file')
    BY <2>1, EmptySeq
  <2> QED
    BY <1>4, <2>1, <2>2, <2>3 DEF AloneFor, Writing
<1>8. CASE SkipClosed(j)
  <2>1. /\ alone' = alone /\ file' = file /\ buffer'[j] = buffer[j] /\ totals'[j] = totals[j]
        /\ pc[j] = "details" /\ pc'[j] = "details" /\ next'[j] = next[j] + 1 /\ offset' = offset
        /\ input' = input /\ IsClosed(input[j].master[next[j]]) /\ next[j] <= Len(input[j].master)
    BY <1>1, <1>8 DEF SkipClosed, Advance, AtAccount, Raw, JobTypes
  <2>2. next[j] - 1 \in Nat /\ next[j] - 1 + 1 = next[j] /\ next'[j] - 1 = next[j] - 1 + 1
    BY <1>1, <2>1
  <2>3. PartialRun(text, input[j], next[j] - 1, totals[j])
    BY <1>3, <2>1
  <2>4. PartialRun(text, input[j], next[j] - 1 + 1, totals[j])
    <3> HIDE DEF text
    <3>1. PICK n \in Nat : n = next[j] - 1
      BY <2>2
    <3>2. PICK total : total = totals[j]
      OBVIOUS
    <3>3. PartialRun(text, input[j], n, total) /\ IsClosed(input[j].master[n + 1])
      BY <2>1, <2>2, <2>3, <3>1, <3>2
    <3>5. n < Len(input[j].master)
      <4>1. PICK size \in Nat, at \in Nat : size = Len(input[j].master) /\ at = next[j]
        BY <1>1
      <4> QED
        BY <2>1, <3>1, <4>1
    <3>4. PartialRun(text, input[j], n + 1, total)
      BY <1>0, <3>3, <3>5, RunPastClosed
    <3> QED
      BY <3>1, <3>2, <3>4
  <2> QED
    BY <1>3, <1>4, <2>1, <2>2, <2>4 DEF AloneFor, Writing
<1>9. CASE WriteDetail(j)
  <2>1. PICK result :
          /\ result = Results[input[j]][next[j]]
          /\ buffer' = [buffer EXCEPT ![j] = @ \o CellsOf(DetailRecord(result, input[j].asof))]
          /\ totals' = [totals EXCEPT ![j] = Accumulate(@, result)]
    BY <1>9 DEF WriteDetail
  <2> DEFINE cells == CellsOf(DetailRecord(result, input[j].asof))
  <2>2. /\ alone' = alone /\ file' = file
        /\ pc[j] = "details" /\ pc'[j] = "details" /\ next'[j] = next[j] + 1 /\ offset' = offset
        /\ input' = input /\ ~IsClosed(input[j].master[next[j]]) /\ next[j] <= Len(input[j].master)
        /\ ~UnknownType(Entries(input[j], input[j].master[next[j]]))
        /\ buffer'[j] = buffer[j] \o cells /\ totals'[j] = Accumulate(totals[j], result)
    BY <1>1, <1>9, <2>1 DEF WriteDetail, Advance, AtAccount, Raw, JobTypes
  <2>3. next[j] - 1 \in Nat /\ next[j] - 1 + 1 = next[j] /\ next'[j] - 1 = next[j] - 1 + 1
    BY <1>1, <2>2
  <2>4. PartialRun(text, input[j], next[j] - 1, totals[j])
    BY <1>3, <2>2
  <2>5. PartialRun(text \o cells, input[j], next[j] - 1 + 1, Accumulate(totals[j], result))
    <3> HIDE DEF text
    <3>1. PICK n \in Nat : n = next[j] - 1
      BY <2>3
    <3>2. PICK total : total = totals[j]
      OBVIOUS
    <3>3. /\ PartialRun(text, input[j], n, total) /\ ~IsClosed(input[j].master[n + 1])
          /\ ~UnknownType(Entries(input[j], input[j].master[n + 1]))
          /\ result = Results[input[j]][n + 1]
      BY <2>1, <2>2, <2>3, <2>4, <3>1, <3>2
    <3>5. n < Len(input[j].master)
      <4>1. PICK size \in Nat, at \in Nat : size = Len(input[j].master) /\ at = next[j]
        BY <1>1
      <4> QED
        BY <2>2, <3>1, <4>1
    <3>4. PartialRun(text \o cells, input[j], n + 1, Accumulate(total, result))
      BY <1>0, <1>2, <3>3, <3>5, RunPastOpen
    <3> QED
      BY <3>1, <3>2, <3>4
  <2>6. IsSequence(cells)
    BY PairIs DEF CellsOf
  <2> HIDE DEF cells
  <2>7. (file \o buffer[j])' = text \o cells
    <3>1. file \o (buffer[j] \o cells) = (file \o buffer[j]) \o cells
      <4>1. PICK b : b = buffer[j]
        OBVIOUS
      <4>2. IsSequence(file) /\ IsSequence(b) /\ IsSequence(cells)
        BY <1>1, <2>6, <4>1
      <4>3. file \o (b \o cells) = (file \o b) \o cells
        BY <4>2, ConcatIsAssociative
      <4> QED
        BY <4>1, <4>3
    <3>2. (file \o buffer[j])' = file \o (buffer[j] \o cells)
      BY <2>2
    <3> QED
      BY <3>1, <3>2
  <2> QED
    BY <1>3, <1>4, <2>2, <2>3, <2>5, <2>7 DEF AloneFor, Writing
<1>10. CASE RaiseUnknown(j)
  <2>1. /\ alone' = alone /\ file' = file /\ pc[j] = "details" /\ pc'[j] = "raised"
        /\ offset' = offset
    BY <1>1, <1>10 DEF RaiseUnknown, AtAccount, JobTypes
  <2> QED
    BY <1>3, <1>4, <2>1 DEF AloneFor, Writing
<1>11. CASE WriteTrailer(j)
  <2> DEFINE cells == CellsOf(TrailerRecord(totals[j]))
  <2>1. /\ alone' = alone /\ file' = file /\ pc[j] = "details" /\ pc'[j] = "close"
        /\ offset' = offset /\ input' = input /\ buffer'[j] = buffer[j] \o cells
        /\ next[j] > Len(input[j].master)
    BY <1>1, <1>11 DEF WriteTrailer, JobTypes
  <2>2. next[j] - 1 = Len(input[j].master)
    BY <1>1, <2>1
  <2>3. PartialRun(text, input[j], Len(input[j].master), totals[j])
    BY <1>3, <2>1, <2>2
  <2>4. WholeRun(text \o cells, input[j])
    <3> HIDE DEF text
    <3> QED
      BY <1>0, <1>2, <2>3, RunWithTrailer
  <2>5. IsSequence(cells)
    BY PairIs DEF CellsOf
  <2> HIDE DEF cells
  <2>6. (file \o buffer[j])' = text \o cells
    <3>1. file \o (buffer[j] \o cells) = (file \o buffer[j]) \o cells
      <4>1. PICK b : b = buffer[j]
        OBVIOUS
      <4>2. IsSequence(file) /\ IsSequence(b) /\ IsSequence(cells)
        BY <1>1, <2>5, <4>1
      <4>3. file \o (b \o cells) = (file \o b) \o cells
        BY <4>2, ConcatIsAssociative
      <4> QED
        BY <4>1, <4>3
    <3>2. (file \o buffer[j])' = file \o (buffer[j] \o cells)
      BY <2>1
    <3> QED
      BY <3>1, <3>2
  <2> QED
    BY <1>3, <1>4, <2>1, <2>4, <2>6 DEF AloneFor, Writing
<1>12. CASE Flush(j)
  <2>1. PICK n \in 1 .. Len(buffer[j]) :
          /\ file' = Overlaid(SubSeq(buffer[j], 1, n), offset[j])
          /\ offset' = [offset EXCEPT ![j] = @ + n]
          /\ buffer' = [buffer EXCEPT ![j] = SubSeq(@, n + 1, Len(@))]
    BY <1>12 DEF Flush
  <2>2. /\ alone' = alone /\ Writing(j) /\ pc' = pc /\ input' = input /\ next' = next
        /\ totals' = totals
        /\ offset'[j] = offset[j] + n /\ buffer'[j] = SubSeq(buffer[j], n + 1, Len(buffer[j]))
    BY <1>1, <1>12, <2>1 DEF Flush, JobTypes
  <2>3. offset[j] = Len(file)
    BY <1>3, <2>2
  <2>4. (file \o buffer[j])' = text /\ offset'[j] = Len(file')
    <3>1. PICK b : b = buffer[j]
      OBVIOUS
    <3>2. /\ Overlaid(SubSeq(b, 1, n), Len(file)) \o SubSeq(b, n + 1, Len(b)) = file \o b
          /\ Len(Overlaid(SubSeq(b, 1, n), Len(file))) = Len(file) + n
      BY <1>1, <3>1, FlushKeepsText
    <3>3. file' = Overlaid(SubSeq(b, 1, n), Len(file)) /\ buffer'[j] = SubSeq(b, n + 1, Len(b))
      BY <2>1, <2>2, <2>3, <3>1
    <3> QED
      BY <2>2, <2>3, <3>1, <3>2, <3>3
  <2>5. pc[j] # "done"
    BY <2>2 DEF Writing
  <2> QED
    BY <1>3, <1>4, <2>2, <2>4, <2>5 DEF AloneFor, Writing
<1>13. CASE Close(j)
  <2>1. /\ alone' = alone /\ file' = file /\ buffer' = buffer /\ input' = input
        /\ buffer[j] = <<>> /\ pc[j] \in {"close", "raised"}
        /\ pc'[j] = IF pc[j] = "close" THEN "done" ELSE "failed"
    BY <1>1, <1>13 DEF Close, JobTypes
  <2> QED
    BY <1>3, <1>4, <2>1 DEF AloneFor, Writing
<1>14. CASE Kill(j)
  <2>1. alone' = alone /\ pc'[j] = "killed"
    BY <1>1, <1>14 DEF Kill, JobTypes
  <2> QED
    BY <1>3, <1>4, <2>1 DEF AloneFor, Writing
<1> QED
  BY <1>5, <1>6, <1>7, <1>8, <1>9, <1>10, <1>11, <1>12, <1>13, <1>14 DEF JobStep

(* What is written was loaded. *)
LoadedInv ==
    \A j \in Jobs : pc[j] \in {"details", "close", "raised", "done"} => Loads[input[j]]

LEMMA AlwaysLoaded == Spec => []LoadedInv
PROOF
<1>1. Init => LoadedInv
  BY DEF Init, LoadedInv
<1>2. WriterInv /\ LoadedInv /\ [Next]_vars => LoadedInv'
  <2> SUFFICES ASSUME JobTypes, LoadedInv, [Next]_vars, NEW j \in Jobs,
                      pc'[j] \in {"details", "close", "raised", "done"}
               PROVE  Loads[input'[j]]
    BY DEF LoadedInv, WriterInv
  <2>1. CASE UNCHANGED vars
    BY <2>1 DEF vars, job, LoadedInv
  <2>2. ASSUME NEW k \in Jobs, \/ \E in \in Inputs : Launch(k, in)
                               \/ LoadFails(k) \/ Kill(k)
        PROVE  Loads[input'[j]]
    <3>1. k # j /\ pc'[j] = pc[j] /\ input'[j] = input[j]
      BY <2>2 DEF JobTypes, Launch, LoadFails, Kill
    <3> QED
      BY <3>1 DEF LoadedInv
  <2>3. ASSUME NEW k \in Jobs, Open(k)
        PROVE  Loads[input'[j]]
    <3>1. input' = input /\ (pc'[j] = pc[j] \/ j = k) /\ Loads[input[k]]
      BY <2>3 DEF JobTypes, Open
    <3> QED
      BY <3>1 DEF LoadedInv
  <2>4. ASSUME NEW k \in Jobs, \/ Flush(k) \/ SkipClosed(k) \/ WriteDetail(k)
        PROVE  Loads[input'[j]]
    <3>1. pc' = pc /\ input' = input
      BY <2>4 DEF Flush, SkipClosed, WriteDetail
    <3> QED
      BY <3>1 DEF LoadedInv
  <2>5. ASSUME NEW k \in Jobs, \/ Close(k) \/ WriteTrailer(k) \/ RaiseUnknown(k)
        PROVE  Loads[input'[j]]
    <3>1. /\ input' = input
          /\ pc'[j] = pc[j] \/ (j = k /\ pc[k] \in {"details", "close", "raised"})
      BY <2>5 DEF JobTypes, Close, WriteTrailer, RaiseUnknown, AtAccount
    <3> QED
      BY <3>1 DEF LoadedInv
  <2> QED
    BY <2>1, <2>2, <2>3, <2>4, <2>5 DEF Next, JobStep
<1> QED
  BY <1>1, <1>2, AlwaysWrites, PTL DEF Spec

LEMMA AlwaysAlone == Spec => []AloneInv
PROOF
<1>1. Init => AloneInv
  BY DEF Init, AloneInv, AloneFor
<1>2. WriterInv /\ AloneInv /\ [Next]_vars => AloneInv'
  <2> SUFFICES ASSUME WriterInv, AloneInv, [Next]_vars, NEW j \in Jobs, alone'[j]
               PROVE  AloneFor(j)'
    BY DEF AloneInv, AloneFor
  <2>1. CASE UNCHANGED vars
    BY <2>1 DEF vars, job, AloneInv, AloneFor, Writing
  <2>2. ASSUME NEW k \in Jobs,
               \/ \E in \in Inputs : Launch(k, in)
               \/ JobStep(k)
               \/ Kill(k)
        PROVE  AloneFor(j)'
    <3>1. CASE k = j
      BY <2>2, <3>1, OwnStepAlone
    <3>2. CASE k \in Jobs \ {j}
      BY <2>2, <3>2, OthersLeaveAlone
    <3> QED
      BY <3>1, <3>2
  <2> QED
    BY <2>1, <2>2 DEF Next
<1> QED
  BY <1>1, <1>2, AlwaysWrites, PTL DEF Spec

LEMMA FinishedIsWhole ==
    ASSUME WriterInv, AloneInv, NEW j \in Jobs, Finished(j)
    PROVE  WholeRun(file, input[j])
PROOF
<1>1. WholeRun(file \o buffer[j], input[j]) /\ buffer[j] = <<>>
  BY DEF Finished, AloneInv, AloneFor
<1>2. file \in Seq(Range(file))
  BY DEF WriterInv, HoldsCells, IsSequence
<1>3. file \o <<>> = file
  BY <1>2, ConcatEmptySeq
<1> QED
  BY <1>1, <1>3

(***************************************************************************)
(* A run that ends without another job at the file leaves the whole        *)
(* dataset, whatever ran and was killed before it, and wherever its buffer *)
(* was cut: the detail of each open account of its master, in master       *)
(* order, the trailer of the totals of these details, and nothing else     *)
(* (run_batch, LnoutWriter).                                               *)
(***************************************************************************)
THEOREM UndisturbedRunWritesAll ==
    Spec => [](\A j \in Jobs : Finished(j) => Whole(file, input[j]))
PROOF
<1>1. WriterInv /\ AloneInv => \A j \in Jobs : Finished(j) => Whole(file, input[j])
  BY FinishedIsWhole DEF WholeRun
<1> QED
  BY <1>1, AlwaysWrites, AlwaysAlone, PTL

(***************************************************************************)
(* Byte parity with the mainframe, for every width, calendar, month of     *)
(* data and number of jobs: what such a run leaves is the file LNACCR01    *)
(* writes for its input.  The invariant is that what a job alone at its    *)
(* output has made so far is what LNACCR01 has by then (AsLegacy); a step  *)
(* keeps it because the results of the two are equal (SameResult).         *)
(***************************************************************************)
THEOREM ParityHolds == Spec => []ByteIdentical
PROOF
<1>1. WriterInv /\ AloneInv /\ LoadedInv => ByteIdentical
  <2> SUFFICES ASSUME WriterInv, AloneInv, LoadedInv, NEW j \in Jobs, Finished(j),
                      AllFit(input[j])
               PROVE  file = LegacyFile(input[j])
    BY DEF ByteIdentical, AllFit
  <2>1. Loads[input[j]]
    BY DEF LoadedInv, Finished
  <2>2. WholeRun(file, input[j])
    BY FinishedIsWhole
  <2> QED
    BY <2>1, <2>2 DEF WholeRun
<1> QED
  BY <1>1, AlwaysWrites, AlwaysAlone, AlwaysLoaded, PTL

=============================================================================
