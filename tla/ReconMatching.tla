---------------------------- MODULE ReconMatching ----------------------------
(***************************************************************************)
(* The pure part of the reconciliation matcher: who sent a statement line, *)
(* which invoices each of the rules A1, A2, B1, B2 and B3 proposes for it, *)
(* and which candidate wins (recon/customers, recon/matching).  Texts are  *)
(* normalised already: a reference is a tuple of characters, a remitter or *)
(* an IBAN a value compared for equality.                                  *)
(***************************************************************************)
EXTENDS BatchRule, Sequences

CONSTANTS
    LineIds,            \* Umsatz-IDs; their order as numbers stands for the string order
    Line,               \* Line[l]: booking, iban, remitter, tokens, amount
    Master,             \* customers.csv in file order: id, names, ibans
    NoCustomer,         \* None
    NoText,             \* the empty cell
    FuzzyMaxDistance,   \* fuzzy_max_distance
    B2Window            \* b2_window_days

ASSUME LineIdsAssumption == LineIds \subseteq Nat /\ IsFiniteSet(LineIds)

ASSUME LineAssumption ==
    \A l \in LineIds :
        /\ Line[l].booking \in Int /\ Line[l].amount \in Int
        /\ IsFiniteSet(Line[l].tokens) /\ \A t \in Line[l].tokens : Len(t) \in Nat

ASSUME ReferenceAssumption == \A i \in InvoiceIds : Len(Invoice[i].ref) \in Nat

Rules == {"A1", "A2", "B1", "B2", "B3"}

Reasons == {"DEBIT", "INVOICE_CONSUMED", "NO_CANDIDATE"}

Candidate(rule, invoices, difference, distance) ==
    [rule |-> rule, invoices |-> invoices,
     difference |-> difference, distance |-> distance]

-----------------------------------------------------------------------------
(* Customer identification. *)

(* setdefault: the first customer of the file that lists the IBAN keeps it. *)
IdentifyByIban(iban) ==
    LET owners == {k \in DOMAIN Master : iban \in Master[k].ibans}
    IN  IF iban = NoText \/ owners = {} THEN NoCustomer ELSE Master[Min(owners)].id

(* A name several customers carry identifies nobody. *)
IdentifyByName(name) ==
    LET owners == {Master[k].id : k \in {k \in DOMAIN Master : name \in Master[k].names}}
    IN  IF name = NoText \/ Cardinality(owners) # 1
        THEN NoCustomer
        ELSE CHOOSE c \in owners : TRUE

ByIban(l) == IdentifyByIban(Line[l].iban)

ByName(l) == IdentifyByName(Line[l].remitter)

ByIbanOrName(l) == IF ByIban(l) # NoCustomer THEN ByIban(l) ELSE ByName(l)

IsCredit(l) == Line[l].amount > 0

-----------------------------------------------------------------------------
(* Rules on references: the scan looks at one available invoice at a time. *)

(* One cell of the table, from the cells above and to the left.            *)
Distance(a, b, d, m, n) ==
    IF m = 0 THEN n
    ELSE IF n = 0 THEN m
    ELSE Min({d[<<m - 1, n>>] + 1,
              d[<<m, n - 1>>] + 1,
              d[<<m - 1, n - 1>>] + (IF a[m] = b[n] THEN 0 ELSE 1)})

Levenshtein(a, b) ==
    LET d[p \in (0..Len(a)) \X (0..Len(b))] == Distance(a, b, d, p[1], p[2])
    IN  d[<<Len(a), Len(b)>>]

AmountDifference(i, l) == Abs(Invoice[i].amount - Line[l].amount)

AmountOk(i, l) == AmountDifference(i, l) <= Tolerance

NamedBy(i, l) == Invoice[i].ref \in Line[l].tokens

NearestDistance(i, l) == Min({Levenshtein(t, Invoice[i].ref) : t \in Line[l].tokens})

ExactCandidates(i, l) ==
    {Candidate("A1", {k}, AmountDifference(k, l), 0) :
        k \in {k \in {i} : NamedBy(k, l) /\ AmountOk(k, l)}}

FuzzyCandidates(i, l) ==
    {Candidate("A2", {k}, AmountDifference(k, l), NearestDistance(k, l)) :
        k \in {k \in {i} : /\ ~NamedBy(k, l)
                           /\ Line[l].tokens # {}
                           /\ NearestDistance(k, l) <= FuzzyMaxDistance
                           /\ AmountOk(k, l)}}

ReferenceCandidates(i, l) == ExactCandidates(i, l) \cup FuzzyCandidates(i, l)

-----------------------------------------------------------------------------
(* Rules on customers: available is the set of one customer's open and     *)
(* unconsumed invoices.                                                    *)

RuleB1(l, available) ==
    {Candidate("B1", {i}, AmountDifference(i, l), 0) :
        i \in {i \in available : AmountOk(i, l)}}

RuleB2(l, available) ==
    {Candidate("B2", {i}, AmountDifference(i, l), 0) :
        i \in {i \in available : /\ AmountOk(i, l)
                                 /\ Abs(Invoice[i].due - Line[l].booking) <= B2Window}}

RuleB3(l, available) ==
    {Candidate("B3", C, Abs(BatchTotal(C) - Line[l].amount), 0) :
        C \in FindBatch(available, Line[l].amount)}

CustomerRules == <<"B1", "B2", "B3">>

CustomerFor(rule, l) ==
    CASE rule = "B1" -> ByIban(l)
      [] rule = "B2" -> ByName(l)
      [] rule = "B3" -> ByIbanOrName(l)

CustomerCandidates(rule, l, available) ==
    CASE rule = "B1" -> RuleB1(l, available)
      [] rule = "B2" -> RuleB2(l, available)
      [] rule = "B3" -> RuleB3(l, available)

-----------------------------------------------------------------------------
(* The winner: scoring.py's candidate_key, compared lexicographically. *)

RulePriority == [A1 |-> 0, A2 |-> 1, B1 |-> 2, B2 |-> 3, B3 |-> 4]

Key(c) ==
    LET first == Oldest(c.invoices)
    IN  <<RulePriority[c.rule], c.difference, c.distance, Invoice[first].due, first>>

KeyBefore(k, m) ==
    \E n \in 1..5 : k[n] < m[n] /\ \A p \in 1..(n - 1) : k[p] = m[p]

IsBest(c, candidates) ==
    c \in candidates /\ \A d \in candidates \ {c} : KeyBefore(Key(c), Key(d))

=============================================================================
