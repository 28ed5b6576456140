------------------------------ MODULE MCClaims ------------------------------
(***************************************************************************)
(* Three occurrences spread over several months and others beside them.    *)
(* "fire" (limit 9, deductible 3, gold up to 2): two claims in batch 1, the *)
(* higher id received first and smaller than the deductible; one more in   *)
(* batches 2 and 4.  "hail": a percentage deductible, and a limit that its *)
(* early payment, received in month 0 and recorded in month 5 of the       *)
(* history, nearly used up.  "lapsed": the loss falls on the day the       *)
(* policy ended.  "flood": no depreciation rule, so batch 4 raises.        *)
(* "storm" belongs to month 5, the month of the history's record.          *)
(***************************************************************************)
EXTENDS ClaimsProperties, Sequences, TLC

CONSTANTS j1, j2, none, noDate, noAmount

Item(cat, acv) == [category |-> cat, acv |-> acv]

(* Policy p is of a state that allows 30 days and charges interest (the    *)
(* rate is scaled up as the amounts are scaled down), q of one that        *)
(* charges none; the lapsed claim has no proof of loss.                    *)
Loss(o, p, peril, loss, received, b, items) ==
    [occurrence |-> o, policy |-> p, peril |-> peril, loss |-> loss,
     received |-> received, batch |-> b, items |-> items,
     deadline |-> IF o = "lapsed" THEN noDate ELSE received + 30,
     rate |-> IF p = "p" THEN 1800 ELSE 0]

MCClaim ==
    <<Loss("fire", "p", "fire", 10, 14, 1, <<Item("gold", 1), Item("gold", 2), Item("sofa", 3)>>),
      Loss("fire", "p", "fire", 10, 12, 1, <<Item("gold", 1), Item("sofa", 1)>>),
      Loss("fire", "p", "fire", 10, 40, 2, <<Item("sofa", 4), Item("gold", 1)>>),
      Loss("hail", "q", "hail", 5, 8, 0, <<Item("roof", 9)>>),
      Loss("hail", "q", "hail", 5, 45, 2, <<Item("roof", 4)>>),
      Loss("lapsed", "q", "fire", 30, 46, 2, <<Item("sofa", 5)>>),
      Loss("fire", "p", "fire", 10, 71, 4, <<Item("sofa", 5)>>),
      Loss("flood", "p", "flood", 12, 101, 4, <<Item("boat", 5)>>),
      Loss("storm", "p", "storm", 10, 155, 5, <<Item("sofa", 4)>>)>>

MCClaimIds == DOMAIN MCClaim

Version(id, from, to, limit, deductible, windHail, sublimits) ==
    [id |-> id, from |-> from, to |-> to, limit |-> limit, deductible |-> deductible,
     windHail |-> windHail, sublimits |-> sublimits]

MCVersions ==
    [p |-> <<Version("p-A", 0, 10, 5, 1, noAmount, <<>>),
             Version("p-B", 10, noDate, 9, 3, 8, [gold |-> 2])>>,
     q |-> <<Version("q-A", 0, 30, 6, 1, 2, [roof |-> 20])>>]

(* Paid in month 5 although received in month 0. *)
MCHistory == {Payment(4, 5, "q-A", 5, 2, [roof |-> 7])}

MCHistoryCharges == {Charge(4, 5, 170, 0)}

MCDefective == {8}

(* Months after the history's. *)
MCRunBatches == {1, 2, 4}

(* Batch 1 is paid once in time for the later of its claims and once late. *)
MCAsOfs == 1 :> {43, 60} @@ 2 :> {90} @@ 4 :> {130} @@ 5 :> {190}

(* A month of the history. *)
MCHistoryBatches == {5}

(* The history is one the theorems of ClaimsProofs speak of. *)
ASSUME HistoryIsMeant ==
    /\ HistoryWithinTerms /\ HistorySettled
    /\ \A p \in History : p.batch \notin MCRunBatches

=============================================================================
