------------------------------ MODULE MCShipped ------------------------------
(***************************************************************************)
(* Policy p has two versions that meet on day 400, policy q one that ends  *)
(* on day 420.  Claim 1 was paid in the history's batch 0 under an older,  *)
(* larger deductible; claim 2 is received on the day the versions meet;    *)
(* claims 3 and 5 when no version is in force; claim 4, which follows claim*)
(* 3 in its batch, has no depreciation rule.  Claim 5 has a record of the  *)
(* history in its own batch.                                               *)
(***************************************************************************)
EXTENDS ShippedProperties, TLC

CONSTANTS j1, j2, none, open

Item(cat, rcv, purchase) == [category |-> cat, rcv |-> rcv, purchase |-> purchase]

Loss(p, b, loss, received, items) ==
    [policy |-> p, batch |-> b, loss |-> loss, fnol |-> loss + 4, received |-> received, items |-> items]

MCClaim ==
    <<Loss("p", 1, 390, 410, <<Item("sofa", 1000, 0), Item("gold", 505, 385)>>),
      Loss("p", 1, 398, 400, <<Item("gold", 700, 380), Item("gold", 650, 380)>>),
      Loss("q", 2, 401, 431, <<Item("sofa", 900, 0), Item("sofa", 800, -11000)>>),
      Loss("p", 2, 440, 460, <<Item("boat", 900, 0)>>),
      Loss("q", 0, 370, 421, <<Item("sofa", 3005, 0)>>)>>

MCClaimIds == DOMAIN MCClaim

Version(id, from, to, limit, deductible, sublimits) ==
    [id |-> id, from |-> from, to |-> to, contentsLimit |-> limit, flatDeductible |-> deductible,
     sublimits |-> sublimits]

MCPolicy ==
    [p |-> [state |-> "business", versions |->
              <<Version("p-A", 35, 400, 900, 150, "gold" :> 600),
                Version("p-B", 400, open, 800, 100, "gold" :> 400)>>],
     q |-> [state |-> "calendar", versions |->
              <<Version("q-A", 0, 420, 2000, 50, "sofa" :> 5000)>>]]

MCSchedule == [sofa |-> 125, gold |-> 0]

Rule(days, dayType, rate) == [deadlineDays |-> days, dayType |-> dayType, annualRatePct |-> rate]

MCPromptPay == [business |-> Rule(5, "business", 18), calendar |-> Rule(30, "calendar", 12)]

MCHistory ==
    {[claim |-> 1, batch |-> 0, paymentDate |-> 380, version |-> "p-A", indemnity |-> 300,
      interest |-> 0, deductible |-> 150],
     [claim |-> 5, batch |-> 0, paymentDate |-> 425, version |-> "q-A", indemnity |-> 100,
      interest |-> 0, deductible |-> 20]}

MCRunBatches == {0, 1, 2}

=============================================================================
