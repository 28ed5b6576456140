----------------------------- MODULE ReconProofs -----------------------------
(***************************************************************************)
(* Theorems about the reconciliation job, for every ledger, every set of   *)
(* statements and every bound.  The first part holds for any number of     *)
(* runners on one ledger; the second for one runner, killed and relaunched *)
(* at will: two that read one open invoice would both post it.             *)
(***************************************************************************)
EXTENDS ReconProperties, SumProofs

(***************************************************************************)
(* The shipped batch search returns invoices of the list it was given.     *)
(***************************************************************************)
LEMMA FindBatchShown ==
    ASSUME NEW S, NEW amount, NEW C \in FindBatch(S, amount)
    PROVE  C \subseteq S /\ C # {}
<1>1. C \in {D \in SUBSET S : PaysFor(D, amount)}
  BY DEF FindBatch
<1>2. Cardinality(C) \in BatchMinRun..BatchMaxRun
  BY <1>1 DEF PaysFor
<1>3. C # {}
  BY <1>2, BatchAssumption, FS_EmptySet
<1> QED BY <1>1, <1>3

(* One available invoice yields candidates that consist of it. *)
LEMMA ReferenceCandidatesShown ==
    ASSUME NEW i, NEW l, NEW c \in ReferenceCandidates(i, l)
    PROVE  IsProposal(c, {i})
<1>1. CASE c \in ExactCandidates(i, l)
  BY <1>1 DEF ExactCandidates, Candidate, IsProposal, Rules
<1>2. CASE c \in FuzzyCandidates(i, l)
  BY <1>2 DEF FuzzyCandidates, Candidate, IsProposal, Rules
<1> QED BY <1>1, <1>2 DEF ReferenceCandidates

(* A customer's rule proposes invoices of the list it was given. *)
LEMMA CustomerCandidatesShown ==
    ASSUME NEW rule \in {"B1", "B2", "B3"}, NEW l, NEW S,
           NEW c \in CustomerCandidates(rule, l, S)
    PROVE  IsProposal(c, S)
<1>1. CASE rule = "B1"
  <2>1. c \in RuleB1(l, S)
    BY <1>1 DEF CustomerCandidates
  <2> QED BY <2>1 DEF RuleB1, Candidate, IsProposal, Rules
<1>2. CASE rule = "B2"
  <2>1. c \in RuleB2(l, S)
    BY <1>2 DEF CustomerCandidates
  <2> QED BY <2>1 DEF RuleB2, Candidate, IsProposal, Rules
<1>3. CASE rule = "B3"
  <2>1. c \in RuleB3(l, S)
    BY <1>3 DEF CustomerCandidates
  <2>2. PICK C \in FindBatch(S, Line[l].amount) :
            c = Candidate("B3", C, Abs(BatchTotal(C) - Line[l].amount), 0)
    BY <2>1 DEF RuleB3
  <2>3. C \subseteq S /\ C # {}
    BY FindBatchShown
  <2> QED BY <2>2, <2>3 DEF Candidate, IsProposal, Rules
<1> QED BY <1>1, <1>2, <1>3

-----------------------------------------------------------------------------

(***************************************************************************)
(* What the place of a runner says of its memory; inductive with TypeOK.   *)
(***************************************************************************)
LineInHand ==
    \A r \in Runs :
        /\ pc[r] \in {"references", "customers", "decide", "bankLine", "mark"}
              => line[r] \in LineIds
        /\ pc[r] \in {"customers", "openFile", "closeFile"} => step[r] \in 1..3
        /\ pc[r] \in {"bankLine", "mark"} => result[r] \in Results /\ result[r].line = line[r]
        /\ pc[r] = "mark" => unmarked[r] \subseteq result[r].invoices
        /\ unmarked[r] # {} => pc[r] = "mark"

Sound == TypeOK /\ LineInHand

LEMMA InitSound == Init => Sound
<1> SUFFICES ASSUME Init PROVE Sound
  OBVIOUS
<1> USE DEF Init
<1>1. TypeOK
  BY MaxLaunchesAssumption
     DEF TypeOK, Book!Init, Places, Ended, NoResult, Unmatched
<1>2. LineInHand
  BY DEF LineInHand
<1> QED BY <1>1, <1>2 DEF Sound

LEMMA UnmatchedTyped ==
    ASSUME NEW l \in LineIds, NEW reason \in Reasons
    PROVE  Unmatched(l, reason) \in Results /\ Unmatched(l, reason).line = l
BY DEF Results, Unmatched, IsMatched, Reasons

LEMMA MatchedTyped ==
    ASSUME NEW l \in LineIds, NEW c, IsProposal(c, InvoiceIds)
    PROVE  LET res == Matched(l, c.rule, c.invoices)
           IN  res \in Results /\ IsMatched(res) /\ res.line = l /\ res.invoices = c.invoices
BY DEF Results, Matched, IsMatched, IsProposal, Rules

(* A runner that ends, well or not, leaves nothing behind. *)
LEMMA ForgetSound ==
    ASSUME Sound, NEW r \in Runs, NEW end \in Ended,
           pc' = [pc EXCEPT ![r] = end], Forget(r), UNCHANGED <<ledger, history>>
    PROVE  Sound'
<1> USE DEF Sound, Forget, ledger, history
<1>1. TypeOK'
  BY DEF TypeOK, Places
<1>2. LineInHand'
  BY DEF LineInHand, TypeOK, Ended
<1> QED BY <1>1, <1>2

(* An action of runner r keeps Sound; one step per action. *)
LEMMA StepSound ==
    ASSUME Sound, NEW r \in Runs, RunStep(r)
    PROVE  Sound'
<1> USE DEF Sound, vars, ledger, memory, scan, history
<1>1. CASE TakeCredit(r)
  BY <1>1 DEF TakeCredit, Take, TypeOK, LineInHand, Places
<1>2. CASE TakeDebit(r)
  <2>1. PICK l \in todo[r] : Take(r, l) /\ result' = [result EXCEPT ![r] = Unmatched(l, "DEBIT")]
    BY <1>2 DEF TakeDebit
  <2>2. l \in LineIds
    BY DEF TypeOK
  <2>3. Unmatched(l, "DEBIT") \in Results /\ Unmatched(l, "DEBIT").line = l
    BY <2>2, UnmatchedTyped DEF Reasons
  <2>4. /\ pc' = [pc EXCEPT ![r] = "bankLine"]
        /\ line' = [line EXCEPT ![r] = l]
        /\ todo' = [todo EXCEPT ![r] = @ \ {l}]
        /\ UNCHANGED <<ledger, scan, consumed, unmarked, results, files, history>>
        /\ pc[r] = "nextLine"
    BY <1>2, <2>1 DEF TakeDebit, Take
  <2> HIDE DEF Unmatched
  <2>5. TypeOK'
    BY <2>1, <2>2, <2>3, <2>4 DEF TypeOK, Places
  <2>6. LineInHand'
    BY <2>1, <2>2, <2>3, <2>4 DEF LineInHand, TypeOK
  <2> QED BY <2>5, <2>6
<1>3. CASE FetchAvailable(r)
  <2>1. PICK i \in unread[r] :
            /\ Fetch(r, i)
            /\ candidates' = [candidates EXCEPT ![r] = @ \cup ReferenceCandidates(i, line[r])]
    BY <1>3 DEF FetchAvailable
  <2>2. i \in InvoiceIds
    BY DEF TypeOK
  <2>3. \A c \in ReferenceCandidates(i, line[r]) : IsProposal(c, InvoiceIds)
    BY <2>2, ReferenceCandidatesShown DEF IsProposal
  <2> QED BY <1>3, <2>1, <2>3 DEF FetchAvailable, Fetch, TypeOK, LineInHand
<1>4. CASE FetchUnavailable(r)
  <2>1. PICK i \in unread[r] :
            /\ Fetch(r, i)
            /\ unavailable' = [unavailable EXCEPT ![r] = @ \/ NamedBy(i, line[r])]
    BY <1>4 DEF FetchUnavailable
  <2>2. (unavailable[r] \/ NamedBy(i, line[r])) \in BOOLEAN
    OBVIOUS
  <2> QED BY <1>4, <2>1, <2>2 DEF FetchUnavailable, Fetch, TypeOK, LineInHand
<1>5. CASE EndScan(r)
  BY <1>5 DEF EndScan, TypeOK, LineInHand, Places
<1>6. CASE ReadCustomer(r)
  <2>1. step[r] \in 1..3
    BY <1>6 DEF ReadCustomer, LineInHand
  <2>2. /\ CustomerRules[step[r]] \in {"B1", "B2", "B3"}
        /\ Len(CustomerRules) = 3
    BY <2>1 DEF CustomerRules
  <2>3. \A S \in SUBSET InvoiceIds : 
          \A c \in CustomerCandidates(CustomerRules[step[r]], line[r], S) :
            IsProposal(c, InvoiceIds)
    BY <2>2, CustomerCandidatesShown DEF IsProposal
  <2> QED BY <1>6, <2>1, <2>2, <2>3 DEF ReadCustomer, TypeOK, LineInHand, Places
<1>7. CASE DecideMatch(r)
  <2>1. PICK c \in candidates[r] :
            /\ result' = [result EXCEPT ![r] = Matched(line[r], c.rule, c.invoices)]
            /\ consumed' = [consumed EXCEPT ![r] = @ \cup c.invoices]
    BY <1>7 DEF DecideMatch
  <2>2. IsProposal(c, InvoiceIds) /\ line[r] \in LineIds
    BY <1>7 DEF DecideMatch, TypeOK, LineInHand
  <2>3. /\ Matched(line[r], c.rule, c.invoices) \in Results
        /\ Matched(line[r], c.rule, c.invoices).line = line[r]
        /\ c.invoices \subseteq InvoiceIds
    BY <2>2, MatchedTyped DEF IsProposal
  <2>4. /\ pc[r] = "decide"
        /\ pc' = [pc EXCEPT ![r] = "bankLine"]
        /\ UNCHANGED <<ledger, todo, line, scan, unmarked, results, files, history>>
    BY <1>7 DEF DecideMatch
  <2>5. TypeOK'
    BY <2>1, <2>3, <2>4 DEF TypeOK, Places
  <2>6. LineInHand'
    BY <2>1, <2>2, <2>3, <2>4 DEF LineInHand, TypeOK
  <2> QED BY <2>5, <2>6
<1>8. CASE DecideNoMatch(r)
  <2> DEFINE res == Unmatched(line[r], IF unavailable[r] THEN "INVOICE_CONSUMED"
                                                         ELSE "NO_CANDIDATE")
  <2>1. line[r] \in LineIds
    BY <1>8 DEF DecideNoMatch, LineInHand
  <2>2. res \in Results /\ res.line = line[r]
    BY <2>1, UnmatchedTyped DEF Reasons
  <2>3. result' = [result EXCEPT ![r] = res]
    BY <1>8 DEF DecideNoMatch
  <2>4. /\ pc[r] = "decide"
        /\ pc' = [pc EXCEPT ![r] = "bankLine"]
        /\ UNCHANGED <<ledger, todo, line, scan, consumed, unmarked, results, files, history>>
    BY <1>8 DEF DecideNoMatch
  <2> HIDE DEF res
  <2>5. TypeOK'
    BY <2>2, <2>3, <2>4 DEF TypeOK, Places
  <2>6. LineInHand'
    BY <2>1, <2>2, <2>3, <2>4 DEF LineInHand, TypeOK
  <2> QED BY <2>5, <2>6
<1>9. CASE InsertBankLine(r)
  <2>1. line[r] \in LineIds /\ result[r] \in Results
    BY <1>9 DEF InsertBankLine, LineInHand
  <2>2. result[r].invoices \subseteq InvoiceIds
    BY <2>1 DEF Results
  <2> QED BY <1>9, <2>1, <2>2 DEF InsertBankLine, TypeOK, LineInHand, Places
<1>10. CASE MarkInvoice(r)
  <2>1. PICK i \in unmarked[r] :
            /\ status' = [status EXCEPT ![i] = "paid"]
            /\ matchResults' = Upsert(matchResults, line[r], i, result[r].rule)
            /\ unmarked' = [unmarked EXCEPT ![r] = @ \ {i}]
    BY <1>10 DEF MarkInvoice
  <2>2. line[r] \in LineIds /\ result[r] \in Results /\ i \in result[r].invoices
    BY <1>10, <2>1 DEF MarkInvoice, LineInHand
  <2>3. result[r].rule \in Rules /\ i \in InvoiceIds
    BY <2>2 DEF Results, IsMatched
  <2>4. matchResults' \subseteq Rows
    BY <2>1, <2>2, <2>3 DEF Upsert, Book!Row, Rows, TypeOK
  <2> QED BY <1>10, <2>1, <2>4 DEF MarkInvoice, TypeOK, LineInHand, Places
<1>11. CASE EndLine(r)
  BY <1>11 DEF EndLine, TypeOK, LineInHand, Places
<1>12. CASE EndMatching(r)
  BY <1>12 DEF EndMatching, TypeOK, LineInHand, Places
<1>13. CASE OpenFile(r)
  BY <1>13 DEF OpenFile, TypeOK, LineInHand, Places
<1>14. CASE CloseFile(r)
  <2>1. Len(ReportFiles) = 3
    BY DEF ReportFiles
  <2>2. CASE step[r] < 3
    <3>1. /\ pc' = [pc EXCEPT ![r] = "openFile"]
          /\ step' = [step EXCEPT ![r] = @ + 1]
          /\ pc[r] = "closeFile"
          /\ UNCHANGED <<ledger, history, todo, line, unread, candidates, unavailable,
                         consumed, result, unmarked, results>>
      BY <1>14, <2>1, <2>2 DEF CloseFile
    <3> QED BY <3>1, <2>2 DEF TypeOK, LineInHand, Places
  <2>3. CASE ~(step[r] < 3)
    <3>1. /\ pc' = [pc EXCEPT ![r] = "done"]
          /\ Forget(r)
          /\ UNCHANGED <<ledger, history>>
      BY <1>14, <2>1, <2>3 DEF CloseFile
    <3> QED BY <3>1, ForgetSound DEF Ended
  <2> QED BY <2>2, <2>3
<1> QED BY <1>1, <1>2, <1>3, <1>4, <1>5, <1>6, <1>7, <1>8, <1>9, <1>10, <1>11, <1>12,
           <1>13, <1>14 DEF RunStep

(* Launching and killing keep Sound; so does a step that changes nothing. *)
LEMMA NextSound == Sound /\ [Next]_vars => Sound'
<1> SUFFICES ASSUME Sound, [Next]_vars PROVE Sound'
  OBVIOUS
<1>1. ASSUME NEW r \in Runs, NEW s \in Statements, Launch(r, s)
      PROVE  Sound'
  <2>1. LinesOf(s) \subseteq LineIds
    BY <1>1, StatementsAssumption DEF Launch, WellFormed, LinesOf
  <2>2. launches[r] + 1 \in 0..MaxLaunches
    BY <1>1, MaxLaunchesAssumption DEF Launch, NewLaunch, Sound, TypeOK
  <2>3. /\ pc' = [pc EXCEPT ![r] = "nextLine"]
        /\ todo' = [todo EXCEPT ![r] = LinesOf(s)]
        /\ launches' = [launches EXCEPT ![r] = @ + 1]
        /\ statement' = [statement EXCEPT ![r] = LinesOf(s)]
        /\ rowsAtLaunch' = [rowsAtLaunch EXCEPT ![r] = matchResults]
        /\ UNCHANGED <<ledger, line, scan, consumed, result, unmarked, results, files>>
        /\ pc[r] \in Ended
    BY <1>1 DEF Launch, NewLaunch, Running
  <2>4. TypeOK'
    BY <2>1, <2>2, <2>3 DEF Sound, TypeOK, Places, ledger, scan
  <2>5. LineInHand'
    BY <2>3 DEF Sound, TypeOK, LineInHand, Ended, ledger, scan
  <2> QED BY <2>4, <2>5 DEF Sound
<1>2. ASSUME NEW r \in Runs, NEW s \in Statements, Reject(r, s)
      PROVE  Sound'
  <2>1. LinesOf(s) \subseteq LineIds \cup {BadRow}
    BY StatementsAssumption DEF LinesOf
  <2>2. launches[r] + 1 \in 0..MaxLaunches
    BY <1>2, MaxLaunchesAssumption DEF Reject, NewLaunch, Sound, TypeOK
  <2>3. /\ pc' = [pc EXCEPT ![r] = "rejected"]
        /\ launches' = [launches EXCEPT ![r] = @ + 1]
        /\ statement' = [statement EXCEPT ![r] = LinesOf(s)]
        /\ rowsAtLaunch' = [rowsAtLaunch EXCEPT ![r] = matchResults]
        /\ UNCHANGED <<ledger, memory, files>>
        /\ pc[r] \in Ended
    BY <1>2 DEF Reject, NewLaunch, Running
  <2>4. TypeOK'
    BY <2>1, <2>2, <2>3 DEF Sound, TypeOK, Places, Ended, ledger, memory, scan
  <2>5. LineInHand'
    BY <2>3 DEF Sound, TypeOK, LineInHand, Ended, ledger, memory, scan
  <2> QED BY <2>4, <2>5 DEF Sound
<1>3. ASSUME NEW r \in Runs, Kill(r)
      PROVE  Sound'
  BY <1>3, ForgetSound DEF Kill, Ended
<1>4. CASE UNCHANGED vars
  BY <1>4 DEF Sound, TypeOK, LineInHand, vars, ledger, memory, scan, history
<1> QED BY <1>1, <1>2, <1>3, <1>4, StepSound DEF Next

LEMMA AlwaysSound == Spec => []Sound
BY InitSound, NextSound, PTL DEF Spec

(***************************************************************************)
(* The memory of every runner and the ledger are well typed in every       *)
(* reachable state, however many runners, kills and relaunches.            *)
(***************************************************************************)
THEOREM TypesHold == Spec => []TypeOK
<1>1. Sound => TypeOK
  BY DEF Sound
<1> QED BY AlwaysSound, <1>1, PTL

-----------------------------------------------------------------------------
(* The ledger under any number of runners. *)

HasRow(l, i) == \E row \in matchResults : row.line = l /\ row.invoice = i

LEMMA UpsertRows ==
    ASSUME NEW rows, NEW l, NEW i, NEW rule
    PROVE  LET new == Upsert(rows, l, i, rule)
           IN  /\ {row.invoice : row \in new} = {row.invoice : row \in rows} \cup {i}
               /\ \A row \in new : row \in rows \/ (row.line = l /\ row.invoice = i)
               /\ \E row \in new : row.line = l /\ row.invoice = i
               /\ \A k, m : (\E row \in rows : row.line = k /\ row.invoice = m)
                               => \E row \in new : row.line = k /\ row.invoice = m
<1> DEFINE new == Upsert(rows, l, i, rule)
           posted == Book!Row(l, i, rule)
<1>1. posted \in new /\ posted.line = l /\ posted.invoice = i
  BY DEF Upsert, Book!Row
<1>2. \A row : row \in new <=> \/ row \in rows /\ (row.line # l \/ row.invoice # i)
                               \/ row = posted
  BY DEF Upsert
<1> HIDE DEF new, posted
<1>3. {row.invoice : row \in new} = {row.invoice : row \in rows} \cup {i}
  <2>1. ASSUME NEW k \in {row.invoice : row \in new}
        PROVE  k \in {row.invoice : row \in rows} \cup {i}
    BY <1>1, <1>2
  <2>2. ASSUME NEW row \in rows
        PROVE  row.invoice \in {other.invoice : other \in new}
    <3>1. CASE row \in new
      BY <3>1
    <3>2. CASE row \notin new
      BY <1>1, <1>2, <3>2
    <3> QED BY <3>1, <3>2
  <2>3. i \in {row.invoice : row \in new}
    BY <1>1
  <2>4. {row.invoice : row \in rows} \subseteq {row.invoice : row \in new}
    BY <2>2
  <2> QED BY <2>1, <2>3, <2>4
<1>4. \A row \in new : row \in rows \/ (row.line = l /\ row.invoice = i)
  BY <1>1, <1>2
<1>5. \A k, m : (\E row \in rows : row.line = k /\ row.invoice = m)
                   => \E row \in new : row.line = k /\ row.invoice = m
  BY <1>1, <1>2
<1> QED BY <1>1, <1>3, <1>4, <1>5 DEF new

(* What one pass of mark_matched does to the ledger. *)
LEMMA MarkEffect ==
    ASSUME Sound, NEW r \in Runs, MarkInvoice(r)
    PROVE  \E i \in unmarked[r] :
               /\ i \in InvoiceIds
               /\ i \in result[r].invoices
               /\ result[r].line = line[r]
               /\ result[r].rule \in Rules
               /\ line[r] \in LineIds
               /\ status' = [status EXCEPT ![i] = "paid"]
               /\ matchResults' = Upsert(matchResults, line[r], i, result[r].rule)
               /\ unmarked' = [unmarked EXCEPT ![r] = @ \ {i}]
               /\ UNCHANGED <<bankLines, pc, line, result, results>>
               /\ pc[r] = "mark"
<1>1. PICK i \in unmarked[r] :
          /\ status' = [status EXCEPT ![i] = "paid"]
          /\ matchResults' = Upsert(matchResults, line[r], i, result[r].rule)
          /\ unmarked' = [unmarked EXCEPT ![r] = @ \ {i}]
  BY DEF MarkInvoice
<1>2. pc[r] = "mark" /\ UNCHANGED <<bankLines, pc, line, result, results>>
  BY DEF MarkInvoice
<1>3. line[r] \in LineIds /\ result[r] \in Results /\ result[r].line = line[r]
      /\ i \in result[r].invoices
  BY <1>2 DEF Sound, LineInHand
<1>4. i \in InvoiceIds /\ result[r].rule \in Rules
  BY <1>3 DEF Results, IsMatched
<1> QED BY <1>1, <1>2, <1>3, <1>4

(* The three actions that touch the ledger or the results kept, and what   *)
(* all the others leave alone.                                             *)
LEMMA OtherSteps ==
    ASSUME Sound, [Next]_vars
    PROVE  \/ \E r \in Runs : InsertBankLine(r) \/ MarkInvoice(r) \/ EndLine(r)
           \/ /\ UNCHANGED ledger
              /\ \A q \in Runs :
                     /\ results'[q] \subseteq results[q]
                     /\ pc'[q] = "mark" => /\ pc[q] = "mark"
                                           /\ UNCHANGED <<line[q], result[q], unmarked[q]>>
<1> DEFINE Quiet == /\ UNCHANGED ledger
                    /\ \A q \in Runs :
                           /\ results'[q] \subseteq results[q]
                           /\ pc'[q] = "mark" =>
                                  /\ pc[q] = "mark"
                                  /\ UNCHANGED <<line[q], result[q], unmarked[q]>>
<1> USE DEF Sound, vars, ledger, memory, scan, history
<1>1. ASSUME NEW r \in Runs, NEW s \in Statements, Launch(r, s) \/ Reject(r, s)
      PROVE  Quiet
  BY <1>1 DEF Launch, Reject, TypeOK
<1>2. ASSUME NEW r \in Runs, Kill(r)
      PROVE  Quiet
  BY <1>2 DEF Kill, Forget, TypeOK
<1>3. ASSUME NEW r \in Runs, TakeCredit(r) \/ TakeDebit(r)
      PROVE  Quiet
  <2>1. CASE TakeCredit(r)
    BY <2>1 DEF TakeCredit, Take, TypeOK
  <2>2. CASE TakeDebit(r)
    <3>1. /\ pc' = [pc EXCEPT ![r] = "bankLine"]
          /\ UNCHANGED <<ledger, scan, unmarked, results>>
          /\ \A q \in Runs \ {r} : line'[q] = line[q] /\ result'[q] = result[q]
      BY <2>2 DEF TakeDebit, Take, TypeOK
    <3> QED BY <3>1 DEF TypeOK
  <2> QED BY <1>3, <2>1, <2>2
<1>4. ASSUME NEW r \in Runs, FetchAvailable(r) \/ FetchUnavailable(r)
      PROVE  Quiet
  BY <1>4 DEF FetchAvailable, FetchUnavailable, Fetch, TypeOK
<1>5. ASSUME NEW r \in Runs, EndScan(r) \/ ReadCustomer(r)
      PROVE  Quiet
  BY <1>5 DEF EndScan, ReadCustomer, TypeOK
<1>6. ASSUME NEW r \in Runs, DecideMatch(r) \/ DecideNoMatch(r)
      PROVE  Quiet
  <2>1. /\ pc' = [pc EXCEPT ![r] = "bankLine"]
        /\ UNCHANGED <<ledger, line, unmarked, results>>
        /\ \A q \in Runs \ {r} : result'[q] = result[q]
    BY <1>6 DEF DecideMatch, DecideNoMatch, TypeOK
  <2> QED BY <2>1 DEF TypeOK
<1>7. ASSUME NEW r \in Runs, EndMatching(r) \/ OpenFile(r)
      PROVE  Quiet
  BY <1>7 DEF EndMatching, OpenFile, TypeOK
<1>8. ASSUME NEW r \in Runs, CloseFile(r)
      PROVE  Quiet
  BY <1>8 DEF CloseFile, Forget, TypeOK
<1>9. ASSUME UNCHANGED vars
      PROVE  Quiet
  BY <1>9
<1> HIDE DEF Quiet
<1>10. ASSUME NEW r \in Runs, RunStep(r)
       PROVE  Quiet \/ InsertBankLine(r) \/ MarkInvoice(r) \/ EndLine(r)
  BY <1>3, <1>4, <1>5, <1>6, <1>7, <1>8, <1>10 DEF RunStep
<1>11. ASSUME Next
       PROVE  Quiet \/ \E r \in Runs : InsertBankLine(r) \/ MarkInvoice(r) \/ EndLine(r)
  <2>1. PICK r \in Runs : \/ \E t \in Statements : Launch(r, t) \/ Reject(r, t)
                          \/ RunStep(r)
                          \/ Kill(r)
    BY <1>11 DEF Next
  <2> QED BY <1>1, <1>2, <1>10, <2>1
<1> QED BY <1>9, <1>11 DEF Quiet

LEMMA PaidStep == Sound /\ PaidIffRecorded /\ [Next]_vars => PaidIffRecorded'
<1> SUFFICES ASSUME Sound, PaidIffRecorded, [Next]_vars PROVE PaidIffRecorded'
  OBVIOUS
<1>1. ASSUME NEW r \in Runs, MarkInvoice(r)
      PROVE  PaidIffRecorded'
  <2>1. PICK i \in InvoiceIds :
            /\ status' = [status EXCEPT ![i] = "paid"]
            /\ matchResults' = Upsert(matchResults, line[r], i, result[r].rule)
    BY <1>1, MarkEffect
  <2>2. PaidInvoices' = PaidInvoices \cup {i}
    BY <2>1 DEF PaidInvoices, Sound, TypeOK
  <2>3. {row.invoice : row \in matchResults'} = {row.invoice : row \in matchResults} \cup {i}
    BY <2>1, UpsertRows
  <2> QED BY <2>2, <2>3 DEF PaidIffRecorded
<1>2. ASSUME NEW r \in Runs, InsertBankLine(r) \/ EndLine(r)
      PROVE  PaidIffRecorded'
  BY <1>2 DEF InsertBankLine, EndLine, PaidIffRecorded, PaidInvoices, ledger
<1>3. CASE UNCHANGED ledger
  BY <1>3 DEF PaidIffRecorded, PaidInvoices, ledger
<1> QED BY <1>1, <1>2, <1>3, OtherSteps

(***************************************************************************)
(* However many runners race and wherever they are killed, no reader finds *)
(* an invoice paid that match_results does not account for, or the other   *)
(* way round.                                                              *)
(***************************************************************************)
THEOREM PaidAccountedFor == Spec => []PaidIffRecorded
<1>1. Init => PaidIffRecorded
  BY PaidAtImportAssumption DEF Init, Book!Init, PaidIffRecorded, PaidInvoices
<1> QED BY <1>1, PaidStep, AlwaysSound, PTL DEF Spec

(***************************************************************************)
(* Write-through, with the line in hand: posted are those of its invoices  *)
(* that are not unmarked any more.                                         *)
(***************************************************************************)
WrittenThrough ==
    /\ PostedLinesRecorded
    /\ ProcessedLinesPersisted
    /\ \A r \in Runs : pc[r] = "mark" =>
           /\ line[r] \in bankLines
           /\ \A i \in result[r].invoices \ unmarked[r] : HasRow(line[r], i)

LEMMA WrittenThroughStep == Sound /\ WrittenThrough /\ [Next]_vars => WrittenThrough'
<1> SUFFICES ASSUME Sound, WrittenThrough, [Next]_vars PROVE WrittenThrough'
  OBVIOUS
<1>1. ASSUME NEW r \in Runs, InsertBankLine(r)
      PROVE  WrittenThrough'
  <2>1. /\ bankLines' = bankLines \cup {line[r]}
        /\ unmarked' = [unmarked EXCEPT ![r] = result[r].invoices]
        /\ pc' = [pc EXCEPT ![r] = "mark"]
        /\ UNCHANGED <<matchResults, line, result, results>>
    BY <1>1 DEF InsertBankLine
  <2> QED BY <2>1 DEF WrittenThrough, PostedLinesRecorded, ProcessedLinesPersisted, Posted,
                      HasRow, Sound, TypeOK
<1>2. ASSUME NEW r \in Runs, MarkInvoice(r)
      PROVE  WrittenThrough'
  <2>1. PICK i \in unmarked[r] :
            /\ matchResults' = Upsert(matchResults, line[r], i, result[r].rule)
            /\ unmarked' = [unmarked EXCEPT ![r] = @ \ {i}]
            /\ UNCHANGED <<bankLines, pc, line, result, results>>
            /\ pc[r] = "mark"
    BY <1>2, MarkEffect
  <2>2. /\ \A row \in matchResults' : row \in matchResults \/ row.line = line[r]
        /\ HasRow(line[r], i)'
        /\ \A l, k : HasRow(l, k) => HasRow(l, k)'
    BY <2>1, UpsertRows DEF HasRow
  <2>3. PostedLinesRecorded'
    BY <2>1, <2>2 DEF WrittenThrough, PostedLinesRecorded
  <2>4. ProcessedLinesPersisted'
    BY <2>1, <2>2 DEF WrittenThrough, ProcessedLinesPersisted, Posted, HasRow
  <2>5. \A q \in Runs : \A k \in result[q].invoices \ unmarked'[q] :
            k \in result[q].invoices \ unmarked[q] \/ (q = r /\ k = i)
    BY <2>1 DEF Sound, TypeOK
  <2> QED BY <2>1, <2>2, <2>3, <2>4, <2>5 DEF WrittenThrough
<1>3. ASSUME NEW r \in Runs, EndLine(r)
      PROVE  WrittenThrough'
  <2>1. /\ pc[r] = "mark" /\ unmarked[r] = {}
        /\ results' = [results EXCEPT ![r] = @ \cup {result[r]}]
        /\ pc' = [pc EXCEPT ![r] = "nextLine"]
        /\ UNCHANGED <<ledger, line, result, unmarked>>
    BY <1>3 DEF EndLine
  <2>2. result[r].line \in bankLines /\ Posted(result[r])
    BY <2>1 DEF WrittenThrough, Posted, HasRow, Sound, LineInHand
  <2>3. ProcessedLinesPersisted'
    BY <2>1, <2>2 DEF WrittenThrough, ProcessedLinesPersisted, Posted, ledger, Sound, TypeOK
  <2> QED BY <2>1, <2>3 DEF WrittenThrough, PostedLinesRecorded, HasRow, ledger, Sound, TypeOK
<1>4. CASE /\ UNCHANGED ledger
           /\ \A q \in Runs :
                  /\ results'[q] \subseteq results[q]
                  /\ pc'[q] = "mark" => /\ pc[q] = "mark"
                                        /\ UNCHANGED <<line[q], result[q], unmarked[q]>>
  BY <1>4 DEF WrittenThrough, PostedLinesRecorded, ProcessedLinesPersisted, Posted, HasRow,
              ledger
<1> QED BY <1>1, <1>2, <1>3, <1>4, OtherSteps

LEMMA AlwaysWrittenThrough == Spec => []WrittenThrough
<1>1. Init => WrittenThrough
  BY DEF Init, Book!Init, WrittenThrough, PostedLinesRecorded, ProcessedLinesPersisted
<1> QED BY <1>1, WrittenThroughStep, AlwaysSound, PTL DEF Spec

(***************************************************************************)
(* Every posting belongs to a bank line that was stored before it.         *)
(***************************************************************************)
THEOREM PostingsHaveLines == Spec => []PostedLinesRecorded
<1>1. WrittenThrough => PostedLinesRecorded
  BY DEF WrittenThrough
<1> QED BY <1>1, AlwaysWrittenThrough, PTL

(***************************************************************************)
(* What a runner counts as processed is in the ledger: a kill loses the    *)
(* line in hand and nothing before it, also next to other runners.         *)
(***************************************************************************)
THEOREM KillLosesOneLine == Spec => []ProcessedLinesPersisted
<1>1. WrittenThrough => ProcessedLinesPersisted
  BY DEF WrittenThrough
<1> QED BY <1>1, AlwaysWrittenThrough, PTL

-----------------------------------------------------------------------------
(* One runner. *)

(***************************************************************************)
(* What a lone runner intends to pay is open until it pays it: the reads   *)
(* of the scan stay true up to the commit, as nobody else writes.          *)
(***************************************************************************)
OpenInHand ==
    \A r \in Runs :
        /\ pc[r] \in {"references", "customers", "decide"} =>
               \A c \in candidates[r] : \A i \in c.invoices : status[i] = "open"
        /\ pc[r] = "bankLine" => \A i \in result[r].invoices : status[i] = "open"
        /\ pc[r] = "mark" => \A i \in unmarked[r] : status[i] = "open"

LEMMA OpenInHandStep ==
    ASSUME NEW r \in Runs, Runs = {r}, Sound, OpenInHand, [Next]_vars
    PROVE  OpenInHand'
<1> USE DEF ledger, memory, scan, history
<1>1. ASSUME NEW s \in Statements, Launch(r, s) \/ Reject(r, s)
      PROVE  OpenInHand'
  <2>1. pc'[r] \in {"nextLine", "rejected"}
    BY <1>1 DEF Launch, Reject, Sound, TypeOK
  <2> QED BY <2>1 DEF OpenInHand
<1>2. ASSUME Kill(r)
      PROVE  OpenInHand'
  <2>1. pc'[r] = "killed"
    BY <1>2 DEF Kill, Sound, TypeOK
  <2> QED BY <2>1 DEF OpenInHand
<1>3. ASSUME TakeCredit(r)
      PROVE  OpenInHand'
  <2>1. pc'[r] = "references" /\ candidates'[r] = {}
    BY <1>3 DEF TakeCredit, Sound, TypeOK
  <2> QED BY <2>1 DEF OpenInHand
<1>4. ASSUME TakeDebit(r)
      PROVE  OpenInHand'
  <2>1. pc'[r] = "bankLine" /\ result'[r].invoices = {}
    BY <1>4 DEF TakeDebit, Sound, TypeOK, Unmatched
  <2> QED BY <2>1 DEF OpenInHand
<1>5. ASSUME FetchAvailable(r)
      PROVE  OpenInHand'
  <2>1. PICK i \in unread[r] :
            /\ Fetch(r, i) /\ IsAvailable(r, i)
            /\ candidates' = [candidates EXCEPT ![r] = @ \cup ReferenceCandidates(i, line[r])]
    BY <1>5 DEF FetchAvailable
  <2>2. \A c \in ReferenceCandidates(i, line[r]) : \A k \in c.invoices : status[k] = "open"
    BY <2>1, ReferenceCandidatesShown DEF IsAvailable, IsProposal
  <2>3. pc[r] = "references" /\ UNCHANGED <<pc, status>>
    BY <2>1 DEF Fetch
  <2> QED BY <2>1, <2>2, <2>3 DEF OpenInHand, Sound, TypeOK
<1>6. ASSUME FetchUnavailable(r)
      PROVE  OpenInHand'
  BY <1>6 DEF FetchUnavailable, Fetch, OpenInHand
<1>7. ASSUME EndScan(r)
      PROVE  OpenInHand'
  <2>1. /\ pc[r] = "references" /\ pc'[r] \in {"customers", "decide"}
        /\ UNCHANGED <<status, candidates>>
    BY <1>7 DEF EndScan, Sound, TypeOK
  <2> QED BY <2>1 DEF OpenInHand
<1>8. ASSUME ReadCustomer(r)
      PROVE  OpenInHand'
  <2> DEFINE rule == CustomerRules[step[r]]
             available == {i \in InvoiceIds : /\ Invoice[i].customer = CustomerFor(rule, line[r])
                                              /\ IsAvailable(r, i)}
  <2>1. /\ pc[r] = "customers" /\ pc'[r] \in {"customers", "decide"}
        /\ candidates'[r] = IF candidates[r] = {}
                            THEN CustomerCandidates(rule, line[r], available)
                            ELSE candidates[r]
        /\ UNCHANGED status
    BY <1>8 DEF ReadCustomer, Sound, TypeOK
  <2>2. rule \in {"B1", "B2", "B3"}
    BY <2>1 DEF Sound, LineInHand, CustomerRules
  <2>3. \A c \in CustomerCandidates(rule, line[r], available) : c.invoices \subseteq available
    <3> HIDE DEF rule, available
    <3> QED BY <2>2, CustomerCandidatesShown DEF IsProposal
  <2>4. \A i \in available : status[i] = "open"
    BY DEF IsAvailable
  <2> HIDE DEF rule, available
  <2>5. \A c \in candidates'[r] : \A i \in c.invoices : status[i] = "open"
    BY <2>1, <2>3, <2>4 DEF OpenInHand
  <2> QED BY <2>1, <2>5 DEF OpenInHand
<1>9. ASSUME DecideMatch(r)
      PROVE  OpenInHand'
  <2>1. PICK c \in candidates[r] :
            result' = [result EXCEPT ![r] = Matched(line[r], c.rule, c.invoices)]
    BY <1>9 DEF DecideMatch
  <2>2. pc[r] = "decide" /\ pc'[r] = "bankLine" /\ UNCHANGED status
    BY <1>9 DEF DecideMatch, Sound, TypeOK
  <2>3. result'[r].invoices = c.invoices
    BY <2>1 DEF Sound, TypeOK, Matched
  <2> QED BY <2>2, <2>3 DEF OpenInHand
<1>10. ASSUME DecideNoMatch(r)
       PROVE  OpenInHand'
  <2>1. pc'[r] = "bankLine" /\ result'[r].invoices = {}
    BY <1>10 DEF DecideNoMatch, Sound, TypeOK, Unmatched
  <2> QED BY <2>1 DEF OpenInHand
<1>11. ASSUME InsertBankLine(r)
       PROVE  OpenInHand'
  <2>1. /\ pc[r] = "bankLine" /\ pc'[r] = "mark" /\ UNCHANGED status
        /\ unmarked'[r] = result[r].invoices
    BY <1>11 DEF InsertBankLine, Sound, TypeOK
  <2> QED BY <2>1 DEF OpenInHand
<1>12. ASSUME MarkInvoice(r)
       PROVE  OpenInHand'
  <2>1. PICK i \in unmarked[r] :
            /\ status' = [status EXCEPT ![i] = "paid"]
            /\ unmarked' = [unmarked EXCEPT ![r] = @ \ {i}]
            /\ UNCHANGED pc
            /\ pc[r] = "mark"
    BY <1>12, MarkEffect
  <2>2. \A k \in unmarked'[r] : k \in unmarked[r] /\ k # i
    BY <2>1 DEF Sound, TypeOK
  <2>3. \A k \in unmarked'[r] : status'[k] = "open"
    BY <2>1, <2>2 DEF OpenInHand, Sound, TypeOK
  <2> QED BY <2>1, <2>3 DEF OpenInHand
<1>13. ASSUME EndLine(r) \/ EndMatching(r) \/ OpenFile(r) \/ CloseFile(r)
       PROVE  OpenInHand'
  <2>1. pc'[r] \in {"nextLine", "openFile", "closeFile", "done"}
    BY <1>13 DEF EndLine, EndMatching, OpenFile, CloseFile, Sound, TypeOK
  <2> QED BY <2>1 DEF OpenInHand
<1>14. ASSUME UNCHANGED vars
       PROVE  OpenInHand'
  BY <1>14 DEF OpenInHand, vars
<1>15. ASSUME RunStep(r)
       PROVE  OpenInHand'
  BY <1>3, <1>4, <1>5, <1>6, <1>7, <1>8, <1>9, <1>10, <1>11, <1>12, <1>13, <1>15 DEF RunStep
<1> QED BY <1>1, <1>2, <1>14, <1>15 DEF Next

LEMMA AlwaysOpenInHand ==
    ASSUME NEW r \in Runs, Runs = {r}
    PROVE  Spec => []OpenInHand
<1>1. Init => OpenInHand
  BY DEF Init, OpenInHand
<1>2. Sound /\ OpenInHand /\ [Next]_vars => OpenInHand'
  BY OpenInHandStep
<1> QED BY <1>1, <1>2, AlwaysSound, PTL DEF Spec

(***************************************************************************)
(* Each step of a lone runner is a step of the book: the postings find     *)
(* their line recorded and their invoice open.                             *)
(***************************************************************************)
LEMMA BookStep ==
    ASSUME NEW r \in Runs, Runs = {r},
           Sound, WrittenThrough, PaidIffRecorded, OpenInHand, [Next]_vars
    PROVE  [Book!Next]_(Book!ledger)
<1>1. ASSUME InsertBankLine(r)
      PROVE  Book!Next
  <2>1. line[r] \in LineIds
    BY <1>1 DEF InsertBankLine, Sound, LineInHand
  <2>2. Book!RecordLine(line[r])
    BY <1>1 DEF InsertBankLine, Book!RecordLine
  <2> QED BY <2>1, <2>2 DEF Book!Next
<1>2. ASSUME MarkInvoice(r)
      PROVE  Book!Next
  <2>1. PICK i \in unmarked[r] :
            /\ i \in InvoiceIds /\ line[r] \in LineIds /\ result[r].rule \in Rules
            /\ status' = [status EXCEPT ![i] = "paid"]
            /\ matchResults' = Upsert(matchResults, line[r], i, result[r].rule)
            /\ UNCHANGED bankLines
            /\ pc[r] = "mark"
    BY <1>2, MarkEffect
  <2>2. line[r] \in bankLines /\ status[i] = "open"
    BY <2>1 DEF WrittenThrough, OpenInHand
  <2>3. \A row \in matchResults : row.invoice # i
    BY <2>1, <2>2 DEF PaidIffRecorded, PaidInvoices
  <2>4. matchResults' = matchResults \cup {Book!Row(line[r], i, result[r].rule)}
    BY <2>1, <2>3 DEF Upsert
  <2>5. Book!Post(line[r], i, result[r].rule)
    BY <2>1, <2>2, <2>4 DEF Book!Post
  <2> QED BY <2>1, <2>5 DEF Book!Next
<1>3. ASSUME EndLine(r)
      PROVE  UNCHANGED ledger
  BY <1>3 DEF EndLine
<1> QED BY <1>1, <1>2, <1>3, OtherSteps DEF ledger, Book!ledger

(***************************************************************************)
(* A lone runner, killed and relaunched at will, implements the            *)
(* append-only book of ReconLedger.                                        *)
(***************************************************************************)
THEOREM LoneRunnerKeepsBook ==
    ASSUME NEW r \in Runs, Runs = {r}
    PROVE  Spec => ImplementsBook
<1>1. Init => Book!Init
  BY DEF Init
<1>2. Sound /\ WrittenThrough /\ PaidIffRecorded /\ OpenInHand /\ [Next]_vars
        => [Book!Next]_(Book!ledger)
  BY BookStep
<1> QED BY <1>1, <1>2, AlwaysSound, AlwaysWrittenThrough, PaidAccountedFor, AlwaysOpenInHand,
           PTL DEF Spec, ImplementsBook, Book!Spec

LEMMA OneMatchStep ==
    ASSUME NEW r \in Runs, Runs = {r}, OneInvoiceOneMatch,
           Sound, WrittenThrough, PaidIffRecorded, OpenInHand, [Next]_vars
    PROVE  OneInvoiceOneMatch'
<1>1. [Book!Next]_(Book!ledger)
  BY BookStep
<1>2. CASE matchResults' = matchResults
  BY <1>2 DEF OneInvoiceOneMatch
<1>3. ASSUME NEW l \in LineIds, NEW i \in InvoiceIds, NEW rule \in Rules,
             Book!Post(l, i, rule)
      PROVE  OneInvoiceOneMatch'
  <2>1. status[i] = "open" /\ matchResults' = matchResults \cup {Book!Row(l, i, rule)}
    BY <1>3 DEF Book!Post
  <2>2. i \notin PaidInvoices
    BY <2>1 DEF PaidInvoices
  <2>3. i \notin PaidAtImport /\ \A row \in matchResults : row.invoice # i
    BY <2>2 DEF PaidIffRecorded
  <2>4. Book!Row(l, i, rule).invoice = i
    BY DEF Book!Row
  <2> QED BY <2>1, <2>3, <2>4 DEF OneInvoiceOneMatch
<1> QED BY <1>1, <1>2, <1>3 DEF Book!Next, Book!RecordLine, Book!ledger

(***************************************************************************)
(* Section 6 over the whole history of a ledger: with one runner at a      *)
(* time, kills and reruns included, an invoice is paid by one line.        *)
(***************************************************************************)
THEOREM LoneRunnerPaysOnce ==
    ASSUME NEW r \in Runs, Runs = {r}
    PROVE  Spec => []OneInvoiceOneMatch
<1>1. Init => OneInvoiceOneMatch
  BY DEF Init, Book!Init, OneInvoiceOneMatch
<1>2. Sound /\ WrittenThrough /\ PaidIffRecorded /\ OpenInHand /\ OneInvoiceOneMatch
        /\ [Next]_vars => OneInvoiceOneMatch'
  BY OneMatchStep
<1> QED BY <1>1, <1>2, AlwaysSound, AlwaysWrittenThrough, PaidAccountedFor, AlwaysOpenInHand,
           PTL DEF Spec

LEMMA BookGrows ==
    ASSUME TypeOK, [Book!Next]_(Book!ledger)
    PROVE  /\ matchResults \subseteq matchResults'
           /\ PaidInvoices \subseteq PaidInvoices'
           /\ bankLines \subseteq bankLines'
<1>1. ASSUME NEW l, NEW i \in InvoiceIds, NEW rule, Book!Post(l, i, rule)
      PROVE  /\ matchResults \subseteq matchResults'
             /\ PaidInvoices \subseteq PaidInvoices'
             /\ bankLines \subseteq bankLines'
  BY <1>1 DEF Book!Post, PaidInvoices, TypeOK
<1>2. ASSUME NEW l, Book!RecordLine(l)
      PROVE  /\ matchResults \subseteq matchResults'
             /\ PaidInvoices \subseteq PaidInvoices'
             /\ bankLines \subseteq bankLines'
  BY <1>2 DEF Book!RecordLine, PaidInvoices
<1>3. CASE UNCHANGED Book!ledger
  BY <1>3 DEF Book!ledger, PaidInvoices
<1> QED BY <1>1, <1>2, <1>3 DEF Book!Next

(***************************************************************************)
(* "match_results is append-only", row by row, for a lone runner that is   *)
(* killed and relaunched at will.                                          *)
(***************************************************************************)
THEOREM LoneRunnerAppends ==
    ASSUME NEW r \in Runs, Runs = {r}
    PROVE  Spec => HistoryOnlyGrows
<1>1. Sound /\ WrittenThrough /\ PaidIffRecorded /\ OpenInHand /\ [Next]_vars
        => [/\ matchResults \subseteq matchResults'
            /\ PaidInvoices \subseteq PaidInvoices'
            /\ bankLines \subseteq bankLines']_vars
  BY BookStep, BookGrows DEF Sound
<1> QED BY <1>1, AlwaysSound, AlwaysWrittenThrough, PaidAccountedFor, AlwaysOpenInHand,
           PTL DEF Spec, HistoryOnlyGrows

-----------------------------------------------------------------------------
(***************************************************************************)
(* What a lone runner decides and what it reports: the decisions are those *)
(* of sections 4 to 7 of docs/matching_rules.md at one instant, and the    *)
(* report files mirror the ledger.                                         *)
(***************************************************************************)

(* Distances are natural numbers: the table of levenshtein, filled by      *)
(* growing m + n.                                                          *)

(* A set of natural numbers has a least element. *)
LEMMA LeastNat ==
    ASSUME NEW S \in SUBSET Nat, S # {}
    PROVE  \E x \in S : \A y \in S : x <= y
PROOF
<1>1. PICK e \in S : TRUE
  OBVIOUS
<1> DEFINE upTo == 0..e
           T == {0..x : x \in {y \in S : y <= e}}
<1>2. T \in SUBSET SUBSET upTo /\ T # {}
  BY <1>1
<1>3. IsFiniteSet(upTo)
  BY <1>1, FS_Interval
<1>4. PICK t \in T : \A u \in T : u \subseteq t => u = t
  <2> HIDE DEF T, upTo
  <2> QED
    BY <1>2, <1>3, Minimal
<1>5. PICK x \in S : x <= e /\ t = 0..x
  OBVIOUS
<1>6. ASSUME NEW y \in S, ~(x <= y)
      PROVE  FALSE
  <2>1. y \in Nat /\ x \in Nat /\ y < x /\ y <= e
    BY <1>1, <1>5, <1>6
  <2>2. 0..y \in T /\ 0..y \subseteq t
    BY <1>5, <2>1
  <2>3. 0..y = 0..x
    BY <1>4, <1>5, <2>2
  <2>4. x \in 0..x /\ x \notin 0..y
    BY <2>1
  <2> QED
    BY <2>3, <2>4
<1> QED
  BY <1>6

LEMMA MinNat ==
    ASSUME NEW S \in SUBSET Nat, S # {}
    PROVE  Min(S) \in S /\ \A y \in S : Min(S) <= y
PROOF
  BY LeastNat DEF Min

Cells(a, b) == (0..Len(a)) \X (0..Len(b))

(* The function that the definition of Levenshtein chooses. *)
Table(a, b, d) == d = [p \in Cells(a, b) |-> Distance(a, b, d, p[1], p[2])]

(* Its cells with m + n up to k. *)
Part(a, b, k) == {p \in Cells(a, b) : p[1] + p[2] <= k}

PartTable(a, b, k, d) ==
    \A p \in Part(a, b, k) : d[p] \in Nat /\ d[p] = Distance(a, b, d, p[1], p[2])

LEMMA LevenshteinIsTable ==
    ASSUME NEW a, NEW b, NEW h, Table(a, b, h)
    PROVE  \E d : Table(a, b, d) /\ Levenshtein(a, b) = d[<<Len(a), Len(b)>>]
PROOF
  BY DEF Table, Levenshtein, Cells

LEMMA DistanceNat ==
    ASSUME NEW a, NEW b, Len(a) \in Nat, Len(b) \in Nat, NEW k \in Nat, NEW d,
           PartTable(a, b, k, d), NEW m, NEW n, <<m, n>> \in Part(a, b, k + 1)
    PROVE  Distance(a, b, d, m, n) \in Nat
PROOF
<1>1. m \in 0..Len(a) /\ n \in 0..Len(b) /\ m + n <= k + 1
  BY DEF Part, Cells
<1>2. CASE m = 0 \/ n = 0
  BY <1>1, <1>2 DEF Distance
<1>3. CASE m # 0 /\ n # 0
  <2> DEFINE x == d[<<m - 1, n>>] + 1
             y == d[<<m, n - 1>>] + 1
             z == d[<<m - 1, n - 1>>] + (IF a[m] = b[n] THEN 0 ELSE 1)
  <2>1. <<m - 1, n>> \in Part(a, b, k) /\ <<m, n - 1>> \in Part(a, b, k)
          /\ <<m - 1, n - 1>> \in Part(a, b, k)
    BY <1>1, <1>3 DEF Part, Cells
  <2>2. x \in Nat /\ y \in Nat /\ z \in Nat
    BY <2>1 DEF PartTable
  <2>3. Distance(a, b, d, m, n) = Min({x, y, z})
    BY <1>3 DEF Distance
  <2> HIDE DEF x, y, z
  <2>4. {x, y, z} \in SUBSET Nat /\ {x, y, z} # {}
    BY <2>2
  <2>5. Min({x, y, z}) \in {x, y, z}
    BY <2>4, MinNat
  <2> QED
    BY <2>2, <2>3, <2>5
<1> QED
  BY <1>2, <1>3

(* The table up to k + 1 refers to the one up to k only. *)
LEMMA DistanceSame ==
    ASSUME NEW a, NEW b, Len(a) \in Nat, Len(b) \in Nat, NEW k \in Nat, NEW d, NEW e,
           \A p \in Part(a, b, k) : d[p] = e[p],
           NEW m, NEW n, <<m, n>> \in Part(a, b, k + 1)
    PROVE  Distance(a, b, d, m, n) = Distance(a, b, e, m, n)
PROOF
<1>1. m \in 0..Len(a) /\ n \in 0..Len(b) /\ m + n <= k + 1
  BY DEF Part, Cells
<1>2. CASE m = 0 \/ n = 0
  BY <1>1, <1>2 DEF Distance
<1>3. CASE m # 0 /\ n # 0
  <2>1. <<m - 1, n>> \in Part(a, b, k) /\ <<m, n - 1>> \in Part(a, b, k)
          /\ <<m - 1, n - 1>> \in Part(a, b, k)
    BY <1>1, <1>3 DEF Part, Cells
  <2>2. /\ d[<<m - 1, n>>] = e[<<m - 1, n>>] /\ d[<<m, n - 1>>] = e[<<m, n - 1>>]
        /\ d[<<m - 1, n - 1>>] = e[<<m - 1, n - 1>>]
    BY <2>1
  <2> QED
    BY <2>2 DEF Distance
<1> QED
  BY <1>2, <1>3

LEMMA PartTableGrows ==
    ASSUME NEW a, NEW b, Len(a) \in Nat, Len(b) \in Nat, NEW k \in Nat, NEW d,
           PartTable(a, b, k, d)
    PROVE  \E e : PartTable(a, b, k + 1, e)
PROOF
<1> DEFINE e == [p \in Part(a, b, k + 1) |->
                    IF p \in Part(a, b, k) THEN d[p] ELSE Distance(a, b, d, p[1], p[2])]
<1>1. Part(a, b, k) \subseteq Part(a, b, k + 1)
  BY DEF Part, Cells
<1>2. \A p \in Part(a, b, k) : d[p] = e[p]
  BY <1>1
<1>3. ASSUME NEW p \in Part(a, b, k + 1)
      PROVE  e[p] \in Nat /\ e[p] = Distance(a, b, e, p[1], p[2])
  <2>1. p = <<p[1], p[2]>> /\ p[1] \in 0..Len(a)
    BY DEF Part, Cells
  <2>2. Distance(a, b, d, p[1], p[2]) \in Nat
    BY <2>1, DistanceNat
  <2>3. Distance(a, b, d, p[1], p[2]) = Distance(a, b, e, p[1], p[2])
    <3> HIDE DEF e
    <3> QED
      BY <1>2, <2>1, DistanceSame
  <2>4. e[p] = Distance(a, b, d, p[1], p[2])
    BY DEF PartTable
  <2> QED
    BY <2>2, <2>3, <2>4
<1> HIDE DEF e
<1> QED
  BY <1>3 DEF PartTable

LEMMA FirstPart ==
    ASSUME NEW a, NEW b, Len(a) \in Nat, Len(b) \in Nat, NEW d, Table(a, b, d)
    PROVE  PartTable(a, b, 0, d)
PROOF
<1> SUFFICES ASSUME NEW p \in Part(a, b, 0)
             PROVE  d[p] \in Nat /\ d[p] = Distance(a, b, d, p[1], p[2])
  BY DEF PartTable
<1>1. p[1] = 0 /\ p[2] = 0 /\ p \in Cells(a, b)
  BY DEF Part, Cells
<1> QED
  BY <1>1 DEF Table, Distance

LEMMA FirstPartExists ==
    ASSUME NEW a, NEW b, Len(a) \in Nat, Len(b) \in Nat
    PROVE  \E d : PartTable(a, b, 0, d)
PROOF
<1> DEFINE d == [p \in Cells(a, b) |-> 0]
<1>1. ASSUME NEW p \in Part(a, b, 0)
      PROVE  d[p] \in Nat /\ d[p] = Distance(a, b, d, p[1], p[2])
  <2>1. p[1] = 0 /\ p[2] = 0 /\ p \in Cells(a, b)
    BY DEF Part, Cells
  <2> QED
    BY <2>1 DEF Distance
<1> HIDE DEF d
<1> QED
  BY <1>1 DEF PartTable

LEMMA PartTableExists ==
    ASSUME NEW a, NEW b, Len(a) \in Nat, Len(b) \in Nat, NEW k \in Nat
    PROVE  \E d : PartTable(a, b, k, d)
PROOF
<1> DEFINE S == {m \in Nat : ~ \E d : PartTable(a, b, m, d)}
<1>1. SUFFICES ASSUME S # {}
               PROVE  FALSE
  OBVIOUS
<1>2. PICK m \in S : \A y \in S : m <= y
  BY <1>1, LeastNat
<1>3. m # 0
  BY FirstPartExists
<1> DEFINE n == m - 1
<1>4. n \in Nat /\ n + 1 = m /\ n \notin S
  BY <1>2, <1>3
<1>5. PICK d : PartTable(a, b, n, d)
  BY <1>4
<1> HIDE DEF n
<1>6. \E e : PartTable(a, b, n + 1, e)
  BY <1>4, <1>5, PartTableGrows
<1> QED
  BY <1>4, <1>6

LEMMA TableExists ==
    ASSUME NEW a, NEW b, Len(a) \in Nat, Len(b) \in Nat
    PROVE  \E d : Table(a, b, d)
PROOF
<1> DEFINE k == Len(a) + Len(b)
<1>1. k \in Nat
  OBVIOUS
<1>2. PICK e : PartTable(a, b, k, e)
  <2> HIDE DEF k
  <2> QED
    BY <1>1, PartTableExists
<1>3. Part(a, b, k) = Cells(a, b) /\ Part(a, b, k + 1) = Cells(a, b)
  BY DEF Part, Cells
<1> DEFINE d == [p \in Cells(a, b) |-> e[p]]
<1>4. \A p \in Cells(a, b) : d[p] = e[p]
  OBVIOUS
<1>5. ASSUME NEW p \in Cells(a, b)
      PROVE  d[p] = Distance(a, b, d, p[1], p[2])
  <2> HIDE DEF d, k
  <2>1. p = <<p[1], p[2]>>
    BY DEF Cells
  <2>2. Distance(a, b, d, p[1], p[2]) = Distance(a, b, e, p[1], p[2])
    BY <1>1, <1>3, <1>4, <2>1, DistanceSame
  <2> QED
    BY <1>2, <1>3, <1>4, <2>2 DEF PartTable
<1>6. d = [p \in Cells(a, b) |-> d[p]]
  OBVIOUS
<1> HIDE DEF d
<1> QED
  BY <1>5, <1>6 DEF Table

LEMMA TableNat ==
    ASSUME NEW a, NEW b, Len(a) \in Nat, Len(b) \in Nat, NEW d, Table(a, b, d), NEW k \in Nat
    PROVE  PartTable(a, b, k, d)
PROOF
<1> DEFINE S == {m \in Nat : ~PartTable(a, b, m, d)}
<1>1. SUFFICES ASSUME S # {}
               PROVE  FALSE
  OBVIOUS
<1>2. PICK m \in S : \A y \in S : m <= y
  BY <1>1, LeastNat
<1>3. m # 0
  BY FirstPart
<1> DEFINE n == m - 1
<1>4. n \in Nat /\ n + 1 = m /\ n \notin S
  BY <1>2, <1>3
<1>5. PartTable(a, b, n, d)
  BY <1>4
<1> HIDE DEF n
<1>6. ASSUME NEW p \in Part(a, b, n + 1)
      PROVE  d[p] \in Nat /\ d[p] = Distance(a, b, d, p[1], p[2])
  <2>1. p = <<p[1], p[2]>> /\ p \in Cells(a, b)
    BY DEF Part, Cells
  <2>2. Distance(a, b, d, p[1], p[2]) \in Nat
    BY <1>4, <1>5, <2>1, DistanceNat
  <2> QED
    BY <2>1, <2>2 DEF Table
<1>7. PartTable(a, b, n + 1, d)
  BY <1>6 DEF PartTable
<1> QED
  BY <1>4, <1>7

(***************************************************************************)
(* The edit distance of two texts is a natural number.                     *)
(***************************************************************************)
LEMMA LevenshteinNat ==
    ASSUME NEW a, NEW b, Len(a) \in Nat, Len(b) \in Nat
    PROVE  Levenshtein(a, b) \in Nat
PROOF
<1>1. PICK d : Table(a, b, d) /\ Levenshtein(a, b) = d[<<Len(a), Len(b)>>]
  BY TableExists, LevenshteinIsTable
<1> DEFINE k == Len(a) + Len(b)
<1>2. k \in Nat /\ <<Len(a), Len(b)>> \in Part(a, b, k)
  BY DEF Part, Cells
<1>3. PartTable(a, b, k, d)
  <2> HIDE DEF k
  <2> QED
    BY <1>1, <1>2, TableNat
<1> QED
  BY <1>1, <1>2, <1>3 DEF PartTable

LEMMA NearestNat ==
    ASSUME NEW l \in LineIds, Line[l].tokens # {}, NEW i \in InvoiceIds
    PROVE  NearestDistance(i, l) \in Nat
PROOF
<1> DEFINE S == {Levenshtein(t, Invoice[i].ref) : t \in Line[l].tokens}
<1>1. S \in SUBSET Nat
  <2>1. Len(Invoice[i].ref) \in Nat
    BY ReferenceAssumption
  <2>2. ASSUME NEW t \in Line[l].tokens
        PROVE  Levenshtein(t, Invoice[i].ref) \in Nat
    BY <2>1, LineAssumption, LevenshteinNat
  <2> QED
    BY <2>2
<1>2. S # {}
  OBVIOUS
<1>3. NearestDistance(i, l) = Min(S)
  BY DEF NearestDistance
<1> HIDE DEF S
<1> QED
  BY <1>1, <1>2, <1>3, MinNat

-----------------------------------------------------------------------------
(* Candidates and their order. *)

LEMMA BatchTotalInt ==
    ASSUME NEW C \in SUBSET InvoiceIds
    PROVE  BatchTotal(C) \in Int
PROOF
<1> DEFINE f == [i \in C |-> Invoice[i].amount]
<1>1. IsFiniteSet(C)
  BY InvoiceIdsAssumption, FS_Subset
<1>2. \A i \in C : f[i] \in Int
  BY InvoiceAssumption
<1>3. DOMAIN f = C
  OBVIOUS
<1> HIDE DEF f
<1>4. Sum(f, C) \in Int
  BY <1>1, <1>2, SumInt
<1>5. SumFunction(f) \in Int
  BY <1>3, <1>4 DEF Sum, SumFunction
<1> QED
  BY <1>5 DEF BatchTotal, f

(* Older is a strict total order of invoices. *)
LEMMA OlderOrders ==
    ASSUME NEW i \in InvoiceIds, NEW j \in InvoiceIds, NEW k \in InvoiceIds
    PROVE  /\ i # j => Older(i, j) \/ Older(j, i)
           /\ ~(Older(i, j) /\ Older(j, i))
           /\ Older(i, j) /\ Older(j, k) => Older(i, k)
PROOF
<1>1. i \in Nat /\ j \in Nat /\ k \in Nat
  BY InvoiceIdsAssumption
<1>2. Invoice[i].due \in Int /\ Invoice[j].due \in Int /\ Invoice[k].due \in Int
  BY InvoiceAssumption
<1> QED
  BY <1>1, <1>2 DEF Older

(* Of the invoices of a set that is not empty one is the oldest. *)
LEMMA OldestExists ==
    ASSUME NEW S \in SUBSET InvoiceIds, S # {}
    PROVE  Oldest(S) \in S
PROOF
<1> DEFINE T == {s \in SUBSET S : s # {} /\ ~ \E i \in s : IsOldest(i, s)}
<1>1. SUFFICES ASSUME T # {}
               PROVE  FALSE
  <2>1. S \in SUBSET S /\ S \notin T => \E i \in S : IsOldest(i, S)
    OBVIOUS
  <2> QED
    BY <1>1, <2>1 DEF Oldest
<1>2. PICK x \in T : \A y \in T : y \subseteq x => y = x
  <2>1. T \in SUBSET SUBSET S /\ IsFiniteSet(S)
    BY InvoiceIdsAssumption, FS_Subset
  <2> HIDE DEF T
  <2> QED
    BY <1>1, <2>1, Minimal
<1>3. PICK e \in x : TRUE
  OBVIOUS
<1> DEFINE r == x \ {e}
<1>4. x \subseteq InvoiceIds /\ r \in SUBSET S /\ r \notin T
  BY <1>2, <1>3
<1>5. r # {}
  BY <1>3 DEF IsOldest
<1>6. PICK o \in r : IsOldest(o, r)
  BY <1>4, <1>5
<1>7. CASE Older(o, e)
  BY <1>6, <1>7 DEF IsOldest
<1>8. CASE ~Older(o, e)
  <2>1. Older(e, o)
    BY <1>3, <1>4, <1>6, <1>8, OlderOrders
  <2>2. \A k \in r : Older(e, k)
    BY <1>3, <1>4, <1>6, <2>1, OlderOrders DEF IsOldest
  <2> QED
    BY <1>3, <2>2 DEF IsOldest
<1> QED
  BY <1>7, <1>8

(* What the rules of the code, its own batch search among them, propose    *)
(* for line l when S is available, and what follows by sections 5 and 7.   *)
Found(rule, l, S) ==
    IF rule = "B3" THEN RuleB3(l, OfCustomer(ByIbanOrName(l), S)) ELSE Proposals(rule, l, S)

FirstFound(l, S) ==
    LET deciding == {rule \in Rules :
                        \A q \in Rules : RulePriority[q] < RulePriority[rule]
                                             => Found(q, l, S) = {}}
        smallest(rule) == {c \in Found(rule, l, S) : Smallest(c, Found(rule, l, S))}
    IN  UNION {{Matched(l, rule, c.invoices) : c \in smallest(rule)} : rule \in deciding}

Verdict(l, S) ==
    IF IsCredit(l) /\ FirstFound(l, S) # {} THEN FirstFound(l, S) ELSE {Section7(l, S)}

Ordered(c) == c.difference \in Int /\ c.distance \in Int /\ Oldest(c.invoices) \in InvoiceIds

LEMMA ProposalShown ==
    ASSUME NEW q \in Rules, NEW l \in LineIds, NEW S \in SUBSET InvoiceIds,
           NEW c \in Found(q, l, S)
    PROVE  c.rule = q /\ c.invoices \subseteq S /\ c.invoices # {} /\ Ordered(c)
PROOF
<1>1. \A i \in InvoiceIds : AmountDifference(i, l) \in Int
  BY InvoiceAssumption, LineAssumption DEF AmountDifference, Abs
<1>2. c.rule = q /\ c.difference \in Int /\ c.distance \in Int
        /\ c.invoices \subseteq S /\ c.invoices # {}
  <2>1. CASE q = "A1"
    <3>1. PICK i \in S : c \in ExactCandidates(i, l)
      BY <2>1 DEF Found, Proposals
    <3>2. c = Candidate("A1", {i}, AmountDifference(i, l), 0)
      BY <3>1 DEF ExactCandidates
    <3> QED
      BY <1>1, <2>1, <3>2 DEF Candidate
  <2>2. CASE q = "A2"
    <3>1. PICK i \in S : c \in FuzzyCandidates(i, l)
      BY <2>2 DEF Found, Proposals
    <3>2. c = Candidate("A2", {i}, AmountDifference(i, l), NearestDistance(i, l))
            /\ Line[l].tokens # {}
      BY <3>1 DEF FuzzyCandidates
    <3>3. NearestDistance(i, l) \in Nat
      BY <3>2, NearestNat
    <3> QED
      BY <1>1, <2>2, <3>2, <3>3 DEF Candidate
  <2>3. CASE q = "B1"
    <3> DEFINE own == OfCustomer(ByIban(l), S)
    <3>1. c \in RuleB1(l, own) /\ own \subseteq S
      BY <2>3 DEF Found, Proposals, OfCustomer
    <3> HIDE DEF own
    <3>2. PICK i \in own : c = Candidate("B1", {i}, AmountDifference(i, l), 0)
      BY <3>1 DEF RuleB1
    <3> QED
      BY <1>1, <2>3, <3>1, <3>2 DEF Candidate
  <2>4. CASE q = "B2"
    <3> DEFINE own == OfCustomer(ByName(l), S)
    <3>1. c \in RuleB2(l, own) /\ own \subseteq S
      BY <2>4 DEF Found, Proposals, OfCustomer
    <3> HIDE DEF own
    <3>2. PICK i \in own : c = Candidate("B2", {i}, AmountDifference(i, l), 0)
      BY <3>1 DEF RuleB2
    <3> QED
      BY <1>1, <2>4, <3>1, <3>2 DEF Candidate
  <2>5. CASE q = "B3"
    <3> DEFINE own == OfCustomer(ByIbanOrName(l), S)
    <3>1. c \in RuleB3(l, own) /\ own \subseteq S
      BY <2>5 DEF Found, Proposals, OfCustomer
    <3> HIDE DEF own
    <3>2. PICK C \in FindBatch(own, Line[l].amount) :
              c = Candidate("B3", C, Abs(BatchTotal(C) - Line[l].amount), 0)
      BY <3>1 DEF RuleB3
    <3>3. C \subseteq own /\ C # {}
      BY FindBatchShown
    <3>4. BatchTotal(C) \in Int
      BY <3>1, <3>3, BatchTotalInt
    <3>5. Abs(BatchTotal(C) - Line[l].amount) \in Int
      BY <3>4, LineAssumption DEF Abs
    <3> QED
      BY <2>5, <3>1, <3>2, <3>3, <3>5 DEF Candidate
  <2> QED
    BY <2>1, <2>2, <2>3, <2>4, <2>5 DEF Rules
<1>3. Oldest(c.invoices) \in InvoiceIds
  BY <1>2, OldestExists
<1> QED
  BY <1>2, <1>3 DEF Ordered

(* candidate_key as the comparison it makes. *)
Smaller(c, d) ==
    \/ c.difference < d.difference
    \/ c.difference = d.difference /\ c.distance < d.distance
    \/ /\ c.difference = d.difference /\ c.distance = d.distance
       /\ Older(Oldest(c.invoices), Oldest(d.invoices))

LEMMA KeyBeforeIs ==
    ASSUME NEW c, NEW d
    PROVE  KeyBefore(Key(c), Key(d)) <=>
               \/ RulePriority[c.rule] < RulePriority[d.rule]
               \/ RulePriority[c.rule] = RulePriority[d.rule] /\ Smaller(c, d)
PROOF
<1> DEFINE k == Key(c)
           m == Key(d)
<1>1. /\ k[1] = RulePriority[c.rule] /\ m[1] = RulePriority[d.rule]
      /\ k[2] = c.difference /\ m[2] = d.difference
      /\ k[3] = c.distance /\ m[3] = d.distance
      /\ k[4] = Invoice[Oldest(c.invoices)].due /\ m[4] = Invoice[Oldest(d.invoices)].due
      /\ k[5] = Oldest(c.invoices) /\ m[5] = Oldest(d.invoices)
  BY DEF Key
<1> HIDE DEF k, m
<1>2. KeyBefore(k, m) <=>
          \/ k[1] < m[1]
          \/ k[1] = m[1] /\ k[2] < m[2]
          \/ k[1] = m[1] /\ k[2] = m[2] /\ k[3] < m[3]
          \/ k[1] = m[1] /\ k[2] = m[2] /\ k[3] = m[3] /\ k[4] < m[4]
          \/ k[1] = m[1] /\ k[2] = m[2] /\ k[3] = m[3] /\ k[4] = m[4] /\ k[5] < m[5]
  <2> DEFINE At(n) == k[n] < m[n] /\ \A p \in 1..(n - 1) : k[p] = m[p]
  <2>1. At(1) <=> k[1] < m[1]
    OBVIOUS
  <2>2. At(2) <=> k[1] = m[1] /\ k[2] < m[2]
    OBVIOUS
  <2>3. At(3) <=> k[1] = m[1] /\ k[2] = m[2] /\ k[3] < m[3]
    OBVIOUS
  <2>4. At(4) <=> k[1] = m[1] /\ k[2] = m[2] /\ k[3] = m[3] /\ k[4] < m[4]
    OBVIOUS
  <2>5. At(5) <=> k[1] = m[1] /\ k[2] = m[2] /\ k[3] = m[3] /\ k[4] = m[4] /\ k[5] < m[5]
    OBVIOUS
  <2>6. KeyBefore(k, m) <=> \E n \in 1..5 : At(n)
    BY DEF KeyBefore
  <2>7. 1..5 = {1, 2, 3, 4, 5}
    OBVIOUS
  <2> HIDE DEF At
  <2> QED
    BY <2>1, <2>2, <2>3, <2>4, <2>5, <2>6, <2>7
<1> QED
  BY <1>1, <1>2 DEF Smaller, Older, k, m

LEMMA SmallerStrict ==
    ASSUME NEW c, NEW d, Ordered(c), Ordered(d)
    PROVE  ~(Smaller(c, d) /\ Smaller(d, c))
PROOF
  BY OlderOrders DEF Ordered, Smaller

-----------------------------------------------------------------------------
(* The scan up to some rule, and the decision. *)

RulesTo(n) == {q \in Rules : RulePriority[q] < n}

Deciding(q, l, S) ==
    \A p \in Rules : RulePriority[p] < RulePriority[q] => Found(p, l, S) = {}

(* C is what the rules up to n propose, so far as it can still decide.     *)
Weighed(C, l, S, n) ==
    /\ \A c \in C : c.rule \in RulesTo(n) /\ c \in Found(c.rule, l, S)
    /\ \A q \in RulesTo(n) : Deciding(q, l, S) => Found(q, l, S) \subseteq C

LEMMA PriorityNat == \A q \in Rules : RulePriority[q] \in 0..4
PROOF
  BY DEF Rules, RulePriority

LEMMA PriorityTells ==
    \A p, q \in Rules : RulePriority[p] = RulePriority[q] => p = q
PROOF
  BY DEF Rules, RulePriority

LEMMA FirstRule ==
    ASSUME NEW l, NEW S, NEW q \in Rules, Found(q, l, S) # {}
    PROVE  \E p \in Rules : /\ Deciding(p, l, S) /\ Found(p, l, S) # {}
                            /\ RulePriority[p] <= RulePriority[q]
PROOF
<1> DEFINE T == {RulePriority[p] : p \in {p \in Rules : Found(p, l, S) # {}}}
<1>1. T \in SUBSET Nat /\ T # {}
  BY PriorityNat
<1>2. PICK x \in T : \A y \in T : x <= y
  <2> HIDE DEF T
  <2> QED
    BY <1>1, LeastNat
<1>3. PICK p \in Rules : Found(p, l, S) # {} /\ x = RulePriority[p]
  OBVIOUS
<1>4. ASSUME NEW o \in Rules, RulePriority[o] < RulePriority[p]
      PROVE  Found(o, l, S) = {}
  <2>1. RulePriority[o] \notin T
    <3> HIDE DEF T
    <3> QED
      BY <1>2, <1>3, <1>4, PriorityNat
  <2> QED
    BY <2>1
<1>5. RulePriority[q] \in T
  OBVIOUS
<1> QED
  BY <1>2, <1>3, <1>4, <1>5 DEF Deciding

LEMMA NothingProposed ==
    ASSUME NEW l, NEW S, NEW n \in Nat, Weighed({}, l, S, n)
    PROVE  \A q \in RulesTo(n) : Found(q, l, S) = {}
PROOF
<1> SUFFICES ASSUME NEW q \in RulesTo(n), Found(q, l, S) # {}
             PROVE  FALSE
  OBVIOUS
<1>1. q \in Rules /\ RulePriority[q] < n
  BY DEF RulesTo
<1>2. PICK p \in Rules : /\ Deciding(p, l, S) /\ Found(p, l, S) # {}
                         /\ RulePriority[p] <= RulePriority[q]
  BY <1>1, FirstRule
<1>3. p \in RulesTo(n)
  BY <1>1, <1>2, PriorityNat DEF RulesTo
<1> QED
  BY <1>2, <1>3 DEF Weighed

(* What no rule proposes is not in section 5 either. *)
LEMMA NobodyDecides ==
    ASSUME NEW l, NEW S, Weighed({}, l, S, 5)
    PROVE  FirstFound(l, S) = {}
PROOF
<1>1. \A q \in Rules : Found(q, l, S) = {}
  BY NothingProposed, PriorityNat DEF RulesTo
<1> QED
  BY <1>1 DEF FirstFound

LEMMA FirstFoundIs ==
    ASSUME NEW l, NEW S, NEW res
    PROVE  res \in FirstFound(l, S) <=>
               \E q \in Rules : \E c \in Found(q, l, S) :
                   /\ Deciding(q, l, S) /\ res = Matched(l, q, c.invoices)
                   /\ \A d \in Found(q, l, S) \ {c} : Smaller(c, d)
PROOF
<1>1. \A c, P : Smallest(c, P) <=> \A d \in P \ {c} : Smaller(c, d)
  BY DEF Smallest, Smaller
<1> QED
  BY <1>1 DEF FirstFound, Deciding

(***************************************************************************)
(* The best candidate of all is the smallest one of the first rule that    *)
(* proposes any, and nothing else is.                                      *)
(***************************************************************************)
LEMMA BestDecides ==
    ASSUME NEW l \in LineIds, NEW S \in SUBSET InvoiceIds, NEW C,
           Weighed(C, l, S, 5), NEW c, IsBest(c, C)
    PROVE  FirstFound(l, S) = {Matched(l, c.rule, c.invoices)}
PROOF
<1> DEFINE P(q) == Found(q, l, S)
<1>1. c \in C /\ c.rule \in Rules /\ c \in P(c.rule)
  BY DEF IsBest, Weighed, RulesTo
<1>2. \A q \in Rules : \A d \in P(q) : d.rule = q /\ Ordered(d)
  BY ProposalShown
<1>3. \A q \in Rules : Deciding(q, l, S) => P(q) \subseteq C
  BY PriorityNat DEF Weighed, RulesTo
<1>4. \A d \in C \ {c} : \/ RulePriority[c.rule] < RulePriority[d.rule]
                         \/ RulePriority[c.rule] = RulePriority[d.rule] /\ Smaller(c, d)
  BY KeyBeforeIs DEF IsBest
<1>5. Deciding(c.rule, l, S)
  <2>1. PICK p \in Rules : /\ Deciding(p, l, S) /\ P(p) # {}
                           /\ RulePriority[p] <= RulePriority[c.rule]
    BY <1>1, FirstRule
  <2>2. PICK d \in P(p) : TRUE
    BY <2>1
  <2>3. d \in C /\ d.rule = p
    BY <1>2, <1>3, <2>1, <2>2
  <2>4. RulePriority[c.rule] <= RulePriority[p]
    BY <1>1, <1>4, <2>3, PriorityNat
  <2>5. c.rule = p
    BY <1>1, <2>1, <2>4, PriorityNat, PriorityTells
  <2> QED
    BY <2>1, <2>5
<1>6. \A d \in P(c.rule) \ {c} : Smaller(c, d)
  BY <1>1, <1>2, <1>3, <1>4, <1>5, PriorityNat
<1>7. Matched(l, c.rule, c.invoices) \in FirstFound(l, S)
  BY <1>1, <1>5, <1>6, FirstFoundIs
<1>8. ASSUME NEW res \in FirstFound(l, S)
      PROVE  res = Matched(l, c.rule, c.invoices)
  <2>1. PICK q \in Rules : \E d \in P(q) :
            /\ Deciding(q, l, S) /\ res = Matched(l, q, d.invoices)
            /\ \A e \in P(q) \ {d} : Smaller(d, e)
    BY FirstFoundIs
  <2>2. PICK d \in P(q) :
            /\ Deciding(q, l, S) /\ res = Matched(l, q, d.invoices)
            /\ \A e \in P(q) \ {d} : Smaller(d, e)
    BY <2>1
  <2>3. q = c.rule
    <3>1. ~(RulePriority[q] < RulePriority[c.rule])
      BY <1>5, <2>2 DEF Deciding
    <3>2. ~(RulePriority[c.rule] < RulePriority[q])
      BY <1>1, <2>2 DEF Deciding
    <3> QED
      BY <1>1, <3>1, <3>2, PriorityNat, PriorityTells
  <2>4. d = c
    BY <1>1, <1>2, <1>6, <2>2, <2>3, SmallerStrict
  <2> QED
    BY <2>2, <2>3, <2>4
<1> QED
  BY <1>7, <1>8

-----------------------------------------------------------------------------
(* The line in hand of a lone runner: what it has read so far is what the  *)
(* rules propose for the ledger of one instant, since nobody else writes.  *)

LineInScan(r) ==
    /\ pc[r] \in {"references", "customers", "decide"} => IsCredit(line[r])
    /\ pc[r] = "references" =>
           /\ candidates[r] =
                  UNION {ReferenceCandidates(i, line[r]) : i \in Available(r) \ unread[r]}
           /\ unavailable[r] <=>
                  \E i \in InvoiceIds \ (Available(r) \cup unread[r]) : NamedBy(i, line[r])
    /\ pc[r] \in {"customers", "decide"} =>
           (unavailable[r] <=> \E i \in InvoiceIds \ Available(r) : NamedBy(i, line[r]))
    /\ pc[r] = "customers" => Weighed(candidates[r], line[r], Available(r), step[r] + 1)
    /\ pc[r] = "decide" => Weighed(candidates[r], line[r], Available(r), 5)

DecidedByRules(r) ==
    pc[r] = "bankLine" =>
        Verdict(line[r], Available(r) \cup (result[r].invoices)) = {result[r]}

ScanInHand == \A r \in Runs : LineInScan(r) /\ DecidedByRules(r)

LEMMA ReferencesAreProposals ==
    ASSUME NEW l, NEW S
    PROVE  UNION {ReferenceCandidates(i, l) : i \in S}
               = Found("A1", l, S) \cup Found("A2", l, S)
PROOF
  BY DEF ReferenceCandidates, Found, Proposals

(* The scan of the references weighs A1 and A2; if it proposes anything,   *)
(* no other rule decides.                                                  *)
LEMMA ReferencesWeighed ==
    ASSUME NEW l \in LineIds, NEW S \in SUBSET InvoiceIds, NEW C,
           C = UNION {ReferenceCandidates(i, l) : i \in S}
    PROVE  Weighed(C, l, S, 2) /\ (C # {} => Weighed(C, l, S, 5))
PROOF
<1>1. C = Found("A1", l, S) \cup Found("A2", l, S)
  BY ReferencesAreProposals
<1>2. "A1" \in Rules /\ "A2" \in Rules
  BY DEF Rules
<1>3. /\ RulePriority["A1"] = 0 /\ RulePriority["A2"] = 1
      /\ RulesTo(2) = {"A1", "A2"} /\ RulesTo(5) = Rules
  BY DEF RulesTo, Rules, RulePriority
<1>4. \A c \in C : /\ c.rule \in {"A1", "A2"}
                   /\ c \in Found(c.rule, l, S)
  BY <1>1, <1>2, ProposalShown
<1>5. ASSUME NEW q \in Rules, q \notin {"A1", "A2"}, Deciding(q, l, S)
      PROVE  C = {}
  <2>1. RulePriority["A1"] < RulePriority[q] /\ RulePriority["A2"] < RulePriority[q]
    BY <1>3, <1>5 DEF Rules, RulePriority
  <2> QED
    BY <1>1, <1>2, <1>5, <2>1 DEF Deciding
<1>6. Weighed(C, l, S, 2)
  BY <1>1, <1>3, <1>4 DEF Weighed
<1>7. C # {} => Weighed(C, l, S, 5)
  BY <1>2, <1>3, <1>4, <1>5, <1>6 DEF Weighed
<1> QED
  BY <1>6, <1>7

(* One customer rule more: it is asked only if no rule before it proposed. *)
LEMMA CustomersWeighed ==
    ASSUME NEW l \in LineIds, NEW S \in SUBSET InvoiceIds, NEW n \in 1..3,
           NEW C, Weighed(C, l, S, n + 1),
           NEW available, available = OfCustomer(CustomerFor(CustomerRules[n], l), S),
           NEW D, D = IF C = {} THEN CustomerCandidates(CustomerRules[n], l, available) ELSE C
    PROVE  Weighed(D, l, S, n + 2)
PROOF
<1> DEFINE rule == CustomerRules[n]
<1>1. rule \in {"B1", "B2", "B3"} /\ rule \in Rules /\ RulePriority[rule] = n + 1
  BY DEF CustomerRules, Rules, RulePriority
<1>2. CustomerCandidates(rule, l, available) = Found(rule, l, S)
  <2>1. CASE rule = "B1"
    BY <2>1 DEF CustomerCandidates, Found, Proposals, CustomerFor
  <2>2. CASE rule = "B2"
    BY <2>2 DEF CustomerCandidates, Found, Proposals, CustomerFor
  <2>3. CASE rule = "B3"
    BY <2>3 DEF CustomerCandidates, Found, Proposals, CustomerFor
  <2> QED
    BY <1>1, <2>1, <2>2, <2>3
<1> HIDE DEF rule
<1>3. RulesTo(n + 2) = RulesTo(n + 1) \cup {rule} /\ RulesTo(n + 1) \subseteq Rules
  <2>1. ASSUME NEW q \in Rules
        PROVE  RulePriority[q] < n + 2 <=> RulePriority[q] < n + 1 \/ q = rule
    <3>1. RulePriority[q] \in Nat
      BY PriorityNat
    <3>2. RulePriority[q] = n + 1 <=> q = rule
      BY <1>1, PriorityTells
    <3> QED
      BY <3>1, <3>2
  <2> QED
    BY <1>1, <2>1 DEF RulesTo
<1>4. CASE C = {}
  <2>1. D = Found(rule, l, S)
    BY <1>2, <1>4 DEF rule
  <2>2. \A c \in D : c.rule = rule
    BY <1>1, <2>1, ProposalShown
  <2>3. \A q \in RulesTo(n + 1) : Found(q, l, S) = {}
    BY <1>4, NothingProposed
  <2> QED
    BY <1>3, <2>1, <2>2, <2>3 DEF Weighed
<1>5. CASE C # {}
  <2>1. PICK c \in C : TRUE
    BY <1>5
  <2>2. c.rule \in RulesTo(n + 1) /\ Found(c.rule, l, S) # {}
    BY <2>1 DEF Weighed
  <2>3. ~Deciding(rule, l, S)
    BY <1>1, <2>2 DEF Deciding, RulesTo
  <2> QED
    BY <1>3, <1>5, <2>3 DEF Weighed
<1> QED
  BY <1>4, <1>5

LEMMA OneReadMore ==
    ASSUME NEW l, NEW A, NEW i
    PROVE  UNION {ReferenceCandidates(k, l) : k \in A \cup {i}}
               = (UNION {ReferenceCandidates(k, l) : k \in A}) \cup ReferenceCandidates(i, l)
PROOF
  OBVIOUS

(* Where a runner has no line to decide there is nothing to show. *)
LEMMA NothingInHand ==
    ASSUME NEW r \in Runs, Runs = {r},
           pc'[r] \notin {"references", "customers", "decide", "bankLine"}
    PROVE  ScanInHand'
PROOF
  BY DEF ScanInHand, LineInScan, DecidedByRules

LEMMA ScanStep ==
    ASSUME NEW r \in Runs, Runs = {r}, Sound, ScanInHand, [Next]_vars
    PROVE  ScanInHand'
PROOF
<1> USE DEF ledger, memory, scan, history
<1> DEFINE l == line[r]
           S == Available(r)
<1>1. /\ pc[r] \in {"references", "customers", "decide"} => l \in LineIds
      /\ S \in SUBSET InvoiceIds
  BY DEF Sound, LineInHand, Available
<1>2. ASSUME UNCHANGED <<status, consumed>>
      PROVE  Available(r)' = S
  BY <1>2 DEF Available, IsAvailable
<1>3. ASSUME NEW s \in Statements, Launch(r, s) \/ Reject(r, s)
      PROVE  ScanInHand'
  <2>1. pc'[r] \in {"nextLine", "rejected"}
    BY <1>3 DEF Launch, Reject, Sound, TypeOK
  <2> QED
    BY <2>1, NothingInHand
<1>4. ASSUME Kill(r)
      PROVE  ScanInHand'
  <2>1. pc'[r] = "killed"
    BY <1>4 DEF Kill, Sound, TypeOK
  <2> QED
    BY <2>1, NothingInHand
<1>5. ASSUME TakeCredit(r)
      PROVE  ScanInHand'
  <2>1. /\ pc'[r] = "references" /\ candidates'[r] = {} /\ unread'[r] = InvoiceIds
        /\ unavailable'[r] = FALSE /\ IsCredit(line'[r])
    BY <1>5 DEF TakeCredit, Take, Sound, TypeOK
  <2>2. Available(r)' \subseteq InvoiceIds
    BY DEF Available
  <2>3. UNION {ReferenceCandidates(i, line'[r]) : i \in Available(r)' \ unread'[r]} = {}
    BY <2>1, <2>2
  <2> QED
    BY <2>1, <2>2, <2>3 DEF ScanInHand, LineInScan, DecidedByRules
<1>6. ASSUME TakeDebit(r)
      PROVE  ScanInHand'
  <2>1. PICK m \in todo[r] :
            /\ line'[r] = m /\ ~IsCredit(m) /\ pc'[r] = "bankLine"
            /\ result'[r] = Unmatched(m, "DEBIT")
    BY <1>6 DEF TakeDebit, Take, Sound, TypeOK
  <2>2. \A T : Verdict(m, T) = {Unmatched(m, "DEBIT")}
    BY <2>1 DEF Verdict, Section7
  <2> QED
    BY <2>1, <2>2 DEF ScanInHand, LineInScan, DecidedByRules
<1>7. ASSUME FetchAvailable(r)
      PROVE  ScanInHand'
  <2>1. PICK i \in unread[r] :
            /\ Fetch(r, i) /\ IsAvailable(r, i)
            /\ candidates' = [candidates EXCEPT ![r] = @ \cup ReferenceCandidates(i, line[r])]
            /\ UNCHANGED unavailable
    BY <1>7 DEF FetchAvailable
  <2>2. /\ pc[r] = "references" /\ pc' = pc /\ line' = line
        /\ unread'[r] = unread[r] \ {i} /\ Available(r)' = S
        /\ candidates'[r] = candidates[r] \cup ReferenceCandidates(i, l)
    BY <1>2, <2>1 DEF Fetch, Sound, TypeOK
  <2>3. i \in S
    BY <2>1 DEF Available, Sound, TypeOK
  <2>4. S \ unread'[r] = (S \ unread[r]) \cup {i}
    BY <2>2, <2>3
  <2>5. S \cup unread'[r] = S \cup unread[r]
    BY <2>2, <2>3
  <2>6. UNION {ReferenceCandidates(k, l) : k \in S \ unread'[r]}
            = (UNION {ReferenceCandidates(k, l) : k \in S \ unread[r]}) \cup ReferenceCandidates(i, l)
    <3> DEFINE A == S \ unread[r]
               B == S \ unread'[r]
    <3>1. B = A \cup {i}
      BY <2>4
    <3> HIDE DEF A, B, l
    <3>2. UNION {ReferenceCandidates(k, l) : k \in B}
              = (UNION {ReferenceCandidates(k, l) : k \in A}) \cup ReferenceCandidates(i, l)
      BY <3>1, OneReadMore
    <3> QED
      BY <3>2 DEF A, B
  <2> QED
    BY <2>1, <2>2, <2>5, <2>6 DEF ScanInHand, LineInScan, DecidedByRules
<1>8. ASSUME FetchUnavailable(r)
      PROVE  ScanInHand'
  <2>1. PICK i \in unread[r] :
            /\ Fetch(r, i) /\ ~IsAvailable(r, i)
            /\ unavailable' = [unavailable EXCEPT ![r] = @ \/ NamedBy(i, line[r])]
            /\ UNCHANGED candidates
    BY <1>8 DEF FetchUnavailable
  <2>2. /\ pc[r] = "references" /\ pc' = pc /\ line' = line
        /\ unread'[r] = unread[r] \ {i} /\ Available(r)' = S
    BY <1>2, <2>1 DEF Fetch, Sound, TypeOK
  <2>3. i \in InvoiceIds \ S
    BY <2>1 DEF Available, Sound, TypeOK
  <2>4. S \ unread'[r] = S \ unread[r]
    BY <2>2, <2>3
  <2>5. InvoiceIds \ (S \cup unread'[r]) = (InvoiceIds \ (S \cup unread[r])) \cup {i}
    BY <2>2, <2>3
  <2>6. unavailable'[r] <=> unavailable[r] \/ NamedBy(i, l)
    BY <2>1 DEF Sound, TypeOK
  <2>7. unavailable'[r] <=> \E k \in InvoiceIds \ (S \cup unread'[r]) : NamedBy(k, l)
    BY <2>2, <2>5, <2>6 DEF ScanInHand, LineInScan
  <2> QED
    BY <2>1, <2>2, <2>4, <2>7 DEF ScanInHand, LineInScan, DecidedByRules
<1>9. ASSUME EndScan(r)
      PROVE  ScanInHand'
  <2>1. /\ pc[r] = "references" /\ unread[r] = {} /\ step'[r] = 1
        /\ pc'[r] = IF candidates[r] = {} THEN "customers" ELSE "decide"
        /\ UNCHANGED <<line, candidates, unavailable>> /\ Available(r)' = S
    BY <1>2, <1>9 DEF EndScan, Sound, TypeOK
  <2>2. candidates[r] = UNION {ReferenceCandidates(i, l) : i \in S}
    BY <2>1 DEF ScanInHand, LineInScan
  <2>3. /\ Weighed(candidates[r], l, S, 2)
        /\ candidates[r] # {} => Weighed(candidates[r], l, S, 5)
    BY <1>1, <2>1, <2>2, ReferencesWeighed
  <2>4. unavailable[r] <=> \E i \in InvoiceIds \ S : NamedBy(i, l)
    BY <2>1 DEF ScanInHand, LineInScan
  <2>5. IsCredit(l)
    BY <2>1 DEF ScanInHand, LineInScan
  <2>6. CASE candidates[r] = {}
    <3>1. step'[r] + 1 = 2 /\ pc'[r] = "customers"
      BY <2>1, <2>6
    <3>2. Weighed(candidates[r], l, S, step'[r] + 1)
      BY <2>3, <3>1
    <3> QED
      BY <2>1, <2>4, <2>5, <3>1, <3>2 DEF ScanInHand, LineInScan, DecidedByRules
  <2>7. CASE candidates[r] # {}
    BY <2>1, <2>3, <2>4, <2>5, <2>7 DEF ScanInHand, LineInScan, DecidedByRules
  <2> QED
    BY <2>6, <2>7
<1>10. ASSUME ReadCustomer(r)
       PROVE  ScanInHand'
  <2> DEFINE n == step[r]
             available == {i \in InvoiceIds :
                              /\ Invoice[i].customer = CustomerFor(CustomerRules[n], line[r])
                              /\ IsAvailable(r, i)}
             D == IF candidates[r] = {} THEN CustomerCandidates(CustomerRules[n], l, available)
                                        ELSE candidates[r]
  <2>1. /\ pc[r] = "customers" /\ n \in 1..3 /\ step'[r] = n + 1
        /\ pc'[r] = IF n = 3 THEN "decide" ELSE "customers"
        /\ UNCHANGED <<line, unavailable>> /\ Available(r)' = S
        /\ candidates'[r] = D
    <3>1. Len(CustomerRules) = 3
      BY DEF CustomerRules
    <3>2. pc[r] = "customers" /\ n \in 1..3
      BY <1>10 DEF ReadCustomer, Sound, LineInHand
    <3>3. /\ step'[r] = n + 1 /\ UNCHANGED <<line, unavailable>> /\ Available(r)' = S
          /\ pc'[r] = IF n = 3 THEN "decide" ELSE "customers"
      BY <1>2, <1>10, <3>1, <3>2 DEF ReadCustomer, Sound, TypeOK
    <3>4. candidates'[r] = D
      BY <1>10 DEF ReadCustomer, Sound, TypeOK
    <3> QED
      BY <3>2, <3>3, <3>4
  <2>2. available = OfCustomer(CustomerFor(CustomerRules[n], l), S)
    BY DEF OfCustomer, Available
  <2>3. Weighed(candidates[r], l, S, n + 1) /\ IsCredit(l)
          /\ (unavailable[r] <=> \E i \in InvoiceIds \ S : NamedBy(i, l))
    BY <2>1 DEF ScanInHand, LineInScan
  <2>4. Weighed(D, l, S, n + 2)
    <3>1. l \in LineIds
      BY <1>1, <2>1
    <3> DEFINE C == candidates[r]
               E == D
    <3>2. E = IF C = {} THEN CustomerCandidates(CustomerRules[n], l, available) ELSE C
      OBVIOUS
    <3>3. S \in SUBSET InvoiceIds /\ n \in 1..3 /\ Weighed(C, l, S, n + 1)
      BY <1>1, <2>1, <2>3
    <3> HIDE DEF n, available, C, E, S, l
    <3>4. Weighed(E, l, S, n + 2)
      BY <2>2, <3>1, <3>2, <3>3, CustomersWeighed
    <3> QED
      BY <3>4 DEF E
  <2> HIDE DEF D, available
  <2>5. CASE n = 3
    BY <2>1, <2>3, <2>4, <2>5 DEF ScanInHand, LineInScan, DecidedByRules
  <2>6. CASE n # 3
    <3>1. step'[r] + 1 = n + 2
      BY <2>1
    <3> QED
      BY <2>1, <2>3, <2>4, <2>6, <3>1 DEF ScanInHand, LineInScan, DecidedByRules
  <2> QED
    BY <2>5, <2>6
<1>11. ASSUME DecideMatch(r)
       PROVE  ScanInHand'
  <2>1. PICK c \in candidates[r] :
            /\ IsBest(c, candidates[r])
            /\ result' = [result EXCEPT ![r] = Matched(line[r], c.rule, c.invoices)]
            /\ consumed' = [consumed EXCEPT ![r] = @ \cup c.invoices]
    BY <1>11 DEF DecideMatch
  <2>2. /\ pc[r] = "decide" /\ pc'[r] = "bankLine" /\ UNCHANGED <<line, status>>
        /\ result'[r] = Matched(l, c.rule, c.invoices)
        /\ consumed'[r] = consumed[r] \cup c.invoices
    BY <1>11, <2>1 DEF DecideMatch, Sound, TypeOK
  <2>3. Weighed(candidates[r], l, S, 5) /\ IsCredit(l) /\ l \in LineIds
    BY <1>1, <2>2 DEF ScanInHand, LineInScan
  <2>4. c.invoices \subseteq S
    <3>1. c.rule \in Rules /\ c \in Found(c.rule, l, S)
      BY <2>1, <2>3 DEF Weighed, RulesTo
    <3> QED
      BY <1>1, <2>3, <3>1, ProposalShown
  <2>5. Available(r)' \cup result'[r].invoices = S
    BY <2>2, <2>4 DEF Available, IsAvailable, Matched
  <2>6. FirstFound(l, S) = {result'[r]}
    <3>1. S \in SUBSET InvoiceIds
      BY <1>1
    <3> HIDE DEF S, l
    <3> QED
      BY <2>1, <2>2, <2>3, <3>1, BestDecides
  <2>7. Verdict(l, S) = {result'[r]}
    BY <2>3, <2>6 DEF Verdict
  <2> QED
    BY <2>2, <2>5, <2>7 DEF ScanInHand, LineInScan, DecidedByRules
<1>12. ASSUME DecideNoMatch(r)
       PROVE  ScanInHand'
  <2>1. /\ pc[r] = "decide" /\ pc'[r] = "bankLine" /\ candidates[r] = {}
        /\ UNCHANGED line /\ Available(r)' = S
        /\ result'[r] = Unmatched(l, IF unavailable[r] THEN "INVOICE_CONSUMED"
                                                       ELSE "NO_CANDIDATE")
    BY <1>2, <1>12 DEF DecideNoMatch, Sound, TypeOK
  <2>2. /\ Weighed({}, l, S, 5) /\ IsCredit(l)
        /\ unavailable[r] <=> \E i \in InvoiceIds \ S : NamedBy(i, l)
    BY <2>1 DEF ScanInHand, LineInScan
  <2>3. FirstFound(l, S) = {}
    BY <2>2, NobodyDecides
  <2>4. Section7(l, S) = result'[r]
    BY <2>1, <2>2 DEF Section7
  <2>5. Available(r)' \cup result'[r].invoices = S
    BY <2>1 DEF Unmatched
  <2>6. Verdict(l, S) = {result'[r]}
    BY <2>3, <2>4 DEF Verdict
  <2> QED
    BY <2>1, <2>5, <2>6 DEF ScanInHand, LineInScan, DecidedByRules
<1>13. ASSUME \/ InsertBankLine(r) \/ MarkInvoice(r) \/ EndLine(r)
              \/ EndMatching(r) \/ OpenFile(r) \/ CloseFile(r)
       PROVE  ScanInHand'
  <2>1. pc'[r] \in {"mark", "nextLine", "openFile", "closeFile", "done"}
    BY <1>13 DEF InsertBankLine, MarkInvoice, EndLine, EndMatching, OpenFile, CloseFile,
                 Sound, TypeOK
  <2> QED
    BY <2>1, NothingInHand
<1>14. ASSUME UNCHANGED vars
       PROVE  ScanInHand'
  <2>1. /\ Available(r)' = S
        /\ UNCHANGED <<pc, line, candidates, unread, unavailable, step, result>>
    BY <1>2, <1>14 DEF vars
  <2>2. LineInScan(r)' /\ DecidedByRules(r)'
    BY <2>1 DEF ScanInHand, LineInScan, DecidedByRules
  <2> QED
    BY <2>2 DEF ScanInHand
<1>15. ASSUME RunStep(r)
       PROVE  ScanInHand'
  BY <1>5, <1>6, <1>7, <1>8, <1>9, <1>10, <1>11, <1>12, <1>13, <1>15 DEF RunStep
<1> QED
  BY <1>3, <1>4, <1>14, <1>15 DEF Next

(* Where the two batch searches agree, or an earlier rule decides, what    *)
(* the code makes of a line is what sections 4 to 7 make of it.            *)
LEMMA VerdictIsSection4To7 ==
    ASSUME NEW l, NEW S, ~SearchesDiffer(l, S)
    PROVE  Verdict(l, S) = Section4To7(l, S)
PROOF
<1> DEFINE own == OfCustomer(ByIbanOrName(l), S)
           Leads(q) == \A p \in Rules : RulePriority[p] < RulePriority[q] => Proposals(p, l, S) = {}
           LeadsShipped(q) == \A p \in Rules : RulePriority[p] < RulePriority[q] => Found(p, l, S) = {}
<1>1. \A q \in Rules \ {"B3"} : Found(q, l, S) = Proposals(q, l, S)
  BY DEF Found
<1>2. \A q \in Rules : Leads(q) <=> LeadsShipped(q)
  <2>1. \A p, q \in Rules : RulePriority[p] < RulePriority[q] => p # "B3"
    BY DEF Rules, RulePriority
  <2> QED
    BY <1>1, <2>1
<1>3. CASE ~IsCredit(l)
  BY <1>3 DEF Verdict, Section4To7
<1>4. CASE IsCredit(l)
  <2>1. ASSUME NEW q \in Rules, Leads(q)
        PROVE  Found(q, l, S) = Proposals(q, l, S)
    <3>1. CASE q # "B3"
      BY <1>1, <3>1
    <3>2. CASE q = "B3"
      <4>1. \A p \in Rules \ {"B3"} : Proposals(p, l, S) = {}
        BY <2>1, <3>2 DEF Rules, RulePriority
      <4>2. FindBatch(own, Line[l].amount) = Section4Batch(own, Line[l].amount)
        BY <1>4, <4>1 DEF SearchesDiffer
      <4>3. RuleB3(l, own) = Section4RuleB3(l, own)
        BY <4>2 DEF RuleB3, Section4RuleB3
      <4> QED
        BY <3>2, <4>3 DEF Found, Proposals
    <3> QED
      BY <3>1, <3>2
  <2> HIDE DEF Leads, LeadsShipped
  <2>2. FirstFound(l, S) = Section5(l, S)
    <3> DEFINE Small(q, P) == {Matched(l, q, c.invoices) : c \in {c \in P : Smallest(c, P)}}
    <3>1. Section5(l, S) = UNION {Small(q, Proposals(q, l, S)) : q \in {q \in Rules : Leads(q)}}
      BY DEF Section5, Leads
    <3>2. FirstFound(l, S)
              = UNION {Small(q, Found(q, l, S)) : q \in {q \in Rules : LeadsShipped(q)}}
      BY DEF FirstFound, LeadsShipped
    <3> HIDE DEF Small
    <3>3. {q \in Rules : Leads(q)} = {q \in Rules : LeadsShipped(q)}
      BY <1>2
    <3> DEFINE Q == {q \in Rules : Leads(q)}
    <3>4. \A q \in Q : Small(q, Proposals(q, l, S)) = Small(q, Found(q, l, S))
      BY <2>1
    <3> HIDE DEF Q
    <3>5. UNION {Small(q, Proposals(q, l, S)) : q \in Q} = UNION {Small(q, Found(q, l, S)) : q \in Q}
      BY <3>4
    <3> QED
      BY <3>1, <3>2, <3>3, <3>5 DEF Q
  <2> QED
    BY <1>4, <2>2 DEF Verdict, Section4To7
<1> QED
  BY <1>3, <1>4

(***************************************************************************)
(* With one runner at a time, kills and reruns included, every decision is *)
(* the one sections 4 to 7 give for the ledger of one instant, save where  *)
(* the shipped batch search departs from section 4: the reads, each on a   *)
(* connection of its own, add up to a snapshot.                            *)
(***************************************************************************)
THEOREM LoneRunnerDecides ==
    ASSUME NEW r \in Runs, Runs = {r}
    PROVE  Spec => []DecisionFollowsRules
PROOF
<1>1. Init => ScanInHand
  BY DEF Init, ScanInHand, LineInScan, DecidedByRules
<1>2. Sound /\ ScanInHand /\ [Next]_vars => ScanInHand'
  BY ScanStep
<1>3. ScanInHand => DecisionFollowsRules
  BY VerdictIsSection4To7 DEF ScanInHand, DecidedByRules, DecisionFollowsRules
<1> QED
  BY <1>1, <1>2, <1>3, AlwaysSound, PTL DEF Spec

-----------------------------------------------------------------------------
(* The run so far: its results, the lines left and the rows it added.      *)

FileNames == {"matches", "unmatched", "summary"}

LinesIn(R) == {res.line : res \in R}

OneResultPerLine(R) == \A res, other \in R : res.line = other.line => res = other

RowsFor(res, S) == {Book!Row(res.line, i, res.rule) : i \in S}

RowsOf(R) == UNION {RowsFor(res, res.invoices) : res \in R}

TakenLine(r) ==
    IF pc[r] \in {"references", "customers", "decide", "bankLine", "mark"} THEN {line[r]} ELSE {}

PostedInHand(r) ==
    IF pc[r] = "mark" THEN RowsFor(result[r], result[r].invoices \ unmarked[r]) ELSE {}

RunSoFar(r) ==
    /\ ~Running(r) => results[r] = {}
    /\ Running(r) =>
        /\ OneResultPerLine(results[r])
        /\ statement[r] = LinesIn(results[r]) \cup todo[r] \cup TakenLine(r)
        /\ LinesIn(results[r]) \cap todo[r] = {}
        /\ TakenLine(r) \cap (LinesIn(results[r]) \cup todo[r]) = {}
        /\ pc[r] \in {"openFile", "closeFile"} => todo[r] = {}
        /\ rowsAtLaunch[r] \subseteq matchResults
        /\ matchResults \ rowsAtLaunch[r] = RowsOf(results[r]) \cup PostedInHand(r)

(* R is what a run that ends now has found. *)
Complete(r, R) ==
    /\ R \subseteq Results /\ OneResultPerLine(R)
    /\ statement[r] = LinesIn(R) /\ statement[r] \subseteq bankLines \cap LineIds
    /\ matchResults \ rowsAtLaunch[r] = RowsOf(R)

FiledAs(file, name, R) == file = Written(Content(name, R))

FilesSoFar(r) ==
    /\ DOMAIN files[r] = FileNames
    /\ pc[r] \in {"openFile", "closeFile"} =>
           \A n \in 1..3 : n < step[r] =>
               FiledAs(files[r][ReportFiles[n]], ReportFiles[n], results[r])
    /\ pc[r] = "done" =>
           \E R : /\ Complete(r, R)
                  /\ \A n \in 1..3 : FiledAs(files[r][ReportFiles[n]], ReportFiles[n], R)

ReportsInv ==
    /\ DOMAIN files = Runs
    /\ \A r \in Runs : RunSoFar(r) /\ FilesSoFar(r)

-----------------------------------------------------------------------------
(* Counting lines and rows. *)

LEMMA RowsOfMember ==
    ASSUME NEW R
    PROVE  \A row : row \in RowsOf(R) <=>
               \E res \in R : \E i \in res.invoices : row = Book!Row(res.line, i, res.rule)
PROOF
  BY DEF RowsOf, RowsFor

LEMMA LinesCount ==
    ASSUME NEW R \in SUBSET Results, OneResultPerLine(R)
    PROVE  IsFiniteSet(R) /\ Cardinality(LinesIn(R)) = Cardinality(R)
PROOF
<1> DEFINE f == [res \in R |-> res.line]
           T == LinesIn(R)
<1>1. T \subseteq LineIds
  BY DEF LinesIn, Results
<1>2. IsFiniteSet(T)
  BY <1>1, LineIdsAssumption, FS_Subset
<1>3. f \in Injection(R, T) /\ f \in Surjection(R, T)
  BY DEF OneResultPerLine, LinesIn, Injection, Surjection, IsInjective
<1> HIDE DEF f, T
<1> QED
  BY <1>2, <1>3, FS_Injection DEF T

LEMMA RowsForCount ==
    ASSUME NEW res, NEW S, IsFiniteSet(S)
    PROVE  IsFiniteSet(RowsFor(res, S)) /\ Cardinality(RowsFor(res, S)) = Cardinality(S)
PROOF
<1> DEFINE T == RowsFor(res, S)
           f == [i \in S |-> Book!Row(res.line, i, res.rule)]
<1>1. \A i \in S : Book!Row(res.line, i, res.rule).invoice = i
  BY DEF Book!Row
<1>2. f \in Injection(S, T) /\ f \in Surjection(S, T)
  BY <1>1 DEF RowsFor, Injection, Surjection, IsInjective
<1> HIDE DEF f, T
<1>3. ExistsBijection(S, T)
  BY <1>2 DEF ExistsBijection, Bijection
<1> QED
  BY <1>3, FS_Bijection DEF T

LEMMA RowsCount ==
    ASSUME NEW R \in SUBSET Results, OneResultPerLine(R)
    PROVE  /\ IsFiniteSet(RowsOf(R))
           /\ Cardinality(RowsOf(R)) = SumFunction([res \in R |-> Cardinality(res.invoices)])
PROOF
<1> DEFINE f == [res \in R |-> Cardinality(res.invoices)]
           Counted(s) == IsFiniteSet(RowsOf(s)) /\ Cardinality(RowsOf(s)) = Sum(f, s)
           T == {s \in SUBSET R : ~Counted(s)}
<1>1. IsFiniteSet(R)
  BY LinesCount
<1>2. ASSUME NEW res \in R
      PROVE  IsFiniteSet(res.invoices) /\ f[res] = Cardinality(res.invoices) /\ f[res] \in Nat
  <2>1. res.invoices \subseteq InvoiceIds
    BY DEF Results
  <2>2. IsFiniteSet(res.invoices)
    BY <2>1, InvoiceIdsAssumption, FS_Subset
  <2> QED
    BY <2>2, FS_CardinalityType
<1>3. DOMAIN f = R
  OBVIOUS
<1> HIDE DEF f
<1>4. T = {}
  <2>1. SUFFICES ASSUME T # {}
                 PROVE  FALSE
    OBVIOUS
  <2>2. PICK x \in T : \A y \in T : y \subseteq x => y = x
    <3>1. T \in SUBSET SUBSET R
      OBVIOUS
    <3> HIDE DEF T
    <3> QED
      BY <1>1, <2>1, <3>1, Minimal
  <2>3. x \subseteq R /\ IsFiniteSet(x) /\ ~Counted(x)
    BY <1>1, FS_Subset
  <2>4. x # {}
    <3>1. RowsOf({}) = {}
      BY DEF RowsOf
    <3>2. Counted({})
      BY <3>1, FS_EmptySet, SumStep
    <3> QED
      BY <2>3, <3>2
  <2> DEFINE z == First(x)
             rest == x \ {z}
  <2>5. z \in x /\ Sum(f, x) = f[z] + Sum(f, rest)
    BY <2>3, <2>4, SumStep
  <2>6. Counted(rest)
    BY <2>2, <2>3, <2>5
  <2>7. RowsOf(x) = RowsFor(z, z.invoices) \cup RowsOf(rest)
    <3>1. x = rest \cup {z}
      BY <2>5
    <3> HIDE DEF z, rest
    <3>2. \A row : row \in RowsOf(x) <=> row \in RowsFor(z, z.invoices) \/ row \in RowsOf(rest)
      BY <3>1, RowsOfMember DEF RowsFor
    <3> QED
      BY <3>2
  <2>8. RowsFor(z, z.invoices) \cap RowsOf(rest) = {}
    <3>1. \A row \in RowsFor(z, z.invoices) : row.line = z.line
      BY DEF RowsFor, Book!Row
    <3>2. \A row \in RowsOf(rest) : \E res \in rest : row.line = res.line
      BY RowsOfMember DEF Book!Row
    <3>3. \A res \in rest : res.line # z.line
      BY <2>3, <2>5 DEF OneResultPerLine
    <3> QED
      BY <3>1, <3>2, <3>3
  <2> DEFINE A == RowsFor(z, z.invoices)
             B == RowsOf(rest)
  <2>9. IsFiniteSet(A) /\ Cardinality(A) = f[z] /\ f[z] \in Nat
    BY <1>2, <2>3, <2>5, RowsForCount
  <2>10. IsFiniteSet(B) /\ Cardinality(B) = Sum(f, rest) /\ Cardinality(B) \in Nat
    BY <2>6, FS_CardinalityType
  <2>11. IsFiniteSet(A \cup B) /\ Cardinality(A \cup B) = Cardinality(A) + Cardinality(B)
    <3>1. A \cap B = {}
      BY <2>8
    <3> HIDE DEF A, B
    <3>2. /\ IsFiniteSet(A \cup B)
          /\ Cardinality(A \cup B) = Cardinality(A) + Cardinality(B) - Cardinality(A \cap B)
      BY <2>9, <2>10, FS_Union
    <3>3. Cardinality(A \cap B) = 0
      BY <3>1, FS_EmptySet
    <3> QED
      BY <2>9, <2>10, <3>2, <3>3
  <2>12. RowsOf(x) = A \cup B
    BY <2>7
  <2> HIDE DEF A, B, rest, z
  <2> QED
    BY <2>3, <2>5, <2>9, <2>10, <2>11, <2>12
<1>5. Counted(R)
  BY <1>4
<1> QED
  BY <1>3, <1>5 DEF Sum, SumFunction, f

(* What a run reports of each rule is what the rows it added say.          *)
LEMMA RuleCount ==
    ASSUME NEW R \in SUBSET Results, OneResultPerLine(R), NEW q \in Rules
    PROVE  Cardinality({res \in R : res.rule = q})
               = Cardinality({row.line : row \in {row \in RowsOf(R) : row.rule = q}})
PROOF
<1> DEFINE of == {res \in R : res.rule = q}
           rows == {row \in RowsOf(R) : row.rule = q}
<1>1. of \in SUBSET Results /\ OneResultPerLine(of)
  BY DEF OneResultPerLine
<1>2. {row.line : row \in rows} = LinesIn(of)
  <2>1. ASSUME NEW row \in rows
        PROVE  row.line \in LinesIn(of)
    BY RowsOfMember DEF LinesIn, Book!Row
  <2>2. ASSUME NEW res \in of
        PROVE  \E row \in rows : row.line = res.line
    <3>1. q # "none"
      BY DEF Rules
    <3>2. res \in R /\ res.rule = q /\ res.invoices # {}
      BY <3>1 DEF Results, IsMatched
    <3>3. PICK i \in res.invoices : TRUE
      BY <3>2
    <3> DEFINE row == Book!Row(res.line, i, res.rule)
    <3>4. row \in RowsOf(R) /\ row.rule = q /\ row.line = res.line
      BY <3>2, RowsOfMember DEF Book!Row
    <3> QED
      BY <3>4
  <2> QED
    BY <2>1, <2>2 DEF LinesIn
<1>3. Cardinality(LinesIn(of)) = Cardinality(of)
  <2> HIDE DEF of
  <2> QED
    BY <1>1, LinesCount
<1> QED
  BY <1>2, <1>3

(***************************************************************************)
(* Files with the results of a complete run mirror the ledger.             *)
(***************************************************************************)
LEMMA CompleteMirrors ==
    ASSUME NEW r \in Runs, DOMAIN files[r] = FileNames, NEW R, Complete(r, R),
           \A n \in 1..3 : FiledAs(files[r][ReportFiles[n]], ReportFiles[n], R)
    PROVE  LET added == matchResults \ rowsAtLaunch[r]
               summary == CHOOSE s \in Reported(r, "summary") : TRUE
           IN  /\ \A f \in DOMAIN files[r] : files[r][f].state = "written"
               /\ ReportedLines(r) = statement[r]
               /\ statement[r] \subseteq bankLines
               /\ PairsOf(ReportedMatches(r)) = {<<row.line, row.invoice>> : row \in added}
               /\ summary.lines = Cardinality(statement[r])
               /\ summary.matchedLines = Cardinality(ReportedMatches(r))
               /\ summary.matchedInvoices = Cardinality(added)
               /\ summary.matchedLines + summary.unmatchedLines = summary.lines
               /\ \A rule \in Rules :
                      summary.byRule[rule] =
                          Cardinality({row.line : row \in {row \in added : row.rule = rule}})
PROOF
<1> DEFINE matched == {res \in R : IsMatched(res)}
           added == matchResults \ rowsAtLaunch[r]
           summary == CHOOSE s \in Reported(r, "summary") : TRUE
<1>1. /\ R \in SUBSET Results /\ OneResultPerLine(R) /\ statement[r] = LinesIn(R)
      /\ statement[r] \subseteq bankLines /\ added = RowsOf(R)
  BY DEF Complete
<1>2. /\ files[r]["matches"] = Written(matched)
      /\ files[r]["unmatched"] = Written({res \in R : ~IsMatched(res)})
      /\ files[r]["summary"] = Written({Summary(R)})
  BY DEF FiledAs, ReportFiles, Content
<1>3. \A f \in DOMAIN files[r] : files[r][f].state = "written"
  BY <1>2 DEF FileNames, Written
<1>4. /\ ReportedMatches(r) = matched /\ Reported(r, "unmatched") = R \ matched
      /\ Reported(r, "summary") = {Summary(R)}
  BY <1>2 DEF ReportedMatches, Reported, Written
<1>5. summary = Summary(R)
  BY <1>4
<1>6. ReportedLines(r) = statement[r]
  BY <1>1, <1>4 DEF ReportedLines, LinesIn
<1>7. IsFiniteSet(R) /\ Cardinality(R) = Cardinality(statement[r])
  BY <1>1, LinesCount
<1>8. IsFiniteSet(matched) /\ Cardinality(matched) \in Nat /\ Cardinality(R) \in Nat
        /\ Cardinality(R \ matched) = Cardinality(R) - Cardinality(matched)
  <2>1. IsFiniteSet(matched)
    BY <1>7, FS_Subset
  <2>2. R \cap matched = matched
    OBVIOUS
  <2> HIDE DEF matched
  <2>3. Cardinality(matched) \in Nat /\ Cardinality(R) \in Nat
    BY <1>7, <2>1, FS_CardinalityType
  <2>4. Cardinality(R \ matched) = Cardinality(R) - Cardinality(R \cap matched)
    BY <1>7, FS_Difference
  <2> QED
    BY <2>1, <2>2, <2>3, <2>4
<1>9. RowsOf(matched) = RowsOf(R)
  <2>1. ASSUME NEW row
        PROVE  row \in RowsOf(matched) <=> row \in RowsOf(R)
    <3>1. \A res \in R : res.invoices # {} => res \in matched
      BY <1>1 DEF Results
    <3> QED
      BY <3>1, RowsOfMember
  <2> QED
    BY <2>1
<1>10. Cardinality(added) = SumFunction([res \in matched |-> Cardinality(res.invoices)])
  <2>1. matched \in SUBSET Results /\ OneResultPerLine(matched)
    BY <1>1 DEF OneResultPerLine
  <2> HIDE DEF matched, added
  <2> QED
    BY <1>1, <1>9, <2>1, RowsCount DEF added
<1>11. PairsOf(ReportedMatches(r)) = {<<row.line, row.invoice>> : row \in added}
  <2>1. \A pair : pair \in PairsOf(matched) <=>
            \E res \in matched : \E i \in res.invoices : pair = <<res.line, i>>
    BY DEF PairsOf
  <2>2. \A pair : pair \in {<<row.line, row.invoice>> : row \in RowsOf(matched)} <=>
            \E res \in matched : \E i \in res.invoices : pair = <<res.line, i>>
    <3>1. \A res, i : LET row == Book!Row(res.line, i, res.rule)
                      IN  row.line = res.line /\ row.invoice = i
      BY DEF Book!Row
    <3> HIDE DEF matched
    <3>2. ASSUME NEW row \in RowsOf(matched)
          PROVE  \E res \in matched : \E i \in res.invoices :
                     <<row.line, row.invoice>> = <<res.line, i>>
      <4>1. PICK res \in matched : \E i \in res.invoices : row = Book!Row(res.line, i, res.rule)
        BY RowsOfMember
      <4>2. PICK i \in res.invoices : row = Book!Row(res.line, i, res.rule)
        BY <4>1
      <4> QED
        BY <3>1, <4>2
    <3>3. ASSUME NEW res \in matched, NEW i \in res.invoices
          PROVE  \E row \in RowsOf(matched) : <<row.line, row.invoice>> = <<res.line, i>>
      <4> DEFINE row == Book!Row(res.line, i, res.rule)
      <4>1. row \in RowsOf(matched)
        BY RowsOfMember
      <4> QED
        BY <3>1, <4>1
    <3> QED
      BY <3>2, <3>3
  <2> HIDE DEF matched, added
  <2>3. PairsOf(matched) = {<<row.line, row.invoice>> : row \in RowsOf(matched)}
    BY <2>1, <2>2
  <2> QED
    BY <1>1, <1>4, <1>9, <2>3
<1>12. /\ summary.lines = Cardinality(R) /\ summary.matchedLines = Cardinality(matched)
       /\ summary.unmatchedLines = Cardinality(R \ matched)
       /\ summary.matchedInvoices = SumFunction([res \in matched |-> Cardinality(res.invoices)])
       /\ \A q \in Rules : summary.byRule[q] = Cardinality({res \in R : res.rule = q})
  <2> HIDE DEF summary
  <2> QED
    BY <1>5 DEF Summary
<1>13. \A q \in Rules :
           summary.byRule[q] = Cardinality({row.line : row \in {row \in added : row.rule = q}})
  <2> HIDE DEF summary, added
  <2> QED
    BY <1>1, <1>12, RuleCount
<1>14. summary.matchedLines + summary.unmatchedLines = summary.lines
  <2> HIDE DEF summary, matched
  <2> QED
    BY <1>8, <1>12
<1> HIDE DEF summary, added, matched
<1>15. /\ summary.lines = Cardinality(statement[r])
       /\ summary.matchedLines = Cardinality(ReportedMatches(r))
       /\ summary.matchedInvoices = Cardinality(added)
  BY <1>4, <1>7, <1>10, <1>12
<1> QED
  BY <1>1, <1>3, <1>6, <1>11, <1>13, <1>14, <1>15 DEF summary, added

-----------------------------------------------------------------------------
(* The run so far, step by step. *)

(* A step within the line in hand, before its postings. *)
LEMMA RunQuiet ==
    ASSUME NEW r \in Runs, RunSoFar(r),
           {pc[r], pc'[r]} \subseteq {"references", "customers", "decide", "bankLine"},
           line'[r] = line[r], todo'[r] = todo[r],
           UNCHANGED <<matchResults, results, statement, rowsAtLaunch>>
    PROVE  RunSoFar(r)'
PROOF
<1>1. pc[r] \in {"references", "customers", "decide", "bankLine"}
        /\ pc'[r] \in {"references", "customers", "decide", "bankLine"}
  OBVIOUS
<1>2. Running(r) /\ Running(r)'
  BY <1>1 DEF Running, Ended
<1>3. TakenLine(r)' = TakenLine(r) /\ PostedInHand(r) = {} /\ PostedInHand(r)' = {}
  BY <1>1 DEF TakenLine, PostedInHand
<1> QED
  BY <1>1, <1>2, <1>3 DEF RunSoFar

LEMMA RunTakes ==
    ASSUME Sound, NEW r \in Runs, RunSoFar(r), TakeCredit(r) \/ TakeDebit(r)
    PROVE  RunSoFar(r)'
PROOF
<1> USE DEF ledger, memory, scan, history
<1>1. PICK l \in todo[r] : Take(r, l)
  BY DEF TakeCredit, TakeDebit
<1>2. /\ pc[r] = "nextLine" /\ pc'[r] \in {"references", "bankLine"}
      /\ todo'[r] = todo[r] \ {l} /\ line'[r] = l
      /\ UNCHANGED <<matchResults, results, statement, rowsAtLaunch>>
  BY <1>1 DEF TakeCredit, TakeDebit, Take, Sound, TypeOK
<1>3. Running(r) /\ Running(r)'
  BY <1>2 DEF Running, Ended
<1>4. TakenLine(r) = {} /\ TakenLine(r)' = {l} /\ PostedInHand(r) = {} /\ PostedInHand(r)' = {}
  BY <1>2 DEF TakenLine, PostedInHand
<1>5. /\ statement[r] = LinesIn(results[r]) \cup todo[r]
      /\ LinesIn(results[r]) \cap todo[r] = {}
  BY <1>3, <1>4 DEF RunSoFar
<1>6. /\ statement[r] = LinesIn(results[r]) \cup todo'[r] \cup {l}
      /\ LinesIn(results[r]) \cap todo'[r] = {}
      /\ {l} \cap (LinesIn(results[r]) \cup todo'[r]) = {}
  BY <1>2, <1>5
<1> QED
  BY <1>2, <1>3, <1>4, <1>6 DEF RunSoFar

LEMMA RunMarks ==
    ASSUME Sound, PaidIffRecorded, OpenInHand, NEW r \in Runs, RunSoFar(r), MarkInvoice(r)
    PROVE  RunSoFar(r)'
PROOF
<1>1. PICK i \in unmarked[r] :
          /\ i \in InvoiceIds /\ i \in result[r].invoices /\ result[r].line = line[r]
          /\ matchResults' = Upsert(matchResults, line[r], i, result[r].rule)
          /\ unmarked' = [unmarked EXCEPT ![r] = @ \ {i}]
          /\ UNCHANGED <<pc, line, result, results>>
          /\ pc[r] = "mark"
  BY MarkEffect
<1>2. UNCHANGED <<todo, statement, rowsAtLaunch>>
  BY DEF MarkInvoice, history
<1> DEFINE row == Book!Row(line[r], i, result[r].rule)
<1>3. \A other \in matchResults : other.invoice # i
  <2>1. status[i] = "open"
    BY <1>1 DEF OpenInHand
  <2> QED
    BY <1>1, <2>1 DEF PaidIffRecorded, PaidInvoices
<1>4. matchResults' = matchResults \cup {row}
  BY <1>1, <1>3 DEF Upsert
<1>5. Running(r) /\ Running(r)' /\ TakenLine(r)' = TakenLine(r)
  BY <1>1 DEF Running, Ended, TakenLine
<1>6. rowsAtLaunch[r] \subseteq matchResults /\ row.invoice = i
  BY <1>5 DEF RunSoFar, Book!Row
<1>7. row \notin rowsAtLaunch[r]
  BY <1>3, <1>6
<1>8. matchResults' \ rowsAtLaunch'[r] = (matchResults \ rowsAtLaunch[r]) \cup {row}
  BY <1>2, <1>4, <1>7
<1>9. PostedInHand(r)' = PostedInHand(r) \cup {row}
  <2> DEFINE S == result[r].invoices \ unmarked[r]
             T == result[r].invoices \ (unmarked[r] \ {i})
  <2>1. T = S \cup {i}
    BY <1>1
  <2>2. unmarked'[r] = unmarked[r] \ {i}
    BY <1>1 DEF Sound, TypeOK
  <2>3. PostedInHand(r) = RowsFor(result[r], S) /\ PostedInHand(r)' = RowsFor(result[r], T)
    BY <1>1, <2>2 DEF PostedInHand
  <2> HIDE DEF S, T
  <2>4. RowsFor(result[r], T) = RowsFor(result[r], S) \cup {row}
    BY <1>1, <2>1 DEF RowsFor
  <2> QED
    BY <2>3, <2>4
<1>10. pc[r] \notin {"openFile", "closeFile"} /\ results' = results
  BY <1>1
<1> QED
  BY <1>1, <1>2, <1>4, <1>5, <1>6, <1>8, <1>9, <1>10 DEF RunSoFar

LEMMA RunKeeps ==
    ASSUME Sound, NEW r \in Runs, RunSoFar(r), EndLine(r)
    PROVE  RunSoFar(r)'
PROOF
<1> USE DEF ledger, history
<1> DEFINE res == result[r]
           R == results[r]
<1>1. /\ pc[r] = "mark" /\ unmarked[r] = {} /\ pc'[r] = "nextLine"
      /\ results'[r] = R \cup {res}
      /\ UNCHANGED <<matchResults, todo, statement, rowsAtLaunch>>
  BY DEF EndLine, Sound, TypeOK
<1>2. Running(r) /\ Running(r)' /\ res.line = line[r]
  BY <1>1 DEF Running, Ended, Sound, LineInHand
<1>3. /\ TakenLine(r) = {res.line} /\ TakenLine(r)' = {}
      /\ PostedInHand(r) = RowsFor(res, res.invoices) /\ PostedInHand(r)' = {}
  <2>1. res.invoices \ unmarked[r] = res.invoices
    BY <1>1
  <2> QED
    BY <1>1, <1>2, <2>1 DEF TakenLine, PostedInHand
<1>4. LinesIn(R \cup {res}) = LinesIn(R) \cup {res.line}
  BY DEF LinesIn
<1>5. RowsOf(R \cup {res}) = RowsOf(R) \cup RowsFor(res, res.invoices)
  <2> HIDE DEF R, res
  <2>1. \A row : row \in RowsOf(R \cup {res})
                     <=> row \in RowsOf(R) \/ row \in RowsFor(res, res.invoices)
    BY RowsOfMember DEF RowsFor
  <2> QED
    BY <2>1
<1>6. /\ OneResultPerLine(R) /\ res.line \notin LinesIn(R)
      /\ statement[r] = LinesIn(R) \cup todo[r] \cup {res.line}
      /\ LinesIn(R) \cap todo[r] = {} /\ res.line \notin todo[r]
      /\ rowsAtLaunch[r] \subseteq matchResults
      /\ matchResults \ rowsAtLaunch[r] = RowsOf(R) \cup RowsFor(res, res.invoices)
  BY <1>2, <1>3 DEF RunSoFar
<1>7. OneResultPerLine(R \cup {res})
  BY <1>6 DEF OneResultPerLine, LinesIn
<1> HIDE DEF R, res
<1>8. /\ statement'[r] = LinesIn(results'[r]) \cup todo'[r]
      /\ LinesIn(results'[r]) \cap todo'[r] = {}
      /\ rowsAtLaunch'[r] \subseteq matchResults'
      /\ matchResults' \ rowsAtLaunch'[r] = RowsOf(results'[r])
  BY <1>1, <1>4, <1>5, <1>6
<1> QED
  BY <1>1, <1>2, <1>3, <1>7, <1>8 DEF RunSoFar

(* Launched, rejected or killed, a slot has no results. *)
LEMMA RunStarts ==
    ASSUME Sound, NEW r \in Runs, RunSoFar(r), NEW s \in Statements, Launch(r, s)
    PROVE  RunSoFar(r)'
PROOF
<1> USE DEF ledger, history
<1>1. /\ ~Running(r) /\ pc'[r] = "nextLine"
      /\ todo'[r] = LinesOf(s) /\ statement'[r] = LinesOf(s)
      /\ rowsAtLaunch'[r] = matchResults /\ UNCHANGED <<matchResults, results>>
  BY DEF Launch, NewLaunch, Sound, TypeOK
<1>2. Running(r)' /\ TakenLine(r)' = {} /\ PostedInHand(r)' = {} /\ results'[r] = {}
  BY <1>1 DEF RunSoFar, Running, Ended, TakenLine, PostedInHand
<1>3. RowsOf({}) = {} /\ LinesIn({}) = {} /\ OneResultPerLine({})
  BY DEF RowsOf, LinesIn, OneResultPerLine
<1> QED
  BY <1>1, <1>2, <1>3 DEF RunSoFar

LEMMA RunEnds ==
    ASSUME Sound, NEW r \in Runs, RunSoFar(r),
           (\E s \in Statements : Reject(r, s)) \/ Kill(r)
    PROVE  RunSoFar(r)'
PROOF
<1>1. CASE \E s \in Statements : Reject(r, s)
  <2>1. ~Running(r) /\ pc'[r] = "rejected" /\ results' = results
    BY <1>1 DEF Reject, NewLaunch, memory, Sound, TypeOK
  <2> QED
    BY <2>1 DEF RunSoFar, Running, Ended
<1>2. CASE Kill(r)
  <2>1. pc'[r] = "killed" /\ results'[r] = {}
    BY <1>2 DEF Kill, Forget, Sound, TypeOK
  <2> QED
    BY <2>1 DEF RunSoFar, Running, Ended
<1> QED
  BY <1>1, <1>2

LEMMA RunReports ==
    ASSUME Sound, NEW r \in Runs, RunSoFar(r), EndMatching(r) \/ OpenFile(r) \/ CloseFile(r)
    PROVE  RunSoFar(r)'
PROOF
<1> USE DEF ledger, memory, scan, history
<1>1. CASE pc'[r] = "done"
  <2>1. results'[r] = {}
    BY <1>1 DEF EndMatching, OpenFile, CloseFile, Forget, Sound, TypeOK
  <2> QED
    BY <1>1, <2>1 DEF RunSoFar, Running, Ended
<1>2. CASE pc'[r] # "done"
  <2>1. /\ pc[r] \in {"nextLine", "openFile", "closeFile"}
        /\ pc'[r] \in {"openFile", "closeFile"}
        /\ pc[r] = "nextLine" => todo[r] = {}
        /\ UNCHANGED <<matchResults, results, statement, rowsAtLaunch, todo>>
    BY <1>2 DEF EndMatching, OpenFile, CloseFile, Sound, TypeOK
  <2>2. /\ Running(r) /\ Running(r)' /\ TakenLine(r) = {} /\ TakenLine(r)' = {}
        /\ PostedInHand(r) = {} /\ PostedInHand(r)' = {}
    BY <2>1 DEF Running, Ended, TakenLine, PostedInHand
  <2> QED
    BY <2>1, <2>2 DEF RunSoFar
<1> QED
  BY <1>1, <1>2

LEMMA RunSoFarStep ==
    ASSUME NEW r \in Runs, Runs = {r}, Sound, PaidIffRecorded, OpenInHand, RunSoFar(r),
           [Next]_vars
    PROVE  RunSoFar(r)'
PROOF
<1> USE DEF ledger, memory, scan, history
<1>1. ASSUME \/ FetchAvailable(r) \/ FetchUnavailable(r) \/ EndScan(r) \/ ReadCustomer(r)
             \/ DecideMatch(r) \/ DecideNoMatch(r)
      PROVE  RunSoFar(r)'
  <2>1. pc[r] \in {"references", "customers", "decide"}
    BY <1>1 DEF FetchAvailable, FetchUnavailable, Fetch, EndScan, ReadCustomer, DecideMatch,
                DecideNoMatch
  <2>2. pc'[r] \in {"references", "customers", "decide", "bankLine"}
    BY <1>1, <2>1 DEF FetchAvailable, FetchUnavailable, Fetch, EndScan, ReadCustomer,
                      DecideMatch, DecideNoMatch, Sound, TypeOK
  <2>3. UNCHANGED <<matchResults, results, statement, rowsAtLaunch, line, todo>>
    BY <1>1 DEF FetchAvailable, FetchUnavailable, Fetch, EndScan, ReadCustomer, DecideMatch,
                DecideNoMatch
  <2> QED
    BY <2>1, <2>2, <2>3, RunQuiet
<1>2. ASSUME InsertBankLine(r)
      PROVE  RunSoFar(r)'
  <2>1. /\ pc[r] = "bankLine" /\ pc'[r] = "mark" /\ unmarked'[r] = result[r].invoices
        /\ UNCHANGED <<matchResults, results, statement, rowsAtLaunch, line, todo, result>>
    BY <1>2 DEF InsertBankLine, Sound, TypeOK
  <2>2. Running(r) /\ Running(r)' /\ TakenLine(r)' = TakenLine(r)
    BY <2>1 DEF Running, Ended, TakenLine
  <2>3. PostedInHand(r) = {} /\ PostedInHand(r)' = {}
    BY <2>1 DEF PostedInHand, RowsFor
  <2> QED
    BY <2>1, <2>2, <2>3 DEF RunSoFar
<1>3. ASSUME UNCHANGED vars
      PROVE  RunSoFar(r)'
  <2>1. UNCHANGED <<matchResults, results, statement, rowsAtLaunch, line, todo, result,
                    unmarked, pc>>
    BY <1>3 DEF vars
  <2> QED
    BY <2>1 DEF RunSoFar, Running, TakenLine, PostedInHand
<1>4. ASSUME RunStep(r)
      PROVE  RunSoFar(r)'
  BY <1>1, <1>2, <1>4, RunTakes, RunMarks, RunKeeps, RunReports DEF RunStep
<1> QED
  BY <1>3, <1>4, RunStarts, RunEnds DEF Next

-----------------------------------------------------------------------------
(* The files, step by step. *)

LEMMA FilesWritten ==
    ASSUME Sound, WrittenThrough, NEW r \in Runs, RunSoFar(r), FilesSoFar(r),
           DOMAIN files = Runs, CloseFile(r)
    PROVE  DOMAIN files' = Runs /\ FilesSoFar(r)'
PROOF
<1> USE DEF ledger, memory, scan, history
<1> DEFINE k == step[r]
           R == results[r]
           name == ReportFiles[k]
<1>1. /\ pc[r] = "closeFile" /\ k \in 1..3 /\ name \in FileNames
      /\ files' = [files EXCEPT ![r][name] = Written(Content(name, R))]
      /\ UNCHANGED <<matchResults, bankLines, statement, rowsAtLaunch>>
  <2>1. pc[r] = "closeFile" /\ k \in 1..3
    BY DEF CloseFile, Sound, LineInHand
  <2> QED
    BY <2>1 DEF CloseFile, ReportFiles, FileNames
<1>2. /\ DOMAIN files' = Runs /\ DOMAIN files'[r] = FileNames
      /\ \A f \in FileNames : files'[r][f] = IF f = name THEN Written(Content(f, R))
                                                         ELSE files[r][f]
  BY <1>1 DEF FilesSoFar
<1>3. \A n \in 1..3 : ReportFiles[n] \in FileNames /\ (ReportFiles[n] = name <=> n = k)
  BY <1>1 DEF ReportFiles, FileNames
<1> HIDE DEF k, R, name
<1>4. \A n \in 1..3 : n < k + 1 => FiledAs(files'[r][ReportFiles[n]], ReportFiles[n], R)
  <2>1. \A n \in 1..3 : n < k => FiledAs(files[r][ReportFiles[n]], ReportFiles[n], R)
    BY <1>1 DEF FilesSoFar, k, R
  <2>2. \A n \in 1..3 : n < k + 1 => n < k \/ n = k
    BY <1>1
  <2> QED
    BY <1>2, <1>3, <2>1, <2>2 DEF FiledAs
<1>5. CASE pc'[r] = "openFile"
  <2>1. step'[r] = k + 1 /\ results'[r] = R
    BY <1>5 DEF CloseFile, Sound, TypeOK, k, R
  <2>2. pc'[r] \in {"openFile", "closeFile"} /\ pc'[r] # "done"
    BY <1>5
  <2>3. \A n \in 1..3 : n < step'[r] =>
            FiledAs(files'[r][ReportFiles[n]], ReportFiles[n], results'[r])
    BY <1>4, <2>1
  <2> QED
    BY <1>2, <2>2, <2>3 DEF FilesSoFar
<1>6. CASE pc'[r] # "openFile"
  <2>1. k = 3 /\ pc'[r] = "done"
    <3>1. Len(ReportFiles) = 3
      BY DEF ReportFiles
    <3>2. \/ step[r] < 3 /\ pc' = [pc EXCEPT ![r] = "openFile"]
          \/ step[r] = 3 /\ pc' = [pc EXCEPT ![r] = "done"]
      BY <3>1 DEF CloseFile
    <3> QED
      BY <1>6, <3>2 DEF Sound, TypeOK, k
  <2>2. Running(r) /\ TakenLine(r) = {} /\ PostedInHand(r) = {}
    BY <1>1 DEF Running, Ended, TakenLine, PostedInHand
  <2>3. /\ OneResultPerLine(R) /\ statement[r] = LinesIn(R) /\ R \subseteq Results
        /\ matchResults \ rowsAtLaunch[r] = RowsOf(R)
    BY <1>1, <2>2 DEF RunSoFar, R, Sound, TypeOK
  <2>4. LinesIn(R) \subseteq bankLines \cap LineIds
    BY <2>3 DEF WrittenThrough, ProcessedLinesPersisted, LinesIn, R, Results
  <2>5. PICK X : X = R
    OBVIOUS
  <2>6. Complete(r, X)'
    BY <1>1, <2>3, <2>4, <2>5 DEF Complete
  <2>7. \A n \in 1..3 : FiledAs(files'[r][ReportFiles[n]], ReportFiles[n], X)
    <3>1. \A n \in 1..3 : n < k + 1
      BY <2>1
    <3> QED
      BY <1>4, <2>5, <3>1
  <2> QED
    BY <1>2, <2>1, <2>6, <2>7 DEF FilesSoFar
<1> QED
  BY <1>5, <1>6

LEMMA FilesStep ==
    ASSUME NEW r \in Runs, Runs = {r}, Sound, WrittenThrough, ReportsInv, [Next]_vars
    PROVE  DOMAIN files' = Runs /\ FilesSoFar(r)'
PROOF
<1> USE DEF ledger, memory, scan, history
<1>1. DOMAIN files = Runs /\ RunSoFar(r) /\ FilesSoFar(r)
  BY DEF ReportsInv
<1>2. ASSUME OpenFile(r)
      PROVE  DOMAIN files' = Runs /\ FilesSoFar(r)'
  <2> DEFINE k == step[r]
             name == ReportFiles[k]
  <2>1. /\ pc[r] = "openFile" /\ pc'[r] = "closeFile" /\ k \in 1..3 /\ name \in FileNames
        /\ files' = [files EXCEPT ![r][name] = Truncated]
        /\ UNCHANGED <<step, results>>
    <3>1. pc[r] = "openFile" /\ k \in 1..3
      BY <1>2 DEF OpenFile, Sound, LineInHand
    <3> QED
      BY <1>2, <3>1 DEF OpenFile, Sound, TypeOK, ReportFiles, FileNames
  <2>2. /\ DOMAIN files' = Runs /\ DOMAIN files'[r] = FileNames
        /\ \A f \in FileNames : f # name => files'[r][f] = files[r][f]
    BY <1>1, <2>1 DEF FilesSoFar
  <2>3. \A n \in 1..3 : n < k => ReportFiles[n] \in FileNames /\ ReportFiles[n] # name
    BY <2>1 DEF ReportFiles, FileNames
  <2>4. \A n \in 1..3 : n < k => FiledAs(files[r][ReportFiles[n]], ReportFiles[n], results[r])
    BY <1>1, <2>1 DEF FilesSoFar
  <2> HIDE DEF k, name
  <2>5. \A n \in 1..3 : n < k => FiledAs(files'[r][ReportFiles[n]], ReportFiles[n], results[r])
    BY <2>2, <2>3, <2>4
  <2> QED
    BY <2>1, <2>2, <2>5 DEF FilesSoFar, k
<1>3. ASSUME CloseFile(r)
      PROVE  DOMAIN files' = Runs /\ FilesSoFar(r)'
  BY <1>1, <1>3, FilesWritten
<1>4. ASSUME EndMatching(r)
      PROVE  DOMAIN files' = Runs /\ FilesSoFar(r)'
  <2>1. pc'[r] = "openFile" /\ step'[r] = 1 /\ files' = files
    BY <1>4 DEF EndMatching, Sound, TypeOK
  <2>2. \A n \in 1..3 : ~(n < step'[r])
    BY <2>1
  <2> QED
    BY <1>1, <2>1, <2>2 DEF FilesSoFar
<1>5. ASSUME files' = files, pc'[r] \notin {"openFile", "closeFile", "done"}
      PROVE  DOMAIN files' = Runs /\ FilesSoFar(r)'
  BY <1>1, <1>5 DEF FilesSoFar
<1>6. ASSUME NEW s \in Statements, Launch(r, s) \/ Reject(r, s)
      PROVE  DOMAIN files' = Runs /\ FilesSoFar(r)'
  <2>1. files' = files /\ pc'[r] \in {"nextLine", "rejected"}
    BY <1>6 DEF Launch, Reject, Sound, TypeOK
  <2> QED
    BY <1>5, <2>1
<1>7. ASSUME Kill(r)
      PROVE  DOMAIN files' = Runs /\ FilesSoFar(r)'
  <2>1. files' = files /\ pc'[r] = "killed"
    BY <1>7 DEF Kill, Sound, TypeOK
  <2> QED
    BY <1>5, <2>1
<1>8. ASSUME \/ TakeCredit(r) \/ TakeDebit(r)
             \/ FetchAvailable(r) \/ FetchUnavailable(r) \/ EndScan(r) \/ ReadCustomer(r)
             \/ DecideMatch(r) \/ DecideNoMatch(r)
             \/ InsertBankLine(r) \/ MarkInvoice(r) \/ EndLine(r)
      PROVE  DOMAIN files' = Runs /\ FilesSoFar(r)'
  <2>1. files' = files
    BY <1>8 DEF TakeCredit, TakeDebit, FetchAvailable, FetchUnavailable, Fetch, EndScan,
                ReadCustomer, DecideMatch, DecideNoMatch, InsertBankLine, MarkInvoice, EndLine
  <2>2. pc'[r] \in {"references", "bankLine", "customers", "decide", "mark", "nextLine"}
    BY <1>8 DEF TakeCredit, TakeDebit, FetchAvailable, FetchUnavailable, Fetch, EndScan,
                ReadCustomer, DecideMatch, DecideNoMatch, InsertBankLine, MarkInvoice, EndLine,
                Sound, TypeOK
  <2> QED
    BY <1>5, <2>1, <2>2
<1>9. ASSUME UNCHANGED vars
      PROVE  DOMAIN files' = Runs /\ FilesSoFar(r)'
  <2>1. UNCHANGED <<files, pc, step, results, statement, bankLines, matchResults, rowsAtLaunch>>
    BY <1>9 DEF vars
  <2> QED
    BY <1>1, <2>1 DEF FilesSoFar, Complete
<1>10. ASSUME RunStep(r)
       PROVE  DOMAIN files' = Runs /\ FilesSoFar(r)'
  BY <1>2, <1>3, <1>4, <1>8, <1>10 DEF RunStep
<1> QED
  BY <1>6, <1>7, <1>9, <1>10 DEF Next

LEMMA ReportsStep ==
    ASSUME NEW r \in Runs, Runs = {r}, Sound, WrittenThrough, PaidIffRecorded, OpenInHand,
           ReportsInv, [Next]_vars
    PROVE  ReportsInv'
PROOF
<1>1. RunSoFar(r)'
  BY RunSoFarStep DEF ReportsInv
<1>2. DOMAIN files' = Runs /\ FilesSoFar(r)'
  BY FilesStep
<1> QED
  BY <1>1, <1>2 DEF ReportsInv

LEMMA InitReports == Init => ReportsInv
PROOF
<1> SUFFICES ASSUME Init
             PROVE  ReportsInv
  OBVIOUS
<1>1. DOMAIN files = Runs /\ \A r \in Runs : DOMAIN files[r] = FileNames
  BY DEF Init, FileNames
<1>2. \A r \in Runs : pc[r] = "idle" /\ results[r] = {}
  BY DEF Init
<1> QED
  BY <1>1, <1>2 DEF ReportsInv, RunSoFar, FilesSoFar, Running, Ended

(***************************************************************************)
(* With one runner at a time, kills and reruns included, a run that ends   *)
(* well leaves three files that agree with its statement, with each other, *)
(* with the rows it added to the ledger, and count them right.             *)
(***************************************************************************)
THEOREM LoneRunnerReports ==
    ASSUME NEW r \in Runs, Runs = {r}
    PROVE  Spec => []ReportMirrorsLedger
PROOF
<1>1. ReportsInv => ReportMirrorsLedger
  <2>1. ReportsInv =>
          \A q \in Runs :
            pc[q] = "done" =>
              /\ DOMAIN files[q] = FileNames
              /\ \E R : /\ Complete(q, R)
                        /\ \A n \in 1..3 :
                             FiledAs(files[q][ReportFiles[n]], ReportFiles[n], R)
    BY DEF ReportsInv, FilesSoFar
  <2> QED
    BY <2>1, CompleteMirrors DEF ReportMirrorsLedger
<1>2. Sound /\ WrittenThrough /\ PaidIffRecorded /\ OpenInHand /\ ReportsInv /\ [Next]_vars
        => ReportsInv'
  BY ReportsStep
<1> QED
  BY <1>1, <1>2, InitReports, AlwaysSound, AlwaysWrittenThrough, PaidAccountedFor,
     AlwaysOpenInHand, PTL DEF Spec

=============================================================================
