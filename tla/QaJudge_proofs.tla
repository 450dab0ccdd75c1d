--------------------------- MODULE QaJudge_proofs ---------------------------
(***************************************************************************)
(* Proofs about QaJudge: whoever calls, every outcome in results.json is   *)
(* earned; and with one caller at a time no verdict is lost or replaced.   *)
(***************************************************************************)
EXTENDS QaSummary, FiniteSetTheorems, TLAPS

USE ConstantsAssumption

-----------------------------------------------------------------------------
(* What a run leaves is a document whose outcomes are earned.              *)
LEMMA FreshIsEarned ==
  ASSUME NEW open \in SUBSET Cases
  PROVE  FreshDoc(open) \in Docs /\ EarnedDoc(FreshDoc(open))
<1>1. FreshDoc(open) \in Docs
  BY DEF FreshDoc, Docs, Words, Outcomes
<1>2. ASSUME NEW c \in Cases PROVE Earned(FreshDoc(open), c)
  <2>1. PICK s \in Steps : CaseOf[s] = c
    OBVIOUS
  <2>2. \A t \in StepsOf(c) : FreshDoc(open).word[t] = IF c \in open THEN "pending" ELSE "moot"
    BY DEF FreshDoc, StepsOf
  <2>3. FreshDoc(open).outcome[c] = IF c \in open THEN "none" ELSE "settled"
    BY DEF FreshDoc
  <2>4. s \in StepsOf(c)
    BY <2>1 DEF StepsOf
  <2> QED
    BY <2>2, <2>3, <2>4 DEF Earned
<1> QED
  BY <1>1, <1>2 DEF EarnedDoc

(* Applying a verdict to a waiting step keeps every outcome earned.        *)
LEMMA AppliedIsEarned ==
  ASSUME NEW d \in Docs, EarnedDoc(d), NEW s \in Steps, NEW v \in Verdicts, AwaitsVerdict(d, s)
  PROVE  Applied(d, s, v) \in Docs /\ EarnedDoc(Applied(d, s, v))
<1> DEFINE word == [d.word EXCEPT ![s] = WordOf(v)]
           k    == CaseOf[s]
           e    == Applied(d, s, v)
<1>1. WordOf(v) \in {"passed", "failed", "uncertain"}
  BY DEF WordOf, Verdicts
<1>2. word \in [Steps -> Words] /\ word[s] = WordOf(v) /\ \A t \in Steps \ {s} : word[t] = d.word[t]
  BY <1>1 DEF Docs, Words
<1>3. k \in Cases /\ Settle(word, k) \in {"fail", "uncertain", "partial", "pass"}
  BY DEF Settle
<1>4. e.word = word /\ e.outcome \in [Cases -> Outcomes] /\ e \in Docs
  BY <1>2, <1>3 DEF Applied, Docs, Outcomes
<1>5. \A c \in Cases \ {k} : e.outcome[c] = d.outcome[c]
  BY DEF Applied, Docs
<1>6. ASSUME NEW c \in Cases PROVE Earned(e, c)
  <2>1. CASE c # k
    <3>1. \A t \in StepsOf(c) : e.word[t] = d.word[t]
      BY <2>1, <1>2, <1>4 DEF StepsOf
    <3> QED
      BY <3>1, <2>1, <1>5 DEF Earned, EarnedDoc
  <2>2. CASE c = k /\ \E t \in StepsOf(k) : word[t] = "pending"
    <3>1. e.outcome[k] = "none"
      BY <2>2 DEF Applied, AwaitsVerdict
    <3>2. \A t \in StepsOf(k) : d.word[t] # "moot"
      BY <1>3 DEF AwaitsVerdict, EarnedDoc, Earned
    <3>3. \A t \in StepsOf(k) : e.word[t] # "moot"
      BY <3>2, <1>1, <1>2, <1>4 DEF StepsOf
    <3> QED
      BY <2>2, <3>1, <3>3, <1>4 DEF Earned
  <2>3. CASE c = k /\ ~\E t \in StepsOf(k) : word[t] = "pending"
    <3>1. e.outcome[k] = Settle(word, k)
      BY <2>3, <1>3 DEF Applied, Docs
    <3>2. \A t \in StepsOf(k) : d.word[t] # "moot"
      BY <1>3 DEF AwaitsVerdict, EarnedDoc, Earned
    <3>3. \A t \in StepsOf(k) : e.word[t] # "moot"
      BY <3>2, <1>1, <1>2, <1>4 DEF StepsOf
    <3> QED
      BY <2>3, <3>1, <3>3, <1>4 DEF Earned, Settle
  <2> QED
    BY <2>1, <2>2, <2>3
<1> QED
  BY <1>4, <1>6 DEF EarnedDoc

-----------------------------------------------------------------------------
(* The types hold, and every document on its way is earned.                *)
LEMMA InitDocs == Init => TypeOK /\ DocsEarned
<1> SUFFICES ASSUME Init PROVE TypeOK /\ DocsEarned
  OBVIOUS
<1>1. FreshDoc({}) \in Docs /\ EarnedDoc(FreshDoc({}))
  BY FreshIsEarned
<1>2. TypeOK
  BY <1>1 DEF Init, TypeOK, Verdicts
<1>3. DocsEarned
  BY <1>1 DEF Init, DocsEarned
<1> QED
  BY <1>2, <1>3

(* No step of any caller puts an unearned document on its way.             *)
LEMMA StepDocs == TypeOK /\ DocsEarned /\ [Next]_vars => TypeOK' /\ DocsEarned'
<1> SUFFICES ASSUME TypeOK, DocsEarned, [Next]_vars PROVE TypeOK' /\ DocsEarned'
  OBVIOUS
<1>1. ASSUME NEW p \in Callers, NEW s \in Steps, NEW v \in Verdicts, Judge(p, s, v)
      PROVE  TypeOK' /\ DocsEarned'
  <2>1. results \in Docs /\ EarnedDoc(results)
    BY <1>1 DEF Judge, TypeOK, DocsEarned
  <2>2. Applied(results, s, v) \in Docs /\ EarnedDoc(Applied(results, s, v))
    BY <1>1, <2>1, AppliedIsEarned DEF Judge
  <2> QED
    BY <1>1, <2>2 DEF Judge, TypeOK, DocsEarned, files
<1>2. ASSUME NEW p \in Callers, RunFinishes(p) PROVE TypeOK' /\ DocsEarned'
  <2>1. PICK open \in SUBSET Cases :
          call' = [call EXCEPT ![p] = [step |-> NoStep, verdict |-> "pass", doc |-> FreshDoc(open)]]
    BY <1>2 DEF RunFinishes
  <2>2. FreshDoc(open) \in Docs /\ EarnedDoc(FreshDoc(open))
    BY FreshIsEarned
  <2> QED
    BY <1>2, <2>1, <2>2 DEF RunFinishes, TypeOK, DocsEarned, files, Verdicts
<1>3. ASSUME NEW p \in Callers, WriteEvidence(p) PROVE TypeOK' /\ DocsEarned'
  <2>1. TypeOK'
    BY <1>3 DEF WriteEvidence, TypeOK
  <2>2. DocsEarned'
    BY <1>3 DEF WriteEvidence, TypeOK, DocsEarned
  <2> QED
    BY <2>1, <2>2
<1>4. ASSUME NEW p \in Callers, OpenTmp(p) PROVE TypeOK' /\ DocsEarned'
  <2>1. TypeOK'
    BY <1>4 DEF OpenTmp, TypeOK
  <2>2. DocsEarned'
    BY <1>4 DEF OpenTmp, TypeOK, DocsEarned
  <2> QED
    BY <2>1, <2>2
<1>5. ASSUME NEW p \in Callers, Fill(p) PROVE TypeOK' /\ DocsEarned'
  <2>1. TypeOK'
    BY <1>5 DEF Fill, TypeOK
  <2>2. DocsEarned'
    BY <1>5 DEF Fill, TypeOK, DocsEarned
  <2> QED
    BY <2>1, <2>2
<1>6. ASSUME NEW p \in Callers, Rename(p) PROVE TypeOK' /\ DocsEarned'
  <2>1. TypeOK'
    BY <1>6 DEF Rename, TypeOK
  <2>2. DocsEarned'
    BY <1>6 DEF Rename, TypeOK, DocsEarned
  <2> QED
    BY <2>1, <2>2
<1>7. ASSUME NEW p \in Callers, ResultsFail(p) PROVE TypeOK' /\ DocsEarned'
  <2>1. TypeOK'
    BY <1>7 DEF ResultsFail, TypeOK, ReportNothing, files
  <2>2. DocsEarned'
    BY <1>7 DEF ResultsFail, TypeOK, DocsEarned, ReportNothing, files
  <2> QED
    BY <2>1, <2>2
<1>8. ASSUME NEW p \in Callers, EvidenceFails(p) PROVE TypeOK' /\ DocsEarned'
  <2>1. TypeOK'
    BY <1>8 DEF EvidenceFails, TypeOK, GiveUp, files
  <2>2. DocsEarned'
    BY <1>8 DEF EvidenceFails, TypeOK, DocsEarned, GiveUp, files
  <2> QED
    BY <2>1, <2>2
<1>9. ASSUME NEW p \in Callers, Killed(p) PROVE TypeOK' /\ DocsEarned'
  <2>1. TypeOK'
    BY <1>9 DEF Killed, TypeOK, files
  <2>2. DocsEarned'
    BY <1>9 DEF Killed, TypeOK, DocsEarned, files
  <2> QED
    BY <2>1, <2>2
<1>10. CASE UNCHANGED vars
  BY <1>10 DEF vars, TypeOK, DocsEarned
<1> QED
  BY <1>1, <1>2, <1>3, <1>4, <1>5, <1>6, <1>7, <1>8, <1>9, <1>10
  DEF Next, AnyJudge, Write, Rest

(***************************************************************************)
(* However many judge calls and runs overlap, results.json never holds an  *)
(* outcome that the verdicts it holds do not earn (applyJudgeVerdict and   *)
(* settleJudgedCase recompute it from the document they write).            *)
(***************************************************************************)
THEOREM AlwaysEarned == Spec => [](TypeOK /\ OutcomesAreEarned)
<1>1. TypeOK /\ DocsEarned => TypeOK /\ OutcomesAreEarned
  BY DEF DocsEarned, EarnedDoc, OutcomesAreEarned
<1> QED
  BY InitDocs, StepDocs, <1>1, PTL DEF Spec
-----------------------------------------------------------------------------
(* The assistant makes one call at a time.                                 *)
OneCaller == \A p, q \in Callers : p = q

Recorded == EvidenceBacksVerdict /\ RecordedVerdictStays
            /\ (results = Unreadable => \A s \in Steps : acked[s] = "none")

(* The one-caller invariant holds of a run directory no run has written.   *)
LEMMA InitOneCaller == Init => OneCallerInv
<1> SUFFICES ASSUME Init PROVE OneCallerInv
  OBVIOUS
<1>1. \A p \in Callers : CallIsCurrent(p)
  BY DEF Init, CallIsCurrent, Writing
<1>2. EvidenceBacksVerdict /\ RecordedVerdictStays
  BY DEF Init, EvidenceBacksVerdict, RecordedVerdictStays
<1> QED
  BY InitDocs, <1>1, <1>2 DEF OneCallerInv, Init

(* What a judge call is about to write, word by word.                      *)
LEMMA AppliedWords ==
  ASSUME NEW d \in Docs, NEW s \in Steps, NEW v \in Verdicts
  PROVE  Applied(d, s, v).word = [d.word EXCEPT ![s] = WordOf(v)]
BY DEF Applied

(* A rename publishes the caller's document; a judge's keeps every other   *)
(* verdict and its evidence is written.                                    *)
LEMMA RenameKeeps ==
  ASSUME OneCallerInv, NEW p \in Callers, Rename(p)
  PROVE  results' = call[p].doc /\ results' \in Docs /\ Recorded'
<1>1. /\ results' = call[p].doc /\ call[p] \in [step : Steps \cup {NoStep}, verdict : Verdicts, doc : Docs]
      /\ acked \in [Steps -> Verdicts \cup {"none"}]
      /\ evidence \in [Steps -> Verdicts \cup {"none"}] /\ evidence' = evidence
  BY DEF Rename, OneCallerInv, CallIsCurrent, TypeOK
<1>2. results' \in Docs
  BY <1>1
<1>3. CASE call[p].step = NoStep
  <2>1. acked' = [s \in Steps |-> "none"]
    BY <1>3 DEF Rename
  <2>2. PICK open \in SUBSET Cases : results' = FreshDoc(open)
    BY <1>1, <1>3 DEF OneCallerInv, CallIsCurrent, Writing, Rename
  <2>3. \A s \in Steps : results'.word[s] \in {"pending", "moot"}
    BY <2>2 DEF FreshDoc
  <2>4. EvidenceBacksVerdict'
    BY <2>3 DEF EvidenceBacksVerdict
  <2>5. RecordedVerdictStays' /\ \A s \in Steps : acked'[s] = "none"
    BY <2>1 DEF RecordedVerdictStays
  <2> QED
    BY <1>1, <1>2, <2>4, <2>5 DEF Recorded
<1>4. CASE call[p].step # NoStep
  <2> DEFINE s == call[p].step
             v == call[p].verdict
  <2>1. s \in Steps /\ v \in Verdicts
    BY <1>1, <1>4
  <2>2. results \in Docs /\ results' = Applied(results, s, v) /\ evidence[s] = v
    BY <1>1, <1>4 DEF OneCallerInv, CallIsCurrent, Writing, Rename, TypeOK
  <2>3. results'.word = [results.word EXCEPT ![s] = WordOf(v)] /\ results.word \in [Steps -> Words]
    BY <2>1, <2>2, AppliedWords DEF Docs
  <2>4. acked' = [acked EXCEPT ![s] = v]
    BY <1>4 DEF Rename
  <2>5. EvidenceBacksVerdict /\ RecordedVerdictStays /\ results # Unreadable
    BY <2>2 DEF OneCallerInv
  <2>6. EvidenceBacksVerdict'
    BY <1>1, <2>1, <2>2, <2>3, <2>5 DEF EvidenceBacksVerdict, Verdicts
  <2>7. RecordedVerdictStays'
    BY <1>1, <2>1, <2>3, <2>4, <2>5 DEF RecordedVerdictStays
  <2>8. results' # Unreadable
    BY <1>2
  <2> QED
    BY <1>1, <1>2, <2>6, <2>7, <2>8 DEF Recorded
<1> QED
  BY <1>1, <1>2, <1>3, <1>4

(* With one caller, each of its steps and each fault preserves it.         *)
LEMMA StepOneCaller ==
  ASSUME OneCaller PROVE OneCallerInv /\ [Next]_vars => OneCallerInv'
<1> SUFFICES ASSUME OneCallerInv, [Next]_vars PROVE OneCallerInv'
  OBVIOUS
<1>1. TypeOK' /\ DocsEarned'
  BY StepDocs DEF OneCallerInv
<1>2. SUFFICES (\A p \in Callers : CallIsCurrent(p)') /\ Recorded'
  BY <1>1 DEF OneCallerInv, Recorded
<1> USE DEF OneCaller
<1>3. Recorded /\ TypeOK /\ \A p \in Callers : CallIsCurrent(p)
  BY DEF OneCallerInv, Recorded
<1> DEFINE Goal(p) == CallIsCurrent(p)' /\ Recorded'
<1>4. ASSUME NEW p \in Callers, NEW s \in Steps, NEW v \in Verdicts, Judge(p, s, v) PROVE Goal(p)
  <2>1. Recorded'
    BY <1>3, <1>4 DEF Judge, files, Recorded, EvidenceBacksVerdict, RecordedVerdictStays
  <2>2. /\ pc'[p] = "evidence" /\ results' = results
        /\ call'[p] = [step |-> s, verdict |-> v, doc |-> Applied(results, s, v)]
    BY <1>3, <1>4 DEF Judge, TypeOK, files
  <2>3. AwaitsVerdict(results, s) /\ results # Unreadable
    BY <1>4 DEF Judge
  <2> QED
    BY <2>1, <2>2, <2>3 DEF CallIsCurrent, Writing
<1>5. ASSUME NEW p \in Callers, RunFinishes(p) PROVE Goal(p)
  <2>1. Recorded'
    BY <1>3, <1>5 DEF RunFinishes, files, Recorded, EvidenceBacksVerdict, RecordedVerdictStays
  <2>2. pc'[p] = "open" /\ call'[p].step = NoStep /\ \E open \in SUBSET Cases : call'[p].doc = FreshDoc(open)
    BY <1>3, <1>5 DEF RunFinishes, TypeOK
  <2> QED
    BY <2>1, <2>2 DEF CallIsCurrent, Writing
<1>6. ASSUME NEW p \in Callers, WriteEvidence(p) PROVE Goal(p)
  <2>1. /\ call[p].step \in Steps /\ evidence'[call[p].step] = call[p].verdict
        /\ pc'[p] = "open" /\ call' = call /\ results' = results /\ acked' = acked
        /\ \A s \in Steps \ {call[p].step} : evidence'[s] = evidence[s]
    BY <1>3, <1>6 DEF WriteEvidence, TypeOK, CallIsCurrent
  <2>2. results # Unreadable /\ results.word[call[p].step] = "pending"
    BY <1>3, <1>6 DEF WriteEvidence, CallIsCurrent, AwaitsVerdict
  <2>3. Recorded'
    BY <1>3, <2>1, <2>2 DEF Recorded, EvidenceBacksVerdict, RecordedVerdictStays
  <2>4. CallIsCurrent(p)'
    BY <1>3, <1>6, <2>1 DEF WriteEvidence, CallIsCurrent, Writing
  <2> QED
    BY <2>3, <2>4
<1>7. ASSUME NEW p \in Callers, OpenTmp(p) PROVE Goal(p)
  <2>1. Recorded'
    BY <1>3, <1>7 DEF OpenTmp, Recorded, EvidenceBacksVerdict, RecordedVerdictStays
  <2>2. CallIsCurrent(p)'
    BY <1>3, <1>7 DEF OpenTmp, TypeOK, CallIsCurrent, Writing
  <2> QED
    BY <2>1, <2>2
<1>8. ASSUME NEW p \in Callers, Fill(p) PROVE Goal(p)
  <2>1. fd[p] = "tmp"
    BY <1>3, <1>8 DEF Fill, CallIsCurrent
  <2>2. tmp' = call[p].doc /\ results' = results /\ pc' = [pc EXCEPT ![p] = "rename"]
    BY <1>8, <2>1 DEF Fill
  <2>3. Recorded'
    BY <1>3, <1>8, <2>2 DEF Fill, Recorded, EvidenceBacksVerdict, RecordedVerdictStays
  <2>4. CallIsCurrent(p)'
    BY <1>3, <1>8, <2>2 DEF Fill, TypeOK, CallIsCurrent, Writing
  <2> QED
    BY <2>3, <2>4
<1>9. ASSUME NEW p \in Callers, Rename(p) PROVE Goal(p)
  <2>1. Recorded'
    BY <1>9, RenameKeeps
  <2>2. pc'[p] = "idle"
    BY <1>3, <1>9 DEF Rename, TypeOK
  <2> QED
    BY <2>1, <2>2 DEF CallIsCurrent, Writing
<1>10. ASSUME NEW p \in Callers, ResultsFail(p) \/ EvidenceFails(p) \/ Killed(p) PROVE Goal(p)
  <2>1. /\ pc'[p] = "idle" /\ UNCHANGED files /\ acked' = acked
    BY <1>3, <1>10 DEF ResultsFail, EvidenceFails, Killed, GiveUp, ReportNothing, TypeOK
  <2>2. Recorded'
    BY <1>3, <2>1 DEF files, Recorded, EvidenceBacksVerdict, RecordedVerdictStays
  <2> QED
    BY <2>1, <2>2 DEF CallIsCurrent, Writing
<1>11. CASE UNCHANGED vars
  <2>1. Recorded'
    BY <1>3, <1>11 DEF vars, Recorded, EvidenceBacksVerdict, RecordedVerdictStays
  <2>2. \A p \in Callers : CallIsCurrent(p)'
    BY <1>3, <1>11 DEF vars, CallIsCurrent, Writing
  <2> QED
    BY <2>1, <2>2
<1>12. (\E p \in Callers : Goal(p)) => (\A p \in Callers : CallIsCurrent(p)') /\ Recorded'
  <2> SUFFICES ASSUME NEW p \in Callers, Goal(p), NEW q \in Callers PROVE CallIsCurrent(q)' /\ Recorded'
    OBVIOUS
  <2>1. p = q
    OBVIOUS
  <2> QED
    BY <2>1
<1> HIDE DEF Goal
<1> QED
  BY <1>4, <1>5, <1>6, <1>7, <1>8, <1>9, <1>10, <1>11, <1>12
  DEF Next, AnyJudge, Write, Rest

(***************************************************************************)
(* With one call at a time, every verdict in results.json is backed by its *)
(* evidence file, and what a call reported as JUDGED is in results.json    *)
(* until the next run, whichever writes fail and whoever is killed.        *)
(***************************************************************************)
THEOREM OneCallerSafe ==
  ASSUME OneCaller PROVE Spec => [](EvidenceBacksVerdict /\ RecordedVerdictStays)
<1>1. OneCallerInv => EvidenceBacksVerdict /\ RecordedVerdictStays
  BY DEF OneCallerInv
<1>2. OneCallerInv /\ [Next]_vars => OneCallerInv'
  BY StepOneCaller
<1> QED
  BY InitOneCaller, <1>1, <1>2, PTL DEF Spec

(* A step publishes a run, records one waiting step, or leaves the         *)
(* document as it is.                                                      *)
LEMMA StepPromise ==
  ASSUME OneCaller, OneCallerInv, [Next]_vars
  PROVE  Promise!Publish \/ (\E s \in Steps : Promise!Record(s)) \/ UNCHANGED results
<1>1. ASSUME NEW p \in Callers, Rename(p)
      PROVE  Promise!Publish \/ \E s \in Steps : Promise!Record(s)
  <2>1. results' = call[p].doc /\ results' \in Docs
    BY <1>1, RenameKeeps
  <2>2. EarnedDoc(results')
    BY <2>1 DEF OneCallerInv, DocsEarned
  <2>3. \A c \in Cases : Promise!Agrees(results', c)
    BY <2>1, <2>2 DEF EarnedDoc, Earned, Promise!Agrees, Promise!StepsOf, StepsOf, Docs, Outcomes
  <2>4. CASE call[p].step = NoStep
    <3>1. PICK open \in SUBSET Cases : results' = FreshDoc(open)
      BY <2>1, <2>4, <1>1 DEF OneCallerInv, CallIsCurrent, Writing, Rename
    <3>2. \A s \in Steps : results'.word[s] \in {"pending", "moot"}
      BY <3>1 DEF FreshDoc
    <3> QED
      BY <2>1, <2>3, <3>2 DEF Promise!Publish
  <2>5. CASE call[p].step # NoStep
    <3> DEFINE s == call[p].step
               v == call[p].verdict
    <3>1. s \in Steps /\ v \in Verdicts
      BY <2>5 DEF OneCallerInv, TypeOK
    <3>2. results \in Docs /\ results' = Applied(results, s, v) /\ AwaitsVerdict(results, s)
      BY <2>1, <2>5, <1>1 DEF OneCallerInv, CallIsCurrent, Writing, Rename, TypeOK
    <3>3. results'.word = [results.word EXCEPT ![s] = WordOf(v)] /\ results.word \in [Steps -> Words]
      BY <3>1, <3>2, AppliedWords DEF Docs
    <3>4. WordOf(v) \in {"passed", "failed", "uncertain"}
      BY <3>1 DEF WordOf, Verdicts
    <3>5. results'.outcome = [results.outcome EXCEPT ![CaseOf[s]] = results'.outcome[CaseOf[s]]]
      BY <3>1, <3>2 DEF Applied, Docs
    <3>6. results.word[s] = "pending"
      BY <3>2 DEF AwaitsVerdict
    <3>7. results'.word[s] \in {"passed", "failed", "uncertain"}
      BY <3>1, <3>3, <3>4
    <3>8. results'.word = [results.word EXCEPT ![s] = results'.word[s]]
      BY <3>1, <3>3
    <3>9. results # Unreadable /\ results' # Unreadable
      BY <2>1, <3>2
    <3> QED
      BY <2>3, <3>1, <3>5, <3>6, <3>7, <3>8, <3>9 DEF Promise!Record
  <2> QED
    BY <2>4, <2>5
<1>2. ASSUME NEW p \in Callers, Fill(p) PROVE UNCHANGED results
  BY <1>2 DEF Fill, OneCallerInv, CallIsCurrent
<1> QED
  BY <1>1, <1>2
  DEF Next, AnyJudge, Write, Rest, Judge, RunFinishes, WriteEvidence, OpenTmp, ResultsFail,
      EvidenceFails, Killed, files, vars

(***************************************************************************)
(* With one call at a time the runner keeps the promise of QaVerdicts:     *)
(* verdicts are recorded one by one, each for a waiting step, and none is  *)
(* replaced.                                                               *)
(***************************************************************************)
THEOREM Implements == ASSUME OneCaller PROVE Spec => KeepsVerdicts
<1>1. Init => Promise!Init
  BY DEF Init, Promise!Init
<1>2. OneCallerInv /\ [Next]_vars => [Promise!Publish \/ \E s \in Steps : Promise!Record(s)]_results
  BY StepPromise
<1>3. OneCallerInv /\ [Next]_vars => OneCallerInv'
  BY StepOneCaller
<1> QED
  BY InitOneCaller, <1>1, <1>2, <1>3, PTL DEF Spec, KeepsVerdicts, Promise!Spec

(***************************************************************************)
(* With one call at a time results.json stays readable from the first run  *)
(* on, whichever write is cut short.                                       *)
(***************************************************************************)
THEOREM Readable == ASSUME OneCaller PROVE Spec => StaysReadable
<1>1. OneCallerInv /\ [Next]_vars => [results # Unreadable => results' # Unreadable]_results
  BY StepPromise DEF Promise!Publish, Promise!Record
<1>2. OneCallerInv /\ [Next]_vars => OneCallerInv'
  BY StepOneCaller
<1> QED
  BY InitOneCaller, <1>1, <1>2, PTL DEF Spec, StaysReadable
-----------------------------------------------------------------------------
(* Sums of natural numbers, counted as pairs.                              *)
LEMMA UnitsFinite ==
  ASSUME NEW S, IsFiniteSet(S), NEW f, \A c \in S : f[c] \in Nat
  PROVE  IsFiniteSet(Units(S, f)) /\ Total(S, f) \in Nat
<1> DEFINE of == [c \in S |-> {c} \X (1..f[c])]
           T  == {of[c] : c \in S}
<1>1. of \in Surjection(S, T)
  BY DEF Surjection
<1>2. IsFiniteSet(T)
  BY <1>1, FS_Surjection
<1>3. ASSUME NEW c \in S PROVE IsFiniteSet({c} \X (1..f[c]))
  <2>1. IsFiniteSet({c})
    BY FS_Singleton, Zenon
  <2>2. IsFiniteSet(1..f[c])
    BY FS_Interval
  <2> QED
    BY <2>1, <2>2, FS_Product
<1>4. \A U \in T : IsFiniteSet(U)
  BY <1>3
<1>5. Units(S, f) = UNION T
  BY DEF Units
<1> HIDE DEF T
<1>6. IsFiniteSet(Units(S, f))
  BY <1>2, <1>4, <1>5, FS_UNION
<1> QED
  BY <1>6, FS_CardinalityType DEF Total

LEMMA UnitsElements ==
  ASSUME NEW S, NEW f
  PROVE  \A u : u \in Units(S, f) <=> \E c \in S : \E i \in 1..f[c] : u = <<c, i>>
BY DEF Units

LEMMA TotalSplits ==
  ASSUME NEW S, IsFiniteSet(S), NEW f, \A c \in S : f[c] \in Nat, NEW A
  PROVE  /\ Total(S \cap A, f) \in Nat /\ Total(S \ A, f) \in Nat
         /\ Total(S, f) = Total(S \cap A, f) + Total(S \ A, f)
<1>1. IsFiniteSet(S \cap A) /\ IsFiniteSet(S \ A)
  BY FS_Intersection, FS_Difference
<1>2. IsFiniteSet(Units(S \cap A, f)) /\ IsFiniteSet(Units(S \ A, f))
      /\ Total(S \cap A, f) \in Nat /\ Total(S \ A, f) \in Nat
  BY <1>1, UnitsFinite
<1>3. Units(S, f) = Units(S \cap A, f) \cup Units(S \ A, f)
  BY DEF Units
<1>4. Units(S \cap A, f) \cap Units(S \ A, f) = {}
  BY UnitsElements
<1>5. Cardinality(Units(S, f)) = Cardinality(Units(S \cap A, f)) + Cardinality(Units(S \ A, f)) - 0
  BY <1>2, <1>3, <1>4, FS_Union, FS_EmptySet
<1> QED
  BY <1>2, <1>5 DEF Total

LEMMA TotalBounded ==
  ASSUME NEW S, IsFiniteSet(S), NEW f, NEW g, \A c \in S : f[c] \in Nat /\ g[c] \in Nat /\ f[c] <= g[c]
  PROVE  Total(S, f) <= Total(S, g)
<1>1. Units(S, f) \in SUBSET Units(S, g)
  BY UnitsElements
<1>2. IsFiniteSet(Units(S, g))
  BY UnitsFinite
<1> QED
  BY <1>1, <1>2, FS_Subset DEF Total

LEMMA TotalAdds ==
  ASSUME NEW S, IsFiniteSet(S), NEW f, NEW g, NEW h,
         \A c \in S : f[c] \in Nat /\ g[c] \in Nat /\ h[c] \in Nat /\ h[c] = f[c] + g[c]
  PROVE  Total(S, h) = Total(S, f) + Total(S, g)
<1> DEFINE R == Units(S, h) \ Units(S, f)
           m == [u \in Units(S, g) |-> <<u[1], f[u[1]] + u[2]>>]
<1>1. IsFiniteSet(Units(S, f)) /\ IsFiniteSet(Units(S, g)) /\ IsFiniteSet(Units(S, h))
      /\ Total(S, f) \in Nat /\ Total(S, g) \in Nat /\ Total(S, h) \in Nat
  BY UnitsFinite
<1>2. Units(S, f) \subseteq Units(S, h)
  BY UnitsElements
<1>3. ASSUME NEW u \in Units(S, g)
      PROVE  m[u] \in R /\ u = <<u[1], u[2]>> /\ u[1] \in S /\ u[2] \in Nat /\ m[u] = <<u[1], f[u[1]] + u[2]>>
  <2>1. PICK c \in S : \E i \in 1..g[c] : u = <<c, i>>
    BY UnitsElements
  <2>2. PICK i \in 1..g[c] : u = <<c, i>>
    BY <2>1
  <2>3. m[u] = <<c, f[c] + i>> /\ u[1] = c /\ u[2] = i
    BY <2>2
  <2>4. f[c] + i \in 1..h[c] /\ ~(f[c] + i \in 1..f[c])
    OBVIOUS
  <2>5. m[u] \in Units(S, h) /\ ~(m[u] \in Units(S, f))
    BY <2>3, <2>4, UnitsElements
  <2> QED
    BY <2>2, <2>3, <2>5
<1>4. ASSUME NEW u \in R PROVE \E v \in Units(S, g) : m[v] = u
  <2>1. PICK c \in S : \E i \in 1..h[c] : u = <<c, i>>
    BY UnitsElements
  <2>2. PICK i \in 1..h[c] : u = <<c, i>>
    BY <2>1
  <2>3. ~(i \in 1..f[c])
    BY <2>2, UnitsElements
  <2>4. i - f[c] \in 1..g[c] /\ f[c] + (i - f[c]) = i
    BY <2>3
  <2>5. <<c, i - f[c]>> \in Units(S, g)
    BY <2>4, UnitsElements
  <2> QED
    BY <2>2, <2>4, <2>5
<1>5. m \in Bijection(Units(S, g), R)
  <2>1. m \in [Units(S, g) -> R]
    BY <1>3
  <2>2. ASSUME NEW u \in Units(S, g), NEW v \in Units(S, g), m[u] = m[v] PROVE u = v
    <3>1. u[1] = v[1] /\ f[u[1]] + u[2] = f[v[1]] + v[2]
      BY <1>3, <2>2
    <3>2. f[u[1]] \in Nat /\ u[2] \in Nat /\ v[2] \in Nat
      BY <1>3
    <3>3. u[2] = v[2]
      BY <3>1, <3>2
    <3> QED
      BY <1>3, <3>1, <3>3
  <2> HIDE DEF m, R
  <2> QED
    BY <2>1, <2>2, <1>4 DEF Bijection, Injection, IsInjective, Surjection
<1>6. Cardinality(R) = Total(S, g)
  BY <1>1, <1>5, FS_Bijection DEF ExistsBijection, Total
<1>7. Cardinality(R) = Total(S, h) - Total(S, f)
  <2>1. Units(S, h) \cap Units(S, f) = Units(S, f)
    BY <1>2
  <2>2. Cardinality(R) = Cardinality(Units(S, h)) - Cardinality(Units(S, h) \cap Units(S, f))
    BY <1>1, FS_Difference, Zenon
  <2> QED
    BY <2>1, <2>2 DEF Total
<1> QED
  BY <1>1, <1>6, <1>7

(* The sum of the sizes of disjoint sets is the size of their union.       *)
LEMMA TotalCounts ==
  ASSUME NEW S, IsFiniteSet(S), NEW A, NEW g,
         \A c \in S : IsFiniteSet(A[c]) /\ g[c] = Cardinality(A[c]),
         \A c, e \in S : c # e => A[c] \cap A[e] = {}
  PROVE  Total(S, g) = Cardinality(UNION {A[c] : c \in S})
<1> DEFINE U == UNION {A[c] : c \in S}
           b == [c \in S |-> CHOOSE n : n \in Bijection(1..g[c], A[c])]
           m == [u \in Units(S, g) |-> b[u[1]][u[2]]]
<1>1. ASSUME NEW c \in S PROVE g[c] \in Nat /\ b[c] \in Bijection(1..g[c], A[c])
  <2>1. g[c] \in Nat /\ \E n : n \in Bijection(1..g[c], A[c])
    BY FS_CardinalityType DEF ExistsBijection
  <2> QED
    BY <2>1, Zenon
<1>2. IsFiniteSet(Units(S, g)) /\ \A c \in S : IsFiniteSet(A[c])
  BY <1>1, UnitsFinite
<1> HIDE DEF b
<1>3. ASSUME NEW u \in Units(S, g)
      PROVE  /\ u[1] \in S /\ u[2] \in 1..g[u[1]] /\ u = <<u[1], u[2]>>
             /\ m[u] = b[u[1]][u[2]] /\ m[u] \in A[u[1]]
  <2>1. PICK c \in S : \E i \in 1..g[c] : u = <<c, i>>
    BY UnitsElements
  <2>2. PICK i \in 1..g[c] : u = <<c, i>>
    BY <2>1
  <2>3. b[c][i] \in A[c]
    BY <1>1 DEF Bijection, Injection
  <2> QED
    BY <2>2, <2>3
<1>4. m \in [Units(S, g) -> U]
  BY <1>3
<1>5. ASSUME NEW u \in Units(S, g), NEW v \in Units(S, g), m[u] = m[v] PROVE u = v
  <2>1. u[1] = v[1]
    BY <1>3, <1>5
  <2>2. u[2] = v[2]
    <3>1. b[u[1]] \in Injection(1..g[u[1]], A[u[1]])
      BY <1>1, <1>3 DEF Bijection
    <3>2. b[u[1]][u[2]] = b[u[1]][v[2]] /\ u[2] \in 1..g[u[1]] /\ v[2] \in 1..g[u[1]]
      BY <1>3, <1>5, <2>1
    <3> QED
      BY <3>1, <3>2 DEF Injection, IsInjective
  <2> QED
    BY <1>3, <2>1, <2>2
<1>6. ASSUME NEW x \in U PROVE \E u \in Units(S, g) : m[u] = x
  <2>1. PICK c \in S : x \in A[c]
    OBVIOUS
  <2>2. PICK i \in 1..g[c] : b[c][i] = x
    BY <1>1, <2>1 DEF Bijection, Surjection
  <2>3. <<c, i>> \in Units(S, g)
    BY <2>2, UnitsElements
  <2>4. m[<<c, i>>] = x
    BY <2>2, <2>3
  <2> QED
    BY <2>3, <2>4
<1> HIDE DEF m, U
<1>7. m \in Bijection(Units(S, g), U)
  BY <1>4, <1>5, <1>6 DEF Bijection, Injection, IsInjective, Surjection
<1>8. Cardinality(U) = Cardinality(Units(S, g))
  BY <1>2, <1>7, FS_Bijection DEF ExistsBijection
<1> QED
  BY <1>8 DEF Total, U

-----------------------------------------------------------------------------
(* What the entry of a case says, in a document whose outcomes are earned. *)
LEMMA EntryFacts ==
  ASSUME SummaryAssumption, NEW d \in Docs, EarnedDoc(d), NEW c \in AllCases
  PROVE  /\ Entry(d, c).outcome \in EntryOutcomes \cup {"none"}
         /\ Entry(d, c).ran \in Nat /\ Entry(d, c).left \in Nat
         /\ Entry(d, c).outcome = "none" <=> c \in Cases /\ d.outcome[c] = "none"
         /\ Entry(d, c).code = "AUTOMATED_EVIDENCE" => Entry(d, c).outcome \in {"pass", "fail"}
         /\ Entry(d, c).ran <= Plan[c].steps
<1>1. /\ Settled[c] \in Ending /\ Plan[c] \in PlanEntry /\ SettledAsPlanned(c)
      /\ Settled[c].outcome \in EntryOutcomes /\ Settled[c].ran \in Nat /\ Settled[c].left \in Nat
      /\ Plan[c].steps \in Nat
  BY DEF SummaryAssumption, Ending, PlanEntry
<1>2. CASE ~Waited(d, c)
  <2>1. Entry(d, c) = Settled[c] /\ ~(c \in Cases /\ d.outcome[c] = "none")
    BY <1>2 DEF Entry, Waited
  <2>2. Settled[c].outcome # "none"
    BY <1>1 DEF EntryOutcomes
  <2> QED
    BY <1>1, <2>1, <2>2 DEF SettledAsPlanned
<1>3. CASE Waited(d, c)
  <2> DEFINE o == d.outcome[c]
             n == Cardinality(StepsOf(c))
             k == WordsOf(d, c, {"passed", "failed"})
  <2>1. c \in Cases /\ o \in {"none", "pass", "fail", "uncertain", "partial"}
    BY <1>3 DEF Waited, Docs, Outcomes
  <2>2. n \in Nat /\ k \in Nat /\ k <= n /\ n <= Plan[c].steps
    <3>1. StepsOf(c) \in SUBSET Steps /\ {s \in StepsOf(c) : d.word[s] \in {"passed", "failed"}} \in SUBSET StepsOf(c)
      BY DEF StepsOf
    <3>2. IsFiniteSet(Steps) /\ n <= Plan[c].steps
      BY <2>1 DEF SummaryAssumption
    <3>3. IsFiniteSet(StepsOf(c))
      BY <3>1, <3>2, FS_Subset
    <3>4. IsFiniteSet({s \in StepsOf(c) : d.word[s] \in {"passed", "failed"}}) /\ k <= n
      BY <3>1, <3>3, FS_Subset DEF WordsOf
    <3>5. n \in Nat /\ k \in Nat
      BY <3>3, <3>4, FS_CardinalityType DEF WordsOf
    <3> QED
      BY <3>2, <3>4, <3>5
  <2>3. /\ Entry(d, c).ran = Plan[c].steps - n + k
        /\ Entry(d, c).left \in {0, 1}
        /\ Entry(d, c).code # "AUTOMATED_EVIDENCE"
        /\ Entry(d, c).outcome = IF o \in {"uncertain", "partial"} THEN "needs-human" ELSE o
    BY <1>3 DEF Entry
  <2>4. Entry(d, c).ran \in Nat /\ Entry(d, c).ran <= Plan[c].steps
    <3> HIDE DEF n, k
    <3> QED
      BY <1>1, <2>2, <2>3
  <2> QED
    BY <2>1, <2>3, <2>4 DEF EntryOutcomes
<1> QED
  BY <1>2, <1>3

(* What is counted as an objective covers what ran of it.                  *)
LEMMA ObjectiveFacts ==
  ASSUME SummaryAssumption, NEW d \in Docs, EarnedDoc(d), NEW c \in AllCases
  PROVE  /\ c \in Counted => Objective[c] \in Nat /\ Entry(d, c).ran <= Objective[c]
         /\ c \notin Counted /\ c \in OfClass(DriverClasses) => Entry(d, c).ran = 0
<1>1. /\ Plan[c].steps \in Nat /\ Plan[c].objective \in Nat \cup {Undeclared}
      /\ Entry(d, c).ran \in Nat /\ Entry(d, c).ran <= Plan[c].steps /\ Undeclared \notin Nat
      /\ Objective[c] = ObjectiveOf(Plan[c])
  BY EntryFacts DEF SummaryAssumption, PlanEntry, Objective
<1>2. ValidEntry(Plan[c]) => (Plan[c].objective # Undeclared => Plan[c].objective >= Plan[c].steps)
  BY DEF ValidEntry
<1>3. c \in Counted => Objective[c] \in Nat /\ Entry(d, c).ran <= Objective[c]
  BY <1>1, <1>2 DEF Counted, ObjectiveOf
<1>4. c \in OfClass(DriverClasses) => ValidEntry(Plan[c])
  BY DEF OfClass, ClassOf, DriverClasses
<1>5. c \notin Counted /\ ValidEntry(Plan[c]) => Plan[c].steps = 0
  BY <1>1 DEF Counted, ObjectiveOf
<1> QED
  BY <1>1, <1>3, <1>4, <1>5

(* A set in two parts.                                                     *)
LEMMA TwoParts ==
  ASSUME NEW S, NEW T, IsFiniteSet(S), IsFiniteSet(T), S \cap T = {}
  PROVE  /\ IsFiniteSet(S \cup T) /\ Cardinality(S) \in Nat /\ Cardinality(T) \in Nat
         /\ Cardinality(S \cup T) = Cardinality(S) + Cardinality(T)
<1>1. Cardinality(S) \in Nat /\ Cardinality(T) \in Nat
  BY FS_CardinalityType
<1>2. IsFiniteSet(S \cup T) /\ Cardinality(S \cup T) = Cardinality(S) + Cardinality(T) - 0
  BY FS_Union, FS_EmptySet, Zenon
<1> QED
  BY <1>1, <1>2

LEMMA FiniteCases ==
  ASSUME SummaryAssumption, NEW S, S \subseteq AllCases PROVE IsFiniteSet(S)
BY FS_Subset DEF SummaryAssumption

-----------------------------------------------------------------------------
(* The conjuncts of AddUp, one by one.                                     *)
LEMMA EveryCaseOnce ==
  ASSUME SummaryAssumption, NEW d \in Docs, EarnedDoc(d)
  PROVE  Count(d, "pass") + Count(d, "fail") + Count(d, "blocked") + Count(d, "needs-human")
           + Count(d, "none") = Cardinality(AllCases)
<1> DEFINE W(o) == With(d, {o})
<1>1. AllCases = (((W("pass") \cup W("fail")) \cup W("blocked")) \cup W("needs-human")) \cup W("none")
  BY EntryFacts DEF With, EntryOutcomes
<1>2. IsFiniteSet(W("pass")) /\ IsFiniteSet(W("fail")) /\ IsFiniteSet(W("blocked")) /\ IsFiniteSet(W("needs-human"))
      /\ IsFiniteSet(W("none"))
  BY FiniteCases DEF With
<1>3. /\ W("pass") \cap W("fail") = {}
      /\ (W("pass") \cup W("fail")) \cap W("blocked") = {}
      /\ ((W("pass") \cup W("fail")) \cup W("blocked")) \cap W("needs-human") = {}
      /\ (((W("pass") \cup W("fail")) \cup W("blocked")) \cup W("needs-human")) \cap W("none") = {}
  BY DEF With
<1> HIDE DEF W
<1>4. /\ IsFiniteSet(W("pass") \cup W("fail"))
      /\ Cardinality(W("pass")) \in Nat /\ Cardinality(W("fail")) \in Nat
      /\ Cardinality(W("pass") \cup W("fail")) = Cardinality(W("pass")) + Cardinality(W("fail"))
  BY <1>2, <1>3, TwoParts
<1>5. /\ IsFiniteSet((W("pass") \cup W("fail")) \cup W("blocked"))
      /\ Cardinality(W("blocked")) \in Nat
      /\ Cardinality((W("pass") \cup W("fail")) \cup W("blocked"))
           = Cardinality(W("pass") \cup W("fail")) + Cardinality(W("blocked"))
  BY <1>2, <1>3, <1>4, TwoParts
<1>6. /\ IsFiniteSet(((W("pass") \cup W("fail")) \cup W("blocked")) \cup W("needs-human"))
      /\ Cardinality(W("needs-human")) \in Nat
      /\ Cardinality(((W("pass") \cup W("fail")) \cup W("blocked")) \cup W("needs-human"))
           = Cardinality((W("pass") \cup W("fail")) \cup W("blocked")) + Cardinality(W("needs-human"))
  BY <1>2, <1>3, <1>5, TwoParts
<1>7. /\ Cardinality(W("none")) \in Nat
      /\ Cardinality(AllCases)
           = Cardinality(((W("pass") \cup W("fail")) \cup W("blocked")) \cup W("needs-human")) + Cardinality(W("none"))
  BY <1>1, <1>2, <1>3, <1>6, TwoParts
<1> QED
  BY <1>4, <1>5, <1>6, <1>7 DEF Count, W

LEMMA ExecutedOrRead ==
  ASSUME SummaryAssumption, NEW d \in Docs, EarnedDoc(d)
  PROVE  Cardinality(DriverExecuted(d)) + Cardinality(RecordResolved(d)) = Count(d, "pass") + Count(d, "fail")
<1>1. DriverExecuted(d) \cup RecordResolved(d) = With(d, {"pass"}) \cup With(d, {"fail"})
  BY EntryFacts DEF DriverExecuted, RecordResolved, With
<1>2. DriverExecuted(d) \cap RecordResolved(d) = {} /\ With(d, {"pass"}) \cap With(d, {"fail"}) = {}
  BY DEF DriverExecuted, With
<1>3. IsFiniteSet(DriverExecuted(d)) /\ IsFiniteSet(RecordResolved(d))
      /\ IsFiniteSet(With(d, {"pass"})) /\ IsFiniteSet(With(d, {"fail"}))
  BY FiniteCases DEF DriverExecuted, RecordResolved, With
<1>4. Cardinality(DriverExecuted(d) \cup RecordResolved(d)) = Cardinality(DriverExecuted(d)) + Cardinality(RecordResolved(d))
  BY <1>2, <1>3, TwoParts
<1>5. Cardinality(With(d, {"pass"}) \cup With(d, {"fail"})) = Cardinality(With(d, {"pass"})) + Cardinality(With(d, {"fail"}))
  BY <1>2, <1>3, TwoParts
<1> QED
  BY <1>1, <1>4, <1>5 DEF Count

LEMMA ExecutedWithinTotal ==
  ASSUME SummaryAssumption, NEW d \in Docs, EarnedDoc(d)
  PROVE  StepsExecuted(d) <= StepsTotal
<1> DEFINE O == OfClass(DriverClasses)
<1>1. O \subseteq AllCases /\ \A c \in O : Ran(d)[c] = Entry(d, c).ran /\ Ran(d)[c] \in Nat
  BY EntryFacts DEF OfClass, Ran
<1>2. IsFiniteSet(O) /\ IsFiniteSet(O \cap Counted) /\ IsFiniteSet(O \ Counted)
  BY <1>1, FiniteCases
<1>3. \A c \in O \ Counted : Ran(d)[c] = 0
  BY <1>1, ObjectiveFacts
<1>4. \A c \in O \cap Counted : Ran(d)[c] \in Nat /\ Objective[c] \in Nat /\ Ran(d)[c] <= Objective[c]
  BY <1>1, ObjectiveFacts
<1> HIDE DEF O
<1>5. Total(O, Ran(d)) = Total(O \cap Counted, Ran(d)) + Total(O \ Counted, Ran(d))
      /\ Total(O \cap Counted, Ran(d)) \in Nat
  BY <1>1, <1>2, TotalSplits
<1>6. Total(O \ Counted, Ran(d)) = 0
  <2>1. Units(O \ Counted, Ran(d)) = {}
    BY <1>3, UnitsElements
  <2> QED
    BY <2>1, FS_EmptySet DEF Total
<1>7. Total(O \cap Counted, Ran(d)) <= Total(O \cap Counted, Objective)
  BY <1>2, <1>4, TotalBounded
<1> QED
  BY <1>5, <1>6, <1>7 DEF StepsExecuted, StepsTotal, O

(* What is owed and what ran of a counted case are its objective.          *)
LEMMA OwedAndRan ==
  ASSUME SummaryAssumption, NEW d \in Docs, EarnedDoc(d)
  PROVE  LET left == ForAPerson(d, "impossible") \cup ForAPerson(d, "gap") IN
         NeedsHuman(d, "impossible") + NeedsHuman(d, "gap") + Total(left \cap Counted, Ran(d))
         = Total(left \cap Counted, Objective) + Total(left \ Counted, Left(d))
<1> DEFINE A == ForAPerson(d, "impossible")
           L == A \cup ForAPerson(d, "gap")
           owed == [c \in AllCases |-> Owed(d, c)]
<1>1. /\ L \subseteq AllCases
      /\ \A c \in L : /\ Ran(d)[c] = Entry(d, c).ran /\ Ran(d)[c] \in Nat
                      /\ Left(d)[c] = Entry(d, c).left /\ Left(d)[c] \in Nat
                      /\ owed[c] = Owed(d, c)
  BY EntryFacts DEF ForAPerson, With, Ran, Left
<1>2. L \cap A = A /\ L \ A = ForAPerson(d, "gap")
  BY DEF ForAPerson
<1>3. ASSUME NEW c \in L
      PROVE  /\ c \in Counted => Objective[c] \in Nat /\ owed[c] \in Nat /\ Objective[c] = owed[c] + Ran(d)[c]
             /\ c \notin Counted => owed[c] = Left(d)[c]
  <2>1. c \in AllCases /\ (c \in Counted => Objective[c] \in Nat /\ Entry(d, c).ran <= Objective[c])
    BY <1>1, ObjectiveFacts
  <2>2. owed[c] = Owed(d, c) /\ Ran(d)[c] = Entry(d, c).ran /\ Ran(d)[c] \in Nat /\ Left(d)[c] = Entry(d, c).left
    BY <1>1
  <2> HIDE DEF owed
  <2> QED
    BY <2>1, <2>2 DEF Owed
<1>4. IsFiniteSet(L) /\ IsFiniteSet(L \cap Counted) /\ IsFiniteSet(L \ Counted)
  BY <1>1, FiniteCases
<1>5. \A c \in L : owed[c] \in Nat
  BY <1>1, <1>3
<1>6. NeedsHuman(d, "impossible") = Total(A, owed) /\ NeedsHuman(d, "gap") = Total(ForAPerson(d, "gap"), owed)
  BY DEF NeedsHuman
<1> HIDE DEF A, L, owed
<1>7. Total(L, owed) = NeedsHuman(d, "impossible") + NeedsHuman(d, "gap")
  <2>1. Total(L, owed) = Total(L \cap A, owed) + Total(L \ A, owed)
    BY <1>4, <1>5, TotalSplits
  <2> QED
    BY <1>2, <1>6, <2>1
<1>8. Total(L, owed) = Total(L \cap Counted, owed) + Total(L \ Counted, owed)
      /\ Total(L \cap Counted, owed) \in Nat /\ Total(L \ Counted, owed) \in Nat
  BY <1>4, <1>5, TotalSplits
<1>9. Total(L \cap Counted, Objective) = Total(L \cap Counted, owed) + Total(L \cap Counted, Ran(d))
  BY <1>1, <1>3, <1>4, TotalAdds
<1>10. Total(L \ Counted, owed) = Total(L \ Counted, Left(d))
  <2>1. \A c \in L \ Counted : owed[c] = Left(d)[c]
    BY <1>3
  <2>2. \A u : u \in Units(L \ Counted, owed) <=> u \in Units(L \ Counted, Left(d))
    BY <2>1, UnitsElements
  <2>3. Units(L \ Counted, owed) = Units(L \ Counted, Left(d))
    BY <2>2
  <2> QED
    BY <2>3 DEF Total
<1>11. Total(L \cap Counted, Ran(d)) \in Nat
  BY <1>1, <1>4, UnitsFinite
<1>12. NeedsHuman(d, "impossible") + NeedsHuman(d, "gap") + Total(L \cap Counted, Ran(d))
         = Total(L \cap Counted, Objective) + Total(L \ Counted, Left(d))
  <2>1. Total(L \cap Counted, owed) + Total(L \ Counted, owed) + Total(L \cap Counted, Ran(d))
          = (Total(L \cap Counted, owed) + Total(L \cap Counted, Ran(d))) + Total(L \ Counted, owed)
    BY <1>8, <1>11
  <2> QED
    BY <1>7, <1>8, <1>9, <1>10, <2>1
<1> QED
  BY <1>12 DEF A, L

(* Cases wait for a verdict as long as steps do.                           *)
LEMMA PendingTogether ==
  ASSUME SummaryAssumption, NEW d \in Docs, EarnedDoc(d)
  PROVE  PendingSteps(d) = 0 <=> Count(d, "none") = 0
<1>1. IsFiniteSet({s \in Steps : d.word[s] = "pending"}) /\ IsFiniteSet(With(d, {"none"}))
  <2>1. IsFiniteSet(Steps) /\ {s \in Steps : d.word[s] = "pending"} \in SUBSET Steps
    BY DEF SummaryAssumption
  <2>2. IsFiniteSet({s \in Steps : d.word[s] = "pending"})
    BY <2>1, FS_Subset
  <2> QED
    BY <2>2, FiniteCases DEF With
<1>2. With(d, {"none"}) = {c \in Cases : d.outcome[c] = "none"}
  BY EntryFacts DEF With, AllCases
<1>3. {s \in Steps : d.word[s] = "pending"} = {} <=> {c \in Cases : d.outcome[c] = "none"} = {}
  <2>1. \A c \in Cases : d.outcome[c] = "none" <=> \E s \in Steps : CaseOf[s] = c /\ d.word[s] = "pending"
    BY DEF EarnedDoc, Earned, StepsOf
  <2> QED
    BY <2>1
<1> QED
  BY <1>1, <1>2, <1>3, FS_EmptySet DEF PendingSteps, Count

(* The judge steps of the cases that wait or waited are pending or judged. *)
LEMMA JudgeStepsOnce ==
  ASSUME SummaryAssumption, NEW d \in Docs, EarnedDoc(d)
  PROVE  Total({c \in Cases : Waited(d, c)}, [c \in Cases |-> Cardinality(StepsOf(c))])
           = PendingSteps(d) + JudgedSteps(d)
<1> DEFINE S == {c \in Cases : Waited(d, c)}
           A == [c \in Cases |-> StepsOf(c)]
           g == [c \in Cases |-> Cardinality(StepsOf(c))]
           U == UNION {A[c] : c \in S}
           P == {s \in Steps : d.word[s] = "pending"}
           J == {s \in Steps : d.word[s] \in {"passed", "failed", "uncertain"}}
<1>1. IsFiniteSet(Steps) /\ P \in SUBSET Steps /\ J \in SUBSET Steps /\ \A c \in Cases : StepsOf(c) \in SUBSET Steps
  BY DEF SummaryAssumption, StepsOf
<1>2. IsFiniteSet(P) /\ IsFiniteSet(J) /\ \A c \in Cases : IsFiniteSet(StepsOf(c))
  BY <1>1, FS_Subset
<1>3. U = P \cup J
  <2>1. \A s : s \in U <=> s \in Steps /\ Waited(d, CaseOf[s])
    BY DEF StepsOf, Waited
  <2>2. ASSUME NEW s \in Steps
        PROVE  Waited(d, CaseOf[s]) <=> d.word[s] \in {"pending", "passed", "failed", "uncertain"}
    <3>1. CaseOf[s] \in Cases /\ Earned(d, CaseOf[s]) /\ s \in StepsOf(CaseOf[s]) /\ d.word[s] \in Words
      BY DEF EarnedDoc, StepsOf, Docs
    <3>2. d.outcome[CaseOf[s]] = "settled" <=> d.word[s] = "moot"
      BY <3>1 DEF Earned
    <3> QED
      BY <3>1, <3>2 DEF Waited, Words
  <2> QED
    BY <2>1, <2>2
<1>4. Total(S, g) = Cardinality(U)
  <2>1. IsFiniteSet(S)
    BY FiniteCases DEF AllCases
  <2>2. \A c \in S : IsFiniteSet(A[c]) /\ g[c] = Cardinality(A[c])
    BY <1>2
  <2>3. \A c, e \in S : c # e => A[c] \cap A[e] = {}
    BY DEF StepsOf
  <2> HIDE DEF S, A, g
  <2> QED
    BY <2>1, <2>2, <2>3, TotalCounts
<1>5. P \cap J = {}
  OBVIOUS
<1> HIDE DEF P, J, U, S, g
<1>6. Cardinality(U) = Cardinality(P) + Cardinality(J)
  BY <1>2, <1>3, <1>5, TwoParts
<1> QED
  BY <1>4, <1>6 DEF PendingSteps, JudgedSteps, P, J, S, g

(***************************************************************************)
(* However judge calls and runs overlap, the totals of the results.json    *)
(* they leave account for every case and every step once (summarizeEntries,*)
(* summarizeClassification, summarizeNeedsHuman and summarizeJudgment).    *)
(***************************************************************************)
THEOREM EverythingIsAccountedFor == ASSUME SummaryAssumption PROVE Spec => []TotalsAddUp
<1>1. TypeOK /\ DocsEarned => TotalsAddUp
  <2> SUFFICES ASSUME TypeOK, DocsEarned, results # Unreadable PROVE AddUp(results)
    BY DEF TotalsAddUp
  <2>1. results \in Docs /\ EarnedDoc(results)
    BY DEF TypeOK, DocsEarned
  <2> QED
    BY <2>1, EveryCaseOnce, ExecutedOrRead, ExecutedWithinTotal, OwedAndRan, PendingTogether, JudgeStepsOnce DEF AddUp
<1> QED
  BY InitDocs, StepDocs, <1>1, PTL DEF Spec

(***************************************************************************)
(* With one call at a time a recorded verdict is backed by the evidence    *)
(* file it names: runJudge writes the evidence before results.json.        *)
(***************************************************************************)
THEOREM VerdictsAreBacked == ASSUME OneCaller PROVE Spec => []EvidenceBacksVerdict
<1>1. EvidenceBacksVerdict /\ RecordedVerdictStays => EvidenceBacksVerdict
  OBVIOUS
<1> QED
  BY OneCallerSafe, <1>1, PTL

=============================================================================
