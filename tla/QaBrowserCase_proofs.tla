----------------------- MODULE QaBrowserCase_proofs -----------------------
(***************************************************************************)
(* The safety properties of QaBrowserCase, for every number of steps N.    *)
(***************************************************************************)
EXTENDS QaBrowserCase, TLAPS

(* The invariant holds before the browser is opened.                       *)
LEMMA Initially == Init => IInv
BY NAssumption DEF Init, IInv, TypeOK, LoopShape, HandlerShape, VerdictShape, CaptureShape,
   Plans, PlanShape, Steps, Bad, Verdicts

(***************************************************************************)
(* IInv is inductive: one step per action, one under it per conjunct.      *)
(***************************************************************************)
LEMMA Inductive == IInv /\ [Next]_vars => IInv'
<1> SUFFICES ASSUME IInv, [Next]_vars PROVE IInv'
  OBVIOUS
<1> USE NAssumption DEF Steps, loopVars, caseVars, overlayVars, resultVars
<1>1. CASE Launch
  BY <1>1 DEF IInv, TypeOK, LoopShape, HandlerShape, VerdictShape, CaptureShape, Before,
     FirstBad, Bad, Launch
<1>2. CASE LaunchFails
  BY <1>2 DEF IInv, TypeOK, LoopShape, HandlerShape, VerdictShape, CaptureShape, LaunchFails
<1>3. CASE StopBefore
  <2>1. TypeOK'
    BY <1>3 DEF IInv, TypeOK, StopBefore, AtHead, RanBeforeStop
  <2>2. LoopShape'
    BY <1>3 DEF IInv, LoopShape, StopBefore, AtHead, RanBeforeStop
  <2>3. HandlerShape'
    BY <1>3 DEF IInv, HandlerShape, StopBefore, AtHead
  <2>4. VerdictShape'
    BY <1>3 DEF IInv, VerdictShape, FirstBad, Bad, StopBefore, AtHead
  <2>5. CaptureShape'
    BY <1>3 DEF IInv, CaptureShape, StopBefore, AtHead, StopsForLeaving, StopsForFailure
  <2>6. QED BY <2>1, <2>2, <2>3, <2>4, <2>5 DEF IInv
<1>4. CASE Truncate
  <2>1. TypeOK'
    BY <1>4 DEF IInv, TypeOK, Truncate, AtHead
  <2>2. LoopShape'
    BY <1>4 DEF IInv, PlanShape, Plans, GroundedPlan, LoopShape, Truncate, AtHead,
       StopsForLeaving, Truncates
  <2>3. HandlerShape'
    BY <1>4 DEF IInv, HandlerShape, Truncate, AtHead
  <2>4. VerdictShape'
    BY <1>4 DEF IInv, VerdictShape, FirstBad, Bad, Truncate, AtHead
  <2>5. CaptureShape'
    BY <1>4 DEF IInv, TypeOK, CaptureShape, Truncate, AtHead, Truncates
  <2>6. QED BY <2>1, <2>2, <2>3, <2>4, <2>5 DEF IInv
<1>5. CASE SkipGap
  <2>1. TypeOK'
    BY <1>5 DEF IInv, TypeOK, SkipGap, AtHead
  <2>2. LoopShape'
    BY <1>5 DEF IInv, PlanShape, Plans, LoopShape, Before, SkipGap, AtHead, StopsForLeaving,
       Truncates, SkipsGap
  <2>3. HandlerShape'
    BY <1>5 DEF IInv, HandlerShape, SkipGap, AtHead
  <2>4. VerdictShape'
    BY <1>5 DEF IInv, VerdictShape, FirstBad, Bad, SkipGap, AtHead
  <2>5. CaptureShape'
    BY <1>5 DEF IInv, CaptureShape, SkipGap, AtHead
  <2>6. QED BY <2>1, <2>2, <2>3, <2>4, <2>5 DEF IInv
<1>6. CASE BeginStep
  <2>1. TypeOK'
    BY <1>6 DEF IInv, TypeOK, BeginStep, AtHead
  <2>2. LoopShape'
    BY <1>6 DEF IInv, TypeOK, PlanShape, LoopShape, Before, BeginStep, AtHead,
       StopsForLeaving, SkipsGap
  <2>3. HandlerShape'
    BY <1>6 DEF HandlerShape, BeginStep, StopsForLeaving
  <2>4. VerdictShape'
    BY <1>6 DEF IInv, VerdictShape, FirstBad, Bad, BeginStep, AtHead, StopsForFailure,
       Continues
  <2>5. CaptureShape'
    BY <1>6 DEF IInv, CaptureShape, BeginStep, AtHead
  <2>6. QED BY <2>1, <2>2, <2>3, <2>4, <2>5 DEF IInv
<1>7. CASE LeaveLoop
  BY <1>7 DEF IInv, TypeOK, PlanShape, LoopShape, HandlerShape, VerdictShape, CaptureShape,
     FirstBad, Bad, LeaveLoop
<1>8. CASE StepPasses
  <2>1. TypeOK'
    BY <1>8 DEF IInv, TypeOK, LoopShape, StepPasses, Captures
  <2>2. LoopShape'
    BY <1>8 DEF IInv, TypeOK, Plans, GroundedPlan, LoopShape, Before, StepPasses, Captures
  <2>3. HandlerShape'
    BY <1>8 DEF IInv, HandlerShape, StepPasses, Captures
  <2>4. VerdictShape'
    <3>1. at \in Steps /\ own[at] = "unrun" /\ own' = [own EXCEPT ![at] = "ok"]
      BY <1>8 DEF IInv, TypeOK, LoopShape, StepPasses, Captures
    <3>2. \A i \in Steps : Bad(i)' <=> Bad(i)
      BY <3>1 DEF Bad
    <3>3. \A i \in Steps : FirstBad(i)' <=> FirstBad(i)
      BY <3>2 DEF FirstBad, Before
    <3>4. \A i \in Steps : FirstBad(i) => own'[i] = own[i]
      BY <3>1 DEF FirstBad, Bad
    <3> QED
      BY <1>8, <3>2, <3>3, <3>4 DEF IInv, VerdictShape, StepPasses, Captures
  <2>5. CaptureShape'
    BY <1>8 DEF IInv, TypeOK, LoopShape, CaptureShape, StepPasses, Captures
  <2>6. QED BY <2>1, <2>2, <2>3, <2>4, <2>5 DEF IInv
<1>9. ASSUME NEW res \in {"fail", "blocked", "needs-human"}, StepFails(res)
      PROVE IInv'
  <2>1. TypeOK'
    <3>1. at \in Steps /\ own \in [Steps -> {"unrun", "ok", "fail", "blocked", "needs-human"}]
      BY <1>9 DEF IInv, TypeOK, LoopShape, StepFails
    <3>2. verdict' \in Verdicts
      BY <1>9 DEF IInv, TypeOK, Verdicts, StepFails, KeptVerdict
    <3>3. own' \in [Steps -> {"unrun", "ok", "fail", "blocked", "needs-human"}]
      BY <1>9, <3>1 DEF StepFails
    <3>4. at' \in 1..(N + 1) /\ failed' \subseteq Steps /\ pc' \in {"loop", "wrap"}
      BY <1>9, <3>1 DEF IInv, TypeOK, StepFails
    <3> QED
      BY <1>9, <3>2, <3>3, <3>4 DEF IInv, TypeOK, StepFails
  <2>2. LoopShape'
    BY <1>9 DEF IInv, TypeOK, Plans, GroundedPlan, LoopShape, Before, StepFails
  <2>3. HandlerShape'
    BY <1>9 DEF IInv, TypeOK, HandlerShape, VerdictShape, Acting, Continuing, StepFails,
       BadResults, KeptVerdict
  <2>4. VerdictShape'
    <3>1. /\ at \in Steps /\ own[at] = "unrun" /\ own' = [own EXCEPT ![at] = res]
          /\ \A i \in Steps : i > at => own[i] = "unrun"
      BY <1>9 DEF IInv, TypeOK, LoopShape, StepFails
    <3>2. \A i \in Steps : Bad(i)' <=> Bad(i) \/ i = at
      BY <3>1 DEF IInv, TypeOK, Bad
    <3>3. failed' = {i \in Steps : Bad(i)}'
      BY <1>9, <3>1, <3>2 DEF IInv, VerdictShape, StepFails
    <3>4. \E i \in Steps : FirstBad(i)' /\ own'[i] = verdict'
      <4>1. CASE verdict = "none"
        BY <1>9, <4>1, <3>1, <3>2 DEF IInv, TypeOK, VerdictShape, FirstBad, Before,
           StepFails, KeptVerdict
      <4>2. CASE verdict # "none"
        <5>1. PICK i \in Steps : FirstBad(i) /\ own[i] = verdict
          BY <1>9, <4>2 DEF IInv, VerdictShape, StepFails
        <5>2. i < at
          BY <5>1, <3>1 DEF FirstBad, Bad
        <5>3. FirstBad(i)' /\ own'[i] = verdict'
          BY <1>9, <4>2, <5>1, <5>2, <3>1, <3>2 DEF FirstBad, Before, StepFails, KeptVerdict
        <5> QED BY <5>3
      <4> QED BY <4>1, <4>2
    <3>5. verdict' \notin {"none", "left-origin", "ungrounded"}
      BY <1>9 DEF IInv, VerdictShape, StepFails, KeptVerdict
    <3>6. pc' = "loop" \/ pc' = "wrap"
      BY <1>9 DEF StepFails
    <3> QED
      BY <3>3, <3>4, <3>5, <3>6 DEF VerdictShape
  <2>5. CaptureShape'
    BY <1>9 DEF IInv, LoopShape, CaptureShape, StepFails, KeptVerdict
  <2>6. QED BY <2>1, <2>2, <2>3, <2>4, <2>5 DEF IInv
<1>10. CASE CheckLeaving
  <2>1. TypeOK'
    BY <1>10 DEF IInv, TypeOK, VerdictShape, Verdicts, CheckLeaving, LeavingReplaces
  <2>2. LoopShape'
    BY <1>10 DEF IInv, LoopShape, CheckLeaving
  <2>3. HandlerShape'
    BY <1>10 DEF IInv, HandlerShape, CheckLeaving
  <2>4. VerdictShape'
    <3>1. \A i \in Steps : (Bad(i)' <=> Bad(i)) /\ (FirstBad(i)' <=> FirstBad(i))
      BY <1>10 DEF Bad, FirstBad, CheckLeaving
    <3>2. CASE offOrigin # 0
      <4>1. failed' = {i \in Steps : Bad(i)' \/ i = offOrigin'}
        BY <1>10, <3>1, <3>2 DEF IInv, TypeOK, VerdictShape, CheckLeaving, LeavingReplaces
      <4> QED
        BY <1>10, <3>1, <3>2, <4>1 DEF VerdictShape, CheckLeaving, LeavingReplaces
    <3>3. CASE offOrigin = 0
      BY <1>10, <3>1, <3>3 DEF IInv, VerdictShape, CheckLeaving, LeavingReplaces
    <3> QED BY <3>2, <3>3
  <2>5. CaptureShape'
    BY <1>10 DEF IInv, CaptureShape, CheckLeaving, LeavingReplaces
  <2>6. QED BY <2>1, <2>2, <2>3, <2>4, <2>5 DEF IInv
<1>11. CASE CaptureFinal
  BY <1>11 DEF IInv, TypeOK, LoopShape, HandlerShape, VerdictShape, CaptureShape, FirstBad,
     Bad, CaptureFinal
<1>12. CASE CaptureFails
  <2>1. TypeOK'
    BY <1>12 DEF IInv, TypeOK, CaptureFails
  <2>2. LoopShape'
    BY <1>12 DEF IInv, LoopShape, CaptureFails
  <2>3. HandlerShape'
    BY <1>12 DEF IInv, HandlerShape, CaptureFails
  <2>4. VerdictShape'
    BY <1>12 DEF IInv, VerdictShape, FirstBad, Bad, CaptureFails
  <2>5. CaptureShape'
    BY <1>12 DEF IInv, CaptureShape, CaptureFails
  <2>6. QED BY <2>1, <2>2, <2>3, <2>4, <2>5 DEF IInv
<1>13. CASE Report
  <2>1. TypeOK'
    BY <1>13 DEF IInv, TypeOK, Verdicts, RecordWords, Report, RecordOf, GapVerdict,
       OutcomeOf, StopNoted
  <2>2. LoopShape'
    BY <1>13 DEF IInv, LoopShape, Report
  <2>3. HandlerShape'
    BY <1>13 DEF IInv, HandlerShape, Report
  <2>4. VerdictShape'
    BY <1>13 DEF VerdictShape, Report
  <2>5. CaptureShape'
    BY <1>13 DEF IInv, TypeOK, CaptureShape, Verdicts, Reported, Report, RecordOf,
       GapVerdict, OutcomeOf
  <2>6. QED BY <2>1, <2>2, <2>3, <2>4, <2>5 DEF IInv
<1>14. CASE ReportFails
  BY <1>14 DEF IInv, TypeOK, LoopShape, HandlerShape, VerdictShape, CaptureShape, Verdicts,
     ReportFails, GapVerdict
<1>15. CASE HandlerStarts
  BY <1>15 DEF IInv, TypeOK, LoopShape, HandlerShape, VerdictShape, CaptureShape, FirstBad,
     Bad, HandlerStarts
<1>16. CASE HandlerLeaves
  <2>1. TypeOK'
    BY <1>16 DEF IInv, TypeOK, HandlerShape, HandlerLeaves
  <2>2. LoopShape'
    BY <1>16 DEF IInv, TypeOK, LoopShape, HandlerShape, HandlerLeaves
  <2>3. HandlerShape'
    BY <1>16 DEF IInv, TypeOK, LoopShape, HandlerShape, HandlerLeaves
  <2>4. VerdictShape'
    BY <1>16 DEF IInv, HandlerShape, VerdictShape, FirstBad, Bad, HandlerLeaves
  <2>5. CaptureShape'
    BY <1>16 DEF IInv, CaptureShape, HandlerLeaves
  <2>6. QED BY <2>1, <2>2, <2>3, <2>4, <2>5 DEF IInv
<1>17. CASE HandlerEnds
  BY <1>17 DEF IInv, TypeOK, LoopShape, HandlerShape, VerdictShape, CaptureShape, FirstBad,
     Bad, HandlerEnds
<1>18. CASE Returned
  BY <1>18 DEF IInv, TypeOK, LoopShape, HandlerShape, VerdictShape, CaptureShape, Reported,
     Returned, vars
<1>19. CASE UNCHANGED vars
  BY <1>19 DEF IInv, TypeOK, LoopShape, HandlerShape, VerdictShape, CaptureShape, FirstBad,
     Bad, Reported, vars
<1> QED
  BY <1>1, <1>2, <1>3, <1>4, <1>5, <1>6, <1>7, <1>8, <1>9, <1>10, <1>11, <1>12, <1>13, <1>14,
     <1>15, <1>16, <1>17, <1>18, <1>19 DEF Next, Driver, Overlay

(***************************************************************************)
(* The inductive invariant holds of every behaviour of the driver.         *)
(***************************************************************************)
THEOREM Invariance == Spec => []IInv
BY Initially, Inductive, PTL DEF Spec

(***************************************************************************)
(* Every variable of the driver keeps to the closed vocabularies of the    *)
(* code, TypeOK.                                                           *)
(***************************************************************************)
THEOREM TypeCorrect == Spec => []TypeOK
<1>1. IInv => TypeOK
  BY DEF IInv
<1> QED BY <1>1, Invariance, PTL

(***************************************************************************)
(* ActsOnKnownPage, for every plan: an interaction begins only when every  *)
(* earlier step passed or was skipped as an assertion gap.                 *)
(***************************************************************************)
THEOREM KnownPage == Spec => []ActsOnKnownPage
<1>1. Init => ActsOnKnownPage
  BY DEF Init, ActsOnKnownPage, Started
<1>2. IInv /\ IInv' /\ ActsOnKnownPage /\ [Next]_vars => ActsOnKnownPage'
  <2> SUFFICES ASSUME IInv, IInv', ActsOnKnownPage, [Next]_vars,
                      NEW i \in Steps, Started(i)', plan'.kind[i] \notin Continuing
               PROVE  /\ offOrigin' = 0 \/ offOrigin' >= i
                      /\ \A j \in 1..(i - 1) :
                           \/ own'[j] = "ok"
                           \/ own'[j] = "unrun" /\ j \in plan'.gaps \ {plan'.truncateAt}
    BY DEF ActsOnKnownPage
  <2> USE NAssumption DEF Steps, Started, loopVars, caseVars, overlayVars, resultVars
  <2>1. CASE BeginStep
    <3>1. CASE i = at
      <4>1. verdict = "none" /\ offOrigin' = 0
        BY <2>1, <3>1 DEF BeginStep, StopsForLeaving, StopsForFailure, Continues
      <4>2. \A j \in 1..(i - 1) : own[j] = "ok" \/ (own[j] = "unrun" /\ j \in plan.gaps)
        <5> TAKE j \in 1..(i - 1)
        <5>1. j \in Steps /\ j <= ranTo
          BY <2>1, <3>1 DEF IInv, LoopShape, BeginStep, AtHead
        <5>2. own[j] \in {"ok", "unrun"}
          BY <2>1, <4>1, <5>1 DEF IInv, TypeOK, VerdictShape, Bad, BeginStep
        <5>3. own[j] = "unrun" => j \in plan.gaps
          BY <2>1, <5>1 DEF IInv, TypeOK, LoopShape, BeginStep
        <5> QED BY <5>1, <5>2, <5>3
      <4>3. plan.truncateAt \notin 1..(i - 1)
        BY <2>1, <3>1 DEF IInv, LoopShape, BeginStep
      <4> QED BY <2>1, <4>1, <4>2, <4>3 DEF BeginStep
    <3>2. CASE i # at
      BY <2>1, <3>2 DEF ActsOnKnownPage, BeginStep
    <3> QED BY <3>1, <3>2
  <2>2. CASE StepPasses
    BY <2>2 DEF ActsOnKnownPage, StepPasses, Captures
  <2>3. ASSUME NEW res \in {"fail", "blocked", "needs-human"}, StepFails(res)
        PROVE  /\ offOrigin' = 0 \/ offOrigin' >= i
               /\ \A j \in 1..(i - 1) :
                    \/ own'[j] = "ok"
                    \/ own'[j] = "unrun" /\ j \in plan'.gaps \ {plan'.truncateAt}
    BY <2>3 DEF ActsOnKnownPage, IInv, LoopShape, StepFails
  <2>4. CASE HandlerLeaves
    BY <2>4 DEF ActsOnKnownPage, IInv, TypeOK, LoopShape, HandlerShape, HandlerLeaves
  <2>5. CASE /\ UNCHANGED <<plan, own, offOrigin>>
             /\ pc' = "exec" => pc = "exec" /\ at' = at
    BY <2>5 DEF ActsOnKnownPage
  <2> QED
    BY <2>1, <2>2, <2>3, <2>4, <2>5 DEF Next, Driver, Overlay, vars, Launch, LaunchFails,
       AtHead, StopBefore, Truncate, SkipGap, LeaveLoop, CheckLeaving, CaptureFinal,
       CaptureFails, Report, ReportFails, HandlerStarts, HandlerEnds, Returned
<1> QED BY <1>1, <1>2, Invariance, PTL DEF Spec

(***************************************************************************)
(* What the properties about a returned case rest on: once the driver has  *)
(* returned nothing changes, and before that there is no outcome.          *)
(***************************************************************************)
LEMMA ReturnedStays == IInv /\ [Next]_vars /\ pc = "done" => UNCHANGED vars
BY DEF Next, Driver, Overlay, Launch, LaunchFails, StopBefore, Truncate, SkipGap, BeginStep,
   LeaveLoop, StepPasses, Captures, StepFails, AtHead, CheckLeaving, CaptureFinal, CaptureFails,
   Report, ReportFails, HandlerStarts, HandlerLeaves, HandlerEnds, Returned

(* The driver returns with its report, or blocked and without records.     *)
LEMMA Ends ==
  IInv /\ [Next]_vars /\ pc # "done" /\ pc' = "done" =>
    \/ Report
    \/ outcome' = "blocked" /\ UNCHANGED <<records, offOrigin>>
BY DEF Next, Driver, Overlay, vars, overlayVars, Launch, LaunchFails, StopBefore, Truncate,
   SkipGap, BeginStep, LeaveLoop, StepPasses, Captures, StepFails, CheckLeaving, CaptureFinal,
   CaptureFails, ReportFails, HandlerStarts, HandlerLeaves, HandlerEnds, Returned

(***************************************************************************)
(* PassIsEarned, for every plan: a pass means that every step ran and      *)
(* passed and that nothing was left to a person or to a judge.             *)
(***************************************************************************)
THEOREM EarnedPass == Spec => []PassIsEarned
<1> USE NAssumption DEF Steps, loopVars, caseVars, overlayVars, resultVars
<1>1. Init => PassIsEarned
  BY DEF Init, PassIsEarned
<1>2. IInv /\ IInv' /\ PassIsEarned /\ [Next]_vars => PassIsEarned'
  <2> SUFFICES ASSUME IInv, IInv', PassIsEarned, [Next]_vars PROVE PassIsEarned'
    OBVIOUS
  <2>1. CASE pc = "done"
    BY <2>1, ReturnedStays DEF vars, PassIsEarned
  <2>2. CASE pc # "done" /\ Report
    <3>1. SUFFICES ASSUME GapVerdict = "none" PROVE PassIsEarned'
      BY <2>2 DEF IInv, TypeOK, Verdicts, Report, PassIsEarned, OutcomeOf
    <3>2. plan.gaps = {} /\ verdict = "none" /\ offOrigin = 0 /\ ranTo = N
      BY <2>2, <3>1 DEF IInv, LoopShape, Plans, GroundedPlan, GapVerdict, VerdictShape,
         CaptureShape, Report
    <3>3. \A i \in Steps : own[i] = "ok"
      BY <2>2, <3>2 DEF IInv, TypeOK, LoopShape, VerdictShape, Bad, Report
    <3>4. captured = {i \in Steps : plan.kind[i] = "judge"}
      BY <3>3 DEF IInv, CaptureShape
    <3>5. failed = {}
      BY <2>2, <3>2, <3>3 DEF IInv, VerdictShape, Report
    <3>6. \A i \in Steps : RecordOf(i) = IF plan.kind[i] = "judge" THEN "pending-judgment" ELSE "passed"
      BY <3>1, <3>2, <3>4, <3>5 DEF RecordOf, Owed, IInv, LoopShape, Plans, GroundedPlan
    <3> QED
      BY <2>2, <3>1, <3>2, <3>3, <3>4, <3>6 DEF Report, PassIsEarned
  <2>3. CASE pc # "done" /\ ~Report
    BY <2>3, Ends DEF IInv, CaptureShape, PassIsEarned
  <2> QED BY <2>1, <2>2, <2>3
<1> QED BY <1>1, <1>2, Invariance, PTL DEF Spec

(***************************************************************************)
(* RecordsAreTrue, for every plan: the per-step records a returned case    *)
(* carries say what each step came to.                                     *)
(***************************************************************************)
THEOREM TrueRecords == Spec => []RecordsAreTrue
<1> USE NAssumption DEF Steps, loopVars, caseVars, overlayVars, resultVars
<1>1. Init => RecordsAreTrue
  BY DEF Init, RecordsAreTrue, Reported
<1>2. IInv /\ IInv' /\ RecordsAreTrue /\ [Next]_vars => RecordsAreTrue'
  <2> SUFFICES ASSUME IInv, IInv', RecordsAreTrue, [Next]_vars PROVE RecordsAreTrue'
    OBVIOUS
  <2>1. CASE pc = "done"
    BY <2>1, ReturnedStays DEF vars, RecordsAreTrue, Reported, Bad
  <2>2. CASE pc # "done" /\ Report
    <3> SUFFICES ASSUME NEW i \in Steps
                 PROVE  /\ RecordOf(i) = "failed" <=> Bad(i) \/ i = offOrigin
                        /\ RecordOf(i) = "passed" <=> own[i] = "ok" /\ i # offOrigin /\ plan.kind[i] # "judge"
                        /\ RecordOf(i) \in {"not-run", "human"} <=> own[i] = "unrun"
      BY <2>2 DEF Report, RecordsAreTrue, Bad
    <3>1. /\ own[i] = "unrun" <=> i > ranTo \/ i \in plan.gaps
          /\ i \in failed <=> Bad(i) \/ i = offOrigin
          /\ i \in captured <=> plan.kind[i] = "judge" /\ own[i] = "ok"
      BY <2>2 DEF IInv, LoopShape, VerdictShape, CaptureShape, Report
    <3>2. i = offOrigin => plan.kind[i] # "judge" /\ own[i] # "unrun"
      BY <2>2, <3>1 DEF IInv, TypeOK, LoopShape, HandlerShape, Acting
    <3>3. own[i] \in {"unrun", "ok"} \/ Bad(i)
      BY DEF IInv, TypeOK, Bad
    <3>4. Owed(i) => own[i] = "unrun"
      BY <2>2, <3>1 DEF Owed, IInv, TypeOK, PlanShape, LoopShape
    <3> QED
      <4>1. CASE i \in captured
        BY <4>1, <3>1, <3>2 DEF RecordOf, Bad
      <4>2. CASE i \notin captured /\ Owed(i)
        BY <4>2, <3>1, <3>2, <3>4 DEF RecordOf, Bad
      <4>3. CASE i \notin captured /\ ~Owed(i) /\ i > ranTo
        BY <4>3, <3>1, <3>2 DEF RecordOf, Bad, IInv, TypeOK
      <4>4. CASE i \notin captured /\ ~Owed(i) /\ ~(i > ranTo)
        <5>1. own[i] # "unrun" /\ RecordOf(i) = IF i \in failed THEN "failed" ELSE "passed"
          BY <4>4, <3>1 DEF RecordOf, Owed, IInv, TypeOK
        <5> QED BY <4>4, <5>1, <3>1, <3>2, <3>3 DEF Bad
      <4> QED BY <4>1, <4>2, <4>3, <4>4
  <2>3. CASE pc # "done" /\ ~Report
    BY <2>3, Ends DEF IInv, CaptureShape, RecordsAreTrue, Reported
  <2> QED BY <2>1, <2>2, <2>3
<1> QED BY <1>1, <1>2, Invariance, PTL DEF Spec

(***************************************************************************)
(* FirstFailureDecides, for every plan.                                    *)
(***************************************************************************)
THEOREM FirstFailure == Spec => []FirstFailureDecides
<1> USE NAssumption DEF Steps, loopVars, caseVars, overlayVars, resultVars
<1>1. Init => FirstFailureDecides
  BY DEF Init, FirstFailureDecides, Reported
<1>2. IInv /\ IInv' /\ FirstFailureDecides /\ [Next]_vars => FirstFailureDecides'
  <2> SUFFICES ASSUME IInv, IInv', FirstFailureDecides, [Next]_vars PROVE FirstFailureDecides'
    OBVIOUS
  <2>1. CASE pc = "done"
    BY <2>1, ReturnedStays DEF vars, FirstFailureDecides, Reported, Bad
  <2>2. CASE pc # "done" /\ Report
    <3>1. CASE offOrigin # 0
      BY <2>2, <3>1 DEF Report, FirstFailureDecides
    <3>2. CASE offOrigin = 0 /\ verdict = "none"
      <4>1. \A i \in Steps : ~Bad(i)
        BY <2>2, <3>2 DEF IInv, VerdictShape
      <4>2. plan.gaps # {} => outcome' = "needs-human"
        BY <2>2, <3>2 DEF Report, GapVerdict, OutcomeOf
      <4> QED
        BY <2>2, <4>1, <4>2 DEF Report, FirstFailureDecides, Bad
    <3>3. CASE offOrigin = 0 /\ verdict # "none"
      <4>1. verdict \in {"fail", "blocked", "needs-human"}
        BY <2>2, <3>3 DEF IInv, TypeOK, Verdicts, VerdictShape
      <4>2. outcome' = verdict
        BY <2>2, <4>1 DEF Report, GapVerdict, OutcomeOf
      <4>3. PICK k \in Steps : FirstBad(k) /\ own[k] = verdict
        BY <2>2, <4>1 DEF IInv, VerdictShape
      <4>4. \A i \in Steps : Bad(i) /\ (\A j \in 1..(i - 1) : ~Bad(j)) => i = k
        BY <4>3 DEF FirstBad, Before
      <4> QED
        BY <2>2, <4>2, <4>3, <4>4 DEF Report, FirstFailureDecides, FirstBad, Bad
    <3> QED BY <3>1, <3>2, <3>3
  <2>3. CASE pc # "done" /\ ~Report
    BY <2>3, Ends DEF IInv, CaptureShape, FirstFailureDecides, Reported
  <2> QED BY <2>1, <2>2, <2>3
<1> QED BY <1>1, <1>2, Invariance, PTL DEF Spec

(***************************************************************************)
(* LeavingEndsBlocked, for every plan and however late the dismissal of an *)
(* overlay completes.                                                      *)
(***************************************************************************)
THEOREM LeavingBlocked == Spec => []LeavingEndsBlocked
<1> USE DEF loopVars, caseVars, overlayVars, resultVars
<1>1. Init => LeavingEndsBlocked
  BY DEF Init, LeavingEndsBlocked
<1>2. IInv /\ LeavingEndsBlocked /\ [Next]_vars => LeavingEndsBlocked'
  <2> SUFFICES ASSUME IInv, LeavingEndsBlocked, [Next]_vars PROVE LeavingEndsBlocked'
    OBVIOUS
  <2>1. CASE pc = "done"
    BY <2>1, ReturnedStays DEF vars, LeavingEndsBlocked
  <2>2. CASE pc # "done" /\ Report
    BY <2>2 DEF IInv, VerdictShape, Report, GapVerdict, OutcomeOf, LeavingEndsBlocked
  <2>3. CASE pc # "done" /\ ~Report
    BY <2>3, Ends DEF LeavingEndsBlocked
  <2> QED BY <2>1, <2>2, <2>3
<1> QED BY <1>1, <1>2, Invariance, PTL DEF Spec

(***************************************************************************)
(* What the case found out only grows while it runs.                       *)
(***************************************************************************)
LEMMA FoundGrows ==
  ASSUME IInv, IInv', [Next]_vars
  PROVE  Found \subseteq Found'
<1> USE NAssumption DEF Steps, loopVars, caseVars, overlayVars, resultVars
<1>1. \A i \in Steps : own[i] # "unrun" => own'[i] = own[i]
  BY DEF IInv, TypeOK, LoopShape, Next, Driver, Overlay, vars, loopVars, caseVars,
     overlayVars, resultVars, Launch, LaunchFails, StopBefore, Truncate, SkipGap, BeginStep,
     LeaveLoop, StepPasses, Captures, StepFails, CheckLeaving, CaptureFinal, CaptureFails, Report,
     ReportFails, HandlerStarts, HandlerLeaves, HandlerEnds, Returned
<1>2. /\ plan' = plan /\ ranTo' >= ranTo
      /\ offOrigin # 0 => offOrigin' = offOrigin
      /\ outcome = "blocked" => outcome' = "blocked"
  BY ReturnedStays DEF IInv, TypeOK, LoopShape, CaptureShape, Next, Driver, Overlay, vars,
     Launch, LaunchFails, StopBefore, RanBeforeStop, Truncate, SkipGap, BeginStep, AtHead,
     LeaveLoop, StepPasses, Captures, StepFails, CheckLeaving, CaptureFinal, CaptureFails, Report,
     ReportFails, HandlerStarts, HandlerLeaves, HandlerEnds, Returned
<1>3. (\E i \in Steps : own[i] = "fail") => \E i \in Steps : own'[i] = "fail"
  BY <1>1
<1>4. (\E i \in Steps : own[i] = "blocked") => \E i \in Steps : own'[i] = "blocked"
  BY <1>1
<1>5. (\E i \in Steps : own[i] = "needs-human") => \E i \in Steps : own'[i] = "needs-human"
  BY <1>1
<1>6. (\E g \in plan.gaps : g <= ranTo) => \E g \in plan'.gaps : g <= ranTo'
  BY <1>2 DEF IInv, TypeOK, PlanShape
<1> QED
  BY <1>2, <1>3, <1>4, <1>5, <1>6 DEF Found

(***************************************************************************)
(* The driver implements QaCaseOutcome, for every plan: its initial state  *)
(* is the promise's, and each of its steps finds something out, asks for a *)
(* judgment, ends the case honestly, or is invisible.                      *)
(***************************************************************************)
THEOREM Implements == Spec => KeepsPromise
<1> USE NAssumption DEF Steps, loopVars, caseVars, overlayVars, resultVars
<1>1. Init => Promise!Init
  <2> SUFFICES ASSUME Init PROVE Promise!Init
    OBVIOUS
  <2>1. \A g \in plan.gaps : ~(g <= ranTo)
    BY DEF Init, Plans, PlanShape
  <2> QED
    BY <2>1 DEF Init, Promise!Init, Found
<1>2. IInv /\ IInv' /\ PassIsEarned' /\ [Next]_vars
        => [Promise!FindOut \/ Promise!Ask \/ Promise!End]_(Promise!vars)
  <2> SUFFICES ASSUME IInv, IInv', PassIsEarned', [Next]_vars
               PROVE  [Promise!FindOut \/ Promise!Ask \/ Promise!End]_(Promise!vars)
    OBVIOUS
  <2>1. /\ Found \subseteq Found'
        /\ Found' \in {Found \cup new : new \in SUBSET Promise!Findings}
    <3>1. Found' \in SUBSET Promise!Findings
      BY DEF Found, Promise!Findings
    <3> QED BY <3>1, FoundGrows
  <2>2. CASE pc = "done"
    <3>1. UNCHANGED <<plan, own, ranTo, offOrigin, outcome, captured>>
      BY <2>2, ReturnedStays DEF vars
    <3> QED BY <3>1 DEF Promise!vars, Found
  <2>3. CASE StepPasses
    <3>1. own' = [own EXCEPT ![at] = "ok"] /\ own[at] = "unrun" /\ at \in Steps
      BY <2>3 DEF StepPasses, Captures, IInv, TypeOK, LoopShape
    <3>2. \A i \in Steps, r \in {"fail", "blocked", "needs-human"} : own'[i] = r <=> own[i] = r
      BY <3>1 DEF IInv, TypeOK
    <3>3. Found' = Found
      BY <2>3, <3>2 DEF StepPasses, Captures, Found
    <3>4. outcome = "running" /\ outcome' = outcome
      BY <2>3 DEF StepPasses, Captures, IInv, CaptureShape
    <3>5. captured # {} => captured' # {}
      BY <2>3 DEF StepPasses, Captures
    <3> QED BY <3>3, <3>4, <3>5 DEF Promise!Ask, Promise!vars
  <2>4. CASE ~StepPasses /\ pc # "done" /\ pc' # "done"
    <3>1. outcome = "running" /\ outcome' = "running"
      BY <2>4 DEF IInv, CaptureShape
    <3>2. captured' = captured
      BY <2>4 DEF Next, Driver, Overlay, vars, Launch, LaunchFails, StopBefore, Truncate,
         SkipGap, BeginStep, LeaveLoop, StepFails, CheckLeaving, CaptureFinal, CaptureFails,
         Report, ReportFails, HandlerStarts, HandlerLeaves, HandlerEnds, Returned
    <3> QED BY <2>1, <3>1, <3>2 DEF Promise!FindOut
  <2>5. CASE pc # "done" /\ pc' = "done"
    <3>1. outcome = "running" /\ captured' = captured
      BY <2>5 DEF IInv, CaptureShape, Next, Driver, Overlay, vars, Launch, LaunchFails,
         StopBefore, Truncate, SkipGap, BeginStep, LeaveLoop, StepPasses, Captures, StepFails,
         CheckLeaving, CaptureFinal, CaptureFails, Report, ReportFails, HandlerStarts,
         HandlerLeaves, HandlerEnds, Returned
    <3>2. outcome' \in Promise!Honest(Found', captured # {})
      <4>1. CASE outcome' = "blocked"
        BY <4>1 DEF Found, Promise!Honest
      <4>2. CASE outcome' # "blocked"
        <5>1. Report
          BY <2>5, <4>2, Ends
        <5>2. UNCHANGED <<plan, own, ranTo, offOrigin>>
          BY <5>1 DEF Report
        <5>3. CASE GapVerdict = "none"
          <6>1. outcome' = IF captured # {} THEN "pending-judgment" ELSE "pass"
            BY <5>1, <5>3 DEF Report
          <6>2. /\ plan.gaps = {} /\ offOrigin = 0
                /\ \A i \in Steps : own[i] = "ok"
            BY <5>2, <6>1 DEF PassIsEarned
          <6>3. Found' = {}
            BY <4>2, <5>2, <6>2 DEF Found
          <6> QED BY <6>1, <6>3 DEF Promise!Honest
        <5>4. CASE GapVerdict = "ungrounded"
          <6>1. outcome' = "needs-human"
            BY <5>1, <5>4 DEF Report, OutcomeOf
          <6>2. \E g \in plan.gaps : g <= ranTo
            <7>1. verdict = "none" /\ plan.gaps # {} /\ offOrigin = 0
              BY <5>1, <5>4 DEF GapVerdict, IInv, VerdictShape, Report
            <7> QED
              BY <5>1, <7>1 DEF IInv, PlanShape, LoopShape, Plans, GroundedPlan,
                 CaptureShape, Report
          <6>3. "owed" \in Found'
            BY <5>2, <6>2 DEF Found
          <6> QED BY <6>1, <6>3 DEF Promise!Honest
        <5>5. CASE GapVerdict \notin {"none", "ungrounded"}
          <6>1. GapVerdict = verdict /\ verdict \in {"fail", "blocked", "needs-human", "left-origin"}
            BY <5>5 DEF GapVerdict, IInv, TypeOK, Verdicts
          <6>2. outcome' = verdict /\ verdict \in {"fail", "needs-human"}
            BY <4>2, <5>1, <6>1 DEF Report, OutcomeOf
          <6>3. \E i \in Steps : own'[i] = outcome'
            BY <5>1, <5>2, <6>2 DEF IInv, VerdictShape, Report
          <6> QED BY <6>2, <6>3 DEF Found, Promise!Honest
        <5> QED BY <5>3, <5>4, <5>5
      <4> QED BY <4>1, <4>2
    <3> QED BY <2>1, <3>1, <3>2 DEF Promise!End
  <2> QED BY <2>2, <2>3, <2>4, <2>5
<1> QED BY <1>1, <1>2, Invariance, EarnedPass, PTL DEF Spec, KeepsPromise, Promise!Spec

=============================================================================
