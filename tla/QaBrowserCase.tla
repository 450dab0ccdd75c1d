--------------------------- MODULE QaBrowserCase ---------------------------
(***************************************************************************)
(* One browser case of `qa-run.mjs run`: the step loop of DRIVERS.browser, *)
(* the verdict it keeps, the steps it skips or stops before, the overlay   *)
(* handlers that Playwright runs inside a click or a fill, and the records *)
(* and the outcome it returns.                                             *)
(*                                                                         *)
(* What a step does on the page is a choice among the results the code can *)
(* produce for its kind.  Steps are numbered from 1 as in the records; 0   *)
(* stands for the null of truncate_at, stoppedAt and offOrigin.            *)
(***************************************************************************)
EXTENDS Integers, QaCasePlan

ASSUME NAssumption == N \in Nat \ {0}

VARIABLES
  plan,       \* the plan entry: kind of each step, gap_steps, truncate_at, handlers
  pc,         \* where the driver stands
  at,         \* the step at the head of the loop
  verdict,    \* the verdict of the case, kept from the first result that ends it
  failed,     \* failedIdx: the steps recorded as failed
  captured,   \* judgeKinds and pendingAt: the judge steps whose capture was written
  ranTo,      \* the last step the loop reached
  stoppedAt,  \* the step the loop stopped before, or 0
  handler,    \* the overlay handler of the click or fill in flight
  offOrigin,  \* the step whose dismissal left the approved origin, or 0
  outcome,    \* what the driver returned, "running" before
  records,    \* the per-step records it returned, "none" before or when it returns none
  stopNote,   \* the steps whose record says they follow a failed assertion
  own         \* history: what each step itself came to

loopVars    == <<at, ranTo, stoppedAt>>
caseVars    == <<verdict, failed, captured>>
overlayVars == <<handler, offOrigin>>
resultVars  == <<outcome, records, stopNote>>

vars == <<plan, pc, loopVars, caseVars, overlayVars, resultVars, own>>

(* continuesAfterFailure: a step that still runs once an assertion failed. *)
ContinuesWithReads(i) == plan.kind[i] \in Continuing \cup {"read_message"}   \* mutant
Continues(i) == plan.kind[i] \in Continuing

(* The results a step of a kind can give other than having passed.         *)
BadResults(k) ==
  CASE k = "goto"         -> {"blocked"}
    [] k \in Acting       -> {"blocked", "needs-human"}
    [] k = "judge"        -> {"blocked", "needs-human"}
    [] k = "assert"       -> {"fail", "blocked", "needs-human"}
    [] k = "read_message" -> {"fail", "blocked", "needs-human"}

Init ==
  /\ plan \in Plans
  /\ pc = "launch" /\ at = 1
  /\ verdict = "none" /\ failed = {} /\ captured = {}
  /\ ranTo = 0 /\ stoppedAt = 0
  /\ handler = "idle" /\ offOrigin = 0
  /\ outcome = "running" /\ records = [i \in Steps |-> "none"] /\ stopNote = {}
  /\ own = [i \in Steps |-> "unrun"]

-----------------------------------------------------------------------------
(* The browser opens, its context, page and overlay handlers are set up.   *)
Launch ==
  /\ pc = "launch" /\ pc' = "loop"
  /\ UNCHANGED <<plan, loopVars, caseVars, overlayVars, resultVars, own>>

(* No browser, no context or no handler registration: nothing is executed. *)
LaunchFails ==
  /\ pc = "launch" /\ pc' = "done" /\ outcome' = "blocked"
  /\ UNCHANGED <<plan, loopVars, caseVars, overlayVars, records, stopNote, own>>

-----------------------------------------------------------------------------
(* The head of the loop: the checks are made in this order.                *)
AtHead == pc = "loop" /\ at <= N

StopsForLeaving == offOrigin # 0
Truncates       == ~StopsForLeaving /\ at = plan.truncateAt
SkipsGap        == ~StopsForLeaving /\ ~Truncates /\ at \in plan.gaps
StopsForFailure == /\ ~StopsForLeaving /\ ~Truncates /\ ~SkipsGap
                   /\ verdict # "none" /\ ~Continues(at)

(* The last step that ran when the loop stops before the one at its head.  *)
RanThroughStop == at       \* mutant
RanBeforeStop  == at - 1

(* A dismissal left the origin, or an interaction would follow a failed    *)
(* assertion: this step and the later ones stay not-run.                   *)
StopBefore ==
  /\ AtHead /\ (StopsForLeaving \/ StopsForFailure)
  /\ stoppedAt' = at /\ ranTo' = RanBeforeStop /\ pc' = "wrap"
  /\ UNCHANGED <<plan, at, caseVars, overlayVars, resultVars, own>>

(* An ungrounded click or fill ends the acting.                            *)
Truncate ==
  /\ AtHead /\ Truncates
  /\ ranTo' = at /\ pc' = "wrap"
  /\ UNCHANGED <<plan, at, caseVars, stoppedAt, overlayVars, resultVars, own>>

(* An ungrounded assertion is skipped without touching the page.           *)
SkipGap ==
  /\ AtHead /\ SkipsGap
  /\ ranTo' = at /\ at' = at + 1
  /\ UNCHANGED <<plan, pc, caseVars, stoppedAt, overlayVars, resultVars, own>>

BeginStep ==
  /\ AtHead
  /\ ~StopsForLeaving /\ ~Truncates /\ ~SkipsGap /\ ~StopsForFailure
  /\ ranTo' = at /\ pc' = "exec" /\ handler' = "idle"
  /\ UNCHANGED <<plan, at, caseVars, stoppedAt, offOrigin, resultVars, own>>

(* The captures a judge step writes for the session that judges it later.  *)
Captures == IF plan.kind[at] = "judge" THEN captured \cup {at} ELSE captured

StepPasses ==
  /\ pc = "exec" /\ handler # "running"
  /\ own' = [own EXCEPT ![at] = "ok"]
  /\ captured' = Captures
  /\ pc' = "loop" /\ at' = at + 1
  /\ UNCHANGED <<plan, verdict, failed, ranTo, stoppedAt, overlayVars, resultVars>>

(* The first result that ends the case is its verdict.                     *)
LatestVerdict(res) == res  \* mutant
KeptVerdict(res)   == IF verdict = "none" THEN res ELSE verdict

(***************************************************************************)
(* settle: the step is recorded as failed, the first result is the verdict,*)
(* and the loop goes on only past a failed assertion.  A click that cannot *)
(* find its element ended before any handler ran; one that times out may   *)
(* leave its handler running behind it.                                    *)
(***************************************************************************)
StepFails(res) ==
  /\ pc = "exec" /\ res \in BadResults(plan.kind[at])
  /\ plan.kind[at] \in Acting /\ res = "needs-human" => handler = "idle"
  /\ own' = [own EXCEPT ![at] = res]
  /\ failed' = failed \cup {at}
  /\ verdict' = KeptVerdict(res)
  /\ IF res = "fail" /\ Continues(at)
       THEN pc' = "loop" /\ at' = at + 1
       ELSE pc' = "wrap" /\ at' = at
  /\ UNCHANGED <<plan, captured, ranTo, stoppedAt, overlayVars, resultVars>>

LeaveLoop ==
  /\ pc = "loop" /\ at > N /\ pc' = "wrap"
  /\ UNCHANGED <<plan, loopVars, caseVars, overlayVars, resultVars, own>>

-----------------------------------------------------------------------------
(* registerOverlayHandlers: Playwright runs a handler inside a click or a  *)
(* fill; its time counts against the click, so a click can time out first. *)
HandlerStarts ==
  /\ pc = "exec" /\ plan.handlers /\ plan.kind[at] \in Acting /\ handler # "running"
  /\ handler' = "running"
  /\ UNCHANGED <<plan, pc, loopVars, caseVars, offOrigin, resultVars, own>>

(* The dismissal navigates away: only the first such step is kept.         *)
HandlerLeaves ==
  /\ handler = "running" /\ pc # "done" /\ offOrigin = 0
  /\ offOrigin' = at
  /\ UNCHANGED <<plan, pc, loopVars, caseVars, handler, resultVars, own>>

HandlerEnds ==
  /\ handler = "running" /\ pc # "done"
  /\ handler' = "ran"
  /\ UNCHANGED <<plan, pc, loopVars, caseVars, offOrigin, resultVars, own>>

-----------------------------------------------------------------------------
(* The outcome a verdict reports.                                          *)
OutcomeOf(v) ==
  CASE v = "left-origin" -> "blocked"
    [] v = "ungrounded"  -> "needs-human"
    [] OTHER             -> v

(* A dismissal that left the origin replaces any earlier verdict.          *)
LeavingReplaces   == offOrigin # 0

CheckLeaving ==
  /\ pc = "wrap" /\ pc' = "capture"
  /\ IF LeavingReplaces
       THEN failed' = failed \cup {offOrigin} /\ verdict' = "left-origin"
       ELSE UNCHANGED <<failed, verdict>>
  /\ UNCHANGED <<plan, loopVars, captured, overlayVars, resultVars, own>>

(* The final screenshot or page text is written.                           *)
CaptureFinal ==
  /\ pc = "capture" /\ pc' = "report"
  /\ UNCHANGED <<plan, loopVars, caseVars, overlayVars, resultVars, own>>

(* It is not: a case that is not blocked ends blocked, without records; a  *)
(* blocked one goes on.                                                    *)
CaptureFails ==
  /\ pc = "capture"
  /\ IF OutcomeOf(verdict) = "blocked"
       THEN pc' = "report" /\ UNCHANGED outcome
       ELSE pc' = "done" /\ outcome' = "blocked"
  /\ UNCHANGED <<plan, loopVars, caseVars, overlayVars, records, stopNote, own>>

(* gapVerdict: a case with gaps and no other verdict is owed to a person.  *)
OnlyTruncating == IF verdict = "none" /\ plan.truncateAt # 0 THEN "ungrounded" ELSE verdict   \* mutant
GapVerdict == IF verdict = "none" /\ plan.gaps # {} THEN "ungrounded" ELSE verdict

(* overlayGapRecords: the gaps the loop reached, and what follows a        *)
(* truncating one.                                                         *)
Owed(i) == \/ i \in plan.gaps /\ i <= ranTo
           \/ plan.truncateAt # 0 /\ ranTo >= plan.truncateAt /\ i > plan.truncateAt

(* recordSteps and markFailedSteps, then the gap and the judge overlays.   *)
RecordOf(i) ==
  CASE i \in captured -> IF GapVerdict = "none" THEN "pending-judgment" ELSE "not-judged"
    [] i \notin captured /\ Owed(i) -> "human"
    [] i \notin captured /\ ~Owed(i) /\ i > ranTo -> "not-run"
    [] i \notin captured /\ ~Owed(i) /\ i <= ranTo ->
         IF i \in failed THEN "failed" ELSE "passed"

(* overlayStoppedRecords: the not-run records that get the stop sentence.  *)
StopNoted == {i \in Steps : stoppedAt # 0 /\ i >= stoppedAt /\ RecordOf(i) = "not-run"}

Report ==
  /\ pc = "report" /\ pc' = "done"
  /\ verdict' = GapVerdict
  /\ records' = [i \in Steps |-> RecordOf(i)]
  /\ stopNote' = StopNoted
  /\ outcome' = IF GapVerdict # "none" THEN OutcomeOf(GapVerdict)
                ELSE IF captured # {} THEN "pending-judgment" ELSE "pass"
  /\ UNCHANGED <<plan, loopVars, failed, captured, overlayVars, own>>

(* The overlay evidence of a case with declared handlers is not written.   *)
ReportFails ==
  /\ pc = "report" /\ plan.handlers /\ OutcomeOf(GapVerdict) # "blocked"
  /\ pc' = "done" /\ verdict' = GapVerdict /\ outcome' = "blocked"
  /\ UNCHANGED <<plan, loopVars, failed, captured, overlayVars, records, stopNote, own>>

(* The driver has returned.                                                *)
Returned == pc = "done" /\ UNCHANGED vars

-----------------------------------------------------------------------------
Driver ==
  \/ Launch \/ LaunchFails
  \/ StopBefore \/ Truncate \/ SkipGap \/ BeginStep \/ LeaveLoop
  \/ StepPasses \/ \E res \in {"fail", "blocked", "needs-human"} : StepFails(res)
  \/ CheckLeaving \/ CaptureFinal \/ CaptureFails \/ Report \/ ReportFails

Overlay == HandlerStarts \/ HandlerLeaves \/ HandlerEnds

Next == Driver \/ Overlay \/ Returned

Spec == Init /\ [][Next]_vars

-----------------------------------------------------------------------------
Verdicts == {"none", "fail", "blocked", "needs-human", "left-origin", "ungrounded"}
RecordWords == {"passed", "failed", "not-run", "human", "pending-judgment", "not-judged"}

(* The type invariant of the driver's state and of what it returns.        *)
TypeOK ==
  /\ plan \in PlanShape
  /\ pc \in {"launch", "loop", "exec", "wrap", "capture", "report", "done"}
  /\ at \in 1..(N + 1)
  /\ verdict \in Verdicts
  /\ failed \subseteq Steps /\ captured \subseteq Steps
  /\ ranTo \in 0..N /\ stoppedAt \in 0..N /\ offOrigin \in 0..N
  /\ handler \in {"idle", "running", "ran"}
  /\ outcome \in {"running", "pass", "fail", "blocked", "needs-human", "pending-judgment"}
  /\ records \in [Steps -> RecordWords \cup {"none"}]
  /\ stopNote \subseteq Steps
  /\ own \in [Steps -> {"unrun", "ok", "fail", "blocked", "needs-human"}]

Bad(i)     == own[i] \in {"fail", "blocked", "needs-human"}
Started(i) == own[i] # "unrun" \/ (pc = "exec" /\ at = i)
Reported   == pc = "done" /\ \A i \in Steps : records[i] # "none"

(***************************************************************************)
(* An interaction only ever acts on a page in a known state: every earlier *)
(* step passed or was an assertion skipped as a gap, and no earlier        *)
(* dismissal left the origin.                                              *)
(***************************************************************************)
ActsOnKnownPage ==
  \A i \in Steps : Started(i) /\ plan.kind[i] \notin Continuing =>
    /\ offOrigin = 0 \/ offOrigin >= i
    /\ \A j \in 1..(i - 1) : \/ own[j] = "ok"
                             \/ own[j] = "unrun" /\ j \in plan.gaps \ {plan.truncateAt}

(***************************************************************************)
(* A pass, or a case left waiting for judgment only, is earned: every step *)
(* ran and passed, nothing is a gap, no dismissal left the origin, and     *)
(* exactly the judge steps wait.                                           *)
(***************************************************************************)
PassIsEarned ==
  outcome \in {"pass", "pending-judgment"} =>
    /\ plan.gaps = {} /\ offOrigin = 0
    /\ \A i \in Steps :
         /\ own[i] = "ok"
         /\ records[i] = IF plan.kind[i] = "judge" THEN "pending-judgment" ELSE "passed"
    /\ outcome = "pass" <=> \A i \in Steps : plan.kind[i] # "judge"

(***************************************************************************)
(* The records tell what happened: a step is recorded as passed only if it *)
(* did and its dismissals stayed on the origin, as failed exactly if it    *)
(* did not, and as not-run or human only if it never ran.                  *)
(***************************************************************************)
RecordsAreTrue ==
  Reported => \A i \in Steps :
    /\ records[i] = "failed" <=> Bad(i) \/ i = offOrigin
    /\ records[i] = "passed" <=> own[i] = "ok" /\ i # offOrigin /\ plan.kind[i] # "judge"
    /\ records[i] \in {"not-run", "human"} <=> own[i] = "unrun"

(***************************************************************************)
(* The first result that ended the case decides it, whatever later         *)
(* assertions gave; gaps decide only a case in which nothing failed.       *)
(***************************************************************************)
FirstFailureDecides ==
  Reported /\ offOrigin = 0 =>
    /\ \A i \in Steps : Bad(i) /\ (\A j \in 1..(i - 1) : ~Bad(j)) => outcome = own[i]
    /\ (\A i \in Steps : ~Bad(i)) /\ plan.gaps # {} => outcome = "needs-human"

(***************************************************************************)
(* A dismissal that left the approved origin never goes unnoticed, even    *)
(* one that completes after its click timed out: the case ends blocked.    *)
(***************************************************************************)
LeavingEndsBlocked == pc = "done" /\ offOrigin # 0 => outcome = "blocked"

(***************************************************************************)
(* The driver keeps the promise of QaCaseOutcome: what the case found out  *)
(* is read off the results of its steps, the gaps the loop reached and the *)
(* dismissals.                                                             *)
(***************************************************************************)
Found ==
       {b \in {"failed"}  : \E i \in Steps : own[i] = "fail"}
  \cup {b \in {"stopped"} : \/ \E i \in Steps : own[i] = "blocked"
                            \/ offOrigin # 0 \/ outcome = "blocked"}
  \cup {b \in {"owed"}    : \/ \E i \in Steps : own[i] = "needs-human"
                            \/ \E g \in plan.gaps : g <= ranTo}

Promise == INSTANCE QaCaseOutcome WITH bad <- Found, asked <- captured # {}
KeepsPromise == Promise!Spec

-----------------------------------------------------------------------------
(* The parts of the inductive invariant behind the safety properties.      *)
Before(i) == 1..(i - 1)
FirstBad(i) == Bad(i) /\ \A j \in Before(i) : ~Bad(j)

(* How far the loop is, and that it passed over nothing but gaps.          *)
LoopShape ==
  /\ plan \in Plans
  /\ pc = "launch" => at = 1 /\ ranTo = 0 /\ offOrigin = 0
  /\ pc = "loop" => ranTo = at - 1 /\ plan.truncateAt \notin Before(at)
  /\ pc = "exec" => /\ ranTo = at /\ at \notin plan.gaps /\ offOrigin \in {0, at}
                    /\ plan.truncateAt \notin Before(at)
  /\ pc # "done" => \A i \in Steps :
       own[i] = "unrun" <=> i > ranTo \/ i \in plan.gaps \/ (pc = "exec" /\ i = at)
  /\ offOrigin <= ranTo
  /\ plan.truncateAt # 0 => ranTo <= plan.truncateAt
  /\ pc \in {"launch", "loop", "exec"} => stoppedAt = 0

(* A handler outlives only a click that was blocked.                       *)
HandlerShape ==
  /\ offOrigin # 0 => plan.kind[offOrigin] \in Acting /\ offOrigin \notin plan.gaps
  /\ handler = "running" => pc \notin {"launch", "loop"}
  /\ handler = "running" /\ pc # "done" => ranTo = at /\ plan.kind[at] \in Acting
  /\ handler = "running" /\ pc \in {"wrap", "capture", "report"} =>
       own[at] = "blocked" /\ verdict \in {"blocked", "left-origin"}

(* The verdict is the first bad result, until a dismissal replaces it.     *)
VerdictShape ==
  /\ pc \in {"launch", "loop", "exec", "wrap"} =>
       failed = {i \in Steps : Bad(i)} /\ verdict # "left-origin"
  /\ pc \in {"capture", "report"} =>
       /\ failed = {i \in Steps : Bad(i) \/ i = offOrigin}
       /\ offOrigin # 0 => verdict \in {"blocked", "left-origin"}
       /\ verdict = "left-origin" => offOrigin # 0
  /\ pc # "done" => verdict # "ungrounded"
  /\ pc # "done" /\ verdict = "none" => \A i \in Steps : ~Bad(i)
  /\ pc # "done" /\ verdict \notin {"none", "left-origin"} =>
       \E i \in Steps : FirstBad(i) /\ own[i] = verdict
  /\ pc = "exec" /\ plan.kind[at] \notin Continuing => verdict = "none"

(* What is captured and returned, and when; a case in which nothing failed *)
(* went through all its steps or up to the click that has no locator.      *)
CaptureShape ==
  /\ captured = {i \in Steps : plan.kind[i] = "judge" /\ own[i] = "ok"}
  /\ /\ pc \in {"wrap", "capture", "report"} /\ verdict = "none"
     /\ pc = "wrap" => offOrigin = 0
     => ranTo = IF plan.truncateAt = 0 THEN N ELSE plan.truncateAt
  /\ pc # "done" => outcome = "running" /\ \A i \in Steps : records[i] = "none"
  /\ outcome = "running" => pc # "done"
  /\ (\E i \in Steps : records[i] = "none") => \A i \in Steps : records[i] = "none"
  /\ outcome \notin {"running", "blocked"} => Reported

(* The inductive invariant: every step of the driver preserves it.         *)
IInv == TypeOK /\ LoopShape /\ HandlerShape /\ VerdictShape /\ CaptureShape
=============================================================================
