----------------------------- MODULE QaSummary -----------------------------
(***************************************************************************)
(* The totals in results.json.  A run stamps every entry with the class    *)
(* and the count of objective steps its plan entry declares and adds the   *)
(* entries up; each recorded verdict adds them up again.  They are what a  *)
(* report says of the run: what was executed, by whom, and what is left.   *)
(***************************************************************************)
EXTENDS QaJudge, FiniteSets

CONSTANTS
  Others,    \* the cases without a judge step
  Plan,      \* the plan entry of a case: its class, its reason code, its
             \* objective steps (or Undeclared), how many steps it has
  Settled,   \* how the run ends a case that does not wait for a verdict: its
             \* outcome, its reason code, the steps that ran and those left
  Undeclared

AllCases == Cases \cup Others

(* The sum of the numbers f[c] is how many pairs of a case and one of the  *)
(* numbers up to its own there are.                                        *)
Units(S, f) == UNION {{c} \X (1..f[c]) : c \in S}
Total(S, f) == Cardinality(Units(S, f))

-----------------------------------------------------------------------------
(* The reason codes a case may be declined with, or a run records itself.  *)
Impossible == {"EXTERNAL_CHANNEL", "OUTSIDE_LOCAL_ENVIRONMENT", "HUMAN_SIGNOFF"}
DeclinedAsBlocked == {"PRODUCT_DEFECT", "STATE_UNCONFIRMED"}
RunnerOwned == {"PARTIAL_REMAINDER", "JUDGEMENT_UNCERTAIN", "ROLE_NOT_DEDICATED"}
Gaps == RunnerOwned \cup DeclinedAsBlocked \cup
        {"UNGROUNDABLE_AFTER_INTERACTION", "VISUAL_JUDGEMENT", "VOCABULARY_GAP", "STEP_UNGROUNDED"}

ReasonClassOf(code) ==
  IF code \in Impossible THEN "impossible" ELSE IF code \in Gaps THEN "gap" ELSE "none"

(* validatePlanClassification, and what it lets an entry declare.          *)
CaseClasses == {"automatable", "needs-a-new-driver", "human-by-nature", "blocked-by-product"}
DriverClasses == {"automatable", "needs-a-new-driver"}
Declines(p) == p.code # "none"
ValidEntry(p) ==
  /\ p.class \in CaseClasses \cup {"none"}
  /\ Declines(p) => (p.code \in (Impossible \cup Gaps) \ RunnerOwned /\ p.steps = 0)
  /\ p.objective # Undeclared => p.objective >= p.steps

(* The outcome of a declined case.                                         *)
DeclinedOutcome(p) == IF p.code \in DeclinedAsBlocked THEN "blocked" ELSE "needs-human"

(* applyClassification: what the entry is stamped with.                    *)
ClassOf(p) == IF ValidEntry(p) /\ p.class # "none" THEN p.class ELSE "unclassified"
ObjectiveOf(p) ==
  IF ~ValidEntry(p) THEN Undeclared
  ELSE IF p.objective # Undeclared THEN p.objective
  ELSE IF p.steps > 0 THEN p.steps ELSE Undeclared

(* What a run makes of an entry before any step runs: a record that cites  *)
(* its tests decides, whatever the plan says; an invalid entry and one     *)
(* that declines run nothing.                                              *)
SettledAsPlanned(c) ==
  LET p == Plan[c]  e == Settled[c] IN
  /\ e.ran <= p.steps
  /\ e.code = "AUTOMATED_EVIDENCE" => e.outcome \in {"pass", "fail"} /\ e.ran = 0
  /\ e.code # "AUTOMATED_EVIDENCE" /\ ~ValidEntry(p) =>
       e.outcome = "needs-human" /\ e.code = "PLAN_ENTRY_INVALID" /\ e.ran = 0
  /\ e.code # "AUTOMATED_EVIDENCE" /\ ValidEntry(p) /\ Declines(p) =>
       e.outcome = DeclinedOutcome(p) /\ e.code = p.code /\ e.ran = 0

EntryOutcomes == {"pass", "fail", "blocked", "needs-human"}
PlanEntry == [class : STRING, code : STRING, objective : Nat \cup {Undeclared}, steps : Nat]
Ending == [outcome : EntryOutcomes, code : STRING, ran : Nat, left : Nat]

ASSUME SummaryAssumption ==
  /\ Others \cap Cases = {} /\ IsFiniteSet(AllCases) /\ IsFiniteSet(Steps)
  /\ Plan \in [AllCases -> PlanEntry] /\ Settled \in [AllCases -> Ending] /\ Undeclared \notin Nat
  /\ \A c \in AllCases : SettledAsPlanned(c)
  /\ \A c \in Cases : ValidEntry(Plan[c]) /\ Cardinality(StepsOf(c)) <= Plan[c].steps

-----------------------------------------------------------------------------
(* The entry of a case in document d: what the run recorded, or what the   *)
(* verdicts make of a case that waits or has waited for them.              *)
Waited(d, c) == c \in Cases /\ d.outcome[c] # "settled"
WordsOf(d, c, w) == Cardinality({s \in StepsOf(c) : d.word[s] \in w})

Entry(d, c) ==
  IF ~Waited(d, c) THEN Settled[c]
  ELSE LET o == d.outcome[c] IN
    [outcome |-> IF o \in {"uncertain", "partial"} THEN "needs-human" ELSE o,
     code    |-> IF o = "uncertain" THEN "JUDGEMENT_UNCERTAIN"
                 ELSE IF o = "partial" THEN "PARTIAL_REMAINDER" ELSE "none",
     ran     |-> Plan[c].steps - Cardinality(StepsOf(c)) + WordsOf(d, c, {"passed", "failed"}),
     left    |-> IF o = "partial" THEN 1 ELSE 0]

Ran(d)  == [c \in AllCases |-> Entry(d, c).ran]
Left(d) == [c \in AllCases |-> Entry(d, c).left]
Objective == [c \in AllCases |-> ObjectiveOf(Plan[c])]

With(d, outcome) == {c \in AllCases : Entry(d, c).outcome \in outcome}
OfClass(class)   == {c \in AllCases : ClassOf(Plan[c]) \in class}

(* summarizeEntries: how many cases have an outcome, and how many of them  *)
(* a test record decided.                                                  *)
Count(d, outcome)  == Cardinality(With(d, {outcome}))
RecordResolved(d)  == {c \in AllCases : Entry(d, c).code = "AUTOMATED_EVIDENCE"}

(* summarizeClassification: what a driver executed.                        *)
Decided(d)         == With(d, {"pass", "fail"})   \* mutant
DriverExecuted(d)  == With(d, {"pass", "fail"}) \ RecordResolved(d)
StepsExecuted(d)   == Total(OfClass(DriverClasses), Ran(d))
Counted            == {c \in AllCases : Objective[c] # Undeclared}
StepsTotal         == Total(OfClass(DriverClasses) \cap Counted, Objective)

(* summarizeNeedsHuman: what a needs-human case leaves to a person.        *)
Owed(d, c) ==
  IF c \in Counted
  THEN IF Objective[c] > Entry(d, c).ran THEN Objective[c] - Entry(d, c).ran ELSE 0
  ELSE Entry(d, c).left
ForAPerson(d, class) ==
  {c \in With(d, {"needs-human"}) : ReasonClassOf(Entry(d, c).code) = class}
NeedsHuman(d, class) == Total(ForAPerson(d, class), [c \in AllCases |-> Owed(d, c)])

(* summarizeJudgment.                                                      *)
PendingSteps(d) == Cardinality({s \in Steps : d.word[s] = "pending"})
JudgedSteps(d)  == Cardinality({s \in Steps : d.word[s] \in {"passed", "failed", "uncertain"}})

-----------------------------------------------------------------------------
(***************************************************************************)
(* The totals of a results.json account for every case and every step      *)
(* once, after the run and after each verdict: a case is under one outcome *)
(* or waits for a verdict; what passed or failed was executed by a driver  *)
(* or read from a record, never both; and of a case left to a person, what *)
(* ran and what is owed make up its objective.                             *)
(***************************************************************************)
AddUp(d) ==
  LET left == ForAPerson(d, "impossible") \cup ForAPerson(d, "gap") IN
  /\ Count(d, "pass") + Count(d, "fail") + Count(d, "blocked") + Count(d, "needs-human")
       + Count(d, "none") = Cardinality(AllCases)
  /\ Cardinality(DriverExecuted(d)) + Cardinality(RecordResolved(d)) = Count(d, "pass") + Count(d, "fail")
  /\ StepsExecuted(d) <= StepsTotal
  /\ NeedsHuman(d, "impossible") + NeedsHuman(d, "gap")
       + Total(left \cap Counted, Ran(d))
       = Total(left \cap Counted, Objective) + Total(left \ Counted, Left(d))
  /\ PendingSteps(d) = 0 <=> Count(d, "none") = 0
  /\ Total({c \in Cases : Waited(d, c)}, [c \in Cases |-> Cardinality(StepsOf(c))])
       = PendingSteps(d) + JudgedSteps(d)

TotalsAddUp == results # Unreadable => AddUp(results)

=============================================================================
