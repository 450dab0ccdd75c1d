------------------------------- MODULE QaPlan -------------------------------
(***************************************************************************)
(* How qa-run.mjs takes the plan entry of a case: validateSteps reads the  *)
(* steps from first to last, the checks of the whole entry follow, and     *)
(* groundLocators walks the steps again and leaves out what neither the    *)
(* report nor a snapshot of the page vouches for.  What comes out is what  *)
(* the driver is handed.                                                   *)
(*                                                                         *)
(* A step is chosen when it is read.  What the report and the snapshots    *)
(* say of its words is chosen when the grounding asks.                     *)
(***************************************************************************)
EXTENDS QaStepForms, Sequences

CONSTANTS
  Menu,      \* the steps a planner may write
  Bound,     \* the names the declared captures of the case bind
  MaxSteps,  \* bounds the length of a plan
  Unset      \* an anchor that was never set, or was reset by a goto

ASSUME PlanAssumption ==
  /\ Menu \subseteq StepShape /\ Bound \subseteq Names
  /\ MaxSteps \in Nat \ {0} /\ Unset \notin Routes \cup {NoRoute}

VARIABLES
  driver,        \* the driver the entry names
  steps,         \* the steps read so far
  phase,         \* "rules", "entry", "ground", then "ready" or "refused"
  expecting,     \* whether an expectation was read
  route,         \* the route of the last goto or expect_url
  anchored,      \* the route of the last positive assertion since the last goto
  interacted,    \* whether a goto, click or fill was read
  messageBound,  \* the names that earlier read_message steps bind
  chosen,        \* the fills with a literal value that chosen_inputs names
  at,            \* the step the grounding stands at
  liveAnchor,    \* as anchored, of assertions that are not gaps
  gaps,          \* the steps left out
  truncateAt,    \* the click or fill the case stops at, or 0
  runtime        \* the steps whose locator is resolved when the case runs

scanVars   == <<expecting, interacted, messageBound>>
groundVars == <<at, liveAnchor, gaps, truncateAt, runtime>>
vars == <<driver, steps, phase, route, anchored, scanVars, chosen, groundVars>>

Positions == 1..Len(steps)

Init ==
  /\ driver \in {"http", "browser"} /\ steps = <<>> /\ phase = "rules"
  /\ expecting = FALSE /\ route = NoRoute /\ anchored = Unset
  /\ interacted = FALSE /\ messageBound = {} /\ chosen = {}
  /\ at = 1 /\ liveAnchor = Unset /\ gaps = {} /\ truncateAt = 0 /\ runtime = {}

-----------------------------------------------------------------------------
Navigates(s)  == s.action \in {"goto", "expect_url"}
RouteAfter(s) == IF Navigates(s) THEN s.route ELSE route

AnchorAfter(s) ==
  IF s.action \in Positive THEN RouteAfter(s)
  ELSE IF s.action = "goto" THEN Unset ELSE anchored

Touches(s) == s.action \in Interaction \cup {"goto"}

(* What the loop of validateSteps refuses beside the rules of one step.    *)
LaterBindings(s) == s.uses \subseteq Names                     \* mutant
NamesBound(s)    == s.uses \subseteq Bound \cup messageBound
Fits(s) ==
  /\ NamesBound(s)
  /\ driver = "browser" =>
       /\ Absence(s) => anchored # Unset /\ anchored = route
       /\ s.action = "expect_requests" => interacted
       /\ s.action = "read_message" =>
            interacted /\ s.binds \in Names \ (Bound \cup messageBound)

(* The rules hold of the step and it fits what was read before it.         *)
ReadStep(s) ==
  /\ phase = "rules" /\ Len(steps) < MaxSteps
  /\ Legal(driver, s) /\ Fits(s)
  /\ steps' = Append(steps, s)
  /\ expecting' = (expecting \/ Expects(s))
  /\ IF driver = "browser"
       THEN /\ route' = RouteAfter(s) /\ anchored' = AnchorAfter(s)
            /\ interacted' = (interacted \/ Touches(s))
            /\ messageBound' = IF s.action = "read_message" THEN messageBound \cup {s.binds}
                               ELSE messageBound
       ELSE UNCHANGED <<route, anchored, interacted, messageBound>>
  /\ UNCHANGED <<driver, phase, chosen, groundVars>>

RefuseStep(s) ==
  /\ phase = "rules" /\ Len(steps) < MaxSteps
  /\ ~(Legal(driver, s) /\ Fits(s))
  /\ phase' = "refused"
  /\ UNCHANGED <<driver, steps, route, anchored, scanVars, chosen, groundVars>>

(* NO_EXPECTATION: a plan in which nothing is asserted earns no pass.      *)
EndRules ==
  /\ phase = "rules" /\ steps # <<>>
  /\ phase' = IF expecting THEN "entry" ELSE "refused"
  /\ UNCHANGED <<driver, steps, route, anchored, scanVars, chosen, groundVars>>

-----------------------------------------------------------------------------
(* validateChosenInputs: what may be chosen are fills of a browser case.   *)
MayChoose(c) == c # {} => driver = "browser" /\ \A i \in c : steps[i].action = "fill"

(* validateJudgeCriteria: what is judged is what the report asks.          *)
CriteriaHold == \A i \in Positions : steps[i].action = "judge" => steps[i].literal = "report"

(* validateValidationSubmits: an earlier fill types the report's literal.  *)
SubmitsHold ==
  \A i \in Positions : steps[i].action = "click" /\ steps[i].effect = "validation" =>
    \E j \in 1..(i - 1) : steps[j].action = "fill" /\ steps[j].literal = "report"

(* chosenFillValues: what is chosen by a binding is no literal.            *)
ChosenFills(c) == {i \in c : steps[i].literal # "bound"}

(* The grounding starts over with its own route and anchors; the entry of  *)
(* an http case is not grounded.                                           *)
TakeEntry(c) ==
  /\ phase = "entry" /\ MayChoose(c) /\ CriteriaHold /\ SubmitsHold
  /\ chosen' = ChosenFills(c)
  /\ phase' = IF driver = "browser" THEN "ground" ELSE "ready"
  /\ route' = NoRoute /\ anchored' = Unset
  /\ UNCHANGED <<driver, steps, scanVars, groundVars>>

(* The checks of the entry, or that of a chosen value against the          *)
(* snapshots, refuse it.                                                   *)
RefuseEntry(c) ==
  /\ phase = "entry"
  /\ c # {} \/ ~CriteriaHold \/ ~SubmitsHold
  /\ phase' = "refused"
  /\ UNCHANGED <<driver, steps, route, anchored, scanVars, chosen, groundVars>>

-----------------------------------------------------------------------------
Step == steps[at]

(* interactionHistory, and whether its key can be built.                   *)
History   == {j \in 1..(at - 1) : Touches(steps[j])}
Keyable(s) == s.action = "goto" \/ (HasLocator(s) /\ LocatorOf(s) # "refused" /\ ~IsScoped(s))
MayFollow == /\ \A j \in History : Keyable(steps[j])
             /\ \E j \in History : steps[j].action # "goto"

(* The values that led to a post-interaction snapshot are the report's.    *)
FillsReported == \A j \in History : steps[j].action = "fill" => steps[j].literal = "report"

(* What an expected text or value may be: the report's words, a chosen     *)
(* fill that came before, or, for a value, a binding.                      *)
LiteralGrounded ==
  \/ Step.action \notin {"expect_text", "expect_value"} \/ Step.pattern
  \/ Step.literal \in {"none", "report"}
  \/ Step.literal = "bound" /\ Step.action = "expect_value"
  \/ Step.literal = "chosen" /\ \E c \in chosen : c < at

(* An absence that rests on a positive assertion left out as a gap.        *)
AnchorIsGap ==
  /\ Absence(Step) /\ anchored # Unset /\ anchored = route
  /\ liveAnchor # route

(* groundLocators on one step: `reported` are its words that the report    *)
(* holds, `listed` those that the snapshot lists exactly once, `after`     *)
(* says that the snapshot was taken after the case's own interactions.     *)
Missed(reported, listed, after) ==
  \/ AnchorIsGap
  \/ Step.action = "judge" /\ ~(Words(Step) \subseteq reported \cup listed)
  \/ /\ Step.action \in LocatorActions /\ HasLocator(Step)
     /\ \/ ~(Words(Step) \subseteq reported \cup listed)
        \/ ~IsScoped(Step) /\ listed # {} /\ after /\ ~FillsReported
        \/ ~LiteralGrounded

(* A positive assertion sets the live anchor only when it is no gap.       *)
LiveAlways(missed) == AnchorAfter(Step)   \* mutant
LiveAfter(missed)  ==
  IF Step.action \in Positive /\ ~missed THEN RouteAfter(Step)
  ELSE IF Step.action = "goto" THEN Unset ELSE liveAnchor

(* An interaction that is a gap ends the walk.                             *)
NeverTruncates(missed) == truncateAt   \* mutant
TruncatesAt(missed)   == IF missed /\ Step.action \in Interaction THEN at ELSE truncateAt

GroundStep(reported, listed, after) ==
  /\ phase = "ground" /\ at <= Len(steps) /\ truncateAt = 0
  /\ listed # {} => RouteAfter(Step) # NoRoute
  /\ after => MayFollow /\ RouteAfter(Step) # NoRoute
  /\ LET missed == Missed(reported, listed, after)
     IN  /\ gaps' = IF missed THEN gaps \cup {at} ELSE gaps
         /\ truncateAt' = TruncatesAt(missed)
         /\ liveAnchor' = LiveAfter(missed)
         /\ runtime' = IF /\ ~missed /\ Step.action \in LocatorActions /\ HasLocator(Step)
                          /\ IsScoped(Step) \/ listed = {}
                       THEN runtime \cup {at} ELSE runtime
  /\ route' = RouteAfter(Step) /\ anchored' = AnchorAfter(Step)
  /\ at' = at + 1
  /\ UNCHANGED <<driver, steps, phase, scanVars, chosen>>

EndGround ==
  /\ phase = "ground"
  /\ at > Len(steps) \/ truncateAt # 0
  /\ phase' = "ready"
  /\ UNCHANGED <<driver, steps, route, anchored, scanVars, chosen, groundVars>>

(* The entry is refused, or handed to the driver.                          *)
Taken == phase \in {"ready", "refused"} /\ UNCHANGED vars

Validate == (\E s \in Menu : ReadStep(s) \/ RefuseStep(s)) \/ EndRules
TakeIn   == \E c \in SUBSET Positions : TakeEntry(c) \/ RefuseEntry(c)
Ground   == \/ EndGround
            \/ \E reported, listed \in SUBSET {"scope", "target"}, after \in BOOLEAN :
                 GroundStep(reported, listed, after)

Next == Validate \/ TakeIn \/ Ground \/ Taken

Spec == Init /\ [][Next]_vars
-----------------------------------------------------------------------------
(* The type invariant of the scans and of what they hand on.               *)
Anchors == Routes \cup {NoRoute, Unset}
TypeOK ==
  /\ driver \in {"http", "browser"} /\ steps \in Seq(Menu)
  /\ phase \in {"rules", "entry", "ground", "ready", "refused"}
  /\ expecting \in BOOLEAN /\ interacted \in BOOLEAN /\ messageBound \subseteq Names
  /\ route \in Routes \cup {NoRoute} /\ anchored \in Anchors /\ liveAnchor \in Anchors
  /\ chosen \subseteq Positions /\ at \in 1..(Len(steps) + 1)
  /\ gaps \subseteq Positions /\ truncateAt \in 0..Len(steps) /\ runtime \subseteq Positions

(* The steps the driver comes to, unless it stops before.                  *)
Runs(i) == i \notin gaps /\ (truncateAt # 0 => i < truncateAt)

(* The page the report says a step is on: that of the last goto or         *)
(* expect_url up to it.                                                    *)
OnRoute(i, r) ==
  \/ \E m \in 1..i : /\ Navigates(steps[m]) /\ steps[m].route = r
                     /\ \A k \in (m + 1)..i : ~Navigates(steps[k])
  \/ r = NoRoute /\ \A k \in 1..i : ~Navigates(steps[k])

(* j proves that the page step i looks at was there: no goto lies between, *)
(* and both are on the same route.                                         *)
Vouches(j, i) ==
  /\ steps[j].action \in Positive
  /\ \A k \in j..i : steps[k].action # "goto"
  /\ \E r \in Routes \cup {NoRoute} : OnRoute(j, r) /\ OnRoute(i, r)

(***************************************************************************)
(* An absence never passes on a page that was never there: every absence   *)
(* the driver runs comes after a positive assertion that it runs too, on   *)
(* the same route since the last goto, whatever the grounding left out.    *)
(***************************************************************************)
AbsenceIsAnchored ==
  phase = "ready" /\ driver = "browser" =>
    \A i \in Positions : Absence(steps[i]) /\ Runs(i) =>
      \E j \in 1..(i - 1) : Runs(j) /\ Vouches(j, i)

(***************************************************************************)
(* Every variable of an accepted plan has one binding, made before it is   *)
(* used: a declared capture, or one earlier read_message of the case.      *)
(***************************************************************************)
Binders(i, x) == {j \in 1..(i - 1) : steps[j].action = "read_message" /\ steps[j].binds = x}
BoundBeforeUse ==
  phase = "ready" => \A i \in Positions : \A x \in steps[i].uses :
    \/ x \in Bound /\ Binders(Len(steps) + 1, x) = {}
    \/ \E j \in 1..(i - 1) : Binders(Len(steps) + 1, x) = {j}

(***************************************************************************)
(* No locator is taken as grounded for want of a word to look for: every   *)
(* locator step the driver runs has a word, of its own or of its scope.    *)
(***************************************************************************)
LocatorsHaveWords ==
  phase = "ready" /\ driver = "browser" =>
    \A i \in Positions : steps[i].action \in LocatorActions /\ HasLocator(steps[i]) =>
      Words(steps[i]) # {}

(***************************************************************************)
(* A write or a validation submit is never handed on unseen: a validation  *)
(* submit the driver runs follows a fill with the report's own literal,    *)
(* which it runs too.                                                      *)
(***************************************************************************)
SubmitsWhatTheReportTypes ==
  phase = "ready" => \A i \in Positions : steps[i].effect = "validation" /\ Runs(i) =>
    \E j \in 1..(i - 1) : Runs(j) /\ steps[j].action = "fill" /\ steps[j].literal = "report"

(***************************************************************************)
(* What the grounding hands to the browser driver is a plan that driver    *)
(* was made for: the entry assumption of QaBrowserCase.                    *)
(***************************************************************************)
KindOf(s) ==
  IF s.action \in {"goto", "judge", "read_message"} THEN s.action
  ELSE IF s.action \notin Interaction THEN "assert"
  ELSE IF s.action = "click" /\ s.effect = "validation" THEN "submit" ELSE "click"

Entry(n) == INSTANCE QaCasePlan WITH N <- n
Handed(overlays) == [kind |-> [i \in Positions |-> KindOf(steps[i])], gaps |-> gaps,
                     truncateAt |-> truncateAt, handlers |-> overlays]
DriverGetsAPlan ==
  phase = "ready" /\ driver = "browser" =>
    \A overlays \in BOOLEAN : /\ Entry(Len(steps))!GroundedPlan(Handed(overlays))
                              /\ Entry(Len(steps))!ValidPlan(Handed(overlays))
                              /\ Handed(overlays) \in Entry(Len(steps))!PlanShape
-----------------------------------------------------------------------------
(* The inductive invariant behind the safety properties.  AnchoredAt says  *)
(* what the anchor is after the first i steps, which both scans compute.   *)
AnchoredAt(i, v) ==
  \/ v = Unset /\ \A m \in 1..i : steps[m].action \in Positive =>
                    \E k \in m..i : steps[k].action = "goto"
  \/ \E m \in 1..i : /\ steps[m].action \in Positive /\ OnRoute(m, v) /\ v # Unset
                     /\ \A k \in m..i : steps[k].action # "goto"
                     /\ \A k \in (m + 1)..i : steps[k].action \notin Positive

(* What was read keeps the rules, and each absence had its anchor.         *)
ReadShape ==
  /\ \A i \in Positions : Legal(driver, steps[i])
  /\ expecting <=> \E i \in Positions : Expects(steps[i])
  /\ messageBound = {steps[i].binds : i \in {j \in Positions : steps[j].action = "read_message"}}
  /\ \A i \in Positions : steps[i].action = "read_message" =>
       /\ \E j \in 1..(i - 1) : Touches(steps[j])
       /\ steps[i].binds \in Names \ Bound
       /\ \A j \in 1..(i - 1) : steps[j].action = "read_message" => steps[j].binds # steps[i].binds
  /\ \A i \in Positions : \A n \in steps[i].uses : n \in Bound \/ Binders(i, n) # {}
  /\ driver = "browser" =>
       /\ interacted => \E i \in Positions : Touches(steps[i])
       /\ phase \in {"rules", "entry"} => OnRoute(Len(steps), route) /\ AnchoredAt(Len(steps), anchored)
       /\ \A i \in Positions : Absence(steps[i]) =>
            \E r \in Routes \cup {NoRoute} : OnRoute(i - 1, r) /\ AnchoredAt(i - 1, r)

(* How far the grounding is, and what it kept.                             *)
GroundShape ==
  /\ phase \in {"rules", "entry", "refused"} => at = 1 /\ gaps = {} /\ truncateAt = 0 /\ liveAnchor = Unset
  /\ phase \in {"entry", "ground", "ready"} => expecting
  /\ phase \in {"ground", "ready"} => SubmitsHold
  /\ phase = "ground" => driver = "browser" /\ OnRoute(at - 1, route) /\ AnchoredAt(at - 1, anchored)
  /\ phase = "ready" /\ driver = "browser" => at = Len(steps) + 1 \/ truncateAt # 0
  /\ gaps \subseteq 1..(at - 1)
  /\ truncateAt # 0 => truncateAt = at - 1 /\ truncateAt \in gaps
  /\ \A g \in gaps : steps[g].action \in Interaction => g = truncateAt
  /\ \A g \in gaps : steps[g].action \in LocatorActions \cup {"judge", "expect_requests"}
  /\ truncateAt # 0 => steps[truncateAt].action \in Interaction
  /\ liveAnchor # Unset => \E j \in 1..(at - 1) :
       /\ steps[j].action \in Positive /\ j \notin gaps /\ OnRoute(j, liveAnchor)
       /\ \A k \in j..(at - 1) : steps[k].action # "goto"
  /\ \A i \in 1..(at - 1) : Absence(steps[i]) /\ i \notin gaps =>
       \E j \in 1..(i - 1) : j \notin gaps /\ Vouches(j, i)

IInv == TypeOK /\ ReadShape /\ GroundShape
=============================================================================
