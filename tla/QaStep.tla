------------------------------- MODULE QaStep -------------------------------
(***************************************************************************)
(* One locator step of a browser case: runLocatorStep with the scope, the  *)
(* label, the anchor and the index its locator may have, the settle loops  *)
(* it decides by, the probe after a failed action, and the window in which *)
(* the requests of a click are watched.                                    *)
(*                                                                         *)
(* The page is not the runner's: it may be another one at every await.     *)
(* The waits for an element to attach only give it time, so they are the   *)
(* changes that come before the count.                                     *)
(***************************************************************************)
EXTENDS Integers, Sequences, FiniteSets

CONSTANTS
  Scopes,      \* the elements that bear the name of the step's scope
  Targets,     \* the elements of its role, or with its text, in order
  Pages,       \* the states a page may be in
  Steps,       \* the steps a plan may hold
  Requests,    \* what a page may ask of the network
  MaxChanges, MaxReads, MaxRequests,   \* bounds
  None

Looks   == {"hidden", "faint", "shown"}  \* faint: shown to Playwright, not to a person
Element == [in : Scopes \cup {None}, looks : Looks,
            answers : BOOLEAN,   \* to the name, the prefix or the label of the step
            meets : {"yes", "no", "unreadable"},
            able : {"fine", "disabled", "not_editable", "covered"}]
\* An element around others: the groups whose elements are inside it.
Box     == [holds : SUBSET (Scopes \cup {None}), looks : Looks]
Page    == [scopes : [Scopes -> Looks \cup {"gone"}],
            anchors : Nat, anchorLooks : Looks,   \* the elements with the anchor's text
            chain : Seq(Box),    \* their ancestors, in the order of the document
            labels : Nat, targets : [Targets -> Element \cup {None}]]

Positive == {"expect_visible", "expect_text", "expect_pattern", "expect_value", "expect_state"}
Actions  == Positive \cup {"expect_not_visible", "click", "fill", "validation", "expect_requests"}
Step     == [action : Actions, scope : {"page", "named", "anchor"},
             target : {"one", "label", "index", "any"}, index : Nat, runtime : BOOLEAN, count : Nat]

\* What a plan may ask of a scoped locator, and of the action it is for.
ScopedLocatorOf(s) ==
  /\ s.target = "any"   => s.scope = "named"
  /\ s.target = "index" => s.scope # "page"
  /\ s.target = "label" => s.scope # "anchor"
ValidLocator(s) ==
  /\ s.target = "label" => s.action \notin {"expect_text", "expect_pattern", "expect_not_visible"}
  /\ s.target = "any"   => s.action = "expect_visible"
  /\ s.scope = "anchor" => s.action \notin {"fill", "expect_value"}
  /\ s.action = "expect_requests" => s.scope = "page" /\ s.target = "one"

ASSUME StepAssumption ==
  /\ \A s \in Steps : ScopedLocatorOf(s) /\ ValidLocator(s)
  /\ Targets \subseteq Nat /\ IsFiniteSet(Targets) /\ Pages \subseteq Page /\ Steps \subseteq Step
  /\ \A p \in Pages : p.anchors = 0 => p.chain = <<>>
  /\ Requests \subseteq [matches : BOOLEAN, local : BOOLEAN]
  /\ {MaxChanges, MaxReads, MaxRequests} \subseteq Nat /\ MaxReads > 1
  /\ None \notin {"passed", "fail"}

VARIABLES
  step,
  level,        \* where in the chain its container is looked for, or was found
  page,
  changes,      \* how often the page has changed
  visited,      \* the pages the step was shown
  log, opened,  \* the requests of the page, and where the window starts
  pc,
  goal,         \* what a settle loop is waiting for
  reads, readable, looking,
  acted,        \* the elements a click or fill has reached
  outcome, cause

pageVars == <<page, changes, visited, log>>
loopVars == <<goal, reads, readable, looking>>
stepVars     == <<step, level, pageVars, opened, pc, loopVars, acted, outcome, cause>>

-----------------------------------------------------------------------------
\* What the locators of the step match on a page.
\* A container found for an anchor is remembered by its place among the
\* ancestors, and looked up anew on the page of the moment.
Containers(p) ==
  CASE step.scope = "named"  -> {[holds |-> {g}, looks |-> p.scopes[g]] : g \in {h \in Scopes : p.scopes[h] # "gone"}}
    [] step.scope = "anchor" -> {p.chain[k] : k \in DOMAIN p.chain \cap {level}}
    [] OTHER                 -> {}

Inside(t, c, p) == p.targets[t] # None /\ p.targets[t].in \in c.holds
Matches(p) ==
  {t \in Targets : /\ p.targets[t] # None
                   /\ step.scope = "page" \/ \E c \in Containers(p) : Inside(t, c, p)
                   /\ step.target \in {"one", "label"} => p.targets[t].answers}

Nth(S, k) == {t \in S : Cardinality({u \in S : u < t}) = k}
Target(p) == IF step.target = "index" THEN Nth(Matches(p), step.index) ELSE Matches(p)

Single(p) == Cardinality(Target(p)) = 1
It(p)     == p.targets[CHOOSE t \in Target(p) : TRUE]

-----------------------------------------------------------------------------
StepInit ==
  /\ step \in Steps /\ level = 0 /\ page \in Pages /\ changes = 0 /\ visited = {page}
  /\ log = <<>> /\ opened = 0 /\ pc = "start"
  /\ goal = None /\ reads = 0 /\ readable = FALSE /\ looking = FALSE
  /\ acted = {} /\ outcome = None /\ cause = None

Change ==
  /\ pc # "done" /\ changes < MaxChanges
  /\ page' \in Pages \ {page} /\ changes' = changes + 1 /\ visited' = visited \cup {page'}
  /\ UNCHANGED <<step, level, log, opened, pc, loopVars, acted, outcome, cause>>

(* observeRequests: a request is logged as it leaves, whatever comes of it.*)
Observed(r) == log' = Append(log, r)
Request(r) ==
  /\ pc # "done" /\ step.action \in {"validation", "expect_requests"}
  /\ Len(log) < MaxRequests /\ Observed(r)
  /\ UNCHANGED <<step, level, page, changes, visited, opened, pc, loopVars, acted, outcome, cause>>

Go(to)    == pc' = to /\ UNCHANGED <<step, level, pageVars, opened, loopVars, acted, outcome, cause>>
End(o, c) == /\ pc' = "done" /\ outcome' = o /\ cause' = c
             /\ UNCHANGED <<step, level, pageVars, opened, loopVars, acted>>
NeedsHuman == End("needs-human", None)
Settle(g) == /\ pc' = "settle" /\ goal' = g /\ reads' = 0 /\ readable' = FALSE /\ looking' = FALSE
             /\ UNCHANGED <<step, level, pageVars, opened, acted, outcome, cause>>

\* A click opens the window of its requests as it starts; expect_requests
\* looks at the one an earlier step opened.
Start ==
  /\ pc = "start"
  /\ pc' = IF step.action = "expect_requests" THEN "window"
           ELSE IF step.scope = "anchor" THEN "anchor" ELSE "scope"
  /\ opened' \in IF step.action = "expect_requests" THEN 0..Len(log) ELSE {Len(log)}
  /\ UNCHANGED <<step, level, pageVars, loopVars, acted, outcome, cause>>

FindAnchor ==
  /\ pc = "anchor" /\ IF page.anchors = 1 THEN Go("anchor_seen") ELSE NeedsHuman

\* Whether a person sees it, asked in two calls.
SeeAnchor ==
  /\ pc = "anchor_seen"
  /\ IF page.anchors = 1 /\ page.anchorLooks # "hidden" THEN Go("anchor_shown") ELSE NeedsHuman

SeeAnchorAgain ==
  /\ pc = "anchor_shown"
  /\ IF page.anchors = 1 /\ page.anchorLooks = "shown" THEN Go("chain") ELSE NeedsHuman

\* From the innermost ancestor outward, to the first that holds an element of
\* the role: each is counted on its own, and the page may change on the way.
Climb(k) == /\ pc' = "container" /\ level' = k
            /\ UNCHANGED <<step, pageVars, opened, loopVars, acted, outcome, cause>>
CountAncestors == pc = "chain" /\ Climb(Len(page.chain))

HoldsRole(k, p) == k \in DOMAIN p.chain /\ \E t \in Targets : Inside(t, p.chain[k], p)
TryContainer ==
  /\ pc = "container"
  /\ IF level = 0 THEN NeedsHuman ELSE IF HoldsRole(level, page) THEN Go("scope") ELSE Climb(level - 1)

CheckScope ==
  /\ pc = "scope"
  /\ IF step.scope = "page" \/ Cardinality(Containers(page)) = 1 THEN Go("label") ELSE NeedsHuman

CheckLabel ==
  /\ pc = "label"
  /\ IF step.target = "label" /\ page.labels # 1 THEN NeedsHuman ELSE Go("index")

CheckIndex ==
  /\ pc = "index"
  /\ IF step.target = "index" /\ step.index >= Cardinality(Matches(page)) THEN NeedsHuman
     ELSE IF step.action = "expect_not_visible" /\ step.scope # "page" THEN Settle("scope")
     ELSE Go("count")

AtRunTime == step.runtime \/ step.scope # "page" \/ step.target # "one"

NoneFound ==
  CASE step.action = "expect_not_visible" -> Settle("hidden")
    [] step.action \in Positive -> End("fail", "absent")
    [] OTHER -> IF AtRunTime THEN NeedsHuman ELSE End("blocked", "absent")

OneFound ==
  CASE step.action = "expect_not_visible" -> Settle("hidden")
    [] step.action \in {"click", "fill", "validation"} -> Go("act")
    [] step.action = "expect_visible" -> Go("await")
    [] step.action = "expect_text" -> Go("text")
    [] OTHER -> Settle("met")

CountTargets ==
  /\ pc = "count"
  /\ LET n == Cardinality(Target(page)) IN
     IF step.target = "any" /\ step.action # "expect_not_visible"
     THEN IF n = 0 THEN End("fail", "absent") ELSE Settle("any")
     ELSE IF n > 1 THEN NeedsHuman ELSE IF n = 0 THEN NoneFound ELSE OneFound

\* Playwright's own waits are strict: several matches are an error to them.
Await ==
  /\ pc = "await"
  /\ IF Single(page) /\ It(page).looks # "hidden" THEN Settle("visible") ELSE End("fail", None)

ReadText ==
  /\ pc = "text"
  /\ IF Single(page) /\ It(page).meets = "yes" THEN Settle("visible") ELSE End("fail", None)

-----------------------------------------------------------------------------
\* settleAssertion.  Visibility is read in two calls, and the page may change
\* between them; whether the last read is accepted decides.
\* A fault: an element at opacity 0 counts.
ShownToPlaywright(e) == e.looks # "hidden"
Visible(e) == e.looks = "shown"

\* What Playwright's isVisible answers: "yes", "no", or an error.
Showing ==
  IF goal = "scope"
  THEN IF Cardinality(Containers(page)) > 1 THEN "error"
       ELSE IF \E c \in Containers(page) : c.looks \in {"faint", "shown"} THEN "yes" ELSE "no"
  ELSE IF Cardinality(Target(page)) > 1 THEN "error"
       ELSE IF Single(page) /\ It(page).looks # "hidden" THEN "yes" ELSE "no"

\* What checkVisibility answers of the element then.
ToPerson ==
  IF goal = "scope"
  THEN IF Cardinality(Containers(page)) # 1 THEN "error"
       ELSE IF \A c \in Containers(page) : c.looks = "shown" THEN "yes" ELSE "no"
  ELSE IF ~Single(page) THEN "error" ELSE IF Visible(It(page)) THEN "yes" ELSE "no"

Value ==
  IF goal = "any" THEN IF \E t \in Target(page) : Visible(page.targets[t]) THEN "yes" ELSE "no"
  ELSE IF ~Single(page) \/ It(page).meets = "unreadable" THEN "error" ELSE It(page).meets

Accepted(read) == read = IF goal = "hidden" THEN "no" ELSE "yes"

\* The comparison of a value is written down, or cannot be.
Recorded(o) == End(o, None) \/ (step.action = "expect_value" /\ End("blocked", None))

AfterSettle ==
  CASE goal = "scope" -> Go("count")
    [] goal = "met" /\ step.action = "expect_pattern" -> Settle("visible")
    [] OTHER -> Recorded("passed")

Rejected ==
  IF goal = "scope" THEN "needs-human" ELSE "fail"

\* A fault: a value that was never read is a wrong one.
NotAccepted(wasReadable) == Rejected
SettleResult(wasReadable) == IF wasReadable THEN Rejected ELSE "blocked"

\* A fault: the deadline moves on with every read.
TookOnceMore(read) ==
  IF Accepted(read) THEN AfterSettle
  ELSE /\ readable' = (readable \/ read # "error") /\ looking' = FALSE
       /\ UNCHANGED <<step, level, pageVars, opened, pc, goal, reads, acted, outcome, cause>>

Took(read) ==
  IF Accepted(read) THEN AfterSettle
  ELSE /\ reads' = reads + 1 /\ readable' = (readable \/ read # "error") /\ looking' = FALSE
       /\ UNCHANGED <<step, level, pageVars, opened, pc, goal, acted, outcome, cause>>

Look ==
  /\ pc = "settle" /\ ~looking /\ reads < MaxReads
  /\ IF goal \in {"any", "met"} THEN Took(Value)
     ELSE IF Showing = "yes"
     THEN looking' = TRUE /\ UNCHANGED <<step, level, pageVars, opened, pc, goal, reads, readable, acted, outcome, cause>>
     ELSE Took(Showing)

LookAgain == pc = "settle" /\ looking /\ Took(ToPerson)

\* The time is over; the first interval fits in it whatever the reads take.
TimeIsUp == /\ pc = "settle" /\ ~looking /\ reads > 1
            /\ Recorded(SettleResult(readable))

-----------------------------------------------------------------------------
CanAct == /\ Single(page) /\ It(page).looks # "hidden"
          /\ It(page).able = "fine" \/ (step.action = "fill" /\ It(page).able = "covered")
                                    \/ (step.action # "fill" /\ It(page).able = "not_editable")

\* The action reaches the element and returns, or runs into its time limit
\* before or after it did.
Act ==
  /\ pc = "act"
  /\ \/ /\ CanAct /\ acted' = acted \cup Target(page)
        /\ \/ IF step.action = "validation" THEN pc' = "window" /\ UNCHANGED outcome
              ELSE pc' = "done" /\ outcome' = "passed"
           \/ pc' = "probe" /\ UNCHANGED outcome
     \/ ~CanAct /\ pc' = "probe" /\ UNCHANGED <<acted, outcome>>
  /\ UNCHANGED <<step, level, pageVars, opened, loopVars, cause>>

Probe ==
  /\ pc = "probe"
  /\ CASE Target(page) = {} -> End("blocked", "detached")
       [] Single(page)      -> Go("facts")
       [] OTHER             -> End("blocked", "other")

CauseOf ==
  IF ~Single(page) THEN "other"
  ELSE CASE It(page).able = "disabled" -> "disabled"
         [] It(page).able = "not_editable" /\ step.action = "fill" -> "not_editable"
         [] It(page).able = "covered" /\ step.action # "fill" -> "covered"
         [] OTHER -> "other"

ProbeFacts == pc = "facts" /\ End("blocked", CauseOf)

-----------------------------------------------------------------------------
\* The window is cut out of the log once the wait is over.
\* A fault: the first request is cut off with what came before.
OneTooFew == SubSeq(log, opened + 2, Len(log))
Window  == SubSeq(log, opened + 1, Len(log))
NonLocal(r) == ~r.local
Seen(W) == {i \in DOMAIN W : W[i].matches \/ step.action = "validation"}

CloseWindow ==
  /\ pc = "window"
  /\ IF \E i \in Seen(Window) : NonLocal(Window[i]) THEN End("blocked", None)
     ELSE \/ End("blocked", None)   \* the evidence could not be written
          \/ IF step.action = "validation" \/ Cardinality(Seen(Window)) = step.count
             THEN End("passed", None) ELSE End("fail", None)

Done == pc = "done" /\ UNCHANGED stepVars

Runner ==
  \/ Start \/ FindAnchor \/ SeeAnchor \/ SeeAnchorAgain \/ CountAncestors \/ TryContainer
  \/ CheckScope \/ CheckLabel
  \/ CheckIndex \/ CountTargets \/ Await \/ ReadText \/ Look \/ LookAgain \/ TimeIsUp
  \/ Act \/ Probe \/ ProbeFacts \/ CloseWindow

StepNext == Change \/ (\E r \in Requests : Request(r)) \/ Runner \/ Done

StepSpec == StepInit /\ [][StepNext]_stepVars /\ WF_stepVars(Runner)
-----------------------------------------------------------------------------
\* What the step asserts of a page: "unclear" when several elements match, or
\* none can be read.
Claim(p) ==
  LET n == Cardinality(Target(p)) IN
  CASE step.action = "expect_not_visible" ->
         IF n > 1 THEN "unclear" ELSE IF n = 1 /\ It(p).looks = "shown" THEN "no" ELSE "yes"
    [] step.target = "any" /\ step.action # "expect_not_visible" ->
         IF \E t \in Target(p) : p.targets[t].looks = "shown" THEN "yes" ELSE "no"
    [] OTHER ->
         IF n = 0 THEN "no" ELSE IF n > 1 THEN "unclear"
         ELSE IF step.action = "expect_visible" THEN IF It(p).looks = "shown" THEN "yes" ELSE "no"
         ELSE IF It(p).meets = "unreadable" THEN IF step.action = "expect_text" THEN "no" ELSE "unclear"
         ELSE IF step.action \in {"expect_text", "expect_pattern"} /\ It(p).looks # "shown" THEN "no"
         ELSE It(p).meets

Asserts == step.action \in Positive \cup {"expect_not_visible"}

\* Pages that bore out what is asserted: for an expected text, the text and
\* its being visible may be of two of them.
BorneOutBy(P) ==
  \/ \E p \in P : Claim(p) = "yes"
  \/ /\ step.action \in {"expect_text", "expect_pattern"}
     /\ \E p \in P : Single(p) /\ It(p).meets = "yes"
     /\ \E p \in P : Single(p) /\ It(p).looks = "shown"

\* An assertion passes only on what a page it was shown had for a person to
\* see, in the place where the step looks (runLocatorStep, isVisibleToPerson).
\* For an anchor that place is a number of ancestors, no more.
PassSawIt == outcome = "passed" /\ Asserts => BorneOutBy(visited)

\* The anchor's own group on a page: its nearest ancestor with an element of
\* the role.  Seen through it, the page has that one at every level.
Nearest(p) == {k \in DOMAIN p.chain : HoldsRole(k, p) /\ \A j \in DOMAIN p.chain : HoldsRole(j, p) => j <= k}
OwnGroup(p) == [p EXCEPT !.chain = IF Nearest(p) = {} THEN <<>>
                  ELSE [k \in DOMAIN p.chain |-> p.chain[CHOOSE j \in Nearest(p) : TRUE]]]

\* An assertion with an anchor passes only on what a page it was shown had in
\* the anchor's own group, as resolveAnchorScope is documented; should a page
\* come to have several anchors, the last one's group is taken to be right.
PassIsOfItsGroup ==
  outcome = "passed" /\ Asserts /\ step.scope = "anchor" =>
    BorneOutBy({OwnGroup(p) : p \in visited})

\* The product is said to have failed only if the page has shown something
\* else than what is asserted, no element or several ones included: not
\* because nothing could be read of the one that was there (settleAssertion:
\* "rejected" and "unreadable").
Otherwise(p) ==
  Claim(p) # "yes" /\
  ~(Single(p) /\ step.action \in {"expect_value", "expect_state"} /\ Claim(p) = "unclear")
FailSawOtherwise ==
  outcome = "fail" /\ Asserts => \E p \in visited : Otherwise(p)

\* A validation submit passes only if no request that left since the click
\* began went to a host that is not approved (recordValidationSubmit).
SubmitIsWatched ==
  outcome = "passed" /\ step.action = "validation" =>
    \A i \in (opened + 1)..Len(log) : log[i].local

-----------------------------------------------------------------------------
\* The inductive invariant behind the three.  A step has no result before it
\* is done, ...
StepTypeOK ==
  /\ step \in Steps /\ level \in Nat /\ page \in visited /\ visited \subseteq Pages
  /\ log \in Seq(Requests) /\ opened \in 0..Len(log)
  /\ pc # "done" => outcome = None

\* ... comes only to the places its action leads to, ...
OnItsWay ==
  /\ step.action = "expect_requests" => pc \in {"start", "window", "done"}
  /\ pc = "await"  => step.action = "expect_visible" /\ step.target # "any"
  /\ pc = "text"   => step.action = "expect_text" /\ step.target # "any"
  /\ pc \in {"act", "probe", "facts"} => step.action \in {"click", "fill", "validation"}
  /\ pc = "window" => step.action \in {"validation", "expect_requests"}

\* ... waits for what its action asks, with what it has read of a text or a
\* pattern in hand, ...
WaitsForItsOwn ==
  pc = "settle" =>
    /\ goal \in {"scope", "hidden", "any", "visible", "met"}
    /\ goal \in {"scope", "hidden"} <=> step.action = "expect_not_visible"
    /\ goal = "any" => step.target = "any" /\ step.action = "expect_visible"
    /\ goal \in {"visible", "met"} => step.target # "any"
    /\ goal = "visible" => step.action \in {"expect_visible", "expect_text", "expect_pattern"}
    /\ goal = "met"     => step.action \in {"expect_pattern", "expect_value", "expect_state"}
    /\ looking => goal \notin {"any", "met"}
    /\ goal = "visible" /\ step.action # "expect_visible" =>
         \E p \in visited : Single(p) /\ It(p).meets = "yes"

\* ... and calls no reading good that did not show the contrary.
ReadableSawOtherwise ==
  pc = "settle" /\ readable /\ goal # "scope" /\ Asserts => \E p \in visited : Otherwise(p)

StepInv ==
  /\ StepTypeOK /\ OnItsWay /\ WaitsForItsOwn /\ ReadableSawOtherwise
  /\ PassSawIt /\ FailSawOtherwise /\ SubmitIsWatched

\* Whatever the page does, a step comes to its result.
StepEnds == <>(pc = "done")

=============================================================================
