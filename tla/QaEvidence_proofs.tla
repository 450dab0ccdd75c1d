-------------------------- MODULE QaEvidence_proofs --------------------------
(***************************************************************************)
(* Proofs about what others are told afterwards: a browser step (QaStep)   *)
(* passes and fails on what the page has shown; the snapshot of a page     *)
(* (QaGround) is of the role and the interactions it is looked up by; a    *)
(* case that is resolved from a record (QaRecord) rests on the tests it    *)
(* cites; and the metrics (UsageMetrics) count every verdict once.         *)
(*                                                                         *)
(* The four share nothing; a theorem is about one of them and names its    *)
(* specification.                                                          *)
(***************************************************************************)
EXTENDS QaStep, QaGround, UsageMetrics, QaRecord, FiniteSetTheorems,
        SequenceTheorems, WellFoundedInduction, TLAPS

-----------------------------------------------------------------------------
(* What a step means on a page does not change while it runs.              *)
LEMMA StepMeansTheSame ==
  ASSUME step' = step, level' = level
  PROVE  /\ \A p : Target(p)' = Target(p)
         /\ \A p : Single(p)' = Single(p)
         /\ \A p : It(p)' = It(p)
         /\ \A p : Claim(p)' = Claim(p)
         /\ \A p : Otherwise(p)' = Otherwise(p)
         /\ \A P : BorneOutBy(P)' = BorneOutBy(P)
         /\ Asserts' = Asserts
<1>1. \A p : Target(p)' = Target(p)
  <2>1. \A p : Containers(p)' = Containers(p)
    BY DEF Containers
  <2>2. \A p : Matches(p)' = Matches(p)
    BY <2>1 DEF Matches, Inside
  <2> QED
    BY <2>2 DEF Target, Nth
<1>2. \A p : It(p)' = It(p)
  BY <1>1, Zenon DEF It
<1>3. \A p : Single(p)' = Single(p)
  BY <1>1 DEF Single
<1>4. \A p : Claim(p)' = Claim(p)
  BY <1>1, <1>2 DEF Claim
<1>5. \A P : BorneOutBy(P)' = BorneOutBy(P)
  BY <1>2, <1>3, <1>4 DEF BorneOutBy
<1> QED
  BY <1>1, <1>2, <1>3, <1>4, <1>5 DEF Otherwise, Asserts

(* A step has finitely many targets on a page; the only one is an element. *)
LEMMA StepTargets ==
  ASSUME StepAssumption, step \in Steps, NEW p \in Pages
  PROVE  /\ Target(p) \subseteq Targets
         /\ \A t \in Target(p) : p.targets[t] \in Element
         /\ Cardinality(Target(p)) \in Nat
         /\ Cardinality(Target(p)) = 0 <=> Target(p) = {}
         /\ Single(p) => It(p) \in Element
<1>1. Target(p) \subseteq Matches(p)
  BY DEF Target, Nth
<1>2. Matches(p) \subseteq Targets /\ \A t \in Matches(p) : p.targets[t] # None
  BY DEF Matches
<1>3. \A t \in Targets : p.targets[t] \in Element \cup {None}
  BY DEF StepAssumption, Page
<1>4. IsFiniteSet(Target(p))
  <2>1. Target(p) \subseteq Targets /\ IsFiniteSet(Targets)
    BY <1>1, <1>2 DEF StepAssumption
  <2> QED
    BY <2>1, FS_Subset
<1>5. Cardinality(Target(p)) \in Nat /\ (Cardinality(Target(p)) = 0 <=> Target(p) = {})
  BY <1>4, FS_CardinalityType, FS_EmptySet
<1>6. \A t \in Target(p) : p.targets[t] \in Element
  BY <1>1, <1>2, <1>3
<1>7. Single(p) => It(p) \in Element
  <2> SUFFICES ASSUME Single(p) PROVE It(p) \in Element
    OBVIOUS
  <2>1. Target(p) # {}
    BY <1>5 DEF Single
  <2>2. (CHOOSE t \in Target(p) : TRUE) \in Target(p)
    BY <2>1
  <2> QED
    BY <2>2, <1>6 DEF It
<1> QED
  BY <1>1, <1>2, <1>5, <1>6, <1>7

-----------------------------------------------------------------------------
(* What a reading of the page tells of what the step asserts.              *)
LEMMA ReadingTells ==
  ASSUME StepAssumption, step \in Steps, NEW p \in Pages, step.action \in Positive, step.target # "any"
  PROVE  /\ ~Single(p) => Otherwise(p)
         /\ Single(p) /\ It(p).looks # "shown" /\ step.action \in {"expect_visible", "expect_text", "expect_pattern"}
              => Otherwise(p)
         /\ Single(p) /\ It(p).meets # "yes" /\ step.action # "expect_visible" /\ (step.action = "expect_text" \/ It(p).meets = "no")
              => Otherwise(p)
         /\ Single(p) /\ It(p).looks = "shown" /\ step.action = "expect_visible"
              => Claim(p) = "yes"
         /\ Single(p) /\ It(p).meets = "yes" /\ step.action \in {"expect_value", "expect_state"}
              => Claim(p) = "yes"
<1> DEFINE n == Cardinality(Target(p))
           e == It(p)
<1>1. step.action \in {"expect_visible", "expect_text", "expect_pattern", "expect_value", "expect_state"}
  BY DEF Positive
<1>2. n \in Nat
  BY StepTargets
<1>3. n = 1 => e.meets \in {"yes", "no", "unreadable"}
  BY StepTargets DEF Single, Element
<1>4. Claim(p) =
        IF n = 0 THEN "no" ELSE IF n > 1 THEN "unclear"
        ELSE IF step.action = "expect_visible" THEN IF e.looks = "shown" THEN "yes" ELSE "no"
        ELSE IF e.meets = "unreadable" THEN IF step.action = "expect_text" THEN "no" ELSE "unclear"
        ELSE IF step.action \in {"expect_text", "expect_pattern"} /\ e.looks # "shown" THEN "no"
        ELSE e.meets
  BY <1>1 DEF Claim
<1>5. Single(p) <=> n = 1
  BY DEF Single
<1> HIDE DEF n, e
<1>6. n # 1 => Otherwise(p)
  BY <1>2, <1>4, <1>5 DEF Otherwise
<1>7. n = 1 => Claim(p) =
        IF step.action = "expect_visible" THEN IF e.looks = "shown" THEN "yes" ELSE "no"
        ELSE IF e.meets = "unreadable" THEN IF step.action = "expect_text" THEN "no" ELSE "unclear"
        ELSE IF step.action \in {"expect_text", "expect_pattern"} /\ e.looks # "shown" THEN "no"
        ELSE e.meets
  BY <1>4
<1> QED
  BY <1>1, <1>3, <1>5, <1>6, <1>7 DEF Otherwise, e

LEMMA AbsenceReadingTells ==
  ASSUME StepAssumption, step \in Steps, NEW p \in Pages, step.action = "expect_not_visible"
  PROVE  /\ Single(p) /\ It(p).looks = "shown" => Otherwise(p)
         /\ Single(p) /\ It(p).looks # "shown" => Claim(p) = "yes"
         /\ Cardinality(Target(p)) = 0 => Claim(p) = "yes"
<1> DEFINE n == Cardinality(Target(p))
<1>1. Claim(p) =
        IF n > 1 THEN "unclear" ELSE IF n = 1 /\ It(p).looks = "shown" THEN "no" ELSE "yes"
  BY DEF Claim
<1>2. n \in Nat
  BY StepTargets
<1> HIDE DEF n
<1> QED
  BY <1>1, <1>2 DEF Otherwise, Single, n

LEMMA AnyReadingTells ==
  ASSUME StepAssumption, step \in Steps, NEW p \in Pages, step.action \in Positive, step.target = "any"
  PROVE  /\ (\E t \in Target(p) : p.targets[t].looks = "shown") => Claim(p) = "yes"
         /\ ~(\E t \in Target(p) : p.targets[t].looks = "shown") => Otherwise(p)
  BY DEF Otherwise, Claim, Positive

-----------------------------------------------------------------------------
(* The ways a step moves on, and what each has to show for the invariant.  *)
LEMMA StepEnding ==
  ASSUME StepInv, NEW o, NEW c, End(o, c),
         o = "passed" => PassSawIt' /\ SubmitIsWatched',
         o = "fail" => FailSawOtherwise'
  PROVE  StepInv'
  BY DEF StepInv, End, pageVars, loopVars, StepTypeOK, OnItsWay, WaitsForItsOwn,
         ReadableSawOtherwise, PassSawIt, FailSawOtherwise, SubmitIsWatched

LEMMA StepGoes ==
  ASSUME StepAssumption, StepInv, pc # "done", NEW to, Go(to), to \notin {"settle", "done"}, OnItsWay'
  PROVE  StepInv'
  BY DEF StepAssumption, StepInv, Go, pageVars, loopVars, StepTypeOK, WaitsForItsOwn,
         ReadableSawOtherwise, PassSawIt, FailSawOtherwise, SubmitIsWatched

LEMMA StepSettles ==
  ASSUME StepAssumption, StepInv, pc # "done", NEW g, Settle(g), step.action # "expect_requests",
         WaitsForItsOwn'
  PROVE  StepInv'
  BY DEF StepAssumption, StepInv, Settle, pageVars, StepTypeOK, OnItsWay,
         ReadableSawOtherwise, PassSawIt, FailSawOtherwise, SubmitIsWatched

-----------------------------------------------------------------------------
(* The actions of a step, one lemma for each stretch of its way.           *)
LEMMA StepFinds ==
  ASSUME StepAssumption, StepInv,
         \/ FindAnchor \/ SeeAnchor \/ SeeAnchorAgain \/ CountAncestors \/ TryContainer
         \/ CheckScope \/ CheckLabel \/ CheckIndex
  PROVE  StepInv'
<1> DEFINE before == {"anchor", "anchor_seen", "anchor_shown", "chain", "container", "scope", "label", "index"}
<1>1. ASSUME NeedsHuman PROVE StepInv'
  BY <1>1, StepEnding DEF NeedsHuman
<1>2. ASSUME pc \in before, NEW to \in before \cup {"count"}, Go(to)
      PROVE  StepInv'
  <2>1. OnItsWay'
    BY <1>2 DEF StepInv, OnItsWay, Go
  <2> QED
    BY <1>2, <2>1, StepGoes
<1>3. ASSUME pc = "index", step.action = "expect_not_visible", Settle("scope") PROVE StepInv'
  <2>1. WaitsForItsOwn'
    BY <1>3 DEF Settle, WaitsForItsOwn
  <2> QED
    BY <1>3, <2>1, StepSettles
<1>4. ASSUME pc \in before, NEW k \in Nat, Climb(k) PROVE StepInv'
  BY <1>4
  DEF Climb, pageVars, loopVars, StepInv, StepTypeOK, OnItsWay, WaitsForItsOwn,
      ReadableSawOtherwise, StepAssumption, PassSawIt, FailSawOtherwise, SubmitIsWatched
<1>5. ASSUME CountAncestors PROVE StepInv'
  <2>1. Len(page.chain) \in Nat
    BY DEF StepInv, StepTypeOK, StepAssumption, Page
  <2> QED
    BY <1>4, <1>5, <2>1 DEF CountAncestors
<1>6. ASSUME TryContainer PROVE StepInv'
  <2>1. level \in Nat
    BY DEF StepInv, StepTypeOK
  <2> QED
    BY <1>1, <1>2, <1>4, <1>6, <2>1 DEF TryContainer
<1> QED
  BY <1>1, <1>2, <1>3, <1>5, <1>6
  DEF FindAnchor, SeeAnchor, SeeAnchorAgain, CheckScope, CheckLabel, CheckIndex

LEMMA StepCounts ==
  ASSUME StepAssumption, StepInv, CountTargets
  PROVE  StepInv'
<1> DEFINE n == Cardinality(Target(page))
<1>1. page \in Pages /\ step \in Steps /\ step.action \in Actions /\ step.action # "expect_requests"
  BY DEF StepInv, StepTypeOK, StepAssumption, Step, CountTargets, OnItsWay
<1>2. ASSUME NEW o \in {"needs-human", "blocked"}, NEW c, End(o, c) PROVE StepInv'
  BY <1>2, StepEnding
<1>3. ASSUME NEW g \in {"any", "hidden", "met"}, Settle(g),
             g = "hidden" <=> step.action = "expect_not_visible",
             g = "any" => step.target = "any" /\ step.action = "expect_visible",
             g = "met" => step.target # "any" /\ step.action \in {"expect_pattern", "expect_value", "expect_state"}
      PROVE  StepInv'
  <2>1. WaitsForItsOwn'
    BY <1>3 DEF Settle, WaitsForItsOwn
  <2> QED
    BY <1>1, <1>3, <2>1, StepSettles DEF CountTargets
<1>4. ASSUME NEW to \in {"act", "await", "text"}, Go(to), step.target # "any",
             to = "act" => step.action \in {"click", "fill", "validation"},
             to = "await" => step.action = "expect_visible",
             to = "text" => step.action = "expect_text"
      PROVE  StepInv'
  <2>1. OnItsWay'
    BY <1>1, <1>4 DEF OnItsWay, Go
  <2> QED
    BY <1>4, <2>1, StepGoes DEF CountTargets
<1>5. ASSUME n = 0, step.action # "expect_not_visible", End("fail", "absent") PROVE StepInv'
  <2>1. Asserts => Otherwise(page)
    BY <1>1, <1>5, ReadingTells, AnyReadingTells, StepTargets DEF Asserts, Single
  <2>2. FailSawOtherwise'
    BY <1>5, <2>1, StepMeansTheSame DEF FailSawOtherwise, End, pageVars, StepInv, StepTypeOK
  <2> QED
    BY <1>5, <2>2, StepEnding
<1>6. CASE step.target = "any" /\ step.action # "expect_not_visible"
  BY <1>1, <1>3, <1>5, <1>6 DEF CountTargets, StepAssumption, ValidLocator
<1>7. CASE ~(step.target = "any" /\ step.action # "expect_not_visible")
  <2>1. n > 1 => NeedsHuman
    BY <1>7 DEF CountTargets
  <2>2. n = 0 => NoneFound
    BY <1>7 DEF CountTargets
  <2>3. ~(n > 1) /\ n # 0 => OneFound
    BY <1>7 DEF CountTargets
  <2>4. n = 0 => StepInv'
    BY <1>1, <1>2, <1>3, <1>5, <2>2 DEF NoneFound, NeedsHuman, Positive
  <2>5. ~(n > 1) /\ n # 0 => StepInv'
    BY <1>1, <1>3, <1>4, <1>7, <2>3 DEF OneFound, Actions, Positive
  <2> QED
    BY <1>2, <2>1, <2>4, <2>5 DEF NeedsHuman
<1> QED
  BY <1>6, <1>7

(* A positive claim Playwright waits for itself.                           *)
LEMMA StepAwaits ==
  ASSUME StepAssumption, StepInv, Await \/ ReadText
  PROVE  StepInv'
<1>1. /\ page \in Pages /\ step \in Steps /\ step.target # "any"
      /\ Await => step.action = "expect_visible"
      /\ ReadText => step.action = "expect_text"
  BY DEF StepInv, StepTypeOK, StepAssumption, Await, ReadText, OnItsWay
<1>2. ASSUME Settle("visible"),
             step.action = "expect_visible" \/ (step.action = "expect_text" /\ Single(page) /\ It(page).meets = "yes")
      PROVE  StepInv'
  <2>1. WaitsForItsOwn'
    BY <1>1, <1>2, StepMeansTheSame
    DEF Settle, WaitsForItsOwn, pageVars, StepInv, StepTypeOK
  <2> QED
    BY <1>2, <2>1, StepSettles DEF Await, ReadText
<1>3. ASSUME End("fail", None), Otherwise(page) PROVE StepInv'
  <2>1. FailSawOtherwise'
    BY <1>3, StepMeansTheSame DEF FailSawOtherwise, End, pageVars, StepInv, StepTypeOK
  <2> QED
    BY <1>3, <2>1, StepEnding DEF StepAssumption
<1>4. CASE Await
  <2>1. ~(Single(page) /\ It(page).looks # "hidden") => Otherwise(page)
    BY <1>1, <1>4, ReadingTells DEF Positive
  <2> QED
    BY <1>1, <1>2, <1>3, <1>4, <2>1 DEF Await
<1>5. CASE ReadText
  <2>1. ~(Single(page) /\ It(page).meets = "yes") => Otherwise(page)
    BY <1>1, <1>5, ReadingTells DEF Positive
  <2> QED
    BY <1>1, <1>2, <1>3, <1>5, <2>1 DEF ReadText
<1> QED
  BY <1>4, <1>5

(* A settled claim is recorded as passed, or cannot be recorded.           *)
LEMMA StepRecorded ==
  ASSUME StepAssumption, StepInv, NEW o, Recorded(o), step.action # "validation",
         o = "passed" /\ Asserts => BorneOutBy(visited),
         o = "fail" /\ Asserts => \E p \in visited : Otherwise(p)
  PROVE  StepInv'
<1>1. ASSUME NEW x, End(x, None), x = o \/ x = "blocked" PROVE StepInv'
  <2>1. step' = step /\ level' = level /\ visited' = visited /\ outcome' = x
    BY <1>1 DEF End, pageVars
  <2>2. x = "passed" => PassSawIt' /\ SubmitIsWatched'
    BY <1>1, <2>1, StepMeansTheSame DEF PassSawIt, SubmitIsWatched
  <2>3. x = "fail" => FailSawOtherwise'
    BY <1>1, <2>1, StepMeansTheSame DEF FailSawOtherwise
  <2> QED
    BY <1>1, <2>2, <2>3, StepEnding
<1> QED
  BY <1>1 DEF Recorded

(* A reading of a settle loop: what it has to tell to be accepted, and to  *)
(* be called readable when it is not.                                      *)
LEMMA StepTakes ==
  ASSUME StepAssumption, StepInv, pc = "settle", NEW told, Took(told),
         Accepted(told) /\ goal = "met" => Single(page) /\ It(page).meets = "yes",
         Accepted(told) /\ goal = "visible" => Single(page) /\ It(page).looks = "shown",
         Accepted(told) /\ goal \in {"any", "hidden"} => Claim(page) = "yes",
         ~Accepted(told) /\ told # "error" /\ goal # "scope" => Otherwise(page)
  PROVE  StepInv'
<1>1. /\ page \in Pages /\ page \in visited /\ step \in Steps /\ step.action # "expect_requests"
      /\ goal \in {"any", "met", "visible"} => step.action \in Positive /\ step.action # "validation"
      /\ goal \in {"hidden", "scope"} => step.action = "expect_not_visible"
      /\ goal \in {"any", "met", "visible", "hidden", "scope"}
  BY DEF StepInv, StepTypeOK, OnItsWay, WaitsForItsOwn, Positive
<1>2. CASE ~Accepted(told)
  <2>1. /\ UNCHANGED <<step, level, page, visited, log, opened, pc, goal, outcome>>
        /\ looking' = FALSE /\ readable' = (readable \/ told # "error")
    BY <1>2 DEF Took, pageVars
  <2>2. StepTypeOK' /\ OnItsWay'
    BY <2>1 DEF StepInv, StepTypeOK, OnItsWay
  <2>3. WaitsForItsOwn'
    BY <2>1, StepMeansTheSame DEF StepInv, WaitsForItsOwn
  <2>4. ReadableSawOtherwise'
    BY <1>1, <1>2, <2>1, StepMeansTheSame DEF StepInv, ReadableSawOtherwise
  <2>5. PassSawIt' /\ FailSawOtherwise' /\ SubmitIsWatched'
    BY <2>1 DEF StepInv, StepTypeOK, StepAssumption, PassSawIt, FailSawOtherwise, SubmitIsWatched
  <2> QED
    BY <2>2, <2>3, <2>4, <2>5 DEF StepInv
<1>3. CASE Accepted(told) /\ goal = "scope"
  <2>1. Go("count")
    BY <1>3 DEF Took, AfterSettle
  <2>2. OnItsWay'
    BY <1>1, <1>3, <2>1 DEF Go, OnItsWay
  <2> QED
    BY <2>1, <2>2, StepGoes
<1>4. CASE Accepted(told) /\ goal = "met" /\ step.action = "expect_pattern"
  <2>1. Settle("visible")
    BY <1>4 DEF Took, AfterSettle
  <2>2. WaitsForItsOwn'
    BY <1>1, <1>4, <2>1, StepMeansTheSame DEF Settle, pageVars, WaitsForItsOwn, StepInv
  <2> QED
    BY <1>1, <2>1, <2>2, StepSettles
<1>5. CASE Accepted(told) /\ goal # "scope" /\ ~(goal = "met" /\ step.action = "expect_pattern")
  <2>1. Recorded("passed")
    BY <1>5 DEF Took, AfterSettle
  <2>2. goal = "met" => Claim(page) = "yes"
    BY <1>1, <1>5, ReadingTells DEF StepInv, WaitsForItsOwn
  <2>3. goal = "visible" /\ step.action = "expect_visible" => Claim(page) = "yes"
    BY <1>1, <1>5, ReadingTells DEF StepInv, WaitsForItsOwn
  <2>4. goal = "visible" /\ step.action # "expect_visible" =>
          /\ step.action \in {"expect_text", "expect_pattern"}
          /\ \E p \in visited : Single(p) /\ It(p).meets = "yes"
          /\ \E p \in visited : Single(p) /\ It(p).looks = "shown"
    BY <1>1, <1>5 DEF StepInv, WaitsForItsOwn
  <2>5. BorneOutBy(visited)
    BY <1>1, <1>5, <2>2, <2>3, <2>4 DEF BorneOutBy
  <2> QED
    BY <1>1, <1>5, <2>1, <2>5, StepRecorded
<1> QED
  BY <1>2, <1>3, <1>4, <1>5

LEMMA StepLooks ==
  ASSUME StepAssumption, StepInv, Look \/ LookAgain
  PROVE  StepInv'
<1> DEFINE n == Cardinality(Target(page))
<1>1. page \in Pages /\ step \in Steps /\ pc = "settle" /\ WaitsForItsOwn
  BY DEF StepInv, StepTypeOK, Look, LookAgain
<1>2. n \in Nat /\ (Single(page) <=> n = 1)
  BY <1>1, StepTargets DEF Single
<1>3. ASSUME goal \in {"any", "met"}, Took(Value) PROVE StepInv'
  <2>1. CASE goal = "any"
    <3>1. Value = "yes" <=> \E t \in Target(page) : page.targets[t].looks = "shown"
      BY <2>1 DEF Value, Visible
    <3>2. Accepted(Value) <=> Value = "yes"
      BY <2>1 DEF Accepted
    <3>3. step.target = "any" /\ step.action \in Positive
      BY <1>1, <2>1 DEF WaitsForItsOwn, Positive
    <3> QED
      BY <1>1, <1>3, <2>1, <3>1, <3>2, <3>3, AnyReadingTells, StepTakes
  <2>2. CASE goal = "met"
    <3>1. Accepted(Value) <=> Value = "yes"
      BY <2>2 DEF Accepted
    <3>2. /\ Value = "yes" => Single(page) /\ It(page).meets = "yes"
          /\ Value \notin {"yes", "error"} => Single(page) /\ It(page).meets = "no"
      BY <1>1, <2>2, StepTargets DEF Value, Element
    <3>3. step.target # "any" /\ step.action \in Positive /\ step.action # "expect_visible"
      BY <1>1, <2>2 DEF WaitsForItsOwn, Positive
    <3>4. Value \notin {"yes", "error"} => Otherwise(page)
      BY <1>1, <3>2, <3>3, ReadingTells
    <3> QED
      BY <1>1, <1>3, <2>2, <3>1, <3>2, <3>4, StepTakes
  <2> QED
    BY <1>3, <2>1, <2>2
<1>4. ASSUME goal \notin {"any", "met"}, NEW told, Took(told),
             told = ToPerson \/ (told = Showing /\ told # "yes")
      PROVE  StepInv'
  <2>1. CASE goal = "scope"
    BY <1>1, <1>4, <2>1, StepTakes
  <2>2. CASE goal = "hidden"
    <3>1. Accepted(told) <=> told = "no"
      BY <2>2 DEF Accepted
    <3>2. /\ told = "no" => n = 0 \/ (Single(page) /\ It(page).looks # "shown")
          /\ told \notin {"no", "error"} => Single(page) /\ It(page).looks = "shown"
      BY <1>2, <1>4, <2>2 DEF ToPerson, Showing, Visible
    <3>3. step.action = "expect_not_visible"
      BY <1>1, <2>2 DEF WaitsForItsOwn
    <3> QED
      BY <1>1, <1>4, <2>2, <3>1, <3>2, <3>3, AbsenceReadingTells, StepTakes
  <2>3. CASE goal = "visible"
    <3>1. Accepted(told) <=> told = "yes"
      BY <2>3 DEF Accepted
    <3>2. /\ told = "yes" => Single(page) /\ It(page).looks = "shown"
          /\ told \notin {"yes", "error"} => ~Single(page) \/ It(page).looks # "shown"
      BY <1>2, <1>4, <2>3 DEF ToPerson, Showing, Visible
    <3>3. /\ step.action \in {"expect_visible", "expect_text", "expect_pattern"} /\ step.target # "any"
          /\ step.action \in Positive
      BY <1>1, <2>3 DEF WaitsForItsOwn, Positive
    <3>4. told \notin {"yes", "error"} => Otherwise(page)
      BY <1>1, <3>2, <3>3, ReadingTells
    <3> QED
      BY <1>1, <1>4, <2>3, <3>1, <3>2, <3>4, StepTakes
  <2> QED
    BY <1>1, <1>4, <2>1, <2>2, <2>3 DEF WaitsForItsOwn
<1>5. ASSUME UNCHANGED <<step, level, pageVars, opened, pc, goal, reads, readable, acted, outcome, cause>>,
             goal \notin {"any", "met"}
      PROVE  StepInv'
  BY <1>5, StepMeansTheSame
  DEF pageVars, StepInv, StepTypeOK, OnItsWay, WaitsForItsOwn, ReadableSawOtherwise,
      PassSawIt, FailSawOtherwise, SubmitIsWatched
<1>6. CASE Look
  BY <1>3, <1>4, <1>5, <1>6 DEF Look
<1>7. CASE LookAgain
  BY <1>1, <1>4, <1>7 DEF LookAgain, WaitsForItsOwn
<1> QED
  BY <1>6, <1>7

(* The end of the time, the action itself, its probe and its window.       *)
LEMMA StepTimesOut ==
  ASSUME StepAssumption, StepInv, TimeIsUp
  PROVE  StepInv'
<1> DEFINE o == SettleResult(readable)
<1>1. Recorded(o) /\ step.action # "validation"
  BY DEF TimeIsUp, StepInv, WaitsForItsOwn
<1>2. o # "passed" /\ (o = "fail" => readable /\ goal # "scope")
  BY DEF SettleResult, Rejected
<1>3. o = "fail" /\ Asserts => \E p \in visited : Otherwise(p)
  BY <1>2 DEF TimeIsUp, StepInv, ReadableSawOtherwise
<1> QED
  BY <1>1, <1>2, <1>3, StepRecorded

LEMMA StepActs ==
  ASSUME StepAssumption, StepInv, Act
  PROVE  StepInv'
<1>1. /\ step.action \in {"click", "fill", "validation"} /\ outcome = None
      /\ UNCHANGED <<step, level, page, visited, log, opened>>
      /\ \/ pc' = "window" /\ step.action = "validation" /\ outcome' = None
         \/ pc' = "done" /\ outcome' = "passed" /\ step.action # "validation"
         \/ pc' = "probe" /\ outcome' = None
  BY DEF Act, StepInv, StepTypeOK, OnItsWay, pageVars
<1>2. ~Asserts'
  BY <1>1 DEF Asserts, Positive
<1> QED
  BY <1>1, <1>2
  DEF StepInv, StepTypeOK, OnItsWay, WaitsForItsOwn, ReadableSawOtherwise, StepAssumption,
      PassSawIt, FailSawOtherwise, SubmitIsWatched

LEMMA StepProbes ==
  ASSUME StepAssumption, StepInv, Probe \/ ProbeFacts
  PROVE  StepInv'
<1>1. ASSUME NEW c, End("blocked", c) PROVE StepInv'
  BY <1>1, StepEnding
<1>2. ASSUME Probe, Go("facts") PROVE StepInv'
  <2>1. OnItsWay'
    BY <1>2 DEF Probe, Go, StepInv, OnItsWay
  <2> QED
    BY <1>2, <2>1, StepGoes DEF Probe
<1> QED
  BY <1>1, <1>2 DEF Probe, ProbeFacts

LEMMA StepClosesWindow ==
  ASSUME StepAssumption, StepInv, CloseWindow
  PROVE  StepInv'
<1>1. log \in Seq(Requests) /\ opened \in 0..Len(log) /\ step.action \in {"validation", "expect_requests"}
  BY DEF StepInv, StepTypeOK, OnItsWay, CloseWindow
<1>2. ASSUME NEW o, End(o, None), o = "passed" => ~\E i \in Seen(Window) : NonLocal(Window[i])
      PROVE  StepInv'
  <2>1. ~Asserts' /\ UNCHANGED <<step, level, log, opened>>
    BY <1>1, <1>2 DEF End, pageVars, Asserts, Positive
  <2>2. ASSUME o = "passed", step.action = "validation", NEW i \in (opened + 1)..Len(log) PROVE log[i].local
    <3>1. Len(Window) = Len(log) - opened /\ Window \in Seq(Requests)
      BY <1>1, SubSeqProperties, ElementOfSeq DEF Window
    <3>2. i - opened \in DOMAIN Window /\ Window[i - opened] = log[i]
      BY <1>1, <3>1, <2>2 DEF Window
    <3> QED
      BY <1>2, <2>2, <3>2 DEF Seen, NonLocal
  <2>3. PassSawIt' /\ FailSawOtherwise'
    BY <2>1 DEF PassSawIt, FailSawOtherwise
  <2>4. o = "passed" => SubmitIsWatched'
    BY <2>1, <2>2 DEF SubmitIsWatched
  <2> QED
    BY <1>2, <2>3, <2>4, StepEnding
<1> QED
  BY <1>2 DEF CloseWindow

(* What the page does meanwhile takes nothing back.                        *)
LEMMA PageMoves ==
  ASSUME StepAssumption, StepInv, Change \/ \E r \in Requests : Request(r)
  PROVE  StepInv'
<1>1. /\ pc # "done" /\ UNCHANGED <<step, level, opened, pc, goal, readable, looking, outcome>>
      /\ visited \subseteq visited' /\ visited' \subseteq Pages /\ page' \in visited'
  BY DEF Change, Request, loopVars, StepInv, StepTypeOK
<1>2. log' \in Seq(Requests) /\ opened \in 0..Len(log')
  BY AppendProperties, LenProperties DEF Change, Request, Observed, StepInv, StepTypeOK
<1>3. StepTypeOK' /\ OnItsWay'
  BY <1>1, <1>2 DEF StepInv, StepTypeOK, OnItsWay
<1>4. WaitsForItsOwn' /\ ReadableSawOtherwise'
  BY <1>1, StepMeansTheSame DEF StepInv, WaitsForItsOwn, ReadableSawOtherwise
<1>5. PassSawIt' /\ FailSawOtherwise' /\ SubmitIsWatched'
  BY <1>1 DEF StepInv, StepTypeOK, StepAssumption, PassSawIt, FailSawOtherwise, SubmitIsWatched
<1> QED
  BY <1>3, <1>4, <1>5 DEF StepInv

LEMMA StepStarts ==
  ASSUME StepAssumption, StepInv, Start
  PROVE  StepInv'
<1>1. /\ pc # "done" /\ UNCHANGED <<step, level, page, visited, log, goal, readable, looking, outcome>>
      /\ opened' \in 0..Len(log)
      /\ pc' \in {"window", "anchor", "scope"} /\ (pc' = "window" <=> step.action = "expect_requests")
  BY DEF Start, pageVars, loopVars, StepInv, StepTypeOK
<1> QED
  BY <1>1
  DEF StepInv, StepTypeOK, OnItsWay, WaitsForItsOwn, ReadableSawOtherwise,
      StepAssumption, PassSawIt, FailSawOtherwise, SubmitIsWatched

LEMMA StepInvInit == StepAssumption /\ StepInit => StepInv
  BY DEF StepInit, StepInv, StepTypeOK, OnItsWay, WaitsForItsOwn, ReadableSawOtherwise,
         StepAssumption, PassSawIt, FailSawOtherwise, SubmitIsWatched

LEMMA StepInvNext ==
  ASSUME StepAssumption, StepInv, [StepNext]_stepVars
  PROVE  StepInv'
<1>1. CASE UNCHANGED stepVars
  BY <1>1, StepMeansTheSame
  DEF stepVars, pageVars, loopVars, StepInv, StepTypeOK, OnItsWay, WaitsForItsOwn,
      ReadableSawOtherwise, PassSawIt, FailSawOtherwise, SubmitIsWatched
<1> QED
  BY <1>1, PageMoves, StepStarts, StepFinds, StepCounts, StepAwaits, StepLooks, StepTimesOut, StepActs, StepProbes,
     StepClosesWindow
  DEF StepNext, Runner, Done

(***************************************************************************)
(* An assertion of any plan passes only on what the page has shown to a    *)
(* person, whatever the page does while the step is on its way.            *)
(***************************************************************************)
THEOREM PassedOnSight ==
  ASSUME StepAssumption PROVE StepSpec => []PassSawIt
<1>1. StepInv => PassSawIt
  BY DEF StepInv
<1>2. StepInv /\ [StepNext]_stepVars => StepInv'
  BY StepInvNext
<1> QED
  BY StepInvInit, <1>1, <1>2, PTL DEF StepSpec

(***************************************************************************)
(* It fails only when the page has shown the contrary, never because the   *)
(* one element that was there could not be read.                           *)
(***************************************************************************)
THEOREM FailedOnSight ==
  ASSUME StepAssumption PROVE StepSpec => []FailSawOtherwise
<1>1. StepInv => FailSawOtherwise
  BY DEF StepInv
<1>2. StepInv /\ [StepNext]_stepVars => StepInv'
  BY StepInvNext
<1> QED
  BY StepInvInit, <1>1, <1>2, PTL DEF StepSpec

(***************************************************************************)
(* A validation submit passes only if every request that left since the    *)
(* click began went to an approved host.                                   *)
(***************************************************************************)
THEOREM SubmitWatched ==
  ASSUME StepAssumption PROVE StepSpec => []SubmitIsWatched
<1>1. StepInv => SubmitIsWatched
  BY DEF StepInv
<1>2. StepInv /\ [StepNext]_stepVars => StepInv'
  BY StepInvNext
<1> QED
  BY StepInvInit, <1>1, <1>2, PTL DEF StepSpec

-----------------------------------------------------------------------------
(* The files a step of a case finds, given that every file says truly how  *)
(* it was made: two of one role, route and prefix would have one name.     *)
LEMMA FiledAnswersItsOwn ==
  ASSUME GroundAssumption, FiledAsMade
  PROVE  AnswersItsOwn
<1> SUFFICES ASSUME NEW role \in Roles, NEW at \in Places, NEW h \in Histories
             PROVE  /\ Cardinality(Found(role, at, h)) <= 1
                    /\ \A n \in Found(role, at, h) :
                         /\ made[n].call.role = role /\ Sure(made[n].trail)
                         /\ \/ <<Goto(made[n].call.route)>> \o DoneOn(made[n].trail) = h
                            \/ made[n].trail = <<>> /\ PathOf[made[n].call.route] = at
  BY DEF AnswersItsOwn
<1> DEFINE answers == Found(role, at, h)
<1>1. h # Nothing
  <2>1. PICK r \in Routes, p \in PrefixChoices : h = <<Goto(r)>> \o p
    BY DEF Histories
  <2> QED
    BY <2>1 DEF GroundAssumption
<1>2. \A n \in answers : n \in DOMAIN snapshots /\ snapshots[n].role = role /\ snapshots[n].route = at
  BY DEF Found, SnapshotsOf
<1>3. \E k \in {h, Nothing} : \A n \in answers : snapshots[n].prefix = k
  BY DEF Found, SnapshotsOf
<1>4. \A n, m \in answers : n = m
  <2>1. \A n \in answers : n = NameOf(snapshots[n].role, snapshots[n].route, snapshots[n].prefix)
    BY <1>2 DEF FiledAsMade
  <2> QED
    BY <1>2, <1>3, <2>1
<1>5. Cardinality(answers) <= 1
  <2>1. CASE answers = {}
    BY <2>1, FS_EmptySet
  <2>2. CASE answers # {}
    <3>1. PICK n \in answers : TRUE
      BY <2>2
    <3>2. answers = {n}
      BY <1>4, <3>1
    <3>3. Cardinality({n}) = 1
      BY FS_Singleton
    <3> QED
      BY <3>2, <3>3
  <2> QED
    BY <2>1, <2>2
<1>6. ASSUME NEW n \in answers
      PROVE  /\ made[n].call.role = role /\ Sure(made[n].trail)
             /\ \/ <<Goto(made[n].call.route)>> \o DoneOn(made[n].trail) = h
                \/ made[n].trail = <<>> /\ PathOf[made[n].call.route] = at
  BY <1>1, <1>2, <1>3 DEF FiledAsMade
<1> QED
  BY <1>5, <1>6

-----------------------------------------------------------------------------
(* What the actions keep of the files, and of a call that goes on.         *)
LEMMA FilesKept ==
  ASSUME FiledAsMade, SecretsWithheld, UNCHANGED <<snapshots, made>>
  PROVE  FiledAsMade' /\ SecretsWithheld'
  BY DEF FiledAsMade, SecretsWithheld

LEMMA GroundEnds ==
  ASSUME GroundInv, BackToIdle, FiledAsMade', SecretsWithheld'
  PROVE  GroundInv'
  BY DEF GroundInv, BackToIdle, ReplaysItsPrefix, KnowsItsSecrets, StayedHome, AtRest

LEMMA GroundHalts ==
  ASSUME GroundInv, Halts
  PROVE  GroundInv'
  BY FilesKept, GroundEnds DEF Halts, disk, GroundInv

(* From one phase to the next, or in the same one, with nothing replayed.  *)
LEMMA GroundGoesOn ==
  ASSUME GroundInv, phase # "idle", phase' # "idle",
         UNCHANGED <<call, next, snapshots, trail, made>>,
         ReplaysItsPrefix', KnowsItsSecrets', StayedHome'
  PROVE  GroundInv'
  BY FilesKept DEF GroundInv, AtRest

LEMMA GroundAtRest ==
  ASSUME GroundInv,
         InitRun \/ Finished \/ \E r \in Edits : EditIgnore(r)
  PROVE  GroundInv'
<1>1. UNCHANGED <<call, phase, table, next, left, snapshots, trail, made>>
  BY DEF InitRun, Finished, EditIgnore, groundVars, groundBounds, ghosts, disk
<1>2. phase = "idle"
  BY DEF InitRun, Finished, EditIgnore
<1> QED
  BY <1>1, <1>2, FilesKept
  DEF GroundInv, ReplaysItsPrefix, KnowsItsSecrets, StayedHome, AtRest

LEMMA GroundBegins ==
  ASSUME GroundAssumption, GroundInv,
         NEW role \in Roles, NEW route \in Routes, NEW prefix \in PrefixChoices, NEW inside \in BOOLEAN,
         Begin(role, route, prefix, inside)
  PROVE  GroundInv'
<1>1. /\ phase = "idle" /\ phase' = "ignore" /\ UNCHANGED <<table, next, left, snapshots, trail, made>>
      /\ call' = [role |-> role, route |-> route, prefix |-> prefix, inside |-> inside]
  BY DEF Begin, disk, ghosts
<1>2. next = 1 /\ trail = <<>> /\ Len(prefix) \in Nat
  BY <1>1, LenProperties DEF GroundInv, AtRest, GroundAssumption
<1>3. ReplaysItsPrefix'
  BY <1>1, <1>2 DEF ReplaysItsPrefix
<1> QED
  BY <1>1, <1>3, FilesKept DEF GroundInv, KnowsItsSecrets, StayedHome, AtRest

(* Before the page is loaded.                                              *)
LEMMA GroundPrepares ==
  ASSUME GroundInv, NoTarget \/ NoSession \/ ProveIgnore \/ TakeSession \/ Load
  PROVE  GroundInv'
<1>1. CASE NoTarget \/ NoSession
  BY <1>1, GroundHalts DEF NoTarget, NoSession
<1>2. CASE ProveIgnore
  <2>1. UNCHANGED <<snapshots, made>> /\ phase = "ignore"
    BY <1>2 DEF ProveIgnore
  <2>2. CASE BackToIdle
    BY <2>1, <2>2, FilesKept, GroundEnds DEF GroundInv
  <2>3. CASE phase' = "session" /\ UNCHANGED <<call, table, next, left, trail>>
    BY <2>1, <2>3, FilesKept
    DEF GroundInv, ReplaysItsPrefix, KnowsItsSecrets, StayedHome, AtRest
  <2> QED
    BY <1>2, <2>2, <2>3 DEF ProveIgnore
<1>3. CASE TakeSession
  <2>1. CASE Halts
    BY <2>1, GroundHalts
  <2>2. CASE ~WithheldStep(call.prefix, table \cup Registered(call.role))
    <3>1. /\ phase = "session" /\ phase' = "load" /\ UNCHANGED <<call, next, left, snapshots, trail, made>>
          /\ table' = table \cup Registered(call.role)
      BY <1>3, <2>2 DEF TakeSession, disk, ghosts
    <3>2. KnowsItsSecrets'
      BY <2>2, <3>1 DEF KnowsItsSecrets, GroundInv
    <3> QED
      BY <3>1, <3>2, FilesKept DEF GroundInv, ReplaysItsPrefix, StayedHome, AtRest
  <2> QED
    BY <1>3, <2>1, <2>2 DEF TakeSession
<1>4. CASE Load
  <2>1. /\ phase = "load" /\ phase' = "replay" /\ UNCHANGED <<call, table, next, left, snapshots, trail, made>>
    BY <1>4 DEF Load, disk, ghosts
  <2> QED
    BY <2>1, FilesKept
    DEF GroundInv, ReplaysItsPrefix, KnowsItsSecrets, StayedHome, AtRest
<1> QED
  BY <1>1, <1>2, <1>3, <1>4

(* A step of the prefix, done on its only match, comes next in the trail.  *)
LEMMA GroundReplays ==
  ASSUME GroundAssumption, GroundInv, ReplayGoto \/ ActStep
  PROVE  GroundInv'
<1>1. /\ phase \in {"replay", "act"} /\ phase' = "replay" /\ next <= Len(call.prefix) /\ next' = next + 1
      /\ trail' = Append(trail, [step |-> call.prefix[next], matches |-> 1])
      /\ UNCHANGED <<call, table, left, snapshots, made>>
  BY DEF ReplayGoto, ActStep, StepNow, disk, GroundInv, ReplaysItsPrefix
<1>2. call.prefix \in Seq(Moves) /\ trail \in Seq([step : Moves, matches : {1}]) /\ next = Len(trail) + 1
  BY <1>1 DEF GroundInv, ReplaysItsPrefix, GroundAssumption
<1>3. Len(trail) \in Nat /\ Len(call.prefix) \in Nat /\ call.prefix[next] \in Moves
  BY <1>1, <1>2, LenProperties, ElementOfSeq
<1>4. /\ trail' \in Seq([step : Moves, matches : {1}]) /\ Len(trail') = Len(trail) + 1
      /\ \A i \in 1..Len(trail) : trail'[i] = trail[i]
      /\ trail'[next].step = call.prefix[next]
  BY <1>1, <1>2, <1>3, AppendProperties
<1>5. ReplaysItsPrefix'
  BY <1>1, <1>2, <1>3, <1>4 DEF GroundInv, ReplaysItsPrefix
<1> QED
  BY <1>1, <1>5, FilesKept DEF GroundInv, KnowsItsSecrets, StayedHome, AtRest

(* Everything else between the load and the file replays nothing.          *)
LEMMA GroundReads ==
  ASSUME GroundAssumption, GroundInv,
         \/ CountStep \/ Replayed \/ Hovered \/ Unstable \/ Fails
         \/ \E seen : ReadPage(seen)
         \/ \E c \in Cands, counted \in BOOLEAN : Count(c, counted)
         \/ \E p \in Views : Dismiss(p) \/ Turns(p)
  PROVE  GroundInv'
<1>1. CASE Halts
  BY <1>1, GroundHalts
<1>2. CASE /\ phase \in {"replay", "act", "hover", "read", "count"} /\ phase' \in {"replay", "act", "hover", "read", "count"}
           /\ UNCHANGED <<call, table, next, snapshots, trail, made>>
           /\ phase' = "act" => phase = "act" \/ next <= Len(call.prefix)
           /\ phase' \in {"hover", "read", "count"} => phase \in {"hover", "read", "count"} \/ next > Len(call.prefix)
           /\ phase' \in {"read", "count"} => ~left'
  <2>1. call.prefix \in Seq(Moves) /\ Len(call.prefix) \in Nat /\ Len(trail) \in Nat
    BY <1>2, LenProperties DEF GroundInv, ReplaysItsPrefix, GroundAssumption
  <2>2. ReplaysItsPrefix'
    BY <1>2, <2>1 DEF GroundInv, ReplaysItsPrefix
  <2> QED
    BY <1>2, <2>2, FilesKept DEF GroundInv, KnowsItsSecrets, StayedHome, AtRest
<1>3. CASE CountStep \/ Replayed \/ Hovered
  BY <1>1, <1>2, <1>3
  DEF CountStep, Replayed, Hovered, LeftByNow, disk, ghosts
<1>4. CASE Unstable \/ Fails
  BY <1>1, <1>4 DEF Unstable, Fails
<1>5. ASSUME NEW seen, ReadPage(seen) PROVE GroundInv'
  BY <1>2, <1>5 DEF ReadPage, disk, ghosts, GroundInv, StayedHome
<1>6. ASSUME NEW c, NEW counted, Count(c, counted) PROVE GroundInv'
  BY <1>2, <1>6 DEF Count, disk, ghosts, GroundInv, StayedHome
<1>7. ASSUME NEW p, Dismiss(p) \/ Turns(p) PROVE GroundInv'
  BY <1>2, <1>7 DEF Dismiss, Turns, disk, ghosts, GroundInv, StayedHome
<1> QED
  BY <1>3, <1>4, <1>5, <1>6, <1>7

(* The snapshot: its name and its content say how it was made.             *)
LEMMA GroundWrites ==
  ASSUME GroundAssumption, GroundInv, Write
  PROVE  GroundInv'
<1>1. CASE Halts
  BY <1>1, GroundHalts
<1>2. CASE ~Halts
  <2> DEFINE name == NameOf(call.role, Key, RecordedPrefix)
             file == [role |-> call.role, route |-> Key, prefix |-> RecordedPrefix,
                      entries |-> [c \in Kept |-> entries[c]]]
             how  == [call |-> call, trail |-> trail]
             known == (Named \cup (Holds[call.role] \cap Declared) \cup ((Holds[call.role] \cap Clears) \ Public)) \ Short
  <2>1. /\ phase = "count" /\ BackToIdle
        /\ snapshots' = With(snapshots, name, file) /\ made' = With(made, name, how)
    BY <1>2 DEF Write
  <2>2. /\ call.role \in Roles /\ call.route \in Routes /\ call.prefix \in PrefixChoices
        /\ call.prefix \in Seq(Moves) /\ Len(call.prefix) \in Nat
        /\ trail \in Seq([step : Moves, matches : {1}]) /\ Len(trail) = Len(call.prefix)
        /\ \A i \in 1..Len(trail) : trail[i].step = call.prefix[i]
    BY <2>1, LenProperties DEF GroundInv, ReplaysItsPrefix, GroundAssumption
  <2>3. DOMAIN trail = 1..Len(trail) /\ \A i \in DOMAIN trail : trail[i].matches = 1
    <3>1. DOMAIN trail = 1..Len(trail)
      BY <2>2, LenProperties
    <3>2. \A i \in 1..Len(trail) : trail[i] \in [step : Moves, matches : {1}]
      BY <2>2, ElementOfSeq
    <3> QED
      BY <3>1, <3>2
  <2>4. DoneOn(trail) = call.prefix
    BY <2>2, <2>3, LenProperties DEF DoneOn
  <2>5. IF RecordedPrefix = Nothing THEN trail = <<>> /\ Key = PathOf[call.route]
        ELSE RecordedPrefix = <<Goto(call.route)>> \o DoneOn(trail)
    <3>1. CASE call.prefix = <<>>
      BY <2>2, <3>1, EmptySeq DEF RecordedPrefix, Key
    <3>2. CASE call.prefix # <<>>
      BY <2>2, <2>4, <3>2 DEF RecordedPrefix, GroundAssumption
    <3> QED
      BY <3>1, <3>2
  <2>6. RecordedPrefix # Nothing => Digest(RecordedPrefix) # Nothing
    BY <2>2 DEF RecordedPrefix, GroundAssumption
  <2>7. Sure(trail)
    BY <2>3 DEF Sure
  <2>8. \A n \in DOMAIN snapshots' : (n = name /\ snapshots'[n] = file /\ made'[n] = how)
                               \/ (n \in DOMAIN snapshots /\ snapshots'[n] = snapshots[n] /\ made'[n] = made[n])
    BY <2>1 DEF With, GroundInv, FiledAsMade
  <2>9. DOMAIN made' = DOMAIN snapshots'
    BY <2>1 DEF With, GroundInv, FiledAsMade
  <2>10. FiledAsMade'
    <3>1. ASSUME NEW n \in DOMAIN snapshots'
          PROVE  LET f == snapshots'[n]  m == made'[n] IN
                 /\ n = NameOf(f.role, f.route, f.prefix)
                 /\ f.prefix # Nothing => Digest(f.prefix) # Nothing
                 /\ m.call.role = f.role /\ Sure(m.trail)
                 /\ IF f.prefix = Nothing THEN m.trail = <<>> /\ f.route = PathOf[m.call.route]
                    ELSE f.prefix = <<Goto(m.call.route)>> \o DoneOn(m.trail)
      <4>1. CASE n = name /\ snapshots'[n] = file /\ made'[n] = how
        BY <2>5, <2>6, <2>7, <4>1
      <4>2. CASE n \in DOMAIN snapshots /\ snapshots'[n] = snapshots[n] /\ made'[n] = made[n]
        BY <4>2 DEF GroundInv, FiledAsMade
      <4> QED
        BY <2>8, <4>1, <4>2
    <3> QED
      BY <2>9, <3>1, Zenon DEF FiledAsMade
  <2>11. known \subseteq table /\ ~WithheldStep(call.prefix, table)
    BY <2>1 DEF GroundInv, KnowsItsSecrets, Registered, OwnAddress, AtStart
  <2>12. \A c \in DOMAIN file.entries : ~Withheld(c, known)
    BY <2>11 DEF Kept, Withheld
  <2>13. \A i \in DOMAIN trail : Acts(trail[i].step) => ~Withheld(trail[i].step.at, known)
    BY <2>2, <2>3, <2>11, LenProperties DEF WithheldStep, Withheld
  <2>14. SecretsWithheld'
    <3>1. ASSUME NEW n \in DOMAIN snapshots'
          PROVE  LET mine == Holds[snapshots'[n].role]
                     secret == (Named \cup (mine \cap Declared) \cup ((mine \cap Clears) \ Public)) \ Short
                 IN /\ \A c \in DOMAIN snapshots'[n].entries : ~Withheld(c, secret)
                    /\ \A i \in DOMAIN made'[n].trail : Acts(made'[n].trail[i].step) =>
                         ~Withheld(made'[n].trail[i].step.at, secret)
      <4>1. CASE n = name /\ snapshots'[n] = file /\ made'[n] = how
        <5>1. snapshots'[n].role = call.role /\ snapshots'[n].entries = file.entries /\ made'[n].trail = trail
          BY <4>1
        <5> HIDE DEF file
        <5> QED
          BY <2>12, <2>13, <5>1
      <4>2. CASE n \in DOMAIN snapshots /\ snapshots'[n] = snapshots[n] /\ made'[n] = made[n]
        BY <4>2 DEF GroundInv, SecretsWithheld
      <4> QED
        BY <2>8, <3>1, <4>1, <4>2
    <3> HIDE DEF name, file, how, known
    <3> QED
      BY <3>1 DEF SecretsWithheld
  <2> QED
    BY <2>1, <2>10, <2>14, GroundEnds
<1> QED
  BY <1>1, <1>2

LEMMA GroundInvInit == GroundAssumption /\ GroundInit => GroundInv
  BY DEF GroundInit, GroundInv, ReplaysItsPrefix, KnowsItsSecrets, StayedHome,
         AtRest, FiledAsMade, SecretsWithheld

LEMMA GroundInvNext ==
  ASSUME GroundAssumption, GroundInv, [GroundNext]_groundVars
  PROVE  GroundInv'
<1>1. CASE UNCHANGED groundVars
  BY <1>1, FilesKept
  DEF groundVars, groundBounds, ghosts, disk, GroundInv, ReplaysItsPrefix,
      KnowsItsSecrets, StayedHome, AtRest
<1> QED
  BY <1>1, GroundAtRest, GroundBegins, GroundPrepares, GroundReplays, GroundReads, GroundWrites
  DEF GroundNext, RunnerStep

(***************************************************************************)
(* A step of a case finds at most one snapshot, of its role, taken after   *)
(* exactly its interactions or after the route alone, whatever other calls *)
(* wrote in the directory and however their file names collide.            *)
(***************************************************************************)
THEOREM SnapshotsAnswerTheirOwn ==
  ASSUME GroundAssumption PROVE GroundSpec => []AnswersItsOwn
<1>1. GroundInv => AnswersItsOwn
  BY FiledAnswersItsOwn DEF GroundInv
<1>2. GroundInv /\ [GroundNext]_groundVars => GroundInv'
  BY GroundInvNext
<1> QED
  BY GroundInvInit, <1>1, <1>2, PTL DEF GroundSpec

(***************************************************************************)
(* No snapshot lists a name with a secret of the environment or of its     *)
(* session, and no interaction was replayed on one.                        *)
(***************************************************************************)
THEOREM SnapshotsWithholdSecrets ==
  ASSUME GroundAssumption PROVE GroundSpec => []SecretsWithheld
<1>1. GroundInv => SecretsWithheld
  BY DEF GroundInv
<1>2. GroundInv /\ [GroundNext]_groundVars => GroundInv'
  BY GroundInvNext
<1> QED
  BY GroundInvInit, <1>1, <1>2, PTL DEF GroundSpec

(* What a step does to the files: nothing, or one snapshot is written by a *)
(* call that stayed home.                                                  *)
LEMMA OnlyWriteTouchesFiles ==
  ASSUME GroundInv, [GroundNext]_groundVars
  PROVE  UNCHANGED snapshots \/ (Write /\ ~left)
  BY DEF GroundInv, StayedHome, groundVars, groundBounds, ghosts, disk, GroundNext, RunnerStep,
      InitRun, Begin, NoTarget, NoSession, ProveIgnore, TakeSession, Load,
      Fails, ReplayGoto, CountStep, ActStep, Replayed, Hovered, ReadPage,
      Unstable, Write, Count, Dismiss, Turns, EditIgnore, Finished,
      Halts, BackToIdle

(***************************************************************************)
(* A snapshot after an interaction never replaces a plain one, nor the     *)
(* other way round.                                                        *)
(***************************************************************************)
THEOREM KindsStayApart ==
  ASSUME GroundAssumption PROVE GroundSpec => KindsApart
<1> DEFINE Apart == \A n \in DOMAIN snapshots : (snapshots[n].prefix = Nothing) = (snapshots'[n].prefix = Nothing)
<1>1. ASSUME GroundInv, GroundInv', [GroundNext]_groundVars PROVE [Apart]_snapshots
  <2>1. CASE UNCHANGED snapshots
    BY <2>1
  <2>2. CASE Write /\ ~UNCHANGED snapshots
    <3>1. DOMAIN snapshots \subseteq DOMAIN snapshots'
      BY <2>2 DEF Write, With, Halts, disk
    <3>2. \A n \in DOMAIN snapshots :
            /\ n = NameOf(snapshots[n].role, snapshots[n].route, snapshots[n].prefix)
            /\ snapshots[n].prefix # Nothing => Digest(snapshots[n].prefix) # Nothing
      BY <1>1 DEF GroundInv, FiledAsMade
    <3>3. \A n \in DOMAIN snapshots' :
            /\ n = NameOf(snapshots'[n].role, snapshots'[n].route, snapshots'[n].prefix)
            /\ snapshots'[n].prefix # Nothing => Digest(snapshots'[n].prefix) # Nothing
      BY <1>1 DEF GroundInv, FiledAsMade
    <3>4. ASSUME NEW n \in DOMAIN snapshots PROVE (snapshots[n].prefix = Nothing) <=> (snapshots'[n].prefix = Nothing)
      BY <3>1, <3>2, <3>3, <3>4 DEF NameOf
    <3> QED
      BY <3>4
  <2> QED
    BY <1>1, <2>1, <2>2, OnlyWriteTouchesFiles
<1>2. GroundInv /\ [GroundNext]_groundVars => GroundInv'
  BY GroundInvNext
<1> QED
  BY GroundInvInit, <1>1, <1>2, PTL DEF GroundSpec, KindsApart

(***************************************************************************)
(* Once a dismissal has left the approved origin, the call writes nothing. *)
(***************************************************************************)
THEOREM LeftWritesNothing ==
  ASSUME GroundAssumption PROVE GroundSpec => LeftIsNotWritten
<1>1. GroundInv /\ [GroundNext]_groundVars => [left => snapshots' = snapshots]_groundVars
  BY OnlyWriteTouchesFiles
<1>2. GroundInv /\ [GroundNext]_groundVars => GroundInv'
  BY GroundInvNext
<1> QED
  BY GroundInvInit, <1>1, <1>2, PTL DEF GroundSpec, LeftIsNotWritten

-----------------------------------------------------------------------------
(* A set of indices that is not empty has a first one.                     *)
LEMMA FirstIndex ==
  ASSUME NEW S, S \subseteq Nat, S # {}
  PROVE  First(S) \in S /\ \A j \in S : First(S) <= j
<1> DEFINE R == {ss \in Nat \X Nat : ss[1] < ss[2]}
<1>1. IsWellFoundedOn(R, Nat)
  BY NatLessThanWellFounded, Zenon DEF OpToRel
<1> HIDE DEF R
<1>2. PICK i \in S : \A j \in S : ~(<<j, i>> \in R)
  BY <1>1, WFMin, Zenon
<1>3. \A a, b \in Nat : a < b => <<a, b>> \in R
  BY DEF R
<1>4. ASSUME NEW j \in S PROVE i <= j
  <2>1. i \in Nat /\ j \in Nat /\ ~(<<j, i>> \in R)
    BY <1>2
  <2>2. ~(j < i)
    BY <2>1, <1>3
  <2> QED
    BY <2>1, <2>2
<1> QED
  BY <1>4 DEF First

(* What a sequence holds, those it is made part of hold too.               *)
Within(s, t) == \A i \in DOMAIN s : \E j \in DOMAIN t : t[j] = s[i]

LEMMA WithinTransitive == \A s, t, u : Within(s, t) /\ Within(t, u) => Within(s, u)
  BY Zenon DEF Within

LEMMA JoinedHolds ==
  ASSUME NEW S, NEW s \in Seq(S), NEW t \in Seq(S)
  PROVE  s \o t \in Seq(S) /\ Within(s, s \o t) /\ Within(t, s \o t)
<1> DEFINE st == s \o t
<1>1. /\ st \in Seq(S) /\ Len(st) = Len(s) + Len(t)
      /\ \A i \in 1..Len(s) + Len(t) : st[i] = IF i <= Len(s) THEN s[i] ELSE t[i - Len(s)]
  BY ConcatProperties, Zenon
<1>2. /\ DOMAIN s = 1..Len(s) /\ DOMAIN t = 1..Len(t) /\ DOMAIN st = 1..Len(st)
      /\ Len(s) \in Nat /\ Len(t) \in Nat
  BY <1>1, LenProperties, Zenon
<1> HIDE DEF st
<1>3. \A i \in DOMAIN s : i \in DOMAIN st /\ st[i] = s[i]
  BY <1>1, <1>2
<1>4. \A i \in DOMAIN t : Len(s) + i \in DOMAIN st /\ st[Len(s) + i] = t[i]
  BY <1>1, <1>2
<1>5. Within(s, st) /\ Within(t, st)
  BY <1>3, <1>4 DEF Within
<1> QED
  BY <1>1, <1>5 DEF st

LEMMA JoinedHoldsFour ==
  ASSUME NEW S, NEW a \in Seq(S), NEW b \in Seq(S), NEW c \in Seq(S), NEW d \in Seq(S)
  PROVE  /\ a \o b \o c \o d \in Seq(S)
         /\ \A s \in {a, b, c, d} : Within(s, a \o b \o c \o d)
<1> DEFINE ab == a \o b
           abc == ab \o c
           abcd == abc \o d
<1>1. ab \in Seq(S) /\ Within(a, ab) /\ Within(b, ab)
  BY JoinedHolds, Zenon
<1> HIDE DEF ab
<1>2. abc \in Seq(S) /\ Within(ab, abc) /\ Within(c, abc)
  BY <1>1, JoinedHolds, Zenon
<1> HIDE DEF abc
<1>3. abcd \in Seq(S) /\ Within(abc, abcd) /\ Within(d, abcd)
  BY <1>2, JoinedHolds, Zenon
<1> HIDE DEF abcd
<1>4. Within(a, abcd) /\ Within(b, abcd) /\ Within(c, abcd)
  BY <1>1, <1>2, <1>3, WithinTransitive
<1>5. \A s \in {a, b, c, d} : Within(s, abcd)
  BY <1>3, <1>4
<1> QED
  BY <1>3, <1>5, Zenon DEF ab, abc, abcd

(* Every shard a row can go to has its place among the names.              *)
LEMMA NamesOfShards ==
  ASSUME MetricsAssumption
  PROVE  /\ DOMAIN ShardNames \subseteq Nat
         /\ \E i \in DOMAIN ShardNames : ShardNames[i] = ScanShard
         /\ \A rel \in {"verdict", "rubric", "run"}, m \in MonthSet :
              \E i \in DOMAIN ShardNames : ShardNames[i] = <<rel, m>>
<1> DEFINE V == {<<rel, m>> : rel \in {"verdict", "rubric", "run", "scan"}, m \in MonthSet \cup {"all"}}
           c == <<ScanShard>>
<1>1. Len(Months) \in Nat /\ DOMAIN Months = 1..Len(Months) /\ \A i \in 1..Len(Months) : Months[i] \in MonthSet
  BY LenProperties, ElementOfSeq DEF MetricsAssumption, MonthSet
<1>2. ASSUME NEW rel \in {"verdict", "rubric", "run"}
      PROVE  /\ Of(rel) \in Seq(V)
             /\ \A m \in MonthSet : \E i \in DOMAIN Of(rel) : Of(rel)[i] = <<rel, m>>
  <2>1. \A i \in 1..Len(Months) : <<rel, Months[i]>> \in V
    BY <1>1
  <2>2. Of(rel) \in Seq(V)
    BY <1>1, <2>1, IsASeq DEF Of
  <2>3. ASSUME NEW m \in MonthSet
        PROVE  \E i \in DOMAIN Of(rel) : Of(rel)[i] = <<rel, m>>
    BY <1>1 DEF Of, MonthSet, ToSet
  <2> QED
    BY <2>2, <2>3
<1>3. c \in Seq(V) /\ \E i \in DOMAIN c : c[i] = ScanShard
  <2>1. ScanShard \in V
    BY DEF ScanShard
  <2>2. 1 \in DOMAIN c /\ c[1] = ScanShard
    OBVIOUS
  <2> HIDE DEF V
  <2> QED
    BY <2>1, <2>2
<1> HIDE DEF V, c
<1>4. Of("rubric") \in Seq(V) /\ Of("run") \in Seq(V) /\ Of("verdict") \in Seq(V)
  BY <1>2
<1>5. /\ ShardNames \in Seq(V)
      /\ \A s \in {Of("rubric"), Of("run"), c, Of("verdict")} : Within(s, ShardNames)
  BY <1>3, <1>4, JoinedHoldsFour, Zenon DEF ShardNames, c
<1>6. DOMAIN ShardNames \subseteq Nat
  BY <1>5, LenProperties
<1>7. \E i \in DOMAIN ShardNames : ShardNames[i] = ScanShard
  BY <1>3, <1>5 DEF Within
<1>8. ASSUME NEW rel \in {"verdict", "rubric", "run"}, NEW m \in MonthSet
      PROVE  \E i \in DOMAIN ShardNames : ShardNames[i] = <<rel, m>>
  <2>1. PICK i \in DOMAIN Of(rel) : Of(rel)[i] = <<rel, m>>
    BY <1>2
  <2>2. Within(Of(rel), ShardNames)
    BY <1>5
  <2> QED
    BY <2>1, <2>2 DEF Within
<1> QED
  BY <1>6, <1>7, <1>8

(* The logs only grow: what a line made a row of stays one.                *)
LEMMA RowsStay ==
  ASSUME MetricsTypeOK, NEW l0 \in LogSet, Review(l0)
  PROVE  Corpus \subseteq Corpus'
<1>1. PICK x \in MonthSet \cup {Bad} : lines' = [lines EXCEPT ![l0] = Append(@, x)]
  BY DEF Review
<1>2. lines \in [LogSet -> Seq(MonthSet \cup {Bad})]
  BY DEF MetricsTypeOK
<1>3. ASSUME NEW l \in LogSet, NEW i \in Parsed(l)
      PROVE  i \in Parsed(l)' /\ Number(l, i)' = Number(l, i) /\ lines'[l][i] = lines[l][i]
  <2>1. CASE l # l0
    <3>1. lines'[l] = lines[l]
      BY <1>1, <1>2, <2>1
    <3> QED
      BY <3>1 DEF Parsed, Number
  <2>2. CASE l = l0
    <3>1. lines[l] \in Seq(MonthSet \cup {Bad}) /\ lines'[l] = Append(lines[l], x)
      BY <1>1, <1>2, <2>2
    <3>2. Len(lines'[l]) = Len(lines[l]) + 1 /\ Len(lines[l]) \in Nat /\ \A j \in 1..Len(lines[l]) : lines'[l][j] = lines[l][j]
      BY <3>1
    <3>3. i \in 1..Len(lines[l]) /\ Parsed(l) = {j \in 1..Len(lines[l]) : lines[l][j] # Bad}
      BY DEF Parsed
    <3>4. {j \in Parsed(l)' : j <= i} = {j \in Parsed(l) : j <= i}
      BY <3>2, <3>3 DEF Parsed
    <3>5. i \in Parsed(l)' /\ lines'[l][i] = lines[l][i]
      BY <3>2, <3>3 DEF Parsed
    <3> QED
      BY <3>4, <3>5, Zenon DEF Number
  <2> QED
    BY <2>1, <2>2
<1>4. \A l \in LogSet : RowsOf(l) \subseteq RowsOf(l)'
  BY <1>3 DEF RowsOf
<1> QED
  BY <1>4 DEF Corpus, LogSet

(* What is read and written depends on the files and on what was read.     *)
LEMMA CorpusSame ==
  ASSUME lines' = lines
  PROVE  Corpus' = Corpus /\ \A l : RowsOf(l)' = RowsOf(l)
<1>1. \A l : RowsOf(l)' = RowsOf(l)
  BY DEF RowsOf, Parsed, Number
<1> QED
  BY <1>1 DEF Corpus, LogSet

LEMMA ContentSame ==
  ASSUME shard' = shard, mat'.rows = mat.rows, mat'.now = mat.now
  PROVE  \A n : Content(n)' = Content(n)
BY DEF Content, AllScans, ThisScan, Scans, ShardOf

(* The rows of a log are verdict and rubric rows of a month that name it.  *)
LEMMA RowsOfALog ==
  ASSUME MetricsTypeOK, NEW l \in LogSet, NEW r \in RowsOf(l)
  PROVE  r.rel \in {"verdict", "rubric"} /\ r.month \in MonthSet /\ r.key[1] = l
<1>1. PICK rel \in {"verdict", "rubric"}, i \in Parsed(l) :
        r = [rel |-> rel, key |-> <<l, Number(l, i)>>, month |-> lines[l][i]]
  BY DEF RowsOf
<1>2. i \in 1..Len(lines[l]) /\ lines[l][i] # Bad /\ lines[l] \in Seq(MonthSet \cup {Bad})
  BY DEF Parsed, MetricsTypeOK
<1>3. lines[l][i] \in MonthSet
  BY <1>2
<1> QED
  BY <1>1, <1>3

LEMMA RowsOfTheCorpus ==
  ASSUME MetricsTypeOK, NEW r \in Corpus
  PROVE  /\ r.rel \in {"verdict", "rubric"} /\ r.month \in MonthSet
         /\ r.key[1] \in LogSet /\ r \in RowsOf(r.key[1])
<1>1. PICK l \in LogSet : r \in RowsOf(l)
  BY DEF Corpus
<1> QED
  BY <1>1, RowsOfALog

(* The shard being written has a name, and is one that was planned.        *)
LEMMA CurrentIsPlanned ==
  ASSUME MetricsAssumption, MetricsInv, mat.pc \in {"write", "rename"}
  PROVE  /\ First(mat.names) \in mat.names
         /\ Current \in ToSet(ShardNames)
         /\ Current # ScanShard => \E r \in mat.rows : ShardOf(r) = Current
         /\ Current \in LogNames =>
              /\ Content(Current) \subseteq Corpus
              /\ \E r \in Corpus : ShardOf(r) = Current
<1>1. mat.names \subseteq DOMAIN ShardNames /\ mat.names # {} /\ mat.names \subseteq Planned(mat.rows)
  BY DEF MetricsInv, MetricsTypeOK, WritesAsPlanned
<1>2. First(mat.names) \in mat.names
  BY <1>1, NamesOfShards, FirstIndex
<1>3. Current \in ToSet(ShardNames)
  BY <1>1, <1>2 DEF Current, ToSet
<1>4. Current # ScanShard => \E r \in mat.rows : ShardOf(r) = Current
  BY <1>1, <1>2 DEF Planned, Current
<1>5. ASSUME Current \in LogNames
      PROVE  /\ Content(Current) \subseteq Corpus
             /\ \E r \in Corpus : ShardOf(r) = Current
  <2>1. Current[1] \in {"verdict", "rubric"} /\ Current # ScanShard
    BY <1>5 DEF LogNames, ScanShard
  <2>2. \A r \in mat.rows : ShardOf(r) = Current => r \in Corpus
    BY <2>1 DEF ShardOf, MetricsInv, ComesFromALog
  <2> QED
    BY <2>1, <2>2, <1>4 DEF Content
<1> QED
  BY <1>2, <1>3, <1>4, <1>5

-----------------------------------------------------------------------------
(* The steps of the reviewers, the operator, the orchestrator, its ledger. *)
LEMMA ReviewKeeps ==
  ASSUME MetricsAssumption, MetricsInv, NEW l \in LogSet, Review(l)
  PROVE  MetricsInv'
<1>1. Corpus \subseteq Corpus'
  BY RowsStay DEF MetricsInv
<1>2. UNCHANGED <<place, runRecord, ledger, shard, tmp, attributes, mat, clock, bounds, due, fresh>>
  BY DEF Review, files
<1>3. lines' \in [LogSet -> Seq(MonthSet \cup {Bad})]
  <2> DEFINE X == MonthSet \cup {Bad}
  <2>1. PICK x \in X : lines' = [lines EXCEPT ![l] = Append(@, x)]
    BY DEF Review
  <2>2. lines \in [LogSet -> Seq(X)]
    BY DEF MetricsInv, MetricsTypeOK
  <2> HIDE DEF X
  <2>3. Append(lines[l], x) \in Seq(X)
    BY <2>2
  <2>4. lines' \in [LogSet -> Seq(X)]
    BY <2>1, <2>2, <2>3
  <2> QED
    BY <2>4 DEF X
<1>4. MetricsTypeOK'
  BY <1>2, <1>3 DEF MetricsInv, MetricsTypeOK, LogSet, MonthSet
<1>5. WritesAsPlanned'
  <2>1. \A n : Content(n)' = Content(n)
    BY <1>2, ContentSame
  <2> QED
    BY <1>2, <2>1 DEF MetricsInv, WritesAsPlanned, Current, Scans
<1>6. ComesFromALog'
  BY <1>1, <1>2 DEF MetricsInv, ComesFromALog, LogNames, ShardOf
<1>7. LeftoversAreDue'
  BY <1>2 DEF MetricsInv, LeftoversAreDue, LogNames, ShardOf, Current
<1>8. MissesNothing'
  BY <1>2 DEF MetricsInv, MissesNothing, ListedRow, ToBeRead, Held, Pending,
              RunRows, ShardOf, MonthSet, Path
<1> QED
  BY <1>4, <1>5, <1>6, <1>7, <1>8 DEF MetricsInv

LEMMA RewriteKeeps ==
  ASSUME MetricsAssumption, MetricsInv, NEW to, Rewrite(to),
         to \in {Absent, Torn} \cup MonthSet, ledger' \in {Absent} \cup MonthSet
  PROVE  MetricsInv'
<1>1. Corpus' = Corpus
  BY CorpusSame DEF Rewrite
<1>2. /\ UNCHANGED <<place, lines, shard, tmp, attributes, mat, clock, fresh>>
      /\ runRecord' = to /\ due' = {r \in due : r.rel # "run"}
  BY DEF Rewrite, files
<1>3. MetricsTypeOK'
  BY <1>2 DEF MetricsInv, MetricsTypeOK, LogSet, MonthSet
<1>4. WritesAsPlanned'
  <2>1. \A n : Content(n)' = Content(n)
    BY <1>2, ContentSame
  <2> QED
    BY <1>2, <2>1 DEF MetricsInv, WritesAsPlanned, Current, Scans
<1>5. ComesFromALog'
  BY <1>1, <1>2 DEF MetricsInv, ComesFromALog, LogNames, ShardOf
<1>6. LeftoversAreDue'
  <2>1. \A n \in LogNames, r \in due : ShardOf(r) = n => r \in due'
    BY <1>2 DEF LogNames, ShardOf
  <2> QED
    BY <1>2, <2>1 DEF MetricsInv, LeftoversAreDue, LogNames, ShardOf, Current
<1>7. MissesNothing'
  BY <1>2 DEF MetricsInv, MissesNothing, ListedRow, ToBeRead, Held, Pending,
              ShardOf, Path
<1> QED
  BY <1>3, <1>4, <1>5, <1>6, <1>7 DEF MetricsInv

LEMMA ArchiveKeeps ==
  ASSUME MetricsAssumption, MetricsInv, NEW l \in LogSet, Archive(l)
  PROVE  MetricsInv'
<1>1. Corpus' = Corpus /\ RowsOf(l)' = RowsOf(l)
  BY CorpusSame DEF Archive
<1>2. /\ UNCHANGED <<lines, runRecord, ledger, shard, tmp, attributes, mat>>
      /\ place[l] = "plans" /\ place' = [place EXCEPT ![l] = "completed"]
      /\ due' \subseteq due /\ fresh' \in {fresh, "no"}
  BY DEF Archive, files
<1>3. MetricsTypeOK'
  BY <1>2 DEF MetricsInv, MetricsTypeOK, LogSet, MonthSet
<1>4. WritesAsPlanned'
  <2>1. \A n : Content(n)' = Content(n)
    BY <1>2, ContentSame
  <2> QED
    BY <1>2, <2>1 DEF MetricsInv, WritesAsPlanned, Current, Scans
<1>5. ComesFromALog'
  BY <1>1, <1>2 DEF MetricsInv, ComesFromALog, LogNames, ShardOf
<1>6. CASE Unread(l)
  <2>1. fresh' = "no"
    BY <1>6 DEF Archive
  <2>2. LeftoversAreDue' /\ MissesNothing'
    BY <2>1 DEF LeftoversAreDue, MissesNothing
  <2> QED
    BY <2>2, <1>3, <1>4, <1>5 DEF MetricsInv
<1>7. CASE ~Unread(l)
  <2>1. due' = due /\ fresh' = fresh
    BY <1>7 DEF Archive
  <2>2. LeftoversAreDue'
    BY <1>2, <2>1 DEF MetricsInv, LeftoversAreDue, LogNames, ShardOf, Current
  <2>3. ASSUME NEW r \in due, fresh = "so far", mat.pc = "list" PROVE ListedRow(r)'
    <3>1. ListedRow(r)
      BY <2>3 DEF MetricsInv, MissesNothing
    <3>2. r.rel # "run" => r.key[1] \in LogSet
      BY RowsOfTheCorpus DEF MetricsInv, ComesFromALog
    <3> QED
      BY <1>2, <3>1, <3>2 DEF ListedRow, RunRows, MonthSet, Path, MetricsInv, MetricsTypeOK
  <2>4. ASSUME NEW r \in due, fresh = "so far", mat.pc = "read" PROVE ToBeRead(r)'
    <3>1. ToBeRead(r)
      BY <2>4 DEF MetricsInv, MissesNothing
    <3>2. r.rel # "run" => r.key[1] \in LogSet
      BY RowsOfTheCorpus DEF MetricsInv, ComesFromALog
    <3>3. r.rel # "run" /\ r.key[1] = l => r \in mat.rows
      BY <1>2, <1>7, <2>4, <3>1 DEF ToBeRead, Unread
    <3> QED
      BY <1>2, <3>1, <3>2, <3>3 DEF ToBeRead, RunRows, MonthSet, Path, MetricsInv, MetricsTypeOK
  <2>5. MissesNothing'
    BY <1>2, <2>1, <2>3, <2>4 DEF MetricsInv, MissesNothing, Held, Pending, ShardOf
  <2> QED
    BY <2>2, <2>5, <1>3, <1>4, <1>5 DEF MetricsInv
<1> QED
  BY <1>6, <1>7

-----------------------------------------------------------------------------
(* The steps that leave the files alone.                                   *)
LEMMA StartKeeps ==
  ASSUME MetricsAssumption, MetricsInv, Materialize
  PROVE  MetricsInv'
<1>1. /\ UNCHANGED <<place, lines, runRecord, ledger, shard, tmp, attributes>>
      /\ mat' = [Idle EXCEPT !.pc = "list", !.now = clock', !.todo = PathsUnder("plans")]
      /\ due' = Corpus \cup RunRows /\ fresh' = "so far"
  BY DEF Materialize, sources, files
<1>2. /\ mat' = [pc |-> "list", todo |-> PathsUnder("plans"), rows |-> {}, names |-> {}, now |-> clock']
      /\ mat'.pc = "list" /\ mat'.todo = PathsUnder("plans") /\ mat'.rows = {} /\ mat'.names = {} /\ mat'.now = clock'
  BY <1>1 DEF Idle
<1>3. Corpus' = Corpus
  BY <1>1, CorpusSame
<1>4. \A r \in due' : /\ r.rel \in {"verdict", "rubric", "run"} /\ r.month \in MonthSet
                      /\ r \in Corpus \/ (r.rel = "run" /\ r \in RunRows)
  <2>1. \A r \in RunRows : r.rel = "run" /\ r.month \in MonthSet
    BY DEF RunRows
  <2> QED
    BY <1>1, <2>1, RowsOfTheCorpus DEF MetricsInv
<1>5. MetricsTypeOK'
  BY <1>1, <1>2, <1>4 DEF MetricsInv, MetricsTypeOK, LogSet, MonthSet, PathsUnder
<1>6. WritesAsPlanned'
  BY <1>1, <1>2 DEF MetricsInv, WritesAsPlanned, Scans
<1>7. ComesFromALog'
  BY <1>1, <1>2, <1>3, <1>4 DEF MetricsInv, ComesFromALog, LogNames, ShardOf
<1>8. LeftoversAreDue'
  <2>1. \A n \in LogNames : tmp[n] # {} => \E r \in due' : ShardOf(r) = n
    BY <1>1 DEF MetricsInv, ComesFromALog
  <2> QED
    BY <1>1, <2>1 DEF LeftoversAreDue, LogNames, ShardOf
<1>9. ASSUME NEW r \in due' PROVE ListedRow(r)'
  <2>1. CASE r \in Corpus
    <3>1. r.rel # "run" /\ r.key[1] \in LogSet
      BY <2>1, RowsOfTheCorpus DEF MetricsInv
    <3>2. PICK k \in DOMAIN Logs : Logs[k] = r.key[1]
      BY <3>1 DEF LogSet, ToSet
    <3>3. k \in 1..Len(Logs) /\ Len(Logs) \in Nat
      BY LenProperties DEF MetricsAssumption
    <3>4. Path(k) = <<"plans", r.key[1]>> /\ k \in 1..(2 * Len(Logs))
      BY <3>2, <3>3 DEF Path
    <3>5. place[r.key[1]] = "plans" => k \in PathsUnder("plans")
      BY <3>4 DEF PathsUnder
    <3>6. place[r.key[1]] \in {"plans", "completed"}
      BY <3>1 DEF MetricsInv, MetricsTypeOK
    <3> QED
      BY <1>1, <1>2, <3>1, <3>4, <3>5, <3>6 DEF ListedRow, Path
  <2>2. CASE r.rel = "run" /\ r \in RunRows
    BY <1>1, <2>2 DEF ListedRow, RunRows, MonthSet
  <2> QED
    BY <1>4, <2>1, <2>2
<1>10. MissesNothing'
  BY <1>1, <1>2, <1>9 DEF MissesNothing
<1> QED
  BY <1>5, <1>6, <1>7, <1>8, <1>10 DEF MetricsInv

LEMMA ListCompletedKeeps ==
  ASSUME MetricsAssumption, MetricsInv, ListCompleted
  PROVE  MetricsInv'
<1>1. /\ UNCHANGED <<place, lines, runRecord, ledger, shard, tmp, attributes, due, fresh>>
      /\ mat.pc = "list" /\ mat' = [mat EXCEPT !.pc = "read", !.todo = mat.todo \cup PathsUnder("completed")]
  BY DEF ListCompleted, ThenCompleted, sources, files
<1>2. mat = [pc |-> mat.pc, todo |-> mat.todo, rows |-> mat.rows, names |-> mat.names, now |-> mat.now]
  BY DEF MetricsInv, MetricsTypeOK
<1>3. /\ mat'.pc = "read" /\ mat'.todo = mat.todo \cup PathsUnder("completed")
      /\ mat'.rows = mat.rows /\ mat'.names = mat.names /\ mat'.now = mat.now
      /\ mat' = [pc |-> mat'.pc, todo |-> mat'.todo, rows |-> mat'.rows, names |-> mat'.names, now |-> mat'.now]
  BY <1>1, <1>2
<1>4. Corpus' = Corpus
  BY <1>1, CorpusSame
<1>5. MetricsTypeOK'
  BY <1>1, <1>3 DEF MetricsInv, MetricsTypeOK, LogSet, MonthSet, PathsUnder
<1>6. WritesAsPlanned'
  BY <1>1, <1>3 DEF MetricsInv, WritesAsPlanned, Scans, Planned, ShardOf
<1>7. ComesFromALog'
  BY <1>1, <1>3, <1>4 DEF MetricsInv, ComesFromALog, LogNames, ShardOf
<1>8. LeftoversAreDue'
  BY <1>1, <1>3 DEF MetricsInv, LeftoversAreDue, LogNames, ShardOf
<1>9. ASSUME NEW r \in due, fresh = "so far" PROVE ToBeRead(r)'
  <2>1. ListedRow(r)
    BY <1>1, <1>9 DEF MetricsInv, MissesNothing
  <2>2. CASE r.rel = "run"
    BY <1>1, <2>1, <2>2 DEF ListedRow, ToBeRead, RunRows, MonthSet
  <2>3. CASE r.rel # "run"
    <3>1. r.key[1] \in LogSet
      BY <2>3, RowsOfTheCorpus DEF MetricsInv, ComesFromALog
    <3>2. place[r.key[1]] \in {"plans", "completed"}
      BY <3>1 DEF MetricsInv, MetricsTypeOK
    <3>3. CASE place[r.key[1]] = "completed"
      <4>1. PICK k \in DOMAIN Logs : Logs[k] = r.key[1]
        BY <3>1 DEF LogSet, ToSet
      <4>2. k \in 1..Len(Logs) /\ Len(Logs) \in Nat
        BY LenProperties DEF MetricsAssumption
      <4>3. Path(Len(Logs) + k) = <<"completed", r.key[1]>> /\ Len(Logs) + k \in 1..(2 * Len(Logs))
        BY <4>1, <4>2 DEF Path
      <4>4. Len(Logs) + k \in PathsUnder("completed")
        BY <3>3, <4>3 DEF PathsUnder
      <4> QED
        BY <1>1, <1>3, <2>3, <3>3, <4>3, <4>4 DEF ToBeRead, Path
    <3>4. CASE place[r.key[1]] = "plans"
      BY <1>1, <1>3, <2>1, <2>3, <3>4 DEF ListedRow, ToBeRead, Path
    <3> QED
      BY <3>2, <3>3, <3>4
  <2> QED
    BY <2>2, <2>3
<1>10. MissesNothing'
  BY <1>1, <1>3, <1>9 DEF MissesNothing, MetricsInv, Held, ShardOf
<1> QED
  BY <1>5, <1>6, <1>7, <1>8, <1>10 DEF MetricsInv

LEMMA ReadLogKeeps ==
  ASSUME MetricsAssumption, MetricsInv, ReadLog
  PROVE  MetricsInv'
<1> DEFINE i == First(mat.todo)
           l == Path(i)[2]
           here == place[l] = Path(i)[1]
<1>1. /\ UNCHANGED <<place, lines, runRecord, ledger, shard, tmp, attributes, due, fresh>>
      /\ mat.pc = "read" /\ mat.todo # {}
      /\ mat' = [mat EXCEPT !.todo = mat.todo \ {i}, !.rows = IF here THEN mat.rows \cup RowsOf(l) ELSE mat.rows]
  BY DEF ReadLog, sources, files
<1>2. mat = [pc |-> mat.pc, todo |-> mat.todo, rows |-> mat.rows, names |-> mat.names, now |-> mat.now]
  BY DEF MetricsInv, MetricsTypeOK
<1>3. i \in mat.todo /\ i \in 1..(2 * Len(Logs))
  <2>1. mat.todo \subseteq 1..(2 * Len(Logs))
    BY DEF MetricsInv, MetricsTypeOK
  <2> QED
    BY <1>1, <2>1, FirstIndex
<1>4. l \in LogSet
  <2>1. DOMAIN Logs = 1..Len(Logs) /\ Len(Logs) \in Nat
    BY LenProperties DEF MetricsAssumption
  <2>2. l = IF i <= Len(Logs) THEN Logs[i] ELSE Logs[i - Len(Logs)]
    BY DEF Path
  <2> QED
    BY <1>3, <2>1, <2>2 DEF LogSet, ToSet
<1> HIDE DEF i, l, here
<1>5. /\ mat'.pc = "read" /\ mat'.todo = mat.todo \ {i}
      /\ mat'.rows = IF here THEN mat.rows \cup RowsOf(l) ELSE mat.rows
      /\ mat'.names = mat.names /\ mat'.now = mat.now
      /\ mat' = [pc |-> mat'.pc, todo |-> mat'.todo, rows |-> mat'.rows, names |-> mat'.names, now |-> mat'.now]
  BY <1>1, <1>2
<1>6. Corpus' = Corpus /\ RowsOf(l) \subseteq Corpus /\ mat.rows \subseteq mat'.rows
  BY <1>1, <1>4, <1>5, CorpusSame DEF Corpus
<1>7. \A r \in mat'.rows : r \in mat.rows \/ r \in Corpus
  BY <1>5, <1>6
<1>8. MetricsTypeOK'
  <2>1. \A r \in mat'.rows : r.rel \in {"verdict", "rubric", "run"} /\ r.month \in MonthSet
    BY <1>7, RowsOfTheCorpus DEF MetricsInv, MetricsTypeOK
  <2> QED
    BY <1>1, <1>5, <2>1 DEF MetricsInv, MetricsTypeOK, LogSet, MonthSet
<1>9. WritesAsPlanned'
  <2>1. \A n \in Planned(mat.rows) : n \in Planned(mat'.rows)
    BY <1>6 DEF Planned
  <2> QED
    BY <1>1, <1>5, <2>1 DEF MetricsInv, WritesAsPlanned, Scans, Planned, ShardOf
<1>10. ComesFromALog'
  BY <1>1, <1>6, <1>7 DEF MetricsInv, ComesFromALog, LogNames, ShardOf
<1>11. LeftoversAreDue'
  BY <1>1, <1>5 DEF MetricsInv, LeftoversAreDue, LogNames, ShardOf
<1>12. ASSUME NEW r \in due, fresh = "so far" PROVE ToBeRead(r)'
  <2>1. ToBeRead(r)
    BY <1>1, <1>12 DEF MetricsInv, MissesNothing
  <2>2. CASE r.rel = "run"
    BY <1>1, <2>1, <2>2 DEF ToBeRead, RunRows, MonthSet
  <2>3. CASE r.rel # "run"
    <3>1. r \in RowsOf(r.key[1])
      BY <2>3, RowsOfTheCorpus DEF MetricsInv, ComesFromALog
    <3>2. Path(i) = <<place[r.key[1]], r.key[1]>> => r \in mat'.rows
      BY <1>5, <3>1 DEF l, here
    <3>3. \A j \in mat.todo : j # i => j \in mat'.todo
      BY <1>5
    <3> QED
      BY <1>1, <1>6, <2>1, <2>3, <3>2, <3>3 DEF ToBeRead, Path
  <2> QED
    BY <2>2, <2>3
<1>13. MissesNothing'
  BY <1>1, <1>5, <1>12 DEF MissesNothing, MetricsInv, Held, ShardOf
<1> QED
  BY <1>8, <1>9, <1>10, <1>11, <1>13 DEF MetricsInv

LEMMA ReadRecordKeeps ==
  ASSUME MetricsAssumption, MetricsInv, ReadRecord
  PROVE  MetricsInv'
<1> DEFINE rows == mat.rows \cup RunRows
<1>1. /\ UNCHANGED <<place, lines, runRecord, ledger, shard, tmp, attributes, due, fresh>>
      /\ mat.pc = "read" /\ mat.todo = {}
      /\ mat' = [mat EXCEPT !.pc = "scaffold", !.rows = rows, !.names = Planned(rows)]
  BY DEF ReadRecord, sources, files
<1>2. mat = [pc |-> mat.pc, todo |-> mat.todo, rows |-> mat.rows, names |-> mat.names, now |-> mat.now]
  BY DEF MetricsInv, MetricsTypeOK
<1>3. /\ mat'.pc = "scaffold" /\ mat'.todo = {} /\ mat'.rows = rows /\ mat'.names = Planned(rows) /\ mat'.now = mat.now
      /\ mat' = [pc |-> mat'.pc, todo |-> mat'.todo, rows |-> mat'.rows, names |-> mat'.names, now |-> mat'.now]
  BY <1>1, <1>2
<1>4. Corpus' = Corpus
  BY <1>1, CorpusSame
<1>5. \A r \in RunRows : r.rel = "run" /\ r.month \in MonthSet
  BY DEF RunRows
<1>6. MetricsTypeOK'
  <2>1. Planned(rows) \subseteq DOMAIN ShardNames
    BY DEF Planned
  <2>2. \A r \in rows : r.rel \in {"verdict", "rubric", "run"} /\ r.month \in MonthSet
    BY <1>5 DEF MetricsInv, MetricsTypeOK
  <2> QED
    BY <1>1, <1>3, <2>1, <2>2 DEF MetricsInv, MetricsTypeOK, LogSet, MonthSet
<1>7. WritesAsPlanned'
  <2>1. Planned(rows) # {}
    BY NamesOfShards DEF Planned
  <2> QED
    BY <1>1, <1>3, <2>1 DEF MetricsInv, WritesAsPlanned, Scans, Planned, ShardOf
<1>8. ComesFromALog'
  BY <1>1, <1>3, <1>4, <1>5 DEF MetricsInv, ComesFromALog, LogNames, ShardOf
<1>9. LeftoversAreDue'
  BY <1>1, <1>3 DEF MetricsInv, LeftoversAreDue, LogNames, ShardOf
<1>10. ASSUME NEW r \in due, fresh = "so far" PROVE r \in rows /\ Pending(r)'
  <2>1. ToBeRead(r)
    BY <1>1, <1>10 DEF MetricsInv, MissesNothing
  <2>2. r \in rows
    BY <1>1, <2>1 DEF ToBeRead
  <2>3. r.rel \in {"verdict", "rubric", "run"} /\ r.month \in MonthSet
    BY DEF MetricsInv, MetricsTypeOK
  <2>4. PICK k \in DOMAIN ShardNames : ShardNames[k] = ShardOf(r)
    BY <2>3, NamesOfShards DEF ShardOf
  <2>5. k \in Planned(rows)
    BY <2>2, <2>4 DEF Planned
  <2> QED
    BY <1>3, <2>2, <2>4, <2>5 DEF Pending, ShardOf
<1>11. MissesNothing'
  BY <1>1, <1>3, <1>10 DEF MissesNothing, MetricsInv, Held, ShardOf
<1> QED
  BY <1>6, <1>7, <1>8, <1>9, <1>11 DEF MetricsInv

LEMMA ScaffoldKeeps ==
  ASSUME MetricsAssumption, MetricsInv, Scaffold
  PROVE  MetricsInv'
<1>1. /\ UNCHANGED <<place, lines, runRecord, ledger, shard, tmp, due, fresh>>
      /\ mat.pc = "scaffold" /\ mat' = [mat EXCEPT !.pc = "write"] /\ attributes' = TRUE
  BY DEF Scaffold, sources
<1>2. mat = [pc |-> mat.pc, todo |-> mat.todo, rows |-> mat.rows, names |-> mat.names, now |-> mat.now]
  BY DEF MetricsInv, MetricsTypeOK
<1>3. /\ mat'.pc = "write" /\ mat'.todo = mat.todo /\ mat'.rows = mat.rows /\ mat'.names = mat.names /\ mat'.now = mat.now
      /\ mat' = [pc |-> mat'.pc, todo |-> mat'.todo, rows |-> mat'.rows, names |-> mat'.names, now |-> mat'.now]
  BY <1>1, <1>2
<1>4. Corpus' = Corpus
  BY <1>1, CorpusSame
<1>5. MetricsTypeOK'
  BY <1>1, <1>3 DEF MetricsInv, MetricsTypeOK, LogSet, MonthSet
<1>6. WritesAsPlanned'
  BY <1>1, <1>3 DEF MetricsInv, WritesAsPlanned, Scans, Planned, ShardOf
<1>7. ComesFromALog'
  BY <1>1, <1>3, <1>4 DEF MetricsInv, ComesFromALog, LogNames, ShardOf
<1>8. LeftoversAreDue'
  BY <1>1, <1>3 DEF MetricsInv, LeftoversAreDue, LogNames, ShardOf
<1>9. MissesNothing'
  BY <1>1, <1>3 DEF MissesNothing, MetricsInv, Held, Pending, ShardOf
<1> QED
  BY <1>5, <1>6, <1>7, <1>8, <1>9 DEF MetricsInv

-----------------------------------------------------------------------------
(* The steps that write the files, and the ends.                           *)
LEMMA WriteTmpKeeps ==
  ASSUME MetricsAssumption, MetricsInv, WriteTmp
  PROVE  MetricsInv'
<1> DEFINE n0 == Current
<1>1. /\ UNCHANGED <<place, lines, runRecord, ledger, shard, attributes, due, fresh>>
      /\ mat.pc = "write" /\ mat' = [mat EXCEPT !.pc = "rename"] /\ tmp' = [tmp EXCEPT ![n0] = {Content(n0)}]
  BY DEF WriteTmp, sources
<1>2. /\ mat = [pc |-> mat.pc, todo |-> mat.todo, rows |-> mat.rows, names |-> mat.names, now |-> mat.now]
      /\ DOMAIN tmp = ToSet(ShardNames)
  BY DEF MetricsInv, MetricsTypeOK
<1>3. /\ mat'.pc = "rename" /\ mat'.todo = mat.todo /\ mat'.rows = mat.rows /\ mat'.names = mat.names /\ mat'.now = mat.now
      /\ mat' = [pc |-> mat'.pc, todo |-> mat'.todo, rows |-> mat'.rows, names |-> mat'.names, now |-> mat'.now]
  BY <1>1, <1>2
<1>4. /\ Corpus' = Corpus /\ Current' = n0
      /\ \A n : Content(n)' = Content(n)
  BY <1>1, <1>3, CorpusSame, ContentSame DEF Current
<1>5. /\ n0 \in ToSet(ShardNames) /\ First(mat.names) \in mat.names
      /\ n0 \in LogNames => Content(n0) \subseteq Corpus /\ \E r \in Corpus : ShardOf(r) = n0
  BY <1>1, CurrentIsPlanned
<1>6. /\ DOMAIN tmp' = DOMAIN tmp /\ tmp'[n0] = {Content(n0)}
      /\ \A n \in ToSet(ShardNames) : n # n0 => tmp'[n] = tmp[n]
  BY <1>1, <1>2, <1>5
<1>7. First(mat.names) \in mat.names /\ ShardNames[First(mat.names)] = n0
  BY <1>5 DEF Current
<1> HIDE DEF n0
<1>8. MetricsTypeOK'
  BY <1>1, <1>3, <1>6 DEF MetricsInv, MetricsTypeOK, LogSet, MonthSet
<1>9. WritesAsPlanned'
  BY <1>1, <1>3, <1>4, <1>6 DEF MetricsInv, WritesAsPlanned, Scans, Planned, ShardOf
<1>10. ComesFromALog'
  <2>1. \A n \in LogNames : n \in ToSet(ShardNames)
    BY DEF LogNames
  <2>2. ASSUME NEW n \in LogNames
        PROVE  /\ UNION (shard[n] \cup tmp'[n]) \subseteq Corpus
               /\ tmp'[n] # {} => \E r \in Corpus : ShardOf(r) = n
    <3>1. CASE n = n0
      <4>1. UNION tmp'[n0] = Content(n0)
        BY <1>6
      <4>2. UNION shard[n] \subseteq Corpus
        BY DEF MetricsInv, ComesFromALog
      <4>3. Content(n0) \subseteq Corpus /\ \E r \in Corpus : ShardOf(r) = n
        BY <1>5, <3>1
      <4>4. UNION tmp'[n] \subseteq Corpus
        BY <3>1, <4>1, <4>3, Zenon
      <4> QED
        BY <4>2, <4>3, <4>4, Zenon
    <3>2. CASE n # n0
      BY <1>6, <2>1, <3>2 DEF MetricsInv, ComesFromALog
    <3> QED
      BY <3>1, <3>2
  <2> QED
    BY <1>1, <1>3, <1>4, <2>2 DEF MetricsInv, ComesFromALog, LogNames, ShardOf
<1>11. LeftoversAreDue'
  BY <1>1, <1>3, <1>4, <1>6 DEF MetricsInv, LeftoversAreDue, LogNames, ShardOf
<1>12. ASSUME NEW r \in due, fresh = "so far"
       PROVE  r \in mat.rows /\ (Pending(r) \/ Held(r)')
  <2>1. r \in mat.rows /\ (Pending(r) \/ Held(r))
    BY <1>1, <1>12 DEF MetricsInv, MissesNothing
  <2>2. ShardOf(r) = n0 => Pending(r)
    BY <1>7 DEF Pending
  <2>3. ShardOf(r) \in ToSet(ShardNames)
    <3>1. r.rel \in {"verdict", "rubric", "run"} /\ r.month \in MonthSet
      BY DEF MetricsInv, MetricsTypeOK
    <3>2. PICK k \in DOMAIN ShardNames : ShardNames[k] = <<r.rel, r.month>>
      BY <3>1, NamesOfShards
    <3> QED
      BY <3>2 DEF ShardOf, ToSet
  <2> QED
    BY <1>1, <1>6, <2>1, <2>2, <2>3 DEF Held, ShardOf
<1>13. MissesNothing'
  BY <1>1, <1>3, <1>12 DEF MissesNothing, Pending, ShardOf, MetricsInv, MetricsTypeOK
<1> QED
  BY <1>8, <1>9, <1>10, <1>11, <1>13 DEF MetricsInv

LEMMA EndKeeps ==
  ASSUME MetricsAssumption, MetricsInv, DryRunEnds \/ Killed
  PROVE  MetricsInv'
<1> DEFINE n0 == Current
<1>1. /\ UNCHANGED <<place, lines, runRecord, ledger, shard, attributes, due>>
      /\ mat' = [pc |-> "idle", todo |-> {}, rows |-> {}, names |-> {}, now |-> 0] /\ fresh' = "no"
      /\ \/ tmp' = tmp
         \/ mat.pc = "write" /\ \E part \in SUBSET Content(n0) : tmp' = [tmp EXCEPT ![n0] = {part}]
  <2>1. Idle = [pc |-> "idle", todo |-> {}, rows |-> {}, names |-> {}, now |-> 0]
    BY DEF Idle
  <2>2. CASE DryRunEnds
    BY <2>1, <2>2 DEF DryRunEnds, sources, files
  <2>3. CASE Killed
    BY <2>1, <2>3 DEF Killed, sources
  <2> QED
    BY <2>2, <2>3
<1>2. Corpus' = Corpus
  BY <1>1, CorpusSame
<1>3. /\ DOMAIN tmp' = DOMAIN tmp
      /\ \A n \in LogNames :
           /\ UNION (shard[n] \cup tmp'[n]) \subseteq Corpus
           /\ tmp'[n] # {} => \E r \in Corpus : ShardOf(r) = n
  <2>1. CASE tmp' = tmp
    BY <2>1 DEF MetricsInv, ComesFromALog
  <2>2. ASSUME mat.pc = "write", NEW part \in SUBSET Content(n0), tmp' = [tmp EXCEPT ![n0] = {part}]
        PROVE  <1>3
    <3>1. /\ n0 \in ToSet(ShardNames)
          /\ n0 \in LogNames => Content(n0) \subseteq Corpus /\ \E r \in Corpus : ShardOf(r) = n0
      BY <2>2, CurrentIsPlanned
    <3>2. DOMAIN tmp = ToSet(ShardNames)
      BY DEF MetricsInv, MetricsTypeOK
    <3> HIDE DEF n0
    <3>3. /\ DOMAIN tmp' = DOMAIN tmp /\ tmp'[n0] = {part}
          /\ \A n \in ToSet(ShardNames) : n # n0 => tmp'[n] = tmp[n]
      BY <2>2, <3>1, <3>2
    <3>4. ASSUME NEW n \in LogNames
          PROVE  /\ UNION (shard[n] \cup tmp'[n]) \subseteq Corpus
                 /\ tmp'[n] # {} => \E r \in Corpus : ShardOf(r) = n
      <4>1. CASE n = n0
        <5>1. UNION tmp'[n0] = part
          BY <3>3
        <5>2. UNION shard[n] \subseteq Corpus
          BY DEF MetricsInv, ComesFromALog
        <5>3. part \subseteq Corpus /\ \E r \in Corpus : ShardOf(r) = n
          BY <3>1, <4>1
        <5>4. UNION tmp'[n] \subseteq Corpus
          BY <4>1, <5>1, <5>3, Zenon
        <5> QED
          BY <5>2, <5>3, <5>4, Zenon
      <4>2. CASE n # n0
        BY <3>3, <4>2 DEF MetricsInv, ComesFromALog, LogNames
      <4> QED
        BY <4>1, <4>2
    <3> QED
      BY <3>3, <3>4
  <2> QED
    BY <1>1, <2>1, <2>2
<1>4. MetricsTypeOK'
  BY <1>1, <1>3 DEF MetricsInv, MetricsTypeOK, LogSet, MonthSet
<1>5. WritesAsPlanned'
  BY <1>1 DEF MetricsInv, WritesAsPlanned, Scans
<1>6. ComesFromALog'
  BY <1>1, <1>2, <1>3 DEF MetricsInv, ComesFromALog, LogNames, ShardOf
<1>7. LeftoversAreDue' /\ MissesNothing'
  BY <1>1 DEF LeftoversAreDue, MissesNothing
<1> QED
  BY <1>4, <1>5, <1>6, <1>7 DEF MetricsInv

LEMMA RenameKeeps ==
  ASSUME MetricsAssumption, MetricsInv, Rename
  PROVE  MetricsInv'
<1> DEFINE n0 == Current
           i == First(mat.names)
           last == mat.names = {i}
<1>1. /\ UNCHANGED <<place, lines, runRecord, ledger, attributes, due>>
      /\ mat.pc = "rename"
      /\ shard' = [shard EXCEPT ![n0] = tmp[n0]] /\ tmp' = [tmp EXCEPT ![n0] = {}]
      /\ mat' = IF last THEN [pc |-> "idle", todo |-> {}, rows |-> {}, names |-> {}, now |-> 0]
                ELSE [mat EXCEPT !.pc = "write", !.names = mat.names \ {i}]
      /\ fresh' = IF last /\ fresh = "so far" THEN "yes" ELSE fresh
  BY DEF Rename, sources, Idle
<1>2. /\ mat = [pc |-> mat.pc, todo |-> mat.todo, rows |-> mat.rows, names |-> mat.names, now |-> mat.now]
      /\ DOMAIN tmp = ToSet(ShardNames) /\ DOMAIN shard = ToSet(ShardNames)
  BY DEF MetricsInv, MetricsTypeOK
<1>3. /\ n0 \in ToSet(ShardNames) /\ i \in mat.names
      /\ n0 \in LogNames => Content(n0) \subseteq Corpus /\ \E r \in Corpus : ShardOf(r) = n0
  BY <1>1, CurrentIsPlanned
<1>4. ShardNames[i] = n0
  BY DEF Current
<1>5. tmp[n0] = {Content(n0)}
  BY <1>1 DEF MetricsInv, WritesAsPlanned
<1> HIDE DEF n0, i
<1>6. /\ DOMAIN tmp' = DOMAIN tmp /\ DOMAIN shard' = DOMAIN shard
      /\ tmp'[n0] = {} /\ shard'[n0] = {Content(n0)} /\ UNION shard'[n0] = Content(n0)
      /\ \A n \in ToSet(ShardNames) : n # n0 => tmp'[n] = tmp[n] /\ shard'[n] = shard[n]
  BY <1>1, <1>2, <1>3, <1>5
<1>7. Corpus' = Corpus
  BY <1>1, CorpusSame
<1>8. last => mat'.pc = "idle" /\ mat'.todo = {} /\ mat'.rows = {} /\ mat'.names = {} /\ mat'.now = 0
  BY <1>1
<1>9. ~last => /\ mat'.pc = "write" /\ mat'.todo = mat.todo /\ mat'.rows = mat.rows
               /\ mat'.names = mat.names \ {i} /\ mat'.names # {} /\ mat'.now = mat.now
  BY <1>1, <1>2, <1>3
<1>10. mat' = [pc |-> mat'.pc, todo |-> mat'.todo, rows |-> mat'.rows, names |-> mat'.names, now |-> mat'.now]
  BY <1>1, <1>2
<1> HIDE DEF last
<1>11. mat'.rows \subseteq mat.rows /\ mat'.names \subseteq mat.names /\ mat'.todo \subseteq mat.todo /\ mat'.pc \in {"idle", "write"}
  BY <1>8, <1>9
<1>12. MetricsTypeOK'
  <2>1. {DOMAIN shard', DOMAIN tmp'} = {ToSet(ShardNames)}
    BY <1>2, <1>6
  <2>2. /\ fresh' \in {"yes", "so far", "no"}
        /\ fresh' = "so far" => mat'.pc # "idle"
        /\ fresh' = "yes" => mat'.pc = "idle"
    BY <1>1, <1>8, <1>9 DEF MetricsInv, MetricsTypeOK
  <2>3. /\ mat'.todo \subseteq 1..(2 * Len(Logs)) /\ mat'.names \subseteq DOMAIN ShardNames
        /\ \A r \in mat'.rows \cup due' : r.rel \in {"verdict", "rubric", "run"} /\ r.month \in MonthSet
    BY <1>1, <1>11 DEF MetricsInv, MetricsTypeOK
  <2> QED
    BY <1>1, <1>10, <1>11, <2>1, <2>2, <2>3 DEF MetricsInv, MetricsTypeOK, LogSet, MonthSet
<1>13. WritesAsPlanned'
  <2>1. \A s, t \in Scans' : s.ts = t.ts => s = t
    <3>1. CASE n0 # ScanShard
      <4>1. Scans' = Scans
        <5>1. ScanShard \in ToSet(ShardNames)
          BY NamesOfShards DEF ToSet
        <5> QED
          BY <1>6, <3>1, <5>1 DEF Scans, ScanShard
      <4> QED
        BY <4>1 DEF MetricsInv, WritesAsPlanned
    <3>2. CASE n0 = ScanShard
      <4>1. Scans' = AllScans
        BY <1>6, <3>2 DEF Scans, Content, ScanShard
      <4>2. ThisScan.ts = mat.now
        BY DEF ThisScan
      <4>3. \A s, t \in Scans : s.ts = t.ts => s = t
        BY DEF MetricsInv, WritesAsPlanned
      <4> QED
        BY <4>1, <4>2, <4>3 DEF AllScans
    <3> QED
      BY <3>1, <3>2
  <2>2. mat'.names \subseteq Planned(mat'.rows)
    BY <1>8, <1>9 DEF MetricsInv, WritesAsPlanned
  <2> QED
    BY <1>8, <1>9, <1>11, <2>1, <2>2 DEF WritesAsPlanned, Planned, ShardOf
<1>14. ComesFromALog'
  <2>1. ASSUME NEW n \in LogNames
        PROVE  /\ UNION (shard'[n] \cup tmp'[n]) \subseteq Corpus
               /\ tmp'[n] # {} => \E r \in Corpus : ShardOf(r) = n
    <3>1. CASE n = n0
      <4>1. tmp'[n] = {} /\ UNION shard'[n] \subseteq Corpus
        BY <1>3, <1>6, <3>1
      <4> QED
        BY <4>1
    <3>2. CASE n # n0
      BY <1>6, <3>2 DEF MetricsInv, ComesFromALog, LogNames
    <3> QED
      BY <3>1, <3>2
  <2> QED
    BY <1>1, <1>7, <1>11, <2>1 DEF MetricsInv, ComesFromALog, LogNames, ShardOf
<1>15. LeftoversAreDue'
  <2>1. ASSUME NEW n \in LogNames, tmp'[n] # {}, fresh' # "no"
        PROVE  \E r \in due : ShardOf(r) = n
    <3>1. n # n0 /\ tmp[n] # {} /\ fresh # "no"
      BY <1>1, <1>6, <2>1 DEF LogNames
    <3> QED
      BY <3>1 DEF MetricsInv, LeftoversAreDue, n0
  <2> QED
    BY <1>1, <2>1 DEF LeftoversAreDue, LogNames, ShardOf
<1>16. ASSUME NEW r \in due, fresh = "so far"
       PROVE  r \in mat.rows /\ (Held(r)' \/ (~last /\ Pending(r)'))
  <2>1. r \in mat.rows /\ (Pending(r) \/ Held(r))
    BY <1>1, <1>16 DEF MetricsInv, MissesNothing
  <2>2. r.rel \in {"verdict", "rubric", "run"} /\ r.month \in MonthSet
    BY DEF MetricsInv, MetricsTypeOK
  <2>3. PICK k \in DOMAIN ShardNames : ShardNames[k] = <<r.rel, r.month>>
    BY <2>2, NamesOfShards
  <2>4. ShardOf(r) \in ToSet(ShardNames) /\ ShardOf(r) # ScanShard
    BY <2>2, <2>3 DEF ShardOf, ToSet, ScanShard
  <2>5. CASE ShardOf(r) = n0
    <3>1. r \in Content(n0)
      BY <2>1, <2>4, <2>5 DEF Content
    <3> QED
      BY <1>6, <2>1, <2>5, <3>1 DEF Held, ShardOf
  <2>6. CASE ShardOf(r) # n0
    <3>1. Held(r) => Held(r)'
      BY <1>6, <2>4, <2>6 DEF Held, ShardOf
    <3>2. ASSUME NEW j \in mat.names, ShardNames[j] = ShardOf(r)
          PROVE  ~last /\ Pending(r)'
      <4>1. j # i
        BY <1>4, <2>6, <3>2
      <4>2. ~last
        BY <4>1 DEF last
      <4>3. j \in mat'.names
        BY <1>9, <4>1, <4>2
      <4> QED
        BY <3>2, <4>2, <4>3 DEF Pending, ShardOf
    <3> QED
      BY <2>1, <3>1, <3>2 DEF Pending
  <2> QED
    BY <2>5, <2>6
<1>17. MissesNothing'
  <2>1. fresh # "yes"
    BY <1>1 DEF MetricsInv, MetricsTypeOK
  <2> QED
    BY <1>1, <1>8, <1>9, <1>16, <2>1 DEF MissesNothing
<1> QED
  BY <1>12, <1>13, <1>14, <1>15, <1>17 DEF MetricsInv

-----------------------------------------------------------------------------
LEMMA MetricsInvInit == MetricsAssumption /\ MetricsInit => MetricsInv
<1> SUFFICES ASSUME MetricsAssumption, MetricsInit PROVE MetricsInv
  OBVIOUS
<1>1. /\ mat = [pc |-> "idle", todo |-> {}, rows |-> {}, names |-> {}, now |-> 0]
      /\ due = {} /\ fresh = "no" /\ shard = [n \in ToSet(ShardNames) |-> {}] /\ tmp = shard
  BY DEF MetricsInit, Idle
<1>2. lines \in [LogSet -> Seq(MonthSet \cup {Bad})]
  BY DEF MetricsInit
<1>3. MetricsTypeOK
  <2>1. place \in [LogSet -> {"plans", "completed"}]
    BY DEF MetricsInit
  <2>2. {DOMAIN shard, DOMAIN tmp} = {ToSet(ShardNames)}
    BY <1>1
  <2>3. /\ mat.pc = "idle" /\ mat.todo = {} /\ mat.rows = {} /\ mat.names = {}
        /\ mat = [pc |-> mat.pc, todo |-> mat.todo, rows |-> mat.rows, names |-> mat.names, now |-> mat.now]
    BY <1>1
  <2>4. runRecord \in {Absent, Torn} \cup MonthSet /\ ledger = Absent /\ attributes = FALSE
    BY DEF MetricsInit
  <2> QED
    BY <1>1, <1>2, <2>1, <2>2, <2>3, <2>4 DEF MetricsTypeOK
<1>4. Scans = {}
  <2>1. ScanShard \in ToSet(ShardNames)
    BY NamesOfShards DEF ToSet
  <2> QED
    BY <1>1, <2>1 DEF Scans
<1>5. WritesAsPlanned
  BY <1>1, <1>4 DEF WritesAsPlanned
<1>6. ComesFromALog
  BY <1>1 DEF ComesFromALog, LogNames
<1> QED
  BY <1>1, <1>3, <1>5, <1>6 DEF MetricsInv, LeftoversAreDue, MissesNothing

LEMMA MetricsInvNext ==
  MetricsAssumption /\ MetricsInv /\ [MetricsNext]_metricsVars => MetricsInv'
<1> SUFFICES ASSUME MetricsAssumption, MetricsInv, [MetricsNext]_metricsVars PROVE MetricsInv'
  OBVIOUS
<1>1. ASSUME NEW m \in MonthSet, RecordRun(m) PROVE MetricsInv'
  <2>1. ledger' = ledger /\ Rewrite(m)
    BY <1>1 DEF RecordRun
  <2> QED
    BY <2>1, RewriteKeeps DEF MetricsInv, MetricsTypeOK
<1>2. CASE LedgerOpens
  BY <1>2, RewriteKeeps DEF LedgerOpens
<1>3. CASE LedgerFills
  BY <1>3, RewriteKeeps DEF LedgerFills, MetricsInv, MetricsTypeOK
<1>4. CASE UNCHANGED metricsVars
  <2>1. UNCHANGED <<place, lines, runRecord, ledger, shard, tmp, attributes, mat, clock, bounds, due, fresh>>
    BY <1>4 DEF metricsVars, sources, files
  <2>2. Corpus' = Corpus /\ \A n : Content(n)' = Content(n)
    BY <2>1, CorpusSame, ContentSame
  <2>3. MetricsTypeOK'
    BY <2>1 DEF MetricsInv, MetricsTypeOK, LogSet, MonthSet
  <2>4. WritesAsPlanned'
    BY <2>1, <2>2 DEF MetricsInv, WritesAsPlanned, Scans, Planned, ShardOf, Current
  <2>5. ComesFromALog'
    BY <2>1, <2>2 DEF MetricsInv, ComesFromALog, LogNames, ShardOf
  <2>6. LeftoversAreDue'
    BY <2>1 DEF MetricsInv, LeftoversAreDue, LogNames, ShardOf, Current
  <2>7. MissesNothing'
    BY <2>1 DEF MetricsInv, MissesNothing, ListedRow, ToBeRead, Held, Pending,
                RunRows, ShardOf, MonthSet, Path
  <2> QED
    BY <2>3, <2>4, <2>5, <2>6, <2>7 DEF MetricsInv
<1>5. CASE Rest
  BY <1>4, <1>5 DEF Rest
<1> QED
  BY <1>1, <1>2, <1>3, <1>4, <1>5, ReviewKeeps, ArchiveKeeps, StartKeeps, ListCompletedKeeps, ReadLogKeeps,
     ReadRecordKeeps, ScaffoldKeeps, WriteTmpKeeps, RenameKeeps, EndKeeps DEF MetricsNext

(***************************************************************************)
(* A materialization that ran to its end and missed no log leaves every    *)
(* row that was there when it started in exactly one file a query reads,   *)
(* and no row there that is not in a log: whatever earlier ones left.      *)
(***************************************************************************)
THEOREM EveryVerdictCountedOnce ==
  ASSUME MetricsAssumption PROVE MetricsSpec => []CountedOnce
<1>1. ASSUME MetricsInv PROVE CountedOnce
  <2> SUFFICES ASSUME fresh = "yes"
               PROVE  /\ \A r \in due : TimesRead(r) = 1
                      /\ \A n \in LogNames : tmp[n] = {} /\ UNION shard[n] \subseteq Corpus
    BY DEF CountedOnce, LogNames
  <2>1. \A r \in due : Held(r)
    BY <1>1 DEF MetricsInv, MissesNothing
  <2>2. \A r \in due : Reads(shard, r) /\ ~Reads(tmp, r)
    BY <2>1 DEF Held, Reads
  <2>3. mat.pc = "idle"
    BY <1>1 DEF MetricsInv, MetricsTypeOK
  <2>4. ASSUME NEW n \in LogNames PROVE tmp[n] = {} /\ UNION shard[n] \subseteq Corpus
    <3>1. tmp[n] # {} => \E r \in due : ShardOf(r) = n
      BY <1>1, <2>3 DEF MetricsInv, LeftoversAreDue
    <3>2. tmp[n] = {}
      BY <2>1, <3>1 DEF Held
    <3> QED
      BY <1>1, <3>2 DEF MetricsInv, ComesFromALog
  <2> QED
    BY <2>2, <2>4 DEF TimesRead
<1> QED
  BY MetricsInvInit, MetricsInvNext, <1>1, PTL DEF MetricsSpec

(***************************************************************************)
(* No scan that a materialization recorded is ever lost or changed, and    *)
(* none shares its second with another.                                    *)
(***************************************************************************)
THEOREM ScansAreAHistory ==
  ASSUME MetricsAssumption PROVE MetricsSpec => HistoryKept
<1> DEFINE ScansKept == /\ Scans \subseteq Scans'
                        /\ \A s, t \in Scans' : s.ts = t.ts => s = t
<1>1. MetricsInv' => \A s, t \in Scans' : s.ts = t.ts => s = t
  BY DEF MetricsInv, WritesAsPlanned
<1>2. ASSUME MetricsInv, Rename PROVE Scans \subseteq Scans'
  <2>1. ScanShard \in DOMAIN shard /\ tmp[Current] = {Content(Current)}
    <3>1. ScanShard \in ToSet(ShardNames)
      BY NamesOfShards DEF ToSet
    <3> QED
      BY <1>2, <3>1 DEF MetricsInv, MetricsTypeOK, WritesAsPlanned, Rename
  <2>2. shard' = [shard EXCEPT ![Current] = tmp[Current]]
    BY <1>2 DEF Rename
  <2>3. CASE Current = ScanShard
    <3>1. Scans' = AllScans
      BY <2>1, <2>2, <2>3 DEF Scans, Content, ScanShard
    <3> QED
      BY <3>1 DEF AllScans
  <2>4. CASE Current # ScanShard
    BY <2>1, <2>2, <2>4 DEF Scans, ScanShard
  <2> QED
    BY <2>3, <2>4
<1>3. [MetricsNext]_metricsVars => Rename \/ UNCHANGED shard
  BY DEF MetricsNext, metricsVars, files, Review, Archive, RecordRun, LedgerOpens,
         LedgerFills, Rewrite, Materialize, ListCompleted, ReadLog, ReadRecord,
         DryRunEnds, Scaffold, WriteTmp, Killed, Rest
<1>4. MetricsInv /\ MetricsInv' /\ [MetricsNext]_metricsVars => [ScansKept]_shard
  BY <1>1, <1>2, <1>3
<1>5. MetricsInv /\ [MetricsNext]_metricsVars => MetricsInv'
  BY MetricsInvNext
<1> QED
  BY MetricsInvInit, <1>4, <1>5, PTL DEF MetricsSpec, HistoryKept

-----------------------------------------------------------------------------
(* A finite set of numbers has a greatest: among its subsets without one   *)
(* there would be a smallest, and an element less would leave a smaller.   *)
LEMMA FiniteMaximum ==
  ASSUME NEW S, IsFiniteSet(S), S \subseteq Int, S # {}
  PROVE  \E m \in S : \A n \in S : n <= m
<1> DEFINE Has(U) == \E m \in U : \A n \in U : n <= m
           T == {U \in SUBSET S : U # {} /\ ~Has(U)}
           F == FiniteSubsetsOf(S)
<1>1. F = SUBSET S /\ IsWellFoundedOn(StrictSubsetOrdering(S), F)
  BY FS_FiniteSubsetsOfFinite, FS_StrictSubsetOrderingWellFounded
<1>2. ASSUME T # {} PROVE FALSE
  <2>1. T \subseteq F
    BY <1>1
  <2> HIDE DEF F, T
  <2>2. PICK U \in T : \A V \in T : ~(<<V, U>> \in StrictSubsetOrdering(S))
    BY <1>1, <1>2, <2>1, WFMin, Zenon
  <2>3. U \subseteq S /\ U # {} /\ ~Has(U)
    BY DEF T
  <2>4. PICK x \in U : TRUE
    BY <2>3
  <2> DEFINE V == U \ {x}
  <2>5. V \in SUBSET S /\ <<V, U>> \in StrictSubsetOrdering(S)
    <3>1. V \in SUBSET S /\ U \in SUBSET S /\ V \subseteq U /\ V # U
      BY <2>3, <2>4
    <3> HIDE DEF V
    <3> QED
      BY <3>1 DEF StrictSubsetOrdering
  <2>6. V = {} \/ Has(V)
    BY <2>2, <2>5 DEF T
  <2>7. CASE V = {}
    <3>1. \A n \in U : n = x
      BY <2>7
    <3> QED
      BY <2>3, <2>4, <3>1
  <2>8. CASE Has(V)
    <3>1. PICK m \in V : \A n \in V : n <= m
      BY <2>8
    <3>2. m \in Int /\ x \in Int /\ \A n \in U : n \in Int /\ (n = x \/ n <= m)
      BY <2>3, <2>4, <3>1
    <3>3. x <= m \/ m <= x
      BY <3>2
    <3> QED
      BY <2>3, <2>4, <3>1, <3>2, <3>3
  <2> QED
    BY <2>6, <2>7, <2>8
<1> QED
  BY <1>2

(* Seconds begin before the times in them, and follow one another.         *)
LEMMA Seconds ==
  ASSUME RecordAssumption
  PROVE  /\ \A t \in Nat : CommitTime(t) \in Nat /\ CommitTime(t) <= t
         /\ \A t, u \in Nat : t <= u => CommitTime(t) <= CommitTime(u)
<1>1. Second \in Nat /\ Second > 0
  BY DEF RecordAssumption
<1>2. ASSUME NEW t \in Nat
      PROVE  /\ t \div Second \in Nat
             /\ (t \div Second) * Second <= t /\ t < (t \div Second) * Second + Second
  BY <1>1
<1>3. ASSUME NEW t \in Nat, NEW u \in Nat, t <= u
      PROVE  (t \div Second) * Second <= (u \div Second) * Second
  <2>1. t \div Second \in Nat /\ u \div Second \in Nat
    BY <1>2
  <2>2. ASSUME (u \div Second) < (t \div Second) PROVE FALSE
    <3>1. (u \div Second) + 1 <= t \div Second
      BY <2>1, <2>2
    <3>2. ((u \div Second) + 1) * Second <= (t \div Second) * Second
      BY <1>1, <2>1, <3>1
    <3> QED
      BY <1>1, <1>2, <1>3, <2>1, <3>2
  <2>3. t \div Second <= u \div Second
    BY <2>1, <2>2
  <2> QED
    BY <1>1, <2>1, <2>3
<1>4. \A t \in Nat : (t \div Second) * Second \in Nat
  BY <1>1, <1>2
<1> QED
  BY <1>2, <1>3, <1>4 DEF CommitTime

-----------------------------------------------------------------------------
(* What the citation and the sources come to depends on nothing else.      *)
LEMMA CitationSame ==
  ASSUME field' = field
  PROVE  /\ Usable(field)' <=> Usable(field)
         /\ \A x : Listed(x, field)' <=> Listed(x, field)
         /\ \A x : OutcomeOf(x, field)' = OutcomeOf(x, field)
BY Zenon

(* A record that is chosen is one that was written.                        *)
LEMMA ChosenIsWritten ==
  ASSUME RecordAssumption, RecordInv, Chosen.sound
  PROVE  Written(Chosen.slot) /\ Chosen.at \in Nat
<1>1. Existing # {}
  BY DEF Chosen, NoRecord
<1>2. Existing \subseteq Slots /\ Slots \subseteq Nat /\ IsFiniteSet(Slots)
  BY DEF Existing, RecordAssumption
<1>3. PICK m \in Existing : \A n \in Existing : n <= m
  <2>1. IsFiniteSet(Existing) /\ Existing \subseteq Int
    <3>1. Existing \in SUBSET Slots
      BY <1>2
    <3>2. IsFiniteSet(Existing)
      BY <1>2, <3>1, FS_Subset, Zenon
    <3> QED
      BY <1>2, <3>2
  <2> QED
    BY <1>1, <2>1, FiniteMaximum, Zenon
<1>4. Highest \in Existing
  BY <1>3 DEF Highest
<1>5. PICK n \in Existing : Chosen = record[n]
  BY <1>1, <1>4 DEF Chosen
<1>6. n \in Slots /\ record[n].run # 0
  BY DEF Existing
<1> QED
  BY <1>5, <1>6 DEF RecordInv, RecordsHaveFiles

-----------------------------------------------------------------------------
(* The world around a case that is not done.                               *)
LEMMA WorldGoesOn ==
  ASSUME RecordAssumption, RecordInv, Going,
         now' \in Nat, now <= now', runs' \in Nat, runner' \in Slots \cup {Null},
         source' \in [Sources -> [holds : Nat, head : Nat, written : Nat, committed : Nat, by : {"edit", "back"}]],
         DOMAIN junit' = Range(Artefact), DOMAIN record' = Slots,
         RecordsHaveFiles', CommitsComeAfter', ToldOrWillBe'
  PROVE  RecordInv'
<1>1. UNCHANGED <<field, git, stage, rec, found, result, unasked, asked, stale>> /\ stage # "done"
  BY DEF Going, case
<1>2. RecordTypeOK'
  BY <1>1 DEF RecordInv, RecordTypeOK
<1>3. ResolvesWhatIsListed'
  BY <1>1, CitationSame DEF RecordInv, ResolvesWhatIsListed
<1>4. StaleIsTold'
  BY <1>1 DEF RecordInv, RecordTypeOK, StaleIsTold
<1> QED
  BY <1>2, <1>3, <1>4 DEF RecordInv

LEMMA FilesStay ==
  ASSUME RecordInv, Going, UNCHANGED <<junit, record, runner, runs>>
  PROVE  RecordsHaveFiles'
<1>1. UNCHANGED <<stage, rec>>
  BY DEF Going, case
<1> QED
  BY <1>1 DEF RecordInv, RecordsHaveFiles, Written, NoRecord

LEMMA SourcesStay ==
  ASSUME RecordAssumption, RecordInv, source' = source, now' \in Nat, now <= now'
  PROVE  CommitsComeAfter'
<1>1. now \in Nat /\ source \in [Sources -> [holds : Nat, head : Nat, written : Nat, committed : Nat, by : {"edit", "back"}]]
  BY DEF RecordInv, RecordTypeOK
<1>2. CommitTime(now) <= CommitTime(now') /\ CommitTime(now) \in Nat /\ CommitTime(now') \in Nat
  BY <1>1, Seconds
<1>3. ASSUME NEW s \in Sources
      PROVE  /\ source[s].head <= source[s].holds /\ source[s].holds <= now' /\ source[s].written <= now'
             /\ CommitTime(source[s].head) <= source[s].committed
             /\ source[s].committed <= CommitTime(now')
             /\ source[s].by = "edit" =>
                  source[s].holds # source[s].head \/ source[s].committed >= CommitTime(source[s].written)
  <2>1. /\ source[s].head \in Nat /\ source[s].holds \in Nat /\ source[s].written \in Nat
        /\ source[s].committed \in Nat
    BY <1>1
  <2>2. /\ source[s].head <= source[s].holds /\ source[s].holds <= now /\ source[s].written <= now
        /\ CommitTime(source[s].head) <= source[s].committed /\ source[s].committed <= CommitTime(now)
        /\ source[s].by = "edit" =>
             source[s].holds # source[s].head \/ source[s].committed >= CommitTime(source[s].written)
    BY DEF RecordInv, CommitsComeAfter, Dirty
  <2> QED
    BY <1>1, <1>2, <2>1, <2>2
<1> QED
  BY <1>3 DEF CommitsComeAfter, Dirty, CommitTime

(* What is still owed stays owed while no source changes.                  *)
LEMMA DebtsStay ==
  ASSUME RecordInv, Going, UNCHANGED <<source, owed, between>>
  PROVE  ToldOrWillBe'
<1>1. UNCHANGED <<stage, rec, unasked, asked, stale>>
  BY DEF Going, case
<1> QED
  BY <1>1 DEF RecordInv, ToldOrWillBe, Dirty

LEMMA SourceMoves ==
  ASSUME RecordAssumption, RecordInv, NEW s \in Sources,
         Edit(s) \/ Commit(s) \/ TakeBack(s)
  PROVE  RecordInv'
<1> DEFINE Source == [holds : Nat, head : Nat, written : Nat, committed : Nat, by : {"edit", "back"}]
<1>1. /\ now \in Nat /\ source \in [Sources -> Source] /\ Going
      /\ UNCHANGED <<now, runs, junit, record, runner, stage, rec, unasked, asked, stale>>
  BY DEF RecordInv, RecordTypeOK, Edit, Commit, TakeBack, Going, case
<1>2. /\ CommitTime(now) \in Nat /\ CommitTime(now) <= now
      /\ \A t \in Nat : t <= now => CommitTime(t) <= CommitTime(now)
      /\ \A t \in Nat : CommitTime(t) \in Nat
  BY <1>1, Seconds
<1>3. /\ source[s] \in Source /\ source[s].holds <= now /\ source[s].written <= now
      /\ source[s].head <= source[s].holds
      /\ source[s].holds \in Nat /\ source[s].head \in Nat /\ source[s].written \in Nat /\ source[s].committed \in Nat
      /\ source[s].committed >= CommitTime(source[s].head) /\ source[s].committed <= CommitTime(now)
  BY <1>1 DEF RecordInv, CommitsComeAfter
<1>4. PICK new \in Source :
        /\ source' = [source EXCEPT ![s] = new]
        /\ new.head <= new.holds /\ new.holds <= now /\ new.written <= now
        /\ CommitTime(new.head) <= new.committed /\ new.committed <= CommitTime(now)
        /\ new.by = "edit" => new.holds # new.head \/ new.committed >= CommitTime(new.written)
  <2>1. CASE Edit(s)
    <3> DEFINE new == [source[s] EXCEPT !.holds = now, !.written = now, !.by = "edit"]
    <3>1. source' = [source EXCEPT ![s] = new] /\ new \in Source
      BY <1>1, <1>3, <2>1 DEF Edit
    <3>2. new.holds = now /\ new.written = now /\ new.committed = source[s].committed /\ new.head = source[s].head
      BY <1>3
    <3> HIDE DEF new
    <3>3. new.head <= new.holds /\ new.holds <= now /\ new.written <= now
      BY <1>1, <1>3, <3>2
    <3>4. CommitTime(new.head) <= new.committed /\ new.committed <= CommitTime(now)
      BY <1>2, <1>3, <3>2
    <3>5. new.by = "edit" => new.holds # new.head \/ new.committed >= CommitTime(new.written)
      BY <1>1, <1>2, <1>3, <3>2, <3>4
    <3> QED
      BY <3>1, <3>3, <3>4, <3>5
  <2>2. CASE Commit(s)
    <3> DEFINE new == [source[s] EXCEPT !.head = source[s].holds, !.committed = CommitTime(now)]
    <3>1. source' = [source EXCEPT ![s] = new] /\ new \in Source
      BY <1>1, <1>2, <1>3, <2>2 DEF Commit
    <3>2. /\ new.holds = source[s].holds /\ new.head = source[s].holds /\ new.written = source[s].written
          /\ new.committed = CommitTime(now)
      BY <1>3
    <3> HIDE DEF new
    <3>3. new.head <= new.holds /\ new.holds <= now /\ new.written <= now
      BY <1>1, <1>3, <3>2
    <3>4. CommitTime(new.head) <= new.committed /\ new.committed <= CommitTime(now)
      <4>1. CommitTime(source[s].holds) <= CommitTime(now)
        BY <1>2, <1>3
      <4> QED
        BY <1>2, <3>2, <4>1
    <3>5. new.by = "edit" => new.holds # new.head \/ new.committed >= CommitTime(new.written)
      BY <1>1, <1>2, <1>3, <3>2, <3>4
    <3> QED
      BY <3>1, <3>3, <3>4, <3>5
  <2>3. CASE TakeBack(s)
    <3> DEFINE new == [source[s] EXCEPT !.holds = source[s].head, !.written = now, !.by = "back"]
    <3>1. source' = [source EXCEPT ![s] = new] /\ new \in Source
      BY <1>1, <1>3, <2>3 DEF TakeBack
    <3>2. /\ new.holds = source[s].head /\ new.head = source[s].head /\ new.written = now
          /\ new.committed = source[s].committed /\ new.by = "back"
      BY <1>3
    <3> HIDE DEF new
    <3>3. new.head <= new.holds /\ new.holds <= now /\ new.written <= now
      BY <1>1, <1>3, <3>2
    <3>4. CommitTime(new.head) <= new.committed /\ new.committed <= CommitTime(now)
      BY <1>2, <1>3, <3>2
    <3>5. new.by = "edit" => new.holds # new.head \/ new.committed >= CommitTime(new.written)
      BY <1>1, <1>2, <1>3, <3>2, <3>4
    <3> QED
      BY <3>1, <3>3, <3>4, <3>5
  <2> QED
    BY <2>1, <2>2, <2>3
<1>5. source' \in [Sources -> Source] /\ source'[s] = new /\ \A t \in Sources : t # s => source'[t] = source[t]
  BY <1>1, <1>4
<1>6. CommitsComeAfter'
  <2>1. ASSUME NEW t \in Sources, t # s
        PROVE  /\ source'[t].head <= source'[t].holds /\ source'[t].holds <= now /\ source'[t].written <= now
               /\ CommitTime(source'[t].head) <= source'[t].committed
               /\ source'[t].committed <= CommitTime(now)
               /\ source'[t].by = "edit" =>
                    source'[t].holds # source'[t].head \/ source'[t].committed >= CommitTime(source'[t].written)
    BY <1>5, <2>1 DEF RecordInv, CommitsComeAfter, Dirty
  <2> QED
    BY <1>1, <1>4, <1>5, <2>1 DEF CommitsComeAfter, Dirty, CommitTime
<1>7. rec.at \in Nat \/ stage \in {"find", "done"}
  BY DEF RecordInv, RecordsHaveFiles
<1>8. /\ owed' \subseteq owed /\ between \subseteq between'
      /\ Edit(s) => owed' = owed /\ between' = between
      /\ Commit(s) => owed' = owed /\ (s \in between' \/ ~(stage = "status" /\ asked = s))
      /\ TakeBack(s) => between' = between /\ (s \in unasked => s \notin owed')
      /\ \A t : t # s => (t \in owed' <=> t \in owed) /\ (t \in between' <=> t \in between)
  <2>1. CASE Edit(s)
    BY <2>1 DEF Edit, Commit, TakeBack
  <2>2. CASE Commit(s)
    BY <2>2 DEF Edit, Commit, TakeBack
  <2>3. CASE TakeBack(s)
    BY <2>3 DEF Edit, Commit, TakeBack
  <2> QED
    BY <2>1, <2>2, <2>3
<1>9. ToldOrWillBe'
  <2>1. owed' \ between' \subseteq unasked' \cup stale'
    BY <1>1, <1>8 DEF RecordInv, ToldOrWillBe
  <2>2. SUFFICES ASSUME NEW t \in (owed' \ between') \cap unasked
                 PROVE  /\ stage \in {"sources", "status", "mtime"}
                        /\ stage = "mtime" /\ t = asked => source'[t].written > rec.at
                        /\ ~(stage = "mtime" /\ t = asked) =>
                             \/ source'[t].holds # source'[t].head /\ CommitTime(source'[t].written) > rec.at
                             \/ source'[t].committed > rec.at /\ ~(stage = "status" /\ t = asked)
    BY <1>1, <2>1 DEF ToldOrWillBe, Dirty, CommitTime
  <2>3. /\ t \in (owed \ between) \cap unasked /\ t \in Sources
        /\ stage \in {"sources", "status", "mtime"} /\ rec.at \in Nat
        /\ stage = "mtime" /\ t = asked => source[t].written > rec.at
        /\ ~(stage = "mtime" /\ t = asked) =>
             \/ source[t].holds # source[t].head /\ CommitTime(source[t].written) > rec.at
             \/ source[t].committed > rec.at /\ ~(stage = "status" /\ t = asked)
    BY <1>7, <1>8 DEF RecordInv, RecordTypeOK, ToldOrWillBe, Dirty
  <2>8. rec.at \in Nat /\ CommitTime(now) \in Nat
    BY <1>2, <2>3
  <2>4. CASE t # s
    BY <1>5, <2>3, <2>4
  <2>5. CASE t = s /\ Edit(s)
    <3>1. source' = [source EXCEPT ![s].holds = now, ![s].written = now, ![s].by = "edit"]
      BY <2>5 DEF Edit
    <3>2. /\ source'[t].holds = now /\ source'[t].written = now
          /\ source'[t].head = source[t].head /\ source'[t].committed = source[t].committed
      BY <1>1, <1>3, <2>5, <3>1
    <3>3. CommitTime(source[t].written) <= CommitTime(now) /\ CommitTime(source[t].written) \in Nat
      BY <1>2, <1>3, <2>5
    <3>4. stage = "mtime" /\ t = asked => now > rec.at
      BY <1>1, <1>3, <2>3, <2>5
    <3>5. CASE source[t].committed > rec.at /\ ~(stage = "status" /\ t = asked)
      BY <2>3, <3>2, <3>4, <3>5
    <3>6. CASE source[t].holds # source[t].head /\ CommitTime(source[t].written) > rec.at
      <4>1. now > source[t].head
        BY <1>1, <1>3, <2>5, <3>6
      <4>2. CommitTime(now) > rec.at
        BY <2>8, <3>3, <3>6
      <4> QED
        BY <1>1, <2>3, <3>2, <3>4, <4>1, <4>2
    <3> QED
      BY <2>3, <3>2, <3>4, <3>5, <3>6
  <2>6. CASE t = s /\ Commit(s)
    <3>1. source' = [source EXCEPT ![s].head = source[s].holds, ![s].committed = CommitTime(now)] /\ Dirty(s)
      BY <2>6 DEF Commit
    <3>2. /\ source'[t].written = source[t].written /\ source'[t].committed = CommitTime(now)
      BY <1>1, <1>3, <2>6, <3>1
    <3>3. CommitTime(source[t].written) <= CommitTime(now) /\ CommitTime(source[t].written) \in Nat
      BY <1>2, <1>3, <2>6
    <3>4. ~(stage = "mtime" /\ t = asked) => CommitTime(now) > rec.at
      <4>1. source[t].committed > rec.at => CommitTime(now) > rec.at
        <5>1. source[t].committed \in Nat /\ source[t].committed <= CommitTime(now)
          BY <1>3, <2>6
        <5> QED
          BY <2>8, <5>1
      <4>2. CommitTime(source[t].written) > rec.at => CommitTime(now) > rec.at
        BY <2>8, <3>3
      <4> QED
        BY <2>3, <4>1, <4>2
    <3> QED
      BY <1>8, <2>3, <2>6, <3>2, <3>4
  <2>7. CASE t = s /\ TakeBack(s)
    BY <1>8, <2>7
  <2> QED
    BY <2>4, <2>5, <2>6, <2>7
<1>10. RecordsHaveFiles'
  BY <1>1, FilesStay
<1> QED
  <2>1. runs' \in Nat /\ runner' \in Slots \cup {Null} /\ DOMAIN junit' = Range(Artefact) /\ DOMAIN record' = Slots
    BY <1>1 DEF RecordInv, RecordTypeOK
  <2> QED
    BY <1>1, <1>5, <1>6, <1>9, <1>10, <2>1, WorldGoesOn

LEMMA TestRunnerMoves ==
  ASSUME RecordAssumption, RecordInv,
         \/ Tick \/ WriteRecord \/ GiveUp
         \/ \E n \in Slots, x \in Outputs : RunTests(n, x)
  PROVE  RecordInv'
<1>1. /\ now \in Nat /\ runs \in Nat /\ DOMAIN junit = Range(Artefact) /\ DOMAIN record = Slots
      /\ source \in [Sources -> [holds : Nat, head : Nat, written : Nat, committed : Nat, by : {"edit", "back"}]]
      /\ runner \in Slots \cup {Null} /\ DOMAIN Artefact = Slots
  BY DEF RecordInv, RecordTypeOK, RecordAssumption
<1>2. CASE Tick \/ GiveUp
  <2>1. Going /\ UNCHANGED <<source, runs, junit, record, owed, between>> /\ now' \in Nat /\ now <= now' /\ runner' \in {runner, Null}
    BY <1>1, <1>2 DEF Tick, GiveUp
  <2>2. RecordsHaveFiles'
    <3>1. UNCHANGED <<stage, rec>>
      BY <2>1 DEF Going, case
    <3> QED
      BY <2>1, <3>1 DEF RecordInv, RecordsHaveFiles, Written, NoRecord
  <2>3. CommitsComeAfter'
    BY <2>1, SourcesStay
  <2> QED
    BY <1>1, <2>1, <2>2, <2>3, DebtsStay, WorldGoesOn
<1>3. ASSUME NEW n \in Slots, NEW x \in Outputs, RunTests(n, x) PROVE RecordInv'
  <2>1. /\ Going /\ UNCHANGED <<now, source, record, owed, between>> /\ runs' = runs + 1 /\ runner' = n
        /\ junit' = [junit EXCEPT ![Artefact[n]] = [run |-> runs + 1, at |-> now, output |-> x]]
    BY <1>3 DEF RunTests
  <2>2. UNCHANGED <<stage, rec>>
    BY <2>1 DEF Going, case
  <2>3. \A m \in Slots : Artefact[m] \in DOMAIN junit
    BY <1>1 DEF Range
  <2>4. \A m : Written(m) => Written(m)'
    BY <2>1, <2>3 DEF Written
  <2>5. Written(n)'
    BY <2>1, <2>3 DEF Written
  <2>6. RecordsHaveFiles'
    BY <1>1, <2>1, <2>2, <2>4, <2>5 DEF RecordInv, RecordsHaveFiles, NoRecord
  <2>7. CommitsComeAfter'
    BY <1>1, <2>1, SourcesStay
  <2> QED
    BY <1>1, <2>1, <2>6, <2>7, DebtsStay, WorldGoesOn
<1>4. CASE WriteRecord
  <2> DEFINE new == [slot |-> runner, run |-> runs, at |-> now,
                     sound |-> junit[Artefact[runner]].output.tests # {},
                     saw |-> [s \in Sources |-> source[s].holds]]
  <2>1. /\ Going /\ UNCHANGED <<now, source, runs, junit, owed, between>> /\ runner # Null /\ runner' = Null
        /\ record' = [record EXCEPT ![runner] = new]
    BY <1>4 DEF WriteRecord
  <2>2. UNCHANGED <<stage, rec>>
    BY <2>1 DEF Going, case
  <2>3. Written(runner) /\ runs # 0 /\ runner \in Slots
    BY <1>1, <2>1 DEF RecordInv, RecordsHaveFiles
  <2>4. \A m : Written(m)' <=> Written(m)
    BY <2>1 DEF Written
  <2>5. new.slot = runner /\ new.run = runs /\ new.at = now
    OBVIOUS
  <2> HIDE DEF new
  <2>6. /\ DOMAIN record' = Slots /\ record'[runner] = new
        /\ \A n \in Slots : n # runner => record'[n] = record[n]
    BY <1>1, <2>1, <2>3
  <2>7. ASSUME NEW n \in Slots
        PROVE  /\ record'[n].run # 0 => Written(record'[n].slot) /\ record'[n].at \in Nat
               /\ record'[n].run = 0 => record'[n] = NoRecord
    <3>1. CASE n = runner
      BY <1>1, <2>3, <2>4, <2>5, <2>6, <3>1
    <3>2. CASE n # runner
      BY <2>4, <2>6, <3>2 DEF RecordInv, RecordsHaveFiles
    <3> QED
      BY <3>1, <3>2
  <2>8. RecordsHaveFiles'
    BY <2>1, <2>2, <2>4, <2>7 DEF RecordInv, RecordsHaveFiles, NoRecord
  <2>9. CommitsComeAfter'
    BY <1>1, <2>1, SourcesStay
  <2> QED
    BY <1>1, <2>1, <2>6, <2>8, <2>9, DebtsStay, WorldGoesOn
<1> QED
  BY <1>2, <1>3, <1>4

-----------------------------------------------------------------------------
(* The steps of the case, and its end.                                     *)
LEMMA CaseStep ==
  ASSUME RecordInv, UNCHANGED <<now, source, runs, junit, record, runner, field, git>>,
         stage' \in {"find", "dated", "read", "sources", "status", "mtime", "done"},
         unasked' \subseteq Sources, asked' \in Sources \cup {Null}, stale' \subseteq Sources,
         stage' \in {"status", "mtime"} => asked' \in unasked',
         result'.outcome \in {"unresolved", "pass", "fail", "blocked"},
         stage' # "done" => result'.outcome = "unresolved",
         stage' \notin {"find", "done"} => Written(rec'.slot) /\ rec'.at \in Nat,
         ResolvesWhatIsListed', ToldOrWillBe', StaleIsTold'
  PROVE  RecordInv'
<1>1. RecordTypeOK'
  BY DEF RecordInv, RecordTypeOK
<1>2. RecordsHaveFiles'
  BY DEF RecordInv, RecordsHaveFiles, Written, NoRecord
<1>3. CommitsComeAfter'
  BY DEF RecordInv, CommitsComeAfter, Dirty, CommitTime
<1> QED
  BY <1>1, <1>2, <1>3 DEF RecordInv

(* What is being compared is left alone.                                   *)
LEMMA NotComparing ==
  ASSUME RecordInv, stage \in {"find", "dated", "read"} \/ (stage = "sources" /\ unasked = {}),
         UNCHANGED <<source, unasked, asked, stale, owed, between>>
  PROVE  /\ owed \ between \subseteq stale /\ ToldOrWillBe'
         /\ unasked' \subseteq Sources /\ asked' \in Sources \cup {Null} /\ stale' \subseteq Sources
<1>1. (owed \ between) \cap unasked = {} /\ owed \ between \subseteq unasked \cup stale
  BY DEF RecordInv, ToldOrWillBe
<1> QED
  BY <1>1 DEF RecordInv, RecordTypeOK, ToldOrWillBe

LEMMA CaseUnresolved ==
  ASSUME RecordInv, NotResolved, stage \in {"find", "dated", "read"}, UNCHANGED comparing
  PROVE  RecordInv'
<1>1. /\ UNCHANGED <<now, source, runs, junit, record, runner, field, git, unasked, asked, stale, owed, between>>
      /\ stage' = "done" /\ result'.outcome = "unresolved"
  BY DEF NotResolved, GoOn, world, Unresolved, comparing
<1>2. ResolvesWhatIsListed' /\ StaleIsTold'
  BY <1>1 DEF ResolvesWhatIsListed, StaleIsTold
<1> QED
  BY <1>1, <1>2, NotComparing, CaseStep

LEMMA CaseLooks ==
  ASSUME RecordAssumption, RecordInv, FindRecord \/ StatArtefact, ~NotResolved
  PROVE  RecordInv'
<1>1. stage # "done" => result.outcome = "unresolved"
  BY DEF RecordInv, RecordTypeOK
<1>2. /\ UNCHANGED <<now, source, runs, junit, record, runner, field, git, result, unasked, asked, stale, owed, between>>
      /\ stage # "done" /\ result.outcome = "unresolved"
      /\ \/ stage' = "dated" /\ stage = "find" /\ rec' = Chosen /\ Chosen.sound /\ Usable(field)
         \/ stage' = "read" /\ stage = "dated" /\ rec' = rec
  <2>1. CASE FindRecord
    BY <1>1, <2>1 DEF FindRecord, GoOn, world, comparing
  <2>2. CASE StatArtefact
    BY <1>1, <2>2 DEF StatArtefact, GoOn, world, comparing
  <2> QED
    BY <2>1, <2>2
<1>3. Written(rec'.slot) /\ rec'.at \in Nat
  BY <1>2, ChosenIsWritten DEF RecordInv, RecordsHaveFiles
<1>4. ResolvesWhatIsListed' /\ StaleIsTold'
  BY <1>2, CitationSame DEF RecordInv, ResolvesWhatIsListed, StaleIsTold
<1> QED
  BY <1>2, <1>3, <1>4, NotComparing, CaseStep

(* The sources a case compares are sources.                                *)
LEMMA ImportsAreSources ==
  ASSUME RecordAssumption, RecordInv
  PROVE  StaticImports(field) \subseteq Sources
<1>1. \A p \in Paths(field) : p \in Files \cup {Null}
  <2>1. field \in Seq(Unit)
    BY DEF RecordInv, RecordTypeOK, RecordAssumption
  <2>2. \A i \in DOMAIN field : field[i] \in Unit
    BY <2>1
  <2> QED
    BY <2>2 DEF Paths, Units, Range, Unit
<1>2. \A u \in Units(field) : Extracted(u)
  BY DEF RecordInv, RecordTypeOK, RecordAssumption, Units
<1>3. \A p \in Paths(field) : p # Null
  BY <1>2 DEF Paths, Extracted
<1> QED
  BY <1>1, <1>3 DEF RecordAssumption, StaticImports

(* A source edited after the record is uncommitted, or was committed after *)
(* it: git will name it either way.                                        *)
LEMMA CaseBeginsToCompare ==
  ASSUME RecordAssumption, RecordInv, ReadArtefact, ~NotResolved
  PROVE  RecordInv'
<1>1. /\ UNCHANGED <<now, source, runs, junit, record, runner, field, git, rec, result, asked, stale, between>>
      /\ stage = "read" /\ stage' = "sources"
      /\ found' = junit[Artefact[rec.slot]] /\ Listed(found'.output, field)
      /\ unasked' \subseteq StaticImports(field) /\ owed' = {s \in unasked' : Outdated(s)}
  BY DEF ReadArtefact, GoOn, world
<1>2. /\ result.outcome = "unresolved" /\ Written(rec.slot) /\ rec.at \in Nat /\ Usable(field)
      /\ asked \in Sources \cup {Null} /\ stale \subseteq Sources
  BY <1>1 DEF RecordInv, RecordTypeOK, RecordsHaveFiles, ResolvesWhatIsListed
<1>3. ResolvesWhatIsListed' /\ StaleIsTold'
  BY <1>1, <1>2, CitationSame DEF ResolvesWhatIsListed, Written, StaleIsTold
<1>4. unasked' \subseteq Sources
  BY <1>1, ImportsAreSources
<1>5. ASSUME NEW s \in owed'
      PROVE  (Dirty(s) /\ CommitTime(source[s].written) > rec.at) \/ source[s].committed > rec.at
  <2>1. s \in Sources /\ source[s].by = "edit" /\ CommitTime(source[s].written) > rec.at
    BY <1>1, <1>4 DEF Outdated
  <2>2. /\ source[s].written \in Nat /\ source[s].committed \in Nat
        /\ Dirty(s) \/ source[s].committed >= CommitTime(source[s].written)
    BY <2>1 DEF RecordInv, RecordTypeOK, CommitsComeAfter
  <2>3. CommitTime(source[s].written) \in Nat
    BY <2>2, Seconds
  <2> QED
    BY <1>2, <2>1, <2>2, <2>3
<1>6. ToldOrWillBe'
  BY <1>1, <1>5 DEF ToldOrWillBe, Dirty, CommitTime
<1> QED
  BY <1>1, <1>2, <1>3, <1>4, <1>6, CaseStep

(* A question to git, and what its answer is.                              *)
LEMMA CaseCompares ==
  ASSUME RecordAssumption, RecordInv,
         AskStatus \/ StatSource \/ \E s \in Sources : AskLog(s)
  PROVE  RecordInv'
<1>1. /\ UNCHANGED <<now, source, runs, junit, record, runner, field, git, rec, found, result, owed, between>>
      /\ stage \in {"sources", "status", "mtime"}
  BY DEF AskLog, LogSays, AskStatus, StatSource, Asking, Answered, GoOn, world
<1>2. /\ result.outcome = "unresolved" /\ Written(rec.slot) /\ rec.at \in Nat
      /\ unasked \subseteq Sources /\ stale \subseteq Sources
      /\ stage \in {"status", "mtime"} => asked \in unasked
      /\ source \in [Sources -> [holds : Nat, head : Nat, written : Nat, committed : Nat, by : {"edit", "back"}]]
  BY <1>1 DEF RecordInv, RecordTypeOK, RecordsHaveFiles
<1>3. PICK s \in unasked :
        /\ stage \in {"status", "mtime"} => s = asked
        /\ \/ /\ stage = "sources" /\ stage' = "status" /\ asked' = s /\ ~(source[s].committed > rec.at)
              /\ UNCHANGED <<unasked, stale>>
           \/ /\ stage = "status" /\ stage' = "mtime" /\ asked = s /\ asked' = s /\ Dirty(s)
              /\ UNCHANGED <<unasked, stale>>
           \/ /\ stage' = "sources" /\ asked' = Null /\ unasked' = unasked \ {s}
              /\ stale \subseteq stale' /\ stale' \subseteq stale \cup {s}
              /\ \/ s \in stale'
                 \/ stage = "status" /\ asked = s /\ ~Dirty(s)
                 \/ stage = "mtime" /\ asked = s /\ ~(source[s].written > rec.at)
  <2>1. CASE \E s \in Sources : AskLog(s)
    BY <2>1 DEF AskLog, LogSays, Asking, Answered, GoOn
  <2>2. CASE AskStatus
    BY <1>2, <2>2 DEF AskStatus, Asking, Answered, GoOn
  <2>3. CASE StatSource
    BY <1>2, <2>3 DEF StatSource, Answered, GoOn
  <2> QED
    BY <2>1, <2>2, <2>3
<1>4. /\ stage' \in {"sources", "status", "mtime"} /\ unasked' \subseteq Sources /\ stale' \subseteq Sources
      /\ asked' \in Sources \cup {Null} /\ (stage' \in {"status", "mtime"} => asked' \in unasked')
  BY <1>2, <1>3
<1>5. ResolvesWhatIsListed' /\ StaleIsTold'
  BY <1>1, <1>2, <1>4, CitationSame DEF RecordInv, ResolvesWhatIsListed, StaleIsTold
<1>6. ASSUME NEW t \in owed \ between, t \in unasked
      PROVE  /\ stage = "mtime" /\ t = asked => source[t].written > rec.at
             /\ ~(stage = "mtime" /\ t = asked) =>
                  \/ Dirty(t) /\ CommitTime(source[t].written) > rec.at
                  \/ source[t].committed > rec.at /\ ~(stage = "status" /\ t = asked)
  BY <1>6 DEF RecordInv, ToldOrWillBe
<1>7. \A t \in Sources : /\ source[t].written \in Nat /\ CommitTime(source[t].written) \in Nat
                          /\ CommitTime(source[t].written) <= source[t].written
  BY <1>2, Seconds
<1>8. owed \ between \subseteq unasked' \cup stale'
  <2>1. owed \ between \subseteq unasked \cup stale
    BY DEF RecordInv, ToldOrWillBe
  <2>2. s \in owed \ between => s \in unasked' \cup stale'
    BY <1>3, <1>6
  <2> QED
    BY <1>3, <2>1, <2>2
<1>9. ASSUME NEW t \in owed \ between, t \in unasked'
      PROVE  /\ stage' = "mtime" /\ t = asked' => source[t].written > rec.at
             /\ ~(stage' = "mtime" /\ t = asked') =>
                  \/ Dirty(t) /\ CommitTime(source[t].written) > rec.at
                  \/ source[t].committed > rec.at /\ ~(stage' = "status" /\ t = asked')
  <2>1. t \in unasked /\ t \in Sources
    BY <1>2, <1>3, <1>9
  <2>2. CASE t = s
    BY <1>2, <1>3, <1>6, <1>7, <1>9, <2>1, <2>2
  <2>3. CASE t # s
    <3>1. ~(stage \in {"status", "mtime"} /\ t = asked)
      BY <1>3, <2>3
    <3>2. ~(stage' \in {"status", "mtime"} /\ t = asked')
      BY <1>3, <2>3
    <3> QED
      BY <1>6, <2>1, <3>1, <3>2
  <2> QED
    BY <2>2, <2>3
<1>10. ToldOrWillBe'
  BY <1>1, <1>4, <1>8, <1>9 DEF ToldOrWillBe, Dirty, CommitTime
<1> QED
  BY <1>1, <1>2, <1>4, <1>5, <1>10, CaseStep

LEMMA CaseConcludes ==
  ASSUME RecordAssumption, RecordInv, Conclude
  PROVE  RecordInv'
<1>1. /\ UNCHANGED <<now, source, runs, junit, record, runner, field, git, rec, found, unasked, asked, stale, owed, between>>
      /\ stage = "sources" /\ unasked = {} /\ stage' = "done"
      /\ \/ result'.outcome = OutcomeOf(found.output, field) /\ result'.stale = stale
         \/ result'.outcome = "blocked"
  BY DEF Conclude, GoOn, world, comparing
<1>2. OutcomeOf(found.output, field) \in {"pass", "fail"}
  BY DEF OutcomeOf
<1>3. ResolvesWhatIsListed'
  BY <1>1, CitationSame DEF RecordInv, ResolvesWhatIsListed
<1>4. StaleIsTold'
  BY <1>1, NotComparing DEF StaleIsTold
<1> QED
  BY <1>1, <1>2, <1>3, <1>4, NotComparing, CaseStep

-----------------------------------------------------------------------------
LEMMA RecordInvInit == RecordAssumption /\ RecordInit => RecordInv
<1> SUFFICES ASSUME RecordAssumption, RecordInit PROVE RecordInv
  OBVIOUS
<1>1. /\ now = 1 /\ runs = 0 /\ runner = Null /\ field \in Fields /\ git \in BOOLEAN /\ stage = "find"
      /\ result.outcome = "unresolved" /\ DOMAIN junit = Range(Artefact)
      /\ record = [n \in Slots |-> NoRecord] /\ NoRecord.run = 0
      /\ source = [s \in Sources |-> [holds |-> 0, head |-> 0, written |-> 0, committed |-> 0, by |-> "edit"]]
      /\ unasked = {} /\ asked = Null /\ stale = {} /\ owed = {}
  BY DEF RecordInit, Unresolved, NoRecord
<1>2. RecordTypeOK
  BY <1>1 DEF RecordTypeOK
<1>3. RecordsHaveFiles
  BY <1>1 DEF RecordsHaveFiles
<1>4. CommitsComeAfter
  <2>1. CommitTime(0) \in Nat /\ CommitTime(0) <= 0 /\ CommitTime(now) \in Nat
    BY <1>1, Seconds
  <2>2. ASSUME NEW s \in Sources
        PROVE  /\ source[s].holds = 0 /\ source[s].head = 0 /\ source[s].written = 0
               /\ source[s].committed = 0
    BY <1>1
  <2> QED
    BY <1>1, <2>1, <2>2 DEF CommitsComeAfter
<1> QED
  BY <1>1, <1>2, <1>3, <1>4 DEF RecordInv, ResolvesWhatIsListed, ToldOrWillBe, StaleIsTold

LEMMA RecordInvNext ==
  ASSUME RecordAssumption, RecordInv, [RecordNext]_recordVars
  PROVE  RecordInv'
<1>1. CASE \E s \in Sources : Edit(s) \/ Commit(s) \/ TakeBack(s)
  BY <1>1, SourceMoves
<1>2. CASE \/ Tick \/ WriteRecord \/ GiveUp
           \/ \E n \in Slots, x \in Outputs : RunTests(n, x)
  BY <1>2, TestRunnerMoves
<1>3. CASE FindRecord \/ StatArtefact \/ ReadArtefact
  <2>1. CASE NotResolved
    <3>1. stage \in {"find", "dated", "read"} /\ UNCHANGED comparing
      BY <1>3, <2>1 DEF FindRecord, StatArtefact, ReadArtefact, NotResolved, GoOn
    <3> QED
      BY <2>1, <3>1, CaseUnresolved
  <2>2. CASE ~NotResolved
    BY <1>3, <2>2, CaseLooks, CaseBeginsToCompare
  <2> QED
    BY <2>1, <2>2
<1>4. CASE Conclude \/ AskStatus \/ StatSource \/ \E s \in Sources : AskLog(s)
  BY <1>4, CaseConcludes, CaseCompares
<1>5. CASE UNCHANGED recordVars
  <2>1. /\ UNCHANGED <<now, source, runs, junit, record, runner, field, git, stage, rec, found, result>>
        /\ UNCHANGED <<unasked, asked, stale, owed, between>>
    BY <1>5 DEF recordVars, world, case, comparing
  <2>2. ResolvesWhatIsListed'
    BY <2>1, CitationSame DEF RecordInv, ResolvesWhatIsListed
  <2>3. ToldOrWillBe' /\ StaleIsTold'
    BY <2>1 DEF RecordInv, ToldOrWillBe, StaleIsTold, Dirty, CommitTime
  <2> QED
    BY <2>1, <2>2, <2>3, CaseStep DEF RecordInv, RecordTypeOK, RecordsHaveFiles
<1> QED
  BY <1>1, <1>2, <1>3, <1>4, <1>5 DEF RecordNext, Resolved

(* A resolved case names every imported source that stood changed by an    *)
(* edit when it began to compare them (recordStaleSources), wherever the   *)
(* commits, edits and attempts fall among the calls: but for an edit taken *)
(* back, and one committed between the two questions git is asked.         *)
THEOREM ChangedSourcesAreNamed ==
  ASSUME RecordAssumption
  PROVE  RecordSpec => []StaleIsTold
<1>1. RecordInit => RecordInv
  BY RecordInvInit
<1>2. RecordInv /\ [RecordNext]_recordVars => RecordInv'
  BY RecordInvNext
<1>3. RecordInv => StaleIsTold
  BY DEF RecordInv
<1> QED
  BY <1>1, <1>2, <1>3, PTL DEF RecordSpec

-----------------------------------------------------------------------------
(* The units of a citation: what each names is among the cited files, and  *)
(* a titled one among the titles to look for.                              *)
LEMMA UnitsOfACitation ==
  ASSUME RecordAssumption, field \in Fields, Usable(field),
         NEW i \in DOMAIN field, field[i].kind # "prose"
  PROVE  LET path == IF field[i].path # Null THEN field[i].path ELSE Owner(field, i) IN
         /\ path \in Paths(field)
         /\ field[i].segs # {} =>
              [path |-> path, segs |-> field[i].segs] \in Mine(field, path)
         /\ Mine(field, path) # {} =>
              \E j \in DOMAIN field : field[j].segs # {} /\ Owner(field, j) = path
<1> DEFINE path == IF field[i].path # Null THEN field[i].path ELSE Owner(field, i)
<1>1. /\ field \in Seq(Unit) /\ \A j \in DOMAIN field : field[j] \in Units(field)
      /\ \A u \in Units(field) : Extracted(u)
  BY DEF RecordAssumption, Units, Range
<1>2. \A j \in DOMAIN field : field[j] \in Unit /\ Extracted(field[j])
  BY <1>1
<1>3. field[i].kind \in {"span", "titled", "plain", "call"}
  BY <1>1, <1>2 DEF Usable, Refused, Unit, Kinds
<1>4. ASSUME field[i].kind \in {"span", "plain"}
      PROVE  /\ path \in Paths(field)
             /\ field[i].segs # {} => [path |-> path, segs |-> field[i].segs] \in Mine(field, path)
  <2>1. field[i].path # Null /\ field[i].segs = {} /\ path = field[i].path
    BY <1>2, <1>4 DEF Extracted
  <2>2. path \in Paths(field)
    BY <1>1, <1>4, <2>1 DEF Paths
  <2> QED
    BY <2>1, <2>2, Zenon
<1>5. ASSUME field[i].kind \in {"titled", "call"}
      PROVE  /\ path \in Paths(field)
             /\ field[i].segs # {} => [path |-> path, segs |-> field[i].segs] \in Mine(field, path)
  <2>1. field[i].segs # {} /\ path = Owner(field, i)
    BY <1>2, <1>5 DEF Extracted, Owner
  <2>2. [path |-> path, segs |-> field[i].segs] \in Items(field)
    BY <1>5, <2>1 DEF Items
  <2>3. path \in Paths(field)
    BY <2>2 DEF Usable
  <2>4. [path |-> path, segs |-> field[i].segs] \in Mine(field, path)
    <3> HIDE DEF path
    <3> QED
      BY <2>2 DEF Mine
  <2> QED
    BY <2>3, <2>4, Zenon
<1>6. ASSUME Mine(field, path) # {}
      PROVE  \E j \in DOMAIN field : field[j].segs # {} /\ Owner(field, j) = path
  <2> HIDE DEF path
  <2>1. PICK it \in Items(field) : it.path = path
    BY <1>6 DEF Mine
  <2>2. PICK j \in DOMAIN field : /\ field[j].kind \in {"titled", "call"}
                                  /\ it = [path |-> Owner(field, j), segs |-> field[j].segs]
    BY DEF Items
  <2> QED
    BY <1>2, <2>1, <2>2 DEF Extracted
<1>7. path \in Paths(field) /\ (field[i].segs # {} =>
        [path |-> path, segs |-> field[i].segs] \in Mine(field, path))
  BY <1>3, <1>4, <1>5
<1> QED
  BY <1>6, <1>7

(* A cited file that ran at one place: the place.                          *)
LEMMA TheOnePlace ==
  ASSUME RecordAssumption, NEW x \in Outputs, NEW p, OnePlace(x, p)
  PROVE  \E l \in Locs : /\ p \in Cites[l]
                         /\ \A t \in x.tests : t.loc \in Locs \cup {Null}
                         /\ \A t \in x.tests : t.loc \in {l, Null} \/ p \notin Cites[t.loc]
                         /\ Hits(x, p) = {t \in x.tests : t.loc = l}
<1> DEFINE S == {t.loc : t \in Hits(x, p)}
<1>1. \A t \in x.tests : t.loc \in Locs \cup {Null}
  BY DEF RecordAssumption, Output, Test
<1>2. S \subseteq Locs /\ \A l \in S : p \in Cites[l]
  BY <1>1 DEF Hits
<1>3. Cardinality(S) = 1
  BY DEF OnePlace
<1>4. IsFiniteSet(S)
  BY <1>2, FS_Subset, Zenon DEF RecordAssumption
<1> HIDE DEF S
<1>5. PICK l \in S : TRUE
  BY <1>3, <1>4, FS_EmptySet
<1>6. S = {l}
  <2>1. Cardinality(S \ {l}) = 0 /\ IsFiniteSet(S \ {l})
    BY <1>3, <1>4, FS_RemoveElement
  <2>2. S \ {l} = {}
    BY <2>1, FS_EmptySet
  <2> QED
    BY <2>2
<1>7. \A t \in x.tests : t.loc # Null /\ p \in Cites[t.loc] => t.loc = l
  BY <1>6 DEF S, Hits
<1>8. l \in Locs /\ p \in Cites[l] /\ l # Null
  BY <1>2, <1>5 DEF RecordAssumption
<1>9. Hits(x, p) = {t \in x.tests : t.loc = l}
  BY <1>7, <1>8 DEF Hits
<1> QED
  BY <1>1, <1>7, <1>8, <1>9

(* A passed case rests on every test its citation means: each file it      *)
(* mentions in any form ran at one place only, and so did the tests of     *)
(* each title after it; none of them failed (resolveFromRecord with        *)
(* extractTestPaths and extractCitedTitles).                               *)
THEOREM CitedTestsRanAndPassed ==
  ASSUME RecordAssumption
  PROVE  RecordSpec => []PassRestsOnAllCited
<1>1. RecordInit => RecordInv
  BY RecordInvInit
<1>2. RecordInv /\ [RecordNext]_recordVars => RecordInv'
  BY RecordInvNext
<1>3. RecordInv => PassRestsOnAllCited
  <2> SUFFICES ASSUME RecordInv, result.outcome = "pass",
                      NEW i \in DOMAIN field, field[i].kind # "prose"
               PROVE  \E l \in Locs :
        LET path  == IF field[i].path # Null THEN field[i].path ELSE Owner(field, i)
            meant == {t \in found.output.tests : t.loc = l /\ ~t.skipped
                        /\ field[i].segs \subseteq t.titles \cup t.suites}
            titled == \E j \in DOMAIN field : field[j].segs # {} /\ Owner(field, j) = path
        IN  /\ path \in Cites[l] /\ meant # {}
            /\ \A t \in found.output.tests : t.loc \in {l, Null} \/ path \notin Cites[t.loc]
            /\ (field[i].segs # {} /\ found.output.chained) \/ ~titled
                 => \A t \in meant : ~t.failed
    BY DEF PassRestsOnAllCited
  <2> DEFINE path == IF field[i].path # Null THEN field[i].path ELSE Owner(field, i)
             x == found.output
             it == [path |-> path, segs |-> field[i].segs]
             meant(l) == {t \in x.tests : t.loc = l /\ ~t.skipped
                            /\ field[i].segs \subseteq t.titles \cup t.suites}
             titled == \E j \in DOMAIN field : field[j].segs # {} /\ Owner(field, j) = path
  <2>1. field \in Fields /\ stage = "done"
    BY DEF RecordInv, RecordTypeOK
  <2>2. Usable(field) /\ x \in Outputs /\ Listed(x, field) /\ Failing(x, field) = {}
    BY <2>1 DEF RecordInv, ResolvesWhatIsListed, OutcomeOf
  <2>3. /\ path \in Paths(field)
        /\ field[i].segs # {} => it \in Mine(field, path)
        /\ Mine(field, path) # {} => titled
    BY <2>1, <2>2, UnitsOfACitation
  <2>4. OnePlace(x, path) /\ Ran(x, path) # {}
    BY <2>2, <2>3 DEF Listed
  <2>5. PICK l \in Locs : /\ path \in Cites[l]
                          /\ \A t \in x.tests : t.loc \in {l, Null} \/ path \notin Cites[t.loc]
                          /\ Hits(x, path) = {t \in x.tests : t.loc = l}
    BY <2>2, <2>4, TheOnePlace
  <2>6. it.path = path /\ it.segs = field[i].segs
    OBVIOUS
  <2> HIDE DEF path, x, it, titled
  <2>7. Ran(x, path) = {t \in x.tests : t.loc = l /\ ~t.skipped}
    BY <2>5 DEF Ran
  <2>8. Matched(x, it) \subseteq meant(l)
    BY <2>6, <2>7 DEF Matched, Names
  <2>9. x.chained => Matched(x, it) = meant(l)
    BY <2>6, <2>7 DEF Matched, Names
  <2>10. meant(l) # {}
    <3>1. CASE field[i].segs = {}
      BY <2>4, <2>7, <3>1
    <3>2. CASE field[i].segs # {}
      BY <2>2, <2>3, <2>8, <3>2 DEF Listed, Mine
    <3> QED
      BY <3>1, <3>2
  <2>11. (field[i].segs # {} /\ x.chained) \/ ~titled => meant(l) \subseteq Scoped(x, field, path)
    <3>1. CASE field[i].segs # {} /\ x.chained
      BY <2>3, <2>9, <3>1 DEF Scoped
    <3>2. CASE ~titled
      BY <2>3, <2>7, <3>2 DEF Scoped
    <3> QED
      BY <3>1, <3>2
  <2>12. \A t \in Scoped(x, field, path) : ~t.failed
    BY <2>2, <2>3 DEF Failing
  <2> QED
    BY <2>5, <2>10, <2>11, <2>12 DEF path, x, titled
<1> QED
  BY <1>1, <1>2, <1>3, PTL DEF RecordSpec

=============================================================================
