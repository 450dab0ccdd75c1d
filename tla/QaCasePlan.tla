----------------------------- MODULE QaCasePlan -----------------------------
(***************************************************************************)
(* What a browser case is handed: the kinds of its steps, the steps the    *)
(* grounding left out, the click or fill it stops at (0 for none), and     *)
(* whether overlay handlers are declared.  The driver relies on it, the    *)
(* validation and the grounding of the plan establish it.                  *)
(***************************************************************************)
EXTENDS Integers

CONSTANT N   \* the number of plan steps of the case

Steps == 1..N

(***************************************************************************)
(* The kinds the loop tells apart.  "click" stands for click and fill,     *)
(* "submit" for a click with effect validation, "assert" for the expect_*  *)
(* actions and query.                                                      *)
(***************************************************************************)
Acting     == {"click", "submit"}
Continuing == {"assert", "judge"}
Kinds      == Acting \cup Continuing \cup {"goto", "read_message"}

(***************************************************************************)
(* What groundLocators can mark: any assertion or judge step, and at most  *)
(* one click or fill, after which it walks no further.                     *)
(***************************************************************************)
GroundedPlan(p) ==
  /\ p.truncateAt # 0 => /\ p.truncateAt \in p.gaps
                         /\ p.kind[p.truncateAt] \in Acting
  /\ \A g \in p.gaps : \/ g = p.truncateAt
                       \/ /\ p.kind[g] \in Continuing
                          /\ p.truncateAt # 0 => g < p.truncateAt

(***************************************************************************)
(* What validateSteps accepts: an expectation, and no message read before  *)
(* the case touched the page.                                              *)
(***************************************************************************)
ValidPlan(p) ==
  /\ \E i \in Steps : p.kind[i] \in Continuing
  /\ \A i \in Steps : p.kind[i] = "read_message" =>
       \E j \in 1..(i - 1) : p.kind[j] \in Acting \cup {"goto"}

PlanShape == [kind : [Steps -> Kinds], gaps : SUBSET Steps,
              truncateAt : 0..N, handlers : BOOLEAN]

Plans == {p \in PlanShape : GroundedPlan(p) /\ ValidPlan(p)}
=============================================================================
