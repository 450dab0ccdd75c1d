----------------------------- MODULE MCQaJudge -----------------------------
(* QaJudge with two cases: one with two judge steps, and one with a single *)
(* judge step and a remainder for a person.  For the totals there are five *)
(* cases without a judge step beside them: one a record decides, one the   *)
(* plan declines and counts, one it declines and does not, one whose entry *)
(* is not valid, and one that stopped at a step without an element.        *)
EXTENDS QaSummary

CONSTANTS s1, s2, s3, c1, c2, o1, o2, o3, o4, o5

MCCaseOf == [s \in {s1, s2, s3} |-> IF s = s3 THEN c2 ELSE c1]

PlanOf(class, code, objective, steps) ==
  [class |-> class, code |-> code, objective |-> objective, steps |-> steps]
EndOf(outcome, code, ran, left) == [outcome |-> outcome, code |-> code, ran |-> ran, left |-> left]

MCPlan == [c \in {c1, c2, o1, o2, o3, o4, o5} |->
  CASE c = c1 -> PlanOf("automatable", "none", 5, 4)
    [] c = c2 -> PlanOf("needs-a-new-driver", "none", Undeclared, 2)
    [] c = o1 -> PlanOf("automatable", "none", 2, 2)
    [] c = o2 -> PlanOf("human-by-nature", "HUMAN_SIGNOFF", 3, 0)
    [] c = o3 -> PlanOf("blocked-by-product", "PRODUCT_DEFECT", Undeclared, 0)
    [] c = o4 -> PlanOf("automatable", "none", 1, 2)
    [] c = o5 -> PlanOf("automatable", "none", 4, 3)]

MCSettled == [c \in {c1, c2, o1, o2, o3, o4, o5} |->
  CASE c = c1 -> EndOf("fail", "none", 2, 2)
    [] c = c2 -> EndOf("blocked", "FAILED_LOGIN_UNKNOWN", 0, 0)
    [] c = o1 -> EndOf("pass", "AUTOMATED_EVIDENCE", 0, 0)
    [] c = o2 -> EndOf("needs-human", "HUMAN_SIGNOFF", 0, 0)
    [] c = o3 -> EndOf("blocked", "PRODUCT_DEFECT", 0, 0)
    [] c = o4 -> EndOf("needs-human", "PLAN_ENTRY_INVALID", 0, 0)
    [] c = o5 -> EndOf("needs-human", "STEP_UNGROUNDED", 1, 2)]
=============================================================================
