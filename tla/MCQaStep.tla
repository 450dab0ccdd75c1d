------------------------------ MODULE MCQaStep ------------------------------
(* QaStep with two elements, two groups, and the pages that tell its        *)
(* branches apart.                                                          *)
EXTENDS QaStep, TLC

CONSTANTS s1, s2

E(in, looks, meets, able) ==
  [in |-> in, looks |-> looks, answers |-> TRUE, meets |-> meets, able |-> able]
Body   == [holds |-> {s1, s2, None}, looks |-> "shown"]
Around(groups, looks) == [holds |-> groups, looks |-> looks]

\* Each group has an anchor beside it, and a box around the two.
P(look1, look2, e1, e2) ==
  LET ancestors == (IF look1 = "gone" THEN <<>> ELSE <<Around({s1}, look1)>>)
                   \o (IF look2 = "gone" THEN <<>> ELSE <<Around({s2}, look2)>>)
  IN  [scopes |-> [s \in {s1, s2} |-> IF s = s1 THEN look1 ELSE look2],
       anchors |-> Len(ancestors), anchorLooks |-> IF look1 = "gone" THEN "shown" ELSE look1,
       chain |-> IF ancestors = <<>> THEN <<>> ELSE <<Body>> \o ancestors,
       labels |-> IF e2 = None THEN 1 ELSE 2, targets |-> <<e1, e2>>]

\* The first group as an application may draw it again: in a box that holds
\* the second as well, and of its own only an element of another name.
OtherName == [E(s1, "shown", "no", "fine") EXCEPT !.answers = FALSE]
Redrawn ==
  [P("shown", "gone", OtherName, E(s2, "shown", "yes", "fine")) EXCEPT
     !.chain = <<Body, Around({s1, s2}, "shown"), Around({s1}, "shown")>>]

MCPages == {
  Redrawn,
  P("gone", "gone", None, None),
  P("shown", "gone", None, None),
  P("shown", "gone", E(s1, "shown", "yes", "fine"), None),
  P("shown", "gone", E(s1, "faint", "yes", "covered"), None),
  P("faint", "gone", E(s1, "hidden", "no", "disabled"), None),
  P("shown", "gone", E(s1, "shown", "unreadable", "not_editable"), None),
  P("shown", "shown", E(s1, "shown", "no", "fine"), E(s2, "shown", "yes", "fine"))}

S(action, scope, target, index, runtime, count) ==
  [action |-> action, scope |-> scope, target |-> target, index |-> index,
   runtime |-> runtime, count |-> count]
MCSteps ==
  {S(a, "page", "one", 0, r, 0) : a \in Actions \ {"expect_requests"}, r \in BOOLEAN}
  \cup {S(a, c, "one", 0, TRUE, 0) : a \in {"click", "expect_visible", "expect_pattern", "expect_not_visible"}, c \in {"named", "anchor"}}
  \cup {S(a, "page", "label", 0, TRUE, 0) : a \in {"fill", "expect_value"}}
  \cup {S(a, "named", "index", 1, TRUE, 0) : a \in {"fill", "expect_state"}}
  \cup {S("expect_visible", "named", "any", 0, TRUE, 0), S("expect_requests", "page", "one", 0, FALSE, 1)}
MCRequests == {[matches |-> TRUE, local |-> TRUE], [matches |-> TRUE, local |-> FALSE],
               [matches |-> FALSE, local |-> TRUE]}
=============================================================================
