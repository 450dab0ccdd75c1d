------------------------------ MODULE MCQaPlan ------------------------------
(* A menu of steps in which each rule of the plan has a step that keeps it *)
(* and one that breaks it.                                                 *)
EXTENDS QaPlan

CONSTANTS a, b, none, unset, x, y, noname

Plain(action) ==
  [action |-> action, keys |-> {}, scope |-> "none", effect |-> "none", session |-> FALSE,
   pattern |-> FALSE, wellTyped |-> TRUE, literal |-> "none", zero |-> FALSE,
   route |-> none, uses |-> {}, binds |-> noname]
Named(action) == [Plain(action) EXCEPT !.keys = {"role", "name"}]
Fill(literal) == [Named("fill") EXCEPT !.literal = literal]
Receive(n)    == [Plain("read_message") EXCEPT !.binds = n]

Navigation == {[Plain("goto") EXCEPT !.route = a], [Plain("goto") EXCEPT !.route = b],
               [Plain("expect_url") EXCEPT !.route = b]}

Acts == {Named("click"), [Named("click") EXCEPT !.effect = "validation"],
         [Plain("click") EXCEPT !.keys = {"selector"}],
         Fill("report"), Fill("other"), [Fill("bound") EXCEPT !.uses = {y}]}

Asserts == {Named("expect_visible"), Named("expect_not_visible"),
            [Plain("expect_visible") EXCEPT !.keys = {"role"}, !.scope = "named"],
            [Named("expect_text") EXCEPT !.literal = "chosen"],
            [Plain("expect_requests") EXCEPT !.zero = TRUE]}

Others == {Receive(x), Receive(y), [Plain("judge") EXCEPT !.literal = "report"],
           [Plain("request") EXCEPT !.literal = "report"],
           [Plain("query") EXCEPT !.uses = {x}]}

(* Steps that stepRules refuses.                                           *)
Broken == {[Plain("expect_visible") EXCEPT !.keys = {"role"}],
           [Plain("click") EXCEPT !.keys = {"role", "index"}],
           [Named("goto") EXCEPT !.session = TRUE],
           [Named("expect_visible") EXCEPT !.effect = "write"]}

MCMenu == Navigation \cup Acts \cup Asserts \cup Others \cup Broken
=============================================================================
