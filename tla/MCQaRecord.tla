----------------------------- MODULE MCQaRecord -----------------------------
(* QaRecord with two test files, of which one has a namesake elsewhere, and *)
(* every kind of unit in the citation.                                      *)
EXTENDS QaRecord, TLC

CONSTANTS a, b, la, twin, lb, x, y, s

MCCites   == [loc \in {la, twin, lb} |-> IF loc = lb THEN {b} ELSE {a}]
MCImports == [file \in {a, b} |-> IF file = a THEN {s} ELSE {}]
MCArtefact == [run \in 1..2 |-> "shared"]

U(kind, path, segs) == [kind |-> kind, path |-> path, segs |-> segs]
MCFields == {
  <<U("span", a, {}), U("plain", b, {})>>,
  <<U("prose", Null, {}), U("span", a, {}), U("odd", b, {})>>,
  <<U("titled", a, {x}), U("call", Null, {y}), U("span", b, {})>>,
  <<U("span", a, {}), U("call", Null, {x, y})>>,
  <<U("call", Null, {x}), U("span", a, {})>>}

T(loc, titles, suites, failed, skipped) ==
  [loc |-> loc, titles |-> titles, suites |-> suites, failed |-> failed, skipped |-> skipped]
Good(loc, title) == T(loc, {title}, {}, FALSE, FALSE)
Bad(loc, title)  == T(loc, {title}, {}, TRUE, FALSE)
O(tests) == [tests |-> tests, chained |-> TRUE]
MCOutputs == {
  O({}), O({Good(la, x), Good(la, y), Good(lb, x)}),
  O({Good(la, x), Bad(la, y), Good(lb, x)}),
  O({Good(la, x), Good(twin, y), Good(lb, x)}),
  [tests |-> {T(la, {x}, {y}, TRUE, FALSE), Good(la, y), T(lb, {y}, {}, FALSE, TRUE)},
   chained |-> FALSE]}
=============================================================================
