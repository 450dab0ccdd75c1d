---------------------------- MODULE MCQaSession ----------------------------
(* QaSession with a role of each kind an operator may declare, and a mint  *)
(* that nobody confirmed yet.                                              *)
EXTENDS QaSession

CONSTANTS l1, l2, l3
Logins == {l1, l2, l3}

Minted(state) ==
  [mechanism |-> "minted", browserProbe |-> TRUE, tokenPath |-> FALSE, mint |-> state]
Other(m, probe, path) ==
  [mechanism |-> m, browserProbe |-> probe, tokenPath |-> path, mint |-> "missing"]

EveryKind == {Other("form", FALSE, FALSE), Other("api", TRUE, TRUE), Other("headed", TRUE, FALSE),
              Other("static-token", FALSE, FALSE),
              Minted("proposed"), Minted("confirmed")}
=============================================================================
