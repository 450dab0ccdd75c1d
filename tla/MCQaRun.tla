------------------------------ MODULE MCQaRun ------------------------------
(* QaRun with a minted role, one that is not minted, one that is not       *)
(* declared, and one required state, over reports of three cases: cases    *)
(* that are whole, that lack a label, that hold a rule, a fence with a     *)
(* heading in it, an indented label or a label of no field, of the third   *)
(* and of the fourth level, between prose, rules and groups, with and      *)
(* without a section of their own.                                         *)
EXTENDS QaReportRun

CONSTANTS minted, password, unknown, seeded

Whole    == <<"case", "risk", "steps", "text", "blank">>
Ruled    == <<"case", "risk", "steps", "text", "rule", "text", "extra", "text">>
WithCode == <<"case", "risk", "steps", "fence", "case", "fence", "text">>
Nested   == <<"case", "steps", "text", "indented", "text", "risk">>
Deep     == <<"subcase", "risk", "steps", "text", "part", "text">>
Lacks    == <<"case", "risk", "text">>
Prose    == <<"case", "text">>
Between  == <<"blank", "rule", "blank">>

Joined(a, b, c) == <<"testcases">> \o a \o Between \o b \o Prose \o c \o <<"group", "steps", "text">>
Loose(a, b, c)  == a \o b \o <<"rule", "group", "text">> \o c \o Between

MCReports ==
  {Joined(Ruled, WithCode, Lacks), Joined(Lacks, Deep, Nested),
   Loose(Ruled, Lacks, Whole), Loose(Nested, WithCode, Lacks), Joined(Lacks, Lacks, Lacks),
   <<"text", "columns", "dashes", "row", "row", "row", "text">>}
=============================================================================
