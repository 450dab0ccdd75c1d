---------------------------- MODULE QaReportText ----------------------------
(***************************************************************************)
(* parseReport: the cases of a report, read from its lines.  A report is a *)
(* sequence of lines, each known by what the parser tells apart in it:     *)
(*                                                                         *)
(*   "testcases"  the heading of the section that holds the cases          *)
(*   "group"      any other heading of the second level                    *)
(*   "part"       a heading of the first level                             *)
(*   "case"       a heading of the third level                             *)
(*   "subcase"    one of the fourth, which opens a block as well           *)
(*   "risk"       a label that opens a field, at the margin                *)
(*   "steps"      the label of the step list, at the margin                *)
(*   "indented"   the label of a field, indented                           *)
(*   "extra"      a label of no field, at the margin                       *)
(*   "rule"       a thematic break          "fence"  a line of backquotes  *)
(*   "columns", "dashes", "row"             the lines of a table of cases  *)
(*   "blank", "text"                                                       *)
(*                                                                         *)
(* "risk" stands for the five fields besides the steps a case must have.   *)
(* A line is referred to by its place, so what is kept of it is its text.  *)
(***************************************************************************)
EXTENDS Integers, Sequences, FiniteSets, SequencesExt

CaseHeads == {"case", "subcase"}
Headings == {"testcases", "group", "part", "case"}
Line == Headings \cup CaseHeads \cup {"risk", "steps", "indented", "extra", "rule", "fence",
                       "columns", "dashes", "row", "blank", "text"}

(* Inside a fence: the line that opens one counts, the one that closes not.*)
Fenced(d) ==
  LET f[i \in 0..Len(d)] == IF i = 0 THEN FALSE ELSE (d[i] = "fence") # f[i - 1]
  IN  f

(* A rule ends a block only before a heading of the first three levels or  *)
(* at the end of the report.                                               *)
RuleAlwaysEnds(d, i) == TRUE   \* mutant
BreakQualifies(d, i) ==
  \A j \in (i + 1)..Len(d) :
    (\A k \in (i + 1)..(j - 1) : d[k] = "blank") /\ d[j] # "blank" => d[j] \in Headings

Closes(d, i) == d[i] \in {"testcases", "group", "part"} \/ (d[i] = "rule" /\ BreakQualifies(d, i))

(* splitHeadingBlocks over the lines s of a report, the first of which is  *)
(* line first of it: the blocks after line i, from those before it.        *)
Block == [head : Nat, body : Seq(Nat)]
SplitLine(s, first, p, i) ==
  LET out == ~Fenced(s)[i]  place == first + i - 1 IN
  IF out /\ s[i] \in CaseHeads
  THEN [blocks |-> Append(p.blocks, [head |-> place, body |-> <<>>]), open |-> TRUE]
  ELSE IF out /\ Closes(s, i) THEN [p EXCEPT !.open = FALSE]
  ELSE IF p.open THEN [p EXCEPT !.blocks[Len(p.blocks)].body = Append(@, place)]
  ELSE p
Split(s, first) ==
  LET read[i \in 0..Len(s)] ==
        IF i = 0 THEN [blocks |-> <<>>, open |-> FALSE] ELSE SplitLine(s, first, read[i - 1], i)
  IN  read
Blocks(d, first, last) == LET s == SubSeq(d, first, last) IN Split(s, first)[Len(s)].blocks

(* The section that holds the cases, or the whole report without one.      *)
Scope(d) ==
  LET starts == {i \in 1..Len(d) : d[i] = "testcases"} IN
  IF starts = {} THEN <<1, Len(d)>>
  ELSE LET start == CHOOSE i \in starts : \A j \in starts : i <= j
           rest  == SubSeq(d, start + 1, Len(d))
           ends  == {i \in 1..Len(rest) : rest[i] \in {"testcases", "group"} /\ ~Fenced(rest)[i]}
       IN  <<start + 1, IF ends = {} THEN Len(d)
                        ELSE start + (CHOOSE i \in ends : \A j \in ends : i <= j) - 1>>

(* parseBlock: the fields of a block.  Inside the step list an indented    *)
(* label is part of a step.                                                *)
FieldOf(line) == IF line = "indented" THEN "risk" ELSE line
OpensField(line, cur) ==
  /\ line \in {"risk", "steps", "indented"}
  /\ ~(cur = "steps" /\ line = "indented")

(* REQUIRED_LABELS.                                                        *)
Required == {"risk", "steps"}

NoFields == [risk |-> <<>>, steps |-> <<>>]
FieldLine(line, p, place) ==
  IF OpensField(line, p.cur)
  THEN [cur |-> FieldOf(line), has |-> p.has \cup {FieldOf(line)},
        raw |-> [p.raw EXCEPT ![FieldOf(line)] = <<>>]]
  ELSE IF line = "extra" THEN [p EXCEPT !.cur = "none"]
  ELSE IF p.cur # "none" THEN [p EXCEPT !.raw[p.cur] = Append(@, place)]
  ELSE p
FieldsUpTo(d, body) ==
  LET read[k \in 0..Len(body)] ==
        IF k = 0 THEN [cur |-> "none", has |-> {}, raw |-> NoFields]
        ELSE FieldLine(d[body[k]], read[k - 1], body[k])
  IN  read
Fields(d, body) == FieldsUpTo(d, body)[Len(body)]

TrimBlankEnds(d, places) ==
  LET kept == {k \in 1..Len(places) : d[places[k]] # "blank"} IN
  IF kept = {} THEN <<>>
  ELSE SubSeq(places, CHOOSE k \in kept : \A j \in kept : k <= j, CHOOSE k \in kept : \A j \in kept : k >= j)

(* The case of a block, and the labels it lacks.                           *)
CaseOf(d, b) ==
  LET f == Fields(d, b.body) IN
  [head |-> b.head, steps |-> TrimBlankEnds(d, f.raw.steps), missing |-> Required \ f.has]

(* A block without a field is prose.                                       *)
Carrying(d, blocks) ==
  LET take[i \in 0..Len(blocks)] ==
        IF i = 0 THEN <<>>
        ELSE IF Fields(d, blocks[i].body).has = {} THEN take[i - 1] ELSE Append(take[i - 1], blocks[i])
  IN  take

(* Without a block that carries a field, the rows of the table of cases.   *)
TableTop(d) ==
  LET tops == {i \in 1..(Len(d) - 1) : d[i] = "columns" /\ d[i + 1] = "dashes"} IN
  IF tops = {} THEN Len(d) ELSE CHOOSE i \in tops : \A j \in tops : i <= j
TableRows(d) ==
  {j \in (TableTop(d) + 2)..Len(d) :
     \A k \in (TableTop(d) + 2)..j : d[k] \in {"row", "columns", "dashes"}}

(* The cases: their place, their steps and the fields they lack.           *)
ParseReport(d) ==
  LET scope  == Scope(d)
      blocks == Blocks(d, scope[1], scope[2])
      cases  == Carrying(d, blocks)[Len(blocks)]
  IN  IF cases = <<>>
      THEN [i \in 1..Cardinality(TableRows(d)) |->
              [head |-> TableTop(d) + 1 + i, steps |-> <<>>, missing |-> {}]]
      ELSE [i \in 1..Len(cases) |-> CaseOf(d, cases[i])]
=============================================================================
