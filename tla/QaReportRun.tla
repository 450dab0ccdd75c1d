----------------------------- MODULE QaReportRun -----------------------------
(***************************************************************************)
(* A run (QaRun) of a report (QaReportText): the cases it executes are     *)
(* those parseReport finds, in their order, and a case that lacks a field  *)
(* is counted and not executed.                                            *)
(***************************************************************************)
EXTENDS QaRun, QaReportText

CONSTANT Reports   \* the reports of N cases it may be given

(* A report has at most one section of cases, and its heading is no code.  *)
OneSection(d) ==
  \A i \in 1..Len(d) : d[i] = "testcases" =>
    ~Fenced(d)[i] /\ \A j \in 1..Len(d) : d[j] = "testcases" => i = j

ASSUME ReportsAssumption ==
  \A d \in Reports : d \in Seq(Line) /\ OneSection(d) /\ Len(ParseReport(d)) = N

VARIABLES
  report,   \* the lines of the report
  cases,    \* the cases read from them
  reading   \* history: the cases and their lines of steps, as a reader finds them
docVars == <<report, cases, reading>>

ReadsReport == report \in Reports /\ cases = ParseReport(report)
CountsIncomplete == \A c \in Case : plan[c].route = "incomplete" <=> cases[c].missing # {}

-----------------------------------------------------------------------------
(***************************************************************************)
(* What a reader of the report takes for a case: a heading with one of the *)
(* labels under it, before the next heading or the break before one.  Its  *)
(* steps are the lines from the last label of the step list to the next    *)
(* label at the margin.                                                    *)
(***************************************************************************)
InSection(d, i) ==
  (\E s \in 1..Len(d) : d[s] = "testcases") =>
    /\ \E s \in 1..(i - 1) : d[s] = "testcases"
    /\ \A g \in 1..(i - 1) : (d[g] = "group" /\ ~Fenced(d)[g]) =>
         \E s \in (g + 1)..(i - 1) : d[s] = "testcases"
Heading(d, i) == d[i] \in {"case", "subcase"} /\ ~Fenced(d)[i] /\ InSection(d, i)
Break(d, i) ==
  /\ d[i] = "rule" /\ ~Fenced(d)[i]
  /\ \A j \in (i + 1)..Len(d) :
       (d[j] # "blank" /\ \A k \in (i + 1)..(j - 1) : d[k] = "blank") =>
         d[j] \in {"case", "group", "testcases", "part"}
Under(d, h) ==
  {i \in (h + 1)..Len(d) : \A j \in (h + 1)..i :
     ~Fenced(d)[j] => ~Break(d, j) /\ d[j] \notin {"case", "subcase", "group", "testcases", "part"}}
AtMargin == {"risk", "steps", "extra"}
StepLines(d, h) ==
  {i \in Under(d, h) : \E s \in Under(d, h) :
     /\ d[s] = "steps" /\ \A j \in Under(d, h) : d[j] = "steps" => j <= s
     /\ i > s /\ \A j \in (s + 1)..i : d[j] \notin AtMargin}
CaseHeadings(d) ==
  {i \in 1..Len(d) : Heading(d, i) /\ \E j \in Under(d, i) : d[j] \in {"risk", "steps", "indented"}}

ReadByHand(d) == {[head |-> h, steps |-> {i \in StepLines(d, h) : d[i] # "blank"}] : h \in CaseHeadings(d)}

(* Every command and script it waits for has a timeout, so the run goes on.*)
ReadInit == ReadsReport /\ reading = ReadByHand(report) /\ Init /\ CountsIncomplete
ReadSpec == ReadInit /\ [][Next /\ UNCHANGED docVars]_<<vars, docVars>> /\ WF_vars(Runner)

(***************************************************************************)
(* No case of the report is lost on the way into results.json, and none is *)
(* executed with a step missing or with one of another case: the entries   *)
(* are those of the headings, in order; one that lacks a label is only     *)
(* counted; and the steps a person gets to read are the lines that stand   *)
(* there, whatever rules, fences and foreign labels stand among them.      *)
(***************************************************************************)
EntriesAreTheReport ==
  results # None =>
    /\ \A i \in Case : results[i].why # "aborted" =>
         (results[i].why = "incomplete" <=> cases[results[i].case].missing # {})
    /\ \A i, j \in Case : i < j => cases[results[i].case].head < cases[results[j].case].head
    /\ reading # {} =>
         reading = {LET c == cases[results[i].case] IN
                    [head |-> c.head, steps |-> {p \in ToSet(c.steps) : report[p] # "blank"}] : i \in Case}
-----------------------------------------------------------------------------
(* What the proof of it adds to RInv.  Only a complete case is executed,   *)
(* and an entry is counted as incomplete when its case is.                 *)
RouteShape ==
  /\ InCase => plan[cur].route = "planned"
  /\ \A i \in 1..Len(entries) : entries[i].why # "aborted" =>
       (entries[i].why = "incomplete" <=> plan[i].route = "incomplete")

(* The report is read once, before the first case.                         *)
ReadShape == ReadsReport /\ reading = ReadByHand(report) /\ CountsIncomplete

ReadInv == RInv /\ RouteShape /\ ReadShape
=============================================================================
