------------------------------ MODULE QaJudge ------------------------------
(***************************************************************************)
(* `qa-run.mjs judge`: the verdicts a person's assistant records, one call *)
(* per judge step, in the results.json that `qa-run.mjs run` left behind.  *)
(*                                                                         *)
(* Each call is a process of its own.  It reads results.json, applies its  *)
(* verdict to what it read, writes the verdict's evidence file, and then   *)
(* writes results.json through the one writer: into results.json.tmp,      *)
(* opened and filled, and renamed over it.  A write may fail and a process *)
(* may be killed between any two of these steps.                           *)
(***************************************************************************)
EXTENDS Integers

CONSTANTS
  Callers,     \* the processes that call `run` or `judge`
  Steps,       \* the judge steps of the plan
  Cases,       \* the cases that have one
  CaseOf,      \* the case of a step
  Partial,     \* the cases whose plan entry has a human_remainder
  NoStep,      \* the step of a `run` call
  Unreadable,  \* a file that holds no results document
  Absent,      \* a file that does not exist
  MaxRuns,     \* bound: `run` calls on this run directory
  MaxFaults    \* bound: failed writes and killed processes

Words    == {"pending", "moot", "passed", "failed", "uncertain"}
Outcomes == {"none", "settled", "pass", "fail", "uncertain", "partial"}
Docs     == [word : [Steps -> Words], outcome : [Cases -> Outcomes]]

ASSUME ConstantsAssumption ==
  /\ CaseOf \in [Steps -> Cases]
  /\ \A c \in Cases : \E s \in Steps : CaseOf[s] = c
  /\ Partial \subseteq Cases
  /\ NoStep \notin Steps
  /\ Unreadable \notin Docs /\ Absent \notin Docs /\ Absent # Unreadable
  /\ MaxRuns \in Nat /\ MaxFaults \in Nat

VARIABLES
  results,   \* results.json: a document, or Unreadable
  tmp,       \* results.json.tmp: a document, Unreadable, or Absent
  evidence,  \* the verdict in case-<n>.judge-<k>.verdict.json, or "none"
  pc,        \* where each call stands
  call,      \* its step and verdict, and the document it is going to write
  fd,        \* where the bytes it writes to the opened tmp file go
  acked,     \* history: the verdict a call reported as JUDGED since the last run
  runs,      \* history: how many runs were called
  faults     \* history: how many calls failed or were killed

vars == <<results, tmp, evidence, pc, call, fd, acked, runs, faults>>
files == <<results, tmp, evidence>>

Verdicts == {"pass", "fail", "uncertain"}
StepsOf(c) == {s \in Steps : CaseOf[s] = c}

-----------------------------------------------------------------------------
(* applyJudgeVerdict: a judge step of a case without an outcome that is    *)
(* still pending.                                                          *)
CaseIsOpen(d, s)     == d.outcome[CaseOf[s]] = "none"   \* mutant
NoEvidenceYet(d, s)  == /\ d.outcome[CaseOf[s]] = "none" /\ d.word[s] = "pending"   \* mutant
                        /\ evidence[s] = "none"
AwaitsVerdict(d, s)  == d.outcome[CaseOf[s]] = "none" /\ d.word[s] = "pending"

WordOf(v) == CASE v = "pass" -> "passed" [] v = "fail" -> "failed" [] v = "uncertain" -> "uncertain"

(* settleJudgedCase: a failed step decides first, then an uncertain one;   *)
(* a pass of a plan entry with a remainder is partial.                     *)
Settle(word, c) ==
  CASE \E s \in StepsOf(c) : word[s] = "failed" -> "fail"
    [] (\A s \in StepsOf(c) : word[s] # "failed") /\ \E s \in StepsOf(c) : word[s] = "uncertain" -> "uncertain"
    [] OTHER -> IF c \in Partial THEN "partial" ELSE "pass"

Applied(d, s, v) ==
  LET word == [d.word EXCEPT ![s] = WordOf(v)]
      c    == CaseOf[s]
  IN [word    |-> word,
      outcome |-> IF \E t \in StepsOf(c) : word[t] = "pending" THEN d.outcome
                  ELSE [d.outcome EXCEPT ![c] = Settle(word, c)]]

(* What a run can leave: a case it settled itself, or one that waits for   *)
(* the verdicts of all its judge steps.                                    *)
FreshDoc(open) ==
  [word    |-> [s \in Steps |-> IF CaseOf[s] \in open THEN "pending" ELSE "moot"],
   outcome |-> [c \in Cases |-> IF c \in open THEN "none" ELSE "settled"]]

Init ==
  /\ results = Unreadable /\ tmp = Absent
  /\ evidence = [s \in Steps |-> "none"]
  /\ pc = [p \in Callers |-> "idle"]
  /\ call = [p \in Callers |-> [step |-> NoStep, verdict |-> "pass", doc |-> FreshDoc({})]]
  /\ fd = [p \in Callers |-> "gone"]
  /\ acked = [s \in Steps |-> "none"]
  /\ runs = 0 /\ faults = 0

-----------------------------------------------------------------------------
(* A run has executed its cases and is about to write results.json.        *)
RunFinishes(p) ==
  /\ pc[p] = "idle" /\ runs < MaxRuns
  /\ \E open \in SUBSET Cases :
       call' = [call EXCEPT ![p] = [step |-> NoStep, verdict |-> "pass", doc |-> FreshDoc(open)]]
  /\ pc' = [pc EXCEPT ![p] = "open"]
  /\ runs' = runs + 1
  /\ UNCHANGED <<files, fd, acked, faults>>

(* A judge call reads results.json and applies its verdict; it ends here   *)
(* when it cannot read a document or the step does not await a verdict.    *)
Judge(p, s, v) ==
  /\ pc[p] = "idle" /\ results # Unreadable /\ AwaitsVerdict(results, s)
  /\ call' = [call EXCEPT ![p] = [step |-> s, verdict |-> v, doc |-> Applied(results, s, v)]]
  /\ pc' = [pc EXCEPT ![p] = "evidence"]
  /\ UNCHANGED <<files, fd, acked, runs, faults>>

WriteEvidence(p) ==
  /\ pc[p] = "evidence" /\ pc' = [pc EXCEPT ![p] = "open"]
  /\ evidence' = [evidence EXCEPT ![call[p].step] = call[p].verdict]
  /\ UNCHANGED <<results, tmp, call, fd, acked, runs, faults>>

(* EVIDENCE_WRITE_FAILED: results.json is not changed.                     *)
GoOn   == "open"   \* mutant
GiveUp == "idle"
EvidenceFails(p) ==
  /\ pc[p] = "evidence" /\ faults < MaxFaults
  /\ pc' = [pc EXCEPT ![p] = GiveUp] /\ faults' = faults + 1
  /\ UNCHANGED <<files, call, fd, acked, runs>>

-----------------------------------------------------------------------------
(* writeRunFile: writeFileSync of <dest>.tmp opens it empty, ...           *)
OpenTmp(p) ==
  /\ pc[p] = "open" /\ pc' = [pc EXCEPT ![p] = "fill"]
  /\ tmp' = Unreadable /\ fd' = [fd EXCEPT ![p] = "tmp"]
  /\ UNCHANGED <<results, evidence, call, acked, runs, faults>>

(* ... fills the file it opened, wherever a rename has put it, ...         *)
Fill(p) ==
  /\ pc[p] = "fill" /\ pc' = [pc EXCEPT ![p] = "rename"]
  /\ tmp'     = IF fd[p] = "tmp" THEN call[p].doc ELSE tmp
  /\ results' = IF fd[p] = "results" THEN call[p].doc ELSE results
  /\ UNCHANGED <<evidence, call, fd, acked, runs, faults>>

(* ... and renames it over the destination; the call reports its verdict,  *)
(* or a finished run.                                                      *)
Rename(p) ==
  /\ pc[p] = "rename" /\ tmp # Absent /\ pc' = [pc EXCEPT ![p] = "idle"]
  /\ results' = tmp /\ tmp' = Absent
  /\ fd' = [q \in Callers |-> IF fd[q] = "tmp" /\ q # p THEN "results" ELSE "gone"]
  /\ acked' = IF call[p].step = NoStep THEN [s \in Steps |-> "none"]
              ELSE [acked EXCEPT ![call[p].step] = call[p].verdict]
  /\ UNCHANGED <<evidence, call, runs, faults>>

(* FAILED_RESULTS_WRITE_FAILED: nothing is reported.                       *)
ReportAnyway(p) ==   \* mutant
  [s \in Steps |-> IF s = call[p].step THEN call[p].verdict ELSE acked[s]]
ReportNothing(p) == acked
ResultsFail(p) ==
  /\ \/ pc[p] \in {"open", "fill", "rename"} /\ faults < MaxFaults /\ faults' = faults + 1
     \/ pc[p] = "rename" /\ tmp = Absent /\ UNCHANGED faults
  /\ pc' = [pc EXCEPT ![p] = "idle"] /\ fd' = [fd EXCEPT ![p] = "gone"]
  /\ acked' = ReportNothing(p)
  /\ UNCHANGED <<files, call, runs>>

(* The process is killed.                                                  *)
Killed(p) ==
  /\ pc[p] # "idle" /\ faults < MaxFaults /\ faults' = faults + 1
  /\ pc' = [pc EXCEPT ![p] = "idle"] /\ fd' = [fd EXCEPT ![p] = "gone"]
  /\ UNCHANGED <<files, call, acked, runs>>

(* No call is in progress and no step awaits a verdict.                    *)
Rest ==
  /\ \A p \in Callers : pc[p] = "idle"
  /\ results # Unreadable => \A s \in Steps : ~AwaitsVerdict(results, s)
  /\ UNCHANGED vars

-----------------------------------------------------------------------------
AnyJudge == \E p \in Callers, s \in Steps, v \in Verdicts : Judge(p, s, v)
Write(p) == WriteEvidence(p) \/ OpenTmp(p) \/ Fill(p) \/ Rename(p) \/ ResultsFail(p)

Next ==
  \/ AnyJudge
  \/ \E p \in Callers : RunFinishes(p) \/ Write(p) \/ EvidenceFails(p) \/ Killed(p)
  \/ Rest

Spec == Init /\ [][Next]_vars

(* A call runs to its end, and the assistant calls judge as long as a step *)
(* is pending.                                                             *)
FairSpec == Spec /\ WF_vars(AnyJudge) /\ \A p \in Callers : WF_vars(Write(p))

-----------------------------------------------------------------------------
(* The type invariant; the words are those of the results document.        *)
TypeOK ==
  /\ results \in Docs \cup {Unreadable}
  /\ tmp \in Docs \cup {Unreadable, Absent}
  /\ evidence \in [Steps -> Verdicts \cup {"none"}]
  /\ pc \in [Callers -> {"idle", "evidence", "open", "fill", "rename"}]
  /\ call \in [Callers -> [step : Steps \cup {NoStep}, verdict : Verdicts, doc : Docs]]
  /\ fd \in [Callers -> {"tmp", "results", "gone"}]
  /\ acked \in [Steps -> Verdicts \cup {"none"}]
  /\ runs \in 0..MaxRuns /\ faults \in 0..MaxFaults

(***************************************************************************)
(* A case has an outcome exactly when none of its steps waits, and the     *)
(* outcome is the worst of its verdicts: a pass is never reported while a  *)
(* step failed, is uncertain or is owed to a person.                       *)
(***************************************************************************)
Earned(d, c) ==
  LET Some(w) == \E s \in StepsOf(c) : d.word[s] = w IN
  /\ d.outcome[c] = "none" <=> Some("pending")
  /\ d.outcome[c] = "settled" <=> Some("moot")
  /\ d.outcome[c] = "settled" => \A s \in StepsOf(c) : d.word[s] = "moot"
  /\ d.outcome[c] = "fail" => Some("failed")
  /\ d.outcome[c] = "uncertain" => Some("uncertain") /\ ~Some("failed")
  /\ d.outcome[c] \in {"pass", "partial"} => ~Some("failed") /\ ~Some("uncertain")
  /\ d.outcome[c] \in {"pass", "partial"} => (d.outcome[c] = "partial" <=> c \in Partial)

OutcomesAreEarned == results # Unreadable => \A c \in Cases : Earned(results, c)

(***************************************************************************)
(* A recorded verdict is backed by the evidence file it names: the file    *)
(* holds the same verdict, whatever calls failed before or after.          *)
(***************************************************************************)
EvidenceBacksVerdict ==
  results # Unreadable => \A s \in Steps :
    results.word[s] \in {"passed", "failed", "uncertain"} =>
      evidence[s] # "none" /\ results.word[s] = WordOf(evidence[s])

(***************************************************************************)
(* A recorded verdict is never replaced: what a call reported as JUDGED is *)
(* in results.json until the next run.                                     *)
(***************************************************************************)
RecordedVerdictStays ==
  \A s \in Steps : acked[s] # "none" /\ results # Unreadable =>
    results.word[s] = WordOf(acked[s])

(***************************************************************************)
(* Once a run has written results.json, every later reader finds a whole   *)
(* document, whichever write is cut short.                                 *)
(***************************************************************************)
StaysReadable == [][results # Unreadable => results' # Unreadable]_results

(***************************************************************************)
(* The verdicts are recorded as QaVerdicts promises: one at a time, only   *)
(* for a waiting step, and none is ever replaced.                          *)
(***************************************************************************)
Promise == INSTANCE QaVerdicts WITH doc <- results
KeepsVerdicts == Promise!Spec

(***************************************************************************)
(* Every run that left verdicts to record comes to an end: whatever calls  *)
(* fail or are killed on the way, all its cases are settled.               *)
(***************************************************************************)
EveryCaseSettles ==
  results # Unreadable ~> results # Unreadable /\ \A c \in Cases : results.outcome[c] # "none"

-----------------------------------------------------------------------------
(***************************************************************************)
(* The inductive invariants behind the safety properties.  Every document  *)
(* on its way into results.json is earned, whoever writes it.              *)
(***************************************************************************)
EarnedDoc(d) == \A c \in Cases : Earned(d, c)

DocsEarned ==
  /\ results # Unreadable => EarnedDoc(results)
  /\ tmp \in Docs => EarnedDoc(tmp)
  /\ \A p \in Callers : EarnedDoc(call[p].doc)

(***************************************************************************)
(* With one caller, what it is going to write is what results.json holds   *)
(* plus its verdict, and its evidence is written before the document.      *)
(***************************************************************************)
Writing(p) == pc[p] \in {"open", "fill", "rename"}

CallIsCurrent(p) ==
  /\ pc[p] = "evidence" => call[p].step # NoStep
  /\ pc[p] # "idle" /\ call[p].step # NoStep =>
       /\ results # Unreadable /\ AwaitsVerdict(results, call[p].step)
       /\ call[p].doc = Applied(results, call[p].step, call[p].verdict)
  /\ Writing(p) /\ call[p].step # NoStep => evidence[call[p].step] = call[p].verdict
  /\ Writing(p) /\ call[p].step = NoStep => \E open \in SUBSET Cases : call[p].doc = FreshDoc(open)
  /\ pc[p] = "fill" => fd[p] = "tmp"
  /\ pc[p] = "rename" => tmp = call[p].doc

OneCallerInv ==
  /\ TypeOK /\ DocsEarned
  /\ \A p \in Callers : CallIsCurrent(p)
  /\ EvidenceBacksVerdict /\ RecordedVerdictStays
  /\ results = Unreadable => \A s \in Steps : acked[s] = "none"
=============================================================================
