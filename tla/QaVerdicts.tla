----------------------------- MODULE QaVerdicts -----------------------------
(***************************************************************************)
(* What results.json promises about the judge steps of a run: a run        *)
(* publishes the cases, each settled or waiting for all of its verdicts;   *)
(* after that one verdict at a time is recorded, for a step that waits;    *)
(* and a case is settled by its last verdict.                              *)
(***************************************************************************)
CONSTANTS Steps, Cases, CaseOf, Partial, Unreadable

VARIABLE doc   \* what a reader of results.json finds

(* The judge steps of a case.                                              *)
StepsOf(c) == {s \in Steps : CaseOf[s] = c}

(* A case is settled once none of its steps waits, and then by the worst   *)
(* of its verdicts; a pass with work left for a person is partial.         *)
Agrees(d, c) ==
  LET Some(w) == \E s \in StepsOf(c) : d.word[s] = w IN
  /\ d.outcome[c] = "none" <=> Some("pending")
  /\ d.outcome[c] # "settled" /\ ~Some("pending") =>
       /\ d.outcome[c] = "fail" <=> Some("failed")
       /\ d.outcome[c] = "uncertain" <=> Some("uncertain") /\ ~Some("failed")
       /\ d.outcome[c] = "partial" =>  c \in Partial
       /\ d.outcome[c] = "pass"    =>  c \notin Partial

Init == doc = Unreadable

(* A finished run: no verdict is in it yet.                                *)
Publish ==
  /\ doc' # Unreadable
  /\ \A s \in Steps : doc'.word[s] \in {"pending", "moot"}
  /\ \A c \in Cases : Agrees(doc', c)

(* One verdict: nothing else changes but the outcome of its case.          *)
Record(s) ==
  /\ doc # Unreadable /\ doc' # Unreadable
  /\ doc.word[s] = "pending"
  /\ doc'.word[s] \in {"passed", "failed", "uncertain"}
  /\ doc'.word = [doc.word EXCEPT ![s] = doc'.word[s]]
  /\ doc'.outcome = [doc.outcome EXCEPT ![CaseOf[s]] = doc'.outcome[CaseOf[s]]]
  /\ Agrees(doc', CaseOf[s])

Spec == Init /\ [][Publish \/ \E s \in Steps : Record(s)]_doc
=============================================================================
