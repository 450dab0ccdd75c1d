--------------------------- MODULE QaCaseOutcome ---------------------------
(***************************************************************************)
(* What every driver of qa-run.mjs promises about one case, whatever its   *)
(* steps are: while the case runs it may find out that an expectation      *)
(* failed, that something stopped it, or that a step is owed to a person;  *)
(* it may ask for a judgment; and it ends once, with an outcome that is    *)
(* never better than what it found out.                                    *)
(***************************************************************************)

VARIABLES
  bad,      \* what was found out, a subset of Findings
  asked,    \* whether a judgment was asked for
  outcome   \* "running", or how the case ended

Findings == {"failed", "stopped", "owed"}
Outcomes == {"pass", "fail", "blocked", "needs-human", "pending-judgment"}

vars == <<bad, asked, outcome>>

(* The outcomes a case may report when all it found out is the set b.      *)
Honest(b, a) ==
       {o \in {"fail"}             : "failed"  \in b}
  \cup {o \in {"blocked"}          : "stopped" \in b}
  \cup {o \in {"needs-human"}      : "owed"    \in b}
  \cup {o \in {"pending-judgment"} : b = {} /\ a}
  \cup {o \in {"pass"}             : b = {} /\ ~a}

Init == bad = {} /\ asked = FALSE /\ outcome = "running"

FindOut == /\ outcome = "running"
           /\ bad' \in {bad \cup new : new \in SUBSET Findings}
           /\ UNCHANGED <<asked, outcome>>

Ask == outcome = "running" /\ asked' = TRUE /\ UNCHANGED <<bad, outcome>>

(* The last finding and the outcome may come in one step: a case whose     *)
(* evidence cannot be written ends right there.                            *)
End == /\ outcome = "running"
       /\ bad' \in {bad \cup new : new \in SUBSET Findings}
       /\ outcome' \in Honest(bad', asked)
       /\ UNCHANGED asked

Spec == Init /\ [][FindOut \/ Ask \/ End]_vars
=============================================================================
