------------------------------ MODULE MCQaCase ------------------------------
(* Two cases of a run, each with an entry of a menu that holds every kind  *)
(* of entry, of state and of step.                                         *)
EXTENDS QaCase

CONSTANTS user, admin, guest, t1, t2, code, v, w, s, api, db, mail, far, none

MCAlternative == [r \in Roles |-> 
  CASE r = admin -> "local" [] r = guest -> "remote" [] OTHER -> "none"]
MCCaptures == [t \in Texts |-> IF t = t1 THEN {code} ELSE {}]

Request == [act |-> "request", via |-> none, anon |-> FALSE, name |-> none]
Calls   == [Request EXCEPT !.via = api]
Lone    == [Request EXCEPT !.anon = TRUE]
QueryOf(p) == [Request EXCEPT !.act = "query", !.via = p]
Page    == [Request EXCEPT !.act = "page"]
Uses    == [Page EXCEPT !.name = code]
Reads   == [Page EXCEPT !.act = "read", !.via = mail, !.name = code]

Http(steps) == [entry |-> "runs", driver |-> "http", role |-> user, writes |-> FALSE,
                text |-> none, state |-> "other", partial |-> FALSE, steps |-> steps]
Browser(steps) == [Http(steps) EXCEPT !.driver = "browser"]

MCMenu ==
  {[Http(<<Request>>) EXCEPT !.entry = k] : k \in {"none", "declines", "unsafe", "ungrounded"}}
  \cup {Http(<<Lone, Request, Lone>>), Http(<<Lone, Calls>>),
        [Http(<<QueryOf(db), Calls>>) EXCEPT !.partial = TRUE],
        [Http(<<Calls>>) EXCEPT !.role = none],
        [Http(<<Request, QueryOf(far)>>) EXCEPT !.role = admin],
        [Http(<<Lone>>) EXCEPT !.writes = TRUE, !.role = admin],
        [Http(<<[Lone EXCEPT !.name = code]>>) EXCEPT !.text = t1, !.state = "declared"],
        [Http(<<Lone>>) EXCEPT !.text = t2, !.state = "declared", !.role = none],
        [Http(<<Lone>>) EXCEPT !.text = t1, !.state = "declared", !.role = far],
        [Browser(<<Page>>) EXCEPT !.role = admin, !.text = t1, !.state = "declared"],
        [Browser(<<Page>>) EXCEPT !.role = guest],
        [Browser(<<Page>>) EXCEPT !.role = user, !.text = t2, !.state = "role-only"],
        [Browser(<<Page, Reads, Uses>>) EXCEPT !.text = t1, !.state = "role-only"],
        Browser(<<Page, [Reads EXCEPT !.via = far]>>)}
=============================================================================
