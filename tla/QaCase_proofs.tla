---------------------------- MODULE QaCase_proofs ----------------------------
EXTENDS QaCase, TLAPS

LEMMA PlanEntry == ASSUME TypeOK PROVE Case \in Menu /\ Case \in Entry
  BY MenuAssumption DEF TypeOK, Case

LEMMA RefusedWith == Refusals \subseteq {"blocked", "needs-human"}
  BY DEF Refusals

(* The steps of an entry that runs, as validateSteps lets them through.     *)
LEMMA ReadNames ==
  ASSUME TypeOK, NEW i \in DOMAIN Case.steps, Case.steps[i].act = "read"
  PROVE  /\ Case.steps[i].name \in Names \ Bound(Case)
         /\ \A j \in DOMAIN Case.steps :
              Case.steps[j].act = "read" /\ Case.steps[i].name = Case.steps[j].name => i = j
  BY PlanEntry, MenuAssumption

(* What is captured by a seed, and what is learnt of it, are values.       *)
LEMMA CapturedType ==
  ASSUME NEW t \in Texts, NEW b \in [Captures[t] -> Values]
  PROVE  [n \in Names |-> IF n \in Captures[t] THEN b[n] ELSE None] \in [Names -> Values \cup {None}]
  OBVIOUS

(* The types are kept, action by action.                                    *)
LEMMA TypeStep == ASSUME IInv, [Next]_vars PROVE TypeOK'
<1>1. CASE Refuse
  <2>1. pc' = "ended" /\ outcome' \in {"blocked", "needs-human"} /\ cur' = cur /\ at' = at
    BY <1>1, RefusedWith DEF Refuse, End
  <2> QED BY <1>1, <2>1 DEF Refuse, IInv, TypeOK, vars, caseVars, kept, secret, names, http
<1>2. CASE PassChecks
  BY <1>2, PlanEntry, ConstantsAssumption DEF PassChecks, Goes, vars, caseVars, kept, secret, names, http, TypeOK, IInv, Case, Here, Nobody, Secrets, Logins, Verdicts, Entry, Step
<1>3. CASE GateBlocks
  BY <1>3, PlanEntry, ConstantsAssumption DEF GateBlocks, End, vars, caseVars, kept, secret, names, http, TypeOK, IInv, Case, Here, Nobody, Secrets, Logins, Verdicts, Entry, Step
<1>4. CASE Probe
  <2>1. checks' \in [Roles -> {"none"} \cup Verdicts]
    BY <1>4 DEF Probe, IInv, TypeOK
  <2>2. touched' \subseteq {"probe", "seed", "login", "request", "query"}
    BY <1>4 DEF Probe, IInv, TypeOK
  <2> QED BY <1>4, <2>1, <2>2 DEF Probe, IInv, TypeOK, vars, caseVars, kept, secret, names, http
<1>5. CASE GateDecides
  BY <1>5, PlanEntry, ConstantsAssumption DEF GateDecides, Goes, End, Clean, vars, caseVars, kept, secret, names, http, TypeOK, IInv, Case, Here, Nobody, Secrets, Logins, Verdicts, Entry, Step
<1>6. CASE StateFree
  BY <1>6, PlanEntry, ConstantsAssumption DEF StateFree, Goes, vars, caseVars, kept, secret, names, http, TypeOK, IInv, Case, Here, Nobody, Secrets, Logins, Verdicts, Entry, Step
<1>7. CASE StateRefused
  BY <1>7, PlanEntry, ConstantsAssumption DEF StateRefused, End, Seedable, vars, caseVars, kept, secret, names, http, TypeOK, IInv, Case, Here, Nobody, Secrets, Logins, Verdicts, Entry, Step
<1>8. CASE RunSeed
  <2>1. Case.text \in Texts
    BY <1>8, PlanEntry DEF RunSeed, Entry, IInv
  <2>2. seeds' \in [Texts -> {"none", "ok", "failed"}]
    <3>1. seeds' \in {[seeds EXCEPT ![Case.text] = "failed"], [seeds EXCEPT ![Case.text] = "ok"]}
      BY <1>8 DEF RunSeed
    <3> QED BY <2>1, <3>1 DEF IInv, TypeOK
  <2>3. \A b \in Binding : Captured(b) \in [Names -> Values \cup {None}]
    BY <2>1, CapturedType DEF Binding, Captured
  <2>4. captured' = captured \/ \E b \in Binding : captured' = [captured EXCEPT ![Case.text] = Captured(b)]
    BY <1>8 DEF RunSeed
  <2>5. captured' \in [Texts -> [Names -> Values \cup {None}]]
    <3>1. \A f \in [Names -> Values \cup {None}] :
            [captured EXCEPT ![Case.text] = f] \in [Texts -> [Names -> Values \cup {None}]]
      BY <2>1 DEF IInv, TypeOK
    <3> QED BY <2>3, <2>4, <3>1 DEF IInv, TypeOK
  <2>6. touched' \subseteq {"probe", "seed", "login", "request", "query"}
    BY <1>8 DEF RunSeed, IInv, TypeOK
  <2> QED BY <1>8, <2>2, <2>5, <2>6 DEF RunSeed, IInv, TypeOK, vars, caseVars, kept, secret, names, http
<1>9. CASE StateReady
  <2>1. Case.text \in Texts /\ meant' \in [Names -> Values \cup {None}]
    BY <1>9, PlanEntry DEF StateReady, Entry, IInv, TypeOK
  <2>2. \A n \in Redacted[Case.text] : captured[Case.text][n] \in Values
    BY <1>9, <2>1, ConstantsAssumption DEF StateReady, Seedable, IInv, NamesShape, TypeOK
  <2>3. table' \subseteq Secrets /\ learnt' \subseteq Secrets
    BY <1>9, <2>2 DEF StateReady, Learn, IInv, TypeOK, Secrets
  <2> QED BY <1>9, <2>1, <2>3 DEF StateReady, Goes, IInv, TypeOK, vars, caseVars, kept, secret, names, http
<1>10. CASE Substitute
  <2>1. env' \in [Names -> Values \cup {None}]
    BY <1>10, PlanEntry DEF Substitute, Substituted, Seeded, Nobody, Entry, IInv, TypeOK
  <2>2. /\ cur' = cur /\ at' = at /\ pc' \in {"ended", "session"}
        /\ outcome' \in {outcome, "blocked"}
    BY <1>10 DEF Substitute, End, Goes
  <2> QED BY <1>10, <2>1, <2>2 DEF Substitute, IInv, TypeOK, vars, caseVars, kept, secret, names, http
<1>11. CASE LogIn
  <2>1. Case.role \in Roles /\ disk[Case.role] \in Logins
    BY <1>11, ConstantsAssumption DEF LogIn, SessionSecrets, IInv, TypeOK
  <2>2. table' \subseteq Secrets /\ learnt' \subseteq Secrets
    BY <1>11, <2>1 DEF LogIn, SessionSecrets, Learn, IInv, TypeOK, Secrets, secret
  <2>3. sessions' \in [Roles -> {"none", "ok", "failed"}]
    BY <1>11 DEF LogIn, SessionSecrets, IInv, TypeOK
  <2>4. touched' \subseteq {"probe", "seed", "login", "request", "query"}
    BY <1>11 DEF LogIn, SessionSecrets, IInv, TypeOK
  <2> QED BY <1>11, <2>2, <2>3, <2>4 DEF LogIn, SessionSecrets, IInv, TypeOK, vars, caseVars, kept, secret, names, http
<1>12. CASE NoSession
  BY <1>12, PlanEntry, ConstantsAssumption DEF NoSession, End, vars, caseVars, kept, secret, names, http, TypeOK, IInv, Case, Here, Nobody, Secrets, Logins, Verdicts, Entry, Step
<1>13. CASE StartDriver
  BY <1>13, PlanEntry, ConstantsAssumption DEF StartDriver, Goes, SessionCookies, vars, caseVars, kept, secret, names, http, TypeOK, IInv, Case, Here, Nobody, Secrets, Logins, Verdicts, Entry, Step
<1>14. CASE HeaderMissing
  BY <1>14, PlanEntry, ConstantsAssumption DEF HeaderMissing, End, Driving, Here, Derives, NeedsHeader, vars, caseVars, kept, secret, names, http, TypeOK, IInv, Case, Here, Nobody, Secrets, Logins, Verdicts, Entry, Step
<1>15. CASE Send
  <2>1. Here \in Step
    BY <1>15, PlanEntry DEF Send, SessionSecrets, Driving, Here, Entry, IInv, TypeOK
  <2>2. /\ jar' \subseteq {"session", "theirs"} /\ lone' \subseteq {"anonymous"} /\ shown' \subseteq Secrets
        /\ touched' \subseteq {"probe", "seed", "login", "request", "query"}
    BY <1>15 DEF Send, SessionSecrets, IInv, TypeOK
  <2>3. request' \in [step : Nat, anon : BOOLEAN, carried : SUBSET {"session", "theirs", "anonymous", "header"}]
    <3>1. /\ at \in Nat /\ Here.anon \in BOOLEAN
          /\ (IF Here.anon THEN FreshContext ELSE jar) \cup (IF Derives THEN {"header"} ELSE {})
               \in SUBSET {"session", "theirs", "anonymous", "header"}
      BY <2>1 DEF Step, IInv, TypeOK, FreshContext
    <3> QED BY <1>15, <3>1 DEF Send, SessionSecrets
  <2>4. Derives => Case.role \in Roles
    <3>1. Derives => Here.via \in Headers /\ ~Here.anon /\ Here.act = "request"
      BY <1>15 DEF Derives, NeedsHeader, Send
    <3>2. at \in DOMAIN Case.steps /\ Refusals = {}
      BY <1>15, PlanEntry DEF Send, SessionSecrets, Driving, IInv, RefusalShape, TypeOK, Entry
    <3>3. HeaderHasRole(Here)
      BY <3>2 DEF Refusals, StepsSound, Here
    <3> QED BY <3>1, <3>3, PlanEntry DEF HeaderHasRole, NeedsHeader, Entry, IInv
  <2>5. table' \subseteq Secrets /\ learnt' \subseteq Secrets
    <3>1. CASE Derives
      <4>1. <<Case.role, disk[Case.role]>> \in Secrets
        BY <2>4, <3>1 DEF IInv, TypeOK, Secrets
      <4> QED BY <1>15, <3>1, <4>1 DEF Send, SessionSecrets, Learn, IInv, TypeOK
    <3>2. CASE ~Derives
      BY <1>15, <3>2 DEF Send, SessionSecrets, secret, IInv, TypeOK
    <3> QED BY <3>1, <3>2
  <2>6. cur' = cur /\ at' = at /\ pc' \in {"ended", "write"} /\ outcome' \in {outcome, "blocked"}
    BY <1>15 DEF Send, SessionSecrets, End, Goes
  <2> QED BY <1>15, <2>2, <2>3, <2>5, <2>6 DEF Send, SessionSecrets, IInv, TypeOK, vars, caseVars, kept, secret, names, http
<1>16. CASE Query
  BY <1>16, PlanEntry, ConstantsAssumption DEF Query, End, Goes, Driving, Here, Learn, vars, caseVars, kept, secret, names, http, TypeOK, IInv, Case, Here, Nobody, Secrets, Logins, Verdicts, Entry, Step
<1>17. CASE WriteEvidence
  <2>1. file' \in [step : Nat, shows : SUBSET Secrets]
    <3>1. shown \ table \in SUBSET Secrets /\ at \in Nat
      BY DEF IInv, TypeOK
    <3>2. file' = file \/ file' = [step |-> at, shows |-> shown \ table]
      BY <1>17 DEF WriteEvidence, Masked
    <3> QED BY <3>1, <3>2 DEF IInv, TypeOK
  <2>a. evidence' \in Seq(Nat)
    <3>1. at \in Nat /\ evidence \in Seq(Nat) /\ evidence' \in {evidence, Append(evidence, at)}
      BY <1>17 DEF WriteEvidence, Pushed, IInv, TypeOK
    <3> QED BY <3>1
  <2>2. cur' = cur /\ at' = at /\ pc' \in {"ended", "compare"} /\ outcome' \in {outcome, "blocked"}
    BY <1>17 DEF WriteEvidence, End, Goes
  <2> QED BY <1>17, <2>1, <2>2, <2>a DEF WriteEvidence, IInv, TypeOK, vars, caseVars, kept, secret, names, http
<1>18. CASE Compare
  BY <1>18, PlanEntry, ConstantsAssumption DEF Compare, End, vars, caseVars, kept, secret, names, http, TypeOK, IInv, Case, Here, Nobody, Secrets, Logins, Verdicts, Entry, Step
<1>19. CASE VisitPage
  BY <1>19, PlanEntry, ConstantsAssumption DEF VisitPage, End, Driving, Here, vars, caseVars, kept, secret, names, http, TypeOK, IInv, Case, Here, Nobody, Secrets, Logins, Verdicts, Entry, Step
<1>20. CASE ReadMessage
  <2>1. table' \subseteq Secrets /\ learnt' \subseteq Secrets
    <3>1. (\E v \in Values \ Short : Learn({v})) \/ UNCHANGED secret
      BY <1>20 DEF ReadMessage
    <3>2. Values \subseteq Secrets
      BY DEF Secrets
    <3> QED BY <3>1, <3>2 DEF Learn, secret, IInv, TypeOK
  <2>a. env' \in [Names -> Values \cup {None}] /\ meant' \in [Names -> Values \cup {None}]
    <3>1. Here.name \in Names
      BY <1>20, PlanEntry, ReadNames DEF ReadMessage, Driving, Here, IInv, TypeOK, Entry
    <3>2. \/ UNCHANGED names
          \/ \E v \in Values : /\ meant' = [meant EXCEPT ![Here.name] = v]
                               /\ env' = [env EXCEPT ![Here.name] = IF env[Here.name] = None THEN v ELSE env[Here.name]]
      BY <1>20 DEF ReadMessage
    <3>3. ASSUME NEW v \in Values, meant' = [meant EXCEPT ![Here.name] = v],
                 env' = [env EXCEPT ![Here.name] = IF env[Here.name] = None THEN v ELSE env[Here.name]]
          PROVE  env' \in [Names -> Values \cup {None}] /\ meant' \in [Names -> Values \cup {None}]
      <4>1. (IF env[Here.name] = None THEN v ELSE env[Here.name]) \in Values \cup {None}
        BY <3>1 DEF IInv, TypeOK
      <4> QED BY <3>1, <3>3, <4>1 DEF IInv, TypeOK
    <3> QED BY <3>2, <3>3 DEF names, IInv, TypeOK
  <2>2. cur' = cur /\ at' \in {at, at + 1} /\ pc' \in {"ended", "step"}
    BY <1>20 DEF ReadMessage, End
  <2>3. outcome' \in {outcome, "fail", "blocked", "needs-human"}
    BY <1>20 DEF ReadMessage, End
  <2> QED BY <1>20, <2>1, <2>2, <2>3, <2>a DEF ReadMessage, IInv, TypeOK, vars, caseVars, kept, secret, names, http
<1>21. CASE Pass
  BY <1>21, PlanEntry, ConstantsAssumption DEF Pass, End, Whole, vars, caseVars, kept, secret, names, http, TypeOK, IInv, Case, Here, Nobody, Secrets, Logins, Verdicts, Entry, Step
<1>22. CASE StartCase
  BY <1>22, PlanEntry, ConstantsAssumption DEF StartCase, vars, caseVars, kept, secret, names, http, TypeOK, IInv, Case, Here, Nobody, Secrets, Logins, Verdicts, Entry, Step
<1>23. CASE Elsewhere
  BY <1>23, PlanEntry, ConstantsAssumption DEF Elsewhere, LogInElsewhere, vars, caseVars, kept, secret, names, http, TypeOK, IInv, Case, Here, Nobody, Secrets, Logins, Verdicts, Entry, Step
<1>24. CASE Ended
  BY <1>24, PlanEntry, ConstantsAssumption DEF Ended, vars, caseVars, kept, secret, names, http, TypeOK, IInv, Case, Here, Nobody, Secrets, Logins, Verdicts, Entry, Step
<1>25. CASE UNCHANGED vars
  BY <1>25, PlanEntry, ConstantsAssumption DEF vars, caseVars, kept, secret, names, http, TypeOK, IInv, Case, Here, Nobody, Secrets, Logins, Verdicts
<1> QED BY <1>1, <1>2, <1>3, <1>4, <1>5, <1>6, <1>7, <1>8, <1>9, <1>10, <1>11, <1>12, <1>13, <1>14, <1>15, <1>16, <1>17, <1>18, <1>19, <1>20, <1>21, <1>22, <1>23, <1>24, <1>25 DEF Next, Gates, State, Login, Driver
(* What the plan and the surroundings say of the case does not change       *)
(* while it runs.                                                          *)
LEMMA SameCase ==
  ASSUME UNCHANGED <<plan, world, cur>>
  PROVE  Case' = Case /\ Refusals' = Refusals /\ (Gated' <=> Gated)
  BY DEF Case, Refusals, WritesAllowed, StepsSound, ReachesLocal, HeaderHasRole, NeedsHeader, Outside, Gated

LEMMA StaysBound ==
  ASSUME TypeOK, UNCHANGED <<plan, cur>>, at' \in {at, at + 1}, NEW n, BoundBefore(n)
  PROVE  BoundBefore(n)'
<1>1. Case' = Case
  BY DEF Case
<1>0. at \in Nat
  BY DEF TypeOK
<1>2. \A i \in 1..(at - 1) : i \in 1..(at' - 1)
  <2>1. CASE at' = at
    BY <2>1
  <2>2. CASE at' = at + 1
    BY <1>0, <2>2
  <2> QED BY <2>1, <2>2
<1>3. n \in Bound(Case)'
      \/ \E i \in 1..(at' - 1) : Case'.steps[i].act = "read" /\ Case'.steps[i].name = n
  BY <1>1, <1>2 DEF BoundBefore, Bound
<1> QED BY <1>3 DEF BoundBefore

(* Nothing is touched by a case that is refused.                           *)
LEMMA RefusalStep == ASSUME IInv, [Next]_vars PROVE RefusalShape'
<1>1. CASE Refuse
  <2>1. pc' = "ended" /\ outcome' \in {"blocked", "needs-human"} /\ pc = "check"
    BY <1>1, RefusedWith DEF Refuse, End
  <2> QED BY <1>1, <2>1 DEF Refuse, RefusalShape, IInv, vars, caseVars, kept, secret, names, http
<1>2. CASE PassChecks
  BY <1>2, SameCase DEF PassChecks, Goes, vars, caseVars, kept, secret, names, http, RefusalShape, IInv
<1>3. CASE GateBlocks
  BY <1>3, SameCase DEF GateBlocks, End, vars, caseVars, kept, secret, names, http, RefusalShape, IInv
<1>4. CASE Probe
  BY <1>4, SameCase DEF Probe, Verdicts, vars, caseVars, kept, secret, names, http, RefusalShape, IInv
<1>5. CASE GateDecides
  BY <1>5, SameCase DEF GateDecides, Goes, End, Clean, vars, caseVars, kept, secret, names, http, RefusalShape, IInv
<1>6. CASE StateFree
  BY <1>6, SameCase DEF StateFree, Goes, vars, caseVars, kept, secret, names, http, RefusalShape, IInv
<1>7. CASE StateRefused
  BY <1>7, SameCase DEF StateRefused, End, Seedable, vars, caseVars, kept, secret, names, http, RefusalShape, IInv
<1>8. CASE RunSeed
  BY <1>8, SameCase DEF RunSeed, Seedable, vars, caseVars, kept, secret, names, http, RefusalShape, IInv
<1>9. CASE StateReady
  BY <1>9, SameCase DEF StateReady, Seedable, Learn, Goes, vars, caseVars, kept, secret, names, http, RefusalShape, IInv
<1>10. CASE Substitute
  BY <1>10, SameCase DEF Substitute, Goes, End, vars, caseVars, kept, secret, names, http, RefusalShape, IInv
<1>11. CASE LogIn
  BY <1>11, SameCase DEF LogIn, SessionSecrets, Learn, vars, caseVars, kept, secret, names, http, RefusalShape, IInv
<1>12. CASE NoSession
  BY <1>12, SameCase DEF NoSession, End, vars, caseVars, kept, secret, names, http, RefusalShape, IInv
<1>13. CASE StartDriver
  BY <1>13, SameCase DEF StartDriver, Goes, SessionCookies, vars, caseVars, kept, secret, names, http, RefusalShape, IInv
<1>14. CASE HeaderMissing
  BY <1>14, SameCase DEF HeaderMissing, End, Driving, Here, Derives, NeedsHeader, vars, caseVars, kept, secret, names, http, RefusalShape, IInv
<1>15. CASE Send
  BY <1>15, SameCase DEF Send, SessionSecrets, End, Goes, Driving, Here, Derives, NeedsHeader, Learn, FreshContext, vars, caseVars, kept, secret, names, http, RefusalShape, IInv
<1>16. CASE Query
  BY <1>16, SameCase DEF Query, End, Goes, Driving, Here, Learn, vars, caseVars, kept, secret, names, http, RefusalShape, IInv
<1>17. CASE WriteEvidence
  BY <1>17, SameCase DEF WriteEvidence, End, Goes, Masked, Pushed, vars, caseVars, kept, secret, names, http, RefusalShape, IInv
<1>18. CASE Compare
  BY <1>18, SameCase DEF Compare, End, vars, caseVars, kept, secret, names, http, RefusalShape, IInv
<1>19. CASE VisitPage
  BY <1>19, SameCase DEF VisitPage, End, Driving, Here, vars, caseVars, kept, secret, names, http, RefusalShape, IInv
<1>20. CASE ReadMessage
  BY <1>20, SameCase DEF ReadMessage, End, Driving, Here, Learn, vars, caseVars, kept, secret, names, http, RefusalShape, IInv
<1>21. CASE Pass
  <2>1. Whole \in {"pass", "needs-human"}
    BY DEF Whole
  <2> QED BY <1>21, <2>1, SameCase DEF Pass, End, RefusalShape, IInv, vars, caseVars, kept, secret, names, http
<1>22. CASE StartCase
  BY <1>22, SameCase DEF StartCase, vars, caseVars, kept, secret, names, http, RefusalShape, IInv
<1>23. CASE Elsewhere
  BY <1>23, SameCase DEF Elsewhere, LogInElsewhere, vars, caseVars, kept, secret, names, http, RefusalShape, IInv
<1>24. CASE Ended
  BY <1>24, SameCase DEF Ended, vars, caseVars, kept, secret, names, http, RefusalShape, IInv
<1>25. CASE UNCHANGED vars
  BY <1>25, SameCase DEF vars, caseVars, kept, secret, names, http, RefusalShape, IInv
<1> QED BY <1>1, <1>2, <1>3, <1>4, <1>5, <1>6, <1>7, <1>8, <1>9, <1>10, <1>11, <1>12, <1>13, <1>14, <1>15, <1>16, <1>17, <1>18, <1>19, <1>20, <1>21, <1>22, <1>23, <1>24, <1>25 DEF Next, Gates, State, Login, Driver

(* What is learnt is registered in the same step.                          *)
LEMMA SecretStep == ASSUME IInv, [Next]_vars PROVE SecretShape'
<1>1. CASE Refuse
  BY <1>1 DEF Refuse, End, vars, caseVars, kept, secret, names, http, SecretShape, IInv
<1>2. CASE PassChecks
  BY <1>2 DEF PassChecks, Goes, vars, caseVars, kept, secret, names, http, SecretShape, IInv
<1>3. CASE GateBlocks
  BY <1>3 DEF GateBlocks, End, vars, caseVars, kept, secret, names, http, SecretShape, IInv
<1>4. CASE Probe
  BY <1>4 DEF Probe, Verdicts, vars, caseVars, kept, secret, names, http, SecretShape, IInv
<1>5. CASE GateDecides
  BY <1>5 DEF GateDecides, Goes, End, Clean, vars, caseVars, kept, secret, names, http, SecretShape, IInv
<1>6. CASE StateFree
  BY <1>6 DEF StateFree, Goes, vars, caseVars, kept, secret, names, http, SecretShape, IInv
<1>7. CASE StateRefused
  BY <1>7 DEF StateRefused, End, Seedable, vars, caseVars, kept, secret, names, http, SecretShape, IInv
<1>8. CASE RunSeed
  BY <1>8 DEF RunSeed, Seedable, vars, caseVars, kept, secret, names, http, SecretShape, IInv
<1>9. CASE StateReady
  BY <1>9 DEF StateReady, Seedable, Learn, Goes, vars, caseVars, kept, secret, names, http, SecretShape, IInv
<1>10. CASE Substitute
  BY <1>10 DEF Substitute, Goes, End, vars, caseVars, kept, secret, names, http, SecretShape, IInv
<1>11. CASE LogIn
  BY <1>11 DEF LogIn, SessionSecrets, Learn, vars, caseVars, kept, secret, names, http, SecretShape, IInv
<1>12. CASE NoSession
  BY <1>12 DEF NoSession, End, vars, caseVars, kept, secret, names, http, SecretShape, IInv
<1>13. CASE StartDriver
  BY <1>13 DEF StartDriver, Goes, SessionCookies, vars, caseVars, kept, secret, names, http, SecretShape, IInv
<1>14. CASE HeaderMissing
  BY <1>14 DEF HeaderMissing, End, Driving, Here, Derives, NeedsHeader, vars, caseVars, kept, secret, names, http, SecretShape, IInv
<1>15. CASE Send
  BY <1>15 DEF Send, SessionSecrets, End, Goes, Driving, Here, Derives, NeedsHeader, Learn, FreshContext, vars, caseVars, kept, secret, names, http, SecretShape, IInv
<1>16. CASE Query
  BY <1>16 DEF Query, End, Goes, Driving, Here, Learn, vars, caseVars, kept, secret, names, http, SecretShape, IInv
<1>17. CASE WriteEvidence
  BY <1>17 DEF WriteEvidence, End, Goes, Masked, Pushed, vars, caseVars, kept, secret, names, http, SecretShape, IInv
<1>18. CASE Compare
  BY <1>18 DEF Compare, End, vars, caseVars, kept, secret, names, http, SecretShape, IInv
<1>19. CASE VisitPage
  BY <1>19 DEF VisitPage, End, Driving, Here, vars, caseVars, kept, secret, names, http, SecretShape, IInv
<1>20. CASE ReadMessage
  BY <1>20 DEF ReadMessage, End, Driving, Here, Learn, vars, caseVars, kept, secret, names, http, SecretShape, IInv
<1>21. CASE Pass
  BY <1>21 DEF Pass, End, Whole, vars, caseVars, kept, secret, names, http, SecretShape, IInv
<1>22. CASE StartCase
  BY <1>22 DEF StartCase, vars, caseVars, kept, secret, names, http, SecretShape, IInv
<1>23. CASE Elsewhere
  BY <1>23 DEF Elsewhere, LogInElsewhere, vars, caseVars, kept, secret, names, http, SecretShape, IInv
<1>24. CASE Ended
  BY <1>24 DEF Ended, vars, caseVars, kept, secret, names, http, SecretShape, IInv
<1>25. CASE UNCHANGED vars
  BY <1>25 DEF vars, caseVars, kept, secret, names, http, SecretShape, IInv
<1> QED BY <1>1, <1>2, <1>3, <1>4, <1>5, <1>6, <1>7, <1>8, <1>9, <1>10, <1>11, <1>12, <1>13, <1>14, <1>15, <1>16, <1>17, <1>18, <1>19, <1>20, <1>21, <1>22, <1>23, <1>24, <1>25 DEF Next, Gates, State, Login, Driver

(* A gated case goes on only when the other target was found clean.        *)
LEMMA GateStep == ASSUME IInv, [Next]_vars PROVE GateShape'
<1>1. CASE Refuse
  BY <1>1, SameCase DEF Refuse, End, vars, caseVars, kept, secret, names, http, GateShape, RefusalShape, IInv, Gated, Later, Driven, TypeOK, Verdicts
<1>2. CASE PassChecks
  BY <1>2, SameCase DEF PassChecks, Goes, vars, caseVars, kept, secret, names, http, GateShape, RefusalShape, IInv, Gated, Later, Driven, TypeOK, Verdicts
<1>3. CASE GateBlocks
  BY <1>3, SameCase DEF GateBlocks, End, vars, caseVars, kept, secret, names, http, GateShape, RefusalShape, IInv, Gated, Later, Driven, TypeOK, Verdicts
<1>4. CASE Probe
  BY <1>4, SameCase DEF Probe, Verdicts, vars, caseVars, kept, secret, names, http, GateShape, RefusalShape, IInv, Gated, Later, Driven, TypeOK, Verdicts
<1>5. CASE GateDecides
  BY <1>5, SameCase DEF GateDecides, Goes, End, Clean, vars, caseVars, kept, secret, names, http, GateShape, RefusalShape, IInv, Gated, Later, Driven, TypeOK, Verdicts
<1>6. CASE StateFree
  BY <1>6, SameCase DEF StateFree, Goes, vars, caseVars, kept, secret, names, http, GateShape, RefusalShape, IInv, Gated, Later, Driven, TypeOK, Verdicts
<1>7. CASE StateRefused
  BY <1>7, SameCase DEF StateRefused, End, Seedable, vars, caseVars, kept, secret, names, http, GateShape, RefusalShape, IInv, Gated, Later, Driven, TypeOK, Verdicts
<1>8. CASE RunSeed
  BY <1>8, SameCase DEF RunSeed, Seedable, vars, caseVars, kept, secret, names, http, GateShape, RefusalShape, IInv, Gated, Later, Driven, TypeOK, Verdicts
<1>9. CASE StateReady
  BY <1>9, SameCase DEF StateReady, Seedable, Learn, Goes, vars, caseVars, kept, secret, names, http, GateShape, RefusalShape, IInv, Gated, Later, Driven, TypeOK, Verdicts
<1>10. CASE Substitute
  BY <1>10, SameCase DEF Substitute, Goes, End, vars, caseVars, kept, secret, names, http, GateShape, RefusalShape, IInv, Gated, Later, Driven, TypeOK, Verdicts
<1>11. CASE LogIn
  BY <1>11, SameCase DEF LogIn, SessionSecrets, Learn, vars, caseVars, kept, secret, names, http, GateShape, RefusalShape, IInv, Gated, Later, Driven, TypeOK, Verdicts
<1>12. CASE NoSession
  BY <1>12, SameCase DEF NoSession, End, vars, caseVars, kept, secret, names, http, GateShape, RefusalShape, IInv, Gated, Later, Driven, TypeOK, Verdicts
<1>13. CASE StartDriver
  BY <1>13, SameCase DEF StartDriver, Goes, SessionCookies, vars, caseVars, kept, secret, names, http, GateShape, RefusalShape, IInv, Gated, Later, Driven, TypeOK, Verdicts
<1>14. CASE HeaderMissing
  BY <1>14, SameCase DEF HeaderMissing, End, Driving, Here, Derives, NeedsHeader, vars, caseVars, kept, secret, names, http, GateShape, RefusalShape, IInv, Gated, Later, Driven, TypeOK, Verdicts
<1>15. CASE Send
  BY <1>15, SameCase DEF Send, SessionSecrets, End, Goes, Driving, Here, Derives, NeedsHeader, Learn, FreshContext, vars, caseVars, kept, secret, names, http, GateShape, RefusalShape, IInv, Gated, Later, Driven, TypeOK, Verdicts
<1>16. CASE Query
  BY <1>16, SameCase DEF Query, End, Goes, Driving, Here, Learn, vars, caseVars, kept, secret, names, http, GateShape, RefusalShape, IInv, Gated, Later, Driven, TypeOK, Verdicts
<1>17. CASE WriteEvidence
  BY <1>17, SameCase DEF WriteEvidence, End, Goes, Masked, Pushed, vars, caseVars, kept, secret, names, http, GateShape, RefusalShape, IInv, Gated, Later, Driven, TypeOK, Verdicts
<1>18. CASE Compare
  BY <1>18, SameCase DEF Compare, End, vars, caseVars, kept, secret, names, http, GateShape, RefusalShape, IInv, Gated, Later, Driven, TypeOK, Verdicts
<1>19. CASE VisitPage
  BY <1>19, SameCase DEF VisitPage, End, Driving, Here, vars, caseVars, kept, secret, names, http, GateShape, RefusalShape, IInv, Gated, Later, Driven, TypeOK, Verdicts
<1>20. CASE ReadMessage
  BY <1>20, SameCase DEF ReadMessage, End, Driving, Here, Learn, vars, caseVars, kept, secret, names, http, GateShape, RefusalShape, IInv, Gated, Later, Driven, TypeOK, Verdicts
<1>21. CASE Pass
  BY <1>21, SameCase DEF Pass, End, Whole, vars, caseVars, kept, secret, names, http, GateShape, RefusalShape, IInv, Gated, Later, Driven, TypeOK, Verdicts
<1>22. CASE StartCase
  BY <1>22, SameCase DEF StartCase, vars, caseVars, kept, secret, names, http, GateShape, RefusalShape, IInv, Gated, Later, Driven, TypeOK, Verdicts
<1>23. CASE Elsewhere
  BY <1>23, SameCase DEF Elsewhere, LogInElsewhere, vars, caseVars, kept, secret, names, http, GateShape, RefusalShape, IInv, Gated, Later, Driven, TypeOK, Verdicts
<1>24. CASE Ended
  BY <1>24, SameCase DEF Ended, vars, caseVars, kept, secret, names, http, GateShape, RefusalShape, IInv, Gated, Later, Driven, TypeOK, Verdicts
<1>25. CASE UNCHANGED vars
  BY <1>25, SameCase DEF vars, caseVars, kept, secret, names, http, GateShape, RefusalShape, IInv, Gated, Later, Driven, TypeOK, Verdicts
<1> QED BY <1>1, <1>2, <1>3, <1>4, <1>5, <1>6, <1>7, <1>8, <1>9, <1>10, <1>11, <1>12, <1>13, <1>14, <1>15, <1>16, <1>17, <1>18, <1>19, <1>20, <1>21, <1>22, <1>23, <1>24, <1>25 DEF Next, Gates, State, Login, Driver

(* A login comes after the state was had.                                  *)
LEMMA StateStep == ASSUME IInv, [Next]_vars PROVE StateShape'
<1>1. CASE Refuse
  BY <1>1, SameCase, PlanEntry, ConstantsAssumption DEF Refuse, End, vars, caseVars, kept, secret, names, http, StateShape, RefusalShape, EvidenceShape, IInv, Before, Driven, Later, Outward, StateHad, TypeOK, Entry
<1>2. CASE PassChecks
  BY <1>2, SameCase, PlanEntry, ConstantsAssumption DEF PassChecks, Goes, vars, caseVars, kept, secret, names, http, StateShape, RefusalShape, EvidenceShape, IInv, Before, Driven, Later, Outward, StateHad, TypeOK, Entry
<1>3. CASE GateBlocks
  BY <1>3, SameCase, PlanEntry, ConstantsAssumption DEF GateBlocks, End, vars, caseVars, kept, secret, names, http, StateShape, RefusalShape, EvidenceShape, IInv, Before, Driven, Later, Outward, StateHad, TypeOK, Entry
<1>4. CASE Probe
  BY <1>4, SameCase, PlanEntry, ConstantsAssumption DEF Probe, Verdicts, vars, caseVars, kept, secret, names, http, StateShape, RefusalShape, EvidenceShape, IInv, Before, Driven, Later, Outward, StateHad, TypeOK, Entry
<1>5. CASE GateDecides
  BY <1>5, SameCase, PlanEntry, ConstantsAssumption DEF GateDecides, Goes, End, Clean, vars, caseVars, kept, secret, names, http, StateShape, RefusalShape, EvidenceShape, IInv, Before, Driven, Later, Outward, StateHad, TypeOK, Entry
<1>6. CASE StateFree
  BY <1>6, SameCase, PlanEntry, ConstantsAssumption DEF StateFree, Goes, vars, caseVars, kept, secret, names, http, StateShape, RefusalShape, EvidenceShape, IInv, Before, Driven, Later, Outward, StateHad, TypeOK, Entry
<1>7. CASE StateRefused
  BY <1>7, SameCase, PlanEntry, ConstantsAssumption DEF StateRefused, End, Seedable, vars, caseVars, kept, secret, names, http, StateShape, RefusalShape, EvidenceShape, IInv, Before, Driven, Later, Outward, StateHad, TypeOK, Entry
<1>8. CASE RunSeed
  <2>1. /\ Case' = Case /\ pc' = pc /\ pc = "state" /\ touched' \subseteq touched \cup {"seed"}
        /\ UNCHANGED sessions /\ seeds[Case.text] = "none"
    BY <1>8, SameCase DEF RunSeed, vars, caseVars, kept, secret, names, http
  <2>2. touched' \subseteq {"probe", "seed"}
    BY <2>1 DEF IInv, StateShape, Before
  <2>3. \A t \in Texts : seeds'[t] = "ok" => t \in LocalSeeds
    BY <1>8 DEF RunSeed, IInv, TypeOK, StateShape
  <2> QED BY <2>1, <2>2, <2>3 DEF IInv, StateShape, Before, Later, Driven, Outward
<1>9. CASE StateReady
  BY <1>9, SameCase, PlanEntry, ConstantsAssumption DEF StateReady, Seedable, Learn, Goes, vars, caseVars, kept, secret, names, http, StateShape, RefusalShape, EvidenceShape, IInv, Before, Driven, Later, Outward, StateHad, TypeOK, Entry
<1>10. CASE Substitute
  BY <1>10, SameCase, PlanEntry, ConstantsAssumption DEF Substitute, Goes, End, vars, caseVars, kept, secret, names, http, StateShape, RefusalShape, EvidenceShape, IInv, Before, Driven, Later, Outward, StateHad, TypeOK, Entry
<1>11. CASE LogIn
  BY <1>11, SameCase, PlanEntry, ConstantsAssumption DEF LogIn, SessionSecrets, Learn, vars, caseVars, kept, secret, names, http, StateShape, RefusalShape, EvidenceShape, IInv, Before, Driven, Later, Outward, StateHad, TypeOK, Entry
<1>12. CASE NoSession
  BY <1>12, SameCase, PlanEntry, ConstantsAssumption DEF NoSession, End, vars, caseVars, kept, secret, names, http, StateShape, RefusalShape, EvidenceShape, IInv, Before, Driven, Later, Outward, StateHad, TypeOK, Entry
<1>13. CASE StartDriver
  BY <1>13, SameCase, PlanEntry, ConstantsAssumption DEF StartDriver, Goes, SessionCookies, vars, caseVars, kept, secret, names, http, StateShape, RefusalShape, EvidenceShape, IInv, Before, Driven, Later, Outward, StateHad, TypeOK, Entry
<1>14. CASE HeaderMissing
  BY <1>14, SameCase, PlanEntry, ConstantsAssumption DEF HeaderMissing, End, Driving, Here, Derives, NeedsHeader, vars, caseVars, kept, secret, names, http, StateShape, RefusalShape, EvidenceShape, IInv, Before, Driven, Later, Outward, StateHad, TypeOK, Entry
<1>15. CASE Send
  BY <1>15, SameCase, PlanEntry, ConstantsAssumption DEF Send, SessionSecrets, End, Goes, Driving, Here, Derives, NeedsHeader, Learn, FreshContext, vars, caseVars, kept, secret, names, http, StateShape, RefusalShape, EvidenceShape, IInv, Before, Driven, Later, Outward, StateHad, TypeOK, Entry
<1>16. CASE Query
  BY <1>16, SameCase, PlanEntry, ConstantsAssumption DEF Query, End, Goes, Driving, Here, Learn, vars, caseVars, kept, secret, names, http, StateShape, RefusalShape, EvidenceShape, IInv, Before, Driven, Later, Outward, StateHad, TypeOK, Entry
<1>17. CASE WriteEvidence
  BY <1>17, SameCase, PlanEntry, ConstantsAssumption DEF WriteEvidence, End, Goes, Masked, Pushed, vars, caseVars, kept, secret, names, http, StateShape, RefusalShape, EvidenceShape, IInv, Before, Driven, Later, Outward, StateHad, TypeOK, Entry
<1>18. CASE Compare
  BY <1>18, SameCase, PlanEntry, ConstantsAssumption DEF Compare, End, vars, caseVars, kept, secret, names, http, StateShape, RefusalShape, EvidenceShape, IInv, Before, Driven, Later, Outward, StateHad, TypeOK, Entry
<1>19. CASE VisitPage
  BY <1>19, SameCase, PlanEntry, ConstantsAssumption DEF VisitPage, End, Driving, Here, vars, caseVars, kept, secret, names, http, StateShape, RefusalShape, EvidenceShape, IInv, Before, Driven, Later, Outward, StateHad, TypeOK, Entry
<1>20. CASE ReadMessage
  BY <1>20, SameCase, PlanEntry, ConstantsAssumption DEF ReadMessage, End, Driving, Here, Learn, vars, caseVars, kept, secret, names, http, StateShape, RefusalShape, EvidenceShape, IInv, Before, Driven, Later, Outward, StateHad, TypeOK, Entry
<1>21. CASE Pass
  BY <1>21, SameCase, PlanEntry, ConstantsAssumption DEF Pass, End, Whole, vars, caseVars, kept, secret, names, http, StateShape, RefusalShape, EvidenceShape, IInv, Before, Driven, Later, Outward, StateHad, TypeOK, Entry
<1>22. CASE StartCase
  BY <1>22, SameCase, PlanEntry, ConstantsAssumption DEF StartCase, vars, caseVars, kept, secret, names, http, StateShape, RefusalShape, EvidenceShape, IInv, Before, Driven, Later, Outward, StateHad, TypeOK, Entry
<1>23. CASE Elsewhere
  BY <1>23, SameCase, PlanEntry, ConstantsAssumption DEF Elsewhere, LogInElsewhere, vars, caseVars, kept, secret, names, http, StateShape, RefusalShape, EvidenceShape, IInv, Before, Driven, Later, Outward, StateHad, TypeOK, Entry
<1>24. CASE Ended
  BY <1>24, SameCase, PlanEntry, ConstantsAssumption DEF Ended, vars, caseVars, kept, secret, names, http, StateShape, RefusalShape, EvidenceShape, IInv, Before, Driven, Later, Outward, StateHad, TypeOK, Entry
<1>25. CASE UNCHANGED vars
  BY <1>25, SameCase, PlanEntry, ConstantsAssumption DEF vars, caseVars, kept, secret, names, http, StateShape, RefusalShape, EvidenceShape, IInv, Before, Driven, Later, Outward, StateHad, TypeOK
<1> QED BY <1>1, <1>2, <1>3, <1>4, <1>5, <1>6, <1>7, <1>8, <1>9, <1>10, <1>11, <1>12, <1>13, <1>14, <1>15, <1>16, <1>17, <1>18, <1>19, <1>20, <1>21, <1>22, <1>23, <1>24, <1>25 DEF Next, Gates, State, Login, Driver

(* The evidence grows with the steps.                                      *)
LEMMA EvidenceStep == ASSUME IInv, [Next]_vars PROVE EvidenceShape'
<1>1. CASE Refuse
  BY <1>1, SameCase, PlanEntry DEF Refuse, End, vars, caseVars, kept, secret, names, http, EvidenceShape, IInv, Before, TypeOK, Entry
<1>2. CASE PassChecks
  BY <1>2, SameCase, PlanEntry DEF PassChecks, Goes, vars, caseVars, kept, secret, names, http, EvidenceShape, IInv, Before, TypeOK, Entry
<1>3. CASE GateBlocks
  BY <1>3, SameCase, PlanEntry DEF GateBlocks, End, vars, caseVars, kept, secret, names, http, EvidenceShape, IInv, Before, TypeOK, Entry
<1>4. CASE Probe
  BY <1>4, SameCase, PlanEntry DEF Probe, Verdicts, vars, caseVars, kept, secret, names, http, EvidenceShape, IInv, Before, TypeOK, Entry
<1>5. CASE GateDecides
  BY <1>5, SameCase, PlanEntry DEF GateDecides, Goes, End, Clean, vars, caseVars, kept, secret, names, http, EvidenceShape, IInv, Before, TypeOK, Entry
<1>6. CASE StateFree
  BY <1>6, SameCase, PlanEntry DEF StateFree, Goes, vars, caseVars, kept, secret, names, http, EvidenceShape, IInv, Before, TypeOK, Entry
<1>7. CASE StateRefused
  BY <1>7, SameCase, PlanEntry DEF StateRefused, End, Seedable, vars, caseVars, kept, secret, names, http, EvidenceShape, IInv, Before, TypeOK, Entry
<1>8. CASE RunSeed
  BY <1>8, SameCase, PlanEntry DEF RunSeed, Seedable, vars, caseVars, kept, secret, names, http, EvidenceShape, IInv, Before, TypeOK, Entry
<1>9. CASE StateReady
  BY <1>9, SameCase, PlanEntry DEF StateReady, Seedable, Learn, Goes, vars, caseVars, kept, secret, names, http, EvidenceShape, IInv, Before, TypeOK, Entry
<1>10. CASE Substitute
  BY <1>10, SameCase, PlanEntry DEF Substitute, Goes, End, vars, caseVars, kept, secret, names, http, EvidenceShape, IInv, Before, TypeOK, Entry
<1>11. CASE LogIn
  BY <1>11, SameCase, PlanEntry DEF LogIn, SessionSecrets, Learn, vars, caseVars, kept, secret, names, http, EvidenceShape, IInv, Before, TypeOK, Entry
<1>12. CASE NoSession
  BY <1>12, SameCase, PlanEntry DEF NoSession, End, vars, caseVars, kept, secret, names, http, EvidenceShape, IInv, Before, TypeOK, Entry
<1>13. CASE StartDriver
  BY <1>13, SameCase, PlanEntry DEF StartDriver, Goes, SessionCookies, vars, caseVars, kept, secret, names, http, EvidenceShape, IInv, Before, TypeOK, Entry
<1>14. CASE HeaderMissing
  BY <1>14, SameCase, PlanEntry DEF HeaderMissing, End, Driving, Here, Derives, NeedsHeader, vars, caseVars, kept, secret, names, http, EvidenceShape, IInv, Before, TypeOK, Entry
<1>15. CASE Send
  BY <1>15, SameCase, PlanEntry DEF Send, SessionSecrets, End, Goes, Driving, Here, Derives, NeedsHeader, Learn, FreshContext, vars, caseVars, kept, secret, names, http, EvidenceShape, IInv, Before, TypeOK, Entry
<1>16. CASE Query
  BY <1>16, SameCase, PlanEntry DEF Query, End, Goes, Driving, Here, Learn, vars, caseVars, kept, secret, names, http, EvidenceShape, IInv, Before, TypeOK, Entry
<1>17. CASE WriteEvidence
  <2>1. /\ Case' = Case /\ at' = at /\ at \in Nat \ {0} /\ evidence \in Seq(Nat) /\ Case.driver = "http"
        /\ at <= Len(Case.steps) /\ Len(evidence) = at - 1 /\ pc' \in {"ended", "compare"} /\ pc = "write"
    BY <1>17, SameCase DEF WriteEvidence, End, Goes, EvidenceShape, IInv, TypeOK
  <2>2. CASE evidence' = Append(evidence, at) /\ file'.step = at
    <3>1. Len(evidence') = at /\ \A j \in DOMAIN evidence' : evidence'[j] = j
      BY <2>1, <2>2 DEF EvidenceShape, IInv
    <3> QED BY <2>1, <2>2, <3>1 DEF EvidenceShape, Before
  <2>3. CASE evidence' = evidence /\ pc' = "ended"
    BY <2>1, <2>3 DEF EvidenceShape, Before, IInv
  <2> QED BY <1>17, <2>2, <2>3 DEF WriteEvidence, Pushed, End
<1>18. CASE Compare
  BY <1>18, SameCase, PlanEntry DEF Compare, End, vars, caseVars, kept, secret, names, http, EvidenceShape, IInv, Before, TypeOK, Entry
<1>19. CASE VisitPage
  BY <1>19, SameCase, PlanEntry DEF VisitPage, End, Driving, Here, vars, caseVars, kept, secret, names, http, EvidenceShape, IInv, Before, TypeOK, Entry
<1>20. CASE ReadMessage
  BY <1>20, SameCase, PlanEntry DEF ReadMessage, End, Driving, Here, Learn, vars, caseVars, kept, secret, names, http, EvidenceShape, IInv, Before, TypeOK, Entry
<1>21. CASE Pass
  BY <1>21, SameCase, PlanEntry DEF Pass, End, Whole, vars, caseVars, kept, secret, names, http, EvidenceShape, IInv, Before, TypeOK, Entry
<1>22. CASE StartCase
  BY <1>22, SameCase, PlanEntry DEF StartCase, vars, caseVars, kept, secret, names, http, EvidenceShape, IInv, Before, TypeOK, Entry
<1>23. CASE Elsewhere
  BY <1>23, SameCase, PlanEntry DEF Elsewhere, LogInElsewhere, vars, caseVars, kept, secret, names, http, EvidenceShape, IInv, Before, TypeOK, Entry
<1>24. CASE Ended
  BY <1>24, SameCase, PlanEntry DEF Ended, vars, caseVars, kept, secret, names, http, EvidenceShape, IInv, Before, TypeOK, Entry
<1>25. CASE UNCHANGED vars
  BY <1>25, SameCase, PlanEntry DEF vars, caseVars, kept, secret, names, http, EvidenceShape, IInv, Before, TypeOK
<1> QED BY <1>1, <1>2, <1>3, <1>4, <1>5, <1>6, <1>7, <1>8, <1>9, <1>10, <1>11, <1>12, <1>13, <1>14, <1>15, <1>16, <1>17, <1>18, <1>19, <1>20, <1>21, <1>22, <1>23, <1>24, <1>25 DEF Next, Gates, State, Login, Driver

(* What an anonymous step carries is empty from the start.                 *)
LEMMA MixStep == ASSUME IInv, [Next]_vars PROVE SessionsDoNotMix'
<1>1. CASE Refuse
  BY <1>1 DEF Refuse, End, vars, caseVars, kept, secret, names, http, SessionsDoNotMix, IInv, TypeOK
<1>2. CASE PassChecks
  BY <1>2 DEF PassChecks, Goes, vars, caseVars, kept, secret, names, http, SessionsDoNotMix, IInv, TypeOK
<1>3. CASE GateBlocks
  BY <1>3 DEF GateBlocks, End, vars, caseVars, kept, secret, names, http, SessionsDoNotMix, IInv, TypeOK
<1>4. CASE Probe
  BY <1>4 DEF Probe, Verdicts, vars, caseVars, kept, secret, names, http, SessionsDoNotMix, IInv, TypeOK
<1>5. CASE GateDecides
  BY <1>5 DEF GateDecides, Goes, End, Clean, vars, caseVars, kept, secret, names, http, SessionsDoNotMix, IInv, TypeOK
<1>6. CASE StateFree
  BY <1>6 DEF StateFree, Goes, vars, caseVars, kept, secret, names, http, SessionsDoNotMix, IInv, TypeOK
<1>7. CASE StateRefused
  BY <1>7 DEF StateRefused, End, Seedable, vars, caseVars, kept, secret, names, http, SessionsDoNotMix, IInv, TypeOK
<1>8. CASE RunSeed
  BY <1>8 DEF RunSeed, Seedable, vars, caseVars, kept, secret, names, http, SessionsDoNotMix, IInv, TypeOK
<1>9. CASE StateReady
  BY <1>9 DEF StateReady, Seedable, Learn, Goes, vars, caseVars, kept, secret, names, http, SessionsDoNotMix, IInv, TypeOK
<1>10. CASE Substitute
  BY <1>10 DEF Substitute, Goes, End, vars, caseVars, kept, secret, names, http, SessionsDoNotMix, IInv, TypeOK
<1>11. CASE LogIn
  BY <1>11 DEF LogIn, SessionSecrets, Learn, vars, caseVars, kept, secret, names, http, SessionsDoNotMix, IInv, TypeOK
<1>12. CASE NoSession
  BY <1>12 DEF NoSession, End, vars, caseVars, kept, secret, names, http, SessionsDoNotMix, IInv, TypeOK
<1>13. CASE StartDriver
  BY <1>13 DEF StartDriver, Goes, SessionCookies, vars, caseVars, kept, secret, names, http, SessionsDoNotMix, IInv, TypeOK
<1>14. CASE HeaderMissing
  BY <1>14 DEF HeaderMissing, End, Driving, Here, Derives, NeedsHeader, vars, caseVars, kept, secret, names, http, SessionsDoNotMix, IInv, TypeOK
<1>15. CASE Send
  BY <1>15 DEF Send, SessionSecrets, End, Goes, Driving, Here, Derives, NeedsHeader, Learn, FreshContext, vars, caseVars, kept, secret, names, http, SessionsDoNotMix, IInv, TypeOK
<1>16. CASE Query
  BY <1>16 DEF Query, End, Goes, Driving, Here, Learn, vars, caseVars, kept, secret, names, http, SessionsDoNotMix, IInv, TypeOK
<1>17. CASE WriteEvidence
  BY <1>17 DEF WriteEvidence, End, Goes, Masked, Pushed, vars, caseVars, kept, secret, names, http, SessionsDoNotMix, IInv, TypeOK
<1>18. CASE Compare
  BY <1>18 DEF Compare, End, vars, caseVars, kept, secret, names, http, SessionsDoNotMix, IInv, TypeOK
<1>19. CASE VisitPage
  BY <1>19 DEF VisitPage, End, Driving, Here, vars, caseVars, kept, secret, names, http, SessionsDoNotMix, IInv, TypeOK
<1>20. CASE ReadMessage
  BY <1>20 DEF ReadMessage, End, Driving, Here, Learn, vars, caseVars, kept, secret, names, http, SessionsDoNotMix, IInv, TypeOK
<1>21. CASE Pass
  BY <1>21 DEF Pass, End, Whole, vars, caseVars, kept, secret, names, http, SessionsDoNotMix, IInv, TypeOK
<1>22. CASE StartCase
  BY <1>22 DEF StartCase, vars, caseVars, kept, secret, names, http, SessionsDoNotMix, IInv, TypeOK
<1>23. CASE Elsewhere
  BY <1>23 DEF Elsewhere, LogInElsewhere, vars, caseVars, kept, secret, names, http, SessionsDoNotMix, IInv, TypeOK
<1>24. CASE Ended
  BY <1>24 DEF Ended, vars, caseVars, kept, secret, names, http, SessionsDoNotMix, IInv, TypeOK
<1>25. CASE UNCHANGED vars
  BY <1>25 DEF vars, caseVars, kept, secret, names, http, SessionsDoNotMix, IInv, TypeOK
<1> QED BY <1>1, <1>2, <1>3, <1>4, <1>5, <1>6, <1>7, <1>8, <1>9, <1>10, <1>11, <1>12, <1>13, <1>14, <1>15, <1>16, <1>17, <1>18, <1>19, <1>20, <1>21, <1>22, <1>23, <1>24, <1>25 DEF Next, Gates, State, Login, Driver

(* The evidence of a case that ended.                                      *)
LEMMA OwnEvidenceStep == ASSUME IInv, [Next]_vars PROVE EvidenceOfItsStep'
<1>1. CASE Refuse
  <2>1. pc' = "ended" /\ outcome' \in {"blocked", "needs-human"} /\ evidence' = << >>
    BY <1>1, RefusedWith DEF Refuse, End, EvidenceShape, IInv, Before, http
  <2> QED BY <2>1 DEF EvidenceOfItsStep
<1>2. CASE PassChecks
  BY <1>2, SameCase, PlanEntry DEF PassChecks, Goes, vars, caseVars, kept, secret, names, http, EvidenceOfItsStep, EvidenceShape, RefusalShape, IInv, TypeOK, Entry
<1>3. CASE GateBlocks
  BY <1>3, SameCase, PlanEntry DEF GateBlocks, End, vars, caseVars, kept, secret, names, http, EvidenceOfItsStep, EvidenceShape, RefusalShape, IInv, TypeOK, Entry
<1>4. CASE Probe
  BY <1>4, SameCase, PlanEntry DEF Probe, Verdicts, vars, caseVars, kept, secret, names, http, EvidenceOfItsStep, EvidenceShape, RefusalShape, IInv, TypeOK, Entry
<1>5. CASE GateDecides
  BY <1>5, SameCase, PlanEntry DEF GateDecides, Goes, End, Clean, vars, caseVars, kept, secret, names, http, EvidenceOfItsStep, EvidenceShape, RefusalShape, IInv, TypeOK, Entry
<1>6. CASE StateFree
  BY <1>6, SameCase, PlanEntry DEF StateFree, Goes, vars, caseVars, kept, secret, names, http, EvidenceOfItsStep, EvidenceShape, RefusalShape, IInv, TypeOK, Entry
<1>7. CASE StateRefused
  BY <1>7, SameCase, PlanEntry DEF StateRefused, End, Seedable, vars, caseVars, kept, secret, names, http, EvidenceOfItsStep, EvidenceShape, RefusalShape, IInv, TypeOK, Entry
<1>8. CASE RunSeed
  BY <1>8, SameCase, PlanEntry DEF RunSeed, Seedable, vars, caseVars, kept, secret, names, http, EvidenceOfItsStep, EvidenceShape, RefusalShape, IInv, TypeOK, Entry
<1>9. CASE StateReady
  BY <1>9, SameCase, PlanEntry DEF StateReady, Seedable, Learn, Goes, vars, caseVars, kept, secret, names, http, EvidenceOfItsStep, EvidenceShape, RefusalShape, IInv, TypeOK, Entry
<1>10. CASE Substitute
  BY <1>10, SameCase, PlanEntry DEF Substitute, Goes, End, vars, caseVars, kept, secret, names, http, EvidenceOfItsStep, EvidenceShape, RefusalShape, IInv, TypeOK, Entry
<1>11. CASE LogIn
  BY <1>11, SameCase, PlanEntry DEF LogIn, SessionSecrets, Learn, vars, caseVars, kept, secret, names, http, EvidenceOfItsStep, EvidenceShape, RefusalShape, IInv, TypeOK, Entry
<1>12. CASE NoSession
  BY <1>12, SameCase, PlanEntry DEF NoSession, End, vars, caseVars, kept, secret, names, http, EvidenceOfItsStep, EvidenceShape, RefusalShape, IInv, TypeOK, Entry
<1>13. CASE StartDriver
  BY <1>13, SameCase, PlanEntry DEF StartDriver, Goes, SessionCookies, vars, caseVars, kept, secret, names, http, EvidenceOfItsStep, EvidenceShape, RefusalShape, IInv, TypeOK, Entry
<1>14. CASE HeaderMissing
  BY <1>14, SameCase, PlanEntry DEF HeaderMissing, End, Driving, Here, Derives, NeedsHeader, vars, caseVars, kept, secret, names, http, EvidenceOfItsStep, EvidenceShape, RefusalShape, IInv, TypeOK, Entry
<1>15. CASE Send
  BY <1>15, SameCase, PlanEntry DEF Send, SessionSecrets, End, Goes, Driving, Here, Derives, NeedsHeader, Learn, FreshContext, vars, caseVars, kept, secret, names, http, EvidenceOfItsStep, EvidenceShape, RefusalShape, IInv, TypeOK, Entry
<1>16. CASE Query
  BY <1>16, SameCase, PlanEntry DEF Query, End, Goes, Driving, Here, Learn, vars, caseVars, kept, secret, names, http, EvidenceOfItsStep, EvidenceShape, RefusalShape, IInv, TypeOK, Entry
<1>17. CASE WriteEvidence
  BY <1>17, SameCase, PlanEntry DEF WriteEvidence, End, Goes, Masked, Pushed, vars, caseVars, kept, secret, names, http, EvidenceOfItsStep, EvidenceShape, RefusalShape, IInv, TypeOK, Entry
<1>18. CASE Compare
  BY <1>18, SameCase, PlanEntry DEF Compare, End, vars, caseVars, kept, secret, names, http, EvidenceOfItsStep, EvidenceShape, RefusalShape, IInv, TypeOK, Entry
<1>19. CASE VisitPage
  BY <1>19, SameCase, PlanEntry DEF VisitPage, End, Driving, Here, vars, caseVars, kept, secret, names, http, EvidenceOfItsStep, EvidenceShape, RefusalShape, IInv, TypeOK, Entry
<1>20. CASE ReadMessage
  BY <1>20, SameCase, PlanEntry DEF ReadMessage, End, Driving, Here, Learn, vars, caseVars, kept, secret, names, http, EvidenceOfItsStep, EvidenceShape, RefusalShape, IInv, TypeOK, Entry
<1>21. CASE Pass
  BY <1>21, SameCase, PlanEntry DEF Pass, End, Whole, vars, caseVars, kept, secret, names, http, EvidenceOfItsStep, EvidenceShape, RefusalShape, IInv, TypeOK, Entry
<1>22. CASE StartCase
  BY <1>22, SameCase, PlanEntry DEF StartCase, vars, caseVars, kept, secret, names, http, EvidenceOfItsStep, EvidenceShape, RefusalShape, IInv, TypeOK, Entry
<1>23. CASE Elsewhere
  BY <1>23, SameCase, PlanEntry DEF Elsewhere, LogInElsewhere, vars, caseVars, kept, secret, names, http, EvidenceOfItsStep, EvidenceShape, RefusalShape, IInv, TypeOK, Entry
<1>24. CASE Ended
  BY <1>24, SameCase, PlanEntry DEF Ended, vars, caseVars, kept, secret, names, http, EvidenceOfItsStep, EvidenceShape, RefusalShape, IInv, TypeOK, Entry
<1>25. CASE UNCHANGED vars
  BY <1>25, SameCase, PlanEntry DEF vars, caseVars, kept, secret, names, http, EvidenceOfItsStep, EvidenceShape, RefusalShape, IInv, TypeOK
<1> QED BY <1>1, <1>2, <1>3, <1>4, <1>5, <1>6, <1>7, <1>8, <1>9, <1>10, <1>11, <1>12, <1>13, <1>14, <1>15, <1>16, <1>17, <1>18, <1>19, <1>20, <1>21, <1>22, <1>23, <1>24, <1>25 DEF Next, Gates, State, Login, Driver

(* A step of the driver that leaves the names alone.                       *)
LEMMA NamesKept ==
  ASSUME IInv, UNCHANGED <<plan, world, cur, seeds, captured, names>>, at' \in {at, at + 1},
         pc' \in {"ended"} \cup Driven, pc \in {"session"} \cup Driven
  PROVE  NamesShape'
<1>1. Case' = Case /\ \A n : BoundBefore(n) => BoundBefore(n)'
  BY SameCase, StaysBound DEF IInv
<1> QED BY <1>1 DEF IInv, NamesShape, names, Before, Driven


(* Names, captures and messages.                                           *)
LEMMA NamesStep == ASSUME IInv, [Next]_vars PROVE NamesShape'
<1>1. CASE Refuse
  BY <1>1, SameCase, PlanEntry, ConstantsAssumption DEF Refuse, End, vars, caseVars, kept, secret, names, http, NamesShape, IInv, TypeOK, Before, Driven, Substituted, Seeded, Bound, BoundBefore, Nobody, Entry
<1>2. CASE PassChecks
  BY <1>2, SameCase, PlanEntry, ConstantsAssumption DEF PassChecks, Goes, vars, caseVars, kept, secret, names, http, NamesShape, IInv, TypeOK, Before, Driven, Substituted, Seeded, Bound, BoundBefore, Nobody, Entry
<1>3. CASE GateBlocks
  BY <1>3, SameCase, PlanEntry, ConstantsAssumption DEF GateBlocks, End, vars, caseVars, kept, secret, names, http, NamesShape, IInv, TypeOK, Before, Driven, Substituted, Seeded, Bound, BoundBefore, Nobody, Entry
<1>4. CASE Probe
  BY <1>4, SameCase, PlanEntry, ConstantsAssumption DEF Probe, Verdicts, vars, caseVars, kept, secret, names, http, NamesShape, IInv, TypeOK, Before, Driven, Substituted, Seeded, Bound, BoundBefore, Nobody, Entry
<1>5. CASE GateDecides
  BY <1>5, SameCase, PlanEntry, ConstantsAssumption DEF GateDecides, Goes, End, Clean, vars, caseVars, kept, secret, names, http, NamesShape, IInv, TypeOK, Before, Driven, Substituted, Seeded, Bound, BoundBefore, Nobody, Entry
<1>6. CASE StateFree
  BY <1>6, SameCase, PlanEntry, ConstantsAssumption DEF StateFree, Goes, vars, caseVars, kept, secret, names, http, NamesShape, IInv, TypeOK, Before, Driven, Substituted, Seeded, Bound, BoundBefore, Nobody, Entry
<1>7. CASE StateRefused
  BY <1>7, SameCase, PlanEntry, ConstantsAssumption DEF StateRefused, End, Seedable, vars, caseVars, kept, secret, names, http, NamesShape, IInv, TypeOK, Before, Driven, Substituted, Seeded, Bound, BoundBefore, Nobody, Entry
<1>8. CASE RunSeed
  <2>1. /\ Case.text \in Texts /\ pc = "state" /\ pc' = "state" /\ seeds[Case.text] = "none" /\ UNCHANGED names
    BY <1>8, PlanEntry DEF RunSeed, Entry, IInv, vars, caseVars, kept, secret, names, http
  <2>2. CASE seeds' = [seeds EXCEPT ![Case.text] = "failed"] /\ UNCHANGED captured
    <3>1. \A t \in Texts : \A n \in Names : (captured'[t][n] # None) = (seeds'[t] = "ok" /\ n \in Captures[t])
      BY <2>1, <2>2 DEF IInv, TypeOK, NamesShape
    <3> QED BY <2>1, <3>1 DEF IInv, NamesShape, Before, Driven, names, Nobody
  <2>3. ASSUME NEW b \in Binding, seeds' = [seeds EXCEPT ![Case.text] = "ok"],
               captured' = [captured EXCEPT ![Case.text] = Captured(b)]
        PROVE  NamesShape'
    <3>1. \A n \in Names : (Captured(b)[n] # None) = (n \in Captures[Case.text])
      BY <2>1, ConstantsAssumption DEF Captured, Binding, Secrets
    <3>2. \A t \in Texts : \A n \in Names : (captured'[t][n] # None) = (seeds'[t] = "ok" /\ n \in Captures[t])
      BY <2>1, <2>3, <3>1 DEF IInv, TypeOK, NamesShape
    <3> QED BY <2>1, <3>2 DEF IInv, NamesShape, Before, Driven, names, Nobody
  <2> QED BY <1>8, <2>2, <2>3 DEF RunSeed
<1>9. CASE StateReady
  BY <1>9, SameCase, PlanEntry, ConstantsAssumption DEF StateReady, Seedable, Learn, Goes, vars, caseVars, kept, secret, names, http, NamesShape, IInv, TypeOK, Before, Driven, Substituted, Seeded, Bound, BoundBefore, Nobody, Entry
<1>10. CASE Substitute
  BY <1>10, SameCase, PlanEntry, ConstantsAssumption DEF Substitute, Goes, End, vars, caseVars, kept, secret, names, http, NamesShape, IInv, TypeOK, Before, Driven, Substituted, Seeded, Bound, BoundBefore, Nobody, Entry
<1>11. CASE LogIn
  BY <1>11, SameCase, PlanEntry, ConstantsAssumption DEF LogIn, SessionSecrets, Learn, vars, caseVars, kept, secret, names, http, NamesShape, IInv, TypeOK, Before, Driven, Substituted, Seeded, Bound, BoundBefore, Nobody, Entry
<1>12. CASE NoSession
  BY <1>12, SameCase, PlanEntry, ConstantsAssumption DEF NoSession, End, vars, caseVars, kept, secret, names, http, NamesShape, IInv, TypeOK, Before, Driven, Substituted, Seeded, Bound, BoundBefore, Nobody, Entry
<1>13. CASE StartDriver
  <2>1. /\ UNCHANGED <<plan, world, cur, seeds, captured, names>> /\ at' \in {at, at + 1}
        /\ pc' \in {"ended", "step"} /\ pc \in {"session"}
    BY <1>13 DEF StartDriver, Goes, SessionCookies, vars, caseVars, kept, secret, names, http
  <2> QED BY <1>13, <2>1, NamesKept DEF IInv, Driven
<1>14. CASE HeaderMissing
  <2>1. /\ UNCHANGED <<plan, world, cur, seeds, captured, names>> /\ at' \in {at, at + 1}
        /\ pc' \in {"ended", "ended"} /\ pc \in {"step"}
    BY <1>14 DEF HeaderMissing, End, Driving, Here, Derives, NeedsHeader, vars, caseVars, kept, secret, names, http
  <2> QED BY <1>14, <2>1, NamesKept DEF IInv, Driven
<1>15. CASE Send
  <2>1. /\ UNCHANGED <<plan, world, cur, seeds, captured, names>> /\ at' \in {at, at + 1}
        /\ pc' \in {"ended", "write"} /\ pc \in {"step"}
    BY <1>15 DEF Send, SessionSecrets, End, Goes, Driving, Here, Derives, NeedsHeader, Learn, FreshContext, vars, caseVars, kept, secret, names, http
  <2> QED BY <1>15, <2>1, NamesKept DEF IInv, Driven
<1>16. CASE Query
  <2>1. /\ UNCHANGED <<plan, world, cur, seeds, captured, names>> /\ at' \in {at, at + 1}
        /\ pc' \in {"ended", "write"} /\ pc \in {"step"}
    BY <1>16 DEF Query, End, Goes, Driving, Here, Learn, vars, caseVars, kept, secret, names, http
  <2> QED BY <1>16, <2>1, NamesKept DEF IInv, Driven
<1>17. CASE WriteEvidence
  <2>1. /\ UNCHANGED <<plan, world, cur, seeds, captured, names>> /\ at' \in {at, at + 1}
        /\ pc' \in {"ended", "compare"} /\ pc \in {"write"}
    BY <1>17 DEF WriteEvidence, End, Goes, Masked, Pushed, vars, caseVars, kept, secret, names, http
  <2> QED BY <1>17, <2>1, NamesKept DEF IInv, Driven
<1>18. CASE Compare
  <2>1. /\ UNCHANGED <<plan, world, cur, seeds, captured, names>> /\ at' \in {at, at + 1}
        /\ pc' \in {"ended", "step"} /\ pc \in {"compare"}
    BY <1>18 DEF Compare, End, vars, caseVars, kept, secret, names, http
  <2> QED BY <1>18, <2>1, NamesKept DEF IInv, Driven
<1>19. CASE VisitPage
  <2>1. /\ UNCHANGED <<plan, world, cur, seeds, captured, names>> /\ at' \in {at, at + 1}
        /\ pc' \in {"ended", "step"} /\ pc \in {"step"}
    BY <1>19 DEF VisitPage, End, Driving, Here, vars, caseVars, kept, secret, names, http
  <2> QED BY <1>19, <2>1, NamesKept DEF IInv, Driven
<1>20. CASE ReadMessage
  <2>1. /\ UNCHANGED <<plan, world, cur, seeds, captured>> /\ at' \in {at, at + 1}
        /\ pc' \in {"ended", "step"} /\ pc = "step"
    BY <1>20 DEF ReadMessage, Driving, End, vars, caseVars, kept, secret, names, http
  <2>2. CASE UNCHANGED names
    BY <2>1, <2>2, NamesKept DEF IInv, Driven
  <2>3. ASSUME NEW v \in Values, meant' = [meant EXCEPT ![Here.name] = v], at' = at + 1,
               env' = [env EXCEPT ![Here.name] = IF env[Here.name] = None THEN v ELSE env[Here.name]]
        PROVE  NamesShape'
    <3>1. /\ at \in DOMAIN Case.steps /\ Case.steps[at].act = "read" /\ Here = Case.steps[at]
          /\ at \in Nat \ {0}
      BY <1>20, PlanEntry DEF ReadMessage, Driving, Here, IInv, TypeOK, Entry
    <3>0. PICK m : m = Here.name
      OBVIOUS
    <3>2. m \in Names /\ ~BoundBefore(m)
      <4>1. m \in Names \ Bound(Case)
        BY <3>0, <3>1, ReadNames DEF IInv
      <4>2. ASSUME NEW i \in 1..(at - 1), Case.steps[i].act = "read", Case.steps[i].name = m
            PROVE  FALSE
        <5>1. i \in DOMAIN Case.steps /\ i # at
          BY <3>1, PlanEntry DEF IInv, Entry
        <5> QED BY <3>0, <3>1, <4>2, <5>1, ReadNames DEF IInv
      <4> QED BY <4>1, <4>2 DEF BoundBefore
    <3>3. BoundBefore(m)'
      <4>1. Case' = Case /\ at \in 1..(at' - 1)
        BY <2>1, <2>3, <3>1 DEF Case
      <4>2. \E i \in 1..(at' - 1) : Case'.steps[i].act = "read" /\ Case'.steps[i].name = m
        BY <3>0, <3>1, <4>1
      <4> QED BY <4>2 DEF BoundBefore
    <3>4. CASE Case.state = "declared"
      <4>1. \A n \in Names : env[n] = meant[n] /\ (env[n] # None => BoundBefore(n))
        BY <2>1, <3>4 DEF IInv, NamesShape, Driven
      <4>2. env[m] = None /\ meant' = [meant EXCEPT ![m] = v] /\ env' = [env EXCEPT ![m] = v]
        BY <2>3, <3>0, <3>2, <4>1
      <4>3. \A n \in Names : BoundBefore(n) => BoundBefore(n)'
        BY <2>1, StaysBound DEF IInv
      <4>4. \A n \in Names : env'[n] = meant'[n] /\ (env'[n] # None => BoundBefore(n)')
        BY <3>2, <3>3, <4>1, <4>2, <4>3 DEF IInv, TypeOK
      <4> QED BY <2>1, <4>4 DEF IInv, NamesShape, Before, Driven
    <3>5. CASE Case.state # "declared"
      <4>1. Case'.state # "declared"
        BY <2>1, <3>5 DEF Case
      <4> QED BY <2>1, <4>1 DEF IInv, NamesShape, Before, Driven
    <3> QED BY <3>4, <3>5
  <2> QED BY <1>20, <2>1, <2>2, <2>3 DEF ReadMessage
<1>21. CASE Pass
  <2>1. /\ UNCHANGED <<plan, world, cur, seeds, captured, names>> /\ at' \in {at, at + 1}
        /\ pc' \in {"ended", "ended"} /\ pc \in {"step"}
    BY <1>21 DEF Pass, End, Whole, vars, caseVars, kept, secret, names, http
  <2> QED BY <1>21, <2>1, NamesKept DEF IInv, Driven
<1>22. CASE StartCase
  BY <1>22, SameCase, PlanEntry, ConstantsAssumption DEF StartCase, vars, caseVars, kept, secret, names, http, NamesShape, IInv, TypeOK, Before, Driven, Substituted, Seeded, Bound, BoundBefore, Nobody, Entry
<1>23. CASE Elsewhere
  BY <1>23, SameCase, PlanEntry, ConstantsAssumption DEF Elsewhere, LogInElsewhere, vars, caseVars, kept, secret, names, http, NamesShape, IInv, TypeOK, Before, Driven, Substituted, Seeded, Bound, BoundBefore, Nobody, Entry
<1>24. CASE Ended
  BY <1>24, SameCase, PlanEntry, ConstantsAssumption DEF Ended, vars, caseVars, kept, secret, names, http, NamesShape, IInv, TypeOK, Before, Driven, Substituted, Seeded, Bound, BoundBefore, Nobody, Entry
<1>25. CASE UNCHANGED vars
  <2>1. UNCHANGED <<plan, world, cur, seeds, captured, names, at, pc>> /\ Case' = Case
    BY <1>25, SameCase DEF vars, caseVars, kept, secret, names, http
  <2>2. \A n : BoundBefore(n) => BoundBefore(n)'
    BY <2>1, StaysBound DEF IInv
  <2> QED BY <2>1, <2>2 DEF IInv, NamesShape, names, Before, Driven, Substituted, Seeded
<1> QED BY <1>1, <1>2, <1>3, <1>4, <1>5, <1>6, <1>7, <1>8, <1>9, <1>10, <1>11, <1>12, <1>13, <1>14, <1>15, <1>16, <1>17, <1>18, <1>19, <1>20, <1>21, <1>22, <1>23, <1>24, <1>25 DEF Next, Gates, State, Login, Driver

(* The invariant holds from the start.                                     *)
LEMMA InitInv == Init => IInv
<1> SUFFICES ASSUME Init PROVE IInv
  OBVIOUS
<1>1. TypeOK
  BY ConstantsAssumption DEF Init, TypeOK, Nobody, Logins
<1>2. Case \in Entry
  BY <1>1, PlanEntry
<1>3. EvidenceShape
  BY <1>2 DEF Init, EvidenceShape, Before, Driven, Entry
<1>4. RefusalShape /\ StateShape /\ GateShape /\ SecretShape
  BY DEF Init, RefusalShape, StateShape, GateShape, SecretShape, Before, Later, Driven, Outward
<1>5. NamesShape /\ SessionsDoNotMix /\ EvidenceOfItsStep
  BY DEF Init, NamesShape, SessionsDoNotMix, EvidenceOfItsStep, Before, Driven, Nobody
<1> QED BY <1>1, <1>3, <1>4, <1>5 DEF IInv

LEMMA Invariant == Spec => []IInv
<1>1. IInv /\ [Next]_vars => IInv'
  BY TypeStep, RefusalStep, SecretStep, GateStep, StateStep, EvidenceStep, MixStep, OwnEvidenceStep, NamesStep DEF IInv
<1> QED BY InitInv, <1>1, PTL DEF Spec

-----------------------------------------------------------------------------
(* Every variable keeps its type, whatever the cases and the answers are.  *)
THEOREM TypeCorrect == Spec => []TypeOK
<1>1. IInv => TypeOK
  BY DEF IInv
<1> QED BY Invariant, <1>1, PTL

(* Nothing outside is touched for a case that can be known not to run.     *)
THEOREM RefusedUntouched == Spec => []RefusedIsUntouched
<1>1. IInv => RefusedIsUntouched
  <2> SUFFICES ASSUME IInv PROVE RefusedIsUntouched
    OBVIOUS
  <2>1. Refusals = {} => Sound
    BY PlanEntry DEF Refusals, Sound, WritesAllowed, StepsSound, ReachesLocal, IInv, Entry
  <2> QED BY <2>1, PlanEntry DEF IInv, RefusalShape, StateShape, Outward, RefusedIsUntouched, Sound, Entry
<1> QED BY Invariant, <1>1, PTL

(* A gated browser case acts on a target found clean, and on no other.     *)
THEOREM SessionProven == Spec => []ProvesItsSession
<1>1. IInv => ProvesItsSession
  BY DEF IInv, GateShape, ProvesItsSession
<1> QED BY Invariant, <1>1, PTL

(* Requests with and without a session never share a cookie or a header.   *)
THEOREM SessionsApart == Spec => []SessionsDoNotMix
<1>1. IInv => SessionsDoNotMix
  BY DEF IInv
<1> QED BY Invariant, <1>1, PTL

(* The evidence of a step is its own, and a pass has it for every step.    *)
THEOREM EvidenceIsOwn == Spec => []EvidenceOfItsStep
<1>1. IInv => EvidenceOfItsStep
  BY DEF IInv
<1> QED BY Invariant, <1>1, PTL

(* In a case that seeds its state, names stand for what they are bound to. *)
THEOREM NamesMeant == Spec => []SeededNamesAreTheirs
<1>1. IInv => SeededNamesAreTheirs
  BY DEF IInv, NamesShape, SeededNamesAreTheirs, Driven
<1> QED BY Invariant, <1>1, PTL

(* No file written shows a secret learnt before.                           *)
THEOREM SecretsMasked == Spec => KnownSecretsAreMasked
<1>1. ASSUME IInv, [Next]_vars, file' # file
      PROVE  file'.shows \cap (learnt' \ Short) = {}
  <2>1. WriteEvidence \/ StartCase
    BY <1>1 DEF Next, Gates, State, Login, Driver, Elsewhere, Refuse, PassChecks, GateBlocks, Probe, GateDecides,
       StateFree, StateRefused, RunSeed, StateReady, Substitute, LogIn, NoSession, StartDriver, HeaderMissing,
       Send, Query, Compare, VisitPage, ReadMessage, Pass, Ended, LogInElsewhere, vars, http
  <2>2. CASE WriteEvidence
    <3>1. file' = [step |-> at, shows |-> shown \ table] /\ UNCHANGED <<learnt, table>>
      BY <1>1, <2>2 DEF WriteEvidence, Masked, secret
    <3> QED BY <1>1, <3>1 DEF IInv, SecretShape
  <2>3. CASE StartCase
    BY <2>3 DEF StartCase
  <2> QED BY <2>1, <2>2, <2>3
<1> QED BY <1>1, Invariant, PTL DEF KnownSecretsAreMasked, Spec

=============================================================================
