--------------------------- MODULE QaRun_proofs ---------------------------
(***************************************************************************)
(* The safety properties of QaRun, for every number of cases, every set of *)
(* roles and states, every cap and every number of retries; and those of   *)
(* QaReportRun, for reports of any number of lines.                        *)
(***************************************************************************)
EXTENDS QaReportRun, FiniteSetTheorems, SequenceTheorems, WellFoundedInduction, TLAPS

(* The part of the invariant that is about the entries and the end.        *)
EndShape == EntriesShape /\ AbortShape /\ ExitZeroIsComplete /\ AbortedIsTail

(* The part that is about what the run keeps and how often it ran.         *)
KeptShape == CacheShape /\ SeededOnce /\ LoginsBounded

(* The invariant holds before the first case.                              *)
LEMMA Initially == Init => RInv
<1> SUFFICES ASSUME Init PROVE RInv
  OBVIOUS
<1> USE ConstantsAssumption DEF Case
<1>1. TypeOK
  <2>1. maxCases \in Caps /\ plan \in Plans /\ playwright \in BOOLEAN /\ entries \in Seq(Entry) /\ Len(entries) = 0
    BY DEF Init
  <2>2. /\ seeds \in [States -> {"none", "ok", "failed"}] /\ seedRuns \in [States -> 0..2]
        /\ sessions \in [Roles -> {"none", "ok", "failed"}]
        /\ scriptRuns \in [Roles -> 0..(MaxRetries + 2)]
    BY DEF Init
  <2>3. cur \in 1..(N + 1) /\ tries \in 0..MaxRetries /\ Len(entries) <= N
    <3>1. cur = 1 /\ tries = 0
      BY DEF Init
    <3> QED
      BY <2>1, <3>1
  <2>4. (results = None \/ results \in [Case -> Entry]) /\ exitCode \in {None, 0, 1}
    BY DEF Init
  <2>5. /\ pc \in {"loop", "gates", "state", "session", "script", "again", "drive", "end", "done"}
        /\ signal \in {"none", "sent", "seen"} /\ aborted \in BOOLEAN
    BY DEF Init
  <2> QED
    BY <2>1, <2>2, <2>3, <2>4, <2>5 DEF TypeOK
<1>2. EntriesShape /\ AbortShape /\ AbortedIsTail /\ ExitZeroIsComplete
  <2>1. Len(entries) = 0 /\ results = None /\ exitCode = None /\ exitCode # 0 /\ pc = "loop" /\ cur = 1
    BY NoneAssumption DEF Init
  <2>2. EntriesShape
    BY <2>1 DEF EntriesShape, InCase
  <2> QED
    BY <2>1, <2>2 DEF AbortShape, AbortedIsTail, ExitZeroIsComplete
<1>3. CacheShape /\ SeededOnce /\ LoginsBounded
  BY DEF Init, CacheShape, SeededOnce, LoginsBounded
<1> QED
  BY <1>1, <1>2, <1>3 DEF RInv

(* What Push does to the entries.                                          *)
LEMMA Pushed ==
  ASSUME TypeOK, cur \in Case, Len(entries) = cur - 1, NEW why \in Why, Push(why)
  PROVE  /\ entries' \in Seq(Entry) /\ Len(entries') = cur /\ cur' = cur + 1
         /\ entries'[cur] = [case |-> cur, why |-> why]
         /\ \A i \in 1..(cur - 1) : entries'[i] = entries[i]
<1>1. [case |-> cur, why |-> why] \in Entry
  BY DEF Entry
<1> QED
  BY <1>1, ConstantsAssumption DEF TypeOK, Push, Case

(***************************************************************************)
(* A case that ends otherwise than by being given up: no entry before it   *)
(* was given up either.                                                    *)
(***************************************************************************)
LEMMA PushedShape ==
  ASSUME RInv, NEW why \in Why \ {"aborted"}, Push(why), cur <= N,
         (pc = "loop" /\ ~Stops) \/ InCase, UNCHANGED <<aborted, results, exitCode>>
  PROVE  entries' \in Seq(Entry) /\ Len(entries') <= N /\ cur' \in 1..(N + 1) /\ EndShape'
<1> USE ConstantsAssumption DEF Case
<1>1. TypeOK /\ cur \in Case /\ Len(entries) = cur - 1 /\ pc \notin {"end", "done"}
  BY DEF RInv, TypeOK, EntriesShape, InCase
<1>2. /\ entries' \in Seq(Entry) /\ Len(entries') = cur /\ cur' = cur + 1
      /\ entries'[cur] = [case |-> cur, why |-> why]
      /\ \A i \in 1..(cur - 1) : entries'[i] = entries[i]
  BY <1>1, Pushed
<1>3. pc' = "loop"
  BY DEF Push
<1>4. \A i \in 1..Len(entries) : entries[i].why # "aborted"
  BY DEF RInv, AbortShape, InCase
<1>5. \A i \in 1..Len(entries') : entries'[i].why # "aborted"
  BY <1>1, <1>2, <1>4
<1>6. EntriesShape'
  BY <1>1, <1>2, <1>3 DEF RInv, EntriesShape, InCase
<1>7. AbortShape' /\ AbortedIsTail'
  BY <1>5 DEF AbortShape, AbortedIsTail
<1>8. ExitZeroIsComplete'
  BY DEF RInv, ExitZeroIsComplete
<1> QED
  BY <1>1, <1>2, <1>6, <1>7, <1>8 DEF EndShape

(* A step inside a case that adds no entry.                                *)
LEMMA StayedShape ==
  ASSUME RInv, InCase \/ (pc = "loop" /\ cur <= N /\ ~Stops), InCase',
         UNCHANGED <<cur, entries, aborted, results, exitCode>>
  PROVE  EndShape'
BY DEF RInv, EndShape, EntriesShape, AbortShape, AbortedIsTail, ExitZeroIsComplete, InCase

(* A step that neither runs nor caches anything, outside the retry of a    *)
(* login script.                                                           *)
LEMMA CachesKept ==
  ASSUME RInv, pc \notin {"script", "again"}, pc' \notin {"script", "again"}, tries' = 0,
         UNCHANGED <<seeds, sessions, seedRuns, scriptRuns>>
  PROVE  KeptShape'
BY DEF RInv, KeptShape, CacheShape, SeededOnce, LoginsBounded
(* What the finally block makes of the entries.                            *)
LEMMA PaddedShape ==
  ASSUME RInv, pc = "end"
  PROVE  /\ Padded \in Seq(Entry) /\ Padded \in [Case -> Entry] /\ Padded # None
         /\ Len(Padded) = N /\ Len(entries) <= N
         /\ \A i \in Case : Padded[i].case = i
         /\ \A i \in 1..Len(entries) : Padded[i] = entries[i]
         /\ \A i \in Case : i > Len(entries) => Padded[i].why = "aborted"
<1> USE ConstantsAssumption DEF Case
<1>1. entries \in Seq(Entry) /\ Len(entries) <= N /\ \A i \in 1..Len(entries) : entries[i] \in Entry
  BY DEF RInv, TypeOK
<1>2. \A i \in Case : [case |-> i, why |-> "aborted"] \in Entry
  BY DEF Entry, Why
<1>3. Padded \in [Case -> Entry]
  BY <1>1, <1>2 DEF Padded
<1>4. Padded \in Seq(Entry) /\ Len(Padded) = N
  BY <1>3
<1>5. \A i \in 1..Len(entries) : Padded[i] = entries[i]
  BY <1>1 DEF Padded
<1>6. \A i \in Case : i > Len(entries) => Padded[i] = [case |-> i, why |-> "aborted"]
  BY <1>1 DEF Padded
<1>7. \A i \in Case : Padded[i].case = i
  <2>1. \A i \in 1..Len(entries) : entries[i].case = i
    BY DEF RInv, EntriesShape
  <2>2. Len(entries) \in Nat
    BY <1>1
  <2> SUFFICES ASSUME NEW i \in Case PROVE Padded[i].case = i
    OBVIOUS
  <2>3. CASE i <= Len(entries)
    BY <1>5, <2>1, <2>2, <2>3
  <2>4. CASE i > Len(entries)
    <3>1. Padded[i] = [case |-> i, why |-> "aborted"]
      BY <1>6, <2>4
    <3> QED
      BY <3>1
  <2> QED
    BY <2>2, <2>3, <2>4
<1> QED
  BY <1>1, <1>3, <1>4, <1>5, <1>6, <1>7, NoneAssumption

(* The end of the run: the entries are padded, and published or not.       *)
LEMMA EndedShape ==
  ASSUME RInv, pc = "end", pc' = "done", entries' = Padded,
         results' = None \/ results' = Padded,
         aborted' \in BOOLEAN, exitCode' \in {None, 0, 1}, ExitZeroIsComplete',
         UNCHANGED <<maxCases, plan, playwright, cur, tries, signal, cacheVars, history>>
  PROVE  RInv'
<1> USE ConstantsAssumption DEF Case, cacheVars, history
<1>1. /\ Padded \in Seq(Entry) /\ Padded \in [Case -> Entry] /\ Padded # None
      /\ Len(Padded) = N /\ Len(entries) <= N
      /\ \A i \in Case : Padded[i].case = i
      /\ \A i \in 1..Len(entries) : Padded[i] = entries[i]
      /\ \A i \in Case : i > Len(entries) => Padded[i].why = "aborted"
  BY PaddedShape
<1>2. TypeOK'
  BY <1>1 DEF RInv, TypeOK
<1>3. EntriesShape' /\ AbortShape'
  BY <1>1 DEF EntriesShape, AbortShape, InCase
<1>4. AbortedIsTail'
  <2>1. Len(entries) \in Nat
    BY DEF RInv, TypeOK
  <2> QED
    BY <1>1, <2>1 DEF RInv, AbortedIsTail
<1>5. KeptShape'
  <2>1. tries = 0
    BY DEF RInv, CacheShape
  <2> QED
    BY <2>1, CachesKept
<1> QED
  BY <1>2, <1>3, <1>4, <1>5 DEF RInv, KeptShape

(***************************************************************************)
(* RInv is inductive: one step per action.                                 *)
(***************************************************************************)
LEMMA Inductive == RInv /\ [Next]_vars => RInv'
<1> SUFFICES ASSUME RInv, [Next]_vars PROVE RInv'
  OBVIOUS
<1> USE ConstantsAssumption, NoneAssumption
    DEF Case, caseVars, cacheVars, endVars, history
<1>0. TypeOK /\ CacheShape /\ EntriesShape /\ (pc \notin {"script", "again"} => tries = 0)
  BY DEF RInv, CacheShape
<1>1. CASE CountIncomplete
  <2>1. /\ \E why \in Why \ {"aborted"} : Push(why)
        /\ cur <= N /\ ((pc = "loop" /\ ~Stops) \/ InCase) /\ pc \notin {"script", "again"}
        /\ UNCHANGED <<maxCases, plan, playwright, signal, cacheVars, aborted, results, exitCode, history>>
    BY <1>0, <1>1 DEF CountIncomplete, Why, EntriesShape, InCase
  <2>2. /\ entries' \in Seq(Entry) /\ Len(entries') <= N /\ cur' \in 1..(N + 1)
        /\ EndShape'
    BY <2>1, PushedShape
  <2>3. pc' = "loop" /\ tries' = 0
    BY <2>1 DEF Push
  <2>4. KeptShape'
    BY <2>1, <2>3, CachesKept
  <2>5. TypeOK'
    BY <1>0, <2>1, <2>2, <2>3 DEF TypeOK
  <2> QED
    BY <2>2, <2>4, <2>5 DEF RInv, EndShape, KeptShape
<1>2. CASE ResolveFromRecord
  <2>1. /\ \E why \in Why \ {"aborted"} : Push(why)
        /\ cur <= N /\ ((pc = "loop" /\ ~Stops) \/ InCase) /\ pc \notin {"script", "again"}
        /\ UNCHANGED <<maxCases, plan, playwright, signal, cacheVars, aborted, results, exitCode, history>>
    BY <1>0, <1>2 DEF ResolveFromRecord, Why, EntriesShape, InCase
  <2>2. /\ entries' \in Seq(Entry) /\ Len(entries') <= N /\ cur' \in 1..(N + 1)
        /\ EndShape'
    BY <2>1, PushedShape
  <2>3. pc' = "loop" /\ tries' = 0
    BY <2>1 DEF Push
  <2>4. KeptShape'
    BY <2>1, <2>3, CachesKept
  <2>5. TypeOK'
    BY <1>0, <2>1, <2>2, <2>3 DEF TypeOK
  <2> QED
    BY <2>2, <2>4, <2>5 DEF RInv, EndShape, KeptShape
<1>3. CASE Refuse
  <2>1. /\ \E why \in Why \ {"aborted"} : Push(why)
        /\ cur <= N /\ ((pc = "loop" /\ ~Stops) \/ InCase) /\ pc \notin {"script", "again"}
        /\ UNCHANGED <<maxCases, plan, playwright, signal, cacheVars, aborted, results, exitCode, history>>
    BY <1>0, <1>3 DEF Refuse, Why, EntriesShape, InCase
  <2>2. /\ entries' \in Seq(Entry) /\ Len(entries') <= N /\ cur' \in 1..(N + 1)
        /\ EndShape'
    BY <2>1, PushedShape
  <2>3. pc' = "loop" /\ tries' = 0
    BY <2>1 DEF Push
  <2>4. KeptShape'
    BY <2>1, <2>3, CachesKept
  <2>5. TypeOK'
    BY <1>0, <2>1, <2>2, <2>3 DEF TypeOK
  <2> QED
    BY <2>2, <2>4, <2>5 DEF RInv, EndShape, KeptShape
<1>4. CASE StateBlocked
  <2>1. /\ \E why \in Why \ {"aborted"} : Push(why)
        /\ cur <= N /\ ((pc = "loop" /\ ~Stops) \/ InCase) /\ pc \notin {"script", "again"}
        /\ UNCHANGED <<maxCases, plan, playwright, signal, cacheVars, aborted, results, exitCode, history>>
    BY <1>0, <1>4 DEF StateBlocked, Why, EntriesShape, InCase
  <2>2. /\ entries' \in Seq(Entry) /\ Len(entries') <= N /\ cur' \in 1..(N + 1)
        /\ EndShape'
    BY <2>1, PushedShape
  <2>3. pc' = "loop" /\ tries' = 0
    BY <2>1 DEF Push
  <2>4. KeptShape'
    BY <2>1, <2>3, CachesKept
  <2>5. TypeOK'
    BY <1>0, <2>1, <2>2, <2>3 DEF TypeOK
  <2> QED
    BY <2>2, <2>4, <2>5 DEF RInv, EndShape, KeptShape
<1>5. CASE RefuseSeeded
  <2>1. /\ \E why \in Why \ {"aborted"} : Push(why)
        /\ cur <= N /\ ((pc = "loop" /\ ~Stops) \/ InCase) /\ pc \notin {"script", "again"}
        /\ UNCHANGED <<maxCases, plan, playwright, signal, cacheVars, aborted, results, exitCode, history>>
    BY <1>0, <1>5 DEF RefuseSeeded, Why, EntriesShape, InCase
  <2>2. /\ entries' \in Seq(Entry) /\ Len(entries') <= N /\ cur' \in 1..(N + 1)
        /\ EndShape'
    BY <2>1, PushedShape
  <2>3. pc' = "loop" /\ tries' = 0
    BY <2>1 DEF Push
  <2>4. KeptShape'
    BY <2>1, <2>3, CachesKept
  <2>5. TypeOK'
    BY <1>0, <2>1, <2>2, <2>3 DEF TypeOK
  <2> QED
    BY <2>2, <2>4, <2>5 DEF RInv, EndShape, KeptShape
<1>6. CASE SessionBlocked
  <2>1. /\ \E why \in Why \ {"aborted"} : Push(why)
        /\ cur <= N /\ ((pc = "loop" /\ ~Stops) \/ InCase) /\ pc \notin {"script", "again"}
        /\ UNCHANGED <<maxCases, plan, playwright, signal, cacheVars, aborted, results, exitCode, history>>
    BY <1>0, <1>6 DEF SessionBlocked, Why, EntriesShape, InCase
  <2>2. /\ entries' \in Seq(Entry) /\ Len(entries') <= N /\ cur' \in 1..(N + 1)
        /\ EndShape'
    BY <2>1, PushedShape
  <2>3. pc' = "loop" /\ tries' = 0
    BY <2>1 DEF Push
  <2>4. KeptShape'
    BY <2>1, <2>3, CachesKept
  <2>5. TypeOK'
    BY <1>0, <2>1, <2>2, <2>3 DEF TypeOK
  <2> QED
    BY <2>2, <2>4, <2>5 DEF RInv, EndShape, KeptShape
<1>7. CASE Drive
  <2>1. /\ \E why \in Why \ {"aborted"} : Push(why)
        /\ cur <= N /\ ((pc = "loop" /\ ~Stops) \/ InCase) /\ pc \notin {"script", "again"}
        /\ UNCHANGED <<maxCases, plan, playwright, signal, cacheVars, aborted, results, exitCode, history>>
    BY <1>0, <1>7 DEF Drive, Why, EntriesShape, InCase
  <2>2. /\ entries' \in Seq(Entry) /\ Len(entries') <= N /\ cur' \in 1..(N + 1)
        /\ EndShape'
    BY <2>1, PushedShape
  <2>3. pc' = "loop" /\ tries' = 0
    BY <2>1 DEF Push
  <2>4. KeptShape'
    BY <2>1, <2>3, CachesKept
  <2>5. TypeOK'
    BY <1>0, <2>1, <2>2, <2>3 DEF TypeOK
  <2> QED
    BY <2>2, <2>4, <2>5 DEF RInv, EndShape, KeptShape
<1>8. CASE CaseThrows
  <2>1. /\ \E why \in Why \ {"aborted"} : Push(why)
        /\ cur <= N /\ ((pc = "loop" /\ ~Stops) \/ InCase) /\ pc \notin {"script", "again"}
        /\ UNCHANGED <<maxCases, plan, playwright, signal, cacheVars, aborted, results, exitCode, history>>
    BY <1>0, <1>8 DEF CaseThrows, BlockCase, Why, EntriesShape, InCase
  <2>2. /\ entries' \in Seq(Entry) /\ Len(entries') <= N /\ cur' \in 1..(N + 1)
        /\ EndShape'
    BY <2>1, PushedShape
  <2>3. pc' = "loop" /\ tries' = 0
    BY <2>1 DEF Push
  <2>4. KeptShape'
    BY <2>1, <2>3, CachesKept
  <2>5. TypeOK'
    BY <1>0, <2>1, <2>2, <2>3 DEF TypeOK
  <2> QED
    BY <2>2, <2>4, <2>5 DEF RInv, EndShape, KeptShape
<1>9. CASE StartCase
  <2>1. /\ InCase \/ (pc = "loop" /\ cur <= N /\ ~Stops)
        /\ InCase' /\ pc \notin {"script", "again"} /\ pc' \notin {"script", "again"} /\ tries = 0
        /\ pc' \in {"gates", "state", "session", "drive"}
        /\ UNCHANGED <<maxCases, plan, playwright, cur, tries, entries, signal, cacheVars, endVars, history>>
    BY <1>0, <1>9 DEF StartCase, InCase
  <2>2. EndShape'
    BY <2>1, StayedShape
  <2>3. KeptShape'
    BY <2>1, CachesKept
  <2>4. TypeOK'
    BY <1>0, <2>1 DEF TypeOK
  <2> QED
    BY <2>2, <2>3, <2>4 DEF RInv, EndShape, KeptShape
<1>10. CASE PassGates
  <2>1. /\ InCase \/ (pc = "loop" /\ cur <= N /\ ~Stops)
        /\ InCase' /\ pc \notin {"script", "again"} /\ pc' \notin {"script", "again"} /\ tries = 0
        /\ pc' \in {"gates", "state", "session", "drive"}
        /\ UNCHANGED <<maxCases, plan, playwright, cur, tries, entries, signal, cacheVars, endVars, history>>
    BY <1>0, <1>10 DEF PassGates, InCase
  <2>2. EndShape'
    BY <2>1, StayedShape
  <2>3. KeptShape'
    BY <2>1, CachesKept
  <2>4. TypeOK'
    BY <1>0, <2>1 DEF TypeOK
  <2> QED
    BY <2>2, <2>3, <2>4 DEF RInv, EndShape, KeptShape
<1>11. CASE StateReady
  <2>1. /\ InCase \/ (pc = "loop" /\ cur <= N /\ ~Stops)
        /\ InCase' /\ pc \notin {"script", "again"} /\ pc' \notin {"script", "again"} /\ tries = 0
        /\ pc' \in {"gates", "state", "session", "drive"}
        /\ UNCHANGED <<maxCases, plan, playwright, cur, tries, entries, signal, cacheVars, endVars, history>>
    BY <1>0, <1>11 DEF StateReady, InCase
  <2>2. EndShape'
    BY <2>1, StayedShape
  <2>3. KeptShape'
    BY <2>1, CachesKept
  <2>4. TypeOK'
    BY <1>0, <2>1 DEF TypeOK
  <2> QED
    BY <2>2, <2>3, <2>4 DEF RInv, EndShape, KeptShape
<1>12. CASE SessionReady
  <2>1. /\ InCase \/ (pc = "loop" /\ cur <= N /\ ~Stops)
        /\ InCase' /\ pc \notin {"script", "again"} /\ pc' \notin {"script", "again"} /\ tries = 0
        /\ pc' \in {"gates", "state", "session", "drive"}
        /\ UNCHANGED <<maxCases, plan, playwright, cur, tries, entries, signal, cacheVars, endVars, history>>
    BY <1>0, <1>12 DEF SessionReady, InCase
  <2>2. EndShape'
    BY <2>1, StayedShape
  <2>3. KeptShape'
    BY <2>1, CachesKept
  <2>4. TypeOK'
    BY <1>0, <2>1 DEF TypeOK
  <2> QED
    BY <2>2, <2>3, <2>4 DEF RInv, EndShape, KeptShape
<1>13. CASE SkipCase
  <2>1. cur \in Case /\ Len(entries) = cur - 1 /\ pc = "loop" /\ tries = 0 /\ "aborted" \in Why
    BY <1>0, <1>13 DEF SkipCase, EntriesShape, TypeOK, CacheShape, Why
  <2>2. /\ entries' \in Seq(Entry) /\ Len(entries') = cur /\ cur' = cur + 1
        /\ entries'[cur] = [case |-> cur, why |-> "aborted"]
        /\ \A i \in 1..(cur - 1) : entries'[i] = entries[i]
    BY <1>0, <1>13, <2>1, Pushed DEF SkipCase
  <2>3. /\ pc' = "loop" /\ tries' = 0 /\ aborted' = TRUE /\ Stops
        /\ UNCHANGED <<maxCases, plan, playwright, signal, cacheVars, results, exitCode, history>>
    BY <1>13 DEF SkipCase, Push
  <2>4. Stops'
    <3>1. maxCases \in Nat
      BY <1>0, ConstantsAssumption DEF TypeOK
    <3> QED
      BY <2>1, <2>2, <2>3, <3>1 DEF Stops, CapReached
  <2>5. EntriesShape'
    BY <1>0, <2>1, <2>2, <2>3 DEF EntriesShape, InCase
  <2>6. AbortShape' /\ ExitZeroIsComplete'
    BY <2>3, <2>4 DEF RInv, AbortShape, ExitZeroIsComplete
  <2>7. AbortedIsTail'
    BY <2>1, <2>2 DEF RInv, AbortedIsTail
  <2>8. KeptShape'
    BY <2>1, <2>3, CachesKept
  <2>9. TypeOK'
    BY <1>0, <2>1, <2>2, <2>3 DEF TypeOK
  <2> QED
    BY <2>5, <2>6, <2>7, <2>8, <2>9 DEF RInv, KeptShape
<1>14. CASE RunSeed
  <2>1. /\ pc = "state" /\ State \in States /\ seeds[State] = "none" /\ seedRuns[State] = 0
        /\ tries = 0 /\ cur <= N /\ InCase
    <3>1. pc = "state" /\ State # None /\ seeds[State] = "none" /\ cur \in Case
      BY <1>0, <1>14 DEF RunSeed, TypeOK, EntriesShape, InCase, Case
    <3>2. plan[cur] \in Routed
      BY <1>0, <3>1 DEF TypeOK, Plans
    <3>3. State \in States
      BY <3>1, <3>2 DEF Routed, State
    <3> QED
      BY <1>0, <3>1, <3>3 DEF TypeOK, CacheShape, EntriesShape, InCase
  <2>2. PICK res \in {"ok", "failed"} :
          /\ seeds' = [seeds EXCEPT ![State] = res]
          /\ IF res = "ok" THEN pc' = "session" /\ UNCHANGED <<cur, tries, entries>>
                          ELSE Push("state")
    BY <1>14 DEF RunSeed, SeedKept
  <2>3. /\ seedRuns' = [seedRuns EXCEPT ![State] = 1]
        /\ UNCHANGED <<maxCases, plan, playwright, signal, sessions, aborted, results, exitCode, scriptRuns>>
    BY <1>14, <2>1 DEF RunSeed, Count
  <2>4. /\ entries' \in Seq(Entry) /\ Len(entries') <= N /\ cur' \in 1..(N + 1) /\ EndShape'
        /\ pc' \in {"loop", "session"} /\ tries' = 0
    <3>1. CASE res = "ok"
      <4>1. /\ pc' = "session" /\ InCase'
            /\ UNCHANGED <<cur, tries, entries>> /\ UNCHANGED <<cur, entries, aborted, results, exitCode>>
        BY <2>2, <2>3, <3>1 DEF InCase
      <4>2. EndShape'
        BY <2>1, <4>1, StayedShape
      <4> QED
        BY <1>0, <2>1, <4>1, <4>2 DEF TypeOK
    <3>2. CASE res # "ok"
      <4>1. Push("state") /\ "state" \in Why \ {"aborted"}
        BY <2>2, <3>2 DEF Why
      <4>2. pc' = "loop" /\ tries' = 0
        BY <4>1 DEF Push
      <4> QED
        BY <2>1, <2>3, <4>1, <4>2, PushedShape
    <3> QED
      BY <3>1, <3>2
  <2>5. seeds' \in [States -> {"none", "ok", "failed"}] /\ seedRuns' \in [States -> 0..2]
    BY <1>0, <2>1, <2>2, <2>3 DEF TypeOK
  <2>6. KeptShape'
    <3>1. SeededOnce' /\ \A s \in States : seeds'[s] = "none" => seedRuns'[s] = 0
      BY <1>0, <2>1, <2>2, <2>3 DEF RInv, SeededOnce, CacheShape, TypeOK
    <3> QED
      BY <1>0, <2>1, <2>3, <2>4, <3>1 DEF RInv, KeptShape, CacheShape, LoginsBounded
  <2>7. TypeOK'
    BY <1>0, <2>3, <2>4, <2>5 DEF TypeOK
  <2> QED
    BY <2>4, <2>6, <2>7 DEF RInv, EndShape, KeptShape
<1>15. CASE NoScript
  <2>1. /\ pc = "session" /\ Role \in Roles /\ sessions[Role] = "none"
        /\ tries = 0 /\ cur <= N /\ InCase
    BY <1>0, <1>15 DEF NoScript, CacheShape, EntriesShape, InCase
  <2>2. /\ sessions' = [sessions EXCEPT ![Role] = "failed"]
        /\ Push("session") /\ "session" \in Why \ {"aborted"}
        /\ UNCHANGED <<maxCases, plan, playwright, signal, seeds, aborted, results, exitCode, seedRuns, scriptRuns>>
    BY <1>15 DEF NoScript, Why
  <2>3. entries' \in Seq(Entry) /\ Len(entries') <= N /\ cur' \in 1..(N + 1) /\ EndShape'
    BY <2>1, <2>2, PushedShape
  <2>4. pc' = "loop" /\ tries' = 0
    BY <2>2 DEF Push
  <2>5. KeptShape'
    <3>1. \A r \in Roles : sessions'[r] = "none" => sessions[r] = "none"
      BY <1>0, <2>1, <2>2 DEF TypeOK
    <3> QED
      BY <1>0, <2>1, <2>2, <2>4, <3>1 DEF RInv, KeptShape, CacheShape, SeededOnce, LoginsBounded
  <2>6. TypeOK'
    BY <1>0, <2>1, <2>2, <2>3, <2>4 DEF TypeOK
  <2> QED
    BY <2>3, <2>5, <2>6 DEF RInv, EndShape, KeptShape
<1>16. CASE StartScript
  <2>1. /\ pc \in {"session", "again"} /\ Role \in Declared /\ Role \in Roles
        /\ sessions[Role] = "none" /\ cur <= N /\ InCase
        /\ scriptRuns[Role] = tries /\ tries \in 0..MaxRetries /\ (Role \notin Minted => tries = 0)
    BY <1>0, <1>16 DEF StartScript, CacheShape, EntriesShape, InCase, TypeOK
  <2>2. /\ scriptRuns' = [scriptRuns EXCEPT ![Role] = tries + 1] /\ pc' = "script" /\ InCase'
        /\ UNCHANGED <<maxCases, plan, playwright, cur, tries, entries, signal, seeds, sessions, aborted,
                       results, exitCode, seedRuns>>
    <3>1. /\ scriptRuns' = [scriptRuns EXCEPT ![Role] = CountScript(scriptRuns[Role])] /\ pc' = "script"
          /\ UNCHANGED <<maxCases, plan, playwright, cur, tries, entries, signal, seeds, sessions, aborted,
                         results, exitCode, seedRuns>>
      BY <1>16 DEF StartScript, cacheVars, endVars
    <3>2. CountScript(scriptRuns[Role]) = tries + 1
      BY <2>1 DEF CountScript
    <3> QED
      BY <3>1, <3>2 DEF InCase
  <2>3. LoginsBounded' /\ scriptRuns' \in [Roles -> 0..(MaxRetries + 2)]
    BY <1>0, <2>1, <2>2 DEF RInv, LoginsBounded, TypeOK
  <2>4. EndShape'
    BY <2>1, <2>2, StayedShape
  <2>5. CacheShape' /\ SeededOnce'
    BY <1>0, <2>1, <2>2 DEF RInv, CacheShape, SeededOnce, TypeOK, Role
  <2>6. TypeOK'
    BY <1>0, <2>2, <2>3 DEF TypeOK
  <2> QED
    BY <2>3, <2>4, <2>5, <2>6 DEF RInv, EndShape
<1>17. CASE ScriptEnds
  <2>1. /\ pc = "script" /\ Role \in Declared /\ Role \in Roles
        /\ sessions[Role] = "none" /\ cur <= N /\ InCase
        /\ scriptRuns[Role] = tries + 1 /\ tries \in 0..MaxRetries /\ (tries # 0 => Role \in Minted)
    BY <1>0, <1>17 DEF ScriptEnds, CacheShape, EntriesShape, InCase, TypeOK
  <2>2. PICK res \in {"ok", "marker-absent", "failed"} :
          IF res = "marker-absent" /\ MayRemint
            THEN /\ pc' = "again" /\ tries' = tries + 1 /\ UNCHANGED <<cur, entries, sessions>>
            ELSE /\ sessions' = [sessions EXCEPT ![Role] = IF res = "ok" THEN "ok" ELSE "failed"]
                 /\ IF res = "ok" THEN pc' = "drive" /\ tries' = 0 /\ UNCHANGED <<cur, entries>>
                                  ELSE Push("session")
    BY <1>17 DEF ScriptEnds, SessionKept, MayRemint
  <2>3. UNCHANGED <<maxCases, plan, playwright, signal, seeds, aborted, results, exitCode, seedRuns, scriptRuns>>
    BY <1>17 DEF ScriptEnds, endVars, history
  <2>4. LoginsBounded' /\ scriptRuns' \in [Roles -> 0..(MaxRetries + 2)]
    BY <1>0, <2>3 DEF RInv, LoginsBounded, TypeOK
  <2>5. CASE res = "marker-absent" /\ MayRemint
    <3>1. /\ pc' = "again" /\ InCase' /\ tries' = tries + 1 /\ UNCHANGED <<cur, entries, sessions>>
          /\ Role \in Minted /\ tries < MaxRetries
      BY <2>2, <2>5 DEF InCase, MayRemint
    <3>2. EndShape'
      BY <2>1, <2>3, <3>1, StayedShape
    <3>3. CacheShape' /\ SeededOnce'
      BY <1>0, <2>1, <2>3, <3>1 DEF RInv, CacheShape, SeededOnce, TypeOK, Role
    <3>4. TypeOK'
      BY <1>0, <2>1, <2>3, <2>4, <3>1 DEF TypeOK
    <3> QED
      BY <2>4, <3>2, <3>3, <3>4 DEF RInv, EndShape
  <2>6. CASE ~(res = "marker-absent" /\ MayRemint)
    <3>1. /\ sessions' \in [Roles -> {"none", "ok", "failed"}] /\ sessions'[Role] # "none"
          /\ \A r \in Roles \ {Role} : sessions'[r] = sessions[r] /\ scriptRuns'[r] = scriptRuns[r]
      BY <1>0, <2>1, <2>2, <2>3, <2>6 DEF TypeOK
    <3>2. /\ entries' \in Seq(Entry) /\ Len(entries') <= N /\ cur' \in 1..(N + 1) /\ EndShape'
          /\ pc' \in {"loop", "drive"} /\ tries' = 0
      <4>1. CASE res = "ok"
        <5>1. pc' = "drive" /\ InCase' /\ tries' = 0 /\ UNCHANGED <<cur, entries>>
          BY <2>2, <2>6, <4>1 DEF InCase
        <5>2. EndShape'
          BY <2>1, <2>3, <5>1, StayedShape
        <5> QED
          BY <1>0, <5>1, <5>2 DEF TypeOK
      <4>2. CASE res # "ok"
        <5>1. Push("session") /\ "session" \in Why \ {"aborted"}
          BY <2>2, <2>6, <4>2 DEF Why
        <5>2. pc' = "loop" /\ tries' = 0
          BY <5>1 DEF Push
        <5> QED
          BY <2>1, <2>3, <5>1, <5>2, PushedShape
      <4> QED
        BY <4>1, <4>2
    <3>3. CacheShape' /\ SeededOnce'
      <4>1. \A r \in Roles : sessions'[r] = "none" => scriptRuns'[r] = 0
        BY <1>0, <2>1, <3>1 DEF CacheShape
      <4> QED
        BY <1>0, <2>3, <3>2, <4>1 DEF RInv, CacheShape, SeededOnce
    <3>4. TypeOK'
      BY <1>0, <2>3, <2>4, <3>1, <3>2 DEF TypeOK
    <3> QED
      BY <2>4, <3>2, <3>3, <3>4 DEF RInv, EndShape
  <2> QED
    BY <2>5, <2>6
<1>18. CASE LoopThrows
  <2>1. /\ pc = "loop" /\ pc' = "end" /\ tries' = 0 /\ aborted' \in BOOLEAN
        /\ UNCHANGED <<maxCases, plan, playwright, cur, tries, entries, signal, cacheVars, results, exitCode, history>>
    BY <1>0, <1>18 DEF LoopThrows, CacheShape, TypeOK
  <2>2. EntriesShape' /\ AbortedIsTail' /\ ExitZeroIsComplete'
    BY <2>1 DEF RInv, EntriesShape, AbortedIsTail, ExitZeroIsComplete, InCase
  <2>3. AbortShape'
    BY <1>18, <2>1 DEF LoopThrows, RInv, AbortShape
  <2>4. KeptShape'
    BY <2>1, CachesKept
  <2>5. TypeOK'
    BY <1>0, <2>1 DEF TypeOK
  <2> QED
    BY <2>2, <2>3, <2>4, <2>5 DEF RInv, KeptShape
<1>19. CASE LeaveLoop
  <2>1. /\ pc = "loop" /\ pc' = "end" /\ tries' = 0 /\ aborted' \in BOOLEAN
        /\ UNCHANGED <<maxCases, plan, playwright, cur, tries, entries, signal, cacheVars, results, exitCode, history>>
    BY <1>0, <1>19 DEF LeaveLoop, CacheShape, TypeOK
  <2>2. EntriesShape' /\ AbortedIsTail' /\ ExitZeroIsComplete'
    BY <2>1 DEF RInv, EntriesShape, AbortedIsTail, ExitZeroIsComplete, InCase
  <2>3. AbortShape'
    BY <1>19, <2>1 DEF LeaveLoop, RInv, AbortShape
  <2>4. KeptShape'
    BY <2>1, CachesKept
  <2>5. TypeOK'
    BY <1>0, <2>1 DEF TypeOK
  <2> QED
    BY <2>2, <2>3, <2>4, <2>5 DEF RInv, KeptShape
<1>20. CASE Finish
  <2>1. PICK written \in BOOLEAN, reportChanged \in BOOLEAN :
          /\ results' = IF written THEN Padded ELSE results
          /\ exitCode' = ExitFor(written, reportChanged)
    BY <1>20 DEF Finish
  <2>2. /\ pc = "end" /\ pc' = "done" /\ entries' = Padded
        /\ UNCHANGED <<maxCases, plan, playwright, cur, tries, signal, cacheVars, history>>
    BY <1>20 DEF Finish
  <2>3. aborted' \in BOOLEAN
    BY <1>0, <1>20 DEF Finish, TypeOK
  <2>4. exitCode' \in {0, 1}
    BY <2>1 DEF ExitFor
  <2>5. exitCode' = 0 => results' # None /\ \A i \in Case : results'[i].why \notin {"aborted", "playwright"}
    <3>1. ASSUME exitCode' = 0
          PROVE  written /\ ~aborted /\ Len(entries) = N /\ \A i \in Case : Padded[i].why # "playwright"
      BY <1>0, <2>1, <3>1 DEF ExitFor, TypeOK
    <3>2. ~aborted => \A i \in 1..Len(entries) : entries[i].why # "aborted"
      BY <2>2 DEF RInv, AbortShape
    <3>3. Padded # None
      BY <2>2, PaddedShape
    <3> QED
      BY <2>1, <3>1, <3>2, <3>3 DEF Padded
  <2>6. results' = None \/ results' = Padded
    BY <1>0, <2>1, <2>2 DEF EntriesShape
  <2> QED
    BY <2>2, <2>3, <2>4, <2>5, <2>6, EndedShape DEF ExitZeroIsComplete
<1>21. CASE Killed
  <2>1. /\ pc = "end" /\ pc' = "done"
        /\ UNCHANGED <<maxCases, plan, playwright, cur, tries, signal, cacheVars, aborted, exitCode, history>>
    BY <1>21 DEF Killed
  <2>2. exitCode = None /\ results = None /\ ExitZeroIsComplete'
    BY <1>0, <2>1 DEF EntriesShape, ExitZeroIsComplete
  <2>3. CASE UNCHANGED <<entries, results>>
    <3>1. EndShape'
      BY <1>0, <2>1, <2>2, <2>3 DEF RInv, EndShape, EntriesShape, AbortShape, AbortedIsTail, InCase
    <3>2. KeptShape'
      BY <1>0, <2>1, CachesKept DEF CacheShape
    <3>3. TypeOK'
      BY <1>0, <2>1, <2>3 DEF TypeOK
    <3> QED
      BY <3>1, <3>2, <3>3 DEF RInv, EndShape, KeptShape
  <2>4. CASE entries' = Padded /\ results' = Padded
    BY <1>0, <2>1, <2>2, <2>4, EndedShape DEF TypeOK
  <2> QED
    BY <1>21, <2>3, <2>4 DEF Killed
<1>22. CASE SendSignal \/ SeeSignal
  <2>1. /\ signal' \in {"sent", "seen"} /\ signal # "seen"
        /\ UNCHANGED <<maxCases, plan, playwright, caseVars, entries, cacheVars, endVars, history>>
    BY <1>22 DEF SendSignal, SeeSignal
  <2>2. TypeOK'
    BY <1>0, <2>1 DEF TypeOK
  <2>3. EntriesShape' /\ AbortedIsTail' /\ ExitZeroIsComplete'
    BY <2>1 DEF RInv, EntriesShape, AbortedIsTail, ExitZeroIsComplete, InCase
  <2>4. AbortShape'
    BY <2>1 DEF RInv, AbortShape, Stops, CapReached
  <2>5. CacheShape' /\ SeededOnce' /\ LoginsBounded'
    BY <2>1 DEF RInv, CacheShape, SeededOnce, LoginsBounded, Role
  <2> QED
    BY <2>2, <2>3, <2>4, <2>5 DEF RInv
<1>23. CASE Done \/ UNCHANGED vars
  <2>1. UNCHANGED <<maxCases, plan, playwright, caseVars, entries, signal, cacheVars, endVars, history>>
    BY <1>23 DEF Done, vars
  <2>2. TypeOK'
    BY <1>0, <2>1 DEF TypeOK
  <2>3. EntriesShape' /\ AbortedIsTail' /\ ExitZeroIsComplete'
    BY <2>1 DEF RInv, EntriesShape, AbortedIsTail, ExitZeroIsComplete, InCase
  <2>4. AbortShape'
    BY <2>1 DEF RInv, AbortShape, Stops, CapReached
  <2>5. CacheShape' /\ SeededOnce' /\ LoginsBounded'
    BY <2>1 DEF RInv, CacheShape, SeededOnce, LoginsBounded, Role
  <2> QED
    BY <2>2, <2>3, <2>4, <2>5 DEF RInv
<1> QED
  BY <1>1, <1>2, <1>3, <1>4, <1>5, <1>6, <1>7, <1>8, <1>9, <1>10, <1>11, <1>12, <1>13, <1>14, <1>15, <1>16,
     <1>17, <1>18, <1>19, <1>20, <1>21, <1>22, <1>23 DEF Next, Runner

(***************************************************************************)
(* The inductive invariant holds of every run.                             *)
(***************************************************************************)
THEOREM Invariance == Spec => []RInv
BY Initially, Inductive, PTL DEF Spec

(***************************************************************************)
(* A run whose exit code is 0 has published its results, and no case in    *)
(* them was left out by a signal, the cap or an error of the run.          *)
(***************************************************************************)
THEOREM HonestExit == Spec => [](TypeOK /\ ExitZeroIsComplete)
<1>1. RInv => TypeOK /\ ExitZeroIsComplete
  BY DEF RInv
<1> QED
  BY <1>1, Invariance, PTL

(***************************************************************************)
(* No case is executed after one that was given up.                        *)
(***************************************************************************)
THEOREM GivenUpIsTail == Spec => []AbortedIsTail
<1>1. RInv => AbortedIsTail
  BY DEF RInv
<1> QED
  BY <1>1, Invariance, PTL

(***************************************************************************)
(* A seed command runs once in a run, and a login script once, or at most  *)
(* MaxRetries times more for a minted role.                                *)
(***************************************************************************)
THEOREM NothingRepeated == Spec => [](SeededOnce /\ LoginsBounded)
<1>1. RInv => SeededOnce /\ LoginsBounded
  BY DEF RInv
<1> QED
  BY <1>1, Invariance, PTL
(* A step adds the entry of the case in hand, pads the entries at the end  *)
(* of the run, or leaves entries and results alone.                        *)
LEMMA EntrySteps ==
  ASSUME RInv, [Next]_vars
  PROVE  \/ UNCHANGED <<entries, results>>
         \/ (\E why \in Why : Push(why)) /\ cur <= N /\ pc \notin {"end", "done"} /\ results' = results
         \/ pc = "end" /\ entries' = Padded /\ results' \in {results, Padded}
<1>1. InCase => cur <= N
  BY DEF RInv, EntriesShape
<1>2. CASE Finish
  BY <1>2 DEF Finish
<1>3. CASE Killed
  BY <1>3 DEF Killed
<1>4. CASE SkipCase \/ CountIncomplete \/ ResolveFromRecord
  BY <1>4 DEF SkipCase, CountIncomplete, ResolveFromRecord, endVars, Why
<1>5. CASE Refuse \/ StateBlocked \/ RefuseSeeded \/ SessionBlocked \/ NoScript \/ Drive \/ CaseThrows
  BY <1>1, <1>5 DEF Refuse, StateBlocked, RefuseSeeded, SessionBlocked, NoScript, Drive,
     CaseThrows, BlockCase, InCase, endVars, Why
<1>6. CASE RunSeed
  BY <1>1, <1>6 DEF RunSeed, InCase, endVars, Why
<1>7. CASE StartScript \/ ScriptEnds
  BY <1>1, <1>7 DEF StartScript, ScriptEnds, InCase, endVars, Why
<1>8. CASE StartCase \/ PassGates \/ StateReady \/ SessionReady \/ LoopThrows \/ LeaveLoop
  BY <1>8 DEF StartCase, PassGates, StateReady, SessionReady, LoopThrows, LeaveLoop, endVars
<1>9. CASE SendSignal \/ SeeSignal \/ Done \/ UNCHANGED vars
  BY <1>9 DEF SendSignal, SeeSignal, Done, vars, endVars
<1> QED
  BY <1>2, <1>3, <1>4, <1>5, <1>6, <1>7, <1>8, <1>9 DEF Next, Runner

(***************************************************************************)
(* A run implements QaReport: entries are added in order and never changed,*)
(* and what is published has one for every case.                           *)
(***************************************************************************)
THEOREM Implements == Spec => KeepsPromise
<1>1. Init => Promise!Init
  BY DEF Init, Promise!Init
<1>2. RInv /\ RInv' /\ [Next]_vars => [Promise!Extend \/ Promise!Publish]_<<entries, results>>
  <2> SUFFICES ASSUME RInv, RInv', [Next]_vars,
                      ~ UNCHANGED <<entries, results>>
               PROVE  Promise!Extend \/ Promise!Publish
    OBVIOUS
  <2> USE ConstantsAssumption DEF Case
  <2>1. /\ Len(entries') <= N /\ Len(entries') \in Nat /\ Len(entries) \in Nat
        /\ \A i \in 1..Len(entries') : entries'[i].case = i
    <3>1. entries \in Seq(Entry) /\ entries' \in Seq(Entry) /\ Len(entries') <= N
      BY DEF RInv, TypeOK
    <3>2. \A i \in 1..Len(entries') : entries'[i].case = i
      BY DEF RInv, EntriesShape
    <3> QED
      BY <3>1, <3>2
  <2>2. pc \notin {"done"} => results = None
    BY DEF RInv, EntriesShape
  <2>3. CASE (\E why \in Why : Push(why)) /\ cur <= N /\ pc \notin {"end", "done"} /\ results' = results
    <3>1. TypeOK /\ cur \in Case /\ Len(entries) = cur - 1
      BY <2>3 DEF RInv, TypeOK, EntriesShape
    <3>2. Len(entries') = cur /\ \A i \in 1..(cur - 1) : entries'[i] = entries[i]
      BY <2>3, <3>1, Pushed
    <3>3. Promise!Prefix(entries, entries')
      BY <3>1, <3>2 DEF Promise!Prefix
    <3> QED
      BY <2>1, <2>2, <2>3, <3>3 DEF Promise!Extend
  <2>4. CASE pc = "end" /\ entries' = Padded /\ results' \in {results, Padded}
    <3>1. /\ Len(entries') = N /\ Len(entries) <= N
          /\ \A i \in 1..Len(entries) : entries'[i] = entries[i]
      BY <2>4, PaddedShape
    <3>2. Promise!Prefix(entries, entries')
      BY <3>1 DEF Promise!Prefix
    <3>3. results = None
      BY <2>2, <2>4
    <3> QED
      BY <2>1, <2>4, <3>1, <3>2, <3>3 DEF Promise!Extend, Promise!Publish
  <2> QED
    BY <2>3, <2>4, EntrySteps
<1> QED
  BY <1>1, <1>2, Invariance, PTL DEF Spec, KeepsPromise, Promise!Spec

-----------------------------------------------------------------------------
(* The report: what parseReport makes of its lines, and what the entries   *)
(* of a run have to do with them.                                          *)

(* The natural numbers are well-founded: what is not empty has a first.    *)
LEMMA LeastElement ==
  ASSUME NEW S, S \subseteq Nat, S # {}
  PROVE  \E i \in S : \A j \in S : i <= j
<1> DEFINE R == {ss \in Nat \X Nat : ss[1] < ss[2]}
<1>1. IsWellFoundedOn(R, Nat)
  BY NatLessThanWellFounded, Zenon DEF OpToRel
<1> HIDE DEF R
<1>2. PICK i \in S : \A j \in S : ~(<<j, i>> \in R)
  BY <1>1, WFMin, Zenon
<1>3. \A a, b \in Nat : a < b => <<a, b>> \in R
  BY DEF R
<1>4. ASSUME NEW j \in S PROVE i <= j
  <2>1. i \in Nat /\ j \in Nat /\ ~(<<j, i>> \in R)
    BY <1>2
  <2>2. ~(j < i)
    BY <2>1, <1>3
  <2> QED
    BY <2>1, <2>2
<1> QED
  BY <1>4

(* Induction over the places of a sequence, as a set of them.              *)
LEMMA Climb ==
  ASSUME NEW n \in Nat, NEW T, 0 \in T, \A i \in 1..n : i - 1 \in T => i \in T
  PROVE  \A i \in 0..n : i \in T
<1> SUFFICES ASSUME (0..n) \ T # {} PROVE FALSE
  OBVIOUS
<1>1. PICK i \in (0..n) \ T : \A j \in (0..n) \ T : i <= j
  <2>1. (0..n) \ T \subseteq Nat
    OBVIOUS
  <2> QED
    BY <2>1, LeastElement
<1>2. i \in 1..n /\ i - 1 \in 0..n
  BY <1>1
<1>3. i - 1 \in T
  BY <1>1, <1>2
<1> QED
  BY <1>1, <1>2, <1>3

(* What a loop over the places 1..n computes, from what its step computes. *)
LEMMA Loop ==
  ASSUME NEW n \in Nat, NEW S, NEW start \in S, NEW step \in [S \X (1..n) -> S]
  PROVE  \E f : /\ f = [i \in 0..n |-> IF i = 0 THEN start ELSE step[<<f[i - 1], i>>]]
                /\ f \in [0..n -> S]
<1> DEFINE Upto(m, f) == /\ f \in [0..m -> S] /\ f[0] = start
                         /\ \A i \in 1..m : f[i] = step[<<f[i - 1], i>>]
           T == {m \in 0..n : \E f : Upto(m, f)}
<1>1. 0 \in T
  <2>1. Upto(0, [i \in 0..0 |-> start])
    OBVIOUS
  <2> HIDE DEF Upto
  <2>2. \E f : Upto(0, f)
    BY <2>1, Zenon
  <2> QED
    BY <2>2
<1>2. ASSUME NEW m \in 1..n, m - 1 \in T PROVE m \in T
  <2>1. PICK f : Upto(m - 1, f)
    BY <1>2
  <2> DEFINE g == [i \in 0..m |-> IF i = m THEN step[<<f[m - 1], m>>] ELSE f[i]]
  <2>2. f[m - 1] \in S /\ step[<<f[m - 1], m>>] \in S
    BY <2>1
  <2>3. g \in [0..m -> S] /\ g[0] = start
    BY <2>1, <2>2
  <2>4. \A i \in 1..m : g[i] = step[<<g[i - 1], i>>]
    <3> TAKE i \in 1..m
    <3>1. CASE i = m
      <4>1. g[i - 1] = f[m - 1] /\ g[i] = step[<<f[m - 1], m>>]
        BY <3>1
      <4> QED
        BY <3>1, <4>1
    <3>2. CASE i # m
      <4>1. i \in 1..(m - 1) /\ g[i] = f[i] /\ g[i - 1] = f[i - 1]
        BY <3>2
      <4> QED
        BY <2>1, <4>1
    <3> QED
      BY <3>1, <3>2
  <2>5. Upto(m, g)
    BY <2>3, <2>4
  <2> HIDE DEF Upto, g
  <2>6. \E u : Upto(m, u)
    BY <2>5, Zenon
  <2> QED
    BY <2>6
<1>3. n \in T
  <2> HIDE DEF T
  <2>1. \A i \in 0..n : i \in T
    BY <1>1, <1>2, Climb
  <2> QED
    BY <2>1
<1>4. PICK f : Upto(n, f)
  BY <1>3
<1>5. \A i \in 0..n : f[i] = IF i = 0 THEN start ELSE step[<<f[i - 1], i>>]
  BY <1>4
<1> QED
  BY <1>4, <1>5

(* Inside a fence, line by line.                                           *)
LEMMA FencedIs ==
  ASSUME NEW d, Len(d) \in Nat
  PROVE  /\ Fenced(d) \in [0..Len(d) -> BOOLEAN] /\ Fenced(d)[0] = FALSE
         /\ \A i \in 1..Len(d) : Fenced(d)[i] = ((d[i] = "fence") # Fenced(d)[i - 1])
<1> DEFINE step == [x \in BOOLEAN \X (1..Len(d)) |-> (d[x[2]] = "fence") # x[1]]
<1>1. step \in [BOOLEAN \X (1..Len(d)) -> BOOLEAN]
  OBVIOUS
<1>2. PICK f : /\ f = [i \in 0..Len(d) |-> IF i = 0 THEN FALSE ELSE step[<<f[i - 1], i>>]]
               /\ f \in [0..Len(d) -> BOOLEAN]
  <2> HIDE DEF step
  <2> QED
    BY <1>1, Loop
<1>3. f = [i \in 0..Len(d) |-> IF i = 0 THEN FALSE ELSE (d[i] = "fence") # f[i - 1]]
  BY <1>2
<1>4. Fenced(d) = [i \in 0..Len(d) |-> IF i = 0 THEN FALSE ELSE (d[i] = "fence") # Fenced(d)[i - 1]]
  BY <1>3 DEF Fenced
<1> QED
  BY <1>4

(* A stretch that starts outside a fence has the fences of the report.     *)
WithinSo(d, o, last, s) ==
  /\ s \in Seq(Line) /\ Len(s) = last - o /\ Len(s) \in Nat
  /\ \A j \in 1..Len(s) : s[j] = d[o + j]
  /\ \A j \in 0..Len(s) : Fenced(s)[j] = Fenced(d)[o + j]

LEMMA FencedWithin ==
  ASSUME NEW d \in Seq(Line), NEW o \in 0..Len(d), NEW last \in o..Len(d), ~Fenced(d)[o]
  PROVE  WithinSo(d, o, last, SubSeq(d, o + 1, last))
<1> DEFINE s == SubSeq(d, o + 1, last)
<1>1. s \in Seq(Line) /\ Len(s) = last - o /\ Len(s) \in Nat /\ Len(d) \in Nat
  <2>1. \A i \in (o + 1)..last : i \in 1..Len(d)
    OBVIOUS
  <2>2. \A i \in (o + 1)..last : d[i] \in Line
    BY <2>1, ElementOfSeq
  <2> QED
    BY <2>2, LenProperties, SubSeqProperties
<1>2. \A j \in 1..Len(s) : s[j] = d[o + j]
  BY <1>1, SubSeqProperties
<1> HIDE DEF s
<1> DEFINE T == {j \in 0..Len(s) : Fenced(s)[j] = Fenced(d)[o + j]}
<1>3. 0 \in T
  <2>1. o \in 0..Len(d) /\ o + 0 = o /\ 0 \in 0..Len(s)
    BY <1>1
  <2>2. Fenced(s)[0] = FALSE
    BY <1>1, FencedIs
  <2>3. Fenced(d)[o] = FALSE
    <3>1. Fenced(d)[o] \in BOOLEAN
      BY <1>1, <2>1, FencedIs
    <3> QED
      BY <3>1
  <2> QED
    BY <2>1, <2>2, <2>3
<1>4. ASSUME NEW j \in 1..Len(s), j - 1 \in T PROVE j \in T
  <2>1. s[j] = d[o + j] /\ o + j \in 1..Len(d) /\ j \in Nat
    BY <1>1, <1>2
  <2>2. Fenced(s)[j] = ((s[j] = "fence") # Fenced(s)[j - 1])
    BY <1>1, FencedIs
  <2>3. Fenced(d)[o + j] = ((d[o + j] = "fence") # Fenced(d)[(o + j) - 1])
    BY <1>1, <2>1, FencedIs
  <2>4. (o + j) - 1 = o + (j - 1) /\ Fenced(s)[j - 1] = Fenced(d)[o + (j - 1)]
    BY <1>4, <2>1
  <2> QED
    BY <2>1, <2>2, <2>3, <2>4
<1>5. \A j \in 0..Len(s) : j \in T
  <2> HIDE DEF T
  <2> QED
    BY <1>1, <1>3, <1>4, Climb
<1> QED
  BY <1>1, <1>2, <1>5 DEF WithinSo, s

-----------------------------------------------------------------------------
(* The blocks of a stretch: one for each heading outside a fence, in their *)
(* order, and each holds the lines up to the one that ends it.             *)
StopsAt(s, j) == ~Fenced(s)[j] /\ (s[j] \in CaseHeads \/ Closes(s, j))
HeadAt(s, j)  == s[j] \in CaseHeads /\ ~Fenced(s)[j]

BlockSo(s, first, i, b) ==
  LET h == b.head - first + 1  m == Len(b.body) IN
  /\ h \in 1..i /\ HeadAt(s, h) /\ h + m <= i
  /\ \A k \in 1..m : b.body[k] = b.head + k
  /\ \A j \in (h + 1)..(h + m) : ~StopsAt(s, j)
  /\ h + m < i => StopsAt(s, h + m + 1)

Splits == [blocks : Seq(Block), open : BOOLEAN]
EndsAt(first, i, b) == b.head + Len(b.body) = first + i - 1
SplitSo(s, first, i, p) ==
  /\ p \in Splits /\ (p.open => Len(p.blocks) > 0)
  /\ \A b \in 1..Len(p.blocks) : BlockSo(s, first, i, p.blocks[b])
  /\ \A b \in 1..Len(p.blocks) : EndsAt(first, i, p.blocks[b]) <=> p.open /\ b = Len(p.blocks)
  /\ \A b, c \in 1..Len(p.blocks) : b < c => p.blocks[b].head < p.blocks[c].head
  /\ \A j \in 1..i : HeadAt(s, j) => \E b \in 1..Len(p.blocks) : p.blocks[b].head = first + j - 1

(* One line read, what is known so far is still blocks of lines.           *)
LEMMA SplitLineIs ==
  ASSUME NEW s \in Seq(Line), NEW first \in Nat \ {0}, NEW i \in 1..Len(s), NEW p \in Splits
  PROVE  SplitLine(s, first, p, i) \in Splits
<1> DEFINE place == first + i - 1
<1>1. place \in Nat
  OBVIOUS
<1>2. [blocks |-> Append(p.blocks, [head |-> place, body |-> <<>>]), open |-> TRUE] \in Splits
  <2>1. [head |-> place, body |-> <<>>] \in Block
    BY <1>1, EmptySeq DEF Block
  <2> QED
    BY <2>1, AppendProperties DEF Splits
<1>3. [p EXCEPT !.open = FALSE] \in Splits
  BY DEF Splits
<1>4. [p EXCEPT !.blocks[Len(p.blocks)].body = Append(@, place)] \in Splits
  <2>1. ASSUME NEW n \in 1..Len(p.blocks)
        PROVE  [p.blocks[n] EXCEPT !.body = Append(@, place)] \in Block
    <3>1. p.blocks[n] \in Block
      BY ElementOfSeq DEF Splits
    <3>2. Append(p.blocks[n].body, place) \in Seq(Nat)
      BY <1>1, <3>1, AppendProperties DEF Block
    <3> QED
      BY <3>1, <3>2 DEF Block
  <2>2. p.blocks \in Seq(Block) /\ Len(p.blocks) \in Nat /\ DOMAIN p.blocks = 1..Len(p.blocks)
    BY LenProperties DEF Splits
  <2> DEFINE e == [p.blocks[Len(p.blocks)] EXCEPT !.body = Append(@, place)]
  <2>3. [p.blocks EXCEPT ![Len(p.blocks)] = e] \in Seq(Block)
    <3> HIDE DEF e
    <3>1. CASE Len(p.blocks) \in 1..Len(p.blocks)
      <4>1. e \in Block
        BY <2>1, <3>1 DEF e
      <4> QED
        BY <2>2, <3>1, <4>1, ExceptSeq
    <3>2. CASE Len(p.blocks) \notin 1..Len(p.blocks)
      <4>1. p.blocks = [x \in 1..Len(p.blocks) |-> p.blocks[x]]
        BY <2>2
      <4>2. [p.blocks EXCEPT ![Len(p.blocks)] = e] = p.blocks
        BY <2>2, <3>2, <4>1
      <4> QED
        BY <2>2, <4>2
    <3> QED
      BY <3>1, <3>2
  <2> QED
    BY <2>3 DEF Splits
<1> QED
  BY <1>2, <1>3, <1>4 DEF SplitLine

(* Split is defined: the blocks after each line, from those before it.     *)
LEMMA SplitIs ==
  ASSUME NEW s \in Seq(Line), NEW first \in Nat \ {0}
  PROVE  /\ Split(s, first)[0] = [blocks |-> <<>>, open |-> FALSE]
         /\ \A i \in 1..Len(s) : Split(s, first)[i] = SplitLine(s, first, Split(s, first)[i - 1], i)
<1> DEFINE start == [blocks |-> <<>>, open |-> FALSE]
           step == [x \in Splits \X (1..Len(s)) |-> SplitLine(s, first, x[1], x[2])]
<1>1. start \in Splits /\ Len(s) \in Nat
  BY EmptySeq, LenProperties DEF Splits
<1>2. step \in [Splits \X (1..Len(s)) -> Splits]
  BY SplitLineIs
<1>3. PICK f : /\ f = [i \in 0..Len(s) |-> IF i = 0 THEN start ELSE step[<<f[i - 1], i>>]]
               /\ f \in [0..Len(s) -> Splits]
  <2> HIDE DEF step, start
  <2>1. Len(s) \in Nat /\ start \in Splits /\ step \in [Splits \X (1..Len(s)) -> Splits]
    BY <1>1, <1>2
  <2>2. \A b \in Splits, g \in [Splits \X (1..Len(s)) -> Splits] :
          \E f : /\ f = [i \in 0..Len(s) |-> IF i = 0 THEN b ELSE g[<<f[i - 1], i>>]]
                 /\ f \in [0..Len(s) -> Splits]
    BY <2>1, Loop
  <2> QED
    BY <2>1, <2>2
<1>4. ASSUME NEW i \in 1..Len(s) PROVE step[<<f[i - 1], i>>] = SplitLine(s, first, f[i - 1], i)
  <2>1. f[i - 1] \in Splits
    <3> HIDE DEF step, start
    <3> QED
      BY <1>1, <1>3
  <2> QED
    BY <2>1
<1>5. f = [i \in 0..Len(s) |-> IF i = 0 THEN start ELSE SplitLine(s, first, f[i - 1], i)]
  <2> HIDE DEF step, start
  <2>1. \A i \in 0..Len(s) : i # 0 => i \in 1..Len(s)
    BY <1>1
  <2>2. \A i \in 0..Len(s) :
          (IF i = 0 THEN start ELSE step[<<f[i - 1], i>>]) = (IF i = 0 THEN start ELSE SplitLine(s, first, f[i - 1], i))
    BY <1>4, <2>1
  <2> QED
    BY <1>3, <2>2, Zenon
<1>6. Split(s, first) = [i \in 0..Len(s) |-> IF i = 0 THEN start ELSE SplitLine(s, first, Split(s, first)[i - 1], i)]
  BY <1>5, Zenon DEF Split
<1>7. 0 \in 0..Len(s) /\ \A i \in 1..Len(s) : i \in 0..Len(s) /\ i # 0
  BY <1>1
<1>8. Split(s, first)[0] = start
  BY <1>6, <1>7
<1>9. ASSUME NEW i \in 1..Len(s)
      PROVE  Split(s, first)[i] = SplitLine(s, first, Split(s, first)[i - 1], i)
  <2>1. i \in 0..Len(s) /\ i # 0
    BY <1>7
  <2> HIDE DEF start
  <2> QED
    BY <1>6, <2>1
<1> QED
  BY <1>8, <1>9

(* A block that has ended, or that line i ends, is as it was.              *)
LEMMA BlockKept ==
  ASSUME NEW s \in Seq(Line), NEW first \in Nat \ {0}, NEW i \in 1..Len(s), NEW b \in Block,
         BlockSo(s, first, i - 1, b), StopsAt(s, i) \/ ~EndsAt(first, i - 1, b)
  PROVE  BlockSo(s, first, i, b) /\ ~EndsAt(first, i, b) /\ b.head < first + i - 1
<1> DEFINE h == b.head - first + 1
           m == Len(b.body)
<1>1. b.head \in Nat /\ m \in Nat /\ i \in Nat /\ h \in Int
  BY LenProperties DEF Block
<1>2. /\ h \in 1..(i - 1) /\ HeadAt(s, h) /\ h + m <= i - 1
      /\ \A k \in 1..m : b.body[k] = b.head + k
      /\ \A j \in (h + 1)..(h + m) : ~StopsAt(s, j)
      /\ h + m < i - 1 => StopsAt(s, h + m + 1)
  BY DEF BlockSo
<1>3. EndsAt(first, i - 1, b) <=> h + m = i - 1
  BY <1>1 DEF EndsAt
<1>4. EndsAt(first, i, b) <=> h + m = i
  <2>1. ASSUME NEW x \in Int, NEW y \in Int, NEW z \in Int
        PROVE  x + y = z + i - 1 <=> (x - z + 1) + y = i
    BY <1>1
  <2>2. b.head \in Int /\ m \in Int /\ first \in Int
    BY <1>1
  <2>3. b.head + m = first + i - 1 <=> h + m = i
    <3> HIDE DEF m
    <3> QED
      BY <2>1, <2>2
  <2> QED
    BY <2>3 DEF EndsAt
<1>5. StopsAt(s, h + m + 1)
  <2>1. CASE h + m = i - 1
    <3>1. h + m + 1 = i
      BY <1>1, <2>1
    <3> QED
      BY <1>3, <2>1, <3>1
  <2>2. CASE h + m # i - 1
    <3>1. h + m < i - 1
      BY <1>1, <1>2, <2>2
    <3> QED
      BY <1>2, <3>1
  <2> QED
    BY <2>1, <2>2
<1>6. h \in 1..i /\ h + m <= i /\ h + m # i /\ b.head < first + i - 1
  BY <1>1, <1>2
<1> HIDE DEF h, m
<1>7. BlockSo(s, first, i, b)
  BY <1>2, <1>5, <1>6 DEF BlockSo, h, m
<1> QED
  BY <1>4, <1>6, <1>7

(* One line keeps what is known of the blocks.                             *)
LEMMA SplitStep ==
  ASSUME NEW s \in Seq(Line), NEW first \in Nat \ {0}, NEW i \in 1..Len(s),
         NEW p, SplitSo(s, first, i - 1, p)
  PROVE  SplitSo(s, first, i, SplitLine(s, first, p, i))
<1> DEFINE n == Len(p.blocks)
           place == first + i - 1
           q == SplitLine(s, first, p, i)
<1>1. /\ p \in Splits /\ p.blocks \in Seq(Block) /\ n \in Nat /\ place \in Nat /\ i \in Nat
      /\ \A b \in 1..n : p.blocks[b] \in Block
      /\ q \in Splits
  BY SplitLineIs, LenProperties, ElementOfSeq DEF SplitSo, Splits
<1>2. /\ p.open => n > 0
      /\ \A b \in 1..n : BlockSo(s, first, i - 1, p.blocks[b])
      /\ \A b \in 1..n : EndsAt(first, i - 1, p.blocks[b]) <=> p.open /\ b = n
      /\ \A b, c \in 1..n : b < c => p.blocks[b].head < p.blocks[c].head
      /\ \A j \in 1..(i - 1) : HeadAt(s, j) => \E b \in 1..n : p.blocks[b].head = first + j - 1
  BY DEF SplitSo
<1>3. CASE HeadAt(s, i)
  <2> DEFINE new == [head |-> place, body |-> <<>>]
  <2>1. q = [blocks |-> Append(p.blocks, new), open |-> TRUE]
    BY <1>3 DEF SplitLine, HeadAt
  <2>2. /\ new \in Block /\ BlockSo(s, first, i, new) /\ EndsAt(first, i, new)
    <3>1. new.head = place /\ new.body = <<>> /\ Len(new.body) = 0
      BY EmptySeq
    <3>2. new \in Block
      BY <1>1, EmptySeq DEF Block
    <3>3. new.head - first + 1 = i /\ new.head + 0 = first + i - 1
      BY <1>1, <3>1
    <3> HIDE DEF new
    <3> QED
      BY <1>1, <1>3, <3>1, <3>2, <3>3 DEF BlockSo, EndsAt
  <2>3. Len(q.blocks) = n + 1 /\ q.blocks[n + 1] = new /\ \A b \in 1..n : q.blocks[b] = p.blocks[b]
    BY <1>1, <2>1, <2>2, AppendProperties
  <2>4. \A b \in 1..n : BlockSo(s, first, i, q.blocks[b]) /\ ~EndsAt(first, i, q.blocks[b]) /\ q.blocks[b].head < place
    BY <1>1, <1>2, <1>3, <2>3, BlockKept DEF StopsAt, HeadAt
  <2>5. q.open = TRUE /\ new.head = place
    BY <2>1
  <2>6. \A b \in 1..(n + 1) : b \in 1..n \/ b = n + 1
    BY <1>1
  <2> HIDE DEF q, new
  <2>7. \A b \in 1..(n + 1) : BlockSo(s, first, i, q.blocks[b])
    BY <2>2, <2>3, <2>4, <2>6
  <2>8. \A b \in 1..(n + 1) : EndsAt(first, i, q.blocks[b]) <=> b = n + 1
    BY <1>1, <2>2, <2>3, <2>4, <2>6
  <2>9. \A b, c \in 1..(n + 1) : b < c => q.blocks[b].head < q.blocks[c].head
    <3> TAKE b, c \in 1..(n + 1)
    <3> HAVE b < c
    <3>1. b \in 1..n
      BY <1>1
    <3>2. CASE c = n + 1
      BY <2>3, <2>4, <2>5, <3>1, <3>2
    <3>3. CASE c \in 1..n
      BY <1>2, <2>3, <3>1, <3>3
    <3> QED
      BY <2>6, <3>2, <3>3
  <2>10. \A j \in 1..i : HeadAt(s, j) => \E b \in 1..(n + 1) : q.blocks[b].head = first + j - 1
    <3> TAKE j \in 1..i
    <3> HAVE HeadAt(s, j)
    <3>1. CASE j = i
      BY <1>1, <2>3, <2>5, <3>1
    <3>2. CASE j # i
      <4>1. j \in 1..(i - 1)
        BY <1>1, <3>2
      <4>2. PICK b \in 1..n : p.blocks[b].head = first + j - 1
        BY <1>2, <4>1
      <4>3. b \in 1..(n + 1) /\ q.blocks[b].head = first + j - 1
        BY <1>1, <2>3, <4>2
      <4> QED
        BY <4>3
    <3> QED
      BY <3>1, <3>2
  <2>11. n + 1 > 0
    BY <1>1
  <2> QED
    BY <1>1, <2>3, <2>5, <2>7, <2>8, <2>9, <2>10, <2>11 DEF SplitSo, q
<1>4. CASE ~HeadAt(s, i) /\ StopsAt(s, i)
  <2>1. q = [p EXCEPT !.open = FALSE]
    BY <1>4 DEF SplitLine, HeadAt, StopsAt
  <2>2. q.blocks = p.blocks /\ q.open = FALSE
    BY <1>1, <2>1 DEF Splits
  <2>3. \A b \in 1..n : BlockSo(s, first, i, p.blocks[b]) /\ ~EndsAt(first, i, p.blocks[b])
    BY <1>1, <1>2, <1>4, BlockKept
  <2>4. \A j \in 1..i : HeadAt(s, j) => j \in 1..(i - 1)
    BY <1>1, <1>4
  <2> HIDE DEF q
  <2> QED
    BY <1>1, <1>2, <2>2, <2>3, <2>4 DEF SplitSo, q
<1>5. CASE ~StopsAt(s, i) /\ ~p.open
  <2>1. q = p
    BY <1>5 DEF SplitLine, HeadAt, StopsAt
  <2>2. \A b \in 1..n : BlockSo(s, first, i, p.blocks[b]) /\ ~EndsAt(first, i, p.blocks[b])
    BY <1>1, <1>2, <1>5, BlockKept
  <2>3. \A j \in 1..i : HeadAt(s, j) => j \in 1..(i - 1)
    BY <1>1, <1>5 DEF StopsAt, HeadAt
  <2> HIDE DEF q
  <2> QED
    BY <1>1, <1>2, <1>5, <2>1, <2>2, <2>3 DEF SplitSo, q
<1>6. CASE ~StopsAt(s, i) /\ p.open
  <2> DEFINE old == p.blocks[n]
             new == [old EXCEPT !.body = Append(@, place)]
  <2>1. q = [p EXCEPT !.blocks[n] = new]
    BY <1>6 DEF SplitLine, HeadAt, StopsAt
  <2>2. n \in 1..n /\ old \in Block /\ EndsAt(first, i - 1, old) /\ BlockSo(s, first, i - 1, old)
    BY <1>1, <1>2, <1>6
  <2>3. q.open = p.open /\ q.blocks = [p.blocks EXCEPT ![n] = new]
    BY <1>1, <2>1 DEF Splits
  <2>4. Len(q.blocks) = n /\ q.blocks[n] = new /\ \A b \in 1..n : b # n => q.blocks[b] = p.blocks[b]
    <3>1. DOMAIN p.blocks = 1..n
      BY <1>1, LenProperties
    <3> HIDE DEF new
    <3>2. DOMAIN q.blocks = 1..n /\ q.blocks[n] = new /\ \A b \in 1..n : b # n => q.blocks[b] = p.blocks[b]
      BY <2>2, <2>3, <3>1
    <3>3. q.blocks \in Seq(Block)
      BY <1>1 DEF Splits
    <3>4. Len(q.blocks) \in Nat /\ DOMAIN q.blocks = 1..Len(q.blocks)
      BY <3>3, LenProperties
    <3> HIDE DEF q
    <3>5. Len(q.blocks) = n
      BY <1>1, <3>2, <3>4
    <3> QED
      BY <3>2, <3>5
  <2>5. /\ new.head = old.head /\ new.body = Append(old.body, place)
        /\ old.body \in Seq(Nat) /\ Len(old.body) \in Nat /\ old.head \in Nat
    BY <2>2, LenProperties DEF Block
  <2>6. /\ Len(new.body) = Len(old.body) + 1 /\ new.body[Len(old.body) + 1] = place
        /\ \A k \in 1..Len(old.body) : new.body[k] = old.body[k]
    BY <1>1, <2>5, AppendProperties
  <2>7. BlockSo(s, first, i, new) /\ EndsAt(first, i, new)
    <3> DEFINE h == old.head - first + 1
               m == Len(old.body)
    <3>1. h + m = i - 1 /\ h + (m + 1) = i /\ old.head + (m + 1) = place /\ h \in Nat
      <4>1. old.head + m = first + (i - 1) - 1 /\ old.head \in Nat /\ m \in Nat
        BY <2>2, <2>5 DEF EndsAt
      <4>2. h \in 1..(i - 1)
        BY <2>2 DEF BlockSo
      <4>3. ASSUME NEW x \in Nat, NEW y \in Nat, x + y = first + (i - 1) - 1
            PROVE  LET z == x - first + 1 IN
                   z + y = i - 1 /\ z + (y + 1) = i /\ x + (y + 1) = first + i - 1 /\ z \in Int
        BY <1>1, <4>3
      <4>4. \A z \in 1..(i - 1) : z \in Nat
        BY <1>1
      <4> HIDE DEF old
      <4> QED
        BY <4>1, <4>2, <4>3, <4>4
    <3>2. /\ h \in 1..(i - 1) /\ HeadAt(s, h)
          /\ \A k \in 1..m : old.body[k] = old.head + k
          /\ \A j \in (h + 1)..(h + m) : ~StopsAt(s, j)
      BY <2>2 DEF BlockSo
    <3> HIDE DEF new, old
    <3>3. \A k \in 1..(m + 1) : new.body[k] = new.head + k
      <4> TAKE k \in 1..(m + 1)
      <4>1. CASE k = m + 1
        BY <2>5, <2>6, <3>1, <4>1
      <4>2. CASE k # m + 1
        <5>1. k \in 1..m
          BY <2>5, <4>2
        <5> QED
          BY <2>5, <2>6, <3>2, <5>1
      <4> QED
        BY <4>1, <4>2
    <3>4. \A j \in (h + 1)..(h + (m + 1)) : ~StopsAt(s, j)
      <4> TAKE j \in (h + 1)..(h + (m + 1))
      <4>1. CASE j = i
        BY <1>6, <4>1
      <4>2. CASE j # i
        <5>1. j \in (h + 1)..(h + m)
          BY <2>5, <3>1, <4>2
        <5> QED
          BY <3>2, <5>1
      <4> QED
        BY <4>1, <4>2
    <3>5. h \in 1..i /\ h + (m + 1) <= i /\ ~(h + (m + 1) < i) /\ new.head + (m + 1) = first + i - 1
      BY <1>1, <2>5, <3>1, <3>2
    <3>6. new.head - first + 1 = h /\ Len(new.body) = m + 1
      BY <2>5, <2>6
    <3> HIDE DEF h, m
    <3> QED
      BY <3>2, <3>3, <3>4, <3>5, <3>6 DEF BlockSo, EndsAt
  <2>8. \A b \in 1..n : b # n => BlockSo(s, first, i, q.blocks[b]) /\ ~EndsAt(first, i, q.blocks[b])
    BY <1>1, <1>2, <2>4, BlockKept
  <2>9. \A b \in 1..n : q.blocks[b].head = p.blocks[b].head
    BY <2>4, <2>5
  <2>10. \A j \in 1..i : HeadAt(s, j) => j \in 1..(i - 1)
    BY <1>1, <1>6 DEF StopsAt, HeadAt
  <2> HIDE DEF q, new, old
  <2> QED
    BY <1>1, <1>2, <1>6, <2>3, <2>4, <2>7, <2>8, <2>9, <2>10 DEF SplitSo, q
<1> QED
  BY <1>3, <1>4, <1>5, <1>6

(* The blocks of a whole stretch.                                          *)
LEMMA SplitShape ==
  ASSUME NEW s \in Seq(Line), NEW first \in Nat \ {0}
  PROVE  SplitSo(s, first, Len(s), Split(s, first)[Len(s)])
<1> DEFINE T == {i \in 0..Len(s) : SplitSo(s, first, i, Split(s, first)[i])}
<1>1. Len(s) \in Nat
  BY LenProperties
<1>2. 0 \in T
  <2> DEFINE p == [blocks |-> <<>>, open |-> FALSE]
  <2>1. p \in Splits /\ p.open = FALSE /\ Len(p.blocks) = 0
    BY EmptySeq DEF Splits
  <2> HIDE DEF p
  <2>2. SplitSo(s, first, 0, p)
    BY <2>1 DEF SplitSo
  <2> QED
    BY <1>1, <2>2, SplitIs DEF p
<1>3. ASSUME NEW i \in 1..Len(s), i - 1 \in T PROVE i \in T
  <2>1. SplitSo(s, first, i - 1, Split(s, first)[i - 1])
    BY <1>3
  <2>2. Split(s, first)[i] = SplitLine(s, first, Split(s, first)[i - 1], i)
    BY SplitIs
  <2>3. SplitSo(s, first, i, Split(s, first)[i])
    BY <2>1, <2>2, SplitStep
  <2> QED
    BY <1>1, <2>3
<1>4. Len(s) \in T
  <2> HIDE DEF T
  <2>1. \A i \in 0..Len(s) : i \in T
    BY <1>1, <1>2, <1>3, Climb
  <2> QED
    BY <1>1, <2>1
<1> QED
  BY <1>4

(* Where the lines of a section are, and where the section ends.           *)
LEMMA ScopeIs ==
  ASSUME NEW d \in Seq(Line), OneSection(d)
  PROVE  LET first == Scope(d)[1]  last == Scope(d)[2] IN
         /\ first \in 1..(Len(d) + 1) /\ last \in (first - 1)..Len(d) /\ ~Fenced(d)[first - 1]
         /\ last < Len(d) => ~Fenced(d)[last + 1] /\ d[last + 1] \in {"group", "testcases"}
         /\ \A i \in 1..Len(d) : HeadAt(d, i) => (InSection(d, i) <=> i \in first..last)
<1> DEFINE starts == {i \in 1..Len(d) : d[i] = "testcases"}
<1>1. Len(d) \in Nat /\ starts \subseteq Nat
  BY LenProperties
<1>2. CASE starts = {}
  <2>1. Scope(d) = <<1, Len(d)>>
    BY <1>2 DEF Scope
  <2>2. Fenced(d)[0] = FALSE
    BY <1>1, FencedIs
  <2>3. \A i \in 1..Len(d) : InSection(d, i)
    BY <1>2 DEF InSection
  <2> HIDE DEF starts
  <2> QED
    BY <1>1, <2>1, <2>2, <2>3
<1>3. CASE starts # {}
  <2> DEFINE start == CHOOSE i \in starts : \A j \in starts : i <= j
             rest == SubSeq(d, start + 1, Len(d))
             ends == {k \in 1..Len(rest) : rest[k] \in {"testcases", "group"} /\ ~Fenced(rest)[k]}
             e == CHOOSE k \in ends : \A j \in ends : k <= j
  <2>1. start \in starts
    <3>1. \E i \in starts : \A j \in starts : i <= j
      BY <1>1, <1>3, LeastElement
    <3> QED
      BY <3>1
  <2>2. Scope(d) = <<start + 1, IF ends = {} THEN Len(d) ELSE start + e - 1>>
    BY <1>3 DEF Scope
  <2> HIDE DEF start
  <2>3. /\ start \in 1..Len(d) /\ start \in Nat /\ ~Fenced(d)[start] /\ d[start] = "testcases"
        /\ \A j \in 1..Len(d) : d[j] = "testcases" => j = start
    BY <1>1, <2>1 DEF OneSection
  <2>4. /\ Len(rest) = Len(d) - start /\ Len(rest) \in Nat
        /\ \A k \in 1..Len(rest) : rest[k] = d[start + k] /\ Fenced(rest)[k] = Fenced(d)[start + k]
    <3>1. /\ start + 1 \in 1..(Len(d) + 1) /\ Len(d) \in ((start + 1) - 1)..Len(d)
          /\ (start + 1) - 1 = start /\ Len(d) - (start + 1) + 1 = Len(d) - start
      BY <1>1, <2>3
    <3>2. start \in 0..Len(d) /\ Len(d) \in start..Len(d) /\ Len(d) \in Nat
      BY <1>1, <2>3
    <3>3. WithinSo(d, start, Len(d), rest)
      BY <2>3, <3>2, FencedWithin
    <3> HIDE DEF rest
    <3>4. \A k \in 1..Len(rest) : k \in 0..Len(rest)
      BY <3>3 DEF WithinSo
    <3> QED
      BY <3>3, <3>4 DEF WithinSo
  <2> HIDE DEF rest
  <2>5. ASSUME NEW g \in 1..Len(d), g > start, d[g] \in {"testcases", "group"}, ~Fenced(d)[g]
        PROVE  g - start \in ends
    <3>1. g - start \in 1..Len(rest) /\ start + (g - start) = g
      BY <1>1, <2>3, <2>4, <2>5
    <3> QED
      BY <2>4, <2>5, <3>1
  <2>6. ASSUME NEW i \in 1..Len(d), HeadAt(d, i), InSection(d, i) PROVE i > start
    <3>1. \E x \in 1..(i - 1) : d[x] = "testcases"
      BY <2>3, <2>6 DEF InSection
    <3> QED
      BY <1>1, <2>3, <3>1
  <2>7. ASSUME NEW i \in 1..Len(d), i > start,
               \A g \in (start + 1)..(i - 1) : ~(d[g] = "group" /\ ~Fenced(d)[g])
        PROVE  InSection(d, i)
    <3>1. start \in 1..(i - 1)
      BY <1>1, <2>3, <2>7
    <3>2. ASSUME NEW g \in 1..(i - 1), d[g] = "group", ~Fenced(d)[g]
          PROVE  start \in (g + 1)..(i - 1)
      <4>1. g # start
        BY <2>3, <3>2
      <4>2. ~(g > start)
        BY <1>1, <2>3, <2>7, <3>2
      <4> QED
        BY <1>1, <2>3, <3>1, <4>1, <4>2
    <3> QED
      BY <2>3, <3>1, <3>2 DEF InSection
  <2>8. CASE ends = {}
    <3>1. Scope(d)[1] = start + 1 /\ Scope(d)[2] = Len(d)
      BY <2>2, <2>8
    <3>2. ASSUME NEW i \in 1..Len(d), HeadAt(d, i)
          PROVE  InSection(d, i) <=> i \in (start + 1)..Len(d)
      <4>1. i > start => \A g \in (start + 1)..(i - 1) : ~(d[g] = "group" /\ ~Fenced(d)[g])
        BY <1>1, <2>3, <2>5, <2>8
      <4> QED
        BY <1>1, <2>3, <2>6, <2>7, <3>2, <4>1
    <3>3. start + 1 \in 1..(Len(d) + 1) /\ Len(d) \in ((start + 1) - 1)..Len(d) /\ (start + 1) - 1 = start
      BY <1>1, <2>3
    <3> QED
      BY <1>1, <2>3, <3>1, <3>2, <3>3
  <2>9. CASE ends # {}
    <3>1. e \in ends /\ \A j \in ends : e <= j
      <4>1. ends \subseteq Nat
        BY <2>4
      <4>2. \E k \in ends : \A j \in ends : k <= j
        BY <2>9, <4>1, LeastElement
      <4> QED
        BY <4>2
    <3>2. e \in 1..Len(rest) /\ d[start + e] \in {"group", "testcases"} /\ ~Fenced(d)[start + e]
      BY <2>4, <3>1
    <3>3. Scope(d)[1] = start + 1 /\ Scope(d)[2] = start + e - 1
      BY <2>2, <2>9
    <3> HIDE DEF e, ends
    <3>4. start + e \in 1..Len(d) /\ start + e > start /\ e \in Nat /\ (start + e - 1) + 1 = start + e
      BY <1>1, <2>3, <2>4, <3>2
    <3>5. d[start + e] = "group"
      BY <2>3, <3>2, <3>4
    <3>6. ASSUME NEW i \in 1..Len(d), HeadAt(d, i)
          PROVE  InSection(d, i) <=> i \in (start + 1)..(start + e - 1)
      <4>1. i # start + e
        BY <3>5, <3>6 DEF HeadAt, CaseHeads
      <4>2. ASSUME i > start + e, InSection(d, i) PROVE FALSE
        <5>1. start + e \in 1..(i - 1)
          BY <1>1, <3>4, <4>2
        <5>2. PICK x \in ((start + e) + 1)..(i - 1) : d[x] = "testcases"
          BY <2>3, <3>2, <3>5, <4>2, <5>1 DEF InSection
        <5>3. x \in 1..Len(d) /\ x > start
          <6>1. start \in Nat /\ e \in Nat /\ i \in Nat /\ i <= Len(d) /\ e >= 1
            BY <1>1, <2>3, <3>2, <3>4
          <6>2. x \in Int /\ x >= (start + e) + 1 /\ x <= i - 1
            BY <5>2, <6>1
          <6> QED
            BY <1>1, <6>1, <6>2
        <5> QED
          BY <2>3, <5>2, <5>3
      <4>3. ASSUME i > start, i < start + e PROVE InSection(d, i)
        <5>1. ASSUME NEW g \in (start + 1)..(i - 1), d[g] = "group", ~Fenced(d)[g] PROVE FALSE
          <6>1. g \in 1..Len(d) /\ g > start /\ g - start < e /\ g - start \in Int
            BY <1>1, <2>3, <3>4, <4>3
          <6>2. g - start \in ends
            BY <2>5, <5>1, <6>1
          <6> QED
            BY <3>1, <3>4, <6>1, <6>2
        <5> QED
          BY <2>7, <4>3, <5>1
      <4> QED
        BY <1>1, <2>3, <2>6, <3>4, <3>6, <4>1, <4>2, <4>3
    <3>7. start + 1 \in 1..(Len(d) + 1) /\ start + e - 1 \in ((start + 1) - 1)..Len(d) /\ (start + 1) - 1 = start
      BY <1>1, <2>3, <3>4
    <3> QED
      BY <2>3, <3>2, <3>3, <3>4, <3>6, <3>7
  <2> QED
    BY <2>8, <2>9
<1> QED
  BY <1>2, <1>3

(* What ends a block in the stretch ends it in the report.                 *)
EndsBlock(d, i) == ~Fenced(d)[i] /\ (Break(d, i) \/ d[i] \in Headings \cup CaseHeads)

LEMMA StopsAlike ==
  ASSUME NEW d \in Seq(Line), NEW o \in 0..Len(d), NEW last \in o..Len(d),
         last < Len(d) => ~Fenced(d)[last + 1] /\ d[last + 1] \in {"group", "testcases"},
         NEW s, WithinSo(d, o, last, s), NEW j \in 1..Len(s)
  PROVE  StopsAt(s, j) <=> EndsBlock(d, o + j)
<1>1. /\ Len(d) \in Nat /\ Len(s) = last - o /\ o \in Nat /\ last \in Nat /\ j \in Nat
      /\ o + j \in 1..Len(d) /\ last <= Len(d)
      /\ \A x \in 1..Len(s) : s[x] = d[o + x]
      /\ Fenced(s)[j] = Fenced(d)[o + j]
  BY LenProperties DEF WithinSo
<1>2. ASSUME BreakQualifies(s, j), NEW x \in (o + j + 1)..Len(d), d[x] # "blank",
             \A k \in (o + j + 1)..(x - 1) : d[k] = "blank"
      PROVE  d[x] \in Headings
  <2>1. CASE x <= last
    <3>1. x - o \in (j + 1)..Len(s) /\ x - o \in 1..Len(s) /\ o + (x - o) = x
      BY <1>1, <2>1
    <3>2. ASSUME NEW k \in (j + 1)..((x - o) - 1) PROVE s[k] = "blank"
      <4>1. k \in 1..Len(s) /\ o + k \in (o + j + 1)..(x - 1)
        BY <1>1, <3>1
      <4> QED
        BY <1>1, <1>2, <4>1
    <3> QED
      BY <1>1, <1>2, <3>1, <3>2 DEF BreakQualifies
  <2>2. CASE x = last + 1
    BY <1>1, <2>2 DEF Headings
  <2>3. CASE x > last + 1
    <3>1. last + 1 \in (o + j + 1)..(x - 1) /\ last < Len(d)
      BY <1>1, <2>3
    <3> QED
      BY <1>2, <3>1
  <2> QED
    BY <1>1, <2>1, <2>2, <2>3
<1>3. ASSUME \A x \in (o + j + 1)..Len(d) :
               (d[x] # "blank" /\ \A k \in (o + j + 1)..(x - 1) : d[k] = "blank") => d[x] \in Headings
      PROVE  BreakQualifies(s, j)
  <2> SUFFICES ASSUME NEW x \in (j + 1)..Len(s), s[x] # "blank", \A k \in (j + 1)..(x - 1) : s[k] = "blank"
               PROVE  s[x] \in Headings
    BY DEF BreakQualifies
  <2>1. o + x \in (o + j + 1)..Len(d) /\ x \in 1..Len(s)
    BY <1>1
  <2>2. ASSUME NEW k \in (o + j + 1)..((o + x) - 1) PROVE d[k] = "blank"
    <3>1. k - o \in (j + 1)..(x - 1) /\ k - o \in 1..Len(s) /\ o + (k - o) = k
      BY <1>1
    <3>2. s[k - o] = "blank" /\ s[k - o] = d[o + (k - o)]
      BY <1>1, <3>1
    <3> QED
      BY <3>1, <3>2
  <2> QED
    BY <1>1, <1>3, <2>1, <2>2
<1>4. /\ Headings = {"case", "group", "testcases", "part"}
      /\ CaseHeads = {"case", "subcase"}
  BY DEF Headings, CaseHeads
<1>5. o + j + 1 = (o + j) + 1
  BY <1>1
<1>6. d[o + j] = "rule" /\ ~Fenced(d)[o + j] => (BreakQualifies(s, j) <=> Break(d, o + j))
  BY <1>2, <1>3, <1>4, <1>5 DEF Break
<1>7. Break(d, o + j) => d[o + j] = "rule"
  BY DEF Break
<1> QED
  BY <1>1, <1>4, <1>6, <1>7 DEF StopsAt, EndsBlock, Closes

(* The blocks of the section are the headings a reader finds, in order,    *)
(* each with the lines under it.                                           *)
BlockReads(d, b) ==
  /\ b.head \in 1..Len(d) /\ Heading(d, b.head)
  /\ \A k \in 1..Len(b.body) : b.body[k] = b.head + k
  /\ Under(d, b.head) = (b.head + 1)..(b.head + Len(b.body))
BlocksSo(d, bs) ==
  /\ bs \in Seq(Block)
  /\ \A b \in 1..Len(bs) : BlockReads(d, bs[b])
  /\ \A b, c \in 1..Len(bs) : b < c => bs[b].head < bs[c].head
  /\ \A i \in 1..Len(d) : Heading(d, i) => \E b \in 1..Len(bs) : bs[b].head = i

(* The lines under a heading end where the first line ends its block.      *)
LEMMA UnderIs ==
  ASSUME NEW d \in Seq(Line), NEW h \in Nat, NEW m \in Nat, h + m <= Len(d),
         \A j \in (h + 1)..(h + m) : ~EndsBlock(d, j),
         h + m < Len(d) => EndsBlock(d, h + m + 1)
  PROVE  Under(d, h) = (h + 1)..(h + m)
<1>1. Len(d) \in Nat
  BY LenProperties
<1>2. Under(d, h) = {i \in (h + 1)..Len(d) : \A j \in (h + 1)..i : ~EndsBlock(d, j)}
  BY DEF Under, EndsBlock, Headings, CaseHeads
<1>3. ASSUME NEW i \in (h + 1)..(h + m)
      PROVE  i \in (h + 1)..Len(d) /\ \A j \in (h + 1)..i : ~EndsBlock(d, j)
  <2>1. i \in (h + 1)..Len(d) /\ \A j \in (h + 1)..i : j \in (h + 1)..(h + m)
    BY <1>1
  <2> QED
    BY <2>1
<1>4. ASSUME NEW i \in (h + 1)..Len(d), \A j \in (h + 1)..i : ~EndsBlock(d, j)
      PROVE  i \in (h + 1)..(h + m)
  <2>1. CASE i <= h + m
    BY <1>1, <2>1
  <2>2. CASE i > h + m
    <3>1. h + m < Len(d) /\ h + m + 1 \in (h + 1)..i
      BY <1>1, <2>2
    <3> QED
      BY <1>4, <3>1
  <2> QED
    BY <1>1, <2>1, <2>2
<1> QED
  BY <1>2, <1>3, <1>4

(* parseReport's blocks of the section of cases are those.                 *)
LEMMA BlocksAre ==
  ASSUME NEW d \in Seq(Line), OneSection(d)
  PROVE  BlocksSo(d, Blocks(d, Scope(d)[1], Scope(d)[2]))
<1> DEFINE first == Scope(d)[1]
           last == Scope(d)[2]
           s == SubSeq(d, first, last)
           bs == Blocks(d, first, last)
           o == first - 1
<1>1. /\ first \in 1..(Len(d) + 1) /\ last \in o..Len(d) /\ ~Fenced(d)[o]
      /\ last < Len(d) => ~Fenced(d)[last + 1] /\ d[last + 1] \in {"group", "testcases"}
      /\ \A i \in 1..Len(d) : HeadAt(d, i) => (InSection(d, i) <=> i \in first..last)
  BY ScopeIs
<1>2. bs = Split(s, first)[Len(s)].blocks
  BY DEF Blocks
<1> HIDE DEF first, last, bs
<1>3. Len(d) \in Nat /\ o \in 0..Len(d) /\ o + 1 = first /\ first \in Nat \ {0} /\ last \in Nat /\ o \in Nat
  BY <1>1, LenProperties
<1> HIDE DEF o
<1>4. WithinSo(d, o, last, s)
  <2>1. WithinSo(d, o, last, SubSeq(d, o + 1, last))
    BY <1>1, <1>3, FencedWithin
  <2> QED
    BY <1>3, <2>1
<1> HIDE DEF s
<1>5. \A j \in 1..Len(s) : StopsAt(s, j) <=> EndsBlock(d, o + j)
  BY <1>1, <1>3, <1>4, StopsAlike
<1>6. s \in Seq(Line) /\ Len(s) = last - o /\ \A j \in 1..Len(s) : s[j] = d[o + j] /\ Fenced(s)[j] = Fenced(d)[o + j]
  BY <1>4 DEF WithinSo
<1> DEFINE n == Len(bs)
<1>7. /\ bs \in Seq(Block) /\ n \in Nat /\ \A b \in 1..n : bs[b] \in Block
      /\ \A b \in 1..n : BlockSo(s, first, Len(s), bs[b])
      /\ \A b, c \in 1..n : b < c => bs[b].head < bs[c].head
      /\ \A j \in 1..Len(s) : HeadAt(s, j) => \E b \in 1..n : bs[b].head = first + j - 1
  <2>1. SplitSo(s, first, Len(s), Split(s, first)[Len(s)])
    BY <1>3, <1>6, SplitShape
  <2>2. bs \in Seq(Block)
    BY <1>2, <2>1 DEF SplitSo, Splits
  <2> QED
    BY <1>2, <2>1, <2>2, LenProperties, ElementOfSeq DEF SplitSo
<1> HIDE DEF n
<1>8. ASSUME NEW b \in 1..n PROVE BlockReads(d, bs[b])
  <2> DEFINE head == bs[b].head
             m == Len(bs[b].body)
             h == head - first + 1
  <2>1. head \in Nat /\ m \in Nat
    BY <1>7, LenProperties DEF Block
  <2>2. /\ h \in 1..Len(s) /\ HeadAt(s, h) /\ h + m <= Len(s)
        /\ \A k \in 1..m : bs[b].body[k] = head + k
        /\ \A j \in (h + 1)..(h + m) : ~StopsAt(s, j)
        /\ h + m < Len(s) => StopsAt(s, h + m + 1)
    BY <1>7 DEF BlockSo
  <2> HIDE DEF head, m
  <2>3. o + h = head /\ h \in Nat /\ head \in first..last /\ head \in 1..Len(d) /\ head + m <= last
    <3>1. h \in Int /\ head = h + first - 1 /\ Len(s) = last - o /\ o = first - 1 /\ first >= 1
      BY <1>1, <1>3, <1>6, <2>1
    <3>2. h >= 1 /\ h <= Len(s) /\ h + m <= Len(s)
      <4> HIDE DEF h
      <4>1. Len(s) \in Int
        BY <1>3, <1>6
      <4> QED
        BY <2>1, <2>2, <3>1, <4>1
    <3>3. first \in Int /\ last \in Int /\ last <= Len(d)
      BY <1>1, <1>3
    <3> HIDE DEF h
    <3> QED
      BY <1>3, <2>1, <3>1, <3>2, <3>3
  <2> HIDE DEF h
  <2>4. /\ h \in Nat /\ m \in Nat /\ o \in Nat /\ Len(s) \in Nat /\ head = o + h /\ last = o + Len(s)
        /\ h >= 1 /\ h + m <= Len(s)
    BY <1>3, <1>6, <2>1, <2>2, <2>3
  <2>5. Heading(d, head)
    <3>1. d[head] \in CaseHeads /\ ~Fenced(d)[head]
      BY <1>6, <2>2, <2>3 DEF HeadAt
    <3> QED
      BY <1>1, <2>3, <3>1 DEF Heading, HeadAt, CaseHeads
  <2>6. \A j \in (head + 1)..(head + m) : ~EndsBlock(d, j)
    <3> TAKE j \in (head + 1)..(head + m)
    <3>1. j - o \in (h + 1)..(h + m) /\ j - o \in 1..Len(s) /\ o + (j - o) = j
      BY <2>4
    <3>2. StopsAt(s, j - o) <=> EndsBlock(d, o + (j - o))
      BY <1>5, <3>1
    <3> QED
      BY <2>2, <3>1, <3>2
  <2>7. head + m < Len(d) => EndsBlock(d, head + m + 1)
    <3>1. CASE h + m < Len(s)
      <4>1. h + m + 1 \in 1..Len(s) /\ o + (h + m + 1) = head + m + 1
        BY <2>4, <3>1
      <4>2. StopsAt(s, h + m + 1) <=> EndsBlock(d, o + (h + m + 1))
        BY <1>5, <4>1
      <4> QED
        BY <2>2, <3>1, <4>1, <4>2
    <3>2. CASE h + m = Len(s)
      <4>1. head + m = last
        BY <2>4, <3>2
      <4> QED
        BY <1>1, <4>1 DEF EndsBlock, Headings
    <3> QED
      BY <2>4, <3>1, <3>2
  <2>8. Under(d, head) = (head + 1)..(head + m)
    <3>1. head \in Nat /\ head + m <= Len(d)
      BY <1>1, <1>3, <2>1, <2>3
    <3> QED
      BY <2>1, <2>6, <2>7, <3>1, UnderIs
  <2> QED
    BY <2>2, <2>3, <2>5, <2>8 DEF BlockReads, head, m
<1>9. ASSUME NEW i \in 1..Len(d), Heading(d, i) PROVE \E b \in 1..n : bs[b].head = i
  <2>1. HeadAt(d, i) /\ i \in first..last
    BY <1>1, <1>9 DEF Heading, HeadAt, CaseHeads
  <2>2. i - o \in 1..Len(s) /\ o + (i - o) = i /\ first + (i - o) - 1 = i
    BY <1>1, <1>3, <1>6, <2>1
  <2>3. s[i - o] = d[o + (i - o)] /\ Fenced(s)[i - o] = Fenced(d)[o + (i - o)]
    BY <1>6, <2>2
  <2>4. HeadAt(s, i - o)
    BY <2>1, <2>2, <2>3 DEF HeadAt
  <2>5. PICK b \in 1..n : bs[b].head = first + (i - o) - 1
    BY <1>7, <2>2, <2>4
  <2> QED
    BY <2>2, <2>5
<1>10. BlocksSo(d, bs)
  BY <1>7, <1>8, <1>9 DEF BlocksSo, n
<1> QED
  BY <1>10 DEF bs, first, last

-----------------------------------------------------------------------------
(* The fields of a block of lines h + 1, h + 2, ...: after k of them, the  *)
(* step list is open, and these are the lines it holds.                    *)
LastSteps(d, q, x) == d[q] = "steps" /\ \A j \in (q + 1)..x : d[j] \notin AtMargin
Opened(d, h, k) == \E q \in (h + 1)..(h + k) : LastSteps(d, q, h + k)
Taken(d, h, k) ==
  {x \in (h + 1)..(h + k) : \E q \in (h + 1)..(x - 1) :
     LastSteps(d, q, x) /\ \A j \in (q + 1)..(h + k) : d[j] # "steps"}

(* What one more line does to the open field and to the lines of steps.    *)
LEMMA TakenStep ==
  ASSUME NEW d, NEW h \in Nat, NEW k \in Nat, NEW i, i = h + k + 1
  PROVE  /\ d[i] = "steps" => Opened(d, h, k + 1) /\ Taken(d, h, k + 1) = {}
         /\ d[i] \in {"risk", "extra"} => ~Opened(d, h, k + 1) /\ Taken(d, h, k + 1) = Taken(d, h, k)
         /\ d[i] \notin AtMargin =>
              /\ Opened(d, h, k + 1) <=> Opened(d, h, k)
              /\ Taken(d, h, k + 1) = Taken(d, h, k) \cup (IF Opened(d, h, k) THEN {i} ELSE {})
<1>1. /\ i \in Nat /\ h + (k + 1) = i /\ h + k = i - 1 /\ i \in (h + 1)..(h + (k + 1))
      /\ \A x : x \in (h + 1)..(h + (k + 1)) <=> x \in (h + 1)..(h + k) \/ x = i
      /\ \A x \in (h + 1)..(h + k) : x \in Nat /\ x < i
  OBVIOUS
<1>2. AtMargin = {"risk", "steps", "extra"}
  BY DEF AtMargin
<1>3. CASE d[i] = "steps"
  <2>1. LastSteps(d, i, i)
    <3>1. (i + 1)..i = {}
      BY <1>1
    <3> QED
      BY <1>3, <3>1 DEF LastSteps
  <2>2. Opened(d, h, k + 1)
    BY <1>1, <2>1 DEF Opened
  <2>3. ASSUME NEW x \in Taken(d, h, k + 1) PROVE FALSE
    <3>1. PICK q \in (h + 1)..(x - 1) : \A j \in (q + 1)..(h + (k + 1)) : d[j] # "steps"
      BY <2>3 DEF Taken
    <3>2. x \in (h + 1)..(h + (k + 1))
      BY <2>3 DEF Taken
    <3>3. i \in (q + 1)..(h + (k + 1))
      BY <1>1, <3>1, <3>2
    <3> QED
      BY <1>3, <3>1, <3>3
  <2>4. Taken(d, h, k + 1) = {}
    BY <2>3
  <2> QED
    BY <1>2, <1>3, <2>2, <2>4
<1>4. CASE d[i] # "steps"
  <2>1. ASSUME NEW x \in (h + 1)..(h + k) PROVE x \in Taken(d, h, k + 1) <=> x \in Taken(d, h, k)
    <3>1. x \in (h + 1)..(h + (k + 1))
      BY <1>1
    <3>2. ASSUME NEW q \in (h + 1)..(x - 1)
          PROVE  (\A j \in (q + 1)..(h + (k + 1)) : d[j] # "steps") <=> (\A j \in (q + 1)..(h + k) : d[j] # "steps")
      <4>1. \A j : j \in (q + 1)..(h + (k + 1)) <=> j \in (q + 1)..(h + k) \/ j = i
        BY <1>1, <3>1
      <4> QED
        BY <1>4, <4>1
    <3> QED
      BY <2>1, <3>1, <3>2 DEF Taken
  <2>2. CASE d[i] \in AtMargin
    <3>1. ASSUME NEW q \in (h + 1)..(h + (k + 1)), LastSteps(d, q, i) PROVE FALSE
      <4>1. q # i
        BY <1>4, <3>1 DEF LastSteps
      <4>2. i \in (q + 1)..i
        BY <1>1, <4>1
      <4> QED
        BY <2>2, <3>1, <4>2 DEF LastSteps
    <3>2. ~Opened(d, h, k + 1)
      BY <1>1, <3>1 DEF Opened
    <3>3. i \notin Taken(d, h, k + 1)
      <4>1. \A q \in (h + 1)..(i - 1) : q \in (h + 1)..(h + (k + 1))
        BY <1>1
      <4> QED
        BY <3>1, <4>1 DEF Taken
    <3>4. Taken(d, h, k + 1) \subseteq (h + 1)..(h + (k + 1)) /\ Taken(d, h, k) \subseteq (h + 1)..(h + k)
      BY DEF Taken
    <3>5. Taken(d, h, k + 1) = Taken(d, h, k)
      BY <1>1, <2>1, <3>3, <3>4
    <3> QED
      BY <1>4, <2>2, <3>2, <3>5
  <2>3. CASE d[i] \notin AtMargin
    <3>1. ASSUME NEW q \in (h + 1)..(h + k) PROVE LastSteps(d, q, i) <=> LastSteps(d, q, h + k)
      <4>1. \A j : j \in (q + 1)..i <=> j \in (q + 1)..(h + k) \/ j = i
        BY <1>1
      <4> QED
        BY <2>3, <4>1 DEF LastSteps
    <3>2. ~LastSteps(d, i, i)
      BY <1>4 DEF LastSteps
    <3>3. Opened(d, h, k + 1) <=> Opened(d, h, k)
      BY <1>1, <3>1, <3>2 DEF Opened
    <3>4. i \in Taken(d, h, k + 1) <=> Opened(d, h, k)
      <4>1. (h + 1)..(i - 1) = (h + 1)..(h + k)
        BY <1>1
      <4>2. ASSUME NEW q \in (h + 1)..(h + k), LastSteps(d, q, i)
            PROVE  \A j \in (q + 1)..(h + (k + 1)) : d[j] # "steps"
        BY <1>1, <1>2, <4>2 DEF LastSteps
      <4>3. i \in Taken(d, h, k + 1) <=> \E q \in (h + 1)..(h + k) : LastSteps(d, q, i)
        BY <1>1, <4>1, <4>2 DEF Taken
      <4> QED
        BY <3>1, <4>3 DEF Opened
    <3>5. Taken(d, h, k + 1) \subseteq (h + 1)..(h + (k + 1)) /\ Taken(d, h, k) \subseteq (h + 1)..(h + k)
      BY DEF Taken
    <3>6. Taken(d, h, k + 1) = Taken(d, h, k) \cup (IF Opened(d, h, k) THEN {i} ELSE {})
      <4>1. \A x : x \in Taken(d, h, k + 1) <=> x \in Taken(d, h, k) \/ (x = i /\ Opened(d, h, k))
        BY <1>1, <2>1, <3>4, <3>5
      <4> QED
        BY <4>1
    <3> QED
      BY <1>2, <2>3, <3>3, <3>6
  <2> QED
    BY <2>2, <2>3
<1> QED
  BY <1>3, <1>4

FieldState == [cur : {"none", "risk", "steps"}, has : SUBSET Required,
               raw : [risk : Seq(Nat), steps : Seq(Nat)]]
Opening == {"risk", "steps", "indented"}
FieldsSo(d, h, k, p) ==
  /\ p \in FieldState /\ (p.cur = "steps" => p.has # {})
  /\ p.has # {} <=> \E j \in (h + 1)..(h + k) : d[j] \in Opening
  /\ p.cur = "steps" <=> Opened(d, h, k)
  /\ ToSet(p.raw.steps) = Taken(d, h, k)

(* What one line does to the fields.                                       *)
LEMMA FieldLineIs ==
  ASSUME NEW line \in Line, NEW p \in FieldState, NEW place \in Nat,
         p.cur = "steps" => p.has # {}, NEW q, q = FieldLine(line, p, place)
  PROVE  /\ q \in FieldState /\ (q.cur = "steps" => q.has # {})
         /\ p.has # {} \/ line \in Opening => q.has # {}
         /\ p.has = {} /\ line \notin Opening => q.has = {}
         /\ line = "steps" => q.cur = "steps" /\ q.raw.steps = <<>>
         /\ line \in {"risk", "extra"} => q.cur # "steps" /\ q.raw.steps = p.raw.steps
         /\ line \notin AtMargin =>
              /\ q.cur = "steps" <=> p.cur = "steps"
              /\ q.raw.steps = IF p.cur = "steps" THEN Append(p.raw.steps, place) ELSE p.raw.steps
<1>1. /\ p = [cur |-> p.cur, has |-> p.has, raw |-> p.raw]
      /\ p.cur \in {"none", "risk", "steps"} /\ p.has \subseteq {"risk", "steps"}
      /\ p.raw = [risk |-> p.raw.risk, steps |-> p.raw.steps]
      /\ p.raw.risk \in Seq(Nat) /\ p.raw.steps \in Seq(Nat)
      /\ Append(p.raw.risk, place) \in Seq(Nat) /\ Append(p.raw.steps, place) \in Seq(Nat)
  BY AppendProperties DEF FieldState, Required
<1>2. <<>> \in Seq(Nat)
  BY EmptySeq
<1>4. CASE line = "steps"
  <2>1. q = [cur |-> "steps", has |-> p.has \cup {"steps"}, raw |-> [risk |-> p.raw.risk, steps |-> <<>>]]
    BY <1>1, <1>4 DEF FieldLine, OpensField, FieldOf
  <2>2. q.cur = "steps" /\ q.has = p.has \cup {"steps"} /\ q.raw.steps = <<>>
    BY <2>1
  <2>3. q \in FieldState
    <3>1. p.has \cup {"steps"} \in SUBSET {"risk", "steps"} /\ p.raw.risk \in Seq(Nat) /\ <<>> \in Seq(Nat)
      BY <1>1, <1>2
    <3> QED
      BY <2>1, <3>1 DEF FieldState, Required
  <2>4. q.has # {}
    BY <2>2
  <2> QED
    BY <1>4, <2>2, <2>3, <2>4 DEF Opening, AtMargin
<1>5. CASE line = "risk"
  <2>1. q = [cur |-> "risk", has |-> p.has \cup {"risk"}, raw |-> [risk |-> <<>>, steps |-> p.raw.steps]]
    BY <1>1, <1>5 DEF FieldLine, OpensField, FieldOf
  <2>2. q.cur = "risk" /\ q.has = p.has \cup {"risk"} /\ q.raw.steps = p.raw.steps
    BY <2>1
  <2>3. q \in FieldState
    <3>1. p.has \cup {"risk"} \in SUBSET {"risk", "steps"} /\ <<>> \in Seq(Nat) /\ p.raw.steps \in Seq(Nat)
      BY <1>1, <1>2
    <3> QED
      BY <2>1, <3>1 DEF FieldState, Required
  <2>4. q.has # {}
    BY <2>2
  <2> QED
    BY <1>5, <2>2, <2>3, <2>4 DEF Opening, AtMargin
<1>6. CASE line = "extra"
  <2>1. q = [cur |-> "none", has |-> p.has, raw |-> p.raw]
    BY <1>1, <1>6 DEF FieldLine, OpensField
  <2>2. q.cur = "none" /\ q.has = p.has /\ q.raw = p.raw
    BY <2>1
  <2>3. q \in FieldState
    BY <2>1 DEF FieldState
  <2> QED
    BY <1>6, <2>2, <2>3 DEF Opening, AtMargin
<1>7. CASE line = "indented" /\ p.cur # "steps"
  <2>1. q = [cur |-> "risk", has |-> p.has \cup {"risk"}, raw |-> [risk |-> <<>>, steps |-> p.raw.steps]]
    BY <1>1, <1>7 DEF FieldLine, OpensField, FieldOf
  <2>2. q.cur = "risk" /\ q.has = p.has \cup {"risk"} /\ q.raw.steps = p.raw.steps
    BY <2>1
  <2>3. q \in FieldState
    <3>1. p.has \cup {"risk"} \in SUBSET {"risk", "steps"} /\ <<>> \in Seq(Nat) /\ p.raw.steps \in Seq(Nat)
      BY <1>1, <1>2
    <3> QED
      BY <2>1, <3>1 DEF FieldState, Required
  <2>4. q.has # {}
    BY <2>2
  <2> QED
    BY <1>7, <2>2, <2>3, <2>4 DEF Opening, AtMargin
<1>8. CASE line \notin AtMargin /\ (line = "indented" => p.cur = "steps")
  <2>1. ~OpensField(line, p.cur) /\ line # "extra"
    BY <1>8 DEF OpensField, AtMargin
  <2>2. CASE p.cur = "steps"
    <3>1. q = [cur |-> "steps", has |-> p.has, raw |-> [risk |-> p.raw.risk, steps |-> Append(p.raw.steps, place)]]
      BY <1>1, <2>1, <2>2 DEF FieldLine
    <3>2. q.cur = "steps" /\ q.has = p.has /\ q.raw.steps = Append(p.raw.steps, place)
      BY <3>1
    <3>3. q \in FieldState
      <4>1. p.has \in SUBSET {"risk", "steps"} /\ p.raw.risk \in Seq(Nat) /\ Append(p.raw.steps, place) \in Seq(Nat)
        BY <1>1
      <4> QED
        BY <3>1, <4>1 DEF FieldState, Required
    <3> QED
      BY <1>8, <2>2, <3>2, <3>3 DEF Opening, AtMargin
  <2>3. CASE p.cur = "risk"
    <3>1. q = [cur |-> "risk", has |-> p.has, raw |-> [risk |-> Append(p.raw.risk, place), steps |-> p.raw.steps]]
      BY <1>1, <2>1, <2>3 DEF FieldLine
    <3>2. q.cur = "risk" /\ q.has = p.has /\ q.raw.steps = p.raw.steps
      BY <3>1
    <3>3. q \in FieldState
      <4>1. p.has \in SUBSET {"risk", "steps"} /\ Append(p.raw.risk, place) \in Seq(Nat) /\ p.raw.steps \in Seq(Nat)
        BY <1>1
      <4> QED
        BY <3>1, <4>1 DEF FieldState, Required
    <3> QED
      BY <1>8, <2>3, <3>2, <3>3 DEF Opening, AtMargin
  <2>4. CASE p.cur = "none"
    <3>1. q = p
      BY <1>1, <2>1, <2>4 DEF FieldLine
    <3> QED
      BY <1>1, <1>8, <2>4, <3>1 DEF Opening, AtMargin
  <2> QED
    BY <1>1, <2>2, <2>3, <2>4
<1> QED
  BY <1>4, <1>5, <1>6, <1>7, <1>8 DEF AtMargin

(* Fields is defined: what is known after each line, from what was before. *)
LEMMA FieldsAre ==
  ASSUME NEW d, NEW body \in Seq(Nat), \A k \in 1..Len(body) : d[body[k]] \in Line
  PROVE  /\ FieldsUpTo(d, body)[0] = [cur |-> "none", has |-> {}, raw |-> NoFields]
         /\ \A k \in 1..Len(body) :
              FieldsUpTo(d, body)[k] = FieldLine(d[body[k]], FieldsUpTo(d, body)[k - 1], body[k])
<1> DEFINE Good == {p \in FieldState : p.cur = "steps" => p.has # {}}
           start == [cur |-> "none", has |-> {}, raw |-> NoFields]
           step == [x \in Good \X (1..Len(body)) |-> FieldLine(d[body[x[2]]], x[1], body[x[2]])]
<1>1. start \in Good /\ Len(body) \in Nat
  BY EmptySeq, LenProperties DEF FieldState, NoFields
<1>2. ASSUME NEW p \in Good, NEW k \in 1..Len(body) PROVE FieldLine(d[body[k]], p, body[k]) \in Good
  <2>1. body[k] \in Nat /\ d[body[k]] \in Line /\ p \in FieldState /\ (p.cur = "steps" => p.has # {})
    BY ElementOfSeq
  <2> QED
    BY <2>1, FieldLineIs
<1> HIDE DEF Good
<1>3. step \in [Good \X (1..Len(body)) -> Good]
  BY <1>2
<1>4. PICK f : /\ f = [k \in 0..Len(body) |-> IF k = 0 THEN start ELSE step[<<f[k - 1], k>>]]
               /\ f \in [0..Len(body) -> Good]
  <2> HIDE DEF step, start
  <2>1. \A b \in Good, g \in [Good \X (1..Len(body)) -> Good] :
          \E f : /\ f = [k \in 0..Len(body) |-> IF k = 0 THEN b ELSE g[<<f[k - 1], k>>]]
                 /\ f \in [0..Len(body) -> Good]
    BY <1>1, Loop
  <2> QED
    BY <1>1, <1>3, <2>1
<1>5. ASSUME NEW k \in 1..Len(body) PROVE step[<<f[k - 1], k>>] = FieldLine(d[body[k]], f[k - 1], body[k])
  <2>1. f[k - 1] \in Good
    <3> HIDE DEF step, start
    <3>1. k - 1 \in 0..Len(body)
      BY <1>1
    <3>2. f \in [0..Len(body) -> Good]
      BY <1>4
    <3> QED
      BY <3>1, <3>2
  <2> QED
    BY <2>1
<1>6. f = [k \in 0..Len(body) |-> IF k = 0 THEN start ELSE FieldLine(d[body[k]], f[k - 1], body[k])]
  <2> HIDE DEF step, start
  <2>1. \A k \in 0..Len(body) : k # 0 => k \in 1..Len(body)
    BY <1>1
  <2>2. \A k \in 0..Len(body) :
          (IF k = 0 THEN start ELSE step[<<f[k - 1], k>>])
            = (IF k = 0 THEN start ELSE FieldLine(d[body[k]], f[k - 1], body[k]))
    BY <1>5, <2>1
  <2> QED
    BY <1>4, <2>2, Zenon
<1> HIDE DEF step
<1>7. FieldsUpTo(d, body)
        = [k \in 0..Len(body) |-> IF k = 0 THEN start ELSE FieldLine(d[body[k]], FieldsUpTo(d, body)[k - 1], body[k])]
  BY <1>6, Zenon DEF FieldsUpTo
<1>8. 0 \in 0..Len(body) /\ \A k \in 1..Len(body) : k \in 0..Len(body) /\ k # 0
  BY <1>1
<1> HIDE DEF start
<1>9. FieldsUpTo(d, body)[0] = start
  BY <1>7, <1>8
<1>10. ASSUME NEW k \in 1..Len(body)
       PROVE  FieldsUpTo(d, body)[k] = FieldLine(d[body[k]], FieldsUpTo(d, body)[k - 1], body[k])
  <2>1. k \in 0..Len(body) /\ k # 0
    BY <1>8
  <2> QED
    BY <1>7, <2>1
<1> QED
  BY <1>9, <1>10 DEF start

(* The elements of a sequence with one more.                               *)
LEMMA AppendSet ==
  ASSUME NEW u \in Seq(Nat), NEW x \in Nat
  PROVE  ToSet(Append(u, x)) = ToSet(u) \cup {x}
<1>1. /\ Len(u) \in Nat /\ DOMAIN u = 1..Len(u) /\ DOMAIN Append(u, x) = 1..(Len(u) + 1)
      /\ \A k \in 1..Len(u) : Append(u, x)[k] = u[k]
      /\ Append(u, x)[Len(u) + 1] = x
  BY LenProperties, AppendProperties
<1>2. \A k : k \in 1..(Len(u) + 1) <=> k \in 1..Len(u) \/ k = Len(u) + 1
  BY <1>1
<1> QED
  BY <1>1, <1>2 DEF ToSet

(* One line keeps what is known of the fields.                             *)
LEMMA FieldsStep ==
  ASSUME NEW d, NEW h \in Nat, NEW k \in Nat, NEW p, FieldsSo(d, h, k, p), d[h + k + 1] \in Line
  PROVE  FieldsSo(d, h, k + 1, FieldLine(d[h + k + 1], p, h + k + 1))
<1> DEFINE i == h + k + 1
           line == d[i]
           q == FieldLine(line, p, i)
<1>1. /\ p \in FieldState /\ (p.cur = "steps" => p.has # {}) /\ i \in Nat
      /\ p.has # {} <=> \E j \in (h + 1)..(h + k) : d[j] \in Opening
      /\ p.cur = "steps" <=> Opened(d, h, k)
      /\ ToSet(p.raw.steps) = Taken(d, h, k)
      /\ line \in Line
  BY DEF FieldsSo
<1> HIDE DEF q
<1>2. /\ q \in FieldState /\ (q.cur = "steps" => q.has # {})
      /\ p.has # {} \/ line \in Opening => q.has # {}
      /\ p.has = {} /\ line \notin Opening => q.has = {}
      /\ line = "steps" => q.cur = "steps" /\ q.raw.steps = <<>>
      /\ line \in {"risk", "extra"} => q.cur # "steps" /\ q.raw.steps = p.raw.steps
      /\ line \notin AtMargin =>
           /\ q.cur = "steps" <=> p.cur = "steps"
           /\ q.raw.steps = IF p.cur = "steps" THEN Append(p.raw.steps, i) ELSE p.raw.steps
  BY <1>1, FieldLineIs DEF q
<1>3. /\ line = "steps" => Opened(d, h, k + 1) /\ Taken(d, h, k + 1) = {}
      /\ line \in {"risk", "extra"} => ~Opened(d, h, k + 1) /\ Taken(d, h, k + 1) = Taken(d, h, k)
      /\ line \notin AtMargin =>
           /\ Opened(d, h, k + 1) <=> Opened(d, h, k)
           /\ Taken(d, h, k + 1) = Taken(d, h, k) \cup (IF Opened(d, h, k) THEN {i} ELSE {})
  BY TakenStep
<1>4. q.has # {} <=> \E j \in (h + 1)..(h + (k + 1)) : d[j] \in Opening
  <2>1. \A j : j \in (h + 1)..(h + (k + 1)) <=> j \in (h + 1)..(h + k) \/ j = i
    OBVIOUS
  <2> HIDE DEF i
  <2> QED
    BY <1>1, <1>2, <2>1
<1> HIDE DEF i, line
<1>5. line \in {"risk", "extra"} \/ line = "steps" \/ line \notin AtMargin
  BY DEF AtMargin
<1>6. q.cur = "steps" <=> Opened(d, h, k + 1)
  BY <1>1, <1>2, <1>3, <1>5
<1>7. ToSet(q.raw.steps) = Taken(d, h, k + 1)
  <2>1. CASE line = "steps"
    <3>1. ToSet(<<>>) = {}
      BY DEF ToSet
    <3> QED
      BY <1>2, <1>3, <2>1, <3>1
  <2>2. CASE line \in {"risk", "extra"}
    BY <1>1, <1>2, <1>3, <2>2
  <2>3. CASE line \notin AtMargin
    <3>1. p.raw.steps \in Seq(Nat)
      BY <1>1 DEF FieldState
    <3>2. ToSet(Append(p.raw.steps, i)) = ToSet(p.raw.steps) \cup {i}
      BY <1>1, <3>1, AppendSet
    <3> QED
      BY <1>1, <1>2, <1>3, <2>3, <3>2
  <2> QED
    BY <1>5, <2>1, <2>2, <2>3
<1>8. FieldsSo(d, h, k + 1, q)
  BY <1>2, <1>4, <1>6, <1>7 DEF FieldsSo
<1> QED
  BY <1>8 DEF q, line, i

(* The fields of a whole block.                                            *)
LEMMA FieldsShape ==
  ASSUME NEW d \in Seq(Line), NEW h \in Nat, NEW body \in Seq(Nat), h + Len(body) <= Len(d),
         \A k \in 1..Len(body) : body[k] = h + k
  PROVE  FieldsSo(d, h, Len(body), Fields(d, body))
<1>1. /\ Len(body) \in Nat /\ Len(d) \in Nat
      /\ \A k \in 1..Len(body) : d[body[k]] \in Line
  <2>1. Len(body) \in Nat /\ Len(d) \in Nat
    BY LenProperties
  <2>2. \A k \in 1..Len(body) : body[k] \in 1..Len(d)
    BY <2>1
  <2> QED
    BY <2>1, <2>2, ElementOfSeq
<1>2. /\ FieldsUpTo(d, body)[0] = [cur |-> "none", has |-> {}, raw |-> NoFields]
      /\ \A k \in 1..Len(body) :
           FieldsUpTo(d, body)[k] = FieldLine(d[body[k]], FieldsUpTo(d, body)[k - 1], body[k])
  BY <1>1, FieldsAre
<1> DEFINE T == {k \in 0..Len(body) : FieldsSo(d, h, k, FieldsUpTo(d, body)[k])}
<1>3. 0 \in T
  <2> DEFINE p == [cur |-> "none", has |-> {}, raw |-> NoFields]
  <2>1. p \in FieldState /\ p.cur = "none" /\ p.has = {} /\ p.raw.steps = <<>>
    BY EmptySeq DEF FieldState, NoFields
  <2>2. ToSet(<<>>) = {}
    BY DEF ToSet
  <2>3. (h + 1)..(h + 0) = {}
    OBVIOUS
  <2> HIDE DEF p
  <2>4. FieldsSo(d, h, 0, p)
    BY <2>1, <2>2, <2>3 DEF FieldsSo, Opened, Taken
  <2> QED
    BY <1>1, <1>2, <2>4 DEF p
<1>4. ASSUME NEW k \in 1..Len(body), k - 1 \in T PROVE k \in T
  <2>1. /\ k - 1 \in Nat /\ h + (k - 1) + 1 = h + k /\ (k - 1) + 1 = k /\ body[k] = h + k
        /\ d[h + k] \in Line /\ FieldsSo(d, h, k - 1, FieldsUpTo(d, body)[k - 1])
    BY <1>1, <1>4
  <2>2. FieldsSo(d, h, (k - 1) + 1, FieldLine(d[h + (k - 1) + 1], FieldsUpTo(d, body)[k - 1], h + (k - 1) + 1))
    BY <2>1, FieldsStep
  <2>3. FieldsSo(d, h, k, FieldsUpTo(d, body)[k])
    BY <1>2, <2>1, <2>2
  <2> QED
    BY <1>1, <2>3
<1>5. Len(body) \in T
  <2> HIDE DEF T
  <2>1. \A k \in 0..Len(body) : k \in T
    BY <1>1, <1>3, <1>4, Climb
  <2> QED
    BY <1>1, <2>1
<1> QED
  BY <1>5 DEF Fields

-----------------------------------------------------------------------------
(* A bounded set of numbers that is not empty has a last.                  *)
LEMMA GreatestElement ==
  ASSUME NEW n \in Nat, NEW S, S \subseteq 0..n, S # {}
  PROVE  \E i \in S : \A j \in S : i >= j
<1> DEFINE R == {n - i : i \in S}
<1>1. R \subseteq Nat /\ R # {}
  <2>1. \A i \in S : n - i \in Nat
    OBVIOUS
  <2> QED
    BY <2>1
<1>2. PICK r \in R : \A s \in R : r <= s
  <2> HIDE DEF R
  <2> QED
    BY <1>1, LeastElement
<1>3. PICK i \in S : r = n - i
  BY <1>2
<1>4. ASSUME NEW j \in S PROVE i >= j
  <2>1. n - j \in R
    OBVIOUS
  <2>2. n - i <= n - j
    BY <1>2, <1>3, <2>1
  <2>3. i \in 0..n /\ j \in 0..n
    OBVIOUS
  <2> QED
    BY <2>2, <2>3
<1> QED
  BY <1>4

(* Blank ends cut off, the lines that say something are all there.         *)
Said(d, places) == {p \in ToSet(places) : d[p] # "blank"}

LEMMA Trimmed ==
  ASSUME NEW d, NEW u \in Seq(Nat)
  PROVE  Said(d, TrimBlankEnds(d, u)) = Said(d, u)
<1> DEFINE kept == {k \in 1..Len(u) : d[u[k]] # "blank"}
           lo == CHOOSE k \in kept : \A j \in kept : k <= j
           hi == CHOOSE k \in kept : \A j \in kept : k >= j
<1>1. Len(u) \in Nat /\ DOMAIN u = 1..Len(u) /\ kept \subseteq Nat /\ kept \subseteq 0..Len(u)
  BY LenProperties
<1>2. CASE kept = {}
  <2>1. TrimBlankEnds(d, u) = <<>>
    BY <1>2 DEF TrimBlankEnds
  <2> QED
    BY <1>1, <1>2, <2>1 DEF Said, ToSet
<1>3. CASE kept # {}
  <2>1. lo \in kept /\ \A j \in kept : lo <= j
    <3>1. \E k \in kept : \A j \in kept : k <= j
      BY <1>1, <1>3, LeastElement
    <3> QED
      BY <3>1
  <2>2. hi \in kept /\ \A j \in kept : hi >= j
    <3>1. \E k \in kept : \A j \in kept : k >= j
      BY <1>1, <1>3, GreatestElement
    <3> QED
      BY <3>1
  <2>3. TrimBlankEnds(d, u) = SubSeq(u, lo, hi)
    BY <1>3 DEF TrimBlankEnds
  <2> HIDE DEF lo, hi
  <2>4. lo \in 1..Len(u) /\ hi \in 1..Len(u) /\ lo <= hi
    BY <2>1, <2>2
  <2> DEFINE t == SubSeq(u, lo, hi)
  <2>5. /\ t \in Seq(Nat) /\ Len(t) = hi - lo + 1 /\ DOMAIN t = 1..Len(t)
        /\ \A k \in 1..Len(t) : t[k] = u[lo + k - 1]
    <3>1. \A i \in lo..hi : i \in 1..Len(u)
      BY <1>1, <2>4
    <3>2. \A i \in lo..hi : u[i] \in Nat
      BY <3>1, ElementOfSeq
    <3>3. /\ t \in Seq(Nat) /\ Len(t) = hi - lo + 1
          /\ \A k \in 1..(hi - lo + 1) : t[k] = u[lo + k - 1]
      BY <1>1, <2>4, <3>2, SubSeqProperties
    <3> HIDE DEF t
    <3> QED
      BY <3>3, LenProperties
  <2> HIDE DEF t
  <2>6. ASSUME NEW p \in Said(d, t) PROVE p \in Said(d, u)
    <3>1. PICK k \in 1..Len(t) : p = t[k]
      BY <2>5 DEF Said, ToSet
    <3>2. lo + k - 1 \in 1..Len(u) /\ p = u[lo + k - 1]
      BY <1>1, <2>4, <2>5, <3>1
    <3> QED
      BY <1>1, <2>6, <3>2 DEF Said, ToSet
  <2>7. ASSUME NEW p \in Said(d, u) PROVE p \in Said(d, t)
    <3>1. PICK k \in 1..Len(u) : p = u[k] /\ d[p] # "blank"
      BY <1>1 DEF Said, ToSet
    <3>2. k \in kept
      BY <3>1
    <3>3. k - lo + 1 \in 1..Len(t) /\ lo + (k - lo + 1) - 1 = k
      <4>1. lo <= k /\ hi >= k /\ k \in Nat /\ lo \in Nat /\ hi \in Nat
        BY <1>1, <2>1, <2>2, <2>4, <3>2
      <4> QED
        BY <2>5, <4>1
    <3>4. t[k - lo + 1] = p
      BY <2>5, <3>1, <3>3
    <3> QED
      BY <2>5, <3>1, <3>3, <3>4 DEF Said, ToSet
  <2> QED
    BY <2>3, <2>6, <2>7 DEF t
<1> QED
  BY <1>2, <1>3

(* The blocks that carry a field, in their order.                          *)
Carries(d, b) == Fields(d, b.body).has # {}

LEMMA CarryingIs ==
  ASSUME NEW d, NEW bs \in Seq(Block)
  PROVE  /\ Carrying(d, bs)[0] = <<>>
         /\ \A i \in 1..Len(bs) :
              Carrying(d, bs)[i] = IF Carries(d, bs[i]) THEN Append(Carrying(d, bs)[i - 1], bs[i])
                                                        ELSE Carrying(d, bs)[i - 1]
<1> DEFINE step == [x \in Seq(Block) \X (1..Len(bs)) |->
                      IF Fields(d, bs[x[2]].body).has = {} THEN x[1] ELSE Append(x[1], bs[x[2]])]
<1>1. Len(bs) \in Nat /\ \A i \in 1..Len(bs) : bs[i] \in Block
  BY LenProperties, ElementOfSeq
<1>2. step \in [Seq(Block) \X (1..Len(bs)) -> Seq(Block)]
  <2>1. \A t \in Seq(Block), i \in 1..Len(bs) : Append(t, bs[i]) \in Seq(Block)
    BY <1>1, AppendProperties
  <2> QED
    BY <2>1
<1>3. <<>> \in Seq(Block)
  BY EmptySeq
<1>4. PICK f : /\ f = [i \in 0..Len(bs) |-> IF i = 0 THEN <<>> ELSE step[<<f[i - 1], i>>]]
               /\ f \in [0..Len(bs) -> Seq(Block)]
  <2> HIDE DEF step
  <2>1. \A b \in Seq(Block), g \in [Seq(Block) \X (1..Len(bs)) -> Seq(Block)] :
          \E f : /\ f = [i \in 0..Len(bs) |-> IF i = 0 THEN b ELSE g[<<f[i - 1], i>>]]
                 /\ f \in [0..Len(bs) -> Seq(Block)]
    BY <1>1, Loop
  <2> QED
    BY <1>2, <1>3, <2>1
<1>5. ASSUME NEW i \in 1..Len(bs)
      PROVE  step[<<f[i - 1], i>>]
               = IF Fields(d, bs[i].body).has = {} THEN f[i - 1] ELSE Append(f[i - 1], bs[i])
  <2>1. f[i - 1] \in Seq(Block)
    <3> HIDE DEF step
    <3>1. i - 1 \in 0..Len(bs)
      BY <1>1
    <3>2. f \in [0..Len(bs) -> Seq(Block)]
      BY <1>4
    <3> QED
      BY <3>1, <3>2
  <2> QED
    BY <2>1
<1>6. f = [i \in 0..Len(bs) |-> IF i = 0 THEN <<>>
              ELSE IF Fields(d, bs[i].body).has = {} THEN f[i - 1] ELSE Append(f[i - 1], bs[i])]
  <2> HIDE DEF step
  <2>1. \A i \in 0..Len(bs) : i # 0 => i \in 1..Len(bs)
    BY <1>1
  <2>2. \A i \in 0..Len(bs) :
          (IF i = 0 THEN <<>> ELSE step[<<f[i - 1], i>>])
            = (IF i = 0 THEN <<>>
               ELSE IF Fields(d, bs[i].body).has = {} THEN f[i - 1] ELSE Append(f[i - 1], bs[i]))
    BY <1>5, <2>1
  <2> QED
    BY <1>4, <2>2, Zenon
<1> HIDE DEF step
<1>7. Carrying(d, bs) = [i \in 0..Len(bs) |-> IF i = 0 THEN <<>>
         ELSE IF Fields(d, bs[i].body).has = {} THEN Carrying(d, bs)[i - 1]
              ELSE Append(Carrying(d, bs)[i - 1], bs[i])]
  BY <1>6, Zenon DEF Carrying
<1>8. 0 \in 0..Len(bs) /\ \A i \in 1..Len(bs) : i \in 0..Len(bs) /\ i # 0
  BY <1>1
<1>9. Carrying(d, bs)[0] = <<>>
  BY <1>7, <1>8
<1>10. ASSUME NEW i \in 1..Len(bs)
       PROVE  Carrying(d, bs)[i] = IF Fields(d, bs[i].body).has = {} THEN Carrying(d, bs)[i - 1]
                                   ELSE Append(Carrying(d, bs)[i - 1], bs[i])
  <2>1. i \in 0..Len(bs) /\ i # 0
    BY <1>8
  <2> QED
    BY <1>7, <2>1
<1> QED
  BY <1>9, <1>10 DEF Carries

CarriedSo(d, bs, i, t) ==
  /\ t \in Seq(Block)
  /\ \A c \in 1..Len(t) : \E b \in 1..i : t[c] = bs[b] /\ Carries(d, bs[b])
  /\ \A b \in 1..i : Carries(d, bs[b]) => \E c \in 1..Len(t) : t[c] = bs[b]
  /\ \A c, e \in 1..Len(t) : c < e => t[c].head < t[e].head

(* One block keeps what is known of those that carry a field.              *)
LEMMA CarriedStep ==
  ASSUME NEW d, NEW bs \in Seq(Block), NEW i \in 1..Len(bs),
         \A b, c \in 1..Len(bs) : b < c => bs[b].head < bs[c].head,
         NEW t, CarriedSo(d, bs, i - 1, t)
  PROVE  CarriedSo(d, bs, i, IF Carries(d, bs[i]) THEN Append(t, bs[i]) ELSE t)
<1>1. /\ Len(bs) \in Nat /\ bs[i] \in Block /\ i \in Nat /\ t \in Seq(Block) /\ Len(t) \in Nat
      /\ \A b : b \in 1..i <=> b \in 1..(i - 1) \/ b = i
      /\ \A b \in 1..(i - 1) : b \in 1..Len(bs) /\ b < i
  BY LenProperties, ElementOfSeq DEF CarriedSo
<1>2. /\ \A c \in 1..Len(t) : \E b \in 1..(i - 1) : t[c] = bs[b] /\ Carries(d, bs[b])
      /\ \A b \in 1..(i - 1) : Carries(d, bs[b]) => \E c \in 1..Len(t) : t[c] = bs[b]
      /\ \A c, e \in 1..Len(t) : c < e => t[c].head < t[e].head
  BY DEF CarriedSo
<1>3. CASE ~Carries(d, bs[i])
  BY <1>1, <1>2, <1>3 DEF CarriedSo
<1>4. CASE Carries(d, bs[i])
  <2> DEFINE n == Len(t)
             u == Append(t, bs[i])
  <2>1. u \in Seq(Block) /\ Len(u) = n + 1 /\ u[n + 1] = bs[i] /\ \A c \in 1..n : u[c] = t[c]
    BY <1>1, AppendProperties
  <2>2. \A c : c \in 1..(n + 1) <=> c \in 1..n \/ c = n + 1
    BY <1>1
  <2> HIDE DEF n, u
  <2>3. \A c \in 1..n : u[c].head < bs[i].head
    <3> TAKE c \in 1..n
    <3>1. PICK b \in 1..(i - 1) : t[c] = bs[b]
      BY <1>2 DEF n
    <3> QED
      BY <1>1, <2>1, <3>1
  <2>4. \A c \in 1..Len(u) : \E b \in 1..i : u[c] = bs[b] /\ Carries(d, bs[b])
    BY <1>1, <1>2, <1>4, <2>1, <2>2 DEF n
  <2>5. \A b \in 1..i : Carries(d, bs[b]) => \E c \in 1..Len(u) : u[c] = bs[b]
    BY <1>1, <1>2, <2>1, <2>2 DEF n
  <2>6. \A c, e \in 1..Len(u) : c < e => u[c].head < u[e].head
    <3> TAKE c, e \in 1..Len(u)
    <3> HAVE c < e
    <3>1. c \in 1..n
      BY <1>1, <2>1 DEF n
    <3>2. CASE e = n + 1
      BY <2>1, <2>3, <3>1, <3>2
    <3>3. CASE e \in 1..n
      BY <1>2, <2>1, <3>1, <3>3 DEF n
    <3> QED
      BY <2>1, <2>2, <3>2, <3>3
  <2>7. CarriedSo(d, bs, i, u)
    BY <2>1, <2>4, <2>5, <2>6 DEF CarriedSo
  <2> QED
    BY <1>4, <2>7 DEF u
<1> QED
  BY <1>3, <1>4

(* All blocks that carry a field, in their order.                          *)
LEMMA CarriedShape ==
  ASSUME NEW d, NEW bs \in Seq(Block), \A b, c \in 1..Len(bs) : b < c => bs[b].head < bs[c].head
  PROVE  CarriedSo(d, bs, Len(bs), Carrying(d, bs)[Len(bs)])
<1> DEFINE T == {i \in 0..Len(bs) : CarriedSo(d, bs, i, Carrying(d, bs)[i])}
<1>1. Len(bs) \in Nat
  BY LenProperties
<1>2. 0 \in T
  <2>1. CarriedSo(d, bs, 0, <<>>)
    BY EmptySeq DEF CarriedSo
  <2> QED
    BY <1>1, <2>1, CarryingIs
<1>3. ASSUME NEW i \in 1..Len(bs), i - 1 \in T PROVE i \in T
  <2>1. CarriedSo(d, bs, i - 1, Carrying(d, bs)[i - 1])
    BY <1>3
  <2>2. CarriedSo(d, bs, i, IF Carries(d, bs[i]) THEN Append(Carrying(d, bs)[i - 1], bs[i]) ELSE Carrying(d, bs)[i - 1])
    BY <2>1, CarriedStep
  <2>3. CarriedSo(d, bs, i, Carrying(d, bs)[i])
    BY <2>2, CarryingIs
  <2> QED
    BY <1>1, <2>3
<1>4. Len(bs) \in T
  <2> HIDE DEF T
  <2>1. \A i \in 0..Len(bs) : i \in T
    BY <1>1, <1>2, <1>3, Climb
  <2> QED
    BY <1>1, <2>1
<1> QED
  BY <1>4

(* A block, read: its fields say whether it is a case, and which lines are *)
(* its steps.                                                              *)
LEMMA BlockFields ==
  ASSUME NEW d \in Seq(Line), NEW b \in Block, BlockReads(d, b)
  PROVE  /\ Carries(d, b) <=> b.head \in CaseHeadings(d)
         /\ Said(d, CaseOf(d, b).steps) = {i \in StepLines(d, b.head) : d[i] # "blank"}
         /\ CaseOf(d, b).head = b.head
<1> DEFINE h == b.head
           m == Len(b.body)
           f == Fields(d, b.body)
<1>1. /\ h \in Nat /\ m \in Nat /\ b.body \in Seq(Nat) /\ Len(d) \in Nat
      /\ h \in 1..Len(d) /\ Heading(d, h) /\ Under(d, h) = (h + 1)..(h + m)
      /\ \A k \in 1..m : b.body[k] = h + k
  BY LenProperties DEF Block, BlockReads
<1>2. h + m <= Len(d)
  <2>1. CASE m = 0
    BY <1>1, <2>1
  <2>2. CASE m # 0
    <3>1. h + m \in (h + 1)..(h + m)
      BY <1>1, <2>2
    <3>2. h + m \in Under(d, h)
      BY <1>1, <3>1
    <3> QED
      BY <1>1, <3>2 DEF Under
  <2> QED
    BY <2>1, <2>2
<1>3. FieldsSo(d, h, m, f)
  BY <1>1, <1>2, FieldsShape
<1> HIDE DEF f, m, h
<1>4. Carries(d, b) <=> h \in CaseHeadings(d)
  <2>1. Carries(d, b) <=> \E j \in (h + 1)..(h + m) : d[j] \in Opening
    BY <1>3 DEF FieldsSo, Carries, f
  <2> QED
    BY <1>1, <2>1 DEF CaseHeadings, Opening
<1>5. Taken(d, h, m) = StepLines(d, h)
  <2>1. ASSUME NEW x \in (h + 1)..(h + m)
        PROVE  x \in Taken(d, h, m) <=> x \in StepLines(d, h)
    <3>1. \A q : q \in (h + 1)..(x - 1) <=> q \in (h + 1)..(h + m) /\ x > q
      BY <1>1
    <3>2. ASSUME NEW q \in (h + 1)..(h + m)
          PROVE  (\A j \in (q + 1)..(h + m) : d[j] # "steps") <=> (\A j \in (h + 1)..(h + m) : d[j] = "steps" => j <= q)
      BY <1>1
    <3>3. x \in Taken(d, h, m) <=>
            \E q \in (h + 1)..(h + m) : /\ x > q /\ LastSteps(d, q, x)
                                        /\ \A j \in (h + 1)..(h + m) : d[j] = "steps" => j <= q
      BY <2>1, <3>1, <3>2 DEF Taken
    <3>4. x \in StepLines(d, h) <=>
            \E q \in (h + 1)..(h + m) : /\ d[q] = "steps"
                                        /\ \A j \in (h + 1)..(h + m) : d[j] = "steps" => j <= q
                                        /\ x > q /\ \A j \in (q + 1)..x : d[j] \notin AtMargin
      BY <1>1, <2>1 DEF StepLines
    <3> QED
      BY <3>3, <3>4 DEF LastSteps
  <2>2. Taken(d, h, m) \subseteq (h + 1)..(h + m) /\ StepLines(d, h) \subseteq (h + 1)..(h + m)
    BY <1>1 DEF Taken, StepLines
  <2> QED
    BY <2>1, <2>2
<1>6. Said(d, CaseOf(d, b).steps) = {i \in StepLines(d, h) : d[i] # "blank"}
  <2>1. CaseOf(d, b).steps = TrimBlankEnds(d, f.raw.steps)
    BY DEF CaseOf, f
  <2>2. f.raw.steps \in Seq(Nat) /\ ToSet(f.raw.steps) = Taken(d, h, m)
    BY <1>3 DEF FieldsSo, FieldState
  <2>3. Said(d, TrimBlankEnds(d, f.raw.steps)) = Said(d, f.raw.steps)
    BY <2>2, Trimmed
  <2> QED
    BY <1>5, <2>1, <2>2, <2>3 DEF Said
<1>7. CaseOf(d, b).head = h
  BY DEF CaseOf, h
<1> QED
  BY <1>4, <1>6, <1>7 DEF h

(***************************************************************************)
(* parseReport, for a report of any length: its cases are in the order of  *)
(* their headings, and they are those a reader finds, with their steps.    *)
(***************************************************************************)
LEMMA ParsesAsRead ==
  ASSUME NEW d \in Seq(Line), OneSection(d), NEW cs, cs = ParseReport(d)
  PROVE  /\ \A i, j \in 1..Len(cs) : i < j => cs[i].head < cs[j].head
         /\ ReadByHand(d) # {} =>
              ReadByHand(d) = {[head |-> cs[i].head, steps |-> Said(d, cs[i].steps)] : i \in 1..Len(cs)}
<1> DEFINE bs == Blocks(d, Scope(d)[1], Scope(d)[2])
           t == Carrying(d, bs)[Len(bs)]
<1>1. BlocksSo(d, bs)
  BY BlocksAre
<1>2. cs = IF t = <<>> THEN [i \in 1..Cardinality(TableRows(d)) |->
                               [head |-> TableTop(d) + 1 + i, steps |-> <<>>, missing |-> {}]]
           ELSE [i \in 1..Len(t) |-> CaseOf(d, t[i])]
  BY DEF ParseReport
<1> HIDE DEF bs
<1>3. /\ bs \in Seq(Block) /\ Len(bs) \in Nat
      /\ \A b \in 1..Len(bs) : bs[b] \in Block /\ BlockReads(d, bs[b])
      /\ \A b, c \in 1..Len(bs) : b < c => bs[b].head < bs[c].head
      /\ \A i \in 1..Len(d) : Heading(d, i) => \E b \in 1..Len(bs) : bs[b].head = i
  BY <1>1, LenProperties, ElementOfSeq DEF BlocksSo
<1>4. CarriedSo(d, bs, Len(bs), t)
  BY <1>3, CarriedShape
<1> HIDE DEF t
<1>5. /\ t \in Seq(Block) /\ Len(t) \in Nat
      /\ \A c \in 1..Len(t) : t[c] \in Block /\ BlockReads(d, t[c]) /\ t[c].head \in CaseHeadings(d)
      /\ \A c, e \in 1..Len(t) : c < e => t[c].head < t[e].head
      /\ \A i \in CaseHeadings(d) : \E c \in 1..Len(t) : t[c].head = i
  <2>1. t \in Seq(Block) /\ Len(t) \in Nat /\ \A c, e \in 1..Len(t) : c < e => t[c].head < t[e].head
    BY <1>4, LenProperties DEF CarriedSo
  <2>2. ASSUME NEW c \in 1..Len(t)
        PROVE  t[c] \in Block /\ BlockReads(d, t[c]) /\ t[c].head \in CaseHeadings(d)
    <3>1. PICK b \in 1..Len(bs) : t[c] = bs[b] /\ Carries(d, bs[b])
      BY <1>4 DEF CarriedSo
    <3>2. bs[b] \in Block /\ BlockReads(d, bs[b])
      BY <1>3
    <3>3. bs[b].head \in CaseHeadings(d)
      BY <3>1, <3>2, BlockFields
    <3> QED
      BY <3>1, <3>2, <3>3
  <2>3. ASSUME NEW i \in CaseHeadings(d) PROVE \E c \in 1..Len(t) : t[c].head = i
    <3>1. PICK b \in 1..Len(bs) : bs[b].head = i
      BY <1>3 DEF CaseHeadings
    <3>2. bs[b] \in Block /\ BlockReads(d, bs[b]) /\ bs[b].head \in CaseHeadings(d)
      BY <1>3, <3>1
    <3>3. Carries(d, bs[b])
      BY <3>2, BlockFields
    <3> QED
      BY <1>4, <3>1, <3>3 DEF CarriedSo
  <2> QED
    BY <2>1, <2>2, <2>3
<1>6. CASE t = <<>>
  <2> DEFINE n == Cardinality(TableRows(d))
             row == [i \in 1..n |-> [head |-> TableTop(d) + 1 + i, steps |-> <<>>, missing |-> {}]]
  <2>1. CaseHeadings(d) = {}
    <3>1. Len(t) = 0
      BY <1>6
    <3> QED
      BY <1>5, <3>1
  <2>2. ReadByHand(d) = {}
    BY <2>1 DEF ReadByHand
  <2>3. n \in Nat /\ TableTop(d) \in Nat
    <3>1. Len(d) \in Nat
      BY LenProperties
    <3>2. TableTop(d) \in Nat
      <4> DEFINE tops == {i \in 1..(Len(d) - 1) : d[i] = "columns" /\ d[i + 1] = "dashes"}
      <4>1. tops \subseteq Nat
        BY <3>1
      <4>2. tops # {} => \E i \in tops : \A j \in tops : i <= j
        <5> HIDE DEF tops
        <5> QED
          BY <4>1, LeastElement
      <4>3. TableTop(d) = IF tops = {} THEN Len(d) ELSE CHOOSE i \in tops : \A j \in tops : i <= j
        BY DEF TableTop
      <4> HIDE DEF tops
      <4> QED
        BY <3>1, <4>1, <4>2, <4>3
    <3>3. TableRows(d) \subseteq (TableTop(d) + 2)..Len(d)
      BY DEF TableRows
    <3>4. IsFiniteSet((TableTop(d) + 2)..Len(d))
      BY <3>1, <3>2, FS_Interval
    <3> QED
      BY <3>2, <3>3, <3>4, FS_Subset, FS_CardinalityType
  <2> HIDE DEF n
  <2>4. cs = row
    BY <1>2, <1>6 DEF n
  <2>5. Len(row) = n
    BY <2>3
  <2>6. \A i, j \in 1..n : i < j => row[i].head < row[j].head
    BY <2>3
  <2> HIDE DEF row
  <2> QED
    BY <2>2, <2>4, <2>5, <2>6
<1>7. CASE t # <<>>
  <2> DEFINE u == [i \in 1..Len(t) |-> CaseOf(d, t[i])]
  <2>1. cs = u
    BY <1>2, <1>7
  <2>2. Len(u) = Len(t)
    BY <1>5
  <2>3. ASSUME NEW i \in 1..Len(t)
        PROVE  /\ u[i].head = t[i].head
               /\ Said(d, u[i].steps) = {x \in StepLines(d, t[i].head) : d[x] # "blank"}
    <3>1. u[i] = CaseOf(d, t[i])
      BY <2>3
    <3>2. t[i] \in Block /\ BlockReads(d, t[i])
      BY <1>5
    <3>3. CaseOf(d, t[i]).head = t[i].head
      BY DEF CaseOf
    <3>4. Said(d, CaseOf(d, t[i]).steps) = {x \in StepLines(d, t[i].head) : d[x] # "blank"}
      BY <3>2, BlockFields
    <3> HIDE DEF u
    <3> QED
      BY <3>1, <3>3, <3>4
  <2> HIDE DEF u
  <2>4. \A i, j \in 1..Len(u) : i < j => u[i].head < u[j].head
    BY <1>5, <2>2, <2>3
  <2> DEFINE By(h) == [head |-> h, steps |-> {x \in StepLines(d, h) : d[x] # "blank"}]
  <2>5. ASSUME NEW i \in 1..Len(t)
        PROVE  [head |-> u[i].head, steps |-> Said(d, u[i].steps)] = By(t[i].head)
    BY <2>3
  <2>6. ReadByHand(d) = {By(h) : h \in CaseHeadings(d)}
    BY DEF ReadByHand
  <2> HIDE DEF By
  <2>7. {By(h) : h \in CaseHeadings(d)} = {By(t[i].head) : i \in 1..Len(t)}
    BY <1>5
  <2>8. {By(t[i].head) : i \in 1..Len(t)} = {[head |-> u[i].head, steps |-> Said(d, u[i].steps)] : i \in 1..Len(t)}
    BY <2>5
  <2> QED
    BY <2>1, <2>2, <2>4, <2>6, <2>7, <2>8
<1> QED
  BY <1>6, <1>7

(***************************************************************************)
(* What a step does to the routes: the entry it adds is counted as         *)
(* incomplete when the case is, and only a complete case is entered.       *)
(***************************************************************************)
LEMMA RouteSteps ==
  ASSUME RInv, RouteShape, [Next]_vars
  PROVE  /\ plan' = plan
         /\ \/ entries' = entries /\ (InCase' => cur' = cur /\ plan[cur].route = "planned")
            \/ \E why \in Why :
                 /\ Push(why) /\ cur <= N /\ pc \notin {"end", "done"}
                 /\ why # "aborted" => (why = "incomplete" <=> plan[cur].route = "incomplete")
            \/ pc = "end" /\ pc' = "done" /\ entries' = Padded
<1>1. (InCase => cur <= N /\ plan[cur].route = "planned") /\ Why = {"incomplete", "record", "refused", "playwright", "state", "role", "session", "driver", "error", "aborted"}
  BY DEF RInv, EntriesShape, RouteShape, Why
<1>2. CASE Finish
  BY <1>2 DEF Finish
<1>3. CASE Killed
  BY <1>3 DEF Killed, InCase
<1>4. CASE SkipCase \/ CountIncomplete \/ ResolveFromRecord
  BY <1>1, <1>4 DEF SkipCase, CountIncomplete, ResolveFromRecord
<1>5. CASE Refuse \/ StateBlocked \/ RefuseSeeded \/ SessionBlocked \/ NoScript \/ Drive \/ CaseThrows
  BY <1>1, <1>5 DEF Refuse, StateBlocked, RefuseSeeded, SessionBlocked, NoScript, Drive,
     CaseThrows, BlockCase, InCase
<1>6. CASE RunSeed
  BY <1>1, <1>6 DEF RunSeed, InCase
<1>7. CASE StartScript \/ ScriptEnds
  BY <1>1, <1>7 DEF StartScript, ScriptEnds, InCase
<1>8. CASE StartCase \/ PassGates \/ StateReady \/ SessionReady \/ LoopThrows \/ LeaveLoop
  BY <1>1, <1>8 DEF StartCase, PassGates, StateReady, SessionReady, LoopThrows, LeaveLoop, InCase
<1>9. CASE SendSignal \/ SeeSignal \/ Done \/ UNCHANGED vars
  BY <1>1, <1>9 DEF SendSignal, SeeSignal, Done, vars, caseVars, InCase
<1> QED
  BY <1>2, <1>3, <1>4, <1>5, <1>6, <1>7, <1>8, <1>9 DEF Next, Runner

(* RouteShape is preserved.                                                *)
LEMMA RouteInductive == RInv /\ RouteShape /\ [Next]_vars => RouteShape'
<1> SUFFICES ASSUME RInv, RouteShape, [Next]_vars PROVE RouteShape'
  OBVIOUS
<1>1. plan' = plan
  BY RouteSteps
<1>2. CASE entries' = entries /\ (InCase' => cur' = cur /\ plan[cur].route = "planned")
  BY <1>1, <1>2 DEF RouteShape
<1>3. CASE \E why \in Why :
             /\ Push(why) /\ cur <= N /\ pc \notin {"end", "done"}
             /\ why # "aborted" => (why = "incomplete" <=> plan[cur].route = "incomplete")
  <2>1. PICK why \in Why :
          /\ Push(why) /\ cur <= N /\ pc \notin {"end", "done"}
          /\ why # "aborted" => (why = "incomplete" <=> plan[cur].route = "incomplete")
    BY <1>3
  <2>2. TypeOK /\ cur \in Case /\ Len(entries) = cur - 1 /\ cur \in Nat
    BY <2>1, ConstantsAssumption DEF RInv, TypeOK, EntriesShape, Case
  <2>3. /\ Len(entries') = cur /\ entries'[cur] = [case |-> cur, why |-> why]
        /\ \A i \in 1..(cur - 1) : entries'[i] = entries[i]
    BY <2>1, <2>2, Pushed
  <2>4. ~InCase'
    BY <2>1 DEF Push, InCase
  <2>5. \A i \in 1..cur : i \in 1..(cur - 1) \/ i = cur
    BY <2>2
  <2>6. entries'[cur].why = why
    BY <2>3
  <2> QED
    BY <1>1, <2>1, <2>2, <2>3, <2>4, <2>5, <2>6 DEF RouteShape
<1>4. CASE pc = "end" /\ pc' = "done" /\ entries' = Padded
  <2>1. /\ Len(Padded) = N /\ Len(entries) <= N /\ Len(entries) \in Nat
        /\ \A i \in 1..Len(entries) : Padded[i] = entries[i]
        /\ \A i \in Case : i > Len(entries) => Padded[i].why = "aborted"
    BY <1>4, PaddedShape DEF RInv, TypeOK
  <2>2. \A i \in 1..N : i \in Case /\ (i \in 1..Len(entries) \/ i > Len(entries))
    BY <2>1, ConstantsAssumption DEF Case
  <2>3. ~InCase'
    BY <1>4 DEF InCase
  <2> QED
    BY <1>1, <1>4, <2>1, <2>2, <2>3 DEF RouteShape
<1> QED
  BY <1>2, <1>3, <1>4, RouteSteps

(***************************************************************************)
(* What a run of a report knows: RInv, the routes, and the report as it    *)
(* was read before the first case.                                         *)
(***************************************************************************)
THEOREM ReadInvariance == ReadSpec => []ReadInv
<1>1. ReadInit => ReadInv
  <2> SUFFICES ASSUME ReadInit PROVE ReadInv
    OBVIOUS
  <2>1. RInv
    BY Initially DEF ReadInit
  <2>2. pc = "loop" /\ Len(entries) = 0
    BY DEF ReadInit, Init
  <2>3. RouteShape
    BY <2>2 DEF RouteShape, InCase
  <2> QED
    BY <2>1, <2>3 DEF ReadInit, ReadInv, ReadShape
<1>2. ReadInv /\ [Next /\ UNCHANGED docVars]_<<vars, docVars>> => ReadInv'
  <2> SUFFICES ASSUME ReadInv, [Next /\ UNCHANGED docVars]_<<vars, docVars>> PROVE ReadInv'
    OBVIOUS
  <2>1. RInv /\ RouteShape /\ [Next]_vars /\ UNCHANGED docVars
    BY DEF ReadInv
  <2>2. RInv' /\ RouteShape' /\ plan' = plan
    BY <2>1, Inductive, RouteInductive, RouteSteps
  <2>3. ReadShape'
    BY <2>1, <2>2 DEF ReadInv, ReadShape, ReadsReport, CountsIncomplete, docVars
  <2> QED
    BY <2>2, <2>3 DEF ReadInv
<1> QED
  BY <1>1, <1>2, PTL DEF ReadSpec

(***************************************************************************)
(* Whatever the report, of any number of lines: the entries of a run are   *)
(* the cases a reader finds in it, in order and with their steps; and a    *)
(* case is counted as incomplete exactly when it lacks a label.            *)
(***************************************************************************)
THEOREM EntriesFollowTheReport == ReadSpec => []EntriesAreTheReport
<1>1. ReadInv => EntriesAreTheReport
  <2> SUFFICES ASSUME ReadInv, results # None PROVE EntriesAreTheReport
    BY DEF EntriesAreTheReport
  <2>1. /\ results = entries /\ Len(entries) = N /\ N \in Nat
        /\ \A i \in Case : entries[i].case = i /\ results[i].case = i
    BY ConstantsAssumption DEF ReadInv, RInv, EntriesShape, Case
  <2>2. /\ report \in Seq(Line) /\ OneSection(report) /\ Len(cases) = N
        /\ cases = ParseReport(report) /\ reading = ReadByHand(report)
    BY ReportsAssumption DEF ReadInv, ReadShape, ReadsReport
  <2>3. ASSUME NEW i \in Case, results[i].why # "aborted"
        PROVE  results[i].why = "incomplete" <=> cases[results[i].case].missing # {}
    BY <2>1, <2>3 DEF ReadInv, RouteShape, ReadShape, CountsIncomplete, Case
  <2>4. /\ \A i, j \in Case : i < j => cases[i].head < cases[j].head
        /\ ReadByHand(report) # {} =>
             ReadByHand(report) = {[head |-> cases[i].head, steps |-> Said(report, cases[i].steps)] : i \in Case}
    BY <2>2, ParsesAsRead DEF Case
  <2>5. \A i, j \in Case : i < j => cases[results[i].case].head < cases[results[j].case].head
    BY <2>1, <2>4
  <2>6. {LET c == cases[results[i].case] IN
           [head |-> c.head, steps |-> {p \in ToSet(c.steps) : report[p] # "blank"}] : i \in Case}
        = {[head |-> cases[i].head, steps |-> Said(report, cases[i].steps)] : i \in Case}
    BY <2>1 DEF Said
  <2> QED
    BY <2>2, <2>3, <2>4, <2>5, <2>6 DEF EntriesAreTheReport
<1> QED
  BY <1>1, ReadInvariance, PTL
=============================================================================
