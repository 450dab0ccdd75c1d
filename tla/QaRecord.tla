------------------------------ MODULE QaRecord ------------------------------
(***************************************************************************)
(* A case with automated coverage that qa-run.mjs resolves without running *)
(* it: resolveFromRecord takes the outcome from the JUnit file the Test    *)
(* Runner's record names, and recordStaleSources lists what changed in git *)
(* since that record was made.  Around it the Test Runner makes further    *)
(* attempts and the developer edits, commits and takes back edits.         *)
(*                                                                         *)
(* The field that cites the tests is a sequence of the units the code      *)
(* picks out of its text.  Time counts steps; git knows commit times in    *)
(* whole seconds of Second steps.                                          *)
(***************************************************************************)
EXTENDS Integers, Sequences, FiniteSets, Functions

CONSTANTS
  Files,      \* the test files a report may cite
  Locs,       \* the places the testcases of a JUnit file may name
  Cites,      \* the cited files a place is equal to or ends with
  Titles,     \* the names of tests, classes and suites
  Fields,     \* the fields `Automated test path' a report may hold
  Outputs,    \* what a run of the tests may leave in its JUnit file
  Slots,      \* where records lie: 0 for the feature, n for its attempt n
  Artefact,   \* the JUnit file an attempt writes
  Sources,    \* the files of the program under test
  Imports,    \* the sources a test file imports statically
  Second, Slack,     \* JUNIT_MTIME_SLACK_MS, and a second, in steps
  MaxTime, MaxRuns,  \* bounds
  Null

Kinds  == {"span", "titled", "plain", "call", "odd", "prose"}
Unit   == [kind : Kinds, path : Files \cup {Null}, segs : SUBSET Titles]
Test   == [loc : Locs \cup {Null}, titles : SUBSET Titles,
           suites : SUBSET Titles, failed : BOOLEAN, skipped : BOOLEAN]
Output == [tests : SUBSET Test, chained : BOOLEAN]

(* What the extraction makes of a text: a call is a title and no file, a   *)
(* span or a plain path a file and no title, a titled span both.           *)
Extracted(u) ==
  /\ u.kind \in {"span", "plain", "titled"} => u.path # Null
  /\ u.kind = "call" => u.path = Null
  /\ u.segs # {} <=> u.kind \in {"titled", "call"}

ASSUME RecordAssumption ==
  /\ Cites \in [Locs -> SUBSET Files] /\ IsFiniteSet(Locs)
  /\ Fields \subseteq Seq(Unit) /\ \A f \in Fields : \A u \in Range(f) : Extracted(u)
  /\ Outputs \subseteq Output /\ Slots \subseteq Nat /\ IsFiniteSet(Slots)
  /\ DOMAIN Artefact = Slots /\ Imports \in [Files -> SUBSET Sources]
  /\ Second \in Nat \ {0} /\ {Slack, MaxTime, MaxRuns} \subseteq Nat
  /\ Null \notin Files \cup Locs

VARIABLES
  now,
  source,   \* of each source: what it holds, when it was written, HEAD, commit
  runs,     \* how many runs of the tests there were
  junit,    \* the JUnit files: who wrote them, when, and what
  record,   \* the records: of which run, made when, with what sources
  runner,   \* the slot the Test Runner writes to, None between attempts
  field,    \* the citation of the case
  git,      \* whether the target is a work tree whose git answers
  stage, rec, found, result,
  unasked,   \* the imported sources git is still to be asked about
  asked,     \* the one it is being asked about
  stale,     \* those it reported changed
  owed,      \* history: those that stood changed when the comparing began,
            \* and were not taken back before their turn was over
  between    \* history: those committed between the two questions about them

world == <<now, source, runs, junit, record, runner>>
comparing == <<unasked, asked, stale, owed, between>>
case  == <<field, git, stage, rec, found, result>>
recordVars  == <<world, case, comparing>>

-----------------------------------------------------------------------------
\* What a field cites.  A unit is a file in backticks ("span"), one with a
\* title ("titled"), a file in the text ("plain"), a title without a file
\* ("call"), or something like a path that is none ("odd").
Units(f)   == Range(f)
Paths(f)   == {u.path : u \in {x \in Units(f) : x.kind \in {"span", "titled", "plain"}}}
Refused(f) == \E u \in Units(f) : u.kind = "odd"

Spans(f, i) == {j \in 1..(i - 1) : f[j].kind \in {"span", "titled"}}
LastSpan(f, i) == CHOOSE j \in Spans(f, i) : \A k \in Spans(f, i) : k <= j
Owner(f, i) ==
  IF f[i].kind = "titled" THEN f[i].path
  ELSE IF Spans(f, i) = {} THEN Null ELSE f[LastSpan(f, i)].path

Items(f) == {[path |-> Owner(f, i), segs |-> f[i].segs] :
               i \in {j \in DOMAIN f : f[j].kind \in {"titled", "call"}}}

Usable(f) == /\ ~Refused(f) /\ Paths(f) # {}
             /\ \A it \in Items(f) : it.path \in Paths(f)

-----------------------------------------------------------------------------
\* What an output says of a cited file.  Two elements that count differently
\* in the two readers cost the names of the suites.
Names(x, t) == t.titles \cup (IF x.chained THEN t.suites ELSE {})
Hits(x, p)  == {t \in x.tests : t.loc # Null /\ p \in Cites[t.loc]}
OnePlace(x, p) == Cardinality({t.loc : t \in Hits(x, p)}) = 1
Ran(x, p)   == {t \in Hits(x, p) : ~t.skipped}
Matched(x, it) == {t \in Ran(x, it.path) : it.segs \subseteq Names(x, t)}

Mine(f, p) == {it \in Items(f) : it.path = p}
\* A fault: only the tests that every title means.
NamedByAll(x, f, p) == {t \in Ran(x, p) : \A it \in Mine(f, p) : it.segs \subseteq Names(x, t)}
Scoped(x, f, p) ==
  IF Mine(f, p) = {} THEN Ran(x, p)
  ELSE UNION {Matched(x, it) : it \in Mine(f, p)}

Listed(x, f) ==
  /\ \A p \in Paths(f) : OnePlace(x, p) /\ Ran(x, p) # {}
  /\ \A it \in Items(f) : Matched(x, it) # {}

Failing(x, f) == {t \in UNION {Scoped(x, f, p) : p \in Paths(f)} : t.failed}
OutcomeOf(x, f) == IF Failing(x, f) = {} THEN "pass" ELSE "fail"

-----------------------------------------------------------------------------
\* What git says of a source.
Dirty(s)         == source[s].holds # source[s].head
CommitTime(t)    == (t \div Second) * Second

StaticImports(f) == UNION {Imports[p] : p \in Paths(f)}

-----------------------------------------------------------------------------
NoFile == [run |-> 0, at |-> 0, output |-> Null]
NoRecord == [slot |-> Null, run |-> 0, at |-> 0, sound |-> FALSE, saw |-> <<>>]
Unresolved == [outcome |-> "unresolved", stale |-> {}, run |-> 0]

RecordInit ==
  /\ now = 1 /\ runs = 0 /\ runner = Null
  /\ source = [s \in Sources |-> [holds |-> 0, head |-> 0, written |-> 0,
                                  committed |-> 0, by |-> "edit"]]
  /\ junit = [a \in Range(Artefact) |-> NoFile]
  /\ record = [n \in Slots |-> NoRecord]
  /\ field \in Fields /\ git \in BOOLEAN
  /\ stage = "find" /\ rec = NoRecord /\ found = NoFile
  /\ result = Unresolved
  /\ unasked = {} /\ asked = Null /\ stale = {} /\ owed = {} /\ between = {}

\* The world goes on until the case has its result.
Going == stage # "done" /\ UNCHANGED <<case, unasked, asked, stale>>

Tick == /\ Going /\ now < MaxTime /\ now' = now + 1
        /\ UNCHANGED <<source, runs, junit, record, runner, owed, between>>

Edit(s) ==
  /\ Going
  /\ source' = [source EXCEPT ![s].holds = now, ![s].written = now, ![s].by = "edit"]
  /\ UNCHANGED <<now, runs, junit, record, runner, owed, between>>

Commit(s) ==
  /\ Going /\ Dirty(s)
  /\ source' = [source EXCEPT ![s].head = source[s].holds, ![s].committed = CommitTime(now)]
  /\ between' = IF stage = "status" /\ asked = s THEN between \cup {s} ELSE between
  /\ UNCHANGED <<now, runs, junit, record, runner, owed>>

\* An edit is taken back: the file is that of the last commit again.
TakeBack(s) ==
  /\ Going /\ Dirty(s)
  /\ source' = [source EXCEPT ![s].holds = source[s].head, ![s].written = now, ![s].by = "back"]
  /\ owed' = owed \ ({s} \cap unasked)
  /\ UNCHANGED <<now, runs, junit, record, runner, between>>

\* The Test Runner runs the tests, then writes the record of the attempt or
\* gives the attempt up.
RunTests(n, x) ==
  /\ Going /\ runner = Null /\ runs < MaxRuns
  /\ runs' = runs + 1 /\ runner' = n
  /\ junit' = [junit EXCEPT ![Artefact[n]] = [run |-> runs + 1, at |-> now, output |-> x]]
  /\ UNCHANGED <<now, source, record, owed, between>>

WriteRecord ==
  /\ Going /\ runner # Null
  /\ record' = [record EXCEPT ![runner] =
       [slot |-> runner, run |-> runs, at |-> now,
        sound |-> junit[Artefact[runner]].output.tests # {},
        saw |-> [s \in Sources |-> source[s].holds]]]
  /\ runner' = Null
  /\ UNCHANGED <<now, source, runs, junit, owed, between>>

GiveUp == /\ Going /\ runner # Null /\ runner' = Null
          /\ UNCHANGED <<now, source, runs, junit, record, owed, between>>

-----------------------------------------------------------------------------
\* Only the first record that exists is looked at.
Existing == {n \in Slots : record[n].run # 0}
Highest  == CHOOSE n \in Existing : \A m \in Existing : m <= n
Chosen   == IF Existing = {} THEN NoRecord
            ELSE record[IF 0 \in Existing THEN 0 ELSE Highest]

GoOn(at) == stage' = at /\ UNCHANGED <<world, field, git>>
NotResolved == result' = Unresolved /\ GoOn("done")

FindRecord ==
  /\ stage = "find"
  /\ \/ /\ ~(Chosen.sound /\ Usable(field))
        /\ NotResolved /\ UNCHANGED <<rec, found, comparing>>
     \/ /\ Chosen.sound /\ Usable(field)
        /\ rec' = Chosen /\ GoOn("dated") /\ UNCHANGED <<found, result, comparing>>

InTime(at, generated) == at <= generated + Slack

StatArtefact ==
  /\ stage = "dated"
  /\ LET file == junit[Artefact[rec.slot]] IN
     \/ /\ ~InTime(file.at, rec.at)
        /\ NotResolved /\ UNCHANGED <<rec, found, comparing>>
     \/ /\ InTime(file.at, rec.at)
        /\ GoOn("read") /\ UNCHANGED <<rec, found, result, comparing>>

\* An edit has changed the source since the record, and git can tell: not one
\* in the second of the record.
Outdated(s) ==
  /\ source[s].holds # rec.saw[s] /\ source[s].by = "edit"
  /\ CommitTime(source[s].written) > rec.at

\* Between the two calls the file may have been written again.
ReadArtefact ==
  /\ stage = "read"
  /\ LET file == junit[Artefact[rec.slot]] IN
     \/ /\ ~Listed(file.output, field)
        /\ NotResolved /\ UNCHANGED <<rec, found, comparing>>
     \/ /\ Listed(file.output, field)
        /\ found' = file /\ unasked' = IF git THEN StaticImports(field) ELSE {}
        /\ owed' = {s \in unasked' : Outdated(s)}
        /\ GoOn("sources") /\ UNCHANGED <<rec, result, asked, stale, between>>

-----------------------------------------------------------------------------
\* changedAfter, one source after the other.  For each there are up to three
\* calls, and the developer may act between them: when its last commit was, ...
Asking(s, to) == asked' = s /\ GoOn(to) /\ UNCHANGED <<unasked, stale>>
Answered(s, changed) ==
  /\ unasked' = unasked \ {s} /\ stale' = IF changed THEN stale \cup {s} ELSE stale
  /\ asked' = Null /\ GoOn("sources")

\* A fault: commits are not asked for.
OnlyStatus(s) == s \in unasked /\ Asking(s, "status")
LogSays(s) ==
  /\ s \in unasked
  /\ IF source[s].committed > rec.at THEN Answered(s, TRUE) ELSE Asking(s, "status")
AskLog(s) ==
  /\ stage = "sources" /\ LogSays(s) /\ UNCHANGED <<rec, found, result, owed, between>>

\* ... whether it is changed in the work tree now, ...
AskStatus ==
  /\ stage = "status"
  /\ IF Dirty(asked) THEN Asking(asked, "mtime") ELSE Answered(asked, FALSE)
  /\ UNCHANGED <<rec, found, result, owed, between>>

\* ... and when it was written.
StatSource ==
  /\ stage = "mtime" /\ Answered(asked, source[asked].written > rec.at)
  /\ UNCHANGED <<rec, found, result, owed, between>>

\* The evidence is written, or is not.
Conclude ==
  /\ stage = "sources" /\ unasked = {}
  /\ \/ result' = [outcome |-> OutcomeOf(found.output, field), stale |-> stale, run |-> rec.run]
     \/ result' = [outcome |-> "blocked", stale |-> {}, run |-> rec.run]
  /\ GoOn("done") /\ UNCHANGED <<rec, found, comparing>>

Resolved == stage = "done" /\ UNCHANGED recordVars

RecordNext ==
  \/ Tick \/ WriteRecord \/ GiveUp
  \/ \E s \in Sources : Edit(s) \/ Commit(s) \/ TakeBack(s)
  \/ \E n \in Slots, x \in Outputs : RunTests(n, x)
  \/ FindRecord \/ StatArtefact \/ ReadArtefact
  \/ \E s \in Sources : AskLog(s)
  \/ AskStatus \/ StatSource \/ Conclude \/ Resolved

RecordSpec == RecordInit /\ [][RecordNext]_recordVars

-----------------------------------------------------------------------------
\* A passed case rests on every test its citation means: each file it
\* mentions in any form ran at one place only, and so did the tests of each
\* title after it; none of them failed.  Units left out of the required set
\* by the extraction (extractTestPaths, extractCitedTitles) would break it.  Where the two
\* readers of the file count differently (it is not chained), a title claims
\* only that its tests are there, not that none of them failed; and a later
\* run of the tests within the slack of the record counts as its own.
PassRestsOnAllCited ==
  result.outcome = "pass" =>
    \A i \in DOMAIN field : field[i].kind # "prose" =>
      \E l \in Locs :
        LET path  == IF field[i].path # Null THEN field[i].path ELSE Owner(field, i)
            meant == {t \in found.output.tests : t.loc = l /\ ~t.skipped
                        /\ field[i].segs \subseteq t.titles \cup t.suites}
            titled == \E j \in DOMAIN field : field[j].segs # {} /\ Owner(field, j) = path
        IN  /\ path \in Cites[l] /\ meant # {}
            /\ \A t \in found.output.tests : t.loc \in {l, Null} \/ path \notin Cites[t.loc]
            /\ (field[i].segs # {} /\ found.output.chained) \/ ~titled
                 => \A t \in meant : ~t.failed

\* A resolved case names every imported source that stood changed by an edit
\* when the comparing began (recordStaleSources), wherever the developer's
\* commits and edits fall among the calls, but for two cases: the edit is
\* taken back, so that there is nothing to tell, or it is committed between
\* the two questions git is asked about that file.  An edit in the second of
\* the record does not count (Outdated): git knows no parts of a second.
StaleIsTold ==
  result.outcome \in {"pass", "fail"} => owed \ between \subseteq result.stale

\* The same without the second case, as changedAfter is documented: a file is
\* reported if its last commit is later or if it is changed and written later,
\* and at every moment of the comparing one of the two is so.
CommittedIsTold ==
  result.outcome \in {"pass", "fail"} => owed \subseteq result.stale

-----------------------------------------------------------------------------
\* What the two rest on: the shape of the state, ...
RecordTypeOK ==
  /\ now \in Nat /\ runs \in Nat /\ runner \in Slots \cup {Null} /\ field \in Fields /\ git \in BOOLEAN
  /\ source \in [Sources -> [holds : Nat, head : Nat, written : Nat, committed : Nat, by : {"edit", "back"}]]
  /\ DOMAIN junit = Range(Artefact) /\ DOMAIN record = Slots
  /\ stage \in {"find", "dated", "read", "sources", "status", "mtime", "done"}
  /\ result.outcome \in {"unresolved", "pass", "fail", "blocked"}
  /\ stage # "done" => result.outcome = "unresolved"
  /\ unasked \subseteq Sources /\ asked \in Sources \cup {Null} /\ stale \subseteq Sources
  /\ stage \in {"status", "mtime"} => asked \in unasked

\* ... that where there is a record there is a file of the tests it names, ...
Written(n) == n \in Slots /\ junit[Artefact[n]].output \in Outputs
RecordsHaveFiles ==
  /\ \A n \in Slots : record[n].run # 0 => Written(record[n].slot) /\ record[n].at \in Nat
  /\ \A n \in Slots : record[n].run = 0 => record[n] = NoRecord
  /\ runner # Null => runs # 0 /\ Written(runner)
  /\ stage \notin {"find", "done"} => Written(rec.slot) /\ rec.at \in Nat

\* ... that a case goes on only with a file that lists what is cited, ...
ResolvesWhatIsListed ==
  stage \in {"dated", "read", "sources", "status", "mtime"} \/ result.outcome \in {"pass", "fail"} =>
    /\ Usable(field)
    /\ stage \in {"sources", "status", "mtime", "done"} => found.output \in Outputs /\ Listed(found.output, field)
    /\ result.outcome # "unresolved" => result.outcome = OutcomeOf(found.output, field)

\* ... and that a source which is that of the last commit was committed in
\* the second of its last edit or later.
CommitsComeAfter ==
  \A s \in Sources :
    /\ source[s].head <= source[s].holds /\ source[s].holds <= now /\ source[s].written <= now
    /\ CommitTime(source[s].head) <= source[s].committed /\ source[s].committed <= CommitTime(now)
    /\ source[s].by = "edit" => Dirty(s) \/ source[s].committed >= CommitTime(source[s].written)

\* A source whose change is to be told has been reported, or git will report
\* it: its commit when it is asked for that, its edit when it no longer is.
ToldOrWillBe ==
  /\ owed \ between \subseteq unasked \cup stale
  /\ \A s \in (owed \ between) \cap unasked :
       /\ stage \in {"sources", "status", "mtime"}
       /\ stage = "mtime" /\ s = asked => source[s].written > rec.at
       /\ ~(stage = "mtime" /\ s = asked) =>
            \/ Dirty(s) /\ CommitTime(source[s].written) > rec.at
            \/ source[s].committed > rec.at /\ ~(stage = "status" /\ s = asked)

RecordInv ==
  /\ RecordTypeOK /\ RecordsHaveFiles /\ ResolvesWhatIsListed /\ CommitsComeAfter
  /\ ToldOrWillBe /\ StaleIsTold

=============================================================================
