# The QA runner of relay, in TLA+

This directory holds TLA+ models of the QA runner of the relay plugin
(`plugins/relay/scripts/qa-run.mjs`), of the login script it calls and of the usage metrics beside
it, TLC configurations that check them on small instances, and proofs of their most important
properties that TLAPS checks for every value of the constants.
All paths below are relative to the root of the repository; a bare line number is a line of
`qa-run.mjs`, `login:` before one means `plugins/relay/resources/auth-login.template.mjs`, and `metrics:`
`plugins/relay/scripts/usage-metrics.mjs`.

- [1. The system](#1-the-system)
- [2. What can go wrong](#2-what-can-go-wrong)
- [3. Modules](#3-modules)
- [4. Runs](#4-runs)
- [5. Proofs](#5-proofs)
- [6. Findings](#6-findings)
- [7. What is not modelled](#7-what-is-not-modelled)
- [8. Plan](#8-plan)

## 1. The system

The repository is a set of plugins for an AI coding assistant. Most of it is prose that the
assistant follows (`plugins/*/commands`, `agents`, `skills`); the program proper is a set of
Node scripts these commands call. The largest, and the only one with retries, signals, several
processes on one file and callbacks, is the QA runner: it executes the manual test cases of a QA
report against an application on the developer's machine.

| Component | State it keeps | Operations | Talks to | Module |
|---|---|---|---|---|
| Report parser (`parseReport`, 497-537) | none | split a report into cases and their fields | the report | `QaReportText` |
| Plan validation, grounding of a plan (`validateSteps` 2070, `groundLocators` 2739) | the anchor, the bound names, the gaps | refuse a plan, mark the steps nothing vouches for | `plan.json`, the report, snapshots | `QaPlan` |
| Ground mode (`runGround`, 6101-6275) | snapshot files, the ignore rules of the run directory | replay the prefix of a case, take a snapshot, count its candidates | browser, a session, the run directory | `QaGround` |
| Run mode (`runRun`, 5563-5793) | the entries so far, why the run is aborted, `results.json` | one loop turn per case, the signal handler, the finally block | a driver per case, seeds, sessions, the run directory | `QaRun` |
| Gates (`executeCase`, 5363-5535; `preAuthenticatedGate`) | the anonymous checks and the secret table of the run | refuse a case whose entry, sources, target or evidence do not hold | plan, declarations, target guard | `QaCase` |
| HTTP driver (`DRIVERS.http`, 3916-3995) | the cookies, the evidence | request and query steps | the application, declared sources | `QaCase` |
| Browser driver (`DRIVERS.browser`, 4150-4477) | verdict, failed steps, captures, the first dismissal that left the origin | one branch per kind of step, overlay handlers, final evidence, per-step records | Playwright, which calls the handlers back inside a click | `QaBrowserCase` |
| Locator steps (`runLocatorStep`, 4008-4148; `settleAssertion`, 2375) | the deadline, the last read | find the element, wait for a value, act, probe a failure, watch the requests of a click | a page that changes by itself | `QaStep` |
| Message reads (`runReadMessage`, 3783-3914) | the start of the case, the size of the sms file then | ask a local mail catcher or read a file until a message matches or 30 s are over | the catcher, a file, the application that sends | `QaMessage` |
| Seeds (`prepareState`, 4725-4795) | the result of each seed command in this run, what it captured | run the command of a state the first time it is required | `qa-seed.json`, a child process | `QaRun`, `QaCase` |
| Sessions (`obtainSession`, 4640-4716) | the answer per role in this run | run the login script of a role the first time it is needed, again for a minted role | the login script, a child process | `QaRun`, `QaSession` |
| Login script (`auth-login.template.mjs`) | the session, the token and the mint sidecar of a role | reuse after a proof, log in or mint, prove, save | the application, the mint command, the kit configuration | `QaLogin` |
| Record resolution (`resolveFromRecord`, 5070-5140; `recordStaleSources`, 5208) | none | decide a covered case from the Test Runner's record | JUnit files, records, git | `QaRecord` |
| Judge mode (`runJudge`, 6479-6520) | `results.json` and the evidence file of each verdict | record one verdict per call, add up the totals | the run directory; the assistant makes the calls | `QaJudge`, `QaSummary` |
| Usage metrics (`usage-metrics.mjs`) | the shards of each relation and month | materialize, query | verdict logs, the run record, which others write | `UsageMetrics` |
| Guard, secrecy, redaction | none | predicates and filters on text | every component that requests or writes | choices |
| Orchestrator ledger | `orchestrator-run.json` | derive the deviations of a run and write them back | the orchestrating command | as a source of `UsageMetrics` |
| Visual pipeline, final report, normalisation, content hash | files of one pass | derive a document or an image from files | lane artefacts, browser | - |
| Lanes, validation suite, hooks, documentation | prose, linters, a counter in a file | - | - | - |

How they interact. A command calls `parse`, lets the assistant write `plan.json`, may call
`ground` to find the locators of the plan, then `run`. `run` goes through the cases in the order
of the report. A case with automated coverage is decided from the record of the Test Runner. For
one with a plan entry it applies the gates, prepares the required state, obtains the session of
the role, and calls a driver. The driver returns an outcome, evidence and one record per step.
Steps that need a judgment are captured and the case is left waiting; after the run the assistant
calls `judge` once for each of them. Everything a run or a judge call says is in `results.json`,
which each of them rewrites as a whole.

What makes this hard: handlers that run inside another step and end after it; a page that is
another one at every await; a signal that is only noticed at some points; answers kept for the
rest of the run; scripts that are run again; a document rewritten by a series of processes, any of
which can fail or be killed between two writes; files that others write while they are read; and
index bookkeeping over steps that were skipped, stopped, failed or replaced by a later finding.

What makes each part correct:

- **Report parser**: no case of the report is lost, and none is executed with a step missing or
  with one of another case.
- **Plan**: what is let through keeps its anchors and its bindings, whatever the grounding leaves
  out, and nothing is submitted that the report does not have typed.
- **Ground mode**: what a step later finds was taken of its role and after its interactions; no
  secret is written; nothing is written once a dismissal left the origin.
- **Gates and http driver**: nothing is probed, seeded, logged in or requested for a case that
  can be known not to run; secrets learnt are masked; a name stands for what bound it.
- **Browser driver**: an outcome is never better than what the case found out; the records say
  what each step did; no interaction acts on a page in an unknown state.
- **Locator steps**: a pass, a failure and a hand-over to a person are true of a page the step
  was shown; the requests of a submit are all watched; a step ends.
- **Message reads**: a value is of a message the case itself caused, the newest one.
- **Run**: one entry for every case of the report in its order, whatever happens; exit 0 only
  when nothing was left out; seed commands and login scripts run a bounded number of times.
- **Sessions**: what a case is handed was accepted by a proof just before, token included; it is
  saved only after that proof; a minted one has its runway left; every request is answered.
- **Record resolution**: a pass rests on every test the report cites; changed sources are told,
  wherever the calls that ask git fall among a developer's edits and commits.
- **Judge**: a recorded verdict stays and is backed by its evidence file; a case's outcome
  follows from its verdicts; the totals account for everything once; every case is settled.
- **Usage metrics**: every verdict is counted once, and no scan of the history is lost.

## 2. What can go wrong

`PROJECT.json` lists every hazard with its line and the properties that would catch it. The
groups are: lines of a report that look like the end of a case; a plan scanned twice, the second
time with steps left out; order of failures and stops in the step loop; overlay handlers that
interleave with it; reads against a deadline on a page that changes; index arithmetic of gaps and
truncation; evidence that cannot be written; names, secrets and seeds kept from one case for the
next; file names that collide; processes that overlap, fail or die around `results.json`;
verdicts that arrive in any order; the signal, the cap and errors of the run against the "one
entry per case" promise; caches of seeds and sessions; retries; a login script killed between the
three files it saves; expiries recorded in three places and compared at three moments; times of
files and commits; a mailbox, a file, logs and a run record that change between and under the
reads. Those without a property say why.

## 3. Modules

| Module | What it is | Lines |
|---|---|---|
| `QaReportText` | the report parser | 242-537 |
| `QaStepForms`, `QaCasePlan` | the forms of a step; what a driver is handed | 1177-1596 |
| `QaPlan` | validation and grounding of a plan | 1604-1803, 2070-2123, 2739-2871 |
| `QaGround` | ground mode | 5830-6275, 891-1079 |
| `QaReport` | abstract: one entry per case, in order | - |
| `QaRun` | the run loop with seeds, sessions, signal and results | 5563-5793, 4640-4795 |
| `QaReportRun` | a run of a parsed report | 5563-5658 |
| `QaCase` | one case after another: gates, state, session, http driver, masking | 5257-5535, 3620-3993 |
| `QaCaseOutcome` | abstract: what every driver promises about one case | - |
| `QaBrowserCase` | the browser driver | 4150-4477 and its helpers |
| `QaStep` | one locator step | 4008-4148, 2375-2706, 3485-3599 |
| `QaMessage` | the message reads of one case, its mail catcher or sms file | 3783-3914, 2006-2050 |
| `QaLogin` | the login script of one role, step by step | login:223-1663 |
| `QaSession` | the runner's request for a session, the operator, the clock | 4491-4716 |
| `QaRecord` | a case decided from a record | 4800-5243 |
| `QaVerdicts` | abstract: what `results.json` promises about verdicts | - |
| `QaJudge`, `QaSummary` | judge calls, runs and the writer; the totals | 6401-6520, 870-883; 2879-3191 |
| `UsageMetrics` | materializations and queries | metrics:34-740 |
| `*_proofs` | the theorems of the module before the underscore | - |
| `QaEvidence_proofs` | the theorems of `QaStep`, `QaGround`, `QaRecord` and `UsageMetrics` | - |
| `MC*` | instances for TLC | - |

How they compose. `QaReportRun` extends the run with the parser; `QaSummary` extends the judge
with the totals; `QaSession` extends the login script with the runner that calls it.
`QaBrowserCase`, `QaRun` and `QaJudge` instantiate their abstract module with a refinement mapping
and have its specification as the property `KeepsPromise` (`KeepsVerdicts` for the judge).
`QaPlan` instantiates `QaCasePlan`, the assumption `QaBrowserCase` makes of its plans, with what
the grounding hands on, and proves it. Where a module takes a part as one step, another opens
that step: `QaRun` takes a case, a login script and the driver so, `QaCase`, `QaSession`,
`QaBrowserCase` open them; `QaBrowserCase` takes a step so, `QaStep` and `QaMessage` open it.

Definitions marked `\* mutant` are plausible wrong versions of the definition below them; no
action uses them.

### QaStepForms, QaCasePlan and QaPlan

`QaStepForms` is the closed vocabulary of steps: which keys make which form of locator
(`LocatorOf`, 1265-1349), the words of a locator that must be grounded (`Words`), and `Legal`,
which is `stepRules` (1425-1596). `QaCasePlan` is what a driver relies on (`GroundedPlan`,
`ValidPlan`), shared with `QaBrowserCase`. `QaPlan` reads a plan as the code does: `ReadStep` or
`RefuseStep` for each step of `validateSteps` with its anchor and its bound names, `EndRules`,
then the checks of the whole entry (`TakeEntry`, `RefuseEntry`), and `GroundStep` for each step of
`groundLocators`, which leaves steps out (`gaps`), stops at a click or fill (`truncateAt`) and
keeps an anchor of its own (`liveAnchor`). A step is chosen when it is read; what the report and
the snapshots say of its words is chosen when the grounding asks. So all plans over the menu and
all answers are covered, and the proofs need no menu at all.

### QaGround

The `init` mode may make the run directory with its ignore file (`InitRun`, 5543). Then calls of
`ground` in it, one after another: `Begin` with a role, a route and a prefix; `ProveIgnore` (the run directory is ignored by git, restored or refused, 977-1009);
`TakeSession`, which is when the values of the session become secrets; `Load`; `ReplayGoto`,
`CountStep` and `ActStep` for the prefix; `Hovered`; `ReadPage` until two reads agree or the polls are
over (`Unstable`); `Count` for each candidate on a page that goes on changing (`Turns`); `Write`.
`Dismiss` is an overlay handler inside any of it. A digest of a prefix and a slug of a path may
collide: `Digest` and `Slug` are constants with no assumption. `Found` is the look-up of a later
run (2798-2802). `trail` and `made` are histories: what was done to the page, on how many
matches, and of which call each file is.

### QaCase

`executeCase` for the cases of one run, from its first refusal to its end. `Refuse` is every
refusal before anything outside is touched (5377-5482), with the reasons as the set `Refusals`;
the gate of a role the target authenticates anyway is `Probe`, `GateBlocks`, `GateDecides`; then
`StateRefused`, `RunSeed` and `StateReady` (4725-4795), `Substitute` with the second look at the
paths (5495-5505), `LogIn` and `NoSession`, and the driver. Of the http driver every call is an
action: `HeaderMissing`, `Send`, `Query`, `WriteEvidence`, `Compare`, `Pass`. Of the browser
driver the model keeps `VisitPage` and `ReadMessage`, which are where a page is visited and how a
message becomes a value. `LogInElsewhere` is another process that saves a session of the role.

A text is the set of the secrets it shows. `learnt` (history) is what the runner was given, `table`
what it masks; a value under four characters gets into no table (661-670), which the properties
except. `seeds`, `captured`, `sessions` and `checks` are what `ctx` keeps over the cases; `jar`
and `lone` the cookies of the session's context and of requests without one. `meant` is a history
variable: what bound each name.

### QaRecord

A case with automated coverage that is decided without running it, step by step, while the Test
Runner and a developer go on working. `FindRecord` picks the newest record of the shape (4806),
`StatArtefact` compares the time of its JUnit file with the time of the record (5081-5090),
`ReadArtefact` reads it. Then `recordStaleSources` goes through the sources the cited files import
(`StaticImports`), in any order, with up to three calls for each: `AskLog` for its last commit (5186),
`AskStatus` whether it is changed in the work tree (5189), `StatSource` when it was written (5192).
`Conclude` decides. A citation is a sequence of units, each of the form
the extraction gives it (`Extracted`); `Owner`, `Items`, `Scoped`, `Failing`, `OutcomeOf` are what it
requires and what decides. The world is `RunTests`, `WriteRecord`, `GiveUp` (the Test Runner;
external), `Edit`, `Commit`, `TakeBack` and `Tick`, between any two of these calls. A commit is dated
to the second, a file to the step. `owed` and `between` are histories: the sources that stood edited
when the comparing began and were not taken back before their turn was over, and those committed
between the first two questions about them.

### QaBrowserCase

A plan entry is the kind of each step, the steps without a locator (`gaps`, the code's
`gap_steps`), the one after which nothing can be acted (`truncateAt`), and whether overlay
handlers are declared. `Plans` (in `QaCasePlan`) is what `validateSteps` (2070) and `groundLocators`
(2739) let through; that they do is proved of `QaPlan`. `pc` is the place in the
driver: `launch` (set up), `loop` (head of the loop), `exec`
(inside a step), `wrap` (after the loop, before the off-origin check), `capture` (final
evidence), `report` (gap verdict, records, return), `done`.

- `StopBefore`, `Truncate`, `SkipGap`, `BeginStep` are the four ways through the loop head
  (4214-4223), in the code's order.
- `StepPasses`, `StepFails` are the ends of a step's branch; `BadResults` is what the branch of
  each kind can return. `StepFails` is `settle` (4203): it keeps the first verdict and goes on
  only past a failed assertion.
- `HandlerStarts`, `HandlerLeaves`, `HandlerEnds` are the callbacks of `registerOverlayHandlers`
  (1957). A handler runs inside a click or a fill. Its time counts against the click, so the
  click may time out while it still runs; the loop has ended by then, and the handler may still
  leave the origin until the driver returns.
- `CheckLeaving`, `CaptureFinal`, `CaptureFails`, `Report`, `ReportFails` are the tail of the
  driver.

`own` is a history variable: what each step itself came to, to compare with what the records
say. Data left out: selectors, URLs, text, the content of evidence. A step's waits are inside
its one transition; `QaStep` opens it.

### QaStep

One step with a locator on a page that may be another one at every await (`Change`), and that
asks the network (`Request`). A page is its named groups, the elements with the anchor's text and
their ancestors in the order of the document (`chain`), how often the label is there, and the
elements of the target's role; an element is where it is, how it looks
(`faint`: to Playwright, not to a person), whether its value meets the expectation, and what
stands in the way of acting on it. The actions go along the code: the anchor (`FindAnchor`,
`SeeAnchor`, `SeeAnchorAgain`), its container (`CountAncestors`, `TryContainer`), the scope, label and index (`CheckScope`, `CheckLabel`,
`CheckIndex`), the count (`CountTargets`, `NoneFound`, `OneFound`), the settle loop (`Look`,
`LookAgain`, `TimeIsUp`; `Took` is what a read does to it, `SettleResult` how it ends), an action
(`Act`) with the probe after it failed (`Probe`, `ProbeFacts`) and the request window
(`CloseWindow`). Waits for an element to attach only give the page time, so they are changes
before the count. `visited` and `log` are histories: the pages shown, the requests that left.

What `resolveAnchorScope` hands back is no element but a place among the ancestors (`chain.nth(k)`,
3556 and 3558), which Playwright looks up anew at every later call. So is it here: `level` is that place, found
by counting the ancestors and trying them one by one while the page goes on changing, and
`Containers` is what stands there on the page of the moment. `OwnGroup` shows a page with the
anchor's own group at every place; what a step says of that page is what it should have said.

### QaMessage

`QaBrowserCase` takes a `read_message` step as one transition with a result; `QaMessage` opens
it, for all such steps of one case. `StartCase` is the moment the driver starts its steps: it
notes the time (`startedMs`, 4153) and the size of the sms file (`smsBaseline`). `BeginRead`
enters `readMailValue` or `readSmsValue`, after `RefuseRecipient` and `GuardRefuses`, both of which
end the case `blocked` (3889). An attempt
on mail is two requests: `List` is the moment the catcher answers the search, `ListAnswered` the
moment the runner has the answer and picks `newestMailAfter` of it, `DetailAnswered` the answer
for that message; `MailUnreachable` ends either. An attempt on a file is `Look`, `LookAtNothing`
or `LookFails`. Then the value is there (`TooShort`, `Keep`, `EvidenceFails`), or the attempt
ends with `GiveUp` or with `Pause` and `Resume`. `Send`, `Purge` and `Cut` are the world:
messages arrive at any moment, the catcher drops some, the file is cut from its head.

A message is the time it was sent and what the expression makes of its text: a value
(`Code`), too short a one, no match, or a line for somebody else. One channel per case; a line
counts as one byte and is appended at once. Times of one tick are one millisecond, and the
catcher's clock differs from the runner's by a constant (`skew`). A pause and a request end on
time. `executeCase` has refused an undeclared, malformed or non-local source (5465-5474) before
the driver runs, so the sources here are a catcher, a file inside the target root, and a file that
turns out to be outside. `first` and `listedAt` are history variables.

### QaRun

`maxCases` is the argument `--max-cases`. `plan` says for each case how it is routed (a section
that lacks a field, a case decided by the Test Runner's record, or a planned one), its role and
its required state. One turn of the loop is `SkipCase`, `CountIncomplete`, `ResolveFromRecord`, or
`StartCase` followed by: the gates (`Refuse`, `PassGates`), the state (`StateReady`,
`StateBlocked`, `RunSeed`), the paths with what the seed captured in them (`RefuseSeeded`), the
session (`SessionReady`, `SessionBlocked`, `NoScript`, `StartScript`, `ScriptEnds`), and the
driver (`Drive`). `CaseThrows` is the catch around one case, `LoopThrows` the one around the loop,
`Finish` the finally block. An entry keeps the reason its outcome comes from (`why`), not the
outcome's text.

`SendSignal` is the interrupt; `SeeSignal` its handler, which runs only where the code awaits:
in the gates, while a state's arguments are checked, and in a driver. Login scripts and seed
commands run with `spawnSync`, and between two cases nothing is awaited. `Killed` is a signal in
the finally block, where the handlers have been removed.

### QaReportText and QaReportRun

`QaReportText` is `parseReport` on a sequence of lines, each a word for what the parser tells
apart in it (16 kinds). The loops of the code are recursive functions of which one turn is an
operator of its own: `SplitLine` and `Split` are the loop of `splitHeadingBlocks` (371-400), with
`Fenced`, `BreakQualifies` and `Closes`; `Blocks` applies it to the section `Scope` finds;
`FieldLine` and `FieldsUpTo` are the loop over the labels of a block (305-329), `TrimBlankEnds` its
end; `Carrying` keeps the blocks that have one of the labels, `TableTop` and `TableRows` are the
table that stands for headings, `ParseReport` the whole. A line is referred to by its place, so
what is kept of it is its text; text that stands on the line of a label is not kept apart from it.

`QaReportRun` extends it and `QaRun`: the cases a run goes through are those parsed from the
report, and one that lacks a field is counted and not executed. `reading` is a history variable:
the cases and lines of steps a reader of the report finds, by a definition that has no blocks in
it (`ReadByHand`); it is empty, and says nothing, for a report whose cases are a table. A report
is assumed to have at most one section of cases, with a heading that is not inside a fence
(`OneSection`): of two sections the code reads the first only (section 6).

### QaLogin and QaSession

`QaLogin` is `main` of the login script (login:1324) from its checks to its three files, one
action per stage: `PreflightHalts`, `MintGateHalts`; reuse (`Reproves`, `SkipsReuse`, then
`Reuses`, `ReuseFails`, `ReuseHalts`); the login (`LogsIn`, or `RunsMint` with `Mints` and
`MintFails`; `LoginHalts`); the proof of what it gave (`Proves`, `ProofHalts`); and one rename
per file (`SavesSession`, `SavesToken`, `SavesSidecar`). `Throws` is what nothing catches.
`QaSession` adds who starts it: `obtainSession` (`Obtains`, `RunsAgain`, `TakesAnswer`), the
operator at a terminal, and what cuts it short (`TimesOut`, `Interrupted`).

A login is a name; the files hold the name of the login they come from, so "this token is of an
earlier login" can be said. `Answers` are the results of `proveSession` for each kind of role;
`Presented` says what a proof shows the application: the browser probe the session alone, the
HTTP probe the token as well, a static token's own proof the token. `script.proof` is a history
variable: what the last proof accepted. `run.mints` is a history too.

A time is the minutes left, and `Tick` takes one off every one at once. All comparisons of the
code are kept: the age of the session file (login:740), the floor of the script against sidecar,
token artifact and `exp` claim (login:1287-1301), the runner's margin against the recorded
expiry alone (4547). Halts that differ in wording only are one: `FAILED_LOGIN_REJECTED` stands
for every login that ends without a session, `FAILED_NON_LOCAL_TARGET` and
`FAILED_LOGIN_CONFIG_INCOMPLETE` for the checks before anything is done.

### QaJudge

Each process that calls `run` or `judge` is a member of `Callers` with its own `pc`. A judge
call reads `results.json` and applies its verdict to what it read (`Judge`), writes the evidence
file (`WriteEvidence`), and writes the whole document back through `writeRunFile`: `OpenTmp`
truncates `results.json.tmp`, `Fill` writes it, `Rename` moves it over `results.json`. With two
callers the file one of them has opened may have been renamed by the other, so `Fill` writes
wherever the file is now (`fd`). `EvidenceFails`, `ResultsFail` and `Killed` may happen at any
of these points, `MaxFaults` times. `RunFinishes` is a run that publishes a new document: every
case is settled, or waits for the verdicts of all its judge steps. `acked` is a history
variable: the verdict each call reported as JUDGED.

A document is a word for each judge step and an outcome for each case. Calls refused for their
arguments change nothing and are no action. `plan.json` is read again by each call to see
whether the case has a human remainder; the model takes it as a constant (`Partial`).

### QaSummary

The totals that `writeRunFile` stores beside the entries and each judge call counts anew
(3007-3191). `QaSummary` extends `QaJudge` and adds the plan entries (class, reason code,
objective steps) and what the run made of the cases without a judge step; both are constants.
`Entry(d, c)` is the entry of a case in a document `d`, with its reason code, the steps that ran
and those left; `Count`, `OfClass`, `DriverExecuted`, `Owed`, `NeedsHuman`, `PendingSteps` are
`summarizeEntries`, `summarizeClassification`, `summarizeNeedsHuman` and `summarizeJudgment`.

### UsageMetrics

The materializer as a process: `Materialize` lists `plans`, `ListCompleted` `plans/completed`,
`ReadLog` and `ReadRecord` read one file each, then `DryRunEnds` or `Scaffold`, and `WriteTmp` and
`Rename` for each shard in the order of their names; `Killed` anywhere. A row is its relation, key
and month. Others write at any moment: `Review` appends a line to a log or one that does not
parse, `Archive` moves a log to `completed` (by hand:
`plugins/relay/commands/relay-implement.md:652` moves the plan alone, and the materializer looks
in both directories), `RecordRun` and the two writes of the ledger replace the run record, with a
moment in which it is torn. `Reads` is which files a query takes for shards (metrics:613-622).

## 4. Runs

| Run | Instance | Distinct states | What it shows |
|---|---|---|---|
| `plan` | all plans of up to 4 steps from a menu of 23 (each rule kept and broken), 2 routes, 2 names | 816,281 | what validation and grounding let through keeps anchors and bindings, and submits what the report types |
| `case` | 2 cases, a menu of 18 entries, 4 roles, 2 states, 4 places, secrets long and short | 4,909,884 | refused cases touch nothing, sessions are proven, secrets masked, names are their own |
| `browser_case` | 3 steps, all plans | 42,356 | verdict, records and outcome of a browser case, and its refinement |
| `step` | 32 steps of all kinds, 8 pages, 2 groups, 2 elements, 2 changes, 3 reads, 2 requests | 422,103 | a pass, a failure and a submit are true of what was shown and sent; the step ends |
| `message` | 2 reads, 2 messages of 4 texts, 1 loss, clock level or 1 behind, wait 2, poll and request 1, time up to 7 | 1,238,592 | the value is of the newest message of the case |
| `ground` | 2 calls, 2 roles, 2 routes with one slug, 3 prefixes with one digest, 3 pages, 1 handler | 1,985,465 | a look-up answers with its own snapshot, no secret is written, nothing once the origin was left |
| `run_cases` | 6 reports of 3 cases, 3 roles (minted, password, undeclared), 1 state, a cap of 2 or of 3, 1 retry | 6,651,184 | entries are the report, exit code, the refinement with the promise of one entry per case, the run ends |
| `session` | 6 kinds of role, 3 logins, lifetime 2, margin 2, floor 0, limits 1, 1 retry | 3,353,657 | what is saved and handed over, the runway, every request is answered |
| `record` | 1 case of 5 citations, 2 files in 3 places, 2 test runs of 5 outputs, 1 source, time up to 3 | 4,759,674 | a pass rests on all that is cited; changed sources are told |
| `judge` | 1 caller, 2 cases with 2 + 1 judge steps and 5 without, 2 runs, 2 faults | 106,728 | verdicts are kept and backed, totals add up; all cases settle |
| `metrics` | 2 logs, 2 lines, 2 months, 2 materializations, 1 rewrite of the run record, 2 seconds | 8,961,328 | every verdict is counted once, the history of scans is kept |
| `metrics_leftover` | the same | - | a comment of the source does not hold (section 6) |

Why the bounds are enough.

*`plan`*: four steps are an anchor, an absence after it, something between that resets or leaves
out the anchor, and a submit or a use of a name; with two routes the anchor may be of the other
one. The proofs have no bound on plans.

*`case`*: two cases are one that seeds, logs in, learns a secret or is refused, and one that uses
what it left; the menu has an entry for each refusal and each kind of step, with local and foreign
places, and every pair of entries is run.

*`browser_case`*: three steps are one that fails, one that goes on after it, and one that is
skipped, stopped or truncated: the order of any two special steps and a plain one between, before
or after them.

*`step`*: two changes are a page that gets what the step looks for and loses it again, or the
reverse; three reads are one that is unlike the last one, and the last one; two requests are one
in the window and one that must not leave. The pages have no, one and two matches, in and out of
the scope, of every look; in one of them the group of the anchor is drawn again, a box further in.

*`message`*: two messages are a newest one and one it supersedes, before or after the start of the
case, between two listings or between listing and request; two reads are one that finds a code and
one that may find it again; the wait is two polls, so an attempt falls before, on and after the
deadline. A read starts only while the bound on time leaves it the time it may take.

*`ground`*: two calls are the least that collide; slugs and digests always collide, which is the
worst case; the candidates carry a part of the address, a short secret and a declared one.

*`run_cases`*: three cases are one that fills a cache, one that uses it, and one after that, which
the cap of two cuts off; the cap of three lets all of them run, as exit 0 demands; a minted role
because only it is retried, an undeclared one because it is refused after its state was seeded.
The reports hold each construct that ends or does not end a block, inside, between and after
cases, headings of the first and the fourth level among them.

*`session`*: the unit of time is arbitrary; an expiry of 0, 1 or 2 is at the floor, between floor
and margin, and at the margin, and an age of 0, 1 or 2 within, at and over `MaxAge`; the two time
limits are equal, as in the code. Names of logins are reused once no file carries them, so three
names are a bound on what lies about at once, not on logins.

*`record`*: two test runs are the one of the record and a later one into the same file; three
steps of time put a write into the second of the record, into the slack after it, and beyond. One
source is enough for the order of the calls about it; the proof has any number of them.

*`judge`*: one case with two verdicts (their order, a case half judged) and one with one and a
remainder; two runs because the second replaces a document with verdicts in it; two faults because
a fault while repairing after a fault is the case that is easily forgotten. With overlapping calls
outcomes stay earned; that is proved for any number of callers.

*`metrics`*: two logs so that one moves while the other is read; two materializations so that one
meets what another left; two months so that a row can be in two shards.

Deadlock is checked in every run: a model that has ended stutters with an explicit action
(`Returned`, `Rest`, `Done`, `Resolved`, `Taken`, `Ended`, `Finished`).

Fairness. Four properties need it. `EveryCaseSettles` (judge) assumes that a call runs to its end
and that the assistant calls `judge` again as long as a step is pending, which is what
`plugins/relay/commands/relay-qa-run.md:1219-1226` tells it to do; faults are not fair, and
bounded in number. `RunEnds` (run) assumes weak fairness of the runner as a whole: every script
and seed command has a timeout (`spawnSync` with `timeout: 120000`), and so has what a driver
waits for (Playwright's own timeouts, 10 s for a request, 60 s for a query), so every one comes
back; starting a script and its end are two steps, so that a script run again for ever would be a
run that never ends. No fairness is assumed of signals, handlers or errors.
`EveryCallIsAnswered` (sessions) assumes that time passes, that the time limit of `spawnSync`
kills, and that the runner goes on after a script that ended - nothing of the script, the
application or the mint command. `StepEnds` (step) assumes weak fairness of the runner: each await
of a step has a timeout of Playwright's or of the loop's own deadline (2375), which `MaxReads`
stands for. Nothing is assumed of the page.

Every property has a mutant in `PROJECT.json`: a definition of the model changed the way the
code could be changed by mistake, for which TLC finds the property violated.

## 5. Proofs

The proofs are in the eight modules `Qa*_proofs`. They use the assumptions on the constants that
the modules name: `NAssumption` (at least one step) for the browser driver; `ConstantsAssumption`
(every case has a judge step, `Absent` and `Unreadable` are no documents) for the judge;
`ConstantsAssumption` and `NoneAssumption` (at least one case, a cap of at least one, minted roles
are declared, `None` is no role, state or result) for the run; `LoginAssumption`,
`NoneIsNoRecord` and `SessionAssumption` (times and limits are natural numbers, `None` is no
record) for the sessions, where floor, margin, limits, lifetimes and roles are otherwise free;
`MessageAssumption` (the kinds of text are different, wait and request timeout are natural
numbers, the poll a positive one) for the messages; `FormsAssumption` and `PlanAssumption` (the
menu consists of steps, the sentinels are no routes or names) for the plans; and
`ConstantsAssumption` and `MenuAssumption` (entries are entries, captures are names, a message
binds no declared capture, which `validateSteps` refuses) for the cases; `StepAssumption` (the
locators are those `LocatorOf` allows, there are finitely many elements, a loop reads at least
twice) for the locator steps; `GroundAssumption` (a prefix that is not empty acts, as `ground`
demands; a digest is never the sign for "no prefix") for ground mode; `RecordAssumption` (units of
a citation as the extraction gives them, finitely many test locations and record slots, a second
is at least one unit of time) for the records; `MetricsAssumption` (log names and months are
listed once, the words for a bad, torn or absent text are no months) for the metrics;
`SummaryAssumption` (finitely many cases and steps, the plan's entries are such as the validator
accepts, no more steps wait than the entry declares) for the totals; and `ReportsAssumption`
(reports have one section at most and as many cases as the run) for the report. Nothing else is
assumed about sizes, and TLC evaluates each of them in the run of its module.

Every invariant and action property that a passing run checks is stated by a theorem.

**Plans of any length over any menu.** `IInv` is `TypeOK` with `ReadShape` (while steps are read,
the route, the anchor and the bound names are those of the steps so far) and `GroundShape` (the
same of the second scan, with an anchor that is not a gap and lies before the truncation). The
second is needed because the first scan's anchor may itself be left out; the proofs of the
properties compare the two at the step in question. Theorems: `TypeCorrect`, `AbsencesAnchored`,
`NamesAreBound`, `LocatorsGrounded`, `SubmitsReported`, and `PlanHandedOn`: what is handed on
satisfies what `QaBrowserCase` assumes of its plans, so its theorems hold of every accepted plan.

**Cases, any number, menu, roles, secrets and places.** `IInv` is `TypeOK` with `RefusalShape`
(what has been touched at each place of a case, and what holds by then), `StateShape` (what the
kept results say), `GateShape` (a gated case past its gate has a clean answer), `SecretShape` (all
that was learnt and is long enough is in the table), `EvidenceShape` (evidence is of the steps up
to here), `NamesShape` (names bound so far are those of the seed or of an earlier message)
and two of the properties, which are inductive with the rest. Theorems: `TypeCorrect`,
`RefusedUntouched`, `SessionProven`, `SessionsApart`, `SecretsMasked`,
`EvidenceIsOwn`, `NamesMeant`.

**Browser driver, any number of steps.** `IInv` is `TypeOK` with four parts. `LoopShape`: the
steps behind the head of the loop are exactly those that ran or were gaps, and the loop never
passes the truncating step. `HandlerShape`: a handler is still running after the loop only if
its click was blocked. `VerdictShape`: the verdict is the result of the first bad step, unless a
dismissal replaced it. `CaptureShape`: captures belong to judge steps that passed, and a case in
which nothing failed went all the way. None of the properties is inductive alone:
`PassIsEarned`, for instance, speaks only of a returned case, and needs that a case without a
verdict has no bad step behind the head of its loop. Theorems: `TypeCorrect`, `KnownPage`,
`EarnedPass`, `TrueRecords`, `FirstFailure`, `LeavingBlocked`, and `Implements` (the refinement
of `QaCaseOutcome`).

**Judge.** `DocsEarned` says that every document on its way - in `results.json`, in the
temporary file, or in the memory of a call - is earned by its own verdicts. It holds however
calls overlap, since every writer publishes a document as it computed it: `AlwaysEarned`.
`OneCallerInv` adds, for one caller at a time, that what a call is about to write is what
`results.json` holds now plus its verdict, and that its evidence is written first:
`OneCallerSafe` (evidence and kept verdicts), `VerdictsAreBacked` (each recorded verdict has its
evidence file), `Readable`, and `Implements` (refinement of `QaVerdicts`). These four assume
`OneCaller`; without it the first is false (section 6).

**Totals, any plan and any number of cases and steps.** `EverythingIsAccountedFor` needs no
invariant beyond `AlwaysEarned`: the totals are a function of a document whose outcomes are earned.
What has to be shown is that sums and counts agree. The model counts by pairs (`Units(S, f)` is
the set of `<<c, k>>` with `k` in `1..f[c]`, `Total` its size), so a sum over a set is the
cardinality of one, and `TotalAdds` and `TotalCounts` follow from the library's theorems on the
cardinality of unions and bijections, with no induction over the set.

**Run, any number of cases, roles and states, any cap and retry bound.** `RInv` is `TypeOK` with
`EntriesShape` (the entries are those of the cases behind, and what is published is complete),
`AbortShape` (once a case was given up the reason still holds at every later one), `CacheShape`
(what is not cached has not been run, but for the script being run again), and the properties
themselves. Theorems: `HonestExit`, `GivenUpIsTail`, `NothingRepeated`, `Implements` (refinement
of `QaReport`).

**Reports of any length.** `EntriesFollowTheReport`: the entries of a run are the cases a reader
finds in the report, in its order, each with the lines of steps the reader finds. `ReadInv` is
`RInv` with `RouteShape` (only a complete case is executed, and an entry says "incomplete" exactly
of a case that is) and `ReadShape` (the report does not change once read). The work is in `ParsesAsRead`: the parser, which
goes through the lines once and keeps a block and a field open, finds what `ReadByHand` defines
without them. The library's theorems for recursive functions and induction take operators as
parameters and cannot be instantiated here, so the proof module derives induction over the
places of a report once, from the well-foundedness of `<` as a relation on a set: `LeastElement`
for a set of numbers, `Climb` for a set closed under the next place, and `Loop` for a function
that a recursion over a prefix of the numbers defines. Each loop of the parser then has an
invariant of its own, as one would give the code: `SplitShape` (what the open block and the closed
ones are after a line, in terms of the lines before it), `FieldsShape` (which lines each field
holds), `CarriedShape` (which blocks are kept).

**Sessions, any limits, lifetimes and roles.** `IInv` is `TypeOK` with `ScriptInv` (from the
proof on, the login in hand is the one that was accepted; the files carry its name as far as
they are saved; a script that ended well leaves a session its last proof accepted) and `RunInv`
(the runner waits exactly while its script is there; the mints of a call follow its retries; a
minted role that has not come to its mint command was forced or had the margin, less the time
since). The last is what the runway needs: the margin is read before the script starts and the
session is handed over up to a time limit later. Theorems: `TypeCorrect`, `Bounded`,
`HandedProven`, `SavedProven`, `SavedTogether`, `Runway`.

**Messages, any texts, waits, polls, timeouts and number of reads.** `IInv` is `TypeOK` with
`ChannelShape` (messages are in the order they were sent, and the file only loses lines),
`AttemptShape` (where the driver stands in an attempt and how far past the deadline it can be
there), `HitShape` (the message picked from the last listing: nothing newer that came before
that listing is still there) and `BoundShape` (the same of every value that was kept). The last
two are needed because the properties speak of values while the choice is made two requests
earlier, with arrivals and purges in between. Theorems: `TypeCorrect`, `NewestRead`, `SmsFresh`,
`ReadsAreBounded`, and `MailFresh`, which assumes that the catcher's clock is not ahead of the
runner's; without it the property is false (section 6).

**Locator steps, any page, any changes, any number of reads and requests.** `StepInv` is
`StepTypeOK` with `OnItsWay` (which places an action leads to), `WaitsForItsOwn` (what a settle
loop waits for, and that a text or pattern it waits to become visible was read as met before),
`ReadableSawOtherwise` (a reading that counts as good showed the contrary of what was expected)
and the properties. `ReadableSawOtherwise` is why a failure is true: the loop may end several reads
after the page it judges by. What a step means on a page depends on `level` for an anchor, so
`StepMeansTheSame` is about steps that leave it alone, and the climb, which does not, comes before
any reading. `PassedOnSight` is about the place where the step looks; that the place is the anchor's
group is false (`PassIsOfItsGroup`, section 6). Theorems: `PassedOnSight`, `FailedOnSight`, `SubmitWatched`.

**Ground mode, any roles, routes, prefixes, digests and slugs.** `GroundInv` is `ReplaysItsPrefix`
(what was done is the prefix so far, on one match each), `KnowsItsSecrets` (from the session on,
all of them are in the table and the prefix names none), `StayedHome`, `AtRest`, `FiledAsMade`
(name and content of a snapshot say of whom and after what it was taken) and `SecretsWithheld`.
Theorems: `SnapshotsAnswerTheirOwn`, `SnapshotsWithholdSecrets`, `KindsStayApart`,
`LeftWritesNothing`. That digests collide does no harm because the look-up compares the recorded
prefix, which `FiledAsMade` keeps true.

**Records, any tests, citations, sources and times.** `RecordInv` is `RecordTypeOK` with
`RecordsHaveFiles`, `ResolvesWhatIsListed` (a case goes on only with an output that lists all that
is cited, and its outcome is that output's), `CommitsComeAfter` (a source equal to its last
commit was committed in the second of its last edit or later), `ToldOrWillBe` and `StaleIsTold`.
`ToldOrWillBe` is what three calls about each source need: one that is owed has been reported, or its
commit is later than the record and is still to be asked for, or it is dirty and was written in a
later second, until the last call, from when on its time of writing alone decides. A commit takes a
source from the third of these to the second, which is too late between the first call and the
second (`between`). Theorems:
`ChangedSourcesAreNamed`, `CitedTestsRanAndPassed`.

**Metrics, any logs, months, lines and interruptions.** `MetricsInv` is `MetricsTypeOK` with
`WritesAsPlanned`, `ComesFromALog`, `LeftoversAreDue` (a `.tmp` that an interrupted materialization
left for a log's shard has a due row in that shard, so the next one replaces it) and `MissesNothing` (a due row is
still to be listed, still to be read, read and its shard pending, or in its shard - a log that
moves to `completed` after it was listed goes from one of these to another). Theorems:
`EveryVerdictCountedOnce`, `ScansAreAHistory`.

What the proofs changed in the model. `QaStep` states what a locator is (`ScopedLocatorOf`,
`ValidLocator`) as an assumption, where its menu had implied it; the sets of locations and slots of
`QaRecord` and of targets in `QaStep` are declared finite; a unit of a citation is what the
extraction can give (`Extracted`); `UsageMetrics` indexes paths and shards by number;
`QaSummary` counts by pairs, and says what a plan entry must be (`ValidEntry`); and the parser is
written as loops of one line each, which are its code more closely than the sets of places it was
written with. `QaReportText` gained headings of the first and fourth level on the way.

Proved but not among the runs' properties, because another one that is checked is the stronger
question or because the bound follows from the shape of the state: `TypeCorrect` of four modules,
`EarnedPass`, `LeavingBlocked`, `AlwaysEarned`, `Readable`, `GivenUpIsTail`, `NothingRepeated`,
`Bounded`, `ReadsAreBounded`, `LocatorsGrounded`, `PlanHandedOn`, `SessionsApart` and
`EvidenceIsOwn`.

Only model-checked: the four liveness properties `EveryCaseSettles`, `RunEnds`,
`EveryCallIsAnswered` and `StepEnds`, because liveness under fairness is out of the prover's reach;
and that the violation run fails.

## 6. Findings

With a run of its own:

- `metrics_leftover`: the comment at metrics:423-424 says that an interrupted `writeAtomic` "cannot
  leave a truncated shard a later reader consumes as valid data". Killed between the write (430)
  and the rename (431) it leaves `<shard>.tmp`, and `doQuery` reads every file whose name starts
  with `verdict-` or `rubric-` (620-621), this one included, truncated or whole: its rows are read
  beside those of the shard. A later materialization of the same shard removes it by its rename,
  which is why `CountedOnce` holds after one that ran to its end.

Shown by a configuration that is kept beside the runs and is not one of them: TLC finds its
invariant violated, within seconds, by the model as it stands.

- *A commit between two questions* (`MCQaRecord_commit.cfg`, `CommittedIsTold`). `changedAfter` is documented (5177-5178) to report a file if "its last commit is
  later, or it has uncommitted changes and its modification time is later". It asks `git log` first
  (5186) and `git status` after it (5189). A developer who commits an edit between the two is in neither
  answer, and the case keeps its pass without the `RECORD_STALE` warning that AC-19
  (`PRPs/prds/qa-runner-ai-executable-steps.prd.md:103`) promises. Asked in the other order, a commit
  in between would be in the second answer. `StaleIsTold` is what remains true and is proved.
- *A place for a group* (`MCQaStep_anchor.cfg`, `PassIsOfItsGroup`). `plugins/relay/commands/relay-qa-run.md:477-480` says that the runner "walks up to the
  nearest ancestor that holds at least one element of the step's `role`, and resolves the step inside
  it". The code counts the ancestors (3554), tries them from the innermost outward (3555-3558), and keeps
  the place it stopped at, not the element. When the application draws the group again with a box
  more, after the count, the walk starts one ancestor too far out; when it does so after the walk, the
  place is another ancestor by then. The guard finds one element there (4033), and the step passes
  on an element of another group; a click would land on it. The risk table of
  `PRPs/plans/completed/qa-runner-vocabulary-v4-phase-4-assertion-vocabulary.plan.md:604` rates a click
  on a wrong control as excluded by "nearest ancestor that holds the role".

Met while modelling. They have no configuration; the modules, changed in the way each item says, show them:

- *The sentence of a stopped step.* When a dismissal has left the approved origin, the loop stops
  before the next step, and the records of the remaining steps carry the sentence that an
  assertion failed before them (4216, `overlayStoppedRecords` 2171). The comment at 2147 calls it
  "The fixed sentence of a step stopped because an assertion failed before it." The outcome itself
  is right (`LeavingEndsBlocked`).
- *Two judge calls that overlap.* `runJudge` writes back the document it read with no check that
  it is still current, so the verdict of the first is lost, though it was reported as JUDGED. The
  comment at 6416-6417 and the usage text at 6468 say that a recorded verdict is never replaced.
  The command document has the assistant judge one step at a time, in which case it holds and is
  proved. (`Callers` with two members.)
- *A mint command that hangs.* `runLoginScript` ends the login script 120 s after it started it
  (4653). The script gives its mint command 120 s as well, from a later moment (login:1170), so a
  command that hangs always meets the runner's limit: the script dies without a word and the case
  is blocked as `FAILED_LOGIN_UNKNOWN`. `mintBlockReason` (4570) and AC-4 of
  `PRPs/prds/test-auth-minted-session.prd.md` promise `FAILED_MINT_COMMAND` for a timeout. Run
  from a terminal the script keeps its promise.
- *A torn token.* A mint that issues no token removes the token of an earlier mint after it has
  renamed the session into place. Killed in between it leaves both; the browser probe shows the
  application only the session, so the next run accepts them and hands over the old token with the
  new session, which login:1628 says must not happen. With the HTTP probe the token is presented,
  and the hand-over is of what was proven (`HandedProven`).
- *The four minutes of a token.* The comment at 103-104 says that a token with under four minutes
  left is replaced. The runner compares the recorded expiry only, which the mint command declared;
  a token whose `exp` claim ends sooner is kept as long as it passes the script's 60 s. What is
  proved is the runway of the recorded expiry (`Runway`).
- *A catcher whose clock is ahead.* `newestMailAfter` (2012) compares the time the catcher stamped
  with the clock of the runner. With the catcher ahead, a message sent before the case started
  passes for one of the case. Decision text in
  `PRPs/plans/completed/qa-runner-ai-executable-steps-phase-6-local-channel-sources.plan.md:1101`
  says a skew "can only make a fresh message look old". (`Skew` with a positive member.)
- *A file that was cut.* A file shorter than it was when the case started is read from its first
  byte (3859), old lines included; the comment at 3841 says "only the bytes appended since the
  case started", and line 1117 of the same plan that "an unrelated old line can never match".
- *An older match.* An attempt reads the newest message and no other (3822), so a newer one that
  does not match hides an older one that does, and the case fails. AC-15 of
  `PRPs/prds/qa-runner-ai-executable-steps.prd.md` (line 99) speaks of "the newest matching
  message". The start is the case's, not the step's: a second read that comes before a second code
  finds the first code again, which no document excludes.

Behaviour no document speaks of, which bounds what the properties can say:

- A case whose state is `role-only` borrows what an earlier case captured for the same text
  (5496); `SeededNamesAreTheirs` is about cases that seed.
- A JUnit file written within the slack after the record (5089) is credited to it, also when a
  later run of the tests wrote it; `PassRestsOnAllCited` is about the output that was read.
- A source edited in the second of the record, or one that only took an older edit back, is not
  told (5185-5196); `StaleIsTold` excepts both (`Outdated`).
- Where the two readers of a JUnit file count its cases differently, the names of the suites are not
  used: a title that only a suite bears finds no test, and of one that finds some the failures under
  the suite's name are not seen. `PassRestsOnAllCited` claims of such a title that its tests ran.
- A scope is proven once; an absence step passes also when the scope has gone since (4057).
- A `PARTIAL_REMAINDER` case whose entry declares no number of objective steps is left to a person
  without being counted as one of the gap (3010).
- Between two interactions of a prefix, ground mode does not look whether a dismissal left the
  origin, and the counts come after the two reads that agree; what is written is withheld all the
  same (`LeftIsNotWritten`).
- Of a report with two sections of cases only the first is read; the cases of the second are
  dropped without a word, and no entry of a run shows it. `EntriesAreTheReport` is about reports
  with one.
- In a report, a label inside a fence is a label all the same, a second label of the same field
  replaces what the first held, and a heading of depth four does not make a rule before it an end.
- Of the metrics: a run row that moves to another month stays in its old shard too; an attempt
  that is repeated gives several rows of one key; a log that moves after both directories were
  listed is missing until the next time; two materializations in one second keep the scan of the
  first; two at once would share the `.tmp` files.

## 7. What is not modelled

- Text as such: wording, the filters of redaction and secrecy, the target guard, the format checks
  of arguments and single fields. What they answer is a choice in every module that asks them, and
  a text is the set of what the properties tell apart in it.
- Of the report parser: the warning about the summary table, and the splitting of a table row into
  cells.
- Time inside the browser driver and the gates; `QaStep`, `QaMessage` and `QaSession` have it for
  their parts. A wait for an element to attach is time given to the page.
- A line of the sms file that is read half written; a file that was cut and has grown past the
  baseline again.
- A single git call that fails between two that succeed: git answers all calls of a case or none
  ("A git failure is never changed", 5178); a source that is deleted.
- The inside of seed, query and mint commands, and the writer and guard of `qa-seed.json`. In
  `QaRun` a login script is one of three ends; `QaSession` has its inside.
- Of the login script: `credentials.json` and the user-creation command, an age limit of `null`
  (static tokens only), the declared session cookie other than as a reason to log in anew, an
  expiry too large for a date, and two scripts of one role at the same time, which would share
  their `.tmp` files. The configuration is edited between requests only.
- A process killed with no handler outside the finally block of a run: it leaves no
  `results.json` at all, and a new run starts from nothing.
- The orchestrator ledger, but for the writes that the metrics may meet; overlapping
  materializations; the columns of a row beyond its key and month.
- Scripts that derive one document or image from files in one pass and keep no state: the final
  report, the normalisation of test output and the content hash, the visual pipeline, the
  validation suite, the efficiency scripts, the bootstrap of a worktree. The stop hooks (a counter
  in a file) and the presentation script of the documentation site.
- The prose of commands, agents and skills, except where it fixes the protocol of calls (the judge
  protocol; who appends to the logs).

## 8. Plan

Done, in this order: `QaBrowserCase`, `QaJudge`, `QaRun` with their abstract modules;
`QaLogin` and `QaSession`; `QaMessage`; `QaPlan`; `QaCase`; `QaRecord`; `QaStep`; `QaGround`;
`QaSummary`; `QaReportText`; `UsageMetrics`. Left:

1. Two login scripts of one role at once (an operator at a terminal, a second runner): `QaLogin`
   as the steps of one of several processes over the three files and their `.tmp` names.
2. That the three ends `QaRun` gives a login script are what `QaSession` allows, and its entries
   what `QaCase` makes of a case, as refinements.
3. `Ledger` (the deviations and attempts of `orchestrator-ledger.mjs`), with two commands at once.
4. `RalphLoop` (the stop hook of prp-core) and `Lane` (lane derivation), both small.
5. Proofs of the refinements of item 2, and that a step of `QaBrowserCase` is what `QaStep` makes
   of one.

One run asks one question, and the list of runs is kept short: where a proof covers an instance,
or a sentence is already refuted in section 6, the run goes before a new module's does.
