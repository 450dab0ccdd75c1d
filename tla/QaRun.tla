------------------------------- MODULE QaRun -------------------------------
(***************************************************************************)
(* `qa-run.mjs run`: the loop of runRun over the cases of the report, the  *)
(* way executeCase takes through one case, the seeds and the sessions it   *)
(* keeps for the whole run, the login scripts it runs and runs again, the  *)
(* interrupt signal and the cap, and the results and the exit code at the  *)
(* end.                                                                    *)
(*                                                                         *)
(* A driver (QaBrowserCase for a browser case) is one step here, and so    *)
(* are the checks of a plan entry before anything is seeded.  A signal is  *)
(* only noticed where the code waits for input or output: a script or a    *)
(* seed command runs with spawnSync, and between two cases nothing waits.  *)
(***************************************************************************)
EXTENDS Integers, Sequences

CONSTANTS
  N,           \* the number of cases of the report
  Roles,       \* the roles the plan names
  Declared,    \* those login.config.json declares
  Minted,      \* those whose mechanism is minted
  States,      \* the required states of the cases
  None,        \* no role, no state, no results
  Caps,        \* the values --max-cases may have; one of N when it is not given
  MaxRetries   \* LOGIN_REMINT_MAX_RETRIES

ASSUME ConstantsAssumption ==
  /\ N \in Nat \ {0} /\ Caps \subseteq Nat \ {0} /\ MaxRetries \in Nat
  /\ Declared \subseteq Roles /\ Minted \subseteq Declared

VARIABLES
  maxCases,   \* args.maxCases
  plan,       \* per case: how it is routed, its role and its required state
  playwright, \* whether Playwright could be loaded
  pc,         \* where runRun stands
  cur,        \* the case it is at
  entries,    \* the entries of results.json so far
  signal,     \* the interrupt signal: "none", "sent", or "seen" by its handler
  aborted,    \* whether runRun holds a reason for an aborted run
  seeds,      \* ctx.seeds: how each state's seed command ended
  sessions,   \* ctx.sessions: what obtainSession answered for each role
  tries,      \* how often the login script ran again for the case in hand
  results,    \* results.json
  exitCode,   \* the exit code, or None while the run goes on
  seedRuns,   \* history: how often each seed command ran, counted up to 2
  scriptRuns  \* history: how often each login script ran, up to MaxRetries + 2

caseVars  == <<pc, cur, tries>>
cacheVars == <<seeds, sessions>>
endVars   == <<aborted, results, exitCode>>
history   == <<seedRuns, scriptRuns>>
vars == <<maxCases, plan, playwright, caseVars, entries, signal, cacheVars, endVars, history>>

Case == 1..N
Routes == {"incomplete", "record", "planned"}
Routed == [route : Routes, role : Roles \cup {None}, state : States \cup {None}]
\* Of a case that is not executed the plan entry is not looked at.
Plans  == [Case -> {r \in Routed : r.route # "planned" => r.role = None /\ r.state = None}]

Why == {"incomplete", "record", "refused", "playwright", "state", "role", "session",
        "driver", "error", "aborted"}
Entry == [case : Case, why : Why]

ASSUME NoneAssumption == None \notin Roles \cup States \cup {0, 1} /\ None \notin [Case -> Entry]

Role  == plan[cur].role
State == plan[cur].state

Init ==
  /\ plan \in {p \in Plans : \A c \in Case : p[c].route # "planned" => p[c].role = None /\ p[c].state = None}
  /\ maxCases \in Caps /\ playwright \in BOOLEAN
  /\ pc = "loop" /\ cur = 1 /\ entries = << >>
  /\ signal = "none" /\ aborted = FALSE
  /\ seeds = [s \in States |-> "none"] /\ sessions = [r \in Roles |-> "none"] /\ tries = 0
  /\ results = None /\ exitCode = None
  /\ seedRuns = [s \in States |-> 0] /\ scriptRuns = [r \in Roles |-> 0]

-----------------------------------------------------------------------------
(* The end of a case: its entry is pushed and the loop goes on.  Of an     *)
(* entry the model keeps what its outcome comes from.                      *)
Push(why) ==
  /\ entries' = Append(entries, [case |-> cur, why |-> why])
  /\ cur' = cur + 1 /\ pc' = "loop" /\ tries' = 0

CapReached == Len(entries) >= maxCases
Stops == signal = "seen" \/ CapReached

(* The signal was seen or the cap is reached: this case is not executed.   *)
SkipCase ==
  /\ pc = "loop" /\ cur <= N /\ Stops
  /\ Push("aborted") /\ aborted' = TRUE
  /\ UNCHANGED <<maxCases, plan, playwright, signal, cacheVars, results, exitCode, history>>

(* A case section that lacks a field is counted and never executed.        *)
CountIncomplete ==
  /\ pc = "loop" /\ cur <= N /\ ~Stops /\ plan[cur].route = "incomplete"
  /\ Push("incomplete")
  /\ UNCHANGED <<maxCases, plan, playwright, signal, cacheVars, endVars, history>>

(* The Test Runner's record decides, or its evidence cannot be written.    *)
ResolveFromRecord ==
  /\ pc = "loop" /\ cur <= N /\ ~Stops /\ plan[cur].route = "record"
  /\ Push("record")
  /\ UNCHANGED <<maxCases, plan, playwright, signal, cacheVars, endVars, history>>

StartCase ==
  /\ pc = "loop" /\ cur <= N /\ ~Stops /\ plan[cur].route = "planned"
  /\ pc' = "gates"
  /\ UNCHANGED <<maxCases, plan, playwright, cur, tries, entries, signal, cacheVars, endVars, history>>

-----------------------------------------------------------------------------
(* The checks of the plan entry, its sources and its target, and the gate  *)
(* of a target that authenticates everyone.                                *)
Refuse ==
  /\ pc = "gates"
  /\ \/ Push("refused")
     \/ ~playwright /\ Push("playwright")
  /\ UNCHANGED <<maxCases, plan, playwright, signal, cacheVars, endVars, history>>

PassGates ==
  /\ pc = "gates" /\ playwright /\ pc' = "state"
  /\ UNCHANGED <<maxCases, plan, playwright, cur, tries, entries, signal, cacheVars, endVars, history>>

(* prepareState: nothing to seed (State is None: no state is required, or  *)
(* only a role), or what the seed command gave before.                     *)
StateReady ==
  /\ pc = "state" /\ pc' = "session"
  /\ State # None => seeds[State] = "ok"
  /\ UNCHANGED <<maxCases, plan, playwright, cur, tries, entries, signal, cacheVars, endVars, history>>

(* The state is not declared for this case or its seed command failed      *)
(* earlier; or only a role is required, and the case names no declared one.*)
StateBlocked ==
  /\ pc = "state"
  /\ State # None \/ Role \notin Declared
  /\ Push("state")
  /\ UNCHANGED <<maxCases, plan, playwright, signal, cacheVars, endVars, history>>

Count(n) == IF n < 2 THEN n + 1 ELSE n
SeedKept(res)      == res

(* runSeed: the command is run, and how it ended is kept for the run.      *)
RunSeed ==
  /\ pc = "state" /\ State # None /\ seeds[State] = "none"
  /\ \E res \in {"ok", "failed"} :
       /\ seeds' = [seeds EXCEPT ![State] = SeedKept(res)]
       /\ IF res = "ok"
            THEN pc' = "session" /\ UNCHANGED <<cur, tries, entries>>
            ELSE Push("state")
  /\ seedRuns' = [seedRuns EXCEPT ![State] = Count(@)]
  /\ UNCHANGED <<maxCases, plan, playwright, signal, sessions, endVars, scriptRuns>>

(* What the seed captured, put into the paths, leaves the origin.          *)
RefuseSeeded ==
  /\ pc = "session" /\ State # None
  /\ Push("refused")
  /\ UNCHANGED <<maxCases, plan, playwright, signal, cacheVars, endVars, history>>

-----------------------------------------------------------------------------
(* obtainSession: what it answered before for the role is answered again.  *)
SessionReady ==
  /\ pc = "session" /\ pc' = "drive"
  /\ Role # None => sessions[Role] = "ok"
  /\ UNCHANGED <<maxCases, plan, playwright, cur, tries, entries, signal, cacheVars, endVars, history>>

SessionBlocked ==
  /\ pc = "session" /\ Role # None
  /\ \/ Role \notin Declared /\ Push("role")
     \/ Role \in Declared /\ sessions[Role] = "failed" /\ Push("session")
  /\ UNCHANGED <<maxCases, plan, playwright, signal, cacheVars, endVars, history>>

(* No script, or one generated from another template: it is not run.       *)
NoScript ==
  /\ pc = "session" /\ Role \in Declared /\ sessions[Role] = "none"
  /\ sessions' = [sessions EXCEPT ![Role] = "failed"]
  /\ Push("session")
  /\ UNCHANGED <<maxCases, plan, playwright, signal, seeds, endVars, history>>

AlwaysRemint == Role \in Minted                           \* mutant
MayRemint    == Role \in Minted /\ tries < MaxRetries

SessionKept(res)   == res

CountScript(n) == IF n < MaxRetries + 2 THEN n + 1 ELSE n

(* runLoginScript: the script of the role is started, and waited for.      *)
StartScript ==
  /\ pc \in {"session", "again"} /\ Role \in Declared /\ sessions[Role] = "none"
  /\ pc' = "script" /\ scriptRuns' = [scriptRuns EXCEPT ![Role] = CountScript(@)]
  /\ UNCHANGED <<maxCases, plan, playwright, cur, tries, entries, signal, cacheVars, endVars, seedRuns>>

(***************************************************************************)
(* It ends with a session, or with a halt.  After the halt that follows a  *)
(* fresh mint, the script of a minted role is run again with --force, at   *)
(* most MaxRetries times.                                                  *)
(***************************************************************************)
ScriptEnds ==
  /\ pc = "script"
  /\ \E res \in {"ok", "marker-absent", "failed"} :
       IF res = "marker-absent" /\ MayRemint
         THEN /\ pc' = "again"
              /\ tries' = IF tries < MaxRetries THEN tries + 1 ELSE tries
              /\ UNCHANGED <<cur, entries, sessions>>
         ELSE /\ sessions' = [sessions EXCEPT ![Role] = SessionKept(IF res = "ok" THEN "ok" ELSE "failed")]
              /\ IF res = "ok" THEN pc' = "drive" /\ tries' = 0 /\ UNCHANGED <<cur, entries>>
                               ELSE Push("session")
  /\ UNCHANGED <<maxCases, plan, playwright, signal, seeds, endVars, history>>

-----------------------------------------------------------------------------
(* The driver returns; a pass with a remainder for a person is needs-human.*)
Drive ==
  /\ pc = "drive" /\ Push("driver")
  /\ UNCHANGED <<maxCases, plan, playwright, signal, cacheVars, endVars, history>>

(* An unexpected error inside a case is the outcome of that case.          *)
DropCase ==   \* mutant
  cur' = cur + 1 /\ pc' = "loop" /\ tries' = 0 /\ UNCHANGED entries
BlockCase == Push("error")
CaseThrows ==
  /\ pc \in {"gates", "state", "session", "drive"}
  /\ BlockCase
  /\ UNCHANGED <<maxCases, plan, playwright, signal, cacheVars, endVars, history>>

(* One outside a case ends the loop.                                       *)
LoopThrows ==
  /\ pc = "loop" /\ cur <= N
  /\ pc' = "end" /\ aborted' = TRUE
  /\ UNCHANGED <<maxCases, plan, playwright, cur, tries, entries, signal, cacheVars, results, exitCode, history>>

LeaveLoop ==
  /\ pc = "loop" /\ cur > N /\ pc' = "end"
  /\ UNCHANGED <<maxCases, plan, playwright, cur, tries, entries, signal, cacheVars, endVars, history>>

-----------------------------------------------------------------------------
(* The finally block: N cases in, N entries out.                           *)
Padded == [i \in Case |-> IF i <= Len(entries) THEN entries[i]
                          ELSE [case |-> i, why |-> "aborted"]]

ExitIgnoringAbort(written, reportChanged) ==   \* mutant
  IF ~written \/ reportChanged \/ \E i \in Case : Padded[i].why = "playwright" THEN 1 ELSE 0
ExitFor(written, reportChanged) ==
  IF \/ ~written \/ reportChanged \/ aborted \/ Len(entries) < N
     \/ \E i \in Case : Padded[i].why = "playwright"
    THEN 1 ELSE 0

Finish ==
  /\ pc = "end" /\ pc' = "done"
  /\ entries' = Padded
  /\ aborted' = (aborted \/ Len(entries) < N)
  /\ \E written, reportChanged \in BOOLEAN :
       /\ results' = IF written THEN Padded ELSE results
       /\ exitCode' = ExitFor(written, reportChanged)
  /\ UNCHANGED <<maxCases, plan, playwright, cur, tries, signal, cacheVars, history>>

(* The handlers are off by then: a signal ends the process, with or        *)
(* without the results on disk and without an exit code of the runner.     *)
Killed ==
  /\ pc = "end" /\ pc' = "done"
  /\ \/ UNCHANGED <<entries, results>>
     \/ entries' = Padded /\ results' = Padded
  /\ UNCHANGED <<maxCases, plan, playwright, cur, tries, signal, cacheVars, aborted, exitCode, history>>

Done == pc = "done" /\ UNCHANGED vars

-----------------------------------------------------------------------------
(* A signal may be sent at any time; its handler runs where the run waits. *)
SendSignal ==
  /\ signal = "none" /\ pc \notin {"end", "done"} /\ signal' = "sent"
  /\ UNCHANGED <<maxCases, plan, playwright, caseVars, entries, cacheVars, endVars, history>>

SeeSignal ==
  /\ signal = "sent" /\ pc \in {"gates", "state", "drive"} /\ signal' = "seen"
  /\ UNCHANGED <<maxCases, plan, playwright, caseVars, entries, cacheVars, endVars, history>>

Runner ==
  \/ SkipCase \/ CountIncomplete \/ ResolveFromRecord \/ StartCase
  \/ Refuse \/ PassGates \/ StateReady \/ StateBlocked \/ RunSeed \/ RefuseSeeded
  \/ SessionReady \/ SessionBlocked \/ NoScript \/ StartScript \/ ScriptEnds
  \/ Drive \/ CaseThrows \/ LoopThrows \/ LeaveLoop \/ Finish

Next == Runner \/ SendSignal \/ SeeSignal \/ Killed \/ Done

Spec == Init /\ [][Next]_vars

-----------------------------------------------------------------------------
(* The type invariant; an entry is always about a case of the report.      *)
TypeOK ==
  /\ maxCases \in Caps /\ plan \in Plans /\ playwright \in BOOLEAN
  /\ pc \in {"loop", "gates", "state", "session", "script", "again", "drive", "end", "done"}
  /\ cur \in 1..(N + 1) /\ tries \in 0..MaxRetries
  /\ entries \in Seq(Entry) /\ Len(entries) <= N
  /\ signal \in {"none", "sent", "seen"} /\ aborted \in BOOLEAN
  /\ seeds \in [States -> {"none", "ok", "failed"}]
  /\ sessions \in [Roles -> {"none", "ok", "failed"}]
  /\ results = None \/ results \in [Case -> Entry]
  /\ exitCode \in {None, 0, 1}
  /\ seedRuns \in [States -> 0..2] /\ scriptRuns \in [Roles -> 0..(MaxRetries + 2)]

(***************************************************************************)
(* Exit 0 means the results are written and every case has been executed   *)
(* or refused for a reason of its own: none was left out by a signal, the  *)
(* cap or an error of the run.                                             *)
(***************************************************************************)
ExitZeroIsComplete ==
  exitCode = 0 => results # None /\ \A i \in Case : results[i].why \notin {"aborted", "playwright"}

(***************************************************************************)
(* Cases are given up from some case on: none is executed after one that   *)
(* was not, so what a signal or the cap leaves out is the tail.            *)
(***************************************************************************)
AbortedIsTail ==
  \A i, j \in 1..Len(entries) : i < j /\ entries[i].why = "aborted" => entries[j].why = "aborted"

(***************************************************************************)
(* In one run the seed command of a state runs at most once, whatever came *)
(* of it and however many cases require the state.                         *)
(***************************************************************************)
SeededOnce == \A s \in States : seedRuns[s] <= 1

(***************************************************************************)
(* In one run the login script of a role runs once, and that of a minted   *)
(* role at most MaxRetries times more, however many cases name the role:   *)
(* every further run would rotate the account's session.                   *)
(***************************************************************************)
LoginsBounded ==
  \A r \in Roles : scriptRuns[r] <= IF r \in Minted THEN MaxRetries + 1 ELSE 1

(***************************************************************************)
(* One entry for every case, in the order of the report, whatever happens: *)
(* the promise of QaReport.                                                *)
(***************************************************************************)
Promise == INSTANCE QaReport WITH published <- results
KeepsPromise == Promise!Spec

(***************************************************************************)
(* A run comes to its end, whatever the cases, the seeds and the login     *)
(* scripts answer: no case is retried for ever.                            *)
(***************************************************************************)
RunEnds == <>(pc = "done")
-----------------------------------------------------------------------------
(* The parts of the inductive invariant behind the safety properties.      *)
InCase == pc \in {"gates", "state", "session", "script", "again", "drive"}

(* The entries are those of the cases before cur; what is published is     *)
(* complete, and published with or before the exit code.                   *)
EntriesShape ==
  /\ \A i \in 1..Len(entries) : entries[i].case = i
  /\ pc \notin {"end", "done"} => Len(entries) = cur - 1
  /\ InCase => cur <= N
  /\ results # None => pc = "done" /\ results = entries /\ Len(entries) = N
  /\ exitCode # None => pc = "done"

(* Once a case is given up the run knows it is aborted, and whatever made  *)
(* it give up still holds at every later case.                             *)
AbortShape ==
  (\E i \in 1..Len(entries) : entries[i].why = "aborted") =>
    /\ pc \in {"loop", "end", "done"}
    /\ pc = "loop" => Stops
    /\ pc # "done" => aborted

(* What is not cached has not been run, but for the login script that is   *)
(* running or about to run again.                                          *)
CacheShape ==
  /\ \A s \in States : seeds[s] = "none" => seedRuns[s] = 0
  /\ \A r \in Roles : sessions[r] = "none" =>
       /\ pc = "script" /\ r = Role => scriptRuns[r] = tries + 1
       /\ pc = "again" /\ r = Role => scriptRuns[r] = tries
       /\ pc \notin {"script", "again"} \/ r # Role => scriptRuns[r] = 0
  /\ IF pc \in {"script", "again"}
       THEN Role \in Declared /\ sessions[Role] = "none" /\ (tries # 0 => Role \in Minted)
       ELSE tries = 0

(* The inductive invariant: every step of the run preserves it.            *)
RInv ==
  /\ TypeOK /\ EntriesShape /\ AbortShape /\ CacheShape
  /\ ExitZeroIsComplete /\ AbortedIsTail /\ SeededOnce /\ LoginsBounded
=============================================================================
