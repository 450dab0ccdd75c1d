----------------------------- MODULE QaSession -----------------------------
(***************************************************************************)
(* The session of one role over any number of runs of the QA runner        *)
(* (`obtainSession`): the first case of a run that needs the role runs its *)
(* login script and waits for it, with a time limit that kills the script  *)
(* wherever it stands; a minted role whose recorded expiry is near is      *)
(* minted anew, and one whose fresh session showed no marker is minted     *)
(* once more.  Between runs an operator edits the configuration; while     *)
(* nobody waits for the script the operator may run it at a terminal, and  *)
(* interrupt it.                                                           *)
(***************************************************************************)
EXTENDS QaLogin

CONSTANTS
  Margin,        \* RUN_REMINT_MARGIN_MS
  LoginTimeout,  \* the time limit of runLoginScript
  MaxRetries     \* LOGIN_REMINT_MAX_RETRIES

ASSUME SessionAssumption == Margin \in Nat /\ LoginTimeout \in Nat /\ MaxRetries \in Nat

VARIABLE
  run  \* the answer of this run for the role, and how it got there

vars == <<role, files, script, run>>

\* The answers that are not a halt of the script.
NoSession == {"FAILED_LOGIN_SCRIPT_MISSING", "FAILED_KIT_SCRIPT_STALE",
              "FAILED_LOGIN_UNKNOWN", "FAILED_SESSION_UNREADABLE"}

Run == [pc      : {"none", "waits", "answered"},
        answer  : Halts \cup NoSession \cup {"none", "ok"},
        retries : Nat,
        mints   : Nat]       \* history: mint commands its scripts ran

NoRun == [pc |-> "none", answer |-> "none", retries |-> 0, mints |-> 0]

TypeOK == LoginTypeOK /\ run \in Run

Init == LoginInit /\ run = NoRun

-----------------------------------------------------------------------------
(* readMintExpiry.                                                         *)
RecordedExpiry ==
  IF sidecar # None /\ sidecar.expires # Never THEN sidecar.expires
  ELSE IF token # None THEN token.expires ELSE Never

IsMinted == role.mechanism = "minted"
ForcesMint(margin) == IsMinted /\ Due(RecordedExpiry, margin)

(* obtainSession, when this run has no answer for the role yet.            *)
ObtainsLate ==   \* mutant: the margin is the floor of the script
  /\ run.pc = "none" /\ script.pc = "idle"
  /\ run' = [NoRun EXCEPT !.pc = "waits"]
  /\ script' = Started("runner", ForcesMint(Floor))
  /\ UNCHANGED <<role, files>>

Obtains ==
  /\ run.pc = "none" /\ script.pc = "idle"
  /\ run' = [NoRun EXCEPT !.pc = "waits"]
  /\ script' = Started("runner", ForcesMint(Margin))
  /\ UNCHANGED <<role, files>>

NotRun(code) ==
  /\ run.pc = "none" /\ script.pc = "idle"
  /\ run' = [NoRun EXCEPT !.pc = "answered", !.answer = code]
  /\ UNCHANGED <<role, files, script>>

(* A login script that is not there, or a copy of another template than    *)
(* the installed one (staleKitScript), is not run.                         *)
ScriptMissing == NotRun("FAILED_LOGIN_SCRIPT_MISSING")
KitStale      == NotRun("FAILED_KIT_SCRIPT_STALE")
ObtainsNothing == ScriptMissing \/ KitStale

ScriptStep ==
  /\ LoginNext
  /\ run' = IF run.pc = "waits" /\ script'.pc = "command" THEN [run EXCEPT !.mints = @ + 1] ELSE run

OnlyMintTimesOut ==   \* mutant: only the mint command has a time limit
  /\ run.pc = "waits" /\ script.pc = "command" /\ script.elapsed = LoginTimeout
  /\ Exits("none")
  /\ run' = run

TimesOut ==
  /\ run.pc = "waits" /\ Running /\ script.elapsed = LoginTimeout
  /\ Exits("none")
  /\ run' = run

(* shouldRemintLogin.                                                      *)
Remints ==
  /\ IsMinted
  /\ script.code = "FAILED_PROBE_MARKER_ABSENT"
  /\ run.retries < MaxRetries

RunsAgain ==
  /\ run.pc = "waits" /\ script.pc = "exit" /\ Remints
  /\ script' = Started("runner", TRUE)
  /\ run' = [run EXCEPT !.retries = @ + 1]
  /\ UNCHANGED <<role, files>>

(* The code a halt named on its standard error, if it named one.           *)
HaltCode == IF script.code = "none" THEN "FAILED_LOGIN_UNKNOWN" ELSE script.code

Answered(code) == run' = [run EXCEPT !.pc = "answered", !.answer = code]
TakesAnswer ==
  /\ run.pc = "waits" /\ script.pc = "exit" /\ ~Remints
  /\ Answered(CASE script.code \in Success -> IF session = None THEN "FAILED_SESSION_UNREADABLE" ELSE "ok"
                [] OTHER -> HaltCode)
  /\ script' = Idle
  /\ UNCHANGED <<role, files>>

(* The run is over; the next one knows nothing of its answer.              *)
RunEnds ==
  /\ run.pc = "answered"
  /\ run' = NoRun
  /\ UNCHANGED <<role, files, script>>

-----------------------------------------------------------------------------
Edits ==
  /\ run.pc = "none" /\ script.pc = "idle"
  /\ role' \in Config \ {role}
  /\ UNCHANGED <<files, script, run>>

OperatorLogsIn ==
  /\ run.pc # "waits" /\ script.pc = "idle"
  /\ \E force \in BOOLEAN : script' = Started("operator", force)
  /\ UNCHANGED <<role, files, run>>
OperatorIsDone ==
  /\ script.by = "operator" /\ script.pc = "exit"
  /\ script' = Idle
  /\ UNCHANGED <<role, files, run>>

(* Ctrl-C reaches the script and a runner that waits for it.               *)
Interrupted ==
  /\ Running
  /\ script' = Idle
  /\ run' = IF run.pc = "waits" THEN NoRun ELSE run
  /\ UNCHANGED <<role, files>>

(* No minute passes between the end of a script and the runner that waits. *)
Tick ==
  /\ run.pc = "waits" => Running /\ script.elapsed < LoginTimeout
  /\ MinutePasses
  /\ UNCHANGED run

Next ==
  \/ Obtains \/ ObtainsNothing \/ ScriptStep \/ TimesOut \/ RunsAgain \/ TakesAnswer \/ RunEnds
  \/ Edits \/ OperatorLogsIn \/ OperatorIsDone \/ Interrupted
  \/ Tick

Spec == Init /\ [][Next]_vars

(* Time passes, a time limit kills, and the runner takes up a script that  *)
(* ended.  Nothing is assumed of the script itself.                        *)
FairSpec == Spec /\ WF_vars(Tick) /\ WF_vars(TimesOut) /\ WF_vars(RunsAgain) /\ WF_vars(TakesAnswer)

-----------------------------------------------------------------------------
HandsOver == run.pc = "waits" /\ run'.pc = "answered" /\ run'.answer = "ok"

(* A session is handed to the cases only when a proof of the script run    *)
(* that just ended presented it: for a minted role exactly what the proof  *)
(* of the files as they are now would present, the token included.         *)
HandedWasProven ==
  [][HandsOver => /\ script.proof # None
                  /\ LET p == Presented(session.id, IdIn(token)) IN
                       /\ script.proof.session = p.session
                       /\ role.mechanism = "minted" => script.proof = p]_vars

(* A file takes the place of another only after a proof accepted its own   *)
(* login, in the same script run.                                          *)
SavesOnlyProven ==
  [][\/ files' = files
     \/ MinutePasses
     \/ /\ script.proof # None
        /\ script.proof = Presented(script.login.id, IF script.login.token THEN script.login.id ELSE None)]_vars

(* A mint that reports success left three files of one login, and no token *)
(* of another.                                                             *)
MintSavesTogether ==
  [][script'.pc = "exit" /\ script'.code = "SESSION_MINTED" /\ script.pc # "exit"
       => IdIn(session') = IdIn(sidecar') /\ IdIn(token') \in {None, IdIn(session')}]_vars

(* A minted session is handed over with at least the margin left of the    *)
(* expiry on record, less the time the script may take, unless this very   *)
(* run minted it.                                                          *)
RunwayAtHandOver ==
  [][HandsOver /\ role.mechanism = "minted" /\ run.mints = 0
       => ~Due(RecordedExpiry, Margin - LoginTimeout)]_vars

(* A run mints at most once more than it retries, and retries only after a *)
(* mint: the halt it retries on is never that of a reused session.         *)
MintsBounded == run.mints <= 1 + run.retries /\ run.retries <= run.mints /\ run.retries <= MaxRetries

(* The invariant these rest on.  What a login gave is known from its proof *)
(* on, and the files carry its id as they are saved.                       *)
HoldsLogin == script.pc \in {"prove", "session", "token", "sidecar"}
FreshProof == Presented(script.login.id, IF script.login.token THEN script.login.id ELSE None)
Accepts(proof, s, t) ==
  /\ proof # None
  /\ proof.session = Presented(s, t).session
  /\ role.mechanism = "minted" => proof = Presented(s, t)

ScriptInv ==
  /\ HoldsLogin <=> script.login # None
  /\ script.pc \in {"session", "token", "sidecar"} => script.proof = FreshProof
  /\ script.pc \in {"token", "sidecar"} => IdIn(session) = script.login.id
  /\ script.pc = "sidecar" =>
       /\ role.mechanism = "minted"
       /\ IdIn(token) = IF script.login.token THEN script.login.id ELSE None
  /\ script.pc = "reprove" => session # None /\ ~script.force
  /\ script.pc = "command" => role.mechanism = "minted"
  /\ script.pc \in {"reuse", "reprove", "login"} => ~script.minted
  /\ script.pc = "exit" /\ script.code \in Success =>
       session # None /\ Accepts(script.proof, session.id, IdIn(token))

(* A minted role whose script has not come to the mint command was either  *)
(* forced or had the margin, less the time since.                          *)
RunInv ==
  /\ run.pc = "waits" <=> script.pc # "idle" /\ script.by = "runner"
  /\ run.pc = "waits" =>
       /\ script.elapsed <= LoginTimeout
       /\ script.minted => run.mints = run.retries + 1
       /\ ~script.minted => run.mints = run.retries
       /\ run.retries <= MaxRetries
       /\ role.mechanism = "minted" /\ run.mints = 0 =>
            /\ ~HoldsLogin /\ script.pc # "command"
            /\ script.force \/ ~Due(RecordedExpiry, Margin - script.elapsed)
            /\ script.pc = "exit" /\ script.code \in Success => ~script.force
  /\ role.mechanism = "minted" =>
       /\ HoldsLogin \/ script.pc = "command" => script.minted
       /\ script.pc = "exit" /\ script.code = "FAILED_PROBE_MARKER_ABSENT" => script.minted

IInv == TypeOK /\ ScriptInv /\ RunInv /\ MintsBounded

(* Whatever the script does, the run gets its answer or is interrupted.    *)
EveryCallIsAnswered == (run.pc = "waits") ~> (run.pc # "waits")

=============================================================================
