-------------------------- MODULE QaSession_proofs --------------------------
(***************************************************************************)
(* The safety properties of QaSession, for every margin, time limit and    *)
(* number of retries, every set of lifetimes, and every configuration an   *)
(* operator may write.                                                     *)
(***************************************************************************)
EXTENDS QaSession, TLAPS

(* What the proofs use of the codes: a halt is neither a success nor what  *)
(* the runner adds of its own.                                             *)
LEMMA CodeFacts ==
  /\ "none" \in Codes /\ "none" \notin Success /\ "none" \notin Halts
  /\ "ok" \notin Halts \cup NoSession
  /\ \A code \in Halts : code \in Codes /\ code \notin Success
  /\ {"SESSION_REUSED", "SESSION_MINTED", "SESSION_CREATED"} = Success
  /\ Success \subseteq Codes
  /\ \A code \in Codes : code \notin Success /\ code # "none" => code \in Halts
BY DEF Codes, Halts, Success, NoSession

(* What a script may exit with is a code, and no success.                  *)
LEMMA HaltCodes ==
  /\ "FAILED_LOGIN_CONFIG_INCOMPLETE" \in Halts /\ "FAILED_NON_LOCAL_TARGET" \in Halts
  /\ "FAILED_MINT_COMMAND_MISSING" \in Halts /\ "FAILED_MINT_UNCONFIRMED" \in Halts
  /\ "FAILED_MINT_COMMAND" \in Halts /\ "FAILED_MINT_OUTPUT" \in Halts
  /\ "FAILED_CREDENTIALS_UNAVAILABLE" \in Halts /\ "FAILED_PLAYWRIGHT_UNAVAILABLE" \in Halts
  /\ "FAILED_TOKEN_UNPROVEN" \in Halts /\ "FAILED_TOKEN_PLACEMENT" \in Halts
  /\ "FAILED_INTERACTIVE_LOGIN_REQUIRED" \in Halts /\ "FAILED_LOGIN_REJECTED" \in Halts
  /\ "FAILED_PROBE_MARKER_ABSENT" \in Halts
  /\ \A answer \in Hopeless : ProbeHalt(answer) \in Halts /\ ProbeHalt(answer) # "FAILED_PROBE_MARKER_ABSENT"
BY DEF Halts, Hopeless, ProbeHalt

(* The types of a time, and what a minute does to it.                      *)
LEMMA MinuteTime ==
  ASSUME NEW t \in Time
  PROVE  Minute(t) \in Time /\ (t \in Nat => Minute(t) \in Nat)
BY LoginAssumption DEF Time, Minute

(* What is not due within a margin is not due within one less, a minute on. *)
LEMMA MinuteDue ==
  ASSUME NEW t \in Time, NEW m \in Int, ~Due(t, m)
  PROVE  ~Due(Minute(t), m - 1)
BY LoginAssumption DEF Time, Minute, Due

(* The script ends with a halt, or is cut short without one.               *)
LEMMA HaltKeeps ==
  ASSUME IInv, Running, UNCHANGED run, NEW code \in Halts \cup {"none"}, Exits(code),
         code = "FAILED_PROBE_MARKER_ABSENT" => script.pc = "prove"
  PROVE  IInv'
<1>1. code \in Codes /\ code \notin Success
  BY CodeFacts
<1>2. TypeOK'
  BY <1>1 DEF IInv, TypeOK, LoginTypeOK, Script, Exits, files
<1>3. /\ script'.pc = "exit" /\ script'.code = code /\ script'.login = None
      /\ script'.by = script.by /\ script'.force = script.force /\ script'.minted = script.minted
      /\ script'.elapsed = script.elapsed
      /\ UNCHANGED <<role, session, token, sidecar>>
  BY DEF IInv, TypeOK, LoginTypeOK, Script, Exits, files
<1>4. ScriptInv'
  BY <1>1, <1>3 DEF ScriptInv, HoldsLogin
<1>5. RecordedExpiry' = RecordedExpiry
  BY <1>3 DEF RecordedExpiry
<1>6. RunInv'
  BY <1>1, <1>3, <1>5 DEF IInv, RunInv, HoldsLogin, Running, Due
<1>7. MintsBounded'
  BY DEF IInv, MintsBounded
<1> QED
  BY <1>2, <1>4, <1>6, <1>7 DEF IInv

(* The script turns to the proof of the saved files, or to the login.      *)
LEMMA MovesKeep ==
  ASSUME IInv, script.pc \in {"reuse", "reprove"}, UNCHANGED run, NEW pc \in {"reprove", "login"}, GoesTo(pc),
         pc = "reprove" => session # None /\ ~script.force
  PROVE  IInv'
<1>1. TypeOK'
  BY DEF IInv, TypeOK, LoginTypeOK, Script, GoesTo, files
<1>2. /\ script'.pc = pc /\ script'.login = script.login
      /\ script'.by = script.by /\ script'.force = script.force /\ script'.minted = script.minted
      /\ script'.elapsed = script.elapsed
      /\ UNCHANGED <<role, session, token, sidecar>>
  BY DEF IInv, TypeOK, LoginTypeOK, Script, GoesTo, files
<1>3. ScriptInv'
  BY <1>2 DEF IInv, ScriptInv, HoldsLogin
<1>4. RecordedExpiry' = RecordedExpiry
  BY <1>2 DEF RecordedExpiry
<1>5. RunInv'
  BY <1>2, <1>4 DEF IInv, RunInv, HoldsLogin, Due
<1>6. MintsBounded'
  BY DEF IInv, MintsBounded
<1> QED
  BY <1>1, <1>3, <1>5, <1>6 DEF IInv

(* The proof of the saved files accepts them.                              *)
LEMMA ReusesKeeps ==
  ASSUME IInv, Reuses, UNCHANGED run
  PROVE  IInv'
<1> DEFINE proof == Presented(session.id, IdIn(token))
<1>1. session # None /\ ~script.force /\ script.pc = "reprove" /\ script.login = None
  BY DEF IInv, ScriptInv, Reuses, HoldsLogin
<1>2. proof \in Proof /\ proof # None
  <2>1. session.id \in Id /\ IdIn(token) \in Id \cup {None}
    BY <1>1 DEF IInv, TypeOK, LoginTypeOK, Session, Token, IdIn
  <2>2. proof \in Proof
    BY <2>1 DEF Proof, Presented
  <2> QED
    BY <2>2, NoneIsNoRecord DEF Proof
<1>3. "SESSION_REUSED" \in Codes /\ "SESSION_REUSED" # "FAILED_PROBE_MARKER_ABSENT"
  BY CodeFacts
<1>4. TypeOK'
  <2> HIDE DEF proof
  <2>1. script' = [script EXCEPT !.pc = "exit", !.code = "SESSION_REUSED", !.proof = proof]
    BY DEF Reuses, proof
  <2> QED
    BY <1>2, <1>3, <2>1 DEF IInv, TypeOK, LoginTypeOK, Script, Reuses, files
<1>5. /\ script'.pc = "exit" /\ script'.code = "SESSION_REUSED" /\ script'.login = script.login
      /\ script'.by = script.by /\ script'.force = script.force /\ script'.minted = script.minted
      /\ script'.elapsed = script.elapsed /\ script'.proof = proof
      /\ UNCHANGED <<role, session, token, sidecar>>
  BY DEF IInv, TypeOK, LoginTypeOK, Script, Reuses, files
<1>6. ScriptInv'
  BY <1>1, <1>2, <1>5 DEF ScriptInv, HoldsLogin, Accepts, Presented, IdIn
<1>7. RecordedExpiry' = RecordedExpiry
  BY <1>5 DEF RecordedExpiry
<1>8. RunInv'
  BY <1>1, <1>3, <1>5, <1>7 DEF IInv, RunInv, HoldsLogin, Due
<1>9. MintsBounded'
  BY DEF IInv, MintsBounded
<1> QED
  BY <1>4, <1>6, <1>8, <1>9 DEF IInv

(* The script runs the mint command of its role.                           *)
LEMMA RunsMintKeeps ==
  ASSUME IInv, RunsMint, run' = IF run.pc = "waits" THEN [run EXCEPT !.mints = @ + 1] ELSE run
  PROVE  IInv'
<1>1. /\ script'.pc = "command" /\ script'.login = script.login /\ script'.minted = TRUE
      /\ script'.by = script.by /\ script'.force = script.force /\ script'.elapsed = script.elapsed
      /\ UNCHANGED <<role, session, token, sidecar>>
  BY DEF IInv, TypeOK, LoginTypeOK, Script, RunsMint, files
<1>2. /\ run'.pc = run.pc /\ run'.retries = run.retries
      /\ run'.mints = IF run.pc = "waits" THEN run.mints + 1 ELSE run.mints
  BY DEF IInv, TypeOK, Run
<1>3. run.mints \in Nat /\ run.retries \in Nat
  BY DEF IInv, TypeOK, Run
<1>4. TypeOK'
  <2>1. script' \in Script
    BY DEF IInv, TypeOK, LoginTypeOK, Script, RunsMint
  <2>2. run' \in Run
    <3>1. run \in Run /\ run.mints + 1 \in Nat
      BY <1>3 DEF IInv, TypeOK
    <3>2. [run EXCEPT !.mints = run.mints + 1] \in Run
      BY <3>1 DEF Run
    <3> QED
      BY <3>1, <3>2
  <2> QED
    BY <1>1, <2>1, <2>2 DEF IInv, TypeOK, LoginTypeOK
<1>5. ScriptInv'
  BY <1>1 DEF IInv, ScriptInv, HoldsLogin, RunsMint
<1>6. run.pc = "waits" => run.mints = run.retries /\ run.retries <= MaxRetries
  BY DEF IInv, RunInv, ScriptInv, RunsMint
<1>7. RunInv'
  <2>1. run'.pc = "waits" => run'.mints # 0 /\ run'.mints = run'.retries + 1
    BY <1>2, <1>3, <1>6
  <2> QED
    BY <1>1, <1>2, <2>1 DEF IInv, RunInv, HoldsLogin, RunsMint
<1>8. MintsBounded'
  BY <1>2, <1>3, <1>6 DEF IInv, MintsBounded
<1> QED
  BY <1>4, <1>5, <1>7, <1>8 DEF IInv

(* A login, or a mint command, gave a session.                             *)
LEMMA GetsKeeps ==
  ASSUME IInv, script.pc \in {"login", "command"}, UNCHANGED run,
         role.mechanism = "minted" => script.pc = "command",
         NEW hasToken \in BOOLEAN, NEW expires \in Time, NEW exp \in Time, Gets(hasToken, expires, exp)
  PROVE  IInv'
<1> PICK id \in Id \ InUse :
      script' = [script EXCEPT !.pc = "prove",
                               !.login = [id |-> id, token |-> hasToken, expires |-> expires, exp |-> exp]]
  BY DEF Gets
<1> DEFINE login == [id |-> id, token |-> hasToken, expires |-> expires, exp |-> exp]
<1>1. login \in Login /\ login # None
  <2>1. login \in Login
    BY DEF Login
  <2> QED
    BY <2>1, NoneIsNoRecord
<1> HIDE DEF login
<1>2. /\ script'.pc = "prove" /\ script'.login = login
      /\ script'.by = script.by /\ script'.force = script.force /\ script'.minted = script.minted
      /\ script'.elapsed = script.elapsed
      /\ UNCHANGED <<role, session, token, sidecar>>
  BY DEF IInv, TypeOK, LoginTypeOK, Script, Gets, files, login
<1>3. TypeOK'
  <2>1. script' = [script EXCEPT !.pc = "prove", !.login = login]
    BY DEF login
  <2> QED
    BY <1>1, <1>2, <2>1 DEF IInv, TypeOK, LoginTypeOK, Script
<1>4. ScriptInv'
  BY <1>1, <1>2 DEF ScriptInv, HoldsLogin
<1>5. RunInv'
  BY <1>2 DEF IInv, RunInv, HoldsLogin
<1>6. MintsBounded'
  BY DEF IInv, MintsBounded
<1> QED
  BY <1>3, <1>4, <1>5, <1>6 DEF IInv

(* The proof of what the login gave accepts it.                            *)
LEMMA ProvesKeeps ==
  ASSUME IInv, Proves, UNCHANGED run
  PROVE  IInv'
<1> DEFINE proof == Presented(script.login.id, IF script.login.token THEN script.login.id ELSE None)
<1>1. script.login # None /\ script.login \in Login
  BY DEF IInv, ScriptInv, HoldsLogin, Proves, TypeOK, LoginTypeOK, Script
<1>2. proof \in Proof
  <2>1. script.login.id \in Id
    BY <1>1 DEF Login
  <2> QED
    BY <2>1 DEF Proof, Presented
<1> HIDE DEF proof
<1>3. script' = [script EXCEPT !.pc = "session", !.proof = proof]
  BY DEF Proves, proof
<1>4. /\ script'.pc = "session" /\ script'.login = script.login /\ script'.proof = proof
      /\ script'.by = script.by /\ script'.force = script.force /\ script'.minted = script.minted
      /\ script'.elapsed = script.elapsed
      /\ UNCHANGED <<role, session, token, sidecar>>
  BY <1>3 DEF IInv, TypeOK, LoginTypeOK, Script, Proves, files
<1>5. TypeOK'
  BY <1>2, <1>3, <1>4 DEF IInv, TypeOK, LoginTypeOK, Script
<1>6. ScriptInv'
  <2>1. proof = FreshProof'
    BY <1>4 DEF FreshProof, Presented, proof
  <2> QED
    BY <1>1, <1>4, <2>1 DEF ScriptInv, HoldsLogin
<1>7. RunInv'
  BY <1>4 DEF IInv, RunInv, HoldsLogin, Proves
<1>8. MintsBounded'
  BY DEF IInv, MintsBounded
<1> QED
  BY <1>5, <1>6, <1>7, <1>8 DEF IInv

(* The three files are saved, one after the other.                         *)
LEMMA SavesSessionKeeps ==
  ASSUME IInv, SavesSession, UNCHANGED run
  PROVE  IInv'
<1>1. script.login # None /\ script.login \in Login /\ script.login.id \in Id
  BY DEF IInv, ScriptInv, HoldsLogin, SavesSession, TypeOK, LoginTypeOK, Script, Login
<1>2. /\ script'.pc = "token" /\ script'.login = script.login /\ script'.proof = script.proof
      /\ script'.by = script.by /\ script'.force = script.force /\ script'.minted = script.minted
      /\ script'.elapsed = script.elapsed
      /\ UNCHANGED <<role, token, sidecar>>
  BY DEF IInv, TypeOK, LoginTypeOK, Script, SavesSession
<1>3. session' \in Session /\ session' # None /\ session'.id = script.login.id
  <2>1. session' \in Session /\ session'.id = script.login.id
    BY <1>1, LoginAssumption DEF SavesSession, Session
  <2> QED
    BY <2>1, NoneIsNoRecord
<1>4. TypeOK'
  BY <1>2, <1>3 DEF IInv, TypeOK, LoginTypeOK, Script, SavesSession
<1>5. ScriptInv'
  BY <1>1, <1>2, <1>3 DEF IInv, ScriptInv, HoldsLogin, SavesSession, FreshProof, Presented, IdIn
<1>6. RunInv'
  BY <1>2 DEF IInv, RunInv, HoldsLogin, SavesSession
<1>7. MintsBounded'
  BY DEF IInv, MintsBounded
<1> QED
  BY <1>4, <1>5, <1>6, <1>7 DEF IInv

(* The token is saved, or that of a mint without one removed.              *)
LEMMA SavesTokenKeeps ==
  ASSUME IInv, SavesToken, UNCHANGED run
  PROVE  IInv'
<1>1. script.login # None /\ script.login \in Login /\ script.proof = FreshProof /\ IdIn(session) = script.login.id
  BY DEF IInv, ScriptInv, HoldsLogin, SavesToken, TypeOK, LoginTypeOK, Script
<1>2. script.login.id \in Id /\ script.login.expires \in Time /\ script.login.exp \in Time /\ script.login.id # None
  BY <1>1, LoginAssumption DEF Login
<1>3. session # None /\ session.id = script.login.id
  BY <1>1, <1>2 DEF IdIn
<1>4. /\ script'.by = script.by /\ script'.force = script.force /\ script'.minted = script.minted
      /\ script'.elapsed = script.elapsed /\ script'.proof = script.proof
      /\ UNCHANGED <<role, session, sidecar>>
  BY DEF IInv, TypeOK, LoginTypeOK, Script, SavesToken
<1>5. script.login.token => token' # None /\ token'.id = script.login.id /\ token' \in Token
  <2> SUFFICES ASSUME script.login.token PROVE token' # None /\ token'.id = script.login.id /\ token' \in Token
    OBVIOUS
  <2> DEFINE expires == IF script.login.expires # Never THEN script.login.expires
                        ELSE IF script.login.exp # Never THEN script.login.exp ELSE MaxAge
  <2>1. expires \in Time
    BY <1>2, LoginAssumption DEF Time
  <2>2. token' = [id |-> script.login.id, expires |-> expires, exp |-> script.login.exp]
    BY DEF SavesToken
  <2> HIDE DEF expires
  <2>3. token' \in Token /\ token'.id = script.login.id
    BY <1>2, <2>1, <2>2 DEF Token
  <2> QED
    BY <2>3, NoneIsNoRecord
<1>6. ~script.login.token => token' = IF role.mechanism = "minted" THEN None ELSE token
  BY DEF SavesToken
<1>7. CASE role.mechanism = "minted"
  <2>1. script' = [script EXCEPT !.pc = "sidecar"]
    BY <1>7 DEF SavesToken
  <2>2. script'.pc = "sidecar" /\ script'.login = script.login
    BY <2>1 DEF IInv, TypeOK, LoginTypeOK, Script
  <2>3. TypeOK'
    BY <1>4, <1>5, <1>6, <1>7, <2>1 DEF IInv, TypeOK, LoginTypeOK, Script
  <2>4. IdIn(token)' = IF script.login.token THEN script.login.id ELSE None
    BY <1>5, <1>6, <1>7 DEF IdIn
  <2>5. ScriptInv'
    BY <1>1, <1>4, <1>7, <2>2, <2>4 DEF ScriptInv, HoldsLogin, FreshProof, Presented, IdIn
  <2>6. RunInv'
    BY <1>4, <1>7, <2>2 DEF IInv, RunInv, HoldsLogin, SavesToken
  <2>7. MintsBounded'
    BY DEF IInv, MintsBounded
  <2> QED
    BY <2>3, <2>5, <2>6, <2>7 DEF IInv
<1>8. CASE role.mechanism # "minted"
  <2>1. script' = [script EXCEPT !.pc = "exit", !.code = "SESSION_CREATED", !.login = None]
    BY <1>8 DEF SavesToken
  <2>2. script'.pc = "exit" /\ script'.login = None
    BY <2>1 DEF IInv, TypeOK, LoginTypeOK, Script
  <2>3. script' \in Script
    BY <2>1, CodeFacts DEF IInv, TypeOK, LoginTypeOK, Script
  <2>4. TypeOK'
    BY <1>4, <1>5, <1>6, <1>8, <2>3 DEF IInv, TypeOK, LoginTypeOK
  <2>5. ScriptInv'
    <3>1. script.proof # None /\ script.proof.session = Presented(session.id, IdIn(token')).session
      <4>1. script.proof # None
        BY <1>1, <1>2, NoneIsNoRecord DEF FreshProof, Presented, Proof
      <4> QED
        BY <1>1, <1>3, <4>1 DEF FreshProof, Presented
    <3> QED
      BY <1>3, <1>4, <1>8, <2>2, <3>1 DEF ScriptInv, HoldsLogin, Accepts, Presented, IdIn
  <2>6. RunInv'
    BY <1>4, <1>8, <2>2 DEF IInv, RunInv, HoldsLogin, SavesToken
  <2>7. MintsBounded'
    BY DEF IInv, MintsBounded
  <2> QED
    BY <2>4, <2>5, <2>6, <2>7 DEF IInv
<1> QED
  BY <1>7, <1>8

(* The sidecar of a mint is saved, and the mint reported.                  *)
LEMMA SavesSidecarKeeps ==
  ASSUME IInv, SavesSidecar, UNCHANGED run
  PROVE  IInv'
<1>1. /\ script.login # None /\ script.login \in Login /\ script.proof = FreshProof
      /\ IdIn(session) = script.login.id /\ role.mechanism = "minted"
      /\ IdIn(token) = IF script.login.token THEN script.login.id ELSE None
  BY DEF IInv, ScriptInv, HoldsLogin, SavesSidecar, TypeOK, LoginTypeOK, Script
<1>2. script.login.id \in Id /\ script.login.expires \in Time /\ script.login.exp \in Time /\ script.login.id # None
  BY <1>1, LoginAssumption DEF Login
<1>3. session # None /\ session.id = script.login.id
  BY <1>1, <1>2 DEF IdIn
<1>4. script' = [script EXCEPT !.pc = "exit", !.code = "SESSION_MINTED", !.login = None]
  BY DEF SavesSidecar
<1>5. /\ script'.pc = "exit" /\ script'.login = None /\ script'.proof = script.proof
      /\ script'.by = script.by /\ script'.minted = script.minted /\ script'.elapsed = script.elapsed
      /\ UNCHANGED <<role, session, token>>
  BY <1>4 DEF IInv, TypeOK, LoginTypeOK, Script, SavesSidecar
<1>6. sidecar' \in Sidecar
  BY <1>2 DEF SavesSidecar, Sidecar
<1>7. TypeOK'
  <2>1. script' \in Script
    BY <1>4, CodeFacts DEF IInv, TypeOK, LoginTypeOK, Script
  <2> QED
    BY <1>5, <1>6, <2>1 DEF IInv, TypeOK, LoginTypeOK
<1>8. ScriptInv'
  <2>1. script.proof = Presented(session.id, IdIn(token)) /\ script.proof # None
    BY <1>1, <1>2, <1>3, NoneIsNoRecord DEF FreshProof, Presented, Proof
  <2> QED
    BY <1>3, <1>5, <2>1 DEF ScriptInv, HoldsLogin, Accepts, Presented, IdIn
<1>9. RunInv'
  <2>1. script.minted /\ (run.pc = "waits" => run.mints # 0)
    BY <1>1 DEF IInv, RunInv, HoldsLogin, SavesSidecar
  <2> QED
    BY <1>5, <2>1 DEF IInv, RunInv, HoldsLogin, SavesSidecar
<1>10. MintsBounded'
  BY DEF IInv, MintsBounded
<1> QED
  BY <1>7, <1>8, <1>9, <1>10 DEF IInv

(* What a script is when it starts, and when there is none.                *)
LEMMA StartedIs ==
  ASSUME NEW by \in {"runner", "operator"}, NEW force \in BOOLEAN
  PROVE  /\ Started(by, force) \in Script
         /\ Started(by, force).pc = "reuse" /\ Started(by, force).by = by
         /\ Started(by, force).force = force /\ Started(by, force).login = None
         /\ Started(by, force).minted = FALSE /\ Started(by, force).elapsed = 0
BY CodeFacts DEF Started, Idle, Script

(* The script that does not run.                                           *)
LEMMA IdleIs ==
  Idle \in Script /\ Idle.pc = "idle" /\ Idle.login = None /\ Idle.by = "operator" /\ Idle.minted = FALSE
BY CodeFacts DEF Idle, Script

(* The run that has not asked for a session.                               *)
LEMMA NoRunIs == NoRun \in Run /\ NoRun.pc = "none" /\ NoRun.mints = 0 /\ NoRun.retries = 0
BY DEF NoRun, Run

(* The runner starts the script of a role.                                 *)
LEMMA ObtainsKeeps ==
  ASSUME IInv, Obtains
  PROVE  IInv'
<1> DEFINE force == role.mechanism = "minted" /\ Due(RecordedExpiry, Margin)
<1>1. /\ script' = Started("runner", force) /\ run' = [NoRun EXCEPT !.pc = "waits"]
      /\ UNCHANGED <<role, session, token, sidecar>> /\ force \in BOOLEAN
  BY DEF Obtains, ForcesMint, IsMinted, files
<1>2. run'.pc = "waits" /\ run'.mints = 0 /\ run'.retries = 0 /\ run' \in Run
  BY <1>1 DEF NoRun, Run
<1>3. script' \in Script /\ script'.pc = "reuse" /\ script'.by = "runner" /\ script'.force = force
      /\ script'.login = None /\ script'.minted = FALSE /\ script'.elapsed = 0
  <2> HIDE DEF force
  <2> QED
    BY <1>1, StartedIs
<1>4. TypeOK'
  BY <1>1, <1>2, <1>3 DEF IInv, TypeOK, LoginTypeOK
<1>5. ScriptInv'
  BY <1>3 DEF ScriptInv, HoldsLogin
<1>6. RunInv'
  <2>1. role.mechanism = "minted" => script'.force \/ ~Due(RecordedExpiry', Margin - script'.elapsed)
    <3>1. RecordedExpiry' = RecordedExpiry
      BY <1>1 DEF RecordedExpiry
    <3>2. Margin - script'.elapsed = Margin
      BY <1>3, SessionAssumption
    <3> QED
      BY <1>3, <3>1, <3>2
  <2> QED
    BY <1>1, <1>2, <1>3, <2>1, SessionAssumption DEF RunInv, HoldsLogin
<1>7. MintsBounded'
  BY <1>2, SessionAssumption DEF MintsBounded
<1> QED
  BY <1>4, <1>5, <1>6, <1>7 DEF IInv

(* The runner mints anew after a fresh session without a marker.           *)
LEMMA RunsAgainKeeps ==
  ASSUME IInv, RunsAgain
  PROVE  IInv'
<1>1. /\ script' = Started("runner", TRUE) /\ run' = [run EXCEPT !.retries = @ + 1]
      /\ UNCHANGED <<role, session, token, sidecar>>
  BY DEF RunsAgain, files
<1>2. /\ run \in Run /\ run.retries \in Nat /\ run.mints \in Nat /\ run.retries < MaxRetries
      /\ run.mints = run.retries + 1
  <2>1. run \in Run /\ run.retries \in Nat /\ run.mints \in Nat
    BY DEF IInv, TypeOK, Run
  <2>2. script.minted
    BY DEF IInv, RunInv, RunsAgain, Remints, IsMinted
  <2> QED
    BY <2>1, <2>2 DEF IInv, RunInv, RunsAgain, Remints, IsMinted
<1>3. run' \in Run /\ run'.pc = "waits" /\ run'.mints = run.mints /\ run'.retries = run.retries + 1
  <2>1. run.retries + 1 \in Nat
    BY <1>2
  <2> QED
    BY <1>1, <1>2, <2>1 DEF Run, RunsAgain
<1>4. script' \in Script /\ script'.pc = "reuse" /\ script'.by = "runner" /\ script'.force = TRUE
      /\ script'.login = None /\ script'.minted = FALSE /\ script'.elapsed = 0
  BY <1>1, StartedIs
<1>5. TypeOK'
  BY <1>1, <1>3, <1>4 DEF IInv, TypeOK, LoginTypeOK
<1>6. ScriptInv'
  BY <1>4 DEF ScriptInv, HoldsLogin
<1>7. RunInv'
  <2>1. run'.retries <= MaxRetries /\ run'.mints = run'.retries /\ run'.mints # 0 /\ script'.elapsed <= LoginTimeout
    BY <1>2, <1>3, <1>4, SessionAssumption
  <2> QED
    BY <1>3, <1>4, <2>1 DEF RunInv, HoldsLogin
<1>8. MintsBounded'
  BY <1>2, <1>3, SessionAssumption DEF MintsBounded
<1> QED
  BY <1>5, <1>6, <1>7, <1>8 DEF IInv

(* The time limit.                                                         *)
LEMMA TimesOutKeeps ==
  ASSUME IInv, TimesOut
  PROVE  IInv'
<1>1. /\ script' = [script EXCEPT !.pc = "exit", !.code = "none", !.login = None]
      /\ run' = run
      /\ UNCHANGED <<role, session, token, sidecar>>
  BY DEF TimesOut, Exits, files
<1>2. /\ script' \in Script /\ script'.pc = "exit" /\ script'.code = "none" /\ script'.login = None
      /\ script'.by = script.by /\ script'.force = script.force /\ script'.minted = script.minted
      /\ script'.elapsed = script.elapsed
  BY <1>1, CodeFacts DEF IInv, TypeOK, LoginTypeOK, Script
<1>3. run' \in Run /\ run'.pc = run.pc /\ run'.mints = run.mints /\ run'.retries = run.retries
  <2>1. (script.pc = "command") \in BOOLEAN
    OBVIOUS
  <2> QED
    BY <1>1, <2>1 DEF IInv, TypeOK, Run
<1>4. TypeOK'
  BY <1>1, <1>2, <1>3 DEF IInv, TypeOK, LoginTypeOK
<1>5. ScriptInv'
  BY <1>2, CodeFacts DEF ScriptInv, HoldsLogin
<1>6. RunInv'
  <2>1. RecordedExpiry' = RecordedExpiry
    BY <1>1 DEF RecordedExpiry
  <2> QED
    BY <1>1, <1>2, <1>3, <2>1, CodeFacts DEF IInv, RunInv, HoldsLogin, Due, TimesOut
<1>7. MintsBounded'
  BY <1>3 DEF IInv, MintsBounded
<1> QED
  BY <1>4, <1>5, <1>6, <1>7 DEF IInv

(* Nothing runs after this step, and the run does not wait.                *)
LEMMA IdleKeeps ==
  ASSUME IInv, script' = Idle, UNCHANGED <<role, session, token, sidecar>>,
         run' \in Run, run'.pc # "waits", (run'.mints = run.mints /\ run'.retries = run.retries) \/ run' = NoRun
  PROVE  IInv'
<1>1. TypeOK'
  BY IdleIs DEF IInv, TypeOK, LoginTypeOK
<1>2. ScriptInv'
  BY IdleIs DEF ScriptInv, HoldsLogin
<1>3. RunInv'
  BY IdleIs DEF RunInv, HoldsLogin
<1>4. MintsBounded'
  BY NoRunIs, SessionAssumption DEF IInv, MintsBounded
<1> QED
  BY <1>1, <1>2, <1>3, <1>4 DEF IInv

(* The script is as it was and the run goes on without waiting.            *)
LEMMA ScriptStays ==
  ASSUME IInv, UNCHANGED <<role, script, session, token, sidecar>>, run.pc # "waits",
         run' \in Run, run'.pc # "waits", run'.mints = 0 /\ run'.retries = 0
  PROVE  IInv'
<1>1. TypeOK'
  BY DEF IInv, TypeOK, LoginTypeOK
<1>2. ScriptInv'
  BY DEF IInv, ScriptInv, HoldsLogin, FreshProof, Presented, Accepts
<1>3. RunInv'
  BY DEF IInv, RunInv, HoldsLogin
<1>4. MintsBounded'
  BY NoRunIs, SessionAssumption DEF IInv, MintsBounded
<1> QED
  BY <1>1, <1>2, <1>3, <1>4 DEF IInv

(* A minute passes.                                                        *)
LEMMA TickKeeps ==
  ASSUME IInv, Tick
  PROVE  IInv'
<1>1. /\ session' \in Session \cup {None} /\ (session = None <=> session' = None) /\ IdIn(session') = IdIn(session)
      /\ session # None => session'.id = session.id
  <2>1. CASE session = None
    BY <2>1 DEF Tick, MinutePasses, IdIn
  <2>2. CASE session # None
    <3>1. session \in Session /\ session' = [session EXCEPT !.left = Minute(session.left)]
      BY <2>2 DEF Tick, MinutePasses, IInv, TypeOK, LoginTypeOK
    <3>2. Minute(session.left) \in Nat
      BY <3>1, MinuteTime DEF Session, Time
    <3>3. session' \in Session /\ session'.id = session.id
      BY <3>1, <3>2 DEF Session
    <3> QED
      BY <2>2, <3>3, NoneIsNoRecord DEF IdIn
  <2> QED
    BY <2>1, <2>2
<1>2. /\ token' \in Token \cup {None} /\ (token = None <=> token' = None) /\ IdIn(token') = IdIn(token)
      /\ token # None => token.expires \in Time /\ token'.expires = Minute(token.expires)
  <2>1. CASE token = None
    BY <2>1 DEF Tick, MinutePasses, IdIn
  <2>2. CASE token # None
    <3>1. token \in Token /\ token' = [token EXCEPT !.expires = Minute(token.expires), !.exp = Minute(token.exp)]
      BY <2>2 DEF Tick, MinutePasses, IInv, TypeOK, LoginTypeOK
    <3>2. token.expires \in Time /\ token.exp \in Time
      BY <3>1 DEF Token
    <3>3. Minute(token.expires) \in Time /\ Minute(token.exp) \in Time
      BY <3>2, MinuteTime
    <3>4. token' \in Token /\ token'.id = token.id /\ token'.expires = Minute(token.expires)
      BY <3>1, <3>3 DEF Token
    <3> QED
      BY <2>2, <3>2, <3>4, NoneIsNoRecord DEF IdIn
  <2> QED
    BY <2>1, <2>2
<1>3. /\ sidecar' \in Sidecar \cup {None} /\ (sidecar = None <=> sidecar' = None)
      /\ sidecar # None => sidecar.expires \in Time /\ sidecar'.expires = Minute(sidecar.expires)
  <2>1. CASE sidecar = None
    BY <2>1 DEF Tick, MinutePasses
  <2>2. CASE sidecar # None
    <3>1. sidecar \in Sidecar /\ sidecar' = [sidecar EXCEPT !.expires = Minute(sidecar.expires)]
      BY <2>2 DEF Tick, MinutePasses, IInv, TypeOK, LoginTypeOK
    <3>2. sidecar.expires \in Time
      BY <3>1 DEF Sidecar
    <3>3. Minute(sidecar.expires) \in Time
      BY <3>2, MinuteTime
    <3>4. sidecar' \in Sidecar /\ sidecar'.expires = Minute(sidecar.expires)
      BY <3>1, <3>3 DEF Sidecar
    <3> QED
      BY <2>2, <3>2, <3>4, NoneIsNoRecord
  <2> QED
    BY <2>1, <2>2
<1> DEFINE login == IF script.login = None THEN None
                    ELSE [script.login EXCEPT !.expires = Minute(@), !.exp = Minute(@)]
           elapsed == IF Running /\ script.by = "runner" THEN script.elapsed + 1 ELSE script.elapsed
           minting == IF script.pc = "command" THEN script.minting + 1 ELSE script.minting
<1>4. /\ login \in Login \cup {None} /\ (script.login = None <=> login = None)
      /\ script.login # None => login.id = script.login.id /\ login.token = script.login.token
  <2>1. CASE script.login = None
    BY <2>1
  <2>2. CASE script.login # None
    <3>1. script.login \in Login
      BY <2>2 DEF IInv, TypeOK, LoginTypeOK, Script
    <3>2. script.login.expires \in Time /\ script.login.exp \in Time
      BY <3>1 DEF Login
    <3>3. Minute(script.login.expires) \in Time /\ Minute(script.login.exp) \in Time
      BY <3>2, MinuteTime
    <3>4. login \in Login /\ login.id = script.login.id /\ login.token = script.login.token
      BY <2>2, <3>1, <3>3 DEF Login
    <3> QED
      BY <2>2, <3>4, NoneIsNoRecord
  <2> QED
    BY <2>1, <2>2
<1>5. script.elapsed \in Nat /\ script.minting \in Nat /\ elapsed \in Nat /\ minting \in Nat
  <2>1. script.elapsed \in Nat /\ script.minting \in Nat
    BY DEF IInv, TypeOK, LoginTypeOK, Script
  <2> QED
    BY <2>1
<1>6. script' = [script EXCEPT !.elapsed = elapsed, !.minting = minting, !.login = login]
  BY DEF Tick, MinutePasses
<1> HIDE DEF login, minting
<1>7. /\ script'.pc = script.pc /\ script'.by = script.by /\ script'.force = script.force
      /\ script'.minted = script.minted /\ script'.proof = script.proof /\ script'.code = script.code
      /\ script'.login = login /\ script'.elapsed = elapsed /\ script' \in Script
  <2> HIDE DEF elapsed
  <2> QED
    BY <1>4, <1>5, <1>6 DEF IInv, TypeOK, LoginTypeOK, Script
<1>8. UNCHANGED <<role, run>>
  BY DEF Tick, MinutePasses
<1>9. TypeOK'
  BY <1>1, <1>2, <1>3, <1>7, <1>8 DEF IInv, TypeOK, LoginTypeOK
<1>10. ScriptInv'
  <2>1. HoldsLogin => FreshProof' = FreshProof
    BY <1>4, <1>7, <1>8 DEF IInv, ScriptInv, FreshProof, Presented
  <2>2. IdIn(session)' = IdIn(session) /\ IdIn(token)' = IdIn(token)
    BY <1>1, <1>2 DEF IdIn
  <2>3. (HoldsLogin <=> script.login # None)'
    BY <1>4, <1>7 DEF IInv, ScriptInv, HoldsLogin
  <2>4. (script.pc \in {"session", "token", "sidecar"} => script.proof = FreshProof)'
    BY <1>7, <2>1 DEF IInv, ScriptInv, HoldsLogin
  <2>5. (script.pc \in {"token", "sidecar"} => IdIn(session) = script.login.id)'
    BY <1>4, <1>7, <2>2 DEF IInv, ScriptInv, HoldsLogin
  <2>6. (script.pc = "sidecar" =>
           /\ role.mechanism = "minted"
           /\ IdIn(token) = IF script.login.token THEN script.login.id ELSE None)'
    BY <1>4, <1>7, <1>8, <2>2 DEF IInv, ScriptInv, HoldsLogin
  <2>7. /\ (script.pc = "reprove" => session # None /\ ~script.force)'
        /\ (script.pc = "command" => role.mechanism = "minted")'
        /\ (script.pc \in {"reuse", "reprove", "login"} => ~script.minted)'
    BY <1>1, <1>7, <1>8 DEF IInv, ScriptInv
  <2>8. (script.pc = "exit" /\ script.code \in Success =>
           session # None /\ Accepts(script.proof, session.id, IdIn(token)))'
    BY <1>1, <1>7, <1>8, <2>2 DEF IInv, ScriptInv, Accepts, Presented
  <2> QED
    BY <2>3, <2>4, <2>5, <2>6, <2>7, <2>8 DEF ScriptInv
<1>11. RunInv'
  <2>1. CASE run.pc # "waits"
    BY <2>1, <1>7, <1>8 DEF IInv, RunInv, HoldsLogin
  <2>2. CASE run.pc = "waits"
    <3>1. Running /\ script.by = "runner" /\ script.elapsed < LoginTimeout
      BY <2>2 DEF Tick, IInv, RunInv
    <3>2. elapsed = script.elapsed + 1 /\ elapsed <= LoginTimeout
      BY <1>5, <3>1, SessionAssumption
    <3>3. ~Due(RecordedExpiry, Margin - script.elapsed) => ~Due(RecordedExpiry', Margin - elapsed)
      <4>1. RecordedExpiry \in Time /\ RecordedExpiry' = Minute(RecordedExpiry)
        BY <1>2, <1>3, LoginAssumption DEF RecordedExpiry, Minute, Time
      <4>2. Margin - elapsed = (Margin - script.elapsed) - 1 /\ Margin - script.elapsed \in Int
        BY <1>5, <3>2, SessionAssumption
      <4> QED
        BY <4>1, <4>2, MinuteDue
    <3> HIDE DEF elapsed
    <3> QED
      BY <2>2, <1>7, <1>8, <3>2, <3>3 DEF IInv, RunInv, HoldsLogin
  <2> QED
    BY <2>1, <2>2
<1>12. MintsBounded'
  BY <1>8 DEF IInv, MintsBounded
<1> QED
  BY <1>9, <1>10, <1>11, <1>12 DEF IInv

(* Every step of the script keeps the invariant.                           *)
LEMMA ScriptKeeps ==
  ASSUME IInv, ScriptStep
  PROVE  IInv'
<1>1. LoginNext /\ script \in Script /\ (script'.pc # "command" => UNCHANGED run)
  BY DEF ScriptStep, IInv, TypeOK, LoginTypeOK
<1>2. CASE \/ PreflightHalts \/ MintGateHalts \/ ReuseHalts \/ NoPlaywright \/ NoCredentials \/ NoToken \/ MintRefused
            \/ TokenRefused \/ LoginHalts \/ MintFails \/ ProofHalts \/ Throws
  <2>1. Running
    BY <1>2 DEF PreflightHalts, MintGateHalts, ReuseHalts, NoPlaywright, NoCredentials, NoToken,
           MintRefused, TokenRefused, LoginHalts, MintFails, ProofHalts, Throws, Running
  <2>2. PICK code \in Halts \cup {"none"} :
          Exits(code) /\ (code = "FAILED_PROBE_MARKER_ABSENT" => script.pc = "prove")
    BY <1>2, HaltCodes DEF PreflightHalts, MintGateHalts, ReuseHalts, NoPlaywright, NoCredentials, NoToken,
           MintRefused, TokenRefused, LoginHalts, MintFails, ProofHalts, Throws
  <2>3. UNCHANGED run
    BY <1>1, <2>2 DEF Exits, Script
  <2> QED
    BY <2>1, <2>2, <2>3, HaltKeeps
<1>3. CASE Reproves \/ SkipsReuse \/ ReuseFails
  <2>1. PICK pc \in {"reprove", "login"} :
          GoesTo(pc) /\ (pc = "reprove" => session # None /\ ~script.force)
    BY <1>3 DEF Reproves, SkipsReuse, ReuseFails, Fresh
  <2>2. script.pc \in {"reuse", "reprove"}
    BY <1>3 DEF Reproves, SkipsReuse, ReuseFails
  <2>3. UNCHANGED run
    BY <1>1, <2>1 DEF GoesTo, Script
  <2> QED
    BY <2>1, <2>2, <2>3, MovesKeep
<1>4. CASE Reuses
  <2>1. UNCHANGED run
    BY <1>1, <1>4 DEF Reuses, Script
  <2> QED
    BY <1>4, <2>1, ReusesKeeps
<1>5. CASE RunsMint
  <2>1. script'.pc = "command"
    BY <1>1, <1>5 DEF RunsMint, Script
  <2> QED
    BY <1>5, <2>1, RunsMintKeeps DEF ScriptStep
<1>6. CASE LogsIn \/ PlacesToken \/ Mints
  <2>1. /\ script.pc \in {"login", "command"}
        /\ role.mechanism = "minted" => script.pc = "command"
    BY <1>6 DEF LogsIn, PlacesToken, Mints
  <2>2. PICK hasToken \in BOOLEAN, expires \in Time, exp \in Time : Gets(hasToken, expires, exp)
    <3>1. Lifetime \cup {Never} \subseteq Time
      BY LoginAssumption DEF Time
    <3>2. CASE LogsIn \/ PlacesToken
      BY <3>1, <3>2 DEF LogsIn, PlacesToken
    <3>3. CASE Mints
      BY <3>1, <3>3 DEF Mints
    <3> QED
      BY <1>6, <3>2, <3>3
  <2>3. UNCHANGED run
    BY <1>1, <2>2 DEF Gets, Script
  <2> QED
    BY <2>1, <2>2, <2>3, GetsKeeps
<1>7. CASE Proves
  <2>1. UNCHANGED run
    BY <1>1, <1>7 DEF Proves, Script
  <2> QED
    BY <1>7, <2>1, ProvesKeeps
<1>8. CASE SavesSession
  <2>1. UNCHANGED run
    BY <1>1, <1>8 DEF SavesSession, Script
  <2> QED
    BY <1>8, <2>1, SavesSessionKeeps
<1>9. CASE SavesToken
  <2>1. UNCHANGED run
    BY <1>1, <1>9 DEF SavesToken, Script
  <2> QED
    BY <1>9, <2>1, SavesTokenKeeps
<1>10. CASE SavesSidecar
  <2>1. UNCHANGED run
    BY <1>1, <1>10 DEF SavesSidecar, Script
  <2> QED
    BY <1>10, <2>1, SavesSidecarKeeps
<1> QED
  BY <1>1, <1>2, <1>3, <1>4, <1>5, <1>6, <1>7, <1>8, <1>9, <1>10 DEF LoginNext

(* The runner takes the answer of a script that ended.                     *)
LEMMA TakesAnswerKeeps ==
  ASSUME IInv, TakesAnswer
  PROVE  IInv'
<1> DEFINE answer == CASE script.code \in Success -> IF session = None THEN "FAILED_SESSION_UNREADABLE" ELSE "ok"
                       [] OTHER -> HaltCode
<1>1. script.code \in Codes /\ run \in Run
  BY DEF IInv, TypeOK, LoginTypeOK, Script
<1>2. answer \in Halts \cup NoSession \cup {"none", "ok"}
  <2>1. "FAILED_SESSION_UNREADABLE" \in NoSession /\ "FAILED_LOGIN_UNKNOWN" \in NoSession
    BY DEF NoSession
  <2>2. CASE script.code \in Success
    BY <2>1, <2>2, CodeFacts
  <2>3. CASE script.code = "none"
    BY <2>1, <2>3, CodeFacts DEF HaltCode
  <2>4. CASE script.code \notin Success /\ script.code # "none"
    BY <1>1, <2>4, CodeFacts DEF HaltCode
  <2> QED
    BY <2>2, <2>3, <2>4
<1>3. run' = [run EXCEPT !.pc = "answered", !.answer = answer]
  BY DEF TakesAnswer, Answered
<1> HIDE DEF answer
<1>4. run' \in Run /\ run'.pc # "waits" /\ run'.mints = run.mints /\ run'.retries = run.retries
  BY <1>1, <1>2, <1>3 DEF Run
<1> QED
  BY <1>4, IdleKeeps DEF TakesAnswer, HaltCode, files

(* It holds before anything has run.                                       *)
LEMMA Initially == Init => IInv
<1> SUFFICES ASSUME Init PROVE IInv
  OBVIOUS
<1>1. TypeOK
  BY IdleIs, NoRunIs DEF Init, LoginInit, TypeOK, LoginTypeOK
<1>2. ScriptInv
  BY IdleIs DEF Init, LoginInit, ScriptInv, HoldsLogin
<1>3. RunInv
  BY IdleIs, NoRunIs DEF Init, LoginInit, RunInv, HoldsLogin
<1>4. MintsBounded
  BY NoRunIs, SessionAssumption DEF Init, MintsBounded
<1> QED
  BY <1>1, <1>2, <1>3, <1>4 DEF IInv

(* Every step keeps the invariant.                                         *)
LEMMA Inductive == IInv /\ [Next]_vars => IInv'
<1> SUFFICES ASSUME IInv, [Next]_vars PROVE IInv'
  OBVIOUS
<1>0. run \in Run /\ role \in Config /\ run.answer \in Halts \cup NoSession \cup {"none", "ok"}
  BY DEF IInv, TypeOK, LoginTypeOK, Run
<1>1. CASE Obtains
  BY <1>1, ObtainsKeeps
<1>2. CASE ObtainsNothing
  <2>1. PICK code \in NoSession : run' = [NoRun EXCEPT !.pc = "answered", !.answer = code]
    BY <1>2 DEF ObtainsNothing, ScriptMissing, KitStale, NotRun, NoSession
  <2>2. run' \in Run /\ run'.pc = "answered" /\ run'.mints = 0 /\ run'.retries = 0
    BY <2>1 DEF NoRun, Run
  <2> QED
    BY <1>0, <1>2, <2>2, ScriptStays DEF ObtainsNothing, ScriptMissing, KitStale, NotRun, files
<1>3. CASE ScriptStep
  BY <1>3, ScriptKeeps
<1>4. CASE TimesOut
  BY <1>4, TimesOutKeeps
<1>5. CASE RunsAgain
  BY <1>5, RunsAgainKeeps
<1>6. CASE TakesAnswer
  BY <1>6, TakesAnswerKeeps
<1>7. CASE RunEnds
  BY <1>0, <1>7, NoRunIs, ScriptStays DEF RunEnds, files
<1>8. CASE Edits
  <2>1. run' = run /\ run.pc = "none" /\ script.pc = "idle" /\ role' \in Config
        /\ UNCHANGED <<script, session, token, sidecar>>
    BY <1>8 DEF Edits, files
  <2>2. TypeOK'
    BY <2>1 DEF IInv, TypeOK, LoginTypeOK
  <2>3. ScriptInv'
    BY <2>1 DEF IInv, ScriptInv, HoldsLogin, IdIn
  <2>4. RunInv'
    BY <2>1 DEF IInv, RunInv, HoldsLogin
  <2>5. MintsBounded'
    BY <2>1 DEF IInv, MintsBounded
  <2> QED
    BY <2>2, <2>3, <2>4, <2>5 DEF IInv
<1>9. CASE OperatorLogsIn
  <2>1. PICK force \in BOOLEAN : script' = Started("operator", force)
    BY <1>9 DEF OperatorLogsIn
  <2>2. script' \in Script /\ script'.pc = "reuse" /\ script'.by = "operator" /\ script'.login = None
        /\ script'.minted = FALSE
    BY <2>1, StartedIs
  <2>3. UNCHANGED <<role, session, token, sidecar, run>> /\ run.pc # "waits"
    BY <1>9 DEF OperatorLogsIn, files
  <2>4. TypeOK' /\ ScriptInv' /\ RunInv' /\ MintsBounded'
    BY <2>2, <2>3 DEF IInv, TypeOK, LoginTypeOK, ScriptInv, RunInv, MintsBounded, HoldsLogin
  <2> QED
    BY <2>4 DEF IInv
<1>10. CASE OperatorIsDone
  <2>1. run.pc # "waits"
    BY <1>10 DEF OperatorIsDone, IInv, RunInv
  <2> QED
    BY <1>0, <1>10, <2>1, IdleKeeps DEF OperatorIsDone, files
<1>11. CASE Interrupted
  BY <1>0, <1>11, NoRunIs, IdleKeeps DEF Interrupted, files
<1>12. CASE Tick
  BY <1>12, TickKeeps
<1>13. CASE UNCHANGED vars
  BY <1>13 DEF vars, files, IInv, TypeOK, LoginTypeOK, ScriptInv, RunInv, MintsBounded, HoldsLogin, FreshProof,
               Presented, Accepts, IdIn, RecordedExpiry, Due
<1> QED
  BY <1>1, <1>2, <1>3, <1>4, <1>5, <1>6, <1>7, <1>8, <1>9, <1>10, <1>11, <1>12, <1>13 DEF Next

(* The invariant holds in every reachable state.                           *)
LEMMA Invariance == Spec => []IInv
BY Initially, Inductive, PTL DEF Spec

(* The variables of QaSession hold what they are declared to hold.         *)
THEOREM TypeCorrect == Spec => []TypeOK
<1>1. IInv => TypeOK
  BY DEF IInv
<1> QED
  BY <1>1, Invariance, PTL

(* A run mints once more than it retries at most, and retries only after a *)
(* mint.                                                                   *)
THEOREM Bounded == Spec => []MintsBounded
<1>1. IInv => MintsBounded
  BY DEF IInv
<1> QED
  BY <1>1, Invariance, PTL

(* Only a script that ended well hands a session over.                     *)
LEMMA HandsOverIs ==
  ASSUME IInv, [Next]_vars, HandsOver
  PROVE  script.pc = "exit" /\ script.code \in Success /\ session # None
<1>1. run \in Run /\ script \in Script /\ run'.pc # run.pc
  BY DEF IInv, TypeOK, LoginTypeOK, HandsOver
<1>2. ~ScriptStep
  <2>1. ASSUME ScriptStep PROVE run'.pc = run.pc
    BY <1>1, <2>1 DEF ScriptStep, Run
  <2> QED
    BY <1>1, <2>1
<1>3. ~TimesOut /\ ~RunsAgain
  BY <1>1 DEF TimesOut, RunsAgain, Run
<1>4. ~Interrupted
  BY NoRunIs DEF Interrupted, HandsOver
<1>5. TakesAnswer
  BY <1>1, <1>2, <1>3, <1>4 DEF Next, HandsOver, vars, Obtains, ForcesMint, IsMinted, ObtainsNothing, ScriptMissing, KitStale, NotRun, RunEnds, Edits, OperatorLogsIn,
                                OperatorIsDone, Tick
<1>6. script.code \in Success
  <2>1. "FAILED_LOGIN_UNKNOWN" \in NoSession /\ "FAILED_LOGIN_UNKNOWN" # "ok" /\ "FAILED_SESSION_UNREADABLE" # "ok"
    BY DEF NoSession
  <2>2. script.code \in Codes
    BY <1>1 DEF Script
  <2>3. ASSUME script.code \notin Success PROVE run'.answer # "ok"
    BY <1>1, <1>5, <2>1, <2>2, <2>3, CodeFacts DEF TakesAnswer, HaltCode, Answered, Run
  <2> QED
    BY <2>3 DEF HandsOver
<1> QED
  BY <1>5, <1>6 DEF TakesAnswer, HaltCode, IInv, ScriptInv

(* Every session a run hands to its cases was accepted by a proof of the   *)
(* script run before it, and for a minted role so was its token.           *)
THEOREM HandedProven == Spec => HandedWasProven
<1>1. IInv /\ [Next]_vars => [HandsOver => /\ script.proof # None
                  /\ LET p == Presented(session.id, IdIn(token)) IN
                       /\ script.proof.session = p.session
                       /\ role.mechanism = "minted" => script.proof = p]_vars
  BY HandsOverIs DEF IInv, ScriptInv, Accepts
<1> QED
  BY <1>1, Invariance, PTL DEF Spec, HandedWasProven

(* A session of a minted role that this run did not mint has the margin,   *)
(* less the time limit, left of the expiry on record.                      *)
THEOREM Runway == Spec => RunwayAtHandOver
<1>1. IInv /\ [Next]_vars => [HandsOver /\ role.mechanism = "minted" /\ run.mints = 0
                                => ~Due(RecordedExpiry, Margin - LoginTimeout)]_vars
  <2> SUFFICES ASSUME IInv, [Next]_vars, HandsOver, role.mechanism = "minted", run.mints = 0
               PROVE  ~Due(RecordedExpiry, Margin - LoginTimeout)
    OBVIOUS
  <2>1. script.pc = "exit" /\ script.code \in Success
    BY HandsOverIs
  <2>2. ~Due(RecordedExpiry, Margin - script.elapsed) /\ script.elapsed <= LoginTimeout
    BY <2>1 DEF IInv, RunInv, HandsOver
  <2>3. RecordedExpiry \in Time /\ script.elapsed \in Nat
    BY LoginAssumption DEF IInv, TypeOK, LoginTypeOK, Script, Token, Sidecar, RecordedExpiry, Time
  <2> QED
    BY <2>2, <2>3, LoginAssumption, SessionAssumption DEF Due, Time
<1> QED
  BY <1>1, Invariance, PTL DEF Spec, RunwayAtHandOver

(* A file is saved only after the proof of what is saved.                  *)
THEOREM SavedProven == Spec => SavesOnlyProven
<1>1. IInv /\ [Next]_vars => [\/ files' = files
                              \/ MinutePasses
                              \/ /\ script.proof # None
                                 /\ script.proof = FreshProof]_vars
  <2> SUFFICES ASSUME IInv, Next, files' # files, ~MinutePasses
               PROVE  script.proof # None /\ script.proof = FreshProof
    OBVIOUS
  <2>1. SavesSession \/ SavesToken \/ SavesSidecar
    <3>1. ScriptStep
      BY DEF Next, Obtains, ForcesMint, IsMinted, ObtainsNothing, ScriptMissing, KitStale, NotRun, TimesOut, Exits, RunsAgain, TakesAnswer, HaltCode, RunEnds, Edits, OperatorLogsIn,
             OperatorIsDone, Interrupted, Tick
    <3>2. ~(\E code : Exits(code)) /\ ~(\E pc : GoesTo(pc)) /\ ~(\E h, e, x : Gets(h, e, x))
      BY DEF Exits, GoesTo, Gets
    <3> QED
      BY <3>1, <3>2 DEF ScriptStep, LoginNext, PreflightHalts, MintGateHalts, Reproves, SkipsReuse, Reuses, ReuseFails,
           ReuseHalts, NoPlaywright, NoCredentials, NoToken, MintRefused, TokenRefused, LoginHalts, LogsIn, PlacesToken, RunsMint, Mints, MintFails, Proves, ProofHalts, Throws
  <2>2. script.pc \in {"session", "token", "sidecar"}
    BY <2>1 DEF SavesSession, SavesToken, SavesSidecar
  <2>3. script.proof = FreshProof
    BY <2>2 DEF IInv, ScriptInv
  <2>4. FreshProof # None
    <3>1. script.login \in Login
      BY <2>2 DEF IInv, TypeOK, LoginTypeOK, Script, ScriptInv, HoldsLogin
    <3>2. FreshProof \in Proof
      BY <3>1 DEF FreshProof, Presented, Proof, Login
    <3> QED
      BY <3>2, NoneIsNoRecord
  <2> QED
    BY <2>3, <2>4
<1> QED
  BY <1>1, Invariance, PTL DEF Spec, SavesOnlyProven, FreshProof

(* A mint that reports success has saved three files of one login.         *)
THEOREM SavedTogether == Spec => MintSavesTogether
<1>1. IInv /\ [Next]_vars => [script'.pc = "exit" /\ script'.code = "SESSION_MINTED" /\ script.pc # "exit"
                                => IdIn(session') = IdIn(sidecar') /\ IdIn(token') \in {None, IdIn(session')}]_vars
  <2> SUFFICES ASSUME IInv, Next, script'.pc = "exit", script'.code = "SESSION_MINTED", script.pc # "exit"
               PROVE  IdIn(session') = IdIn(sidecar') /\ IdIn(token') \in {None, IdIn(session')}
    OBVIOUS
  <2>1. script \in Script /\ "SESSION_MINTED" \notin Halts \cup {"none"}
    BY CodeFacts DEF IInv, TypeOK, LoginTypeOK
  <2>2. ~(\E code \in Halts \cup {"none"} : Exits(code))
    BY <2>1 DEF Exits, Script
  <2>3. ~(\E pc \in {"reprove", "login"} : GoesTo(pc)) /\ ~(\E h, e, x : Gets(h, e, x))
    BY <2>1 DEF GoesTo, Gets, Script
  <2>4. ScriptStep
    <3>1. \A by \in {"runner", "operator"}, force \in BOOLEAN : script' # Started(by, force)
      BY StartedIs
    <3>2. ~Obtains /\ ~RunsAgain /\ ~OperatorLogsIn
      BY <3>1 DEF Obtains, ForcesMint, IsMinted, RunsAgain, OperatorLogsIn
    <3>3. ~TakesAnswer /\ ~OperatorIsDone /\ ~Interrupted
      BY IdleIs DEF TakesAnswer, HaltCode, OperatorIsDone, Interrupted
    <3>4. ~ObtainsNothing /\ ~RunEnds /\ ~Edits
      BY DEF ObtainsNothing, ScriptMissing, KitStale, NotRun, RunEnds, Edits
    <3>5. ~TimesOut
      BY <2>2 DEF TimesOut
    <3>6. ~Tick
      BY <2>1 DEF Tick, MinutePasses, Script
    <3> QED
      BY <3>2, <3>3, <3>4, <3>5, <3>6 DEF Next
  <2>5. ~Reuses /\ ~RunsMint /\ ~Proves /\ ~SavesSession /\ ~SavesToken
    BY <2>1, CodeFacts DEF Reuses, RunsMint, Proves, SavesSession, SavesToken, Script
  <2>6. /\ ~PreflightHalts /\ ~MintGateHalts /\ ~ReuseHalts /\ ~NoPlaywright /\ ~NoCredentials /\ ~NoToken
        /\ ~MintRefused /\ ~TokenRefused /\ ~LoginHalts /\ ~MintFails /\ ~ProofHalts /\ ~Throws
    BY <2>2, HaltCodes DEF PreflightHalts, MintGateHalts, ReuseHalts, NoPlaywright, NoCredentials, NoToken,
           MintRefused, TokenRefused, LoginHalts, MintFails, ProofHalts, Throws
  <2>7. ~Reproves /\ ~SkipsReuse /\ ~ReuseFails /\ ~LogsIn /\ ~PlacesToken /\ ~Mints
    BY <2>3 DEF Reproves, SkipsReuse, ReuseFails, LogsIn, PlacesToken, Mints
  <2>8. SavesSidecar
    BY <2>4, <2>5, <2>6, <2>7 DEF ScriptStep, LoginNext
  <2>9. /\ IdIn(session) = script.login.id /\ script.login \in Login
        /\ IdIn(token) = IF script.login.token THEN script.login.id ELSE None
    BY <2>8 DEF SavesSidecar, IInv, ScriptInv, HoldsLogin, TypeOK, LoginTypeOK, Script
  <2>10. sidecar' \in Sidecar /\ sidecar'.id = script.login.id
    BY <2>8, <2>9 DEF SavesSidecar, Login, Sidecar
  <2>11. IdIn(sidecar') = script.login.id /\ IdIn(session') = IdIn(session) /\ IdIn(token') = IdIn(token)
    BY <2>8, <2>10, NoneIsNoRecord DEF SavesSidecar, IdIn
  <2> QED
    BY <2>9, <2>11
<1> QED
  BY <1>1, Invariance, PTL DEF Spec, MintSavesTogether
=============================================================================
