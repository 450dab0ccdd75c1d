------------------------------ MODULE QaLogin ------------------------------
(***************************************************************************)
(* The login script of one role (`auth-login.template.mjs`): it reuses the *)
(* saved session when a proof accepts it, and otherwise logs in, proves    *)
(* what the login gave, and saves it in up to three files, one rename      *)
(* each: the session, the token, and for a minted role the mint sidecar.   *)
(*                                                                         *)
(* A time is a number of minutes left, 0 once it has passed; the clock     *)
(* takes one off every time in the system.  A login is known by its id.    *)
(*                                                                         *)
(* The module has no specification of its own: QaSession says who starts   *)
(* the script and what may cut it short.                                   *)
(***************************************************************************)
EXTENDS Integers

CONSTANTS
  Id,           \* names for logins
  None,         \* no file, no login, no token
  Never,        \* the time of what carries no expiry
  Lifetime,     \* the lifetimes an application gives what it issues
  MaxAge,       \* maxAgeMinutes of the role
  Floor,        \* MINT_EXPIRY_FLOOR_MS
  MintTimeout,  \* MINT_TIMEOUT_MS
  Config        \* the entries for the role an operator may write in login.config.json

RoleConfig == [mechanism    : {"form", "api", "headed", "static-token", "minted"},
               browserProbe : BOOLEAN,                          \* else the HTTP probe
               tokenPath    : BOOLEAN,                          \* an api login answers a token
               mint         : {"missing", "proposed", "confirmed"}]

ASSUME LoginAssumption ==
  /\ None \notin Id
  /\ Lifetime \subseteq Nat \ {0}
  /\ Never \notin Nat
  /\ MaxAge \in Nat \ {0} /\ Floor \in Nat /\ MintTimeout \in Nat
  /\ Config \subseteq RoleConfig

Time == Nat \cup {Never}
Due(t, margin) == t # Never /\ t <= margin
Minute(t) == IF t \in Nat /\ t > 0 THEN t - 1 ELSE t

VARIABLES
  role,     \* the entry for the role in login.config.json
  session,  \* <role>.json: which login it is from, and the time left before it is too old
  token,    \* <role>.token.json: its login, its expires_at, and the exp claim of the token
  sidecar,  \* <role>.mint.json: its login and its expires_at
  script    \* the running script, or what the last one left behind

files == <<session, token, sidecar>>

Session == [id : Id, left : Nat]
Token   == [id : Id, expires : Time, exp : Time]
Sidecar == [id : Id, expires : Time]
\* What a login gave: a session, perhaps a token with its exp claim, and for a mint its expires_at.
Login   == [id : Id, token : BOOLEAN, expires : Time, exp : Time]
\* What the last proof of the script accepted: the login of the session and of the token it presented.
Proof   == [session : Id \cup {None}, token : Id \cup {None}]

Success == {"SESSION_REUSED", "SESSION_MINTED", "SESSION_CREATED"}
Halts   == {"FAILED_LOGIN_CONFIG_INCOMPLETE", "FAILED_NON_LOCAL_TARGET",
            "FAILED_MINT_COMMAND_MISSING", "FAILED_MINT_UNCONFIRMED", "FAILED_MINT_COMMAND", "FAILED_MINT_OUTPUT",
            "FAILED_CREDENTIALS_UNAVAILABLE", "FAILED_PLAYWRIGHT_UNAVAILABLE",
            "FAILED_TOKEN_UNPROVEN", "FAILED_TOKEN_PLACEMENT",
            "FAILED_INTERACTIVE_LOGIN_REQUIRED", "FAILED_LOGIN_REJECTED", "FAILED_PROBE_MARKER_ABSENT",
            "FAILED_PROBE_NOT_PROTECTED", "FAILED_PROBE_WRONG_ACCOUNT", "FAILED_PROBE_PAGE_UNLOADABLE"}
Codes   == Success \cup Halts \cup {"none"}

Script == [pc      : {"idle", "reuse", "reprove", "login", "command", "prove", "session", "token", "sidecar", "exit"},
           by      : {"runner", "operator"},
           force   : BOOLEAN,
           login   : Login \cup {None},
           proof   : Proof \cup {None},    \* history
           minted  : BOOLEAN,              \* history: it ran the mint command
           elapsed : Nat,                  \* minutes since the runner started it
           minting : Nat,                  \* minutes since the mint command started
           code    : Codes]                \* what it printed last

ASSUME NoneIsNoRecord == None \notin Session \cup Token \cup Sidecar \cup Login \cup Proof

LoginTypeOK ==
  /\ role \in Config
  /\ session \in Session \cup {None}
  /\ token \in Token \cup {None}
  /\ sidecar \in Sidecar \cup {None}
  /\ script \in Script

Idle == [pc |-> "idle", by |-> "operator", force |-> FALSE, login |-> None, proof |-> None,
         minted |-> FALSE, elapsed |-> 0, minting |-> 0, code |-> "none"]

LoginInit ==
  /\ role \in Config
  /\ session = None /\ token = None /\ sidecar = None
  /\ script = Idle

Running == script.pc \notin {"idle", "exit"}
IdIn(file) == IF file = None THEN None ELSE file.id
InUse == {IdIn(session), IdIn(token), IdIn(sidecar)}

Started(by, force) == [Idle EXCEPT !.pc = "reuse", !.by = by, !.force = force]

Exits(code) == /\ script' = [script EXCEPT !.pc = "exit", !.code = code, !.login = None]
               /\ UNCHANGED <<role, files>>
GoesTo(pc)  == /\ script' = [script EXCEPT !.pc = pc]
               /\ UNCHANGED <<role, files>>

(* What a proof of this session and this token presents to the             *)
(* application: the browser probe only the session, the HTTP probe both,   *)
(* and the proof of a static token the token.                              *)
Presented(s, t) ==
  [session |-> IF role.browserProbe \/ role.mechanism # "static-token" THEN s ELSE None,
   token   |-> IF ~role.browserProbe \/ role.mechanism = "static-token" THEN t ELSE None]

(* The answers of proveSession, and the halts a caller makes of them.      *)
HttpAnswers    == {"proven", "expired", "not-protected", "error"}
BrowserAnswers == {"proven", "expired", "not-protected", "wrong-account", "unloadable"}
Answers ==
  IF role.browserProbe THEN BrowserAnswers
  ELSE IF role.mechanism = "static-token" THEN {"proven"} ELSE HttpAnswers
Hopeless == {"not-protected", "wrong-account", "unloadable"}
ProbeHalt(answer) ==
  CASE answer = "not-protected" -> "FAILED_PROBE_NOT_PROTECTED"
    [] answer = "wrong-account" -> "FAILED_PROBE_WRONG_ACCOUNT"
    [] answer = "unloadable"    -> "FAILED_PROBE_PAGE_UNLOADABLE"

-----------------------------------------------------------------------------
(* The checks before anything else: a complete configuration, a local      *)
(* target, the template this script is a copy of, the ignore rules.        *)
PreflightHalts ==
  /\ script.pc = "reuse"
  /\ \E code \in {"FAILED_LOGIN_CONFIG_INCOMPLETE", "FAILED_NON_LOCAL_TARGET"} : Exits(code)

(* mintGate.                                                               *)
Confirmed == role.mechanism = "minted" => role.mint = "confirmed"
MintGateHalts ==
  /\ script.pc = "reuse" /\ ~Confirmed
  /\ Exits(IF role.mint = "missing" THEN "FAILED_MINT_COMMAND_MISSING" ELSE "FAILED_MINT_UNCONFIRMED")

(* What the saved files say of themselves, before any proof.               *)
Fresh ==
  /\ session # None /\ session.left # 0
  /\ role.mechanism = "static-token" => token # None
  /\ role.mechanism = "minted" =>
       /\ sidecar # None => ~Due(sidecar.expires, Floor)
       /\ token # None => ~Due(token.expires, Floor) /\ ~Due(token.exp, Floor)

TrustsFresh ==   \* mutant: what fresh files say is enough
  /\ script.pc = "reuse" /\ Confirmed /\ ~script.force /\ Fresh
  /\ Exits("SESSION_REUSED")

Reproves ==
  /\ script.pc = "reuse" /\ Confirmed /\ ~script.force /\ Fresh
  /\ GoesTo("reprove")

(* Straight to the login: forced, or the files do not hold.  They also do  *)
(* not when the declared session cookie is not in them or Playwright is    *)
(* not there, which may be so in any state.                                *)
SkipsReuse ==
  /\ script.pc = "reuse" /\ Confirmed
  /\ GoesTo("login")

(* reuseDecision.  A static token is first proven by itself, and any other *)
(* answer than proven sends it to the login.                               *)
Reuses ==
  /\ script.pc = "reprove" /\ "proven" \in Answers
  /\ script' = [script EXCEPT !.pc = "exit", !.code = "SESSION_REUSED",
                              !.proof = Presented(session.id, IdIn(token))]
  /\ UNCHANGED <<role, files>>
ReuseFails ==
  /\ script.pc = "reprove"
  /\ role.mechanism = "static-token" \/ Answers \cap {"expired", "error"} # {}
  /\ GoesTo("login")
ReuseHalts ==
  /\ script.pc = "reprove"
  /\ \E answer \in Answers \cap Hopeless : Exits(ProbeHalt(answer))

-----------------------------------------------------------------------------
(* A login needs Playwright, and one that can capture IndexedDB where the  *)
(* role keeps its token there (a code of its own, told apart by nobody).   *)
(* A headed login needs a terminal first, which the runner does not give.  *)
AtTerminal == role.mechanism = "headed" => script.by = "operator"
NoPlaywright ==
  /\ script.pc = "login" /\ AtTerminal
  /\ Exits("FAILED_PLAYWRIGHT_UNAVAILABLE")

(* Neither the environment, the ignored credentials file, the declared     *)
(* command that creates a user nor a terminal gives any; a static token    *)
(* has no such command.                                                    *)
NoCredentials ==
  /\ script.pc = "login" /\ role.mechanism \in {"form", "api"}
  /\ Exits("FAILED_CREDENTIALS_UNAVAILABLE")
NoToken ==
  /\ script.pc = "login" /\ role.mechanism = "static-token"
  /\ Exits("FAILED_CREDENTIALS_UNAVAILABLE")

(* guardMint: a URL among the arguments of the command, or its store, that *)
(* the guard of local targets does not accept or cannot read.              *)
MintRefused ==
  /\ script.pc = "login" /\ role.mechanism = "minted"
  /\ Exits("FAILED_NON_LOCAL_TARGET")

(* proveStaticToken: the protected endpoint has to answer with the token,  *)
(* and to refuse without it.  placeStaticToken: the browser location the   *)
(* role declares has to be there, on a local page.  (Rejected and lost in  *)
(* transport have codes of their own, told apart by nobody.)               *)
TokenRefused ==
  /\ script.pc = "login" /\ role.mechanism = "static-token"
  /\ \E code \in {"FAILED_TOKEN_UNPROVEN", "FAILED_TOKEN_PLACEMENT"} : Exits(code)

(* A login that gives no session, a headed one without a terminal, and a   *)
(* headed one that ends on a page that is not local.                       *)
LoginHalts ==
  /\ script.pc = "login" /\ role.mechanism \in {"form", "api", "headed"}
  /\ IF ~AtTerminal THEN Exits("FAILED_INTERACTIVE_LOGIN_REQUIRED")
     ELSE \/ Exits("FAILED_LOGIN_REJECTED")
          \/ role.mechanism = "headed" /\ Exits("FAILED_NON_LOCAL_TARGET")

Gets(hasToken, expires, exp) ==
  /\ \E id \in Id \ InUse :
       script' = [script EXCEPT !.pc = "prove",
                                !.login = [id |-> id, token |-> hasToken, expires |-> expires, exp |-> exp]]
  /\ UNCHANGED <<role, files>>

(* loginForm, loginApi and loginHeaded.                                    *)
LogsIn ==
  /\ script.pc = "login" /\ role.mechanism \in {"form", "api", "headed"} /\ AtTerminal
  /\ IF role.mechanism = "api" /\ role.tokenPath
     THEN \E exp \in Lifetime \cup {Never} : Gets(TRUE, Never, exp)
     ELSE Gets(FALSE, Never, Never)

(* A static token that was proven and, where the role declares a browser   *)
(* location, placed there.                                                 *)
PlacesToken ==
  /\ script.pc = "login" /\ role.mechanism = "static-token"
  /\ \E exp \in Lifetime \cup {Never} : Gets(TRUE, Never, exp)

RunsMint ==
  /\ script.pc = "login" /\ role.mechanism = "minted"
  /\ script' = [script EXCEPT !.pc = "command", !.minted = TRUE, !.minting = 0]
  /\ UNCHANGED <<role, files>>

(* The output holds to the contract of parseMintOutput.                    *)
Mints ==
  /\ script.pc = "command"
  /\ \E expires, exp \in Lifetime \cup {Never} :
       \/ Gets(TRUE, expires, exp)
       \/ exp = Never /\ Gets(FALSE, expires, Never)

(* It failed, printed too much, ran out of time, or printed something else.*)
MintFails ==
  /\ script.pc = "command"
  /\ \E code \in {"FAILED_MINT_COMMAND", "FAILED_MINT_OUTPUT"} : Exits(code)

-----------------------------------------------------------------------------
(* The proof of what the login gave, before anything is saved.             *)
ProvesSavedToken ==   \* mutant: the proof presents the token on disk
  /\ script.pc = "prove" /\ "proven" \in Answers
  /\ script' = [script EXCEPT !.pc = "session", !.proof = Presented(script.login.id, IdIn(token))]
  /\ UNCHANGED <<role, files>>

Proves ==
  /\ script.pc = "prove" /\ "proven" \in Answers
  /\ script' = [script EXCEPT !.pc = "session",
                  !.proof = Presented(script.login.id, IF script.login.token THEN script.login.id ELSE None)]
  /\ UNCHANGED <<role, files>>

(* Rejected is also what yields neither cookie, storage nor token, or not  *)
(* the declared cookie.                                                    *)
ProofHalts ==
  /\ script.pc = "prove"
  /\ \/ Exits("FAILED_LOGIN_REJECTED")
     \/ role.browserProbe /\ Exits("FAILED_PROBE_MARKER_ABSENT")
     \/ \E answer \in Answers \cap Hopeless : Exits(ProbeHalt(answer))

SavesSession ==
  /\ script.pc = "session"
  /\ session' = [id |-> script.login.id, left |-> MaxAge]
  /\ script' = [script EXCEPT !.pc = "token"]
  /\ UNCHANGED <<role, token, sidecar>>

KeepsToken ==   \* mutant: a mint without a token leaves the file of an earlier one
  /\ script.pc = "token"
  /\ token' = IF script.login.token
              THEN [id |-> script.login.id, expires |-> MaxAge, exp |-> script.login.exp]
              ELSE token
  /\ script' = IF role.mechanism = "minted"
               THEN [script EXCEPT !.pc = "sidecar"]
               ELSE [script EXCEPT !.pc = "exit", !.code = "SESSION_CREATED", !.login = None]
  /\ UNCHANGED <<role, session, sidecar>>

(* Without a token in this login, only a mint removes the file.            *)
SavesToken ==
  /\ script.pc = "token"
  /\ token' = IF script.login.token
              THEN [id      |-> script.login.id,
                    expires |-> IF script.login.expires # Never THEN script.login.expires
                                ELSE IF script.login.exp # Never THEN script.login.exp ELSE MaxAge,
                    exp     |-> script.login.exp]
              ELSE IF role.mechanism = "minted" THEN None ELSE token
  /\ script' = IF role.mechanism = "minted"
               THEN [script EXCEPT !.pc = "sidecar"]
               ELSE [script EXCEPT !.pc = "exit", !.code = "SESSION_CREATED", !.login = None]
  /\ UNCHANGED <<role, session, sidecar>>

SavesSidecar ==
  /\ script.pc = "sidecar"
  /\ sidecar' = [id      |-> script.login.id,
                 expires |-> IF script.login.expires # Never THEN script.login.expires ELSE script.login.exp]
  /\ script' = [script EXCEPT !.pc = "exit", !.code = "SESSION_MINTED", !.login = None]
  /\ UNCHANGED <<role, session, token>>

(* What nothing catches ends the script without a halt of its own: a       *)
(* browser or request context that does not open, a writeSecret that       *)
(* renames nothing.                                                        *)
Throws ==
  /\ \/ script.pc = "reprove" /\ role.browserProbe
     \/ script.pc = "login" /\ role.mechanism # "minted"
     \/ script.pc = "prove" /\ role.browserProbe
     \/ script.pc \in {"session", "sidecar"}
     \/ script.pc = "token" /\ script.login.token
  /\ Exits("none")

LoginNext ==
  \/ PreflightHalts \/ MintGateHalts
  \/ Reproves \/ SkipsReuse \/ Reuses \/ ReuseFails \/ ReuseHalts
  \/ NoPlaywright \/ NoCredentials \/ NoToken \/ MintRefused \/ TokenRefused \/ LoginHalts
  \/ LogsIn \/ PlacesToken \/ RunsMint \/ Mints \/ MintFails
  \/ Proves \/ ProofHalts
  \/ SavesSession \/ SavesToken \/ SavesSidecar \/ Throws

(* One minute passes; a mint command never runs longer than its timeout.   *)
MinutePasses ==
  /\ script.pc = "command" => script.minting < MintTimeout
  /\ session' = IF session = None THEN None ELSE [session EXCEPT !.left = Minute(@)]
  /\ token' = IF token = None THEN None ELSE [token EXCEPT !.expires = Minute(@), !.exp = Minute(@)]
  /\ sidecar' = IF sidecar = None THEN None ELSE [sidecar EXCEPT !.expires = Minute(@)]
  /\ script' = [script EXCEPT
       !.elapsed = IF Running /\ script.by = "runner" THEN script.elapsed + 1 ELSE script.elapsed,
       !.minting = IF script.pc = "command" THEN script.minting + 1 ELSE script.minting,
       !.login   = IF script.login = None THEN None
                   ELSE [script.login EXCEPT !.expires = Minute(@), !.exp = Minute(@)]]
  /\ UNCHANGED role
=============================================================================
