------------------------------- MODULE QaCase -------------------------------
(***************************************************************************)
(* executeCase of qa-run.mjs for the cases of one run: the checks before   *)
(* anything outside is touched, the gate of a target that authenticates    *)
(* everyone, the required state, the session, and the driver; and what the *)
(* run keeps from one case to the next: the seeded states with what they   *)
(* captured, the sessions, the anonymous checks, and the table of secrets. *)
(*                                                                         *)
(* The http driver is modelled request by request.  Of the browser driver  *)
(* (QaBrowserCase) the model keeps where a page is visited and how a       *)
(* received message becomes a value of the later steps.  A text is the set *)
(* of secrets it shows.                                                    *)
(***************************************************************************)
EXTENDS Integers, Sequences

CONSTANTS
  N,           \* the number of cases of the report
  Menu,        \* the plan entries a case may have
  Roles, Declared, Dedicated,  \* those plans name, the kit declares, may write
  PreAuth,     \* the roles recorded as authenticated for everyone
  Alternative, \* per role: the other target recorded, if any
  Texts,       \* the required states
  Confirmed,   \* those with a confirmed seed command and a store to check
  LocalSeeds,  \* those whose command and store the guard accepts
  Captures, Redacted, \* per required state: the captures declared, and those marked redact
  Names,       \* the names {{name}} of captures and messages
  Values,      \* what a name may stand for, and what a redacted column holds
  Short,       \* the values under four characters
  Leaving,     \* the values that lead a path out of the origin
  Places,      \* declared origins, query sources and channels
  Local,       \* those the guard accepts
  Headers,     \* the origins that derive a header from the session
  None

Logins  == 0..1              \* bound: the session file is replaced once
Secrets == Values \cup (Roles \X Logins)
Targets  == {"none", "remote", "unprobed", "local"}

Step == [act : {"request", "query", "page", "read"}, via : Places \cup {None},
         anon : BOOLEAN, name : Names \cup {None}]
(* An entry is absent, refused by the rules for plans, declines, is refused *)
(* for a statement, a path or an overlay handler, or for a chosen value no *)
(* snapshot shows; or it runs if its steps and its role allow.             *)
Entry == [entry : {"none", "invalid", "declines", "unsafe", "ungrounded", "runs"},
          driver : {"http", "browser"}, role : Roles \cup {None}, writes : BOOLEAN,
          text : Texts \cup {None}, state : {"declared", "role-only", "other"},
          partial : BOOLEAN, steps : Seq(Step)]

ASSUME ConstantsAssumption ==
  /\ N \in Nat \ {0}
  /\ Dedicated \subseteq Declared /\ PreAuth \subseteq Declared /\ Declared \subseteq Roles
  /\ Alternative \in [Roles -> Targets]
  /\ LocalSeeds \subseteq Confirmed /\ Confirmed \subseteq Texts
  /\ Captures \in [Texts -> SUBSET Names] /\ Redacted \in [Texts -> SUBSET Names]
  /\ \A t \in Texts : Redacted[t] \subseteq Captures[t]
  /\ Short \subseteq Values /\ Leaving \subseteq Values
  /\ Local \subseteq Places /\ Headers \subseteq Places
  /\ None \notin Roles \cup Texts \cup Names \cup Places \cup Secrets

(* declaredCaptureNames, and what validateSteps (QaPlan) makes of it: only *)
(* a declared case has names bound before its first step, and a message    *)
(* binds a name that is not bound yet.                                     *)
Bound(e) == IF e.state = "declared" /\ e.text # None THEN Captures[e.text] ELSE {}

ASSUME MenuAssumption ==
  \A e \in Menu :
    /\ e \in Entry /\ (e.entry = "runs" => Len(e.steps) > 0)
    /\ \A i \in DOMAIN e.steps :
         /\ e.steps[i].act \in IF e.driver = "http" THEN {"request", "query"} ELSE {"page", "read"}
         /\ e.steps[i].act = "read" => e.steps[i].name \in Names \ Bound(e)
         /\ e.steps[i].anon => e.steps[i].act = "request"
    /\ \A i, j \in DOMAIN e.steps :
         e.steps[i].act = "read" /\ e.steps[j].act = "read" /\ e.steps[i].name = e.steps[j].name => i = j

VARIABLES
  plan, world,     \* the entries of the cases; whether there are a target and Playwright
  cur, pc, at,     \* the case, where it stands, and its step
  seeds, captured, \* ctx.seeds: how each command ended, and what it captured
  sessions,        \* ctx.sessions
  disk,            \* per role: which login the session file is of
  checks,          \* ctx.anonChecks
  table,           \* ctx.table: the secrets that are masked
  base,            \* the target of the driver: "declared" or "alternative"
  env,             \* what {{name}} was replaced by in the steps
  jar, lone,       \* the cookies of the case's request context; of an anonymous step's own
  request,         \* the request sent last: its step and what it carried
  shown,           \* the secrets the answer in hand shows
  file,            \* the evidence file written last
  evidence,        \* per passed step: the step its evidence is of
  outcome,         \* how the case ended
  learnt,          \* history: the secrets the runner was given
  meant,           \* history: what each name was bound to for this case
  touched          \* history: what the case did outside

caseVars  == <<cur, pc, at, outcome>>
kept      == <<seeds, captured, sessions, disk, checks>>
secret    == <<table, learnt>>
names     == <<env, meant>>
http      == <<jar, lone, request, shown, file, evidence>>
vars == <<plan, world, caseVars, kept, secret, names, http, base, touched>>

Case == plan[cur]
Here == Case.steps[at]
Nobody == [n \in Names |-> None]

Init ==
  /\ plan \in [1..N -> Menu]
  /\ world \in [target : BOOLEAN, playwright : BOOLEAN]
  /\ cur = 1 /\ pc = "check" /\ at = 1 /\ outcome = "running"
  /\ seeds = [t \in Texts |-> "none"] /\ captured = [t \in Texts |-> Nobody]
  /\ sessions = [r \in Roles |-> "none"] /\ checks = [r \in Roles |-> "none"]
  /\ disk = [r \in Roles |-> 0]
  /\ table = {} /\ learnt = {}
  /\ base = "declared" /\ env = Nobody /\ meant = Nobody
  /\ jar = {} /\ lone = {} /\ request = [step |-> 0, anon |-> FALSE, carried |-> {}]
  /\ shown = {} /\ file = [step |-> 0, shows |-> {}] /\ evidence = << >>
  /\ touched = {}

End(o) == pc' = "ended" /\ outcome' = o /\ UNCHANGED <<cur, at>>
Goes(to) == pc' = to /\ UNCHANGED <<cur, at, outcome>>

-----------------------------------------------------------------------------
(* The checks of the entry, its sources and the target.                    *)
ReachesLocal(s) == s.via # None => s.via \in Local
NeedsHeader(s) == s.via \in Headers /\ ~s.anon   \* classifyApiOrigin
HeaderHasRole(s) == s.act = "request" /\ NeedsHeader(s) => Case.role # None
StepsSound == \A i \in DOMAIN Case.steps : ReachesLocal(Case.steps[i]) /\ HeaderHasRole(Case.steps[i])

WritesUnchecked == TRUE                                     \* mutant
WritesAllowed == Case.writes => Case.role \in Dedicated

Outside(s) == s.act = "read" /\ ~ReachesLocal(s)

(* What the entry may be refused with: each reason it may decline with is  *)
(* of one of two kinds, and a channel declared outside is left to a person.*)
Refusals ==
  IF Case.entry \in {"none", "invalid"} THEN {"needs-human"}
  ELSE IF Case.entry = "declines" THEN {"needs-human", "blocked"}
  ELSE IF ~WritesAllowed \/ Case.entry = "unsafe" \/ ~world.target THEN {"blocked"}
  ELSE IF Case.entry = "ungrounded" THEN {"needs-human"}
  ELSE IF ~world.playwright THEN {"blocked"}
  ELSE IF StepsSound THEN {}
  ELSE {"blocked"} \cup {o \in {"needs-human"} : \E i \in DOMAIN Case.steps : Outside(Case.steps[i])}

Refuse ==
  /\ pc = "check" /\ \E o \in Refusals : End(o)
  /\ UNCHANGED <<plan, world, kept, secret, names, http, base, touched>>

Gated == Case.driver = "browser" /\ Case.role \in PreAuth

PassChecks ==
  /\ pc = "check" /\ Refusals = {}
  /\ Goes(IF Gated THEN "gate" ELSE "state")
  /\ UNCHANGED <<plan, world, kept, secret, names, http, base, touched>>

(* preAuthenticatedGate: no other local target with a probe is recorded.   *)
GateBlocks ==
  /\ pc = "gate" /\ Alternative[Case.role] # "local"
  /\ End("blocked")
  /\ UNCHANGED <<plan, world, kept, secret, names, http, base, touched>>

(* anonymousCheck: a browser without a session looks for the marker on the *)
(* other target, once per role.                                            *)
Verdicts == {"clean", "injected", "unreachable", "unavailable"}
Probe ==
  /\ pc = "gate" /\ Alternative[Case.role] = "local" /\ checks[Case.role] = "none"
  /\ \E v \in Verdicts : checks' = [checks EXCEPT ![Case.role] = v]
  /\ touched' = touched \cup {"probe"}
  /\ UNCHANGED <<plan, world, caseVars, seeds, captured, sessions, disk, secret, names, http, base>>

AnyAnswer == checks[Case.role] # "none"                      \* mutant
Clean == checks[Case.role] = "clean"
GateDecides ==
  /\ pc = "gate" /\ Alternative[Case.role] = "local" /\ checks[Case.role] # "none"
  /\ \/ Clean /\ base' = "alternative" /\ Goes("state")
     \/ ~Clean /\ End("blocked") /\ UNCHANGED base
  /\ UNCHANGED <<plan, world, kept, secret, names, http, touched>>

-----------------------------------------------------------------------------
LearnLater(s) == learnt' = learnt \cup s /\ table' = table   \* mutant
(* addSecretValues: from now on the value is masked in what is written.    *)
Learn(s) == learnt' = learnt \cup s /\ table' = table \cup (s \ Short)

(* prepareState: nothing is required, or only a role the kit declares.     *)
StateFree ==
  /\ pc = "state"
  /\ Case.text # None => Case.state = "role-only" /\ Case.role \in Declared
  /\ Goes("values")
  /\ UNCHANGED <<plan, world, kept, secret, names, http, base, touched>>

Seedable == Case.state = "declared" /\ Case.text \in Confirmed

StateRefused ==
  /\ pc = "state" /\ Case.text # None
  /\ \/ Case.state = "role-only" /\ Case.role \notin Declared
     \/ Case.state # "role-only" /\ ~Seedable
     \/ Seedable /\ seeds[Case.text] = "failed"
  /\ End("blocked")
  /\ UNCHANGED <<plan, world, kept, secret, names, http, base, touched>>

(***************************************************************************)
(* runSeed: the command is not run when the guard refuses an argument or   *)
(* the store.  It fails, or gives a value to every name the declaration    *)
(* captures; a redacted one that is too short to mask is a failure too.    *)
(***************************************************************************)
Binding == [Captures[Case.text] -> Values]
Captured(b) == [n \in Names |-> IF n \in Captures[Case.text] THEN b[n] ELSE None]
TooShort(b) == \E n \in Redacted[Case.text] : b[n] \in Short

RunSeed ==
  /\ pc = "state" /\ Case.text # None /\ Seedable /\ seeds[Case.text] = "none"
  /\ IF Case.text \in LocalSeeds
       THEN /\ touched' = touched \cup {"seed"}
            /\ \/ \E b \in Binding :
                    IF TooShort(b) THEN /\ seeds' = [seeds EXCEPT ![Case.text] = "failed"]
                                        /\ UNCHANGED captured
                    ELSE /\ seeds' = [seeds EXCEPT ![Case.text] = "ok"]
                         /\ captured' = [captured EXCEPT ![Case.text] = Captured(b)]
               \/ seeds' = [seeds EXCEPT ![Case.text] = "failed"] /\ UNCHANGED captured
       ELSE seeds' = [seeds EXCEPT ![Case.text] = "failed"] /\ UNCHANGED <<captured, touched>>
  /\ UNCHANGED <<plan, world, caseVars, sessions, disk, checks, secret, names, http, base>>

(* What it captured, now or for an earlier case, is registered before any  *)
(* later write can carry it.                                               *)
StateReady ==
  /\ pc = "state" /\ Case.text # None /\ Seedable /\ seeds[Case.text] = "ok"
  /\ Learn({captured[Case.text][n] : n \in Redacted[Case.text]})
  /\ meant' = captured[Case.text]
  /\ Goes("values")
  /\ UNCHANGED <<plan, world, kept, env, http, base, touched>>

(* The captures kept under the text of the required state replace the      *)
(* names in the steps, whatever kind of state this case declares; and the  *)
(* paths are resolved again.                                               *)
Seeded == Case.text # None /\ seeds[Case.text] = "ok"
NotSubstituted == Nobody                                    \* mutant
Substituted == IF Seeded THEN captured[Case.text] ELSE Nobody
HasPath(s) == s.act \in {"request", "page"} /\ s.name # None

Escapes(v) == v \in Leaving                                  \* resolveStepUrl
Leaves == \E i \in DOMAIN Case.steps : HasPath(Case.steps[i]) /\ Escapes(Substituted[Case.steps[i].name])

Substitute ==
  /\ pc = "values" /\ env' = Substituted
  /\ IF Leaves THEN End("blocked") ELSE Goes("session")
  /\ UNCHANGED <<plan, world, kept, secret, meant, http, base, touched>>

-----------------------------------------------------------------------------
(* What the session file of a role holds, its token and its records.       *)
SessionSecrets(r) == {<<r, disk[r]>>}

(* obtainSession: as answered before in this run, or by the login script.  *)
LogIn ==
  /\ pc = "session" /\ Case.role \in Declared /\ sessions[Case.role] = "none"
  /\ \/ /\ sessions' = [sessions EXCEPT ![Case.role] = "ok"]
        /\ Learn(SessionSecrets(Case.role))
     \/ sessions' = [sessions EXCEPT ![Case.role] = "failed"] /\ UNCHANGED secret
  /\ touched' = touched \cup {"login"}
  /\ UNCHANGED <<plan, world, caseVars, seeds, captured, disk, checks, names, http, base>>

NoSession ==
  /\ pc = "session" /\ Case.role # None
  /\ Case.role \in Declared => sessions[Case.role] = "failed"
  /\ End("blocked")
  /\ UNCHANGED <<plan, world, kept, secret, names, http, base, touched>>

SessionCookies == IF Case.role = None THEN {} ELSE {"session"}

(* Another run or the operator logs the role in again.                     *)
LogInElsewhere(r) ==
  /\ disk[r] = 0 /\ disk' = [disk EXCEPT ![r] = 1]
  /\ UNCHANGED <<plan, world, caseVars, seeds, captured, sessions, checks, secret, names, http, base, touched>>

(* The driver starts; the http driver opens its request context.           *)
StartDriver ==
  /\ pc = "session" /\ (Case.role # None => sessions[Case.role] = "ok")
  /\ Goes("step")
  /\ jar' = IF Case.driver = "http" THEN SessionCookies ELSE {}
  /\ UNCHANGED <<plan, world, kept, secret, names, lone, request, shown, file, evidence, base, touched>>

-----------------------------------------------------------------------------
Driving(d) == pc = "step" /\ Case.driver = d /\ at <= Len(Case.steps)

(* prepareApiStep: the header comes from the session file as it is now,    *)
(* and it is registered before the request.  deriveApiHeader finds none    *)
(* when the session has no usable cookie of the declared name.             *)
Derives == NeedsHeader(Here)
HeaderMissing ==
  /\ Driving("http") /\ Here.act = "request" /\ Derives
  /\ End("blocked")
  /\ UNCHANGED <<plan, world, kept, secret, names, http, base, touched>>

FreshContext == {}

(***************************************************************************)
(* One request through the context of the case, or, for a step without a   *)
(* session, through a context of its own that is closed before the next    *)
(* step.  An answer may set a cookie and may show one secret there is.     *)
(***************************************************************************)
Send ==
  /\ Driving("http") /\ Here.act = "request"
  /\ request' = [step |-> at, anon |-> Here.anon, carried |->
                   (IF Here.anon THEN FreshContext ELSE jar) \cup (IF Derives THEN {"header"} ELSE {})]
  /\ IF Derives THEN Learn(SessionSecrets(Case.role)) ELSE UNCHANGED secret
  /\ touched' = touched \cup {"request"}
  /\ \/ End("blocked") /\ UNCHANGED <<jar, lone, shown>>
     \/ /\ Goes("write")
        /\ shown' \in {{}} \cup {{s} : s \in Secrets}
        /\ \/ UNCHANGED <<jar, lone>>
           \/ ~Here.anon /\ jar' = jar \cup {"theirs"} /\ UNCHANGED lone
           \/ Here.anon /\ lone' = {"anonymous"} /\ UNCHANGED jar
  /\ UNCHANGED <<plan, world, kept, names, file, evidence, base>>

(* runQueryStep: the values of the redacted columns are registered before  *)
(* the rows are written, and masked in the rows themselves.                *)
Query ==
  /\ Driving("http") /\ Here.act = "query"
  /\ touched' = touched \cup {"query"}
  /\ \/ End("blocked") /\ UNCHANGED <<secret, shown>>
     \/ /\ Goes("write")
        /\ \E column \in {{}} \cup {{v} : v \in Values} : Learn(column)
        /\ shown' \in {{}} \cup {{s} : s \in Secrets}
  /\ UNCHANGED <<plan, world, kept, names, jar, lone, request, file, evidence, base>>

Masked(text) == text \ table
Pushed == Append(evidence, at)

WriteEvidence ==
  /\ pc = "write"
  /\ \/ /\ file' = [step |-> at, shows |-> Masked(shown)]
        /\ evidence' = Pushed /\ Goes("compare")
     \/ End("blocked") /\ UNCHANGED <<file, evidence>>
  /\ UNCHANGED <<plan, world, kept, secret, names, jar, lone, request, shown, base, touched>>

(* The expectations of the step: the first one that fails ends the case.   *)
Compare ==
  /\ pc = "compare"
  /\ \/ pc' = "step" /\ at' = at + 1 /\ UNCHANGED <<cur, outcome>>
     \/ End("fail")
  /\ UNCHANGED <<plan, world, kept, secret, names, http, base, touched>>

-----------------------------------------------------------------------------
(* A step of the browser driver on a page, with the names it uses.         *)
VisitPage ==
  /\ Driving("browser") /\ Here.act = "page"
  /\ touched' = touched \cup {"request"}
  /\ \/ pc' = "step" /\ at' = at + 1 /\ UNCHANGED <<cur, outcome>>
     \/ \E o \in {"fail", "blocked", "needs-human"} : End(o)
  /\ UNCHANGED <<plan, world, kept, secret, names, http, base>>

(* read_message (QaMessage): the value reaches the steps after this one,   *)
(* where the name still stands.                                            *)
ReadMessage ==
  /\ Driving("browser") /\ Here.act = "read"
  /\ \/ \E v \in Values \ Short :
          /\ Learn({v})
          /\ meant' = [meant EXCEPT ![Here.name] = v]
          /\ env' = [env EXCEPT ![Here.name] = IF @ = None THEN v ELSE @]
          /\ pc' = "step" /\ at' = at + 1 /\ UNCHANGED <<cur, outcome>>
     \/ \E o \in {"fail", "blocked", "needs-human"} : End(o) /\ UNCHANGED <<secret, names>>
  /\ UNCHANGED <<plan, world, kept, http, base, touched>>

-----------------------------------------------------------------------------
(* applyPartialRemainder: a pass that leaves work to a person is no pass.  *)
Whole == IF Case.partial THEN "needs-human" ELSE "pass"
Pass ==
  /\ pc = "step" /\ at > Len(Case.steps) /\ End(Whole)
  /\ UNCHANGED <<plan, world, kept, secret, names, http, base, touched>>

StartCase ==
  /\ pc = "ended" /\ cur < N
  /\ cur' = cur + 1 /\ pc' = "check" /\ at' = 1 /\ outcome' = "running"
  /\ base' = "declared" /\ env' = Nobody /\ meant' = Nobody
  /\ jar' = {} /\ lone' = {} /\ request' = [step |-> 0, anon |-> FALSE, carried |-> {}]
  /\ shown' = {} /\ file' = [step |-> 0, shows |-> {}] /\ evidence' = << >> /\ touched' = {}
  /\ UNCHANGED <<plan, world, kept, secret>>

Ended == pc = "ended" /\ cur = N /\ UNCHANGED vars

Gates  == Refuse \/ PassChecks \/ GateBlocks \/ Probe \/ GateDecides
State  == StateFree \/ StateRefused \/ RunSeed \/ StateReady \/ Substitute
Login  == LogIn \/ NoSession \/ StartDriver
Elsewhere == \E r \in Declared : LogInElsewhere(r)
Driver == HeaderMissing \/ Send \/ Query \/ WriteEvidence \/ Compare \/ VisitPage \/ ReadMessage \/ Pass

Next == Gates \/ State \/ Login \/ Driver \/ StartCase \/ Elsewhere \/ Ended

Spec == Init /\ [][Next]_vars

-----------------------------------------------------------------------------
TypeOK ==
  /\ plan \in [1..N -> Menu] /\ world \in [target : BOOLEAN, playwright : BOOLEAN]
  /\ cur \in 1..N /\ at \in Nat \ {0}
  /\ pc \in {"check", "gate", "state", "values", "session", "step", "write", "compare", "ended"}
  /\ outcome \in {"running", "pass", "fail", "blocked", "needs-human"}
  /\ seeds \in [Texts -> {"none", "ok", "failed"}]
  /\ captured \in [Texts -> [Names -> Values \cup {None}]]
  /\ sessions \in [Roles -> {"none", "ok", "failed"}] /\ disk \in [Roles -> Logins]
  /\ checks \in [Roles -> {"none"} \cup Verdicts]
  /\ table \subseteq Secrets /\ learnt \subseteq Secrets
  /\ base \in {"declared", "alternative"}
  /\ env \in [Names -> Values \cup {None}] /\ meant \in [Names -> Values \cup {None}]
  /\ jar \subseteq {"session", "theirs"} /\ lone \subseteq {"anonymous"}
  /\ request \in [step : Nat, anon : BOOLEAN, carried : SUBSET {"session", "theirs", "anonymous", "header"}]
  /\ shown \subseteq Secrets /\ file \in [step : Nat, shows : SUBSET Secrets]
  /\ evidence \in Seq(Nat)
  /\ touched \subseteq {"probe", "seed", "login", "request", "query"}

(***************************************************************************)
(* A case that can be known not to run leaves nothing outside: whatever is *)
(* probed, seeded, logged in or requested, its entry was sound, a write    *)
(* was for a dedicated role, and every source and origin of every step,    *)
(* not just of the steps it came to, was local (the order of executeCase). *)
(* A login means in addition that the state could be had, and the role is  *)
(* declared; only the seed of an undeclared role is left behind.           *)
(***************************************************************************)
Sound == /\ Case.entry = "runs" /\ world.target /\ world.playwright
         /\ Case.writes => Case.role \in Dedicated
         /\ \A i \in DOMAIN Case.steps : Case.steps[i].via \in Local \cup {None}
StateHad == \/ Case.text = None \/ Case.state = "role-only"
            \/ Case.text \in LocalSeeds /\ seeds[Case.text] = "ok"
RefusedIsUntouched ==
  /\ touched # {} => Sound
  /\ touched \cap {"login", "request", "query"} # {} => StateHad /\ Case.role \in Declared \cup {None}

(***************************************************************************)
(* A browser case whose role the target authenticates anyway would pass    *)
(* without a session.  It acts on another target only, local and found     *)
(* clean by this run; and before that it neither seeds nor logs in         *)
(* (preAuthenticatedGate, and the cache anonymousCheck keeps).             *)
(***************************************************************************)
ProvesItsSession ==
  Gated /\ touched \cap {"seed", "login", "request"} # {} =>
    base = "alternative" /\ Alternative[Case.role] = "local" /\ checks[Case.role] = "clean"

(***************************************************************************)
(* A request that asks for no session carries nothing of one, no derived   *)
(* header, and no cookie an earlier answer set; and what it is answered    *)
(* never gets into the requests of the session (fetchAnonymously).         *)
(***************************************************************************)
SessionsDoNotMix ==
  IF request.anon THEN request.carried = {} ELSE "anonymous" \notin request.carried

(***************************************************************************)
(* No evidence file shows a secret that the runner was given before it     *)
(* wrote the file: by a seed of this or an earlier case, a login, a        *)
(* session file read again for a header, the rows of a query, a message.   *)
(***************************************************************************)
KnownSecretsAreMasked ==
  [][file' # file => file'.shows \cap (learnt' \ Short) = {}]_vars

(***************************************************************************)
(* The evidence a step is recorded with is its own, however queries and    *)
(* requests follow each other; a pass has one for every step and leaves    *)
(* nothing to a person, and a failed expectation shows what it looked at.  *)
(***************************************************************************)
EvidenceOfItsStep ==
  pc = "ended" /\ Case.driver = "http" =>
    /\ \A j \in DOMAIN evidence : evidence[j] = j
    /\ outcome = "pass" => Len(evidence) = Len(Case.steps) /\ ~Case.partial
    /\ outcome = "fail" => Len(evidence) = at /\ file.step = at

(***************************************************************************)
(* In a case that seeds its state, a name stands for what that seed        *)
(* captured or for the message that bound it, also when the seed ran for   *)
(* an earlier case.                                                        *)
(***************************************************************************)
SeededNamesAreTheirs ==
  pc = "step" /\ Case.state = "declared" => \A n \in Names : meant[n] # None => env[n] = meant[n]

-----------------------------------------------------------------------------
(* The inductive invariant: how far the case is, and what that says of     *)
(* what it has done and of what the run keeps.                             *)
Before  == {"check", "gate", "state"}
Driven  == {"step", "write", "compare"}
Later   == {"values", "session"} \cup Driven
Outward == {"login", "request", "query"}

RefusalShape ==
  /\ pc = "check" => touched = {}
  /\ pc \notin {"check", "ended"} => Refusals = {}
  /\ touched # {} => Refusals = {}
  /\ (pc = "ended") = (outcome # "running")

StateShape ==
  /\ pc \in Before => touched \subseteq {"probe", "seed"}
  /\ pc \in Later \/ touched \cap Outward # {} => StateHad
  /\ pc \in Driven \/ touched \cap Outward # {} => Case.role \in Declared \cup {None}
  /\ \A t \in Texts : seeds[t] = "ok" => t \in LocalSeeds
  /\ \A r \in Roles : sessions[r] = "ok" => r \in Declared

GateShape ==
  /\ pc \in {"check", "gate"} => touched \subseteq {"probe"}
  /\ pc = "gate" => Gated
  /\ Gated /\ (pc \in {"state"} \cup Later \/ touched \cap {"seed", "login", "request"} # {}) =>
       base = "alternative" /\ Alternative[Case.role] = "local" /\ checks[Case.role] = "clean"

SecretShape == learnt \ Short \subseteq table

EvidenceShape ==
  /\ pc \in Before \cup {"values", "session"} => at = 1 /\ evidence = << >>
  /\ at <= Len(Case.steps) + 1 /\ (pc \in {"write", "compare"} => at <= Len(Case.steps))
  /\ pc \in {"write", "compare"} => Case.driver = "http"
  /\ \A j \in DOMAIN evidence : evidence[j] = j
  /\ Case.driver = "http" /\ pc \in {"step", "write"} => Len(evidence) = at - 1
  /\ pc = "compare" => Len(evidence) = at /\ file.step = at

BoundBefore(n) == \/ n \in Bound(Case)
                  \/ \E i \in 1..(at - 1) : Case.steps[i].act = "read" /\ Case.steps[i].name = n

NamesShape ==
  /\ pc \in Before => meant = Nobody /\ env = Nobody
  /\ \A t \in Texts : \A n \in Names : (captured[t][n] # None) = (seeds[t] = "ok" /\ n \in Captures[t])
  /\ pc = "values" => env = Nobody
  /\ pc = "values" /\ Case.state = "declared" => meant = Substituted
  /\ pc \in {"session"} \cup Driven /\ Case.state = "declared" =>
       \A n \in Names : env[n] = meant[n] /\ (env[n] # None => BoundBefore(n))

IInv == /\ TypeOK /\ RefusalShape /\ StateShape /\ GateShape /\ SecretShape
        /\ EvidenceShape /\ NamesShape /\ SessionsDoNotMix /\ EvidenceOfItsStep
=============================================================================
