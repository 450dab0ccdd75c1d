------------------------------ MODULE QaGround ------------------------------
(***************************************************************************)
(* The ground mode of qa-run.mjs, called several times in one run          *)
(* directory: a call proves the directory ignored, loads a route with the  *)
(* session of a role, replays a prefix of interactions, waits until two    *)
(* reads of the page agree, counts every candidate one at a time on a page *)
(* that goes on changing, withholds what names a secret and writes one     *)
(* snapshot.  Found is how groundLocators later picks the snapshot of a    *)
(* step among the files.                                                   *)
(***************************************************************************)
EXTENDS Integers, Sequences, FiniteSets

CONSTANTS
  Roles,     \* the roles a call may name; one of them is no role at all
  Routes,    \* what --route may be
  PathOf,    \* the pathname of a route
  Slug,      \* what a pathname becomes in a file name; two may share one
  Digest(_), \* the 8 hex digits of a recorded prefix; two may share one
  PrefixChoices,  \* the prefixes a call may carry, and <<>> for none
  Cands,     \* what a page can list by role and name, or by text
  Carries,   \* the values the name of a candidate contains
  Named,     \* values of secret environment variables, e-mails, declared patterns
  Holds,     \* the values in the saved session of a role
  Declared,  \* those that are a token or in a cookie the configuration names
  Clears,    \* those long and mixed enough to be taken for a secret unasked
  Public,    \* those that are a part of the address of the target
  Short,     \* those of less than 4 characters, which no table takes
  Views,     \* what the browser can show
  Away,      \* where a page is that is not on the approved origin
  Edits,     \* what an operator may make of the ignore file
  Overlays,  \* the declared overlay handlers
  Writes,    \* those declared to write
  Dedicated, \* the roles declared dedicated
  Nothing,      \* no digest, no prefix, no reading
  MaxCalls, MaxPolls, MaxTurns   \* bounds

IgnoreRules == {"grounding", "evidence"}   \* RUN_IGNORE_RULES, and what the probes ask
Places == {PathOf[r] : r \in Routes}
Goto(r) == [do |-> "goto", at |-> r]
Acts(s) == s.do = "act"
Moves == [do : {"goto"}, at : Routes] \cup [do : {"act"}, at : Cands]

(* parseGroundPrefix: a goto alone is the plain route.                     *)
AcceptedPrefix(p) == \E i \in DOMAIN p : Acts(p[i])

ASSUME GroundAssumption ==
  /\ \A p \in Views : p.at \in Places \cup {Away} /\ p.shows \in [Cands -> Nat]
  /\ PrefixChoices \subseteq Seq(Moves) /\ \A p \in PrefixChoices : p = <<>> \/ AcceptedPrefix(p)
  /\ \A r \in Routes, p \in PrefixChoices : Nothing \notin {<<Goto(r)>> \o p, Digest(<<Goto(r)>> \o p)}
  /\ {MaxCalls, MaxPolls, MaxTurns} \subseteq Nat /\ Writes \subseteq Overlays
  /\ Edits \subseteq SUBSET IgnoreRules \cup {Nothing}

(* What the redaction table knows without a session, and what a session    *)
(* adds: what is declared always, anything else when it looks like one.    *)
AtStart == Named \ Short
OwnAddress(v) == v \in Public
RegisteredByLooks(role) == ((Holds[role] \cap Clears) \ Public) \ Short       \* mutant
Registered(role) ==
  {v \in Holds[role] : v \in Declared \/ (v \in Clears /\ ~OwnAddress(v))} \ Short

VARIABLES
  call,    \* role, route, prefix, and whether git says this is a work tree
  phase,   \* where the call stands
  table,   \* the values the redaction table knows
  view,    \* what the browser shows
  next,    \* the prefix step to replay
  left,    \* whether a dismissal was seen to leave the approved origin
  read,    \* the reading of the page to compare with
  todo,    \* the candidates not counted yet
  entries, \* the candidates counted, with their matches
  snapshots,   \* the snapshots of the run directory, by name
  rules,   \* what the .gitignore of the run directory ignores, None without one
  polls, turns, calls,   \* bounded
  trail,                 \* the steps this call replayed, and on how many matches
  made                   \* how each file came to be: its call and its trail

groundBounds == <<polls, turns, calls>>
ghosts == <<trail, made>>
disk   == <<snapshots, rules>>
groundVars == <<call, phase, table, view, next, left, read, todo, entries, disk, groundBounds, ghosts>>

GroundInit ==
  /\ phase = "idle" /\ snapshots = <<>> /\ made = <<>> /\ rules = Nothing
  /\ call = Nothing /\ table = AtStart /\ view = Nothing /\ next = 1 /\ left = FALSE
  /\ read = Nothing /\ todo = {} /\ entries = <<>>
  /\ polls = 0 /\ turns = 0 /\ calls = 0 /\ trail = <<>>

BackToIdle ==
  /\ phase' = "idle" /\ call' = Nothing /\ table' = AtStart /\ view' = Nothing /\ next' = 1
  /\ left' = FALSE /\ read' = Nothing /\ todo' = {} /\ entries' = <<>>
  /\ polls' = 0 /\ turns' = 0 /\ trail' = <<>>

(* Every halt ends the call with nothing written, the browser closed.      *)
Halts == BackToIdle /\ UNCHANGED <<calls, disk, made>>

-----------------------------------------------------------------------------
(* The init mode makes the directory and writes its ignore file, inside a  *)
(* work tree or not.  A directory made before it did so has none.          *)
InitRun ==
  /\ phase = "idle" /\ calls = 0 /\ rules = Nothing /\ rules' = IgnoreRules
  /\ UNCHANGED <<call, phase, table, view, next, left, read, todo, entries, snapshots, groundBounds, ghosts>>

(* Arguments and target: the routes of the prefix are looked at as well.   *)
Begin(role, route, prefix, inside) ==
  /\ phase = "idle" /\ calls < MaxCalls
  /\ calls' = calls + 1 /\ phase' = "ignore"
  /\ call' = [role |-> role, route |-> route, prefix |-> prefix,
              inside |-> inside]
  /\ UNCHANGED <<table, view, next, left, read, todo, entries, disk, polls, turns, ghosts>>

(* requireRunIgnore: inside a work tree a missing file is restored, an     *)
(* existing one is left alone and asked about.                             *)
Proves(r)    == IgnoreRules \subseteq r
Restored == IF call.inside /\ rules = Nothing THEN IgnoreRules ELSE rules
ProveIgnore ==
  /\ phase = "ignore"
  /\ LET now == Restored
     IN /\ rules' = now
        /\ IF ~call.inside \/ Proves(now)
             THEN /\ phase' = "session"
                  /\ UNCHANGED <<call, table, view, next, left, read, todo, entries, polls, turns, trail>>
             ELSE BackToIdle
  /\ UNCHANGED <<snapshots, made, calls>>

Withheld(c, t) == Carries[c] \cap t # {}
WithheldStep(prefix, t) == \E i \in DOMAIN prefix : Acts(prefix[i]) /\ Withheld(prefix[i].at, t)

(* The session registers its secrets before anything is looked at or       *)
(* loaded.                                                                 *)
TakeSession ==
  /\ phase = "session"
  /\ LET t == table \cup Registered(call.role)
     IN IF WithheldStep(call.prefix, t) THEN Halts
        ELSE /\ table' = t /\ phase' = "load"
             /\ UNCHANGED <<call, view, next, left, read, todo, entries, disk, groundBounds, ghosts>>

Load ==
  /\ phase = "load"
  /\ view' \in Views /\ phase' = "replay"
  /\ UNCHANGED <<call, table, next, left, read, todo, entries, disk, groundBounds, ghosts>>

NoTarget  == phase = "ignore" /\ Halts   \* undeclared, or refused by the guard
NoSession == phase = "session" /\ Halts  \* no Playwright, handlers, role or session

(* The browser, a load, a step, the first read or the write fails.         *)
Fails ==
  /\ \/ phase \in {"load", "act"}
     \/ phase = "replay" /\ next <= Len(call.prefix)
     \/ phase = "read" /\ polls = 0
     \/ phase = "count" /\ todo = {}
  /\ Halts

-----------------------------------------------------------------------------
StepNow == call.prefix[next]

ReplayGoto ==
  /\ phase = "replay" /\ next <= Len(call.prefix) /\ ~Acts(StepNow)
  /\ view' \in Views /\ next' = next + 1 /\ trail' = Append(trail, [step |-> StepNow, matches |-> 1])
  /\ UNCHANGED <<call, phase, table, left, read, todo, entries, disk, groundBounds, made>>

CountStep ==
  /\ phase = "replay" /\ next <= Len(call.prefix) /\ Acts(StepNow)
  /\ IF view.shows[StepNow.at] = 1
       THEN /\ phase' = "act"
            /\ UNCHANGED <<call, table, view, next, left, read, todo, entries, disk, groundBounds, ghosts>>
       ELSE Halts

(* A click or fill is strict: on any other number of matches it throws.    *)
ActStep ==
  /\ phase = "act" /\ view.shows[StepNow.at] = 1
  /\ view' \in Views /\ next' = next + 1 /\ phase' = "replay"
  /\ trail' = Append(trail, [step |-> StepNow, matches |-> view.shows[StepNow.at]])
  /\ UNCHANGED <<call, table, left, read, todo, entries, disk, groundBounds, made>>

(* classifyOverlayHandlers: one that writes needs a dedicated role.        *)
Active == {h \in Overlays : h \in Writes => call.role \in Dedicated}

(* A dismissal runs inside a click, a fill or the trial hover.             *)
Dismiss(p) ==
  /\ phase \in {"act", "hover"} /\ Active # {} /\ turns < MaxTurns
  /\ view' = p /\ left' = (left \/ p.at = Away) /\ turns' = turns + 1
  /\ UNCHANGED <<call, phase, table, next, read, todo, entries, disk, polls, calls, ghosts>>

(* The page changes by itself.                                             *)
Turns(p) ==
  /\ phase \in {"replay", "act", "hover", "read", "count"} /\ turns < MaxTurns
  /\ view' = p /\ turns' = turns + 1
  /\ UNCHANGED <<call, phase, table, next, left, read, todo, entries, disk, polls, calls, ghosts>>

Replayed ==
  /\ phase = "replay" /\ next > Len(call.prefix)
  /\ IF left THEN Halts
     ELSE /\ phase' = IF Active # {} THEN "hover" ELSE "read"
          /\ UNCHANGED <<call, table, view, next, left, read, todo, entries, disk, groundBounds, ghosts>>

NotLookedAgain == FALSE                                          \* mutant
LeftByNow      == left
Hovered ==
  /\ phase = "hover"
  /\ IF LeftByNow THEN Halts
     ELSE /\ phase' = "read"
          /\ UNCHANGED <<call, table, view, next, left, read, todo, entries, disk, groundBounds, ghosts>>

-----------------------------------------------------------------------------
ListedOn(shows) == {c \in Cands : shows[c] > 0}

(* waitForStableSnapshot.  An unreadable page resets the pair.             *)
TimeUp  == polls >= MaxPolls
ReadPage(now) ==
  /\ phase = "read" /\ now \in {view.shows, Nothing} /\ (polls = 0 => now # Nothing)
  /\ ~TimeUp
  /\ polls' = IF polls < MaxPolls THEN polls + 1 ELSE polls
  /\ IF polls > 0 /\ now # Nothing /\ now = read
       THEN phase' = "count" /\ todo' = ListedOn(now) /\ read' = Nothing
       ELSE read' = now /\ UNCHANGED <<phase, todo>>
  /\ UNCHANGED <<call, table, view, next, left, entries, disk, turns, calls, ghosts>>

Unstable == phase = "read" /\ polls > 0 /\ Halts

(* A candidate whose count fails is dropped.                               *)
Count(c, counted) ==
  /\ phase = "count" /\ c \in todo
  /\ todo' = todo \ {c}
  /\ entries' = IF counted THEN [x \in DOMAIN entries \cup {c} |->
                                   IF x = c THEN view.shows[c] ELSE entries[x]]
                ELSE entries
  /\ UNCHANGED <<call, phase, table, view, next, left, read, disk, groundBounds, ghosts>>

-----------------------------------------------------------------------------
RecordedPrefix == IF call.prefix = <<>> THEN Nothing ELSE <<Goto(call.route)>> \o call.prefix

(* groundSnapshotFileName.                                                 *)
NameOfPage(role, at, prefix) == <<role, Slug[at], Nothing>>          \* mutant
NameOf(role, at, prefix) ==
  <<role, Slug[at], IF prefix = Nothing THEN Nothing ELSE Digest(prefix)>>

Kept == {c \in DOMAIN entries : ~Withheld(c, table)}

(* A plain snapshot is keyed to the route asked for, wherever the page is; *)
(* one after a prefix to where the page is by now, which has to be home.   *)
Key == IF RecordedPrefix = Nothing THEN PathOf[call.route] ELSE view.at

With(f, n, v) == [x \in DOMAIN f \cup {n} |-> IF x = n THEN v ELSE f[x]]
Write ==
  /\ phase = "count" /\ todo = {}
  /\ IF Key = Away THEN Halts
     ELSE LET name == NameOf(call.role, Key, RecordedPrefix)
          IN /\ snapshots' = With(snapshots, name, [role |-> call.role, route |-> Key, prefix |-> RecordedPrefix,
                                            entries |-> [c \in Kept |-> entries[c]]])
             /\ made' = With(made, name, [call |-> call, trail |-> trail])
             /\ BackToIdle /\ UNCHANGED <<calls, rules>>

(* The operator edits or removes the ignore file.                          *)
EditIgnore(r) ==
  /\ phase = "idle" /\ calls < MaxCalls /\ rules # r /\ rules' = r
  /\ UNCHANGED <<call, phase, table, view, next, left, read, todo, entries, snapshots, groundBounds, ghosts>>

Finished == phase = "idle" /\ calls = MaxCalls /\ UNCHANGED groundVars

RunnerStep ==
  \/ NoTarget \/ NoSession \/ ProveIgnore \/ TakeSession \/ Load \/ Fails \/ ReplayGoto \/ CountStep \/ ActStep \/ Replayed \/ Hovered
  \/ \E now \in {view.shows : p \in {view} \ {Nothing}} \cup {Nothing} : ReadPage(now)
  \/ Unstable \/ Write
  \/ \E c \in Cands, counted \in BOOLEAN : Count(c, counted)

GroundNext ==
  \/ InitRun
  \/ \E role \in Roles, route \in Routes, prefix \in PrefixChoices, inside \in BOOLEAN :
       Begin(role, route, prefix, inside)
  \/ RunnerStep
  \/ \E p \in Views : Dismiss(p) \/ Turns(p)
  \/ \E r \in Edits : EditIgnore(r)
  \/ Finished

GroundSpec == GroundInit /\ [][GroundNext]_groundVars

-----------------------------------------------------------------------------
(* groundLocators: the snapshot taken after exactly the history of the     *)
(* case when there is one, else the plain one, of the role and the path.   *)
SnapshotsOf(role, at) == {n \in DOMAIN snapshots : snapshots[n].role = role /\ snapshots[n].route = at}
FoundAnyAfter(role, at, history) == SnapshotsOf(role, at)                  \* mutant
Found(role, at, history) ==
  LET after == {n \in SnapshotsOf(role, at) : snapshots[n].prefix = history}
  IN IF after # {} THEN after ELSE {n \in SnapshotsOf(role, at) : snapshots[n].prefix = Nothing}

Histories == {<<Goto(r)>> \o p : r \in Routes, p \in PrefixChoices}

(* The steps of a trail, each done while its element was the only match.   *)
DoneOn(t) == [i \in DOMAIN t |-> t[i].step]
Sure(t)   == \A i \in DOMAIN t : t[i].matches = 1

(* The state is one of the kinds the actions expect.                       *)
GroundTypeOK ==
  /\ phase \in {"idle", "ignore", "session", "load", "replay", "act", "hover", "read", "count"}
  /\ todo \subseteq Cands /\ DOMAIN entries \subseteq Cands /\ DOMAIN snapshots = DOMAIN made
  /\ rules \in SUBSET IgnoreRules \cup {Nothing} /\ left \in BOOLEAN /\ polls <= MaxPolls

(* However many calls share the directory, and whatever their file names   *)
(* collide on, a step of a case finds at most one snapshot, and that one   *)
(* was taken of a page shown to the same role: after exactly the           *)
(* interactions of the case, each on its only match, or after the route    *)
(* alone when the snapshot is plain.                                       *)
AnswersItsOwn ==
  \A role \in Roles, at \in Places, h \in Histories :
    LET found == Found(role, at, h)
    IN /\ Cardinality(found) <= 1
       /\ \A n \in found : LET m == made[n] IN
            /\ m.call.role = role /\ Sure(m.trail)
            /\ \/ <<Goto(m.call.route)>> \o DoneOn(m.trail) = h
               \/ m.trail = <<>> /\ PathOf[m.call.route] = at

(* No snapshot holds a name with a secret of the environment or of the     *)
(* session of its role, a declared one or one that looks like it, and no   *)
(* interaction was replayed on such a name.                                *)
SecretsWithheld ==
  \A n \in DOMAIN snapshots :
    LET mine  == Holds[snapshots[n].role]
        known == (Named \cup (mine \cap Declared) \cup ((mine \cap Clears) \ Public)) \ Short
        t == made[n].trail
    IN /\ \A c \in DOMAIN snapshots[n].entries : ~Withheld(c, known)
       /\ \A i \in DOMAIN t : Acts(t[i].step) => ~Withheld(t[i].step.at, known)

(* A snapshot after an interaction never replaces the plain one, nor the   *)
(* other way round, whatever the order of the calls.                       *)
KindsApart == [][\A n \in DOMAIN snapshots : (snapshots[n].prefix = Nothing) = (snapshots'[n].prefix = Nothing)]_snapshots

(* Once a dismissal has left the approved origin, the call writes nothing, *)
(* also when the page is back by then.                                     *)
LeftIsNotWritten == [][left => snapshots' = snapshots]_groundVars

-----------------------------------------------------------------------------
(* The inductive invariant behind the four.  What a call has replayed is   *)
(* the beginning of its prefix, each step on its only match, and all of it *)
(* once the call reads the page; ...                                       *)
ReplaysItsPrefix ==
  phase # "idle" =>
    /\ call \in [role : Roles, route : Routes, prefix : PrefixChoices, inside : BOOLEAN]
    /\ trail \in Seq([step : Moves, matches : {1}]) /\ next = Len(trail) + 1 /\ next <= Len(call.prefix) + 1
    /\ \A i \in 1..Len(trail) : trail[i].step = call.prefix[i]
    /\ phase = "act" => next <= Len(call.prefix)
    /\ phase \in {"hover", "read", "count"} => next = Len(call.prefix) + 1

(* ... by then it knows every secret of its session, none of which its     *)
(* prefix names, and no dismissal was seen to leave; ...                   *)
KnowsItsSecrets ==
  /\ AtStart \subseteq table
  /\ phase \notin {"idle", "ignore", "session"} =>
       Registered(call.role) \subseteq table /\ ~WithheldStep(call.prefix, table)
StayedHome == phase \in {"read", "count"} => ~left

(* ... and every snapshot says truly, in its name and in itself, of whom   *)
(* and after what it was taken.                                            *)
FiledAsMade ==
  /\ DOMAIN made = DOMAIN snapshots
  /\ \A n \in DOMAIN snapshots :
       LET f == snapshots[n]  m == made[n] IN
       /\ n = NameOf(f.role, f.route, f.prefix)
       /\ f.prefix # Nothing => Digest(f.prefix) # Nothing
       /\ m.call.role = f.role /\ Sure(m.trail)
       /\ IF f.prefix = Nothing THEN m.trail = <<>> /\ f.route = PathOf[m.call.route]
          ELSE f.prefix = <<Goto(m.call.route)>> \o DoneOn(m.trail)

AtRest == phase = "idle" => next = 1 /\ trail = <<>> /\ ~left

GroundInv ==
  /\ ReplaysItsPrefix /\ KnowsItsSecrets /\ StayedHome /\ AtRest
  /\ FiledAsMade /\ SecretsWithheld

=============================================================================
