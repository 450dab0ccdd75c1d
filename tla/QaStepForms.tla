---------------------------- MODULE QaStepForms ----------------------------
(***************************************************************************)
(* The closed vocabulary of plan steps in qa-run.mjs: what a step may      *)
(* carry, which locator form its keys make, and the words of a locator     *)
(* that must be grounded.                                                  *)
(*                                                                         *)
(* A step is the set of locator keys it carries and what the rules read of *)
(* the rest: "wellTyped" says that its values have the type and the length *)
(* the rules ask for and that the keys its action needs are there; a bad   *)
(* within or a key the action does not take is a step that is not.         *)
(***************************************************************************)
EXTENDS Integers

CONSTANTS
  Routes,    \* the static route keys a path can have
  NoRoute,   \* the null route: no goto or expect_url yet
  Names,     \* the variable names a step can use or bind
  NoName     \* stands for the absence of a bound name

ASSUME FormsAssumption == NoRoute \notin Routes /\ NoName \notin Names

Positive       == {"expect_visible", "expect_text", "expect_value", "expect_state"}
Interaction    == {"click", "fill"}
LocatorActions == Interaction \cup Positive \cup {"expect_not_visible"}
BrowserActions == LocatorActions \cup
  {"goto", "expect_url", "expect_requests", "judge", "read_message", "query"}
HttpActions    == {"request", "query"}
LocatorKeys    == {"selector", "role", "name", "name_prefix", "text", "label_text", "index"}

(* Where the literal of a fill, an expectation or a criterion comes from:  *)
(* the report's own words, the value of a chosen fill, a {{name}} binding, *)
(* anywhere else, or there is none.                                        *)
Literals == {"none", "report", "chosen", "bound", "other"}

StepShape ==
  [action    : BrowserActions \cup HttpActions,
   keys      : SUBSET LocatorKeys,
   scope     : {"none", "named", "anchor"},            \* within
   effect    : {"none", "write", "validation"},
   session   : BOOLEAN,                                \* carries a session key
   pattern   : BOOLEAN,                                \* expect_text by pattern
   wellTyped : BOOLEAN,
   literal   : Literals,
   zero      : BOOLEAN,                                \* expect_requests with count 0
   route     : Routes \cup {NoRoute},                  \* of a goto or expect_url path
   uses      : SUBSET Names,                           \* the {{name}} references
   binds     : Names \cup {NoName}]                    \* extract.as of a read_message

-----------------------------------------------------------------------------
(* locatorOf and scopedLocatorOf: the one form that a set of keys makes.   *)
Target(keys) ==
  CASE keys = {"role", "name"}        -> "role"
    [] keys = {"role", "name_prefix"} -> "role-prefix"
    [] keys = {"role", "index"}       -> "nth"
    [] keys = {"role"}                -> "role-any"
    [] keys = {"text"}                -> "text"
    [] keys = {"label_text"}          -> "label"
    [] OTHER                          -> "refused"

(* The scopes a form may have: an index and a bare role need one, an       *)
(* anchor text scopes a role that something else tells apart.              *)
ScopesOf(target) ==
  CASE target \in {"role", "role-prefix"} -> {"none", "named", "anchor"}
    [] target \in {"text", "label"}       -> {"none", "named"}
    [] target = "nth"                     -> {"named", "anchor"}
    [] target = "role-any"                -> {"named"}
    [] target = "refused"                 -> {}

HasLocator(s) == s.scope # "none" \/ s.keys \ {"selector"} # {}
LocatorOf(s)  == IF s.scope \in ScopesOf(Target(s.keys)) THEN Target(s.keys) ELSE "refused"
IsScoped(s)   == s.scope # "none" \/ LocatorOf(s) \notin {"role", "text"}

(* A control, whose value or state can be read.                            *)
IsControl(s) == LocatorOf(s) \notin {"refused", "text"}

(* The words groundLocators looks for: the scope's and the target's.       *)
Words(s) ==
       {w \in {"scope"}  : s.scope # "none"}
  \cup {w \in {"target"} : LocatorOf(s) \notin {"role-any", "nth", "refused"}}

-----------------------------------------------------------------------------
(* stepRules                                                               *)
EffectAllowed(s) ==
  CASE s.effect = "none"       -> TRUE
    [] s.effect = "write"      -> s.action \in Interaction \cup {"request"}
    [] s.effect = "validation" -> s.action = "click"

LocatorAllowed(s) ==
  /\ LocatorOf(s) # "refused"
  /\ LocatorOf(s) = "label"    => s.action \notin {"expect_text", "expect_not_visible"}
  /\ LocatorOf(s) = "role-any" => s.action = "expect_visible"
  /\ s.scope = "anchor"        => s.action \notin {"fill", "expect_value"}
  /\ s.action \in {"expect_value", "expect_state"} => IsControl(s)

(* Without a locator a step names its element by selector or not at all.   *)
SelectorAllowed(s) ==
  /\ s.action \in Interaction \cup {"expect_visible", "expect_text"}
  /\ "selector" \in s.keys

BrowserAllowed(s) ==
  /\ ~s.session
  /\ s.pattern => s.action = "expect_text" /\ HasLocator(s)
  /\ s.action \in LocatorActions =>
       IF HasLocator(s) THEN LocatorAllowed(s) ELSE SelectorAllowed(s)
  /\ s.action = "judge" => s.scope # "anchor"

Legal(driver, s) ==
  /\ s.wellTyped /\ EffectAllowed(s)
  /\ CASE s.action = "query" -> ~s.session
       [] s.action # "query" /\ driver = "http"    -> s.action = "request"
       [] s.action # "query" /\ driver = "browser" -> s.action # "request" /\ BrowserAllowed(s)

(* The steps that count as expectations; a request is one when it carries  *)
(* an expected status, body or value.                                      *)
Expects(s) ==
  \/ s.action \in Positive \cup {"expect_not_visible", "expect_url", "expect_requests",
                                 "judge", "query"}
  \/ s.action = "request" /\ s.literal # "none"

(* An assertion that nothing is there, or that nothing was sent.           *)
Absence(s) == s.action = "expect_not_visible" \/ (s.action = "expect_requests" /\ s.zero)
=============================================================================
