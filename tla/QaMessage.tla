----------------------------- MODULE QaMessage -----------------------------
(***************************************************************************)
(* The read_message steps of one browser case: what the runner reads from  *)
(* a mail catcher or from a file of text messages, while the application   *)
(* sends, the catcher drops messages, and the file is cut.                 *)
(*                                                                         *)
(* A message is known by the order it was sent in.  The file holds the     *)
(* messages after the first `dropped` ones, one a line, and a line counts  *)
(* as one byte.  Time is counted in ticks; a pause and a request that gets *)
(* no answer end on time.                                                  *)
(***************************************************************************)
EXTENDS Integers, Sequences

CONSTANTS
  Code,         \* the texts the expression finds a value of at least 4 characters in
  Short,        \* a text it finds a shorter value in
  NoMatch,      \* a text it does not match
  Other,        \* a line of the file for another recipient
  Sendable,     \* the texts the application sends
  Declared,     \* what channel_sources may declare
  Skew,         \* how far the clock of the catcher may be ahead of the runner's
  Wait,         \* READ_MESSAGE_WAIT_MS
  Poll,         \* READ_MESSAGE_POLL_MS
  Request,      \* the timeout of one request
  Reads,        \* the read_message steps of the case
  MaxClock,     \* bound on time
  MaxStart,     \* bound on when the case starts
  MaxMessages,  \* bound on the messages sent
  MaxLosses     \* bound on the purges and the cuts

(* executeCase has refused every other declaration before the driver runs. *)
Sources == {"mailpit", "file", "outside"}

Text == Code \cup {Short, NoMatch, Other}

ASSUME MessageAssumption ==
  /\ {Short, NoMatch, Other} \cap Code = {}
  /\ Short # NoMatch /\ Short # Other /\ NoMatch # Other
  /\ Sendable \subseteq Text /\ Declared \subseteq Sources /\ Skew \subseteq Int
  /\ Wait \in Nat /\ Poll \in Nat \ {0} /\ Request \in Nat
  /\ Reads \in Nat /\ {MaxClock, MaxStart, MaxMessages, MaxLosses} \subseteq Nat

VARIABLES
  clock,
  source,    \* what channel_sources declares: a catcher, or a file in or outside the target root
  skew,      \* how far the catcher's clock is ahead
  sent,      \* the messages sent so far, each with its time
  gone,      \* the messages the catcher no longer has
  dropped,   \* how many messages were cut from the head of the file
  losses,    \* the purges and the cuts so far
  started,   \* startedMs
  baseline,  \* smsBaseline
  first,     \* history: the messages sent before the case started
  pc,        \* where the driver stands
  since,     \* when the request or the pause in flight began
  deadline,  \* when the read gives up
  hit,       \* the message picked from the last listing, or 0
  listedAt,  \* history: when that listing was taken
  table,     \* the values registered for redaction
  bound,     \* the messages whose value later steps use
  result     \* what ended the case, "none" before and when nothing did

channelVars == <<source, skew, sent, gone, dropped, losses>>
caseVars    == <<started, baseline, first>>
readVars    == <<since, deadline, hit, listedAt>>
keptVars    == <<table, bound, result>>

vars == <<clock, channelVars, caseVars, pc, readVars, keptVars>>

Messages == 1..Len(sent)
Created(i) == sent[i].time + skew

IsMail == source = "mailpit"

Init ==
  /\ clock = 0 /\ source \in Declared /\ skew \in Skew
  /\ sent = <<>> /\ gone = {} /\ dropped = 0 /\ losses = 0
  /\ started = 0 /\ baseline = 0 /\ first = 0
  /\ pc = "before" /\ since = 0 /\ deadline = 0 /\ hit = 0 /\ listedAt = 0
  /\ table = {} /\ bound = <<>> /\ result = "none"

-----------------------------------------------------------------------------
(* The world around the runner.                                            *)
Asking == pc \in {"search", "listed", "detail"}

(* What is not waiting for an answer or for the pause to end takes no time.*)
Tick ==
  /\ clock < MaxClock
  /\ \/ pc = "before" /\ clock < MaxStart
     \/ pc = "step"
     \/ Asking /\ clock < since + Request
     \/ pc = "pause" /\ clock < since + Poll
  /\ clock' = clock + 1
  /\ UNCHANGED <<channelVars, caseVars, pc, readVars, keptVars>>

(* The case is over: what the channel does from then on is left out.       *)
Live == pc # "done"

Send(t) ==
  /\ Live /\ Len(sent) < MaxMessages /\ (IsMail => t # Other)
  /\ sent' = Append(sent, [time |-> clock, text |-> t])
  /\ UNCHANGED <<clock, source, skew, gone, dropped, losses, caseVars, pc, readVars, keptVars>>

Loses == Live /\ losses < MaxLosses /\ losses' = losses + 1

Purge(i) ==
  /\ Loses /\ IsMail /\ i \notin gone /\ gone' = gone \cup {i}
  /\ UNCHANGED <<clock, source, skew, sent, dropped, caseVars, pc, readVars, keptVars>>

(* The file is cut from its head, or emptied.                              *)
Cut(n) ==
  /\ Loses /\ ~IsMail /\ n > dropped /\ dropped' = n
  /\ UNCHANGED <<clock, source, skew, sent, gone, caseVars, pc, readVars, keptVars>>

-----------------------------------------------------------------------------
(* The browser steps begin.                                                *)
FileSize == Len(sent) - dropped
SmsBaseline == IF IsMail THEN 0 ELSE FileSize

StartCase ==
  /\ pc = "before" /\ pc' = "step"
  /\ started' = clock /\ first' = Len(sent)
  /\ baseline' = SmsBaseline
  /\ UNCHANGED <<clock, channelVars, readVars, keptVars>>

Settle(res) == pc' = "done" /\ result' = res

(* The bounds leave a read the time it may take.                           *)
NextRead ==
  /\ pc = "step" /\ Len(bound) < Reads
  /\ clock + Wait + Poll + 2 * Request <= MaxClock

(* The recipient, a capture of the case, is no plain address or number.    *)
RefuseRecipient ==
  /\ NextRead /\ Settle("blocked")
  /\ UNCHANGED <<clock, channelVars, caseVars, readVars, table, bound>>

(* The guard, asked again before the first request, finds it non-local.    *)
GuardRefuses ==
  /\ NextRead /\ IsMail /\ Settle("blocked")
  /\ UNCHANGED <<clock, channelVars, caseVars, readVars, table, bound>>

BeginRead ==
  /\ NextRead
  /\ pc' = IF IsMail THEN "search" ELSE "look"
  /\ since' = clock /\ deadline' = clock + Wait
  /\ UNCHANGED <<clock, channelVars, caseVars, hit, listedAt, keptVars>>

-----------------------------------------------------------------------------
(* readMailValue.  newestMailAfter picks the newest message received at or *)
(* after the start of the case; of several with one time, any may be first.*)
Received == Messages \ gone
AllReceived == Received                       \* mutant: no test of the time
SinceStarted == {i \in Received : Created(i) >= started}
AnyMail == SinceStarted                       \* mutant: the first one listed
NewestMail ==
  {i \in SinceStarted : \A j \in SinceStarted : Created(j) <= Created(i)}

List ==
  /\ pc = "search" /\ pc' = "listed"
  /\ \/ NewestMail = {} /\ hit' = 0
     \/ hit' \in NewestMail
  /\ listedAt' = clock
  /\ UNCHANGED <<clock, channelVars, caseVars, since, deadline, keptVars>>

ListAnswered ==
  /\ pc = "listed"
  /\ IF hit = 0 THEN pc' = "check" /\ UNCHANGED since
                ELSE pc' = "detail" /\ since' = clock
  /\ UNCHANGED <<clock, channelVars, caseVars, deadline, hit, listedAt, keptVars>>

Matches(i) == sent[i].text \in Code \cup {Short}

DetailAnswered ==
  /\ pc = "detail" /\ hit \notin gone
  /\ pc' = IF Matches(hit) THEN "got" ELSE "check"
  /\ UNCHANGED <<clock, channelVars, caseVars, readVars, keptVars>>

(* No answer in time, a status other than 200, or no JSON; the only end of *)
(* a request for a message that is gone.                                   *)
MailUnreachable ==
  /\ Asking /\ Settle("blocked")
  /\ UNCHANGED <<clock, channelVars, caseVars, readVars, table, bound>>

-----------------------------------------------------------------------------
(* readSmsValue: the last line for the recipient among the bytes past the  *)
(* baseline, or among all of them when the file is shorter than that.      *)
WholeFile == 0                                \* mutant: no baseline
Offset == IF FileSize >= baseline THEN baseline ELSE 0
SmsLines == {i \in Messages : i > dropped + Offset /\ sent[i].text # Other}
LastSms == {i \in SmsLines : \A j \in SmsLines : j <= i}

Look ==
  /\ pc = "look" /\ source = "file"
  /\ \/ LastSms = {} /\ hit' = 0 /\ pc' = "check"
     \/ hit' \in LastSms /\ pc' = IF Matches(hit') THEN "got" ELSE "check"
  /\ listedAt' = clock
  /\ UNCHANGED <<clock, channelVars, caseVars, since, deadline, keptVars>>

(* The file is not there yet.                                              *)
LookAtNothing ==
  /\ pc = "look" /\ source = "outside" /\ sent = <<>> /\ pc' = "check"
  /\ hit' = 0 /\ listedAt' = clock
  /\ UNCHANGED <<clock, channelVars, caseVars, since, deadline, keptVars>>

(* It leaves the target root, or cannot be read.                           *)
LookFails ==
  /\ pc = "look" /\ sent # <<>> /\ Settle("blocked")
  /\ UNCHANGED <<clock, channelVars, caseVars, readVars, table, bound>>

-----------------------------------------------------------------------------
(* The end of one attempt.                                                 *)
Expired == clock >= deadline

GiveUp ==
  /\ pc = "check" /\ Expired /\ Settle("fail")
  /\ UNCHANGED <<clock, channelVars, caseVars, readVars, table, bound>>

Pause ==
  /\ pc = "check" /\ ~Expired /\ pc' = "pause" /\ since' = clock
  /\ UNCHANGED <<clock, channelVars, caseVars, deadline, hit, listedAt, keptVars>>

Resume ==
  /\ pc = "pause" /\ clock >= since + Poll
  /\ pc' = IF IsMail THEN "search" ELSE "look"
  /\ since' = clock
  /\ UNCHANGED <<clock, channelVars, caseVars, deadline, hit, listedAt, keptVars>>

(* runReadMessage: a value is registered before anything is written.       *)
TooShort ==
  /\ pc = "got" /\ sent[hit].text = Short /\ Settle("blocked")
  /\ UNCHANGED <<clock, channelVars, caseVars, readVars, table, bound>>

Keep ==
  /\ pc = "got" /\ sent[hit].text # Short
  /\ table' = table \cup {sent[hit].text}
  /\ bound' = Append(bound, [message |-> hit, listed |-> listedAt])
  /\ pc' = "step"
  /\ UNCHANGED <<clock, channelVars, caseVars, readVars, result>>

EvidenceFails ==
  /\ pc = "got" /\ sent[hit].text # Short
  /\ table' = table \cup {sent[hit].text} /\ Settle("blocked")
  /\ UNCHANGED <<clock, channelVars, caseVars, readVars, bound>>

(* The case goes on without another read.                                  *)
NoMoreReads ==
  /\ pc = "step" /\ Settle("none")
  /\ UNCHANGED <<clock, channelVars, caseVars, readVars, table, bound>>

Ended == pc = "done" /\ UNCHANGED vars

-----------------------------------------------------------------------------
Channel ==
  \/ \E t \in Sendable : Send(t)
  \/ \E i \in Messages : Purge(i)
  \/ \E n \in Messages : Cut(n)

Driver ==
  \/ StartCase \/ RefuseRecipient \/ GuardRefuses \/ BeginRead \/ NoMoreReads
  \/ List \/ ListAnswered \/ DetailAnswered \/ MailUnreachable
  \/ Look \/ LookAtNothing \/ LookFails
  \/ GiveUp \/ Pause \/ Resume
  \/ TooShort \/ Keep \/ EvidenceFails

Next == Tick \/ Channel \/ Driver \/ Ended

Spec == Init /\ [][Next]_vars

-----------------------------------------------------------------------------
Message == [time : Nat, text : Text]
Bound == [message : Nat \ {0}, listed : Nat]
Attempting == pc \in {"search", "listed", "detail", "look", "check", "pause", "got"}

(* The type invariant of the channel, the read and what it keeps.          *)
TypeOK ==
  /\ clock \in Nat /\ source \in Sources /\ skew \in Skew
  /\ sent \in Seq(Message) /\ gone \subseteq Messages /\ dropped \in 0..Len(sent)
  /\ losses \in Nat
  /\ started \in Nat /\ baseline \in Nat /\ first \in 0..Len(sent)
  /\ pc \in {"before", "step", "done"} \/ Attempting
  /\ since \in Nat /\ deadline \in Nat /\ hit \in 0..Len(sent) /\ listedAt \in Nat
  /\ table \subseteq Text /\ bound \in Seq(Bound)
  /\ result \in {"none", "fail", "blocked"}

(***************************************************************************)
(* A value read from the catcher is of a message sent once the case had    *)
(* started, however the polls, the arrivals and the purges interleave.  It *)
(* is what newestMailAfter's test of the time is for.                      *)
(***************************************************************************)
MailIsOfTheCase ==
  IsMail => \A n \in DOMAIN bound : sent[bound[n].message].time >= started

(***************************************************************************)
(* A value is of the newest message there was when the list was read or    *)
(* the file looked at: a newer one has left the catcher.  So a later read  *)
(* of the case never goes back to an older message that was superseded.    *)
(***************************************************************************)
NewestIsRead ==
  \A n \in DOMAIN bound : \A j \in Messages :
    /\ sent[j].text # Other
    /\ sent[j].time > sent[bound[n].message].time
    /\ sent[j].time < bound[n].listed
    => j \in gone

(* Since the case started, the file lost lines.                            *)
WasCut == dropped # first - baseline

(***************************************************************************)
(* While nothing cuts the file, a value read from it is of a line written  *)
(* once the case had started.                                              *)
(***************************************************************************)
SmsIsOfTheCase ==
  ~IsMail /\ ~WasCut => \A n \in DOMAIN bound : bound[n].message > first

(***************************************************************************)
(* A read is over within its wait, one poll and the two requests that may  *)
(* be under way.                                                           *)
(***************************************************************************)
ReadIsBounded == Attempting => clock < deadline + Poll + 2 * Request

-----------------------------------------------------------------------------
(* The parts of the inductive invariant behind the safety properties.      *)

(* Messages are in the order they were sent, and the file only loses lines.*)
ChannelShape ==
  /\ \A i \in Messages : sent[i].time <= clock
  /\ \A i, j \in Messages : i < j => sent[i].time <= sent[j].time
  /\ started <= clock /\ listedAt <= clock
  /\ baseline <= first
  /\ pc # "before" /\ ~IsMail => dropped >= first - baseline
  /\ pc = "before" => bound = <<>> /\ first = 0

(* Where the driver stands in an attempt, and how long it may stay.        *)
AttemptShape ==
  /\ Asking => IsMail
  /\ pc = "look" => ~IsMail
  /\ pc \in {"search", "listed"} => since < deadline + Poll /\ clock <= since + Request
  /\ pc = "detail" => since < deadline + Poll + Request /\ clock <= since + Request
  /\ pc = "look" => clock < deadline + Poll
  /\ pc \in {"check", "got"} => clock < deadline + Poll + 2 * Request
  /\ pc = "pause" => since < deadline /\ clock <= since + Poll

(* No message that came in time to be read is newer than message i.        *)
NewestBy(i, t) ==
  \A j \in Messages :
    sent[j].text # Other /\ sent[j].time > sent[i].time /\ sent[j].time < t => j \in gone

(* What the message in hand is, from the listing to the value.             *)
HitShape ==
  /\ pc \in {"detail", "got"} => hit # 0
  /\ pc \in {"listed", "detail", "got"} /\ hit # 0 =>
       /\ NewestBy(hit, listedAt)
       /\ IsMail => Created(hit) >= started
       /\ ~IsMail /\ ~WasCut => hit > first

(* And what it was for the values that were kept.                          *)
BoundShape ==
  \A n \in DOMAIN bound :
    /\ bound[n].message \in Messages /\ bound[n].listed <= clock
    /\ NewestBy(bound[n].message, bound[n].listed)
    /\ IsMail => Created(bound[n].message) >= started
    /\ ~IsMail /\ ~WasCut => bound[n].message > first

(* The inductive invariant: every step of the system preserves it.         *)
IInv == TypeOK /\ ChannelShape /\ AttemptShape /\ HitShape /\ BoundShape
=============================================================================
