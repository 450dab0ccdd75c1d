-------------------------- MODULE QaMessage_proofs --------------------------
(***************************************************************************)
(* The safety properties of QaMessage, for every wait, poll and request    *)
(* time, and every sequence of messages, purges and cuts.                  *)
(***************************************************************************)
EXTENDS QaMessage, TLAPS

(* The types of a message and of what is kept of one.                      *)
LEMMA MessageTypes ==
  ASSUME IInv
  PROVE  /\ Len(sent) \in Nat
         /\ \A i \in Messages : i \in Nat /\ sent[i].time \in Nat /\ sent[i].text \in Text
<1>1. sent \in Seq(Message)
  BY DEF IInv, TypeOK
<1>2. \A i \in Messages : i \in Nat /\ sent[i] \in Message
  BY <1>1 DEF Messages
<1> QED
  BY <1>1, <1>2 DEF Message

LEMMA BoundTypes ==
  ASSUME IInv
  PROVE  \A n \in DOMAIN bound : bound[n].message \in Nat /\ bound[n].listed \in Nat
<1>1. bound \in Seq(Bound)
  BY DEF IInv, TypeOK
<1>2. \A n \in DOMAIN bound : bound[n] \in Bound
  BY <1>1
<1> QED
  BY <1>2 DEF Bound

(* A step of a case under way that leaves the clock, the channel and what  *)
(* was kept alone preserves what the invariant says of them.               *)
LEMMA StillShapes ==
  ASSUME IInv, UNCHANGED <<clock, channelVars, caseVars, bound>>,
         listedAt' <= clock, pc # "before", pc' # "before"
  PROVE  ChannelShape' /\ BoundShape'
<1>1. ChannelShape'
  BY DEF IInv, TypeOK, ChannelShape, channelVars, caseVars, Messages, IsMail
<1>2. BoundShape'
  BY DEF IInv, BoundShape, channelVars, caseVars, WasCut, IsMail, Messages, Created, NewestBy
<1> QED
  BY <1>1, <1>2

(* The message in hand is the same, or none is in hand.                    *)
LEMMA StillHit ==
  ASSUME IInv, UNCHANGED <<clock, channelVars, caseVars, hit, listedAt>>,
         pc' \in {"listed", "detail", "got"} => pc \in {"listed", "detail", "got"},
         pc' \in {"detail", "got"} => hit # 0
  PROVE  HitShape'
BY DEF IInv, HitShape, channelVars, caseVars, WasCut, IsMail, Messages, Created, NewestBy

(* The case ends, or goes on, with nothing in hand.                        *)
LEMMA SettleKeeps ==
  ASSUME IInv, pc # "before", NEW r \in {"none", "fail", "blocked"}, Settle(r),
         UNCHANGED <<clock, channelVars, caseVars, readVars, bound>>, table' \subseteq Text
  PROVE  IInv'
<1>1. TypeOK'
  BY DEF IInv, TypeOK, Settle, channelVars, caseVars, readVars, Messages, Attempting
<1>2. ChannelShape' /\ BoundShape'
  BY StillShapes DEF IInv, ChannelShape, Settle, readVars
<1>3. HitShape'
  BY StillHit DEF Settle, readVars
<1>4. AttemptShape'
  BY DEF Settle, AttemptShape, Asking
<1> QED
  BY <1>1, <1>2, <1>3, <1>4 DEF IInv

LEMMA InitHolds == Init => IInv
BY MessageAssumption DEF Init, IInv, TypeOK, ChannelShape, AttemptShape, HitShape, BoundShape,
   Messages, Attempting, Asking, IsMail, Text

-----------------------------------------------------------------------------
(* The world around the runner.                                            *)
LEMMA TickKeeps == ASSUME IInv, Tick PROVE IInv'
<1>1. clock \in Nat /\ clock' = clock + 1 /\ UNCHANGED <<channelVars, caseVars, pc, readVars, keptVars>>
  BY DEF Tick, IInv, TypeOK
<1>2. TypeOK'
  BY <1>1 DEF IInv, TypeOK, channelVars, caseVars, readVars, keptVars, Messages, Attempting
<1>3. ChannelShape'
  <2>1. started \in Nat /\ listedAt \in Nat
    BY DEF IInv, TypeOK
  <2> QED
    BY <1>1, <2>1, MessageTypes
    DEF IInv, ChannelShape, channelVars, caseVars, readVars, keptVars, Messages, IsMail
<1>4. AttemptShape'
  <2>1. since \in Nat /\ deadline \in Nat /\ Poll \in Nat /\ Request \in Nat
    BY MessageAssumption DEF IInv, TypeOK
  <2> QED
    BY <1>1, <2>1 DEF Tick, IInv, AttemptShape, Asking, readVars, channelVars, IsMail
<1>5. HitShape'
  BY <1>1 DEF IInv, HitShape, channelVars, readVars, caseVars, WasCut, IsMail, Messages, Created, NewestBy
<1>6. BoundShape'
  BY <1>1, BoundTypes DEF IInv, BoundShape, channelVars, keptVars, caseVars, WasCut, IsMail, Messages, Created, NewestBy
<1> QED
  BY <1>2, <1>3, <1>4, <1>5, <1>6 DEF IInv

(* A new message comes after the others, and too late for any listing.     *)
LEMMA SendKeeps == ASSUME IInv, NEW t \in Sendable, Send(t) PROVE IInv'
<1> DEFINE m == [time |-> clock, text |-> t]
<1>1. /\ sent' = Append(sent, m) /\ m \in Message
      /\ UNCHANGED <<clock, source, skew, gone, dropped, losses, caseVars, pc, readVars, keptVars>>
  BY MessageAssumption DEF Send, IInv, TypeOK, Message
<1>2. /\ sent' \in Seq(Message) /\ Len(sent') = Len(sent) + 1 /\ Len(sent) \in Nat
      /\ \A i \in Messages : sent'[i] = sent[i]
      /\ sent'[Len(sent) + 1] = m
  BY <1>1 DEF IInv, TypeOK, Messages
<1>3. Messages' = Messages \cup {Len(sent) + 1}
  BY <1>2 DEF Messages
<1>4. TypeOK'
  BY <1>1, <1>2, <1>3 DEF IInv, TypeOK, caseVars, readVars, keptVars, Attempting
<1>5. ChannelShape'
  <2>1. \A i \in Messages : sent[i].time \in Nat
    BY MessageTypes
  <2>2. \A i, j \in Messages' : i < j => i \in Messages
    BY <1>2 DEF Messages
  <2>3. \A i, j \in Messages' : i < j => sent'[i].time <= sent'[j].time
    BY <1>2, <1>3, <2>1, <2>2 DEF IInv, ChannelShape
  <2>4. \A i \in Messages' : sent'[i].time <= clock'
    <3>1. clock' = clock /\ clock \in Nat /\ sent'[Len(sent) + 1].time = clock
      BY <1>1, <1>2 DEF IInv, TypeOK
    <3>2. \A i \in Messages : sent'[i].time = sent[i].time /\ sent[i].time <= clock
      BY <1>2 DEF IInv, ChannelShape
    <3> QED
      BY <1>3, <3>1, <3>2
  <2> QED
    BY <1>1, <2>3, <2>4 DEF IInv, ChannelShape, caseVars, readVars, keptVars, IsMail
<1>6. AttemptShape'
  BY <1>1 DEF IInv, AttemptShape, Asking, readVars, IsMail
<1>7. WasCut' = WasCut /\ IsMail' = IsMail /\ \A i \in Messages : Created(i)' = Created(i)
  BY <1>1, <1>2 DEF caseVars, WasCut, IsMail, Created
<1>8. ASSUME NEW i \in Messages, NEW s \in Nat, s <= clock, NewestBy(i, s)
      PROVE  NewestBy(i, s)'
  <2>1. /\ clock \in Nat /\ gone' = gone
        /\ \A j \in Messages : sent'[j].time = sent[j].time /\ sent'[j].text = sent[j].text
    BY <1>1, <1>2 DEF IInv, TypeOK
  <2>2. ~(sent'[Len(sent) + 1].time < s)
    BY <1>2, <1>8, <2>1
  <2> QED
    BY <1>3, <1>8, <2>1, <2>2 DEF NewestBy
<1>9. HitShape'
  <2>1. hit # 0 => hit \in Messages
    BY DEF IInv, TypeOK, Messages
  <2> QED
    BY <1>1, <1>7, <1>8, <2>1 DEF IInv, TypeOK, ChannelShape, HitShape, readVars, caseVars
<1>10. BoundShape'
  <2>1. \A n \in DOMAIN bound : bound[n].listed \in Nat
    BY BoundTypes
  <2> QED
    BY <1>1, <1>3, <1>7, <1>8, <2>1 DEF IInv, BoundShape, keptVars, caseVars
<1> QED
  BY <1>4, <1>5, <1>6, <1>9, <1>10 DEF IInv

LEMMA PurgeKeeps == ASSUME IInv, NEW i \in Messages, Purge(i) PROVE IInv'
<1>1. /\ gone' = gone \cup {i} /\ losses' = losses + 1
      /\ UNCHANGED <<clock, source, skew, sent, dropped, caseVars, pc, readVars, keptVars>>
  BY DEF Purge, Loses
<1>2. TypeOK'
  BY <1>1 DEF IInv, TypeOK, caseVars, readVars, keptVars, Messages, Attempting
<1>3. ChannelShape' /\ AttemptShape'
  BY <1>1 DEF IInv, ChannelShape, AttemptShape, Asking, caseVars, readVars, keptVars, Messages, IsMail
<1>4. /\ WasCut' = WasCut /\ IsMail' = IsMail /\ Messages' = Messages
      /\ \A j : Created(j)' = Created(j)
      /\ \A j, t : NewestBy(j, t) => NewestBy(j, t)'
  BY <1>1 DEF caseVars, WasCut, IsMail, Messages, Created, NewestBy
<1>5. HitShape' /\ BoundShape'
  BY <1>1, <1>4 DEF IInv, HitShape, BoundShape, caseVars, readVars, keptVars
<1> QED
  BY <1>2, <1>3, <1>5 DEF IInv

(* A file that was cut stays one that was cut.                             *)
LEMMA CutKeeps == ASSUME IInv, NEW n \in Messages, Cut(n) PROVE IInv'
<1>1. /\ n > dropped /\ dropped' = n /\ losses' = losses + 1 /\ ~IsMail
      /\ UNCHANGED <<clock, source, skew, sent, gone, caseVars, pc, readVars, keptVars>>
  BY DEF Cut, Loses
<1>2. TypeOK'
  BY <1>1 DEF IInv, TypeOK, caseVars, readVars, keptVars, Messages, Attempting
<1>3. ChannelShape' /\ AttemptShape'
  BY <1>1 DEF IInv, TypeOK, ChannelShape, AttemptShape, Asking, caseVars, readVars, keptVars, Messages, IsMail
<1>4. /\ IsMail' = IsMail /\ Messages' = Messages
      /\ \A j : Created(j)' = Created(j)
      /\ \A j, t : NewestBy(j, t)' = NewestBy(j, t)
  BY <1>1 DEF IsMail, Messages, Created, NewestBy
<1>5. pc # "before" => WasCut'
  BY <1>1 DEF IInv, TypeOK, ChannelShape, WasCut, caseVars, Messages
<1>6. HitShape' /\ BoundShape'
  BY <1>1, <1>4, <1>5 DEF IInv, ChannelShape, HitShape, BoundShape, caseVars, readVars, keptVars
<1> QED
  BY <1>2, <1>3, <1>6 DEF IInv

-----------------------------------------------------------------------------
(* The case starts and a read begins.                                      *)
LEMMA StartKeeps == ASSUME IInv, StartCase PROVE IInv'
<1>1. /\ pc = "before" /\ pc' = "step" /\ bound = <<>>
      /\ started' = clock /\ first' = Len(sent)
      /\ baseline' \in {0, Len(sent) - dropped} /\ (~IsMail => baseline' = Len(sent) - dropped)
      /\ UNCHANGED <<clock, channelVars, readVars, keptVars>>
  BY DEF StartCase, SmsBaseline, FileSize, IInv, ChannelShape
<1>2. TypeOK'
  BY <1>1 DEF IInv, TypeOK, channelVars, readVars, keptVars, Messages, Attempting
<1>3. ChannelShape'
  BY <1>1 DEF IInv, TypeOK, ChannelShape, channelVars, readVars, keptVars, Messages, IsMail
<1>4. AttemptShape' /\ HitShape' /\ BoundShape'
  BY <1>1 DEF AttemptShape, Asking, HitShape, BoundShape, keptVars
<1> QED
  BY <1>2, <1>3, <1>4 DEF IInv

LEMMA BeginKeeps == ASSUME IInv, BeginRead PROVE IInv'
<1>1. /\ pc = "step" /\ pc' = IF IsMail THEN "search" ELSE "look"
      /\ since' = clock /\ deadline' = clock + Wait
      /\ UNCHANGED <<clock, channelVars, caseVars, hit, listedAt, keptVars>>
  BY DEF BeginRead, NextRead
<1>2. TypeOK'
  BY <1>1, MessageAssumption DEF IInv, TypeOK, channelVars, caseVars, keptVars, Messages, Attempting
<1>3. ChannelShape' /\ BoundShape'
  BY <1>1, StillShapes DEF IInv, ChannelShape, keptVars
<1>4. HitShape'
  BY <1>1, StillHit
<1>5. AttemptShape'
  BY <1>1, MessageAssumption DEF IInv, TypeOK, AttemptShape, Asking, IsMail, channelVars
<1> QED
  BY <1>2, <1>3, <1>4, <1>5 DEF IInv

-----------------------------------------------------------------------------
(* An attempt.  Of the messages listed, the one picked is the newest.      *)
LEMMA ListKeeps == ASSUME IInv, List PROVE IInv'
<1>1. /\ pc = "search" /\ pc' = "listed" /\ listedAt' = clock
      /\ hit' = 0 \/ hit' \in NewestMail
      /\ UNCHANGED <<clock, channelVars, caseVars, since, deadline, keptVars>>
  BY DEF List
<1>2. hit' # 0 => hit' \in Messages /\ hit' \in NewestMail
  BY <1>1 DEF NewestMail, SinceStarted, Received
<1>3. TypeOK'
  BY <1>1, <1>2 DEF IInv, TypeOK, channelVars, caseVars, keptVars, Messages, Attempting
<1>4. ChannelShape' /\ BoundShape'
  BY <1>1, StillShapes DEF IInv, TypeOK, keptVars
<1>5. AttemptShape'
  BY <1>1 DEF IInv, AttemptShape, Asking, IsMail, channelVars
<1>6. ASSUME hit' # 0 PROVE NewestBy(hit', listedAt') /\ Created(hit') >= started
  <2>1. /\ hit' \in SinceStarted
        /\ \A j \in SinceStarted : Created(j) <= Created(hit')
    BY <1>2, <1>6 DEF NewestMail
  <2>2. /\ skew \in Int
        /\ \A j \in Messages : sent[j].time \in Nat
    BY MessageAssumption, MessageTypes DEF IInv, TypeOK
  <2>3. started \in Nat
    BY DEF IInv, TypeOK
  <2> QED
    BY <1>2, <1>6, <2>1, <2>2, <2>3 DEF NewestBy, SinceStarted, Received, Created
<1>7. HitShape'
  <2>1. IsMail
    BY <1>1 DEF IInv, AttemptShape, Asking
  <2> QED
    BY <1>1, <1>2, <1>6, <2>1 DEF HitShape, NewestBy, Created, Messages, channelVars, caseVars, IsMail
<1> QED
  BY <1>3, <1>4, <1>5, <1>7 DEF IInv

LEMMA ListAnsweredKeeps == ASSUME IInv, ListAnswered PROVE IInv'
<1>1. /\ pc = "listed"
      /\ \/ hit = 0 /\ pc' = "check" /\ since' = since
         \/ hit # 0 /\ pc' = "detail" /\ since' = clock
      /\ UNCHANGED <<clock, channelVars, caseVars, deadline, hit, listedAt, keptVars>>
  BY DEF ListAnswered
<1>2. TypeOK'
  BY <1>1 DEF IInv, TypeOK, channelVars, caseVars, keptVars, Messages, Attempting
<1>3. ChannelShape' /\ BoundShape'
  BY <1>1, StillShapes DEF IInv, ChannelShape, keptVars
<1>4. HitShape'
  BY <1>1, StillHit
<1>5. AttemptShape'
  BY <1>1, MessageAssumption DEF IInv, TypeOK, AttemptShape, Asking, IsMail, channelVars
<1> QED
  BY <1>2, <1>3, <1>4, <1>5 DEF IInv

LEMMA DetailAnsweredKeeps == ASSUME IInv, DetailAnswered PROVE IInv'
<1>1. /\ pc = "detail" /\ pc' \in {"got", "check"}
      /\ UNCHANGED <<clock, channelVars, caseVars, readVars, keptVars>>
  BY DEF DetailAnswered
<1>2. TypeOK'
  BY <1>1 DEF IInv, TypeOK, channelVars, caseVars, readVars, keptVars, Messages, Attempting
<1>3. ChannelShape' /\ BoundShape'
  BY <1>1, StillShapes DEF IInv, ChannelShape, keptVars, readVars
<1>4. HitShape'
  <2>1. hit # 0
    BY <1>1 DEF IInv, HitShape
  <2> QED
    BY <1>1, <2>1, StillHit DEF readVars
<1>5. AttemptShape'
  BY <1>1, MessageAssumption DEF IInv, TypeOK, AttemptShape, Asking, readVars
<1> QED
  BY <1>2, <1>3, <1>4, <1>5 DEF IInv

(* Of the lines past the baseline, the last one is the newest of the file; *)
(* it was written in the case if nothing was cut.                          *)
LEMMA LookKeeps == ASSUME IInv, Look PROVE IInv'
<1>1. /\ pc = "look" /\ pc' \in {"got", "check"} /\ listedAt' = clock
      /\ (hit' = 0 /\ pc' = "check") \/ hit' \in LastSms
      /\ UNCHANGED <<clock, channelVars, caseVars, since, deadline, keptVars>>
  BY DEF Look
<1>2. hit' # 0 => hit' \in LastSms /\ hit' \in Messages /\ hit' > dropped + Offset
  BY <1>1 DEF LastSms, SmsLines
<1>3. hit' # 0 \/ pc' = "check"
  BY <1>1 DEF LastSms, SmsLines, Messages
<1>4. TypeOK'
  BY <1>1, <1>2 DEF IInv, TypeOK, channelVars, caseVars, keptVars, Messages, Attempting
<1>5. ChannelShape' /\ BoundShape'
  BY <1>1, StillShapes DEF IInv, TypeOK, keptVars
<1>6. AttemptShape'
  BY <1>1, MessageAssumption DEF IInv, TypeOK, AttemptShape, Asking
<1>7. Offset \in Nat /\ dropped \in Nat
  BY DEF IInv, TypeOK, Offset, FileSize
<1>8. ASSUME hit' # 0 PROVE NewestBy(hit', listedAt')
  <2>1. ASSUME NEW j \in Messages, sent[j].time > sent[hit'].time, sent[j].text # Other
        PROVE  FALSE
    <3>1. \A i \in Messages : i \in Nat /\ sent[i].time \in Nat
      BY MessageTypes
    <3>2. j > hit'
      BY <1>2, <1>8, <2>1, <3>1 DEF IInv, ChannelShape
    <3>3. j \in SmsLines
      BY <1>2, <1>7, <1>8, <2>1, <3>1, <3>2 DEF SmsLines
    <3> QED
      BY <1>2, <1>8, <3>1, <3>2, <3>3 DEF LastSms
  <2> QED
    BY <2>1 DEF NewestBy
<1>9. ASSUME hit' # 0, ~WasCut PROVE hit' > first
  <2>1. dropped = first - baseline /\ first <= Len(sent)
    BY <1>9 DEF WasCut, IInv, TypeOK
  <2>2. Offset = baseline
    BY <2>1 DEF Offset, FileSize, IInv, TypeOK
  <2> QED
    BY <1>2, <1>9, <2>1, <2>2 DEF IInv, TypeOK, Messages
<1>10. HitShape'
  <2>1. ~IsMail
    BY <1>1 DEF IInv, AttemptShape
  <2> QED
    BY <1>1, <1>2, <1>3, <1>8, <1>9, <2>1
    DEF HitShape, NewestBy, Messages, WasCut, channelVars, caseVars, IsMail
<1> QED
  BY <1>4, <1>5, <1>6, <1>10 DEF IInv

LEMMA LookAtNothingKeeps == ASSUME IInv, LookAtNothing PROVE IInv'
<1>1. /\ pc = "look" /\ pc' = "check" /\ hit' = 0 /\ listedAt' = clock
      /\ UNCHANGED <<clock, channelVars, caseVars, since, deadline, keptVars>>
  BY DEF LookAtNothing
<1>2. TypeOK'
  BY <1>1 DEF IInv, TypeOK, channelVars, caseVars, keptVars, Messages, Attempting
<1>3. ChannelShape' /\ BoundShape'
  BY <1>1, StillShapes DEF IInv, TypeOK, keptVars
<1>4. AttemptShape' /\ HitShape'
  BY <1>1, MessageAssumption DEF IInv, TypeOK, AttemptShape, Asking, HitShape
<1> QED
  BY <1>2, <1>3, <1>4 DEF IInv

-----------------------------------------------------------------------------
(* Between two attempts, and the value.                                    *)
LEMMA PauseKeeps == ASSUME IInv, Pause PROVE IInv'
<1>1. /\ pc = "check" /\ clock < deadline /\ pc' = "pause" /\ since' = clock
      /\ UNCHANGED <<clock, channelVars, caseVars, deadline, hit, listedAt, keptVars>>
  BY DEF Pause, Expired, IInv, TypeOK
<1>2. TypeOK'
  BY <1>1 DEF IInv, TypeOK, channelVars, caseVars, keptVars, Messages, Attempting
<1>3. ChannelShape' /\ BoundShape'
  BY <1>1, StillShapes DEF IInv, ChannelShape, keptVars
<1>4. AttemptShape' /\ HitShape'
  BY <1>1, MessageAssumption DEF IInv, TypeOK, AttemptShape, Asking, HitShape
<1> QED
  BY <1>2, <1>3, <1>4 DEF IInv

LEMMA ResumeKeeps == ASSUME IInv, Resume PROVE IInv'
<1>1. /\ pc = "pause" /\ pc' = (IF IsMail THEN "search" ELSE "look") /\ since' = clock
      /\ UNCHANGED <<clock, channelVars, caseVars, deadline, hit, listedAt, keptVars>>
  BY DEF Resume
<1>2. TypeOK'
  BY <1>1 DEF IInv, TypeOK, channelVars, caseVars, keptVars, Messages, Attempting
<1>3. ChannelShape' /\ BoundShape'
  BY <1>1, StillShapes DEF IInv, ChannelShape, keptVars
<1>4. clock < deadline + Poll
  BY <1>1, MessageAssumption DEF IInv, TypeOK, AttemptShape
<1>5. AttemptShape'
  BY <1>1, <1>4, MessageAssumption DEF IInv, TypeOK, AttemptShape, Asking, IsMail, channelVars
<1>6. HitShape'
  BY <1>1 DEF HitShape
<1> QED
  BY <1>2, <1>3, <1>5, <1>6 DEF IInv

LEMMA KeepKeeps == ASSUME IInv, Keep PROVE IInv'
<1> DEFINE b == [message |-> hit, listed |-> listedAt]
<1>1. /\ pc = "got" /\ pc' = "step" /\ bound' = Append(bound, b)
      /\ table' = table \cup {sent[hit].text}
      /\ UNCHANGED <<clock, channelVars, caseVars, readVars, result>>
  BY DEF Keep
<1>2. hit # 0 /\ hit \in Messages
  BY <1>1 DEF IInv, TypeOK, HitShape, Messages
<1>3. b \in Bound /\ sent[hit].text \in Text
  BY <1>2, MessageTypes DEF IInv, TypeOK, Bound
<1>4. TypeOK'
  BY <1>1, <1>3 DEF IInv, TypeOK, channelVars, caseVars, readVars, Messages, Attempting
<1>5. ChannelShape' /\ AttemptShape' /\ HitShape'
  BY <1>1 DEF IInv, TypeOK, ChannelShape, AttemptShape, HitShape, Asking, channelVars, caseVars, readVars,
     Messages, IsMail
<1>6. ASSUME NEW n \in DOMAIN bound'
      PROVE  bound'[n] = b \/ (n \in DOMAIN bound /\ bound'[n] = bound[n])
  <2>1. bound \in Seq(Bound)
    BY DEF IInv, TypeOK
  <2> QED
    BY <1>1, <1>3, <1>6, <2>1
<1>7. /\ b.message \in Messages /\ b.listed <= clock
      /\ NewestBy(b.message, b.listed)
      /\ IsMail => Created(b.message) >= started
      /\ ~IsMail /\ ~WasCut => b.message > first
  BY <1>1, <1>2 DEF IInv, ChannelShape, HitShape
<1>8. BoundShape'
  BY <1>1, <1>6, <1>7 DEF IInv, BoundShape, channelVars, caseVars, WasCut, IsMail, Messages, Created, NewestBy
<1> QED
  BY <1>4, <1>5, <1>8 DEF IInv

(* What ends the case, or the part of it that is modelled.                 *)
LEMMA EndsKeep ==
  ASSUME IInv,
         RefuseRecipient \/ GuardRefuses \/ NoMoreReads \/ MailUnreachable \/ LookFails
           \/ GiveUp \/ TooShort \/ EvidenceFails
  PROVE  IInv'
<1>1. /\ pc # "before"
      /\ \E r \in {"none", "fail", "blocked"} : Settle(r)
      /\ UNCHANGED <<clock, channelVars, caseVars, readVars, bound>>
  BY DEF RefuseRecipient, GuardRefuses, NextRead, NoMoreReads, MailUnreachable, Asking, LookFails, GiveUp,
     TooShort, EvidenceFails
<1>2. pc = "got" => sent[hit].text \in Text
  BY MessageTypes DEF IInv, TypeOK, HitShape, Messages
<1>3. table' \subseteq Text
  BY <1>2 DEF IInv, TypeOK, RefuseRecipient, GuardRefuses, NoMoreReads, MailUnreachable, LookFails, GiveUp,
     TooShort, EvidenceFails
<1> QED
  BY <1>1, <1>3, SettleKeeps

-----------------------------------------------------------------------------
LEMMA NextKeeps == IInv /\ [Next]_vars => IInv'
<1> SUFFICES ASSUME IInv, [Next]_vars PROVE IInv'
  OBVIOUS
<1>1. CASE UNCHANGED vars
  <2>1. UNCHANGED <<clock, channelVars, caseVars, pc, readVars, keptVars>>
    BY <1>1 DEF vars
  <2>2. TypeOK' /\ ChannelShape' /\ AttemptShape'
    BY <2>1 DEF IInv, TypeOK, ChannelShape, AttemptShape, Attempting, Asking, channelVars, caseVars, readVars,
       keptVars, Messages, IsMail
  <2>3. HitShape' /\ BoundShape'
    BY <2>1 DEF IInv, HitShape, BoundShape, channelVars, caseVars, readVars, keptVars,
       WasCut, IsMail, Messages, Created, NewestBy
  <2> QED
    BY <2>2, <2>3 DEF IInv
<1>2. CASE Tick
  BY <1>2, TickKeeps
<1>3. CASE Channel
  BY <1>3, SendKeeps, PurgeKeeps, CutKeeps DEF Channel
<1>4. CASE Driver
  BY <1>4, StartKeeps, BeginKeeps, ListKeeps, ListAnsweredKeeps, DetailAnsweredKeeps, LookKeeps,
     LookAtNothingKeeps, PauseKeeps, ResumeKeeps, KeepKeeps, EndsKeep DEF Driver
<1> QED
  BY <1>1, <1>2, <1>3, <1>4 DEF Next, Ended

LEMMA Invariance == Spec => []IInv
BY InitHolds, NextKeeps, PTL DEF Spec

(* The state of the channel, the read and what it keeps has its type.      *)
THEOREM TypeCorrect == Spec => []TypeOK
BY Invariance, PTL DEF IInv

(* Under a catcher whose clock is not ahead of the runner's, every value   *)
(* read from it is of a message sent once the case had started.            *)
THEOREM MailFresh ==
  ASSUME \A s \in Skew : s <= 0
  PROVE  Spec => []MailIsOfTheCase
<1>1. IInv => MailIsOfTheCase
  <2> SUFFICES ASSUME IInv, IsMail, NEW n \in DOMAIN bound
               PROVE  sent[bound[n].message].time >= started
    BY DEF MailIsOfTheCase
  <2>1. bound[n].message \in Messages /\ sent[bound[n].message].time + skew >= started
    BY DEF IInv, BoundShape, Created
  <2>2. sent[bound[n].message].time \in Nat /\ skew \in Int /\ skew <= 0 /\ started \in Nat
    BY <2>1, MessageAssumption, MessageTypes DEF IInv, TypeOK
  <2> QED
    BY <2>1, <2>2
<1> QED
  BY <1>1, Invariance, PTL

(* A value is of the newest message there was, whichever the channel.      *)
THEOREM NewestRead == Spec => []NewestIsRead
<1>1. IInv => NewestIsRead
  BY DEF IInv, BoundShape, NewestIsRead, NewestBy
<1> QED
  BY <1>1, Invariance, PTL

(* A value read from a file that was not cut is of a line of the case.     *)
THEOREM SmsFresh == Spec => []SmsIsOfTheCase
<1>1. IInv => SmsIsOfTheCase
  BY DEF IInv, BoundShape, SmsIsOfTheCase
<1> QED
  BY <1>1, Invariance, PTL

(* A read is over in time, whatever the catcher does.                      *)
THEOREM ReadsAreBounded == Spec => []ReadIsBounded
<1>1. IInv => ReadIsBounded
  BY MessageAssumption DEF IInv, TypeOK, AttemptShape, ReadIsBounded, Attempting
<1> QED
  BY <1>1, Invariance, PTL
=============================================================================
