---------------------------- MODULE UsageMetrics ----------------------------
(***************************************************************************)
(* `usage-metrics.mjs`: a table of what the pipeline did, one shard per    *)
(* month and relation, that is rebuilt from the verdict logs and the run   *)
(* records whenever an operator asks for it.                               *)
(*                                                                         *)
(* Reviewers append to the logs and the orchestrator and its ledger        *)
(* rewrite the run record while a materialization lists and reads them one *)
(* by one; it may be killed between any two of its steps, and a query      *)
(* reads whatever shards it finds.                                         *)
(***************************************************************************)
EXTENDS Integers, Sequences, FiniteSets, SequencesExt

CONSTANTS
  Logs,        \* the verdict logs, in the order of their names
  Months,      \* the months of the instants, in order; the last for none
  Bad,         \* a line that does not parse
  Absent,      \* no run record
  Torn,        \* a run record that is being written
  MaxLines,    \* bound: lines of all logs
  MaxMats,     \* bound: materializations
  MaxRewrites, \* bound: times the run record is written
  MaxClock     \* bound: the latest second

ASSUME MetricsAssumption ==
  /\ Logs \in Seq(ToSet(Logs)) /\ IsInjective(Logs)
  /\ Months \in Seq(ToSet(Months)) /\ IsInjective(Months)
  /\ Bad \notin ToSet(Months) /\ {Absent, Torn} \cap ToSet(Months) = {} /\ Absent # Torn
  /\ {MaxLines, MaxMats, MaxRewrites, MaxClock} \subseteq Nat

VARIABLES
  place,      \* the directory of each log
  lines,      \* the lines of each log
  runRecord,     \* orchestrator-run.json: Absent, Torn, or the month of its row
  ledger,     \* what the ledger is writing back into it, or Absent
  shard,      \* the shards: {} for none, or the one content it has
  tmp,        \* the .tmp file beside each of them, likewise
  attributes, \* is .gitattributes there?
  mat,        \* the materialization: where it stands and what it has read
  clock,      \* the second the last materialization started in
  bounds,     \* history: how many materializations and rewrites there were
  due,        \* history: rows there were at the start and nobody touched
  fresh       \* history: "yes" if the last materialization finished and
              \* missed no log, "so far" while it runs, or "no"

sources == <<place, lines, runRecord, ledger>>
files   == <<shard, tmp, attributes>>
metricsVars    == <<sources, files, mat, clock, bounds, due, fresh>>

LogSet   == ToSet(Logs)
MonthSet == ToSet(Months)

-----------------------------------------------------------------------------
(* The rows of a log: one verdict row and one rubric row per line that     *)
(* parses, numbered in the order of those lines.                           *)
Parsed(l) == {i \in 1..Len(lines[l]) : lines[l][i] # Bad}
Number(l, i) == Cardinality({j \in Parsed(l) : j <= i})
RowsOf(l) ==
  {[rel |-> rel, key |-> <<l, Number(l, i)>>, month |-> lines[l][i]] :
     rel \in {"verdict", "rubric"}, i \in Parsed(l)}

(* The row of a run record that parses.                                    *)
RunRows == {[rel |-> "run", key |-> "phase", month |-> m] : m \in {runRecord} \cap MonthSet}

Corpus == UNION {RowsOf(l) : l \in LogSet}

(* A row goes to the shard of its relation and of its own month; the scans *)
(* share one.  Shards are written in the order of their names.             *)
ScanShard == <<"scan", "all">>
Of(rel) == [i \in 1..Len(Months) |-> <<rel, Months[i]>>]
ShardNames == Of("rubric") \o Of("run") \o <<ScanShard>> \o Of("verdict")
ShardOf(row) == <<row.rel, row.month>>
Planned(rows) == {i \in DOMAIN ShardNames : ShardNames[i] = ScanShard \/ \E r \in rows : ShardOf(r) = ShardNames[i]}
First(S) == CHOOSE i \in S : \A j \in S : i <= j

(* What a shard is to hold: the rows read for it, or the scans so far and  *)
(* this one, unless one of the same second is there.                       *)
Scans == UNION shard[ScanShard]
ThisScan == [ts |-> mat.now, verdicts |-> Cardinality({r \in mat.rows : r.rel = "verdict"})]
OnlyThisScan == {ThisScan}   \* mutant
AllScans == IF \E s \in Scans : s.ts = mat.now THEN Scans ELSE Scans \cup {ThisScan}
Content(n) == IF n = ScanShard THEN AllScans ELSE {r \in mat.rows : ShardOf(r) = n}

Idle == [pc |-> "idle", todo |-> {}, rows |-> {}, names |-> {}, now |-> 0]

MetricsInit ==
  /\ place = [l \in LogSet |-> "plans"] /\ lines = [l \in LogSet |-> <<>>]
  /\ runRecord \in {Absent} \cup MonthSet /\ ledger = Absent
  /\ shard = [n \in ToSet(ShardNames) |-> {}] /\ tmp = shard /\ attributes = FALSE
  /\ mat = Idle /\ clock = 0 /\ bounds = [mats |-> 0, rewrites |-> 0]
  /\ due = {} /\ fresh = "no"

-----------------------------------------------------------------------------
(* A reviewer appends its verdict; it may write a line that is not JSON.   *)
Review(l) ==
  /\ Len(FlattenSeq([i \in 1..Len(Logs) |-> lines[Logs[i]]])) < MaxLines
  /\ \E x \in MonthSet \cup {Bad} : lines' = [lines EXCEPT ![l] = Append(@, x)]
  /\ UNCHANGED <<place, runRecord, ledger, files, mat, clock, bounds, due, fresh>>

(* The paths a log may have, in the order in which they are listed and     *)
(* read: the plans, then the completed plans.                              *)
Path(i) == IF i <= Len(Logs) THEN <<"plans", Logs[i]>> ELSE <<"completed", Logs[i - Len(Logs)]>>
PathsUnder(dir) == {i \in 1..(2 * Len(Logs)) : Path(i) = <<dir, Path(i)[2]>> /\ place[Path(i)[2]] = dir}

(* An operator files a log with its completed plan.  A materialization     *)
(* that has listed both directories and not read it will not find it.      *)
Unread(l) == mat.pc = "read" /\ \E i \in mat.todo : Path(i) = <<"plans", l>>
Archive(l) ==
  /\ place[l] = "plans" /\ place' = [place EXCEPT ![l] = "completed"]
  /\ due' = IF Unread(l) THEN due \ RowsOf(l) ELSE due
  /\ fresh' = IF Unread(l) THEN "no" ELSE fresh
  /\ UNCHANGED <<lines, runRecord, ledger, files, mat, clock, bounds>>

(* The orchestrator writes the record of a session; the ledger check adds  *)
(* its deviations by writing the whole file again, in place.               *)
Rewrite(to) ==
  /\ runRecord' = to /\ due' = {r \in due : r.rel # "run"}
  /\ UNCHANGED <<place, lines, files, mat, clock, fresh>>
RecordRun(m) ==
  /\ ledger = Absent /\ bounds.rewrites < MaxRewrites
  /\ Rewrite(m) /\ ledger' = ledger /\ bounds' = [bounds EXCEPT !.rewrites = @ + 1]
LedgerOpens ==
  /\ ledger = Absent /\ runRecord \in MonthSet /\ bounds.rewrites < MaxRewrites
  /\ Rewrite(Torn) /\ ledger' = runRecord /\ bounds' = [bounds EXCEPT !.rewrites = @ + 1]
LedgerFills ==
  /\ ledger # Absent /\ Rewrite(ledger) /\ ledger' = Absent /\ UNCHANGED bounds

-----------------------------------------------------------------------------
(* A materialization takes its instant, in the second of the last one or   *)
(* later, and lists the plans, ...                                         *)
Materialize ==
  /\ mat.pc = "idle" /\ bounds.mats < MaxMats
  /\ clock' \in clock..MaxClock
  /\ mat' = [Idle EXCEPT !.pc = "list", !.now = clock', !.todo = PathsUnder("plans")]
  /\ bounds' = [bounds EXCEPT !.mats = @ + 1]
  /\ due' = Corpus \cup RunRows /\ fresh' = "so far"
  /\ UNCHANGED <<sources, files>>

(* ... then the completed plans: a log filed in between is listed twice.   *)
ForgetsCompleted(todo) == todo   \* mutant
ThenCompleted(todo) == todo \cup PathsUnder("completed")
ListCompleted ==
  /\ mat.pc = "list"
  /\ mat' = [mat EXCEPT !.pc = "read", !.todo = ThenCompleted(@)]
  /\ UNCHANGED <<sources, files, clock, bounds, due, fresh>>

(* It reads one log after the other; one that has gone has no rows.        *)
ReadLog ==
  /\ mat.pc = "read" /\ mat.todo # {}
  /\ LET path == Path(First(mat.todo)) IN
     mat' = [mat EXCEPT !.todo = @ \ {First(@)},
                        !.rows = IF place[path[2]] = path[1] THEN @ \cup RowsOf(path[2]) ELSE @]
  /\ UNCHANGED <<sources, files, clock, bounds, due, fresh>>

(* It reads the run record, and plans the shards its rows go to.           *)
ReadRecord ==
  /\ mat.pc = "read" /\ mat.todo = {}
  /\ LET rows == mat.rows \cup RunRows IN
     mat' = [mat EXCEPT !.pc = "scaffold", !.rows = rows, !.names = Planned(rows)]
  /\ UNCHANGED <<sources, files, clock, bounds, due, fresh>>

(* With --dry-run it only prints what it would write.                      *)
DryRunEnds ==
  /\ mat.pc = "scaffold" /\ mat' = Idle /\ fresh' = "no"
  /\ UNCHANGED <<sources, files, clock, bounds, due>>

(* The directory gets its .gitattributes before any shard.                 *)
Scaffold ==
  /\ mat.pc = "scaffold" /\ mat' = [mat EXCEPT !.pc = "write"] /\ attributes' = TRUE
  /\ UNCHANGED <<sources, shard, tmp, clock, bounds, due, fresh>>

(* writeAtomic: the shard's rows into its .tmp file, ...                   *)
Current == ShardNames[First(mat.names)]
WriteTmp ==
  /\ mat.pc = "write" /\ mat' = [mat EXCEPT !.pc = "rename"]
  /\ tmp' = [tmp EXCEPT ![Current] = {Content(Current)}]
  /\ UNCHANGED <<sources, shard, attributes, clock, bounds, due, fresh>>

(* ... and that over the shard.  Shards nothing was planned for stay.      *)
Rename ==
  LET last == mat.names = {First(mat.names)} IN
  /\ mat.pc = "rename"
  /\ shard' = [shard EXCEPT ![Current] = tmp[Current]] /\ tmp' = [tmp EXCEPT ![Current] = {}]
  /\ mat' = IF last THEN Idle ELSE [mat EXCEPT !.pc = "write", !.names = @ \ {First(@)}]
  /\ fresh' = IF last /\ fresh = "so far" THEN "yes" ELSE fresh
  /\ UNCHANGED <<sources, attributes, clock, bounds, due>>

(* It is killed; the file it was writing holds what had reached it.        *)
Killed ==
  /\ mat.pc # "idle" /\ mat' = Idle /\ fresh' = "no"
  /\ tmp' \in {tmp} \cup (IF mat.pc # "write" THEN {} ELSE
                 {[tmp EXCEPT ![Current] = {part}] : part \in SUBSET Content(Current)})
  /\ UNCHANGED <<sources, shard, attributes, clock, bounds, due>>

(* Nothing is asked for any more.                                          *)
Rest ==
  /\ mat.pc = "idle" /\ bounds.mats = MaxMats /\ UNCHANGED metricsVars

MetricsNext ==
  \/ \E l \in LogSet : Review(l) \/ Archive(l)
  \/ (\E m \in MonthSet : RecordRun(m)) \/ LedgerOpens \/ LedgerFills
  \/ Materialize \/ ListCompleted \/ ReadLog \/ ReadRecord \/ DryRunEnds \/ Scaffold \/ WriteTmp \/ Rename
  \/ Killed \/ Rest

MetricsSpec == MetricsInit /\ [][MetricsNext]_metricsVars

-----------------------------------------------------------------------------
(* doQuery reads every file whose name starts like a shard of its          *)
(* relation, the .tmp files beside them included.                          *)
Reads(file, row) == row \in UNION file[ShardOf(row)]
TimesRead(row) == (IF Reads(shard, row) THEN 1 ELSE 0) + (IF Reads(tmp, row) THEN 1 ELSE 0)

(***************************************************************************)
(* After a materialization that ran to its end and missed no log, a query  *)
(* counts every verdict that was there when it started exactly once, and   *)
(* nothing twice or that is not in a log: whatever earlier materializations*)
(* left behind, however the logs moved and grew meanwhile.                 *)
(***************************************************************************)
CountedOnce ==
  fresh = "yes" =>
    /\ \A r \in due : TimesRead(r) = 1
    /\ \A n \in ToSet(ShardNames) : n[1] \in {"verdict", "rubric"} =>
         /\ tmp[n] = {}
         /\ UNION shard[n] \subseteq Corpus

(***************************************************************************)
(* The scans are a history: none that a materialization recorded is ever   *)
(* lost or changed, and no two are of the same second.                     *)
(***************************************************************************)
HistoryKept ==
  [][/\ Scans \subseteq Scans'
     /\ \A s, t \in Scans' : s.ts = t.ts => s = t]_shard

(***************************************************************************)
(* What the comment of writeAtomic says: an interrupted materialization    *)
(* leaves nothing that a later reader takes for valid rows.                *)
(***************************************************************************)
NothingLeftIsRead ==
  mat.pc = "idle" => \A r \in Corpus : ~Reads(tmp, r)

-----------------------------------------------------------------------------
(* What the two properties rest on: the shape of the state, ...            *)
MetricsTypeOK ==
  /\ place \in [LogSet -> {"plans", "completed"}] /\ lines \in [LogSet -> Seq(MonthSet \cup {Bad})]
  /\ runRecord \in {Absent, Torn} \cup MonthSet /\ ledger \in {Absent} \cup MonthSet
  /\ {DOMAIN shard, DOMAIN tmp} = {ToSet(ShardNames)} /\ attributes \in BOOLEAN
  /\ mat = [pc |-> mat.pc, todo |-> mat.todo, rows |-> mat.rows, names |-> mat.names, now |-> mat.now]
  /\ mat.pc \in {"idle", "list", "read", "scaffold", "write", "rename"}
  /\ mat.todo \subseteq 1..(2 * Len(Logs)) /\ mat.names \subseteq DOMAIN ShardNames
  /\ \A r \in mat.rows \cup due : r.rel \in {"verdict", "rubric", "run"} /\ r.month \in MonthSet
  /\ fresh \in {"yes", "so far", "no"} /\ (fresh = "so far" => mat.pc # "idle") /\ (fresh = "yes" => mat.pc = "idle")

(* ... that what is written is what was planned, and the scans keep their  *)
(* seconds apart, ...                                                      *)
WritesAsPlanned ==
  /\ mat.pc \in {"scaffold", "write", "rename"} => mat.names # {}
  /\ mat.names \subseteq Planned(mat.rows)
  /\ mat.pc = "rename" => tmp[Current] = {Content(Current)}
  /\ \A s, t \in Scans : s.ts = t.ts => s = t

(* ... that every row came from a log or a run record, and no file of a    *)
(* log's rows is ever left behind in a month that has none, ...            *)
LogNames == {n \in ToSet(ShardNames) : n[1] \in {"verdict", "rubric"}}
ComesFromALog ==
  /\ \A r \in mat.rows \cup due : r \in Corpus \/ r.rel = "run"
  /\ \A n \in LogNames : UNION (shard[n] \cup tmp[n]) \subseteq Corpus
  /\ \A n \in LogNames : tmp[n] # {} => \E r \in Corpus : ShardOf(r) = n
LeftoversAreDue ==
  fresh # "no" => \A n \in LogNames : tmp[n] # {} =>
    (\E r \in due : ShardOf(r) = n) \/ (mat.pc = "rename" /\ n = Current)

(* ... that no due row is missed: its path is still to be listed or read,  *)
(* it has been read, and once its shard is through the shard holds it.     *)
ListedRow(r) ==
  IF r.rel = "run" THEN r \in RunRows
  ELSE place[r.key[1]] = "completed" \/ \E i \in mat.todo : Path(i) = <<"plans", r.key[1]>>
ToBeRead(r) ==
  IF r.rel = "run" THEN r \in RunRows
  ELSE r \in mat.rows \/ \E i \in mat.todo : Path(i) = <<place[r.key[1]], r.key[1]>>
Held(r) == r \in UNION shard[ShardOf(r)] /\ tmp[ShardOf(r)] = {}
Pending(r) == \E i \in mat.names : ShardNames[i] = ShardOf(r)
MissesNothing ==
  \A r \in due :
    /\ fresh = "so far" /\ mat.pc = "list" => ListedRow(r)
    /\ fresh = "so far" /\ mat.pc = "read" => ToBeRead(r)
    /\ fresh = "so far" /\ mat.pc \in {"scaffold", "write", "rename"} => r \in mat.rows /\ (Pending(r) \/ Held(r))
    /\ fresh = "yes" => Held(r)

MetricsInv == MetricsTypeOK /\ WritesAsPlanned /\ ComesFromALog /\ LeftoversAreDue /\ MissesNothing
=============================================================================
