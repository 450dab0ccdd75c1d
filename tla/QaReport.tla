------------------------------ MODULE QaReport ------------------------------
(***************************************************************************)
(* What a run promises about the cases of a report: entries are added one  *)
(* at a time, in the order of the report, and never changed; and what is   *)
(* published holds one entry for every case of the report.                 *)
(***************************************************************************)
EXTENDS Integers, Sequences

CONSTANTS N, None

VARIABLES entries, published

Prefix(s, t) == Len(s) <= Len(t) /\ \A i \in 1..Len(s) : t[i] = s[i]

Init == entries = << >> /\ published = None

(* A case has been dealt with, or the cases left over are given up.        *)
Extend ==
  /\ published = None /\ published' = None
  /\ Prefix(entries, entries') /\ Len(entries') <= N
  /\ \A i \in 1..Len(entries') : entries'[i].case = i

Publish ==
  /\ published = None /\ published' = entries'
  /\ Len(entries') = N
  /\ Prefix(entries, entries')
  /\ \A i \in 1..N : entries'[i].case = i

Spec == Init /\ [][Extend \/ Publish]_<<entries, published>>
=============================================================================
