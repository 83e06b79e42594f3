------------------------------ MODULE RuleFeed ------------------------------
(***************************************************************************)
(* What the rules updater promises, with no thread, no lock, no working    *)
(* copy and no staging: a register of the release that is live.  A commit  *)
(* goes live only if the validator passes its pack and it descends from    *)
(* the commit that was live before it; the seed may take its place at any  *)
(* time; and the record of state.json, when it is written, is written of   *)
(* the commit that went live last.                                         *)
(***************************************************************************)

CONSTANTS
  Good,      \* the commits whose pack the validator passes
  Ancestor,  \* the pairs <<a, b>>, a an ancestor of b or b itself
  Seed,      \* the release that comes with the service
  None       \* no commit

VARIABLES
  live,      \* the release `current' names
  last,      \* the last commit that was live
  record     \* the commit state.json calls promoted

vars == <<live, last, record>>

Init == live = None /\ last = None /\ record = None

GoLive(c) ==
  /\ last # None => <<last, c>> \in Ancestor
  /\ live' = c /\ last' = c
  /\ UNCHANGED record

FallBack ==
  /\ live' = Seed
  /\ UNCHANGED <<last, record>>

Record ==
  /\ last # None
  /\ record' = last
  /\ UNCHANGED <<live, last>>

LoseRecord ==
  /\ record' = None
  /\ UNCHANGED <<live, last>>

Next ==
  \/ \E c \in Good : GoLive(c)
  \/ FallBack \/ Record \/ LoseRecord

Spec == Init /\ [][Next]_vars

\* The record may lag behind what is live, but it is never of another line of
\* history: state.json names an ancestor of the commit that went live last, or
\* that commit.
RecordIsBehind == record # None => <<record, last>> \in Ancestor
=============================================================================
