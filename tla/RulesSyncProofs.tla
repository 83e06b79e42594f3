-------------------------- MODULE RulesSyncProofs --------------------------
(***************************************************************************)
(* Proofs about RulesSync, for every history of commits, every way the     *)
(* branch may move, every set of good and bad packs, any number of         *)
(* releases kept and any bound on faults.  CalmIsWhole and                 *)
(* NoChangeSpeaksTrue need that no refresh overlaps the seeding at         *)
(* start-up, the latter also that the branch never returns to a commit it  *)
(* has left; the other theorems need neither.                              *)
(***************************************************************************)
EXTENDS RulesSync, TLAPS

-----------------------------------------------------------------------------
(* The inductive invariant *)

\* Thread t is past Call or Boot; it is inside stage_release and what follows
\* it; it is at a step of _locked_pull that only a holder of the lock takes.
Busy(t) == pc[t] \notin {"down", "idle"}
Staging(t) == pc[t] \in {"wipe", "create", "copy", "mark", "promote"}
Fetching(t) == pc[t] \in {"query", "compare", "sync", "reject"}
Releasing(t) ==
  pc[t] \in {"validate", "save", "tidy"} \/ (Staging(t) /\ t \notin seeding)

\* One pull at a time, and only stage_release seeds.  The console is not busy
\* without the lock, nor alive without the loop.
OnePull ==
  /\ \A t \in Thread : Fetching(t) \/ Releasing(t) => lock = t
  /\ \A t \in seeding : Staging(t)
  /\ Busy("console") => lock = "console"
  /\ pc["loop"] = "down" => pc["console"] = "down"

\* What a pull stages, promotes and records is what ls-remote answered and the
\* working copy now has; from its validation on it is a valid pack.
PullShape ==
  \A t \in Thread :
    /\ pc[t] \in {"compare", "sync", "reject"} => remote \in Commit
    /\ Releasing(t) => remote \in Commit /\ work = remote
    /\ pc[t] \in {"mark", "promote"} /\ t \notin seeding =>
         Pack[remote] = "valid"

\* What was live last is behind the working copy.
Descends == trail # None => work # None /\ <<trail, work>> \in Ancestor

IInv == TypeOK /\ OnePull /\ PullShape /\ Descends /\ OnlyValidated

\* The steps between the deletion of a release and its promotion are those of
\* one thread, and do what they say.
Undisturbed ==
  /\ ~(Busy("loop") /\ Busy("console"))
  /\ \A t \in Thread :
       /\ pc[t] = "copy" => pack[Staged(t)] = "partial"
       /\ pc[t] \in {"mark", "promote"} => pack[Staged(t)] = "whole"
       /\ pc[t] = "promote" => Staged(t) \in marked

\* Without a fault the record names what is live, so that no pull stages that
\* release again; and the seed is staged only when nothing is live.
RecordIsTrue ==
  /\ current \in Commit =>
       /\ current \in marked
       /\ promoted = current \/ \E t \in Thread : pc[t] = "save"
  /\ \A t \in Thread :
       /\ pc[t] = "sync" \/ pc[t] = "validate"
            \/ (Staging(t) /\ t \notin seeding) => remote # current
       /\ pc[t] = "save" => current = remote
  /\ seeding # {} => current = None

CalmInv ==
  /\ IInv /\ Undisturbed
  /\ faults = 0 => RecordIsTrue /\ LiveIsWhole

-----------------------------------------------------------------------------
(* Type correctness *)

\* The ways out of a pull, or out of the process.
LEMMA AbortEffect ==
  ASSUME NEW t \in Thread, Abort(t) \/ Exit \/ Leave(t)
  PROVE  /\ lock' = None /\ remote' = None
         /\ \/ lock = t /\ seeding' = seeding \ {t} /\ Leave(t)
            \/ seeding' = {} /\ pc' = [s \in Thread |-> "down"]
            \/ Leave(t)
  BY DEF Abort, Exit, Leave, LockAfterExit

LEMMA AbortType ==
  ASSUME TypeOK, NEW t \in Thread, Abort(t) \/ Exit \/ Leave(t)
  PROVE  /\ lock' \in Thread \cup {None} /\ remote' \in Commit \cup {None}
         /\ pc' \in [Thread -> PCs] /\ seeding' \subseteq Thread
  BY DEF TypeOK, Abort, Exit, Leave, Goto, LockAfterExit, PCs

LEMMA GotoType ==
  ASSUME TypeOK, NEW t \in Thread, NEW step \in PCs, Goto(t, step)
  PROVE  pc' \in [Thread -> PCs]
  BY DEF TypeOK, Goto

LEMMA StagedType ==
  ASSUME IInv, NEW t \in Thread, Staging(t) \/ pc[t] = "validate"
  PROVE  Staged(t) \in Id
  BY DEF IInv, OnePull, PullShape, Releasing, Staging, Staged, Id

LEMMA FaultType == TypeOK /\ Fault => faults' \in 0..MaxFaults
  BY LimitAssumption DEF TypeOK, Fault

LEMMA TypeStep == IInv /\ [Next]_vars => TypeOK'
<1> SUFFICES ASSUME IInv, [Next]_vars PROVE TypeOK'
  OBVIOUS
<1> USE DEF IInv, TypeOK, gitVars, treeVars, stateVars, liveVars, pullVars
<1>1. CASE UNCHANGED vars
  BY <1>1 DEF vars
<1>2. CASE Environment
  BY <1>2, FaultType
  DEF Environment, Push, Age, ForgetState, StartScan, EndScan
<1>3. CASE Disturbance
  <2>1. ASSUME NEW t \in Thread, Exit \/ Abort(t), faults' \in 0..MaxFaults,
               UNCHANGED <<gitVars, treeVars, stateVars, liveVars, mounted>>
        PROVE  TypeOK'
    BY <2>1, AbortType
  <2>2. QED
    BY <1>3, <2>1, FaultType DEF Disturbance, Crash, Stop, Fails, Thread
<1>4. CASE Boot
  BY <1>4 DEF Boot, PCs
<1>5. ASSUME NEW t \in Thread, Call(t) \/ PruneIncomplete(t) \/ Rooted(t)
             \/ SeedAgain(t)
      PROVE  TypeOK'
  BY <1>5
  DEF Call, PruneIncomplete, Rooted, SeedAgain, Goto, Deleted, PCs
<1>6. ASSUME NEW t \in Thread, Query(t) \/ NoChange(t) \/ Replay(t)
             \/ Proceed(t)
      PROVE  TypeOK'
  BY <1>6, AbortType DEF Query, NoChange, Replay, Proceed, Goto, PCs
<1>7. ASSUME NEW t \in Thread, Sync(t) \/ Reject(t) PROVE TypeOK'
  BY <1>7, AbortType DEF Sync, Reject, Goto, PCs
<1>8. ASSUME NEW t \in Thread, Wipe(t) \/ Copy(t) PROVE TypeOK'
  BY <1>8 DEF Wipe, Copy, Goto, PCs
<1>9. ASSUME NEW t \in Thread, Create(t) PROVE TypeOK'
  <2>1. t \notin seeding => remote \in Commit
    BY <1>9 DEF Create, PullShape, Releasing, Staging
  <2>2. newer' \subseteq Commit \X Commit /\ fresh' \subseteq Commit
    BY <1>9, <2>1 DEF Create
  <2>3. QED
    BY <1>9, <2>2 DEF Create, Goto, PCs
<1>10. ASSUME NEW t \in Thread, Validated(t) \/ Refused(t) PROVE TypeOK'
  BY <1>10, FaultType DEF Validated, Refused, Goto, Deleted, PCs
<1>11. ASSUME NEW t \in Thread, Mark(t) PROVE TypeOK'
  BY <1>11, StagedType DEF Mark, Marks, Staging, Goto, PCs
<1>12. ASSUME NEW t \in Thread, Promote(t) PROVE TypeOK'
  BY <1>12, StagedType DEF Promote, Staging, Goto, PCs
<1>13. ASSUME NEW t \in Thread, Save(t) \/ Tidy(t) PROVE TypeOK'
  BY <1>13, AbortType DEF Save, Tidy, Goto, Deleted, PCs
<1>14. QED
  BY <1>1, <1>2, <1>3, <1>4, <1>5, <1>6, <1>7, <1>8, <1>9, <1>10, <1>11,
     <1>12, <1>13
  DEF Next, Work

-----------------------------------------------------------------------------
(* The lock *)

LEMMA OnePullStep == IInv /\ [Next]_vars => OnePull'
<1> SUFFICES ASSUME IInv, [Next]_vars PROVE OnePull'
  OBVIOUS
<1> USE DEF IInv, TypeOK, OnePull, Busy, Fetching, Releasing, Staging, Thread,
            None, Goto, pullVars
<1>1. CASE UNCHANGED vars \/ Environment
  BY <1>1 DEF vars, Environment, Push, Age, ForgetState, StartScan, EndScan
<1>2. CASE Exit
  BY <1>2 DEF Exit
<1>3. ASSUME NEW t \in Thread, Leave(t), lock = t, Busy(t) PROVE OnePull'
  BY <1>3 DEF Leave
<1>4. CASE Disturbance
  BY <1>2, <1>3, <1>4 DEF Disturbance, Crash, Stop, Fails, Abort
<1>5. CASE Boot
  BY <1>5 DEF Boot
<1>6. ASSUME NEW t \in Thread, Call(t) PROVE OnePull'
  BY <1>6 DEF Call
<1>7. ASSUME NEW t \in Thread, PruneIncomplete(t) \/ Rooted(t) \/ SeedAgain(t)
      PROVE  OnePull'
  <2>1. CASE PruneIncomplete(t)
    BY <2>1 DEF PruneIncomplete
  <2>2. CASE Rooted(t)
    BY <2>2 DEF Rooted
  <2>3. CASE SeedAgain(t)
    BY <2>3 DEF SeedAgain
  <2>4. QED
    BY <1>7, <2>1, <2>2, <2>3
<1>8. ASSUME NEW t \in Thread, Query(t) \/ Proceed(t) \/ Sync(t) PROVE OnePull'
  BY <1>8 DEF Query, Proceed, Sync
<1>9. ASSUME NEW t \in Thread, NoChange(t) \/ Replay(t) \/ Reject(t) \/ Tidy(t)
      PROVE  OnePull'
  BY <1>3, <1>9 DEF NoChange, Replay, Reject, Tidy
<1>10. ASSUME NEW t \in Thread, Wipe(t) \/ Create(t) \/ Copy(t) PROVE OnePull'
  <2>1. CASE Wipe(t) \/ Create(t)
    BY <2>1 DEF Wipe, Create
  <2>2. CASE Copy(t)
    BY <2>2 DEF Copy
  <2>3. QED
    BY <1>10, <2>1, <2>2
<1>12. ASSUME NEW t \in Thread, Validated(t) \/ Refused(t) \/ Mark(t) \/ Save(t)
       PROVE  OnePull'
  BY <1>12 DEF Validated, Refused, Mark, Save
<1>13. ASSUME NEW t \in Thread, Promote(t) PROVE OnePull'
  BY <1>13 DEF Promote
<1>14. QED
  BY <1>1, <1>4, <1>5, <1>6, <1>7, <1>8, <1>9, <1>10, <1>12, <1>13
  DEF Next, Work

-----------------------------------------------------------------------------
(* What a pull carries from step to step *)

\* Only the thread that holds the lock writes what a pull is about.
LEMMA Others ==
  ASSUME IInv, NEW t \in Thread, Fetching(t) \/ Releasing(t),
         NEW s \in Thread \ {t}
  PROVE  ~Fetching(s) /\ ~Releasing(s)
  BY DEF IInv, OnePull, Thread

LEMMA PullStep == IInv /\ [Next]_vars => PullShape'
<1> SUFFICES ASSUME IInv, [Next]_vars PROVE PullShape'
  OBVIOUS
<1> USE DEF IInv, TypeOK, PullShape, Fetching, Releasing, Staging, Thread,
            Goto, pullVars, gitVars
<1>1. CASE UNCHANGED vars \/ Environment
  BY <1>1 DEF vars, Environment, Push, Age, ForgetState, StartScan, EndScan
<1>2. CASE Exit
  BY <1>2 DEF Exit
<1>3. ASSUME NEW t \in Thread, Leave(t), lock = t, UNCHANGED work
      PROVE  PullShape'
  <2>1. \A s \in Thread \ {t} : ~Fetching(s) /\ ~Releasing(s)
    BY <1>3 DEF OnePull
  <2>2. QED
    BY <1>3, <2>1 DEF Leave
<1>4. ASSUME NEW t \in Thread, Abort(t), UNCHANGED work PROVE PullShape'
  BY <1>2, <1>3, <1>4 DEF Abort
<1>5. CASE Disturbance
  BY <1>2, <1>4, <1>5 DEF Disturbance, Crash, Stop, Fails
<1>6. CASE Boot
  BY <1>6 DEF Boot
<1>7. ASSUME NEW t \in Thread, Call(t) PROVE PullShape'
  BY <1>7 DEF Call
<1>8. ASSUME NEW t \in Thread, PruneIncomplete(t) \/ Rooted(t) PROVE PullShape'
  BY <1>8 DEF PruneIncomplete, Rooted
<1>9. ASSUME NEW t \in Thread, SeedAgain(t) PROVE PullShape'
  BY <1>9 DEF SeedAgain
<1>10. ASSUME NEW t \in Thread, Query(t) PROVE PullShape'
  BY <1>10, Others DEF Query
<1>11. ASSUME NEW t \in Thread, Proceed(t) PROVE PullShape'
  BY <1>11 DEF Proceed
<1>12. ASSUME NEW t \in Thread, Sync(t) PROVE PullShape'
  <2>1. work' = remote \/ pc'[t] = "reject"
    BY <1>12 DEF Sync
  <2>2. \A s \in Thread \ {t} : ~Fetching(s) /\ ~Releasing(s)
    BY <1>12, Others DEF Sync
  <2>3. pc'[t] \in {"reject", "wipe"} /\ \A s \in Thread \ {t} : pc'[s] = pc[s]
    BY <1>12 DEF Sync
  <2>4. remote \in Commit /\ remote' = remote /\ seeding' = seeding
    BY <1>12 DEF Sync
  <2>5. QED
    BY <2>1, <2>2, <2>3, <2>4
<1>13. ASSUME NEW t \in Thread, NoChange(t) \/ Replay(t) \/ Reject(t) \/ Tidy(t)
       PROVE  PullShape'
  BY <1>3, <1>13 DEF NoChange, Replay, Reject, Tidy, OnePull
<1>14. ASSUME NEW t \in Thread, Wipe(t) \/ Create(t) PROVE PullShape'
  BY <1>14 DEF Wipe, Create
<1>15. ASSUME NEW t \in Thread, Copy(t) PROVE PullShape'
  BY <1>15 DEF Copy
<1>17. ASSUME NEW t \in Thread, Validated(t) PROVE PullShape'
  <2>1. t \notin seeding
    BY <1>17 DEF Validated, OnePull
  <2>2. Pack[remote] = "valid"
    BY <1>17, <2>1 DEF Validated, Passes, Staged
  <2>3. QED
    BY <1>17, <2>1, <2>2 DEF Validated
<1>18. ASSUME NEW t \in Thread, Refused(t) \/ Mark(t) \/ Save(t)
       PROVE  PullShape'
  BY <1>18 DEF Refused, Mark, Save
<1>19. ASSUME NEW t \in Thread, Promote(t) PROVE PullShape'
  BY <1>19 DEF Promote
<1>20. QED
  BY <1>1, <1>5, <1>6, <1>7, <1>8, <1>9, <1>10, <1>11, <1>12, <1>13, <1>14,
     <1>15, <1>17, <1>18, <1>19
  DEF Next, Work

\* The steps that write the working copy, and those that write `current'.
LEMMA LiveEffect ==
  ASSUME [Next]_vars
  PROVE  \/ \E t \in Thread : Sync(t)
         \/ \E t \in Thread : Promote(t)
         \/ UNCHANGED <<work, current, trail>>
<1> USE DEF gitVars, liveVars
<1>1. CASE UNCHANGED vars
  BY <1>1 DEF vars
<1>2. CASE Environment
  BY <1>2 DEF Environment, Push, Age, ForgetState, StartScan, EndScan
<1>3. CASE Disturbance \/ Boot
  BY <1>3 DEF Disturbance, Crash, Stop, Fails, Boot
<1>4. ASSUME NEW t \in Thread, Call(t) \/ Work(t), ~Sync(t), ~Promote(t)
      PROVE  UNCHANGED <<work, current, trail>>
  BY <1>4
  DEF Call, Work, PruneIncomplete, Rooted, SeedAgain, Query, NoChange, Replay,
      Proceed, Reject, Wipe, Create, Copy, Validated, Refused, Mark,
      Save, Tidy
<1>5. QED
  BY <1>1, <1>2, <1>3, <1>4 DEF Next

LEMMA DescendsStep == IInv /\ [Next]_vars => Descends'
<1> SUFFICES ASSUME IInv, [Next]_vars PROVE Descends'
  OBVIOUS
<1> USE DEF IInv, TypeOK, Descends, liveVars, gitVars
<1>1. ASSUME NEW t \in Thread, Sync(t) PROVE Descends'
  <2>1. remote \in Commit
    BY <1>1 DEF Sync, PullShape
  <2>2. CASE trail = None
    BY <1>1, <2>2 DEF Sync
  <2>3. CASE trail # None
    <3>1. trail \in Commit /\ work \in Commit /\ <<trail, work>> \in Ancestor
      BY <2>3
    <3>2. work' = work \/ (work' = remote /\ FastForward(work))
      BY <1>1, <3>1, HistoryAssumption DEF Sync
    <3>3. FastForward(work) => <<trail, remote>> \in Ancestor
      BY <2>1, <3>1, HistoryAssumption DEF FastForward
    <3>4. QED
      BY <1>1, <2>1, <3>1, <3>2, <3>3, HistoryAssumption DEF Sync
  <2>4. QED
    BY <2>2, <2>3
<1>2. ASSUME NEW t \in Thread, Promote(t) PROVE Descends'
  <2>1. t \notin seeding => remote \in Commit /\ work = remote
    BY <1>2 DEF Promote, PullShape, Releasing, Staging
  <2>2. QED
    BY <1>2, <2>1, HistoryAssumption DEF Promote
<1>3. QED
  BY <1>1, <1>2, LiveEffect

LEMMA ValidatedStep == IInv /\ [Next]_vars => OnlyValidated'
<1> SUFFICES ASSUME IInv, [Next]_vars PROVE OnlyValidated'
  OBVIOUS
<1> USE DEF IInv, OnlyValidated
<1>1. ASSUME NEW t \in Thread, Promote(t) PROVE OnlyValidated'
  BY <1>1, HistoryAssumption DEF Promote, PullShape, Staged
<1>2. QED
  BY <1>1, LiveEffect DEF Sync, liveVars

LEMMA InductiveInit == Init => IInv
<1> SUFFICES ASSUME Init PROVE IInv
  OBVIOUS
<1>1. TypeOK
  BY HistoryAssumption, LimitAssumption DEF Init, TypeOK, PCs, Id
<1>2. OnePull /\ PullShape
  BY DEF Init, OnePull, PullShape, Fetching, Releasing, Staging, Busy, Thread
<1>3. Descends /\ OnlyValidated
  BY HistoryAssumption DEF Init, Descends, OnlyValidated
<1>4. QED
  BY <1>1, <1>2, <1>3 DEF IInv

LEMMA InductiveStep == IInv /\ [Next]_vars => IInv'
  BY TypeStep, OnePullStep, PullStep, DescendsStep, ValidatedStep DEF IInv

-----------------------------------------------------------------------------
(* Theorems for every start-up *)

\* The invariant behind what follows.
THEOREM Inductive == Spec => []IInv
  BY InductiveInit, InductiveStep, PTL DEF Spec

\* The variables keep their types.
THEOREM TypeCorrect == Spec => []TypeOK
<1>1. IInv => TypeOK
  BY DEF IInv
<1>2. QED
  BY <1>1, Inductive, PTL

\* Scan rules fail closed: a refused commit is never live, whatever crashes,
\* fails, is retried or overlaps.
THEOREM LiveIsValidated == Spec => []OnlyValidated
<1>1. IInv => OnlyValidated
  BY DEF IInv
<1>2. QED
  BY <1>1, Inductive, PTL

\* The commits that go live are a descending line, also across restarts, lost
\* state files, forced pushes and falls back to the seed.
THEOREM LiveMovesForward == Spec => OnlyForward
<1>1. ASSUME IInv, [Next]_vars, trail # None, trail' # trail
      PROVE  <<trail, trail'>> \in Ancestor
  <2>1. PICK t \in Thread : Promote(t)
    BY <1>1, LiveEffect DEF Sync, liveVars
  <2>2. t \notin seeding /\ trail' = remote
    BY <1>1, <2>1 DEF Promote
  <2>3. work = remote
    BY <1>1, <2>1, <2>2 DEF IInv, PullShape, Releasing, Staging, Promote
  <2>4. QED
    BY <1>1, <2>2, <2>3 DEF IInv, Descends
<1>2. IInv /\ [Next]_vars =>
        [trail # None /\ trail' # trail => <<trail, trail'>> \in Ancestor]_vars
  BY <1>1
<1>3. QED
  BY <1>2, Inductive, PTL DEF Spec, OnlyForward

-----------------------------------------------------------------------------
(* Start-up without overlapping refreshes *)

LEMMA UndisturbedStep ==
  ~EarlyRefresh /\ CalmInv /\ [Next]_vars => Undisturbed'
<1> SUFFICES ASSUME ~EarlyRefresh, CalmInv, [Next]_vars PROVE Undisturbed'
  OBVIOUS
<1> USE DEF CalmInv, IInv, TypeOK, OnePull, Undisturbed, Busy, Fetching,
            Releasing, Staging, Staged, Thread, None, Goto, pullVars, treeVars
<1>1. CASE UNCHANGED vars \/ Environment
  BY <1>1 DEF vars, Environment, Push, Age, ForgetState, StartScan, EndScan
<1>2. CASE Exit
  BY <1>2 DEF Exit
<1>3. ASSUME NEW t \in Thread, Leave(t), Busy(t) PROVE Undisturbed'
  <2>1. /\ pc'[t] = "idle"
        /\ \A s \in Thread \ {t} : pc'[s] = pc[s] /\ pc[s] \in {"down", "idle"}
    BY <1>3 DEF Leave
  <2>2. QED
    BY <2>1
<1>4. ASSUME NEW t \in Thread, Abort(t), Busy(t) PROVE Undisturbed'
  BY <1>2, <1>3, <1>4 DEF Abort
<1>5. CASE Disturbance
  BY <1>2, <1>4, <1>5 DEF Disturbance, Crash, Stop, Fails
<1>6. CASE Boot
  BY <1>6 DEF Boot
<1>7. ASSUME NEW t \in Thread, Call(t) PROVE Undisturbed'
  BY <1>7 DEF Call, Booting
<1>8. ASSUME NEW t \in Thread, Busy(t), pc' = [pc EXCEPT ![t] = pc'[t]]
      PROVE  /\ \A s \in Thread \ {t} : pc'[s] \in {"down", "idle"}
             /\ ~(Busy("loop") /\ Busy("console"))'
  BY <1>8
<1>9. ASSUME NEW t \in Thread, PruneIncomplete(t) \/ Rooted(t) \/ SeedAgain(t)
             \/ Query(t) \/ Proceed(t) \/ Sync(t)
      PROVE  Undisturbed'
  <2>1. Busy(t) /\ pc' = [pc EXCEPT ![t] = pc'[t]]
    BY <1>9 DEF PruneIncomplete, Rooted, SeedAgain, Query, Proceed, Sync
  <2>2. pc'[t] \notin {"copy", "mark", "promote"}
    BY <1>9 DEF PruneIncomplete, Rooted, SeedAgain, Query, Proceed, Sync
  <2>3. QED
    BY <1>8, <2>1, <2>2
<1>10. ASSUME NEW t \in Thread, NoChange(t) \/ Replay(t) \/ Reject(t) \/ Tidy(t)
       PROVE  Undisturbed'
  BY <1>3, <1>10 DEF NoChange, Replay, Reject, Tidy
<1>11. ASSUME NEW t \in Thread, Wipe(t) \/ Save(t) \/ Refused(t)
       PROVE  Undisturbed'
  <2>1. Busy(t) /\ pc' = [pc EXCEPT ![t] = pc'[t]]
    BY <1>11 DEF Wipe, Save, Refused
  <2>2. pc'[t] \notin {"copy", "mark", "promote"}
    BY <1>11 DEF Wipe, Save, Refused
  <2>3. QED
    BY <1>8, <2>1, <2>2
<1>12. ASSUME NEW t \in Thread, Create(t) PROVE Undisturbed'
  <2>1. Busy(t) /\ pc' = [pc EXCEPT ![t] = "copy"] /\ pc'[t] = "copy"
    BY <1>12 DEF Create
  <2>2. Staged(t) \in Id /\ Staged(t)' = Staged(t)
    BY <1>12, StagedType DEF Create
  <2>3. pack'[Staged(t)] = "partial"
    BY <1>12, <2>2 DEF Create
  <2>4. QED
    BY <1>8, <2>1, <2>2, <2>3
<1>13. ASSUME NEW t \in Thread, Copy(t) PROVE Undisturbed'
  <2>1. /\ Busy(t) /\ pc' = [pc EXCEPT ![t] = pc'[t]]
        /\ pc'[t] \in {"mark", "validate"}
    BY <1>13 DEF Copy
  <2>2. Staged(t) \in Id /\ Staged(t)' = Staged(t)
    BY <1>13, StagedType DEF Copy
  <2>3. ~Disturbed(t)
    BY <1>13 DEF Copy, Disturbed
  <2>4. pack'[Staged(t)] = "whole"
    BY <1>13, <2>2, <2>3 DEF Copy
  <2>5. QED
    BY <1>8, <2>1, <2>2, <2>4
<1>15. ASSUME NEW t \in Thread, Validated(t) PROVE Undisturbed'
  <2>1. Busy(t) /\ pc' = [pc EXCEPT ![t] = "mark"] /\ pc'[t] = "mark"
    BY <1>15 DEF Validated
  <2>2. Staged(t)' = Staged(t) /\ pack'[Staged(t)] = "whole"
    BY <1>15 DEF Validated, Passes
  <2>3. QED
    BY <1>8, <2>1, <2>2
<1>16. ASSUME NEW t \in Thread, Mark(t) PROVE Undisturbed'
  <2>1. Busy(t) /\ pc' = [pc EXCEPT ![t] = "promote"] /\ pc'[t] = "promote"
    BY <1>16 DEF Mark
  <2>2. Staged(t)' = Staged(t) /\ pack'[Staged(t)] = "whole"
    BY <1>16 DEF Mark
  <2>3. Staged(t) \in marked'
    BY <1>16 DEF Mark, Marks
  <2>4. QED
    BY <1>8, <2>1, <2>2, <2>3
<1>17. ASSUME NEW t \in Thread, Promote(t) PROVE Undisturbed'
  <2>1. Busy(t) /\ pc' = [pc EXCEPT ![t] = pc'[t]]
        /\ pc'[t] \notin {"copy", "mark", "promote"}
    BY <1>17 DEF Promote
  <2>2. QED
    BY <1>8, <2>1
<1>18. QED
  BY <1>1, <1>5, <1>6, <1>7, <1>9, <1>10, <1>11, <1>12, <1>13, <1>15,
     <1>16, <1>17
  DEF Next, Work

\* No step takes a fault back, and the steps that are one count.
LEMMA FaultEffect ==
  ASSUME TypeOK, [Next]_vars, faults' = 0
  PROVE  /\ faults = 0 /\ ~Disturbance /\ ~ForgetState
         /\ \A t \in Thread : Refused(t) => UNCHANGED faults
<1> USE DEF TypeOK, Fault
<1>1. ~Disturbance /\ ~ForgetState
  BY DEF Disturbance, Crash, Stop, Fails, ForgetState
<1>2. faults = 0
  <2>1. CASE UNCHANGED vars
    BY <2>1 DEF vars
  <2>2. CASE Environment
    BY <1>1, <2>2 DEF Environment, Push, Age, StartScan, EndScan
  <2>3. CASE Boot
    BY <2>3 DEF Boot
  <2>4. ASSUME NEW t \in Thread, Call(t) \/ Work(t) PROVE faults = 0
    BY <2>4
    DEF Call, Work, PruneIncomplete, Rooted, SeedAgain, Query, NoChange,
        Replay, Proceed, Sync, Reject, Wipe, Create, Copy,
        Validated, Refused, Mark, Promote, Save, Tidy
  <2>5. QED
    BY <1>1, <2>1, <2>2, <2>3, <2>4 DEF Next
<1>3. QED
  BY <1>1, <1>2 DEF Refused

LEMMA CalmStep ==
  ~EarlyRefresh /\ CalmInv /\ [Next]_vars
    => (faults' = 0 => RecordIsTrue' /\ LiveIsWhole')
<1> SUFFICES ASSUME ~EarlyRefresh, CalmInv, [Next]_vars, faults' = 0
             PROVE  RecordIsTrue' /\ LiveIsWhole'
  OBVIOUS
<1> USE DEF IInv, TypeOK, OnePull, Busy, Fetching, Releasing, Staging, None,
            LivePack, Goto, gitVars, treeVars, stateVars, liveVars, pullVars
<1> DEFINE Undone(t) == pc[t] \in {"sync", "validate", "save"} \/ Staging(t)
<1>0. /\ IInv /\ Undisturbed /\ RecordIsTrue /\ LiveIsWhole /\ faults = 0
      /\ (current # None => pack[current] = "whole")
  BY FaultEffect DEF CalmInv, LiveIsWhole
<1>1. CASE UNCHANGED vars \/ Environment
  <2>1. UNCHANGED <<current, marked, promoted, pc, seeding, remote, pack>>
    BY <1>1, FaultEffect
    DEF vars, Environment, Push, Age, StartScan, EndScan, CalmInv
  <2>2. QED
    BY <1>0, <2>1 DEF RecordIsTrue, LiveIsWhole
\* A step of a pull, or into or out of one, that leaves the live root and the
\* record alone, and does not get to the release that is live.
<1>2. ASSUME NEW t \in Thread, UNCHANGED <<current, promoted>>,
             \A s \in Thread \ {t} : pc'[s] = pc[s],
             pc[t] # "save", pc'[t] # "save",
             current # None => pack'[current] = "whole",
             current \in Commit => current \in marked',
             seeding' \subseteq seeding,
             pc'[t] = "sync" \/ pc'[t] = "validate"
               \/ (Staging(t)' /\ t \notin seeding') => remote' # current,
             \A s \in Thread \ {t} : ~Undone(s)
      PROVE  RecordIsTrue' /\ LiveIsWhole'
  <2>1. LiveIsWhole'
    BY <1>2 DEF LiveIsWhole
  <2>2. \A s \in Thread : pc[s] # "save" /\ pc'[s] # "save"
    BY <1>2
  <2>3. current' \in Commit => current' \in marked' /\ promoted' = current'
    BY <1>0, <1>2, <2>2 DEF RecordIsTrue
  <2>4. seeding' # {} => current' = None
    BY <1>0, <1>2 DEF RecordIsTrue
  <2>5. \A s \in Thread : pc'[s] = "sync" \/ pc'[s] = "validate"
          \/ (Staging(s)' /\ s \notin seeding') => remote' # current'
    BY <1>2
  <2>6. QED
    BY <2>1, <2>2, <2>3, <2>4, <2>5 DEF RecordIsTrue
<1>3. ASSUME NEW t \in Thread, Busy(t)
      PROVE  \A s \in Thread \ {t} : ~Undone(s) /\ ~Busy(s)
  BY <1>0, <1>3 DEF Undisturbed, Thread
<1>4. CASE Boot
  BY <1>0, <1>4 DEF Boot, RecordIsTrue, LiveIsWhole, Thread
<1>5. ASSUME NEW t \in Thread, Call(t) PROVE RecordIsTrue' /\ LiveIsWhole'
  BY <1>0, <1>5 DEF Call, RecordIsTrue, LiveIsWhole
<1>6. ASSUME NEW t \in Thread, PruneIncomplete(t)
      PROVE  RecordIsTrue' /\ LiveIsWhole'
  <2>1. current # None => pack'[current] = "whole"
    BY <1>0, <1>6 DEF PruneIncomplete, Deleted
  <2>2. QED
    BY <1>0, <1>2, <1>3, <1>6, <2>1 DEF PruneIncomplete, RecordIsTrue
<1>7. ASSUME NEW t \in Thread, Rooted(t) \/ Query(t) \/ NoChange(t)
             \/ Replay(t) \/ Reject(t)
      PROVE  RecordIsTrue' /\ LiveIsWhole'
  BY <1>0, <1>2, <1>3, <1>7
  DEF Rooted, Query, NoChange, Replay, Reject, Leave, RecordIsTrue
<1>8. ASSUME NEW t \in Thread, SeedAgain(t) PROVE RecordIsTrue' /\ LiveIsWhole'
  <2>1. current = None
    BY <1>0, <1>8 DEF SeedAgain
  <2>2. QED
    BY <1>0, <1>8, <2>1, HistoryAssumption
    DEF SeedAgain, RecordIsTrue, LiveIsWhole
<1>9. ASSUME NEW t \in Thread, Proceed(t) PROVE RecordIsTrue' /\ LiveIsWhole'
  <2>1. remote # current
    BY <1>0, <1>3, <1>9 DEF Proceed, UpToDate, RecordIsTrue, PullShape
  <2>2. QED
    BY <1>0, <1>2, <1>3, <1>9, <2>1 DEF Proceed, RecordIsTrue
<1>10. ASSUME NEW t \in Thread, Sync(t) PROVE RecordIsTrue' /\ LiveIsWhole'
  BY <1>0, <1>2, <1>3, <1>10 DEF Sync, RecordIsTrue
<1>11. ASSUME NEW t \in Thread, Staging(t) \/ pc[t] = "validate"
       PROVE  /\ Staged(t) \in Id /\ Staged(t) # current
              /\ t \in seeding => current = None
  BY <1>0, <1>11, StagedType, HistoryAssumption
  DEF RecordIsTrue, Staged, Id, Seed
<1>12. ASSUME NEW t \in Thread, Wipe(t) \/ Create(t) \/ Copy(t)
       PROVE  RecordIsTrue' /\ LiveIsWhole'
  <2>1. Staged(t) # current /\ UNCHANGED <<current, promoted, seeding, remote>>
    BY <1>11, <1>12 DEF Wipe, Create, Copy
  <2>2. current # None => pack'[current] = "whole"
    BY <1>0, <1>12, <2>1 DEF Wipe, Create, Copy
  <2>3. current \in Commit => current \in marked'
    BY <1>0, <1>12, <2>1 DEF Wipe, Create, Copy, RecordIsTrue
  <2>4. t \notin seeding => remote # current
    BY <2>1 DEF Staged
  <2>5. /\ Busy(t) /\ pc[t] # "save" /\ pc'[t] # "save"
        /\ (t \in seeding => pc'[t] \notin {"sync", "validate"})
        /\ \A s \in Thread \ {t} : pc'[s] = pc[s]
    BY <1>0, <1>12 DEF Wipe, Create, Copy
  <2>6. QED
    BY <1>2, <1>3, <2>1, <2>2, <2>3, <2>4, <2>5
<1>14. ASSUME NEW t \in Thread, Validated(t) \/ Mark(t)
       PROVE  RecordIsTrue' /\ LiveIsWhole'
  <2>1. UNCHANGED <<current, promoted, seeding, remote, pack>>
        /\ marked \subseteq marked'
    BY <1>14 DEF Validated, Mark, Marks
  <2>2. t \notin seeding => remote # current
    BY <1>11, <1>14 DEF Staged, Validated, Mark
  <2>3. /\ Busy(t) /\ pc[t] # "save" /\ pc'[t] \in {"mark", "promote"}
        /\ \A s \in Thread \ {t} : pc'[s] = pc[s]
    BY <1>0, <1>14 DEF Validated, Mark
  <2>4. QED
    BY <1>0, <1>2, <1>3, <2>1, <2>2, <2>3 DEF RecordIsTrue
<1>15. ASSUME NEW t \in Thread, Refused(t) PROVE RecordIsTrue' /\ LiveIsWhole'
  <2>1. Staged(t) # current
    BY <1>11, <1>15 DEF Refused
  <2>2. current # None => pack'[current] = "whole"
    BY <1>0, <1>15, <2>1 DEF Refused, Deleted
  <2>3. QED
    BY <1>0, <1>2, <1>3, <1>15, <2>2 DEF Refused, RecordIsTrue
<1>16. ASSUME NEW t \in Thread, Promote(t) PROVE RecordIsTrue' /\ LiveIsWhole'
  <2>1. /\ current' = Staged(t) /\ pack'[Staged(t)] = "whole"
        /\ Staged(t) \in marked' /\ seeding' = seeding \ {t}
        /\ remote' = remote /\ Busy(t)
        /\ \A s \in Thread \ {t} : pc'[s] = pc[s]
    BY <1>0, <1>16 DEF Promote, Undisturbed
  <2>2. \A s \in Thread \ {t} : ~Undone(s) /\ s \notin seeding
    BY <1>0, <1>3, <2>1
  <2>3. CASE t \in seeding
    <3>1. current' \notin Commit /\ pc'[t] \in {"query", "idle"}
      BY <1>0, <1>16, <2>1, <2>3, HistoryAssumption DEF Promote, Staged
    <3>2. seeding' = {} /\ \A s \in Thread : pc'[s] # "save" /\ ~Undone(s)'
      BY <1>0, <2>1, <2>2, <3>1
    <3>3. QED
      BY <2>1, <3>1, <3>2 DEF RecordIsTrue, LiveIsWhole
  <2>4. CASE t \notin seeding
    <3>1. pc'[t] = "save" /\ current' = remote
      BY <1>0, <1>16, <2>1, <2>4 DEF Promote, Staged
    <3>2. seeding' = {} /\ \A s \in Thread \ {t} : ~Undone(s)'
      BY <1>0, <2>1, <2>2, <2>4
    <3>3. QED
      BY <2>1, <3>1, <3>2 DEF RecordIsTrue, LiveIsWhole
  <2>5. QED
    BY <2>3, <2>4
<1>17. ASSUME NEW t \in Thread, Save(t) PROVE RecordIsTrue' /\ LiveIsWhole'
  <2>1. current = remote /\ promoted' = remote /\ pc'[t] = "tidy" /\ Busy(t)
        /\ UNCHANGED <<current, marked, pack, seeding, remote>>
        /\ \A s \in Thread \ {t} : pc'[s] = pc[s]
    BY <1>0, <1>17 DEF Save, RecordIsTrue
  <2>2. \A s \in Thread \ {t} : ~Undone(s)
    BY <1>3, <2>1
  <2>3. QED
    BY <1>0, <2>1, <2>2 DEF RecordIsTrue, LiveIsWhole
<1>18. ASSUME NEW t \in Thread, Tidy(t) PROVE RecordIsTrue' /\ LiveIsWhole'
  <2>1. current \notin Prunable
    BY DEF Prunable
  <2>2. current # None => pack'[current] = "whole"
    BY <1>0, <1>18, <2>1 DEF Tidy, Deleted
  <2>3. current \in Commit => current \in marked'
    BY <1>0, <1>18, <2>1 DEF Tidy, RecordIsTrue
  <2>4. QED
    BY <1>0, <1>2, <1>3, <1>18, <2>2, <2>3 DEF Tidy, Leave
<1>19. QED
  BY <1>1, <1>4, <1>5, <1>6, <1>7, <1>8, <1>9, <1>10, <1>12, <1>14,
     <1>15, <1>16, <1>17, <1>18, FaultEffect
  DEF Next, Work, CalmInv

LEMMA CalmInit == Init => CalmInv
<1> SUFFICES ASSUME Init PROVE CalmInv
  OBVIOUS
<1>1. Undisturbed /\ RecordIsTrue /\ LiveIsWhole
  BY HistoryAssumption
  DEF Init, Undisturbed, RecordIsTrue, LiveIsWhole, Busy, Staging, Thread
<1>2. QED
  BY <1>1, InductiveInit DEF CalmInv

\* Where no refresh overlaps the seeding at start-up, and nothing crashes or
\* fails, a scan container may start at any instant and mount a whole pack.
THEOREM CalmIsWhole ==
  ASSUME ~EarlyRefresh
  PROVE  Spec => []LiveIsWhole
<1>1. Init => CalmInv
  BY CalmInit
<1>2. CalmInv /\ [Next]_vars => CalmInv'
  BY InductiveStep, UndisturbedStep, CalmStep DEF CalmInv
<1>3. CalmInv => LiveIsWhole
  BY DEF CalmInv, LiveIsWhole
<1>4. QED
  BY <1>1, <1>2, <1>3, PTL DEF Spec

-----------------------------------------------------------------------------
(* What `no_change' rests on, with any number of faults *)

\* A branch that never returns to a commit it has left: its moves, one after
\* the other, are a strict order, Later.
NeverReturns(Later) ==
  /\ Moves \subseteq Later
  /\ \A a \in Commit : <<a, a>> \notin Later
  /\ \A a, b, c \in Commit :
       <<a, b>> \in Later /\ <<b, c>> \in Later => <<a, c>> \in Later

UpTo(Later, a, b) == a = b \/ <<a, b>> \in Later

\* The recorded commit is the live one, and whole; or it lies behind c.
RecordHolds ==
  promoted \in marked /\ pack[promoted] = "whole" /\ current = promoted
Past(Later, c) == promoted # None => <<promoted, c>> \in Later

\* A pull has its answer from upstream; it is past the comparison with the
\* record and short of the promotion.
Answered(t) == pc[t] \in {"compare", "sync", "reject"} \/ Releasing(t)
Replacing(t) ==
  pc[t] \in {"sync", "validate"} \/ (Staging(t) /\ t \notin seeding)

\* The record follows upstream and never overtakes it.
Behind(Later) ==
  /\ promoted # None => UpTo(Later, promoted, upstream)
  /\ remote # None =>
       /\ UpTo(Later, remote, upstream)
       /\ promoted # None => UpTo(Later, promoted, remote)
       /\ \E t \in Thread : Answered(t)

\* Whenever the record is not true, upstream has moved past it, and so has
\* the answer of the pull under way.
Outdated(Later) ==
  \/ RecordHolds
  \/ Past(Later, upstream) /\ (remote # None => Past(Later, remote))

\* The seed and a new release go live only over a record that is outdated.
OverOld(Later) ==
  /\ seeding # {} => Past(Later, upstream)
  /\ \A t \in Thread :
       /\ Replacing(t) => Past(Later, remote)
       /\ pc[t] = "save" =>
            current = remote /\ remote \in marked /\ pack[remote] = "whole"

RecordInv(Later) ==
  CalmInv /\ Behind(Later) /\ Outdated(Later) /\ OverOld(Later)

\* The steps that write the record, upstream and a pull's answer.
LEMMA RecordEffect ==
  ASSUME IInv, [Next]_vars
  PROVE  \/ \E c \in Commit : Push(c)
         \/ ForgetState
         \/ \E t \in Thread : Query(t) \/ Save(t)
         \/ \E t \in Thread :
              Leave(t) /\ lock = t /\ UNCHANGED <<upstream, promoted>>
         \/ Exit /\ UNCHANGED <<upstream, promoted>>
         \/ UNCHANGED <<upstream, promoted, remote>>
<1> USE DEF gitVars, stateVars, pullVars
<1>1. CASE UNCHANGED vars \/ Boot
  BY <1>1 DEF vars, Boot
<1>2. CASE Environment
  BY <1>2 DEF Environment, Age, StartScan, EndScan
<1>3. CASE Disturbance
  BY <1>3 DEF Disturbance, Crash, Stop, Fails, Abort
<1>4. ASSUME NEW t \in Thread,
             NoChange(t) \/ Replay(t) \/ Reject(t) \/ Tidy(t)
      PROVE  Leave(t) /\ lock = t /\ UNCHANGED <<upstream, promoted>>
  BY <1>4
  DEF NoChange, Replay, Reject, Tidy, IInv, OnePull, Fetching, Releasing
<1>5. ASSUME NEW t \in Thread,
             \/ Call(t) \/ PruneIncomplete(t) \/ Rooted(t) \/ SeedAgain(t)
             \/ Proceed(t) \/ Sync(t) \/ Wipe(t) \/ Create(t) \/ Copy(t)
             \/ Validated(t) \/ Refused(t) \/ Mark(t) \/ Promote(t)
      PROVE  UNCHANGED <<upstream, promoted, remote>>
  BY <1>5
  DEF Call, PruneIncomplete, Rooted, SeedAgain, Proceed, Sync, Wipe, Create,
      Copy, Validated, Refused, Mark, Promote
<1>6. QED
  BY <1>1, <1>2, <1>3, <1>4, <1>5 DEF Next, Work

\* Between the answer and the way out of the pull, nobody else takes a step
\* that counts.
LEMMA AnsweredStep ==
  ASSUME CalmInv, [Next]_vars, NEW t \in Thread, Answered(t), remote' # None
  PROVE  Answered(t)'
<1> USE DEF CalmInv, IInv, TypeOK, OnePull, Undisturbed, Answered, Busy,
            Fetching, Releasing, Staging, Thread, None, Goto, pullVars
<1>1. CASE UNCHANGED vars \/ Environment
  BY <1>1 DEF vars, Environment, Push, Age, ForgetState, StartScan, EndScan
<1>2. ~Exit /\ \A s \in Thread : ~Leave(s)
  BY DEF Exit, Leave
<1>3. ~Disturbance /\ ~Boot
  BY <1>2 DEF Disturbance, Crash, Stop, Fails, Abort, Boot
<1>4. ASSUME NEW s \in Thread, Call(s) \/ Work(s), s # t PROVE FALSE
  BY <1>4
  DEF Call, Work, PruneIncomplete, Rooted, SeedAgain, Query, NoChange, Replay,
      Proceed, Sync, Reject, Wipe, Create, Copy, Validated, Refused, Mark,
      Promote, Save, Tidy
<1>5. CASE Call(t) \/ PruneIncomplete(t) \/ Rooted(t) \/ SeedAgain(t)
           \/ Query(t) \/ NoChange(t) \/ Replay(t) \/ Reject(t) \/ Tidy(t)
  BY <1>2, <1>5
  DEF Call, PruneIncomplete, Rooted, SeedAgain, Query, NoChange, Replay, Reject,
      Tidy
<1>6. CASE Proceed(t) \/ Sync(t)
  BY <1>6 DEF Proceed, Sync
<1>7. CASE Wipe(t) \/ Create(t) \/ Copy(t)
  BY <1>7 DEF Wipe, Create, Copy
<1>8. CASE Validated(t) \/ Refused(t) \/ Mark(t)
  BY <1>8 DEF Validated, Refused, Mark
<1>9. CASE Promote(t) \/ Save(t)
  BY <1>9 DEF Promote, Save
<1>10. QED
  BY <1>1, <1>3, <1>4, <1>5, <1>6, <1>7, <1>8, <1>9 DEF Next, Work

LEMMA BehindStep ==
  ASSUME NEW Later, NeverReturns(Later), ~EarlyRefresh,
         RecordInv(Later), [Next]_vars
  PROVE  Behind(Later)'
<1> USE DEF RecordInv, CalmInv, IInv, TypeOK, Behind, UpTo, None
<1>1. ASSUME NEW c \in Commit, Push(c) PROVE Behind(Later)'
  <2>1. <<upstream, c>> \in Later
    BY <1>1 DEF Push, NeverReturns
  <2>2. \A b \in Commit : UpTo(Later, b, upstream) => UpTo(Later, b, c)
    BY <2>1 DEF NeverReturns
  <2>3. UNCHANGED <<promoted, remote, pc, seeding>> /\ upstream' = c
    BY <1>1 DEF Push, stateVars, pullVars
  <2>4. QED
    BY <2>2, <2>3 DEF Answered, Releasing, Staging
<1>2. CASE ForgetState
  <2>1. UNCHANGED <<upstream, remote, pc, seeding>> /\ promoted' = None
    BY <1>2 DEF ForgetState, gitVars, pullVars
  <2>2. QED
    BY <2>1 DEF Answered, Releasing, Staging
<1>3. ASSUME NEW t \in Thread, Query(t) PROVE Behind(Later)'
  <2>1. /\ remote' = upstream /\ pc'[t] = "compare"
        /\ UNCHANGED <<upstream, promoted>>
    BY <1>3 DEF Query, Goto, gitVars, stateVars
  <2>2. QED
    BY <2>1 DEF Answered
<1>4. ASSUME NEW t \in Thread, Save(t) PROVE Behind(Later)'
  <2>1. /\ promoted' = remote /\ remote \in Commit /\ pc'[t] = "tidy"
        /\ UNCHANGED <<upstream, remote, seeding>>
    BY <1>4 DEF Save, Goto, PullShape, Releasing, gitVars, pullVars
  <2>2. QED
    BY <2>1, HistoryAssumption DEF Answered, Releasing
<1>5. CASE /\ Exit \/ \E t \in Thread : Leave(t)
           /\ UNCHANGED <<upstream, promoted>>
  BY <1>5 DEF Exit, Leave
<1>6. CASE UNCHANGED <<upstream, promoted, remote>>
  <2>1. remote # None => \E t \in Thread : Answered(t)'
    BY <1>6, AnsweredStep
  <2>2. QED
    BY <1>6, <2>1
<1>7. QED
  BY <1>1, <1>2, <1>3, <1>4, <1>5, <1>6, RecordEffect

\* Where one thread is at work, the other is at no step that counts.
LEMMA OthersRest ==
  ASSUME CalmInv, NEW t \in Thread, Busy(t), NEW s \in Thread \ {t}
  PROVE  ~Replacing(s) /\ pc[s] # "save" /\ s \notin seeding
  BY DEF CalmInv, IInv, OnePull, Undisturbed, Replacing, Busy, Staging, Thread

\* What a pull or the seeding stages is not what is on record.
LEMMA StagedIsNew ==
  ASSUME NEW Later, NeverReturns(Later), RecordInv(Later),
         NEW t \in Thread, Staging(t) \/ pc[t] = "validate"
  PROVE  Staged(t) \in Id /\ Staged(t) # promoted
<1> USE DEF RecordInv, CalmInv, IInv, TypeOK
<1>1. Staged(t) \in Id
  BY StagedType
<1>2. CASE t \in seeding
  BY <1>1, <1>2, HistoryAssumption DEF Staged, Seed, None
<1>3. CASE t \notin seeding
  <2>1. Past(Later, remote) /\ remote \in Commit
    BY <1>3 DEF OverOld, Replacing, PullShape, Releasing
  <2>2. QED
    BY <1>1, <1>3, <2>1, HistoryAssumption DEF Past, NeverReturns, Staged
<1>4. QED
  BY <1>1, <1>2, <1>3

LEMMA RecordStep ==
  ASSUME NEW Later, NeverReturns(Later), ~EarlyRefresh,
         RecordInv(Later), [Next]_vars
  PROVE  Outdated(Later)' /\ OverOld(Later)'
<1> USE DEF RecordInv, CalmInv, IInv, TypeOK, gitVars, treeVars, stateVars,
            liveVars, pullVars
<1> DEFINE Goal == Outdated(Later)' /\ OverOld(Later)'
           SameRest(t) == \A s \in Thread \ {t} : pc'[s] = pc[s]
\* A step of t, alone at work, that leaves the record and what it needs.
<1>1. ASSUME NEW t \in Thread, SameRest(t),
             \A s \in Thread \ {t} :
               ~Replacing(s) /\ pc[s] # "save" /\ s \notin seeding,
             UNCHANGED <<upstream, promoted>>, remote' \in {remote, None},
             RecordHolds => RecordHolds', seeding' \subseteq seeding,
             Replacing(t)' => Past(Later, remote'), pc'[t] # "save"
      PROVE  Goal
  <2>1. Outdated(Later)'
    BY <1>1 DEF Outdated, Past
  <2>2. \A s \in Thread \ {t} : ~Replacing(s)' /\ pc'[s] # "save"
    BY <1>1 DEF Replacing, Staging
  <2>3. QED
    BY <1>1, <2>1, <2>2 DEF OverOld, Past
<1>2. ASSUME NEW t \in Thread, Busy(t)
      PROVE  \A s \in Thread \ {t} :
               ~Replacing(s) /\ pc[s] # "save" /\ s \notin seeding
  BY <1>2, OthersRest
<1>3. CASE UNCHANGED <<upstream, promoted, remote, current, pack, marked, pc,
                       seeding>>
  BY <1>3
  DEF Outdated, OverOld, RecordHolds, Past, Replacing, Staging
<1>4. ASSUME NEW c \in Commit, Push(c) PROVE Goal
  <2>1. <<upstream, c>> \in Later /\ upstream' = c
    BY <1>4 DEF Push, NeverReturns
  <2>2. Past(Later, upstream) => Past(Later, c)
    BY <2>1 DEF Past, NeverReturns
  <2>3. UNCHANGED <<promoted, remote, current, pack, marked, pc, seeding>>
    BY <1>4 DEF Push
  <2>4. QED
    BY <2>1, <2>2, <2>3
    DEF Outdated, OverOld, RecordHolds, Past, Replacing, Staging
<1>5. CASE ForgetState
  <2>1. /\ promoted' = None
        /\ UNCHANGED <<upstream, remote, current, pack, marked, pc, seeding>>
    BY <1>5 DEF ForgetState
  <2>2. QED
    BY <2>1 DEF Outdated, OverOld, Past, Replacing, Staging
<1>6. CASE Exit /\ UNCHANGED <<upstream, promoted, current, pack, marked>>
  <2>1. remote' = None /\ seeding' = {} /\ \A t \in Thread : pc'[t] = "down"
    BY <1>6 DEF Exit
  <2>2. QED
    BY <1>6, <2>1
    DEF Outdated, OverOld, RecordHolds, Past, Replacing, Staging
<1>7. ASSUME NEW t \in Thread, Leave(t), Busy(t),
             UNCHANGED <<upstream, promoted>>, RecordHolds => RecordHolds'
      PROVE  Goal
  <2>1. SameRest(t) /\ pc'[t] = "idle" /\ remote' = None
        /\ seeding' \subseteq seeding
    BY <1>7 DEF Leave, Goto
  <2>2. ~Replacing(t)'
    BY <2>1 DEF Replacing, Staging
  <2>3. QED
    BY <1>1, <1>2, <1>7, <2>1, <2>2
<1>8. CASE Disturbance
  BY <1>6, <1>7, <1>8
  DEF Disturbance, Crash, Stop, Fails, Abort, RecordHolds, Busy
<1>9. CASE Environment
  BY <1>3, <1>4, <1>5, <1>9 DEF Environment, Age, StartScan, EndScan
<1>10. CASE Boot
  <2>1. /\ \A s \in Thread : pc'[s] \in {"prune", "idle"}
        /\ UNCHANGED <<upstream, promoted, remote, current, pack, marked,
                       seeding>>
    BY <1>10 DEF Boot, Thread
  <2>2. QED
    BY <2>1 DEF Outdated, OverOld, RecordHolds, Past, Replacing, Staging
<1>11. ASSUME NEW t \in Thread, Call(t) PROVE Goal
  <2>1. /\ SameRest(t) /\ pc'[t] = "prune"
        /\ UNCHANGED <<upstream, promoted, remote, current, pack, marked,
                       seeding>>
    BY <1>11 DEF Call, Goto
  <2>2. QED
    BY <2>1 DEF Outdated, OverOld, RecordHolds, Past, Replacing, Staging
<1>12. ASSUME NEW t \in Thread, PruneIncomplete(t) \/ Rooted(t) PROVE Goal
  <2>1. /\ SameRest(t) /\ Busy(t) /\ pc'[t] \in {"check", "query", "idle"}
        /\ UNCHANGED <<upstream, promoted, remote, current, marked, seeding>>
    BY <1>12 DEF PruneIncomplete, Rooted, Goto, Busy
  <2>2. RecordHolds => RecordHolds'
    BY <1>12 DEF PruneIncomplete, Rooted, Deleted, RecordHolds
  <2>3. ~Replacing(t)'
    BY <2>1 DEF Replacing, Staging
  <2>4. QED
    BY <1>1, <1>2, <2>1, <2>2, <2>3
<1>13. ASSUME NEW t \in Thread, SeedAgain(t) PROVE Goal
  <2>1. /\ SameRest(t) /\ Busy(t) /\ pc'[t] = "wipe"
        /\ seeding' = seeding \cup {t}
        /\ UNCHANGED <<upstream, promoted, remote, current, pack, marked>>
    BY <1>13 DEF SeedAgain, Goto, Busy
  <2>2. ~RecordHolds
    BY <1>13, HistoryAssumption
    DEF SeedAgain, LivePack, RecordHolds, Id, Seed, None
  <2>3. Past(Later, upstream)
    BY <2>2 DEF Outdated
  <2>4. \A s \in Thread : ~Replacing(s)' /\ pc'[s] # "save"
    BY <1>2, <2>1 DEF Replacing, Staging
  <2>5. QED
    BY <2>1, <2>2, <2>3, <2>4 DEF Outdated, OverOld, Past
<1>14. ASSUME NEW t \in Thread, Query(t) PROVE Goal
  <2>1. /\ SameRest(t) /\ Busy(t) /\ pc'[t] = "compare" /\ remote' = upstream
        /\ UNCHANGED <<upstream, promoted, current, pack, marked, seeding>>
    BY <1>14 DEF Query, Goto, Busy
  <2>2. \A s \in Thread : ~Replacing(s)' /\ pc'[s] # "save"
    BY <1>2, <2>1 DEF Replacing, Staging
  <2>3. QED
    BY <2>1, <2>2 DEF Outdated, OverOld, RecordHolds, Past
<1>15. ASSUME NEW t \in Thread, NoChange(t) \/ Replay(t) \/ Reject(t)
       PROVE  Goal
  BY <1>7, <1>15 DEF NoChange, Replay, Reject, RecordHolds, Busy
<1>16. ASSUME NEW t \in Thread, Proceed(t) PROVE Goal
  <2>1. /\ SameRest(t) /\ Busy(t) /\ pc'[t] = "sync" /\ remote \in Commit
        /\ UNCHANGED <<upstream, promoted, remote, current, pack, marked,
                       seeding>>
    BY <1>16 DEF Proceed, Goto, Busy, PullShape
  <2>2. Past(Later, remote)
    <3>1. CASE RecordHolds
      BY <1>16, <2>1, <3>1, HistoryAssumption
      DEF Proceed, UpToDate, RecordHolds, Behind, UpTo, Past
    <3>2. CASE ~RecordHolds
      BY <2>1, <3>2, HistoryAssumption DEF Outdated
    <3>3. QED
      BY <3>1, <3>2
  <2>3. RecordHolds => RecordHolds'
    BY <2>1 DEF RecordHolds
  <2>4. QED
    BY <1>1, <1>2, <2>1, <2>2, <2>3
<1>17. ASSUME NEW t \in Thread, Sync(t) PROVE Goal
  <2>1. /\ SameRest(t) /\ Busy(t) /\ pc'[t] \in {"wipe", "reject"}
        /\ UNCHANGED <<upstream, promoted, remote, current, pack, marked,
                       seeding>>
    BY <1>17 DEF Sync, Goto, Busy
  <2>2. Past(Later, remote)
    BY <1>17 DEF Sync, OverOld, Replacing
  <2>3. RecordHolds => RecordHolds'
    BY <2>1 DEF RecordHolds
  <2>4. QED
    BY <1>1, <1>2, <2>1, <2>2, <2>3
<1>18. ASSUME NEW t \in Thread, Wipe(t) \/ Create(t) \/ Copy(t)
              \/ Validated(t) \/ Refused(t) \/ Mark(t)
       PROVE  Goal
  <2>1. Staging(t) \/ pc[t] = "validate"
    BY <1>18 DEF Wipe, Create, Copy, Validated, Refused, Mark, Staging
  <2>2. Staged(t) \in Id /\ Staged(t) # promoted
    BY <2>1, StagedIsNew
  <2>3. /\ SameRest(t) /\ Busy(t) /\ pc'[t] # "save"
        /\ UNCHANGED <<upstream, promoted, remote, current, seeding>>
    BY <1>18 DEF Wipe, Create, Copy, Validated, Refused, Mark, Goto, Busy
  <2>4. promoted \in Id => pack'[promoted] = pack[promoted]
    BY <1>18, <2>2
    DEF Wipe, Create, Copy, Validated, Refused, Deleted, Mark
  <2>5. promoted \in marked => promoted \in marked'
    BY <1>18, <2>2 DEF Wipe, Create, Copy, Validated, Refused, Mark, Marks
  <2>6. RecordHolds => RecordHolds'
    BY <2>3, <2>4, <2>5 DEF RecordHolds
  <2>7. t \notin seeding => Past(Later, remote)
    BY <2>1 DEF OverOld, Replacing
  <2>8. t \in seeding => ~Replacing(t)'
    BY <1>18, <2>3
    DEF Wipe, Create, Copy, Validated, Refused, Mark, OnePull, Replacing,
        Staging, Goto
  <2>9. QED
    BY <1>1, <1>2, <2>3, <2>6, <2>7, <2>8
<1>19. ASSUME NEW t \in Thread, Promote(t) PROVE Goal
  <2>1. /\ SameRest(t) /\ Busy(t) /\ Staging(t) /\ current' = Staged(t)
        /\ seeding' = seeding \ {t}
        /\ pc'[t] = "save" \/ (t \in seeding /\ pc'[t] \in {"query", "idle"})
        /\ UNCHANGED <<upstream, promoted, remote, pack, marked>>
    BY <1>19 DEF Promote, Goto, Busy, Staging
  <2>2. \A s \in Thread \ {t} :
          ~Replacing(s)' /\ pc'[s] # "save" /\ s \notin seeding'
    <3>1. ASSUME NEW s \in Thread \ {t}
          PROVE  ~Replacing(s)' /\ pc'[s] # "save" /\ s \notin seeding'
      <4>1. ~Replacing(s) /\ pc[s] # "save" /\ s \notin seeding
        BY <1>2, <2>1
      <4>2. pc'[s] = pc[s]
        BY <2>1
      <4>3. QED
        BY <2>1, <4>1, <4>2 DEF Replacing, Staging
    <3>2. QED
      BY <3>1
  <2>3. ~Replacing(t)' /\ seeding' = {}
    BY <2>1, <2>2 DEF Replacing, Staging
  <2>4. Past(Later, upstream) /\ (remote # None => Past(Later, remote))
    <3>1. CASE t \in seeding
      <4>1. ~Answered(t)
        BY <2>1, <3>1 DEF Answered, Releasing, Staging
      <4>2. \A s \in Thread \ {t} : ~Answered(s)
        BY <2>1
        DEF Undisturbed, Answered, Releasing, Staging, Busy, Thread
      <4>3. remote = None
        BY <4>1, <4>2 DEF Behind
      <4>4. QED
        BY <3>1, <4>3 DEF OverOld
    <3>2. CASE t \notin seeding
      <4>1. Past(Later, remote) /\ remote \in Commit
        BY <2>1, <3>2 DEF OverOld, Replacing, PullShape, Releasing
      <4>2. UpTo(Later, remote, upstream)
        BY <4>1, HistoryAssumption DEF Behind
      <4>3. QED
        BY <4>1, <4>2 DEF Past, UpTo, NeverReturns
    <3>3. QED
      BY <3>1, <3>2
  <2>5. pc'[t] = "save" =>
          current' = remote /\ remote \in marked /\ pack[remote] = "whole"
    BY <1>19, <2>1 DEF Promote, Goto, Undisturbed, Staged
  <2>6. QED
    BY <2>1, <2>2, <2>3, <2>4, <2>5 DEF Outdated, OverOld, Past
<1>20. ASSUME NEW t \in Thread, Save(t) PROVE Goal
  <2>1. /\ SameRest(t) /\ Busy(t) /\ pc'[t] = "tidy" /\ promoted' = remote
        /\ t \notin seeding
        /\ UNCHANGED <<upstream, remote, current, pack, marked, seeding>>
    BY <1>20 DEF Save, Goto, Busy, OnePull, Staging
  <2>2. \A s \in Thread :
          ~Replacing(s)' /\ pc'[s] # "save" /\ s \notin seeding'
    BY <1>2, <2>1 DEF Replacing, Staging
  <2>3. RecordHolds'
    BY <1>20, <2>1 DEF Save, OverOld, RecordHolds
  <2>4. QED
    BY <2>1, <2>2, <2>3 DEF Outdated, OverOld, Past
<1>21. ASSUME NEW t \in Thread, Tidy(t) PROVE Goal
  <2>1. RecordHolds => RecordHolds'
    BY <1>21 DEF Tidy, Prunable, Deleted, RecordHolds
  <2>2. QED
    BY <1>7, <1>21, <2>1 DEF Tidy, Busy
<1>22. CASE UNCHANGED vars
  BY <1>3, <1>22 DEF vars
<1>23. QED
  BY <1>8, <1>9, <1>10, <1>11, <1>12, <1>13, <1>14, <1>15, <1>16, <1>17,
     <1>18, <1>19, <1>20, <1>21, <1>22
  DEF Next, Work

\* Where the branch never returns to a commit it has left and no refresh
\* overlaps the seeding at start-up, `no change' is the truth whatever crashes,
\* fails or is lost: a record that no longer names the live, whole release is
\* one that upstream has moved past.
THEOREM NoChangeSpeaksTrue ==
  ASSUME NEW Later, NeverReturns(Later), ~EarlyRefresh
  PROVE  Spec => NoChangeIsTrue
<1>1. Init => RecordInv(Later)
  <2> SUFFICES ASSUME Init PROVE RecordInv(Later)
    OBVIOUS
  <2>1. Behind(Later) /\ Outdated(Later) /\ OverOld(Later)
    BY DEF Init, Behind, Outdated, OverOld, Past, Replacing, Staging, Thread
  <2>2. QED
    BY <2>1, CalmInit DEF RecordInv
<1>2. RecordInv(Later) /\ [Next]_vars => RecordInv(Later)'
  <2> SUFFICES ASSUME RecordInv(Later), [Next]_vars PROVE RecordInv(Later)'
    OBVIOUS
  <2>1. CalmInv'
    BY InductiveStep, UndisturbedStep, CalmStep DEF CalmInv, RecordInv
  <2>2. QED
    BY <2>1, BehindStep, RecordStep DEF RecordInv
<1>3. ASSUME RecordInv(Later), NEW t \in Thread, NoChange(t)
      PROVE  current = remote /\ pack[remote] = "whole"
  <2>1. remote \in Commit /\ remote = promoted
    BY <1>3
    DEF RecordInv, CalmInv, IInv, PullShape, NoChange, UpToDate
  <2>2. RecordHolds
    BY <1>3, <2>1, HistoryAssumption
    DEF RecordInv, Outdated, Past, NeverReturns
  <2>3. QED
    BY <2>1, <2>2 DEF RecordHolds
<1>4. RecordInv(Later) /\ [Next]_vars =>
        [\A t \in Thread :
           NoChange(t) => current = remote /\ pack[remote] = "whole"]_vars
  BY <1>3
<1>5. QED
  BY <1>1, <1>2, <1>4, PTL DEF Spec, NoChangeIsTrue

-----------------------------------------------------------------------------
(* The updater implements the register of RuleFeed *)

\* What a pull is about to record is what went live last.
SavesLive == \A t \in Thread : pc[t] = "save" => trail = remote

FeedInv == IInv /\ SavesLive

LEMMA SaveEffect ==
  ASSUME TypeOK, [Next]_vars, NEW t \in Thread, pc'[t] = "save"
  PROVE  pc[t] = "save" \/ Promote(t)
<1> USE DEF TypeOK, Thread, Goto
<1>1. CASE UNCHANGED vars \/ Environment
  BY <1>1 DEF vars, Environment, Push, Age, ForgetState, StartScan, EndScan
<1>2. CASE Disturbance \/ Boot
  BY <1>2 DEF Disturbance, Crash, Stop, Fails, Abort, Exit, Leave, Boot
<1>3. ASSUME NEW s \in Thread, Call(s) \/ Work(s)
      PROVE  pc[t] = "save" \/ Promote(t)
  BY <1>3
  DEF Call, Work, PruneIncomplete, Rooted, SeedAgain, Query, NoChange, Replay,
      Proceed, Sync, Reject, Wipe, Create, Copy, Validated, Refused, Mark,
      Promote, Save, Tidy, Leave
<1>4. QED
  BY <1>1, <1>2, <1>3 DEF Next

LEMMA SavesLiveStep == FeedInv /\ [Next]_vars => SavesLive'
<1> SUFFICES ASSUME FeedInv, [Next]_vars, NEW t \in Thread, pc'[t] = "save"
             PROVE  trail' = remote'
  BY DEF SavesLive
<1> USE DEF FeedInv, IInv
<1>1. CASE Promote(t)
  BY <1>1 DEF Promote, Goto, TypeOK
<1>2. CASE pc[t] = "save" /\ ~Promote(t)
  <2>1. lock = t /\ Releasing(t)
    BY <1>2 DEF OnePull, Releasing
  <2>2. trail' = trail
    <3>1. ASSUME NEW s \in Thread, Promote(s) PROVE UNCHANGED trail
      <4>1. s \in seeding
        BY <1>2, <2>1, <3>1, Others DEF Promote, Releasing, Staging
      <4>2. QED
        BY <3>1, <4>1 DEF Promote
    <3>2. QED
      BY <3>1, LiveEffect DEF Sync, liveVars
  <2>3. remote' = remote
    <3>1. ~Exit /\ ~Leave(t)
      BY <1>2 DEF Exit, Leave, Goto, TypeOK
    <3>2. ASSUME NEW s \in Thread, Query(s) PROVE FALSE
      BY <1>2, <2>1, <3>2, Others DEF Query, Fetching
    <3>3. QED
      BY <2>1, <3>1, <3>2, RecordEffect DEF Push, ForgetState, Save, pullVars
  <2>4. QED
    BY <1>2, <2>2, <2>3 DEF SavesLive
<1>3. QED
  BY <1>1, <1>2, SaveEffect

LEMMA FeedStep == FeedInv /\ [Next]_vars => [Feed!Next]_(Feed!vars)
<1> SUFFICES ASSUME FeedInv, [Next]_vars PROVE [Feed!Next]_(Feed!vars)
  OBVIOUS
<1> USE DEF FeedInv, IInv, stateVars, liveVars
<1>1. ASSUME NEW t \in Thread, Promote(t) PROVE Feed!Next
  <2>1. CASE t \in seeding
    <3>1. Feed!FallBack
      BY <1>1, <2>1 DEF Promote, Staged, Feed!FallBack
    <3>2. QED
      BY <3>1 DEF Feed!Next
  <2>2. CASE t \notin seeding
    <3>1. remote \in Commit /\ work = remote /\ Pack[remote] = "valid"
      BY <1>1, <2>2 DEF Promote, PullShape, Releasing, Staging
    <3>2. Feed!GoLive(remote)
      BY <1>1, <2>2, <3>1 DEF Promote, Staged, Descends, Feed!GoLive
    <3>3. QED
      BY <3>1, <3>2 DEF Feed!Next
  <2>3. QED
    BY <2>1, <2>2
<1>2. ASSUME NEW t \in Thread, Save(t) PROVE Feed!Next
  <2>1. trail = remote /\ remote \in Commit
    BY <1>2 DEF Save, SavesLive, PullShape, Releasing
  <2>2. Feed!Record
    BY <1>2, <2>1, HistoryAssumption DEF Save, Feed!Record
  <2>3. QED
    BY <2>2 DEF Feed!Next
<1>3. CASE ForgetState
  BY <1>3 DEF ForgetState, Feed!LoseRecord, Feed!Next
<1>4. CASE UNCHANGED <<current, trail, promoted>>
  BY <1>4 DEF Feed!vars
<1>5. QED
  BY <1>1, <1>2, <1>3, <1>4, LiveEffect, RecordEffect
  DEF Push, Query, Sync

\* Every behaviour of the updater is, seen through what is live, what went live
\* last and what is on record, one of the register of RuleFeed.
THEOREM Refinement == Spec => ImplementsRuleFeed
<1>1. Init => FeedInv /\ Feed!Init
  BY InductiveInit DEF Init, FeedInv, SavesLive, Thread, Feed!Init
<1>2. FeedInv /\ [Next]_vars => FeedInv'
  BY InductiveStep, SavesLiveStep DEF FeedInv
<1>3. QED
  BY <1>1, <1>2, FeedStep, PTL DEF Spec, ImplementsRuleFeed, Feed!Spec

\* The commit on record is the one that went live last or an ancestor of it:
\* a lost, late or repeated record is never of another line of history.
THEOREM RecordStaysBehind == Spec => []Feed!RecordIsBehind
<1> DEFINE FInv == /\ trail \in Commit \cup {None}
                   /\ promoted \in Commit \cup {None}
                   /\ Feed!RecordIsBehind
<1>1. Feed!Init => FInv
  BY DEF Feed!Init, Feed!RecordIsBehind
<1>2. FInv /\ [Feed!Next]_(Feed!vars) => FInv'
  <2> SUFFICES ASSUME FInv, [Feed!Next]_(Feed!vars) PROVE FInv'
    OBVIOUS
  <2> USE DEF Feed!RecordIsBehind
  <2>1. ASSUME NEW c \in Commit, Feed!GoLive(c) PROVE FInv'
    <3>1. CASE promoted = None
      BY <2>1, <3>1 DEF Feed!GoLive
    <3>2. CASE promoted # None
      <4>1. promoted \in Commit /\ trail \in Commit
        BY <3>2, HistoryAssumption
      <4>2. <<trail, c>> \in Ancestor
        BY <2>1, <4>1, HistoryAssumption DEF Feed!GoLive
      <4>3. <<promoted, c>> \in Ancestor
        BY <2>1, <3>2, <4>1, <4>2, HistoryAssumption
      <4>4. QED
        BY <2>1, <4>3 DEF Feed!GoLive
    <3>3. QED
      BY <3>1, <3>2
  <2>2. CASE Feed!FallBack \/ Feed!LoseRecord
    BY <2>2 DEF Feed!FallBack, Feed!LoseRecord
  <2>3. CASE Feed!Record
    BY <2>3, HistoryAssumption DEF Feed!Record
  <2>4. CASE UNCHANGED Feed!vars
    BY <2>4 DEF Feed!vars
  <2>5. QED
    BY <2>1, <2>2, <2>3, <2>4 DEF Feed!Next
<1>3. FInv => Feed!RecordIsBehind
  OBVIOUS
<1>4. QED
  BY <1>1, <1>2, <1>3, Refinement, PTL DEF ImplementsRuleFeed, Feed!Spec
=============================================================================
