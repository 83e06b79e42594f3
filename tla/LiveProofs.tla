----------------------------- MODULE LiveProofs -----------------------------
(***************************************************************************)
(* Proofs about Live, for any messages, attempts, workers, time-outs and   *)
(* numbers of faults: how long a wait lasts, what a message recorded as    *)
(* scanned or given up stands for, and which containers may be left over.  *)
(*                                                                         *)
(* The bound on the wait rests on where each deadline is taken: the        *)
(* stretch is measured before IDLE is sent and starts to run after the     *)
(* continuation, so what the preamble took is added to it, once.           *)
(***************************************************************************)
EXTENDS Live, FiniteSetTheorems, TLAPS

\* IDLE is only tried while it is enabled, and a phase has time enough left.
Flags ==
    /\ conn \in {"none", "up", "lost", "suspect"}
    /\ enabled \in BOOLEAN /\ heard \in BOOLEAN /\ stopping \in BOOLEAN
    /\ phase \in {"off", "top", "sleep"} \cup Exchange
    /\ phase \in Exchange => enabled

Failures ==
    /\ failures \in 0 .. MaxFailures
    /\ enabled => failures < MaxFailures

Clock ==
    /\ waited \in Nat /\ until \in Nat /\ spent \in Nat
    /\ phase = "off" => waited = 0
    /\ phase \in {"top", "sleep"} => waited <= Poll + Overrun
    /\ phase = "preamble" => /\ spent <= PreambleTime
                             /\ waited <= Poll + spent
                             /\ waited + until <= Poll + spent
    /\ phase = "watch" => /\ spent <= Backstop
                          /\ until <= Poll + PreambleTime
                          /\ waited <= until + Backstop
                          /\ spent > 0 => waited < until + spent
    /\ phase = "completion" => /\ spent <= CompletionTime
                               /\ waited <= Poll + PreambleTime + Backstop + spent

IdleInv == Flags /\ Failures /\ Clock

\* Where a scan stands, and what a settled message stands for.
ScanInv ==
    /\ \A m \in Message :
          /\ scan[m] = "queued" => attempt[m] = 0
          /\ scan[m] = "again" => attempt[m] < MaxAttempts
          /\ scan[m] \in {"merged", "ok"} => m \in packages
          /\ scan[m] = "ok" /\ m \in Review => m \in candidates
    /\ CandidateHasPackage
    /\ DoneIsCollected

\* Every attempt that failed on a good message was paid for.
Paid ==
    \A m \in Message \ Poison :
       /\ scan[m] \in {"running", "exited", "merged"} => attempt[m] <= faults + beside + 1
       /\ scan[m] \in {"again", "removed"} => attempt[m] <= faults + beside
       /\ scan[m] = "failed" => MaxAttempts <= faults + beside
       /\ done[m] = "quarantined" => MaxAttempts <= faults + beside

-----------------------------------------------------------------------------
(* The wait *)

LEMMA IdleStart == IdleInit => IdleInv
<1> SUFFICES ASSUME IdleInit PROVE IdleInv OBVIOUS
<1>1. Flags BY DEF IdleInit, Flags, Exchange
<1>2. Failures BY IdleAssumption DEF IdleInit, Failures
<1>3. Clock BY IdleAssumption DEF IdleInit, Clock, Exchange
<1> QED BY <1>1, <1>2, <1>3 DEF IdleInv

LEMMA FlagsHold ==
    ASSUME Flags, [IdleNext]_idleVars
    PROVE  Flags'
<1> USE DEF Flags, Exchange
<1>1. ASSUME WaitStep PROVE Flags'
  <2>1. CASE Break
    <3>1. (failures' < MaxFailures) \in BOOLEAN OBVIOUS
    <3> QED BY <2>1, <3>1 DEF Break
  <2>2. CASE ReadLine(TRUE) BY <2>2 DEF ReadLine
  <2>3. CASE ReadLine(FALSE) BY <2>3 DEF ReadLine
  <2>4. CASE Return \/ SleepOut \/ SendIdle \/ Refused \/ Continue
    BY <2>4 DEF Return, SleepOut, SendIdle, Refused, Continue, EndWait, exchangeVars
  <2>5. CASE HearAside \/ StopWatching \/ Complete \/ Tick
    BY <2>5 DEF HearAside, StopWatching, Complete, Tick, EndWait, exchangeVars
  <2> QED BY <1>1, <2>1, <2>2, <2>3, <2>4, <2>5 DEF WaitStep
<1>2. CASE BeginWait \/ Lose \/ Terminate \/ Vanish
  BY <1>2 DEF BeginWait, Lose, Terminate, Vanish, EndWait, exchangeVars
<1>3. ASSUME NEW advertised \in BOOLEAN, Reconnect(advertised) PROVE Flags'
  BY <1>3 DEF Reconnect, exchangeVars
<1>4. CASE UNCHANGED idleVars BY <1>4 DEF idleVars
<1> QED BY <1>1, <1>2, <1>3, <1>4 DEF IdleNext

LEMMA FailuresHold ==
    ASSUME Flags, Failures, [IdleNext]_idleVars
    PROVE  Failures'
<1>1. MaxFailures \in Nat \ {0} BY IdleAssumption
<1>2. CASE Break
  <2>1. enabled /\ failures' = failures + 1 /\ enabled' = (failures' < MaxFailures)
    BY <1>2 DEF Break, Flags
  <2>2. failures' \in 0 .. MaxFailures BY <1>1, <2>1 DEF Failures
  <2> QED BY <2>1, <2>2 DEF Failures
<1>3. CASE failures' = 0 BY <1>1, <1>3 DEF Failures
<1>4. CASE failures' = failures /\ (enabled' => enabled) BY <1>4 DEF Failures
<1>5. ASSUME WaitStep, ~Break PROVE failures' = 0 \/ (failures' = failures /\ (enabled' => enabled))
  BY <1>5 DEF WaitStep, Return, SleepOut, SendIdle, Refused, Continue, HearAside,
     ReadLine, StopWatching, Complete, Tick
<1>6. CASE UNCHANGED idleVars BY <1>4, <1>6 DEF idleVars
<1> QED
  BY <1>2, <1>3, <1>4, <1>5, <1>6 DEF IdleNext, BeginWait, Reconnect, Lose, Terminate, Vanish

LEMMA ClockWaits ==
    ASSUME Clock, WaitStep
    PROVE  Clock'
<1> USE IdleAssumption DEF Clock, Exchange
<1>1. ASSUME Return PROVE Clock' BY <1>1 DEF Return, EndWait
<1>2. ASSUME SleepOut PROVE Clock' BY <1>2 DEF SleepOut, exchangeVars
<1>3. ASSUME SendIdle PROVE Clock'
  <2>1. phase = "top" /\ phase' = "preamble" /\ waited < Poll /\ waited' = waited /\ spent' = 0
    BY <1>3 DEF SendIdle, TimeIsUp
  <2>2. until' \in Nat /\ until' <= Poll - waited
    BY <1>3, <2>1 DEF SendIdle, Shorter
  <2>3. waited' \in Nat /\ spent' \in Nat /\ 0 <= PreambleTime
    BY <2>1
  <2>4. ASSUME NEW w \in Nat, NEW p \in Nat, NEW u \in Nat, w < p, u <= p - w
        PROVE  w <= p + 0 /\ w + u <= p + 0
    BY ONLY <2>4
  <2>5. waited \in Nat /\ Poll \in Nat OBVIOUS
  <2>6. waited' <= Poll + spent' /\ waited' + until' <= Poll + spent'
    BY ONLY <2>1, <2>2, <2>4, <2>5
  <2>7. spent' <= PreambleTime BY <2>1, <2>3
  <2> QED BY <2>1, <2>2, <2>3, <2>6, <2>7
<1>4. ASSUME Break PROVE Clock' BY <1>4 DEF Break, Overrun
<1>5. ASSUME Refused PROVE Clock' BY <1>5 DEF Refused, Overrun
<1>6. ASSUME Continue PROVE Clock' BY <1>6 DEF Continue
<1>7. ASSUME HearAside PROVE Clock' BY <1>7 DEF HearAside
<1>8. ASSUME NEW wake \in BOOLEAN, ReadLine(wake) PROVE Clock'
  <2>1. phase = "watch" /\ phase' \in {"watch", "completion"} /\ spent' = 0
        /\ waited' = waited /\ until' = until
    BY <1>8 DEF ReadLine
  <2> QED BY <2>1
<1>9. ASSUME StopWatching PROVE Clock' BY <1>9 DEF StopWatching, exchangeVars
<1>10. ASSUME Complete PROVE Clock'
  <2>1. phase = "completion" /\ until' = 0 /\ spent' = 0
        /\ \/ phase' = "off" /\ waited' = 0
           \/ phase' = "top" /\ waited' = waited
    BY <1>10 DEF Complete, EndWait
  <2> QED BY <2>1 DEF Overrun
<1>11. ASSUME Tick PROVE Clock'
  <2>1. waited' = waited + 1 /\ phase' = phase /\ until' = until
    BY <1>11 DEF Tick
  <2>2. CASE phase = "sleep" /\ waited < Poll /\ spent' = spent
    BY <2>1, <2>2 DEF Overrun
  <2>3. CASE phase = "watch" /\ spent = 0 /\ waited < until /\ spent' = spent
    BY <2>1, <2>3
  <2>4. CASE /\ phase \in Exchange /\ spent < Allowed[phase] /\ spent' = spent + 1
             /\ phase = "watch" /\ spent = 0 => waited < until
    BY <2>1, <2>4 DEF Allowed
  <2> QED BY <1>11, <2>2, <2>3, <2>4 DEF Tick, TimeIsUp
<1> QED BY <1>1, <1>2, <1>3, <1>4, <1>5, <1>6, <1>7, <1>8, <1>9, <1>10, <1>11 DEF WaitStep

LEMMA ClockHolds ==
    ASSUME Clock, [IdleNext]_idleVars
    PROVE  Clock'
<1>1. CASE UNCHANGED <<phase, waited, exchangeVars>>
  BY <1>1 DEF Clock, Exchange, exchangeVars
<1>2. CASE BeginWait
  BY <1>2, IdleAssumption DEF BeginWait, exchangeVars, Clock, Exchange, Overrun
<1>3. CASE Vanish BY <1>3, IdleAssumption DEF Vanish, EndWait, Clock, Exchange
<1>4. CASE \/ \E advertised \in BOOLEAN : Reconnect(advertised)
           \/ Lose \/ Terminate \/ UNCHANGED idleVars
  BY <1>1, <1>4 DEF Reconnect, Lose, Terminate, idleVars, exchangeVars
<1> QED BY <1>2, <1>3, <1>4, ClockWaits DEF IdleNext

LEMMA IdleSteps ==
    ASSUME IdleInv, [IdleNext]_idleVars
    PROVE  IdleInv'
BY FlagsHold, FailuresHold, ClockHolds DEF IdleInv

LEMMA IdleBound ==
    ASSUME IdleInv
    PROVE  DrainComesInTime
BY IdleAssumption DEF IdleInv, Flags, Clock, DrainComesInTime, Overrun, Exchange

\* What the live loop does to the wait is what Idle allows.
LEMMA LiveToIdle ==
    ASSUME [LiveNext]_liveVars
    PROVE  [IdleNext]_idleVars
<1>1. CASE HostStep
  BY <1>1 DEF HostStep, Arrive, ConnectionLost, AskToStop, Kill, IdleNext
<1>2. CASE Start BY <1>2 DEF Start
<1>3. CASE Loop
  BY <1>3 DEF Loop, ReapOrphans, Connect, DrainFails, Drain, Scan, Commit, Wait,
     Waiting, Stop, IdleNext
<1>4. CASE UNCHANGED liveVars BY <1>4 DEF liveVars
<1> QED BY <1>1, <1>2, <1>3, <1>4 DEF LiveNext

-----------------------------------------------------------------------------
(* The scans *)

\* Unfolded far enough for the arithmetic on attempts.
ScanTypes ==
    /\ ContainersTypeOK
    /\ done \in [Message -> {"no", "ok", "quarantined"}]

Scans == ScanTypes /\ ScanInv /\ Paid

LEMMA WaitedCounted == Cardinality(Waited) \in Nat
<1>1. Waited \subseteq Message /\ IsFiniteSet(Message)
  BY ContainersAssumption DEF Waited
<1> QED BY <1>1, FS_Subset, FS_CardinalityType

LEMMA OneMoreFault ==
    ASSUME faults \in 0 .. MaxFaults, Fault
    PROVE  faults' = faults + 1 /\ faults' \in 0 .. MaxFaults
BY ContainersAssumption DEF Fault

\* What a step of one scan can do to its place, its attempts and the trees.
LEMMA ScanStepTypes ==
    ASSUME ScanTypes, ScanInv, NEW m \in Message, ScanStep(m), UNCHANGED done
    PROVE  ScanTypes'
<1> USE ContainersAssumption DEF ScanTypes, ContainersTypeOK, Underway, Settled,
        scanVars, treeVars, dockerVars
<1>1. CASE Launch(m)
  <2>1. attempt[m] + 1 \in 0 .. MaxAttempts
    BY <1>1 DEF Launch, ScanInv
  <2>2. attempt' \in [Message -> 0 .. MaxAttempts]
    BY <1>1, <2>1 DEF Launch
  <2>3. scan' \in [Message -> {"none", "queued"} \cup Underway \cup Settled]
    BY <1>1 DEF Launch, AfterFailure
  <2>4. faults' \in 0 .. MaxFaults
    BY <1>1, OneMoreFault DEF Launch
  <2> QED BY <1>1, <2>2, <2>3, <2>4 DEF Launch
<1>2. CASE ContainerExits(m) BY <1>2 DEF ContainerExits
<1>3. ASSUME NEW removed \in BOOLEAN, ScanFails(m, removed) PROVE ScanTypes'
  <2>1. scan' \in [Message -> {"none", "queued"} \cup Underway \cup Settled]
    BY <1>3 DEF ScanFails, FailAttempt, AfterFailure
  <2>2. faults' \in 0 .. MaxFaults
    BY <1>3, OneMoreFault DEF ScanFails
  <2>3. strays' \in Nat /\ refused' \in Nat
    BY <1>3 DEF ScanFails
  <2> QED BY <1>3, <2>1, <2>2, <2>3 DEF ScanFails
<1>4. CASE ScanWasReaped(m) BY <1>4 DEF ScanWasReaped, FailAttempt, AfterFailure
<1>5. CASE MergeOutbound(m) BY <1>5 DEF MergeOutbound
<1>6. CASE MergeBrief(m) BY <1>6 DEF MergeBrief
<1>7. CASE CollectFails(m)
  BY <1>7, OneMoreFault DEF CollectFails, FailAttempt, AfterFailure
<1> QED BY <1>1, <1>2, <1>3, <1>4, <1>5, <1>6, <1>7 DEF ScanStep

\* A failed attempt leaves nothing to prove but that one is left.
LEMMA FailedKeepsScanInv ==
    ASSUME ScanTypes, ScanInv, NEW m \in Message, FailAttempt(m),
           UNCHANGED <<attempt, treeVars, done>>
    PROVE  ScanInv'
<1>1. ASSUME NEW n \in Message, n # m PROVE scan'[n] = scan[n]
  BY <1>1 DEF FailAttempt, ScanTypes, ContainersTypeOK
<1>2. scan'[m] = AfterFailure(attempt[m])
  BY DEF FailAttempt, ScanTypes, ContainersTypeOK
<1> QED
  BY <1>1, <1>2 DEF ScanInv, AfterFailure, treeVars, CandidateHasPackage, DoneIsCollected

LEMMA ScanStepInv ==
    ASSUME ScanTypes, ScanInv, NEW m \in Message, ScanStep(m), UNCHANGED done
    PROVE  ScanInv'
<1> USE DEF ScanTypes, ContainersTypeOK
<1>1. CASE Launch(m)
  <2>1. attempt[m] \in 0 .. MaxAttempts /\ MaxAttempts \in Nat
    BY ContainersAssumption
  <2>2. attempt'[m] = attempt[m] + 1
        /\ \A n \in Message : n # m => attempt'[n] = attempt[n] /\ scan'[n] = scan[n]
    BY <1>1 DEF Launch
  <2>3. \/ scan'[m] \in {"running", "failed"}
        \/ scan'[m] = "again" /\ attempt'[m] < MaxAttempts
    BY <1>1, <2>2 DEF Launch, AfterFailure
  <2>4. packages' = packages /\ candidates' = candidates
    BY <1>1 DEF Launch, treeVars
  <2> QED BY <2>2, <2>3, <2>4 DEF ScanInv, CandidateHasPackage, DoneIsCollected
<1>2. CASE ContainerExits(m)
  <2>1. scan'[m] = "exited" /\ \A n \in Message : n # m => scan'[n] = scan[n]
    BY <1>2 DEF ContainerExits
  <2> QED BY <1>2, <2>1 DEF ContainerExits, treeVars, ScanInv, CandidateHasPackage, DoneIsCollected
<1>3. ASSUME NEW removed \in BOOLEAN, ScanFails(m, removed) PROVE ScanInv'
  BY <1>3, FailedKeepsScanInv DEF ScanFails
<1>4. CASE ScanWasReaped(m) BY <1>4, FailedKeepsScanInv DEF ScanWasReaped
<1>5. CASE MergeOutbound(m)
  <2>1. scan'[m] = "merged" /\ \A n \in Message : n # m => scan'[n] = scan[n]
    BY <1>5 DEF MergeOutbound
  <2> QED BY <1>5, <2>1 DEF MergeOutbound, ScanInv, CandidateHasPackage, DoneIsCollected
<1>6. CASE MergeBrief(m)
  <2>1. scan'[m] = "ok" /\ \A n \in Message : n # m => scan'[n] = scan[n]
    BY <1>6 DEF MergeBrief
  <2>2. candidates' \subseteq packages' /\ m \in packages'
        /\ (m \in Review => m \in candidates') /\ candidates \subseteq candidates'
        /\ packages' = packages /\ attempt' = attempt
    BY <1>6 DEF MergeBrief, ScanInv, CandidateHasPackage
  <2> QED BY <2>1, <2>2 DEF ScanInv, CandidateHasPackage, DoneIsCollected
<1>7. CASE CollectFails(m) BY <1>7, FailedKeepsScanInv DEF CollectFails
<1> QED BY <1>1, <1>2, <1>3, <1>4, <1>5, <1>6, <1>7 DEF ScanStep

LEMMA ScanStepPaid ==
    ASSUME ScanTypes, ScanInv, Paid, NEW m \in Message, ScanStep(m), UNCHANGED done
    PROVE  Paid'
<1> USE DEF ScanTypes, ContainersTypeOK
<1>1. /\ attempt \in [Message -> 0 .. MaxAttempts] /\ MaxAttempts \in Nat
      /\ faults \in Nat /\ beside \in Nat
  BY ContainersAssumption
<1>2. Fault => faults' = faults + 1
  BY DEF Fault
<1>3. beside' = beside /\ (faults' = faults \/ faults' = faults + 1)
  BY <1>2 DEF ScanStep, Launch, ContainerExits, ScanFails, ScanWasReaped, MergeOutbound,
     MergeBrief, CollectFails, dockerVars
<1>4. \A n \in Message : n # m => scan'[n] = scan[n] /\ attempt'[n] = attempt[n]
  BY DEF ScanStep, Launch, ContainerExits, ScanFails, ScanWasReaped, MergeOutbound,
     MergeBrief, CollectFails, FailAttempt
<1>5. SUFFICES ASSUME m \notin Poison
               PROVE  /\ scan'[m] \in {"running", "exited", "merged"} =>
                            attempt'[m] <= faults' + beside' + 1
                      /\ scan'[m] \in {"again", "removed"} => attempt'[m] <= faults' + beside'
                      /\ scan'[m] = "failed" => MaxAttempts <= faults' + beside'
  <2>1. ASSUME NEW n \in Message \ Poison, n # m
        PROVE  /\ scan'[n] \in {"running", "exited", "merged"} =>
                     attempt'[n] <= faults' + beside' + 1
               /\ scan'[n] \in {"again", "removed"} => attempt'[n] <= faults' + beside'
               /\ scan'[n] = "failed" => MaxAttempts <= faults' + beside'
    <3>1. scan'[n] = scan[n] /\ attempt'[n] = attempt[n] BY <1>4, <2>1
    <3>2. attempt[n] \in Nat BY <1>1
    <3> QED BY <1>1, <1>3, <3>1, <3>2 DEF Paid
  <2>2. ASSUME NEW n \in Message \ Poison
        PROVE  done'[n] = "quarantined" => MaxAttempts <= faults' + beside'
    BY <1>1, <1>3 DEF Paid
  <2> QED BY <1>5, <2>1, <2>2 DEF Paid
<1>6. attempt[m] \in Nat BY <1>1
<1>7. CASE Launch(m)
  <2>1. attempt[m] <= faults + beside
    BY <1>1, <1>5, <1>6, <1>7 DEF Launch, ScanInv, Paid
  <2>2. attempt'[m] = attempt[m] + 1 BY <1>1, <1>7 DEF Launch
  <2>3. \/ scan'[m] = "running"
        \/ faults' = faults + 1 /\ scan'[m] = AfterFailure(attempt[m] + 1)
    BY <1>2, <1>7 DEF Launch
  <2> QED BY <1>1, <1>3, <1>6, <2>1, <2>2, <2>3 DEF AfterFailure
<1>8. ASSUME FailAttempt(m), attempt' = attempt,
             attempt[m] <= faults' + beside
      PROVE  /\ scan'[m] \in {"running", "exited", "merged"} =>
                   attempt'[m] <= faults' + beside' + 1
             /\ scan'[m] \in {"again", "removed"} => attempt'[m] <= faults' + beside'
             /\ scan'[m] = "failed" => MaxAttempts <= faults' + beside'
  <2>1. scan'[m] = AfterFailure(attempt[m]) BY <1>8 DEF FailAttempt
  <2> QED BY <1>1, <1>3, <1>6, <1>8, <2>1 DEF AfterFailure
<1>9. ASSUME NEW removed \in BOOLEAN, ScanFails(m, removed)
      PROVE  attempt[m] <= faults' + beside
  BY <1>1, <1>2, <1>5, <1>6, <1>9 DEF ScanFails, Paid
<1>10. CASE \E removed \in BOOLEAN : ScanFails(m, removed)
  BY <1>8, <1>9, <1>10 DEF ScanFails
<1>11. CASE ScanWasReaped(m)
  BY <1>1, <1>5, <1>8, <1>11 DEF ScanWasReaped, Paid
<1>12. CASE CollectFails(m)
  BY <1>1, <1>2, <1>5, <1>6, <1>8, <1>12 DEF CollectFails, Paid
<1>13. CASE ContainerExits(m) \/ MergeOutbound(m) \/ MergeBrief(m)
  <2>1. scan[m] \in {"running", "exited", "merged"} /\ attempt' = attempt /\ faults' = faults
    BY <1>13 DEF ContainerExits, MergeOutbound, MergeBrief
  <2>2. scan'[m] \in {"exited", "merged", "ok"}
    BY <1>13 DEF ContainerExits, MergeOutbound, MergeBrief
  <2> QED BY <1>1, <1>3, <1>5, <2>1, <2>2 DEF Paid
<1> QED BY <1>7, <1>10, <1>11, <1>12, <1>13 DEF ScanStep

\* A step of the loop that settles, queues or forgets scans.
LEMMA DrainScans ==
    ASSUME Scans, Drain
    PROVE  Scans'
<1> USE ContainersAssumption DEF Scans, ScanTypes, ContainersTypeOK, Drain, treeVars, dockerVars
<1>1. /\ \A m \in Message : scan'[m] \in {"none", "queued"} /\ attempt'[m] = 0
      /\ UNCHANGED <<packages, candidates, done, faults, beside>>
  OBVIOUS
<1>2. ScanTypes' OBVIOUS
<1>3. ScanInv' BY <1>1 DEF ScanInv, CandidateHasPackage, DoneIsCollected
<1>4. Paid' BY <1>1 DEF Paid
<1> QED BY <1>2, <1>3, <1>4

LEMMA CommitScans ==
    ASSUME Scans, NEW m \in Message, Commit(m)
    PROVE  Scans'
<1> USE ContainersAssumption DEF Scans, ScanTypes, ContainersTypeOK, treeVars, dockerVars
<1>1. /\ scan[m] \in {"ok", "failed"} /\ scan'[m] = "none" /\ attempt'[m] = 0
      /\ done'[m] = IF scan[m] = "ok" THEN "ok" ELSE "quarantined"
      /\ UNCHANGED <<packages, candidates, faults, beside>>
  BY DEF Commit, Settled
<1>2. ASSUME NEW n \in Message, n # m
      PROVE  scan'[n] = scan[n] /\ attempt'[n] = attempt[n] /\ done'[n] = done[n]
  BY <1>2 DEF Commit
<1>3. ScanTypes' BY DEF Commit
<1>4. ScanInv' BY <1>1, <1>2 DEF ScanInv, CandidateHasPackage, DoneIsCollected
<1>5. Paid' BY <1>1, <1>2 DEF Paid
<1> QED BY <1>3, <1>4, <1>5

\* A kill forgets every scan, a dispatcher beside takes the running ones.
LEMMA KillScans ==
    ASSUME Scans, Kill
    PROVE  Scans'
<1> USE ContainersAssumption DEF Scans, ScanTypes, ContainersTypeOK, Kill, Abandon, treeVars
<1>1. /\ \A m \in Message : scan'[m] = "none" /\ attempt'[m] = 0
      /\ UNCHANGED <<packages, candidates, done, beside>>
  OBVIOUS
<1>2. faults' = faults + 1 /\ faults' \in 0 .. MaxFaults BY OneMoreFault
<1>3. ScanTypes' BY <1>2, WaitedCounted
<1>4. ScanInv' BY <1>1 DEF ScanInv, CandidateHasPackage, DoneIsCollected
<1>5. Paid' BY <1>1, <1>2 DEF Paid
<1> QED BY <1>3, <1>4, <1>5

LEMMA BesideScans ==
    ASSUME Scans, ReapBeside, UNCHANGED done
    PROVE  Scans'
<1> USE ContainersAssumption DEF Scans, ScanTypes, ContainersTypeOK, treeVars
<1>1. /\ \A m \in Message : scan'[m] = IF scan[m] = "running" THEN "removed" ELSE scan[m]
      /\ UNCHANGED <<packages, candidates, attempt, faults>>
      /\ beside' = beside + 1 /\ beside' \in 0 .. MaxBeside
  BY DEF ReapBeside
<1>2. ScanTypes' BY <1>1 DEF ReapBeside, Underway
<1>3. ScanInv' BY <1>1 DEF ScanInv, CandidateHasPackage, DoneIsCollected
<1>4. Paid'
  <2>1. faults \in Nat /\ beside \in Nat /\ MaxAttempts \in Nat
        /\ attempt \in [Message -> 0 .. MaxAttempts]
    OBVIOUS
  <2>2. ASSUME NEW m \in Message \ Poison
        PROVE  /\ scan'[m] \in {"running", "exited", "merged"} =>
                     attempt'[m] <= faults' + beside' + 1
               /\ scan'[m] \in {"again", "removed"} => attempt'[m] <= faults' + beside'
               /\ scan'[m] = "failed" => MaxAttempts <= faults' + beside'
    <3>1. attempt[m] \in Nat BY <2>1
    <3> QED BY <1>1, <2>1, <3>1 DEF Paid
  <2>3. ASSUME NEW m \in Message \ Poison
        PROVE  done'[m] = "quarantined" => MaxAttempts <= faults' + beside'
    BY <1>1, <2>1 DEF Paid
  <2> QED BY <2>2, <2>3 DEF Paid
<1> QED BY <1>2, <1>3, <1>4

\* More faults, fewer strays: nothing a scan has to answer for.
LEMMA OtherScans ==
    ASSUME Scans, ScanTypes', faults' = faults \/ faults' = faults + 1,
           UNCHANGED <<scanVars, treeVars, beside, done>>
    PROVE  Scans'
<1> USE ContainersAssumption DEF Scans, scanVars, treeVars
<1>1. ScanInv' BY DEF ScanInv, CandidateHasPackage, DoneIsCollected
<1>2. Paid'
  <2>1. faults \in Nat /\ beside \in Nat /\ MaxAttempts \in Nat
        /\ attempt \in [Message -> 0 .. MaxAttempts]
    BY DEF ScanTypes, ContainersTypeOK
  <2>2. ASSUME NEW m \in Message \ Poison
        PROVE  /\ scan[m] \in {"running", "exited", "merged"} =>
                     attempt[m] <= faults' + beside + 1
               /\ scan[m] \in {"again", "removed"} => attempt[m] <= faults' + beside
               /\ scan[m] = "failed" => MaxAttempts <= faults' + beside
    <3>1. attempt[m] \in Nat BY <2>1
    <3> QED BY <2>1, <3>1 DEF Paid
  <2>3. ASSUME NEW m \in Message \ Poison
        PROVE  done[m] = "quarantined" => MaxAttempts <= faults' + beside
    BY <2>1 DEF Paid
  <2> QED BY <2>2, <2>3 DEF Paid
<1> QED BY <1>1, <1>2

LEMMA HostScans ==
    ASSUME Scans, HostStep
    PROVE  Scans'
<1> USE ContainersAssumption DEF scanVars, treeVars, dockerVars, containerVars
<1>1. ASSUME NEW m \in Message, Arrive(m) PROVE Scans'
  BY <1>1, OtherScans DEF Arrive, Scans, ScanTypes, ContainersTypeOK
<1>2. CASE ConnectionLost \/ AskToStop
  <2>1. faults' = faults + 1 /\ faults' \in 0 .. MaxFaults
    BY <1>2, OneMoreFault DEF ConnectionLost, AskToStop, Scans, ScanTypes, ContainersTypeOK
  <2>2. UNCHANGED <<scanVars, treeVars, dockerVars, done>>
    BY <1>2 DEF ConnectionLost, AskToStop
  <2> QED BY <2>1, <2>2, OtherScans DEF Scans, ScanTypes, ContainersTypeOK
<1>3. CASE Kill BY <1>3, KillScans
<1>4. CASE StrayExits /\ UNCHANGED done
  <2>1. strays' \in Nat BY <1>4 DEF StrayExits, Scans, ScanTypes, ContainersTypeOK
  <2> QED BY <1>4, <2>1, OtherScans DEF StrayExits, Scans, ScanTypes, ContainersTypeOK
<1>5. CASE ReapBeside /\ UNCHANGED done BY <1>5, BesideScans
<1> QED BY <1>1, <1>2, <1>3, <1>4, <1>5 DEF HostStep

LEMMA LoopScans ==
    ASSUME Scans, Loop \/ Start
    PROVE  Scans'
<1> USE ContainersAssumption DEF scanVars, treeVars, dockerVars, containerVars
<1>1. CASE ReapOrphans
  <2>1. CASE Reap
    BY <1>1, <2>1, OtherScans DEF ReapOrphans, Reap, Scans, ScanTypes, ContainersTypeOK
  <2>2. ASSUME NEW left \in 0 .. strays, ReapFails(left) PROVE Scans'
    <3>1. faults' = faults + 1 /\ faults' \in 0 .. MaxFaults
      BY <2>2, OneMoreFault DEF ReapFails, Scans, ScanTypes, ContainersTypeOK
    <3>2. strays' \in Nat /\ refused' \in Nat /\ reaped' = FALSE
      BY <2>2 DEF ReapFails, Scans, ScanTypes, ContainersTypeOK
    <3> QED BY <1>1, <2>2, <3>1, <3>2, OtherScans
        DEF ReapOrphans, ReapFails, Scans, ScanTypes, ContainersTypeOK
  <2> QED BY <1>1, <2>1, <2>2 DEF ReapOrphans
<1>2. CASE Drain BY <1>2, DrainScans
<1>3. CASE Scan
  BY <1>3, ScanStepTypes, ScanStepInv, ScanStepPaid DEF Scan, Scans
<1>4. ASSUME NEW m \in Message, Commit(m) PROVE Scans' BY <1>4, CommitScans
<1>5. CASE UNCHANGED <<containerVars, done>>
  BY <1>5, OtherScans DEF Scans, ScanTypes, ContainersTypeOK
<1> QED
  BY <1>1, <1>2, <1>3, <1>4, <1>5 DEF Loop, Start, Connect, DrainFails, Wait, Waiting, Stop

LEMMA ScansHold ==
    ASSUME Scans, [LiveNext]_liveVars
    PROVE  Scans'
<1>1. CASE UNCHANGED liveVars
  BY <1>1, OtherScans DEF liveVars, containerVars, scanVars, treeVars, dockerVars,
     Scans, ScanTypes, ContainersTypeOK
<1> QED BY <1>1, HostScans, LoopScans DEF LiveNext

LEMMA ScansStart == LiveInit => Scans
<1> SUFFICES ASSUME LiveInit PROVE Scans OBVIOUS
<1> USE ContainersAssumption DEF LiveInit, ContainersInit
<1>1. ScanTypes BY DEF ScanTypes, ContainersTypeOK
<1>2. ScanInv BY DEF ScanInv, CandidateHasPackage, DoneIsCollected
<1>3. Paid BY DEF Paid
<1> QED BY <1>1, <1>2, <1>3 DEF Scans

-----------------------------------------------------------------------------
(* The containers left over *)

LEMMA StraysHold ==
    ASSUME Scans, StraysWereRefused, [LiveNext]_liveVars
    PROVE  StraysWereRefused'
<1> USE DEF Scans, ScanTypes, ContainersTypeOK, StraysWereRefused, dockerVars
<1>1. CASE HostStep
  <2>1. CASE StrayExits BY <1>1, <2>1 DEF StrayExits, HostStep, Arrive, ConnectionLost, AskToStop, Kill, ReapBeside
  <2>2. CASE ReapBeside /\ UNCHANGED pc BY <2>2 DEF ReapBeside
  <2>3. CASE \/ \E m \in Message : Arrive(m)
             \/ ConnectionLost \/ AskToStop \/ Kill
    BY <2>3 DEF Arrive, ConnectionLost, AskToStop, Kill, containerVars
  <2> QED BY <1>1, <2>1, <2>2, <2>3 DEF HostStep
<1>2. CASE Loop \/ Start
  <2>1. CASE Scan
    <3>1. ASSUME NEW m \in Message, ScanStep(m)
          PROVE  /\ reaped' = reaped
                 /\ \/ strays' = strays /\ refused' = refused
                    \/ strays' = strays + 1 /\ refused' = refused + 1
      BY <3>1 DEF ScanStep, Launch, ContainerExits, ScanFails, ScanWasReaped,
         MergeOutbound, MergeBrief, CollectFails
    <3>2. strays \in Nat /\ refused \in Nat /\ (reaped => strays <= refused)
      BY <2>1 DEF Scan
    <3>3. /\ reaped' = reaped
          /\ \/ strays' = strays /\ refused' = refused
             \/ strays' = strays + 1 /\ refused' = refused + 1
      BY <2>1, <3>1 DEF Scan
    <3>4. reaped' => strays' <= refused' BY ONLY <3>2, <3>3
    <3> QED BY <3>4
  <2>2. CASE ReapOrphans
    BY <2>2 DEF ReapOrphans, Reap, ReapFails
  <2>3. CASE Start BY <2>3 DEF Start
  <2>4. CASE UNCHANGED <<strays, reaped, refused>> /\ (pc' \notin {"down", "reap"} => pc \notin {"down", "reap"})
    BY <2>4
  <2> QED
    BY <1>2, <2>1, <2>2, <2>3, <2>4 DEF Loop, Connect, DrainFails, Drain, Commit, Wait,
       Waiting, Stop, containerVars
<1>3. CASE UNCHANGED liveVars BY <1>3 DEF liveVars, containerVars
<1> QED BY <1>1, <1>2, <1>3 DEF LiveNext

-----------------------------------------------------------------------------
(* Where the process is *)

Place ==
    /\ pc \in {"down", "reap", "connect", "drain", "scan", "wait"}
    /\ (pc = "wait") <=> (phase # "off")
    /\ unread \subseteq Message

\* Only a wait, its start and its end move both the process and the phase.
LEMMA PlaceHolds ==
    ASSUME Place, [LiveNext]_liveVars
    PROVE  Place'
<1> USE DEF Place
<1>1. CASE HostStep
  BY <1>1 DEF HostStep, Arrive, ConnectionLost, AskToStop, Kill, Lose, Terminate,
     Vanish, EndWait, idleVars
<1>2. CASE Wait BY <1>2 DEF Wait, BeginWait
<1>3. CASE Waiting BY <1>3 DEF Waiting
<1>4. CASE Stop BY <1>4 DEF Stop, Vanish, EndWait
<1>5. CASE \/ Start \/ ReapOrphans \/ DrainFails \/ Drain \/ Scan
           \/ \E m \in Message : Commit(m)
  BY <1>5 DEF Start, ReapOrphans, DrainFails, Drain, Scan, Commit, idleVars
<1>6. ASSUME NEW advertised \in BOOLEAN, Connect(advertised) PROVE Place'
  BY <1>6 DEF Connect, Reconnect
<1>7. CASE UNCHANGED liveVars BY <1>7 DEF liveVars, idleVars
<1> QED BY <1>1, <1>2, <1>3, <1>4, <1>5, <1>6, <1>7 DEF LiveNext, Loop

LEMMA IdleTyped ==
    ASSUME IdleInv
    PROVE  IdleTypeOK
BY DEF IdleInv, Flags, Failures, Clock, IdleTypeOK

-----------------------------------------------------------------------------
(* The theorems *)

\* The wait is over in time, whatever the server and the connection do: the
\* bound of wait_for_activity for any poll interval, time-outs and number of
\* failures that end IDLE.
THEOREM WaitEndsInTime == IdleSpec => []DrainComesInTime
<1>1. IdleInv /\ [IdleNext]_idleVars => IdleInv' BY IdleSteps
<1>2. IdleInv => DrainComesInTime BY IdleBound
<1> QED BY IdleStart, <1>1, <1>2, PTL DEF IdleSpec

\* The live loop waits as Idle says: connecting, draining, scanning, being
\* stopped or killed never touch a wait that is under way otherwise.
THEOREM LiveImplementsIdle == LiveSpec => IdleSpec
<1>1. LiveInit => IdleInit BY DEF LiveInit
<1>2. [LiveNext]_liveVars => [IdleNext]_idleVars BY LiveToIdle
<1> QED BY <1>1, <1>2, PTL DEF LiveSpec, IdleSpec

LEMMA ScansAlways == LiveSpec => []Scans
<1>1. Scans /\ [LiveNext]_liveVars => Scans' BY ScansHold
<1> QED BY ScansStart, <1>1, PTL DEF LiveSpec

\* So a drain comes in time in the live loop.
THEOREM LiveDrainsInTime == LiveSpec => []DrainComesInTime
BY WaitEndsInTime, LiveImplementsIdle, PTL

\* The live loop's state is always of its type, and it waits exactly while a
\* call of wait_for_activity is under way.
THEOREM LiveTyped == LiveSpec => []LiveTypeOK
<1>1. LiveInit => IdleInv /\ Place
  BY IdleStart DEF LiveInit, IdleInit, Place
<1>2. IdleInv /\ Place /\ [LiveNext]_liveVars => IdleInv' /\ Place'
  BY LiveToIdle, IdleSteps, PlaceHolds
<1>3. IdleInv /\ Place /\ Scans => LiveTypeOK
  BY IdleTyped DEF Place, Scans, ScanTypes, LiveTypeOK
<1> QED BY ScansAlways, <1>1, <1>2, <1>3, PTL DEF LiveSpec

\* A message recorded as scanned has its package and its candidate in the
\* shared trees, for any number of kills, failed merges and retries.
THEOREM DoneMeansCollected == LiveSpec => []DoneIsCollected
<1>1. Scans => DoneIsCollected BY DEF Scans, ScanInv
<1> QED BY ScansAlways, <1>1, PTL

\* A candidate in the daily brief is of a message whose package is in the
\* outbound tree, also when a collection was cut off between the two merges.
THEOREM CandidatesHavePackages == LiveSpec => []CandidateHasPackage
<1>1. Scans => CandidateHasPackage BY DEF Scans, ScanInv
<1> QED BY ScansAlways, <1>1, PTL

\* A good message is given up only after as many faults, or dispatchers
\* started beside this one, as it has attempts.
THEOREM QuarantineNeedsFaults == LiveSpec => []QuarantineIsPaidFor
<1>1. Scans => QuarantineIsPaidFor BY DEF Scans, Paid, QuarantineIsPaidFor
<1> QED BY ScansAlways, <1>1, PTL

\* After a reaping that worked, a left-over container is one docker would not
\* remove.
THEOREM NoOtherStrays == LiveSpec => []StraysWereRefused
<1>1. LiveInit => StraysWereRefused BY DEF LiveInit, StraysWereRefused
<1>2. Scans /\ StraysWereRefused /\ [LiveNext]_liveVars => StraysWereRefused'
  BY StraysHold
<1> QED BY ScansAlways, <1>1, <1>2, PTL DEF LiveSpec
=============================================================================
