----------------------------- MODULE Containers -----------------------------
(***************************************************************************)
(* One container per scan                                                  *)
(* (dispatcher/email_guard_dispatcher/container_runner.py, and the retries *)
(* of runner.py around it).                                                *)
(*                                                                         *)
(* A scan stages a private spool, runs the scanner image on it, and moves  *)
(* what the container left in the spool into the shared trees: the         *)
(* outbound tree first, then the daily brief.  A container that outlives   *)
(* the scan that waits for it is a stray: nothing but its label ties it to *)
(* the dispatcher.                                                         *)
(***************************************************************************)
EXTENDS Naturals, FiniteSets

CONSTANTS
    Message,
    Poison,         \* messages no scan ever succeeds on
    Review,         \* messages whose scan stages a candidate
    MaxAttempts,    \* Runner.max_attempts
    Concurrency,    \* Runner.concurrency
    MaxFaults,      \* bound: kills, losses, failed calls and stops
    MaxBeside       \* bound: dispatchers started beside the live one

ASSUME ContainersAssumption ==
    /\ Poison \subseteq Message /\ Review \subseteq Message
    /\ MaxAttempts \in Nat \ {0} /\ Concurrency \in Nat \ {0}
    /\ MaxFaults \in Nat /\ MaxBeside \in Nat
    /\ IsFiniteSet(Message)

VARIABLES
    scan,       \* where the scan of each message is
    attempt,    \* attempts begun in this pass
    packages,   \* messages whose whole package was merged
    candidates, \* messages whose candidate was merged
    strays,     \* containers running that no scan waits for
    reaped,     \* the last reaping at a start went through
    refused,    \* housekeeping commands docker refused
    beside,     \* dispatchers started beside the live one
    faults

scanVars == <<scan, attempt>>
treeVars == <<packages, candidates>>
dockerVars == <<strays, reaped, refused, beside>>
containerVars == <<scanVars, treeVars, dockerVars, faults>>

Fault == faults < MaxFaults /\ faults' = faults + 1

\* A message of the pass that holds no worker: it waits for one, or has its
\* outcome.
Settled == {"ok", "failed"}
Underway == {"again", "running", "removed", "exited", "merged"}
Working == {m \in Message : scan[m] \in Underway}
Waited == {m \in Message : scan[m] = "running"}

ContainersInit ==
    /\ scan = [m \in Message |-> "none"]
    /\ attempt = [m \in Message |-> 0]
    /\ packages = {} /\ candidates = {}
    /\ strays = 0 /\ reaped = TRUE /\ refused = 0 /\ beside = 0
    /\ faults = 0

-----------------------------------------------------------------------------
(* A scan and its retries *)

\* Mutants: one attempt too many, and none after the first.
OneTooMany(tried) == IF tried <= MaxAttempts THEN "again" ELSE "failed"
NoRetry(tried) == "failed"

\* The attempt failed: another one, or none is left.
AfterFailure(tried) == IF tried < MaxAttempts THEN "again" ELSE "failed"

FailAttempt(m) == scan' = [scan EXCEPT ![m] = AfterFailure(attempt[m])]

\* A worker takes the message, or tries it again: stage the spool, docker run.
Launch(m) ==
    /\ scan[m] \in {"queued", "again"}
    /\ scan[m] = "queued" => Cardinality(Working) < Concurrency
    /\ attempt' = [attempt EXCEPT ![m] = @ + 1]
    /\ \/ /\ scan' = [scan EXCEPT ![m] = "running"]
          /\ UNCHANGED faults
       \/ /\ Fault
          /\ scan' = [scan EXCEPT ![m] = AfterFailure(attempt[m] + 1)]
    /\ UNCHANGED <<treeVars, dockerVars>>

\* Exit 0 and a verdict; --rm takes the container away.
ContainerExits(m) ==
    /\ scan[m] = "running" /\ m \notin Poison
    /\ scan' = [scan EXCEPT ![m] = "exited"]
    /\ UNCHANGED <<attempt, treeVars, dockerVars, faults>>

\* Mutant: a container that timed out is left running.
LeftRunning(m, removed) ==
    /\ scan[m] = "running"
    /\ IF m \in Poison /\ removed THEN UNCHANGED faults ELSE Fault
    /\ IF removed THEN UNCHANGED strays ELSE strays' = strays + 1
    /\ FailAttempt(m)
    /\ UNCHANGED <<attempt, treeVars, reaped, refused, beside>>

\* Exit non-zero, killed at a limit, no verdict on stdout, or timed out: a
\* container that timed out still runs, and is removed by name.
ScanFails(m, removed) ==
    /\ scan[m] = "running"
    /\ IF m \in Poison /\ removed THEN UNCHANGED faults ELSE Fault
    /\ IF removed THEN UNCHANGED <<strays, refused>>
       ELSE strays' = strays + 1 /\ refused' = refused + 1
    /\ FailAttempt(m)
    /\ UNCHANGED <<attempt, treeVars, reaped, beside>>

\* docker run finds its container gone.
ScanWasReaped(m) ==
    /\ scan[m] = "removed"
    /\ FailAttempt(m)
    /\ UNCHANGED <<attempt, treeVars, dockerVars, faults>>

\* Mutant: the daily brief goes first.
BriefFirst(m) ==
    /\ scan[m] = "exited"
    /\ candidates' = candidates \cup ({m} \cap Review)
    /\ scan' = [scan EXCEPT ![m] = "merged"]
    /\ UNCHANGED <<attempt, packages, dockerVars, faults>>

\* _collect: the outbound tree, then the daily brief.
MergeOutbound(m) ==
    /\ scan[m] = "exited"
    /\ packages' = packages \cup {m}
    /\ scan' = [scan EXCEPT ![m] = "merged"]
    /\ UNCHANGED <<attempt, candidates, dockerVars, faults>>

MergeBrief(m) ==
    /\ scan[m] = "merged"
    /\ candidates' = candidates \cup ({m} \cap Review)
    /\ scan' = [scan EXCEPT ![m] = "ok"]
    /\ UNCHANGED <<attempt, packages, dockerVars, faults>>

\* Mutant: the verdict counts, collected or not.
CollectIgnored(m) ==
    /\ scan[m] \in {"exited", "merged"}
    /\ Fault
    /\ scan' = [scan EXCEPT ![m] = "ok"]
    /\ UNCHANGED <<attempt, treeVars, dockerVars>>

CollectFails(m) ==
    /\ scan[m] \in {"exited", "merged"}
    /\ Fault
    /\ FailAttempt(m)
    /\ UNCHANGED <<attempt, treeVars, dockerVars>>

ScanStep(m) ==
    \/ Launch(m) \/ ContainerExits(m)
    \/ \E removed \in BOOLEAN : ScanFails(m, removed)
    \/ ScanWasReaped(m) \/ MergeOutbound(m) \/ MergeBrief(m) \/ CollectFails(m)

-----------------------------------------------------------------------------
(* Strays *)

\* The dispatcher is killed: no one waits for its containers any more.
Abandon ==
    /\ strays' = strays + Cardinality(Waited)
    /\ scan' = [m \in Message |-> "none"]
    /\ attempt' = [m \in Message |-> 0]

StrayExits ==
    /\ strays > 0 /\ strays' = strays - 1
    /\ UNCHANGED <<scanVars, treeVars, reaped, refused, beside, faults>>

\* docker ps for the label, docker rm for what it lists.
Reap ==
    /\ strays' = 0 /\ reaped' = TRUE
    /\ UNCHANGED <<scanVars, treeVars, refused, beside, faults>>

\* Never fatal, and some of them may be gone.
ReapFails(left) ==
    /\ Fault
    /\ left \in 0 .. strays
    /\ strays' = left /\ reaped' = FALSE /\ refused' = refused + 1
    /\ UNCHANGED <<scanVars, treeVars, beside>>

\* Another dispatcher starts, --once from cron or a --rescan, and reaps by the
\* same label.
ReapBeside ==
    /\ beside < MaxBeside /\ beside' = beside + 1
    /\ strays' = 0
    /\ scan' = [m \in Message |-> IF scan[m] = "running" THEN "removed" ELSE scan[m]]
    /\ UNCHANGED <<attempt, treeVars, reaped, refused, faults>>

-----------------------------------------------------------------------------
(* Properties *)

ContainersTypeOK ==
    /\ scan \in [Message -> {"none", "queued"} \cup Underway \cup Settled]
    /\ attempt \in [Message -> 0 .. MaxAttempts]
    /\ packages \subseteq Message /\ candidates \subseteq Message
    /\ strays \in Nat /\ refused \in Nat
    /\ reaped \in BOOLEAN
    /\ beside \in 0 .. MaxBeside /\ faults \in 0 .. MaxFaults
=============================================================================
