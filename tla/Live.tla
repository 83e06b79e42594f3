-------------------------------- MODULE Live --------------------------------
(***************************************************************************)
(* The live dispatcher as a whole: __main__.py reaps what an earlier life  *)
(* left, run_forever (runner.py) connects, drains and waits, Idle is the   *)
(* wait and Containers the scans of a drain.                               *)
(*                                                                         *)
(* Dispatcher.tla has the mailbox, the state file and the commit in every  *)
(* detail, with a scan and a wait that are single steps; this module has   *)
(* those two in detail and one step for the commit of a message.           *)
(***************************************************************************)
EXTENDS Idle, Containers

VARIABLES
    pc,         \* where the process is
    unread,     \* messages in the mailbox
    done        \* what became of each message

liveVars == <<idleVars, containerVars, pc, unread, done>>

LiveInit ==
    /\ IdleInit /\ ContainersInit
    /\ pc = "down" /\ unread = {} /\ done = [m \in Message |-> "no"]

-----------------------------------------------------------------------------
(* The mailbox and the host *)

Arrive(m) ==
    /\ m \notin unread
    /\ unread' = unread \cup {m}
    /\ UNCHANGED <<idleVars, containerVars, pc, done>>

ConnectionLost ==
    /\ Fault /\ Lose
    /\ UNCHANGED <<scanVars, treeVars, dockerVars, pc, unread, done>>

\* SIGTERM.
AskToStop ==
    /\ pc # "down" /\ Fault /\ Terminate
    /\ UNCHANGED <<scanVars, treeVars, dockerVars, pc, unread, done>>

Kill ==
    /\ pc # "down" /\ Fault
    /\ pc' = "down" /\ Vanish /\ Abandon
    /\ UNCHANGED <<treeVars, reaped, refused, beside, unread, done>>

HostStep ==
    \/ \E m \in Message : Arrive(m)
    \/ ConnectionLost \/ AskToStop \/ Kill
    \/ (StrayExits \/ ReapBeside) /\ UNCHANGED <<idleVars, pc, unread, done>>

-----------------------------------------------------------------------------
(* The process *)

Start ==
    /\ pc = "down"
    /\ pc' = "reap"
    /\ UNCHANGED <<idleVars, containerVars, unread, done>>

\* Before anything is drained, and never in its way.
ReapOrphans ==
    /\ pc = "reap"
    /\ Reap \/ \E left \in 0 .. strays : ReapFails(left)
    /\ pc' = "connect"
    /\ UNCHANGED <<idleVars, unread, done>>

Connect(advertised) ==
    /\ pc = "connect" /\ ~stopping
    /\ Reconnect(advertised)
    /\ pc' = "drain"
    /\ UNCHANGED <<containerVars, unread, done>>

\* drain_once raises on a connection that is gone, and may on a suspect one.
DrainFails ==
    /\ pc = "drain" /\ conn # "up"
    /\ pc' = "connect"
    /\ UNCHANGED <<idleVars, containerVars, unread, done>>

Drain ==
    /\ pc = "drain" /\ conn # "lost"
    /\ pc' = "scan"
    /\ scan' = [m \in Message |-> IF m \in unread /\ done[m] = "no"
                                  THEN "queued" ELSE "none"]
    /\ attempt' = [m \in Message |-> 0]
    /\ UNCHANGED <<idleVars, treeVars, dockerVars, faults, unread, done>>

Scan ==
    /\ pc = "scan"
    /\ \E m \in Message : ScanStep(m)
    /\ UNCHANGED <<idleVars, pc, unread, done>>

AllScanned == \A m \in Message : scan[m] \in {"none"} \cup Settled

\* _commit: delivered and recorded, or quarantined and recorded.
Commit(m) ==
    /\ pc = "scan" /\ AllScanned
    /\ scan[m] \in Settled
    /\ done' = [done EXCEPT ![m] = IF scan[m] = "ok" THEN "ok" ELSE "quarantined"]
    /\ scan' = [scan EXCEPT ![m] = "none"]
    /\ attempt' = [attempt EXCEPT ![m] = 0]
    /\ UNCHANGED <<idleVars, treeVars, dockerVars, faults, pc, unread>>

Wait ==
    /\ pc = "scan" /\ \A m \in Message : scan[m] = "none"
    /\ BeginWait
    /\ pc' = "wait"
    /\ UNCHANGED <<containerVars, unread, done>>

Waiting ==
    /\ pc = "wait" /\ WaitStep
    /\ pc' = IF phase' # "off" THEN "wait" ELSE "drain"
    /\ UNCHANGED <<containerVars, unread, done>>

\* The loop looks at the stop flag before each drain and in every pause.
Stop ==
    /\ pc \in {"connect", "drain"} /\ stopping
    /\ pc' = "down" /\ Vanish
    /\ UNCHANGED <<containerVars, unread, done>>

Loop ==
    \/ ReapOrphans
    \/ \E advertised \in BOOLEAN : Connect(advertised)
    \/ DrainFails \/ Drain \/ Scan
    \/ \E m \in Message : Commit(m)
    \/ Wait \/ Waiting \/ Stop

LiveNext == HostStep \/ Start \/ Loop

\* The process runs, docker run returns (it is called with a time-out), and
\* the supervisor starts the dispatcher again (compose's restart policy).
Fairness == WF_liveVars(Loop) /\ WF_liveVars(Start)

LiveSpec == LiveInit /\ [][LiveNext]_liveVars
FairLiveSpec == LiveSpec /\ Fairness

-----------------------------------------------------------------------------
(* Properties *)

LiveTypeOK ==
    /\ IdleTypeOK /\ ContainersTypeOK
    /\ pc \in {"down", "reap", "connect", "drain", "scan", "wait"}
    /\ (pc = "wait") <=> (phase # "off")
    /\ unread \subseteq Message
    /\ done \in [Message -> {"no", "ok", "quarantined"}]

\* "Reporting success would strand the report" (container_runner.py:382): a
\* message recorded as scanned has its package in the shared tree and, if its
\* scan asked for a review, its candidate, through retries after half a merge
\* and kills between the two merges.
DoneIsCollected ==
    \A m \in Message : done[m] = "ok" =>
        m \in packages /\ (m \in Review => m \in candidates)

\* A candidate in the shared brief never runs ahead of the package it points
\* at (container_runner.py:519), also while a scan is half collected.
CandidateHasPackage == candidates \subseteq packages

\* "One bad message must not wedge the queue" (runner.py:333), and a good one
\* is not given up lightly: each attempt that failed on it is paid for by a
\* fault or by a dispatcher started beside this one.
QuarantineIsPaidFor ==
    \A m \in Message \ Poison :
        done[m] = "quarantined" => MaxAttempts <= faults + beside

\* Containers do not "accumulate across restarts" (container_runner.py:279):
\* in a life that began with a reaping that worked, every container no scan
\* waits for is one docker refused to remove.
StraysWereRefused == pc \notin {"down", "reap"} /\ reaped => strays <= refused

\* Whatever IDLE does and whatever is killed, a message in the mailbox is
\* delivered or quarantined: "IDLE going wrong must cost latency, never a
\* message" (mailsource.py:227).
EveryMailSettles ==
    \A m \in Message : m \in unread ~> done[m] # "no"
=============================================================================
