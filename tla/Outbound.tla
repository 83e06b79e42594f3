------------------------------ MODULE Outbound ------------------------------
(***************************************************************************)
(* The way of a job out of the host: _collect of the container runner      *)
(* (container_runner.py), which moves what route.py of the scanner wrote   *)
(* into the shared outbound tree; publish.py, which copies finished jobs   *)
(* onto the network share; cleanup.py, the retention sweep; and the        *)
(* consumer, whose machine the share belongs to.                           *)
(*                                                                         *)
(* A step is one file moved, copied or unlinked, or one rename or marker,  *)
(* so that scans in parallel, runs of the publisher, the sweep, a kill     *)
(* (systemd's TimeoutStartSec, a power cut) and the consumer can come      *)
(* between any two.  A scan of a message writes the same bytes each time   *)
(* (route.py, write_json); content is told apart by the message it is of.  *)
(* Where the code sorts names, the order is left open, except where it is  *)
(* a decision: .complete moves after everything else.                      *)
(***************************************************************************)
EXTENDS Naturals, FiniteSets

CONSTANTS
  Message,    \* the messages that may be scanned
  Dir,        \* the job directories, a bucket and a job each
  Home,       \* Message -> Dir: bucket_for and job_slug
  File,       \* the names of the files in a package
  Parts,      \* Message -> the files of its package
  Refused,    \* the jobs of which the share refuses some file
  Pid,        \* the runs of the publisher that may be under way at once
  MaxScans,   \* Message -> bound: the scans of it
  MaxFaults   \* bound: kills, failed calls and outages of the share

Complete == ".complete"
Published == ".published"
None == "none"

ASSUME PackageAssumption ==
  /\ None \notin Message \cup Dir
  /\ {Complete, Published} \cap File = {}
  /\ File # {}
  /\ Home \in [Message -> Dir]
  /\ Parts \in [Message -> SUBSET File]
  /\ \A m \in Message : Parts[m] # {}   \* write_outbound: at least a report
  /\ Refused \subseteq Dir

ASSUME BoundAssumption == MaxScans \in [Message -> Nat] /\ MaxFaults \in Nat

\* Each message has a job directory of its own.  Nothing in the code makes it
\* so: the name of the directory is made from the Message-ID, which is the
\* sender's.
OneJobEach == \A m, n \in Message : Home[m] = Home[n] => m = n

VARIABLES
  spool,      \* Message -> the entries of its scan still to be moved
  scans,      \* Message -> the scans so far, capped by MaxScans
  tree,       \* Dir -> File -> the message whose file it is, or None
  complete,   \* the directories with a .complete
  published,  \* the directories with a .published
  expired,    \* those whose .published is older than the retention window
  queue,      \* Pid -> the jobs a run of the publisher has still to see to
  job,        \* Pid -> the one it is at, None between two
  pc,         \* Pid -> where it is with that job: "next", "copy" or "mark"
  listing,    \* Pid -> the files it has listed and not yet copied
  staging,    \* Pid -> File -> what it has copied
  dest,       \* Dir -> File -> the package on the share; Absent
  reachable,  \* whether the share answers
  agenda,     \* the directories the sweep has still to delete
  victim,     \* the one whose rmtree is under way, or None
  doomed,     \* the entries that rmtree has listed and not yet unlinked
  collected,  \* history: the messages with a scan moved to the end
  delivered,  \* history: the messages whose whole package was on the share
  seen,       \* history: the directories that have been on the share
  faults      \* disturbances so far, capped by MaxFaults

treeVars == <<tree, complete, published, expired>>
scanVars == <<spool, scans, collected>>
runVars == <<queue, job, pc, listing, staging>>
shareVars == <<dest, delivered, seen>>
sweepVars == <<agenda, victim, doomed>>
vars == <<spool, scans, tree, complete, published, expired, queue, job, pc,
          listing, staging, dest, reachable, agenda, victim, doomed, collected,
          delivered, seen, faults>>

-----------------------------------------------------------------------------
(* Helpers *)

Bare == [f \in File |-> None]
Package(m) == [f \in File |-> IF f \in Parts[m] THEN m ELSE None]
Absent == [f \in {} |-> None]   \* no directory: not even an empty one

Fault == faults < MaxFaults /\ faults' = faults + 1
Files(d) == {f \in File : tree[d][f] # None}
Entries(d) ==
  Files(d) \cup (IF d \in complete THEN {Complete} ELSE {})
           \cup (IF d \in published THEN {Published} ELSE {})

-----------------------------------------------------------------------------
(* Mutants: one plausible slip each, used only to show that a property bites *)

SortedFirst(m, f) == Complete \in spool[m] => f = Complete
AgeOfDirectory(d) == Entries(d) # {}
AnyMarker(d) == Entries(d) # {}
StopsAtFailure(p) == {}
ReplaceAlways(d) == TRUE
BucketIsThere(d) == reachable
AnyUnpublished(d) == Entries(d) # {} /\ d \notin published

-----------------------------------------------------------------------------
(* One operator per decision of the code *)

\* _merge_order: .complete after everything else.
MayMove(m, f) == f = Complete => spool[m] = {Complete}

\* pending_jobs: finished and not yet published.
IsPending(d) == d \in complete /\ d \notin published

\* _classify: the age is that of the marker.
IsExpired(d) == d \in expired
MayExpire(d) == d \in published

\* publish: an exception of publish_job is this job's alone.
AfterFailure(p) == queue[p]

\* publish_job: what makes a job a job of an earlier run.
AlreadyThere(d) == dest[d] # Absent

\* rename(2) of a directory: onto nothing, or onto an empty directory.
MayRename(d) == dest[d] \in {Absent, Bare}

\* Run p is done with job d, and has the jobs of rest to see to.
Leave(p, rest) ==
  /\ queue' = [queue EXCEPT ![p] = rest]
  /\ job' = [job EXCEPT ![p] = None]
  /\ pc' = [pc EXCEPT ![p] = "next"]
  /\ listing' = [listing EXCEPT ![p] = {}]
  /\ staging' = [staging EXCEPT ![p] = Bare]

\* Run p takes up job d.
Take(p, d, step) ==
  /\ pc[p] = "next" /\ d \in queue[p]
  /\ queue' = [queue EXCEPT ![p] = @ \ {d}]
  /\ job' = [job EXCEPT ![p] = d]
  /\ pc' = [pc EXCEPT ![p] = step]

-----------------------------------------------------------------------------
(* _collect: the scan has ended, its private output moves into the tree *)

\* The scanner has written a whole job directory into its spool.
Scan(m) ==
  /\ spool[m] = {} /\ scans[m] < MaxScans[m]
  /\ scans' = [scans EXCEPT ![m] = @ + 1]
  /\ spool' = [spool EXCEPT ![m] = Parts[m] \cup {Complete}]
  /\ UNCHANGED <<collected, treeVars, runVars, shareVars, reachable, sweepVars,
                 faults>>

\* _merge_tree, one os.replace.
Merge(m, f) ==
  /\ f \in spool[m] /\ MayMove(m, f)
  /\ spool' = [spool EXCEPT ![m] = @ \ {f}]
  /\ IF f = Complete
     THEN complete' = complete \cup {Home[m]} /\ UNCHANGED tree
     ELSE tree' = [tree EXCEPT ![Home[m]][f] = m] /\ UNCHANGED complete
  /\ collected' = IF spool[m] = {f} THEN collected \cup {m} ELSE collected
  /\ UNCHANGED <<scans, published, expired, runVars, shareVars, reachable,
                 sweepVars, faults>>

\* A move fails, or the dispatcher dies: the spool is thrown away.
MergeCut(m) ==
  /\ spool[m] # {} /\ Fault
  /\ spool' = [spool EXCEPT ![m] = {}]
  /\ UNCHANGED <<scans, collected, treeVars, runVars, shareVars, reachable,
                 sweepVars>>

-----------------------------------------------------------------------------
(* publish *)

\* The path unit or the timer fires and there is work and a share to do it on.
Fire(p) ==
  /\ pc[p] = "next" /\ queue[p] = {} /\ reachable
  /\ {d \in Dir : IsPending(d)} # {}
  /\ Leave(p, {d \in Dir : IsPending(d)})
  /\ UNCHANGED <<scanVars, treeVars, shareVars, reachable, sweepVars, faults>>

\* publish_job finds the package on the destination.
Found(p, d) ==
  /\ Take(p, d, "mark")
  /\ reachable /\ AlreadyThere(d)
  /\ UNCHANGED <<listing, staging, scanVars, treeVars, shareVars, reachable,
                 sweepVars, faults>>

\* The old staging directory is removed, a new one made, the source listed.
Begin(p, d) ==
  /\ Take(p, d, "copy")
  /\ reachable /\ ~AlreadyThere(d) /\ Entries(d) # {}
  /\ listing' = [listing EXCEPT ![p] = Files(d)]
  /\ UNCHANGED <<staging, scanVars, treeVars, shareVars, reachable, sweepVars,
                 faults>>

\* _copy_file: the file is opened, read and flushed to the share.
CopyFile(p) ==
  /\ pc[p] = "copy" /\ reachable /\ job[p] \notin Refused
  /\ \E f \in listing[p] :
       /\ tree[job[p]][f] # None
       /\ staging' = [staging EXCEPT ![p][f] = tree[job[p]][f]]
       /\ listing' = [listing EXCEPT ![p] = @ \ {f}]
  /\ UNCHANGED <<queue, job, pc, scanVars, treeVars, shareVars, reachable,
                 sweepVars, faults>>

\* os.rename(staging, final): the package is there, or somebody else's is.
Rename(p) ==
  /\ pc[p] = "copy" /\ listing[p] = {} /\ reachable
  /\ pc' = [pc EXCEPT ![p] = "mark"]
  /\ staging' = [staging EXCEPT ![p] = Bare]
  /\ IF MayRename(job[p])
     THEN /\ dest' = [dest EXCEPT ![job[p]] = staging[p]]
          /\ delivered' = delivered \cup {m \in Message :
                            Home[m] = job[p] /\ staging[p] = Package(m)}
          /\ seen' = seen \cup {job[p]}
     ELSE UNCHANGED shareVars
  /\ UNCHANGED <<queue, job, listing, scanVars, treeVars, reachable, sweepVars,
                 faults>>

\* mark_published: the marker is new, and so is its age.
Mark(p) ==
  /\ pc[p] = "mark" /\ Entries(job[p]) # {}
  /\ published' = published \cup {job[p]}
  /\ expired' = expired \ {job[p]}
  /\ Leave(p, queue[p])
  /\ UNCHANGED <<tree, complete, scanVars, shareVars, reachable, sweepVars,
                 faults>>

\* Why publish_job raises on job d: a call fails, the share is gone or refuses
\* a file, the sweep has taken the directory or a file that was listed.
Raises(p, d) ==
  \/ Fault
  \/ /\ UNCHANGED faults
     /\ \/ ~reachable /\ pc[p] # "mark"
        \/ d \in Refused /\ pc[p] = "copy"
        \/ Entries(d) = {}
        \/ \E f \in listing[p] : tree[d][f] = None

\* The exception ends this job; publish goes on with the others.
JobFails(p) ==
  /\ \/ pc[p] # "next" /\ Raises(p, job[p]) /\ Leave(p, AfterFailure(p))
     \/ /\ pc[p] = "next"
        /\ \E d \in queue[p] : Raises(p, d) /\ Leave(p, AfterFailure(p) \ {d})
  /\ UNCHANGED <<scanVars, treeVars, shareVars, reachable, sweepVars>>

\* A kill.  The staging directory that stays bears the pid, and a later run
\* with that pid removes it before it copies.
Kill(p) ==
  /\ pc[p] # "next" \/ queue[p] # {}
  /\ Fault /\ Leave(p, {})
  /\ UNCHANGED <<scanVars, treeVars, shareVars, reachable, sweepVars>>

-----------------------------------------------------------------------------
(* cleanup *)

\* _classify walks all buckets before anything is deleted.
Classify ==
  /\ agenda = {} /\ victim = None
  /\ agenda' = {d \in Dir : IsExpired(d)} /\ agenda' # {}
  /\ UNCHANGED <<victim, doomed, scanVars, treeVars, runVars, shareVars,
                 reachable, faults>>

\* rmtree lists the directory.
OpenJob(d) ==
  /\ d \in agenda /\ victim = None
  /\ agenda' = agenda \ {d} /\ victim' = d /\ doomed' = Entries(d)
  /\ UNCHANGED <<scanVars, treeVars, runVars, shareVars, reachable, faults>>

\* rmtree unlinks what it has listed, in the order the disk gave it.
Unlink(e) ==
  /\ victim # None /\ e \in doomed
  /\ doomed' = doomed \ {e}
  /\ tree' = IF e \in File THEN [tree EXCEPT ![victim][e] = None] ELSE tree
  /\ complete' = IF e = Complete THEN complete \ {victim} ELSE complete
  /\ published' = IF e = Published THEN published \ {victim} ELSE published
  /\ expired' = IF e = Published THEN expired \ {victim} ELSE expired
  /\ UNCHANGED <<agenda, victim, scanVars, runVars, shareVars, reachable,
                 faults>>

\* rmdir, which fails if anything was put back; or a directory that is gone.
\* Either way the sweep goes on with the next.
CloseJob ==
  /\ victim # None /\ doomed = {}
  /\ victim' = None
  /\ UNCHANGED <<agenda, doomed, scanVars, treeVars, runVars, shareVars,
                 reachable, faults>>

\* An unlink fails and the sweep goes on with the next, or it is killed.
SweepCut ==
  /\ victim # None \/ agenda # {}
  /\ Fault
  /\ agenda' \in {agenda, {}} /\ victim' = None /\ doomed' = {}
  /\ UNCHANGED <<scanVars, treeVars, runVars, shareVars, reachable>>

-----------------------------------------------------------------------------
(* The clock, the operator, the consumer, the share *)

\* The retention window of a marker ends; it may be zero days long.
Age(d) ==
  /\ MayExpire(d) /\ d \notin expired
  /\ expired' = expired \cup {d}
  /\ UNCHANGED <<tree, complete, published, scanVars, runVars, shareVars,
                 reachable, sweepVars, faults>>

\* README, publishing to acheron: to push a corrected package, the operator
\* deletes the directory on the destination and the marker.
Repush(d) ==
  /\ d \in published /\ dest[d] = Absent
  /\ published' = published \ {d} /\ expired' = expired \ {d}
  /\ UNCHANGED <<tree, complete, scanVars, runVars, shareVars, reachable,
                 sweepVars, faults>>

\* The consumer has taken the package: its copy is its own to delete.
Consume(d) ==
  /\ dest[d] # Absent
  /\ dest' = [dest EXCEPT ![d] = Absent]
  /\ UNCHANGED <<delivered, seen, scanVars, treeVars, runVars, reachable,
                 sweepVars, faults>>

ShareDown ==
  /\ reachable /\ Fault /\ reachable' = FALSE
  /\ UNCHANGED <<scanVars, treeVars, runVars, shareVars, sweepVars>>

ShareUp ==
  /\ ~reachable /\ reachable' = TRUE
  /\ UNCHANGED <<scanVars, treeVars, runVars, shareVars, sweepVars, faults>>

-----------------------------------------------------------------------------
Collect(m) ==
  \/ Scan(m) \/ MergeCut(m)
  \/ \E f \in File \cup {Complete} : Merge(m, f)

\* What a run of the publisher does by itself once it has jobs.
Publish(p) ==
  \/ \E d \in Dir : Found(p, d) \/ Begin(p, d)
  \/ CopyFile(p) \/ Rename(p) \/ Mark(p) \/ JobFails(p)

Sweep ==
  \/ Classify \/ CloseJob \/ SweepCut
  \/ \E d \in Dir : OpenJob(d)
  \/ \E e \in File \cup {Complete, Published} : Unlink(e)

Outside ==
  \/ \E d \in Dir : Age(d) \/ Repush(d) \/ Consume(d)
  \/ ShareDown \/ ShareUp

Next ==
  \/ \E m \in Message : Collect(m)
  \/ \E p \in Pid : Fire(p) \/ Publish(p) \/ Kill(p)
  \/ Sweep
  \/ Outside

Init ==
  /\ spool = [m \in Message |-> {}] /\ scans = [m \in Message |-> 0]
  /\ tree = [d \in Dir |-> Bare]
  /\ complete = {} /\ published = {} /\ expired = {}
  /\ queue = [p \in Pid |-> {}] /\ job = [p \in Pid |-> None]
  /\ pc = [p \in Pid |-> "next"]
  /\ listing = [p \in Pid |-> {}] /\ staging = [p \in Pid |-> Bare]
  /\ dest = [d \in Dir |-> Absent] /\ reachable = TRUE
  /\ agenda = {} /\ victim = None /\ doomed = {}
  /\ collected = {} /\ delivered = {} /\ seen = {} /\ faults = 0

Spec == Init /\ [][Next]_vars

\* The timer fires, a run that is under way goes on, and the share comes back.
\* Nothing is assumed of the sweep, the consumer or the operator.
Fairness ==
  /\ \A p \in Pid : WF_vars(Fire(p)) /\ WF_vars(Publish(p))
  /\ WF_vars(ShareUp)

FairSpec == Spec /\ Fairness

-----------------------------------------------------------------------------
(* Properties *)

Content == [File -> Message \cup {None}]

\* Type invariant; the age of a marker goes with the marker, and a run of the
\* publisher has a job in hand except between two.
TypeOK ==
  /\ spool \in [Message -> SUBSET (File \cup {Complete})]
  /\ scans \in [Message -> Nat]
  /\ tree \in [Dir -> Content]
  /\ complete \subseteq Dir /\ published \subseteq Dir
  /\ expired \subseteq published
  /\ queue \in [Pid -> SUBSET Dir] /\ job \in [Pid -> Dir \cup {None}]
  /\ pc \in [Pid -> {"next", "copy", "mark"}]
  /\ \A p \in Pid : pc[p] = "next" <=> job[p] = None
  /\ listing \in [Pid -> SUBSET File] /\ staging \in [Pid -> Content]
  /\ dest \in [Dir -> Content \cup {Absent}]
  /\ agenda \subseteq Dir /\ victim \in Dir \cup {None}
  /\ doomed \subseteq File \cup {Complete, Published}
  /\ reachable \in BOOLEAN
  /\ collected \subseteq Message /\ delivered \subseteq Message
  /\ seen \subseteq Dir /\ faults \in 0..MaxFaults

\* A job appears whole, or not at all, the first time it appears (README, the
\* Smiley contract), whatever is scanned again, killed, swept or consumed
\* meanwhile.
FirstIsWhole == \A d \in seen : \E m \in delivered : Home[m] = d

\* The presence of .published is never a lie (publish.py, mark_published): no
\* message behind it still waits to be delivered.
MarkerIsTrue ==
  \A m \in collected : Home[m] \in published => m \in delivered

\* Nothing is ever lost (publish.py, the module's docstring): a message that
\* was collected has been delivered, or its whole package is on local disk.
NothingIsLost ==
  \A m \in collected : m \in delivered \/ tree[Home[m]] = Package(m)

\* Acheron keeps the package the consumer received (README, on publishing):
\* nothing here replaces or removes a package that is on the share.
FirstIsKept ==
  [][\A d \in Dir : dest[d] \notin {Absent, Bare} /\ dest'[d] # dest[d]
                      => Consume(d)]_vars

\* An outage costs disk, never mail, and a bad job does not stop the queue
\* (README, on publishing): what was collected is delivered in the end.
EventuallyDelivered ==
  \A m \in Message :
    m \in collected /\ Home[m] \notin Refused ~> m \in delivered

\* What a directory on the share looks like to one who waits for message m.
Look(package, m) ==
  CASE package = Absent -> "absent"
    [] package = Package(m) -> "whole"
    [] package = Bare -> "empty"
    [] OTHER -> "partial"

\* Merge, publisher and sweep implement Parcels, in the presence of kills,
\* outages, re-scans and a consumer that deletes what it took: held until it
\* was delivered, first seen whole, and left alone until it is taken.
Post == INSTANCE Parcels WITH
  handedIn <- collected,
  held <- {m \in collected : tree[Home[m]] = Package(m)},
  box <- [m \in Message |-> Look(dest[Home[m]], m)]

ImplementsParcels == Post!Spec

\* A job directory appears whole, or not at all (publish.py, the first promise
\* to the consumer): what is on the share is the package of a message.
WholeOrNothing ==
  \A d \in Dir : dest[d] # Absent => \E m \in Message : dest[d] = Package(m)
=============================================================================
