--------------------------- MODULE OutboundProofs ---------------------------
(***************************************************************************)
(* Proofs about Outbound, for every set of messages, directories and runs  *)
(* of the publisher, any number of scans and any bound on faults.  What is *)
(* more than type correctness is proved for messages that have a job       *)
(* directory each; OutboundShared.cfg shows that it does not hold without. *)
(***************************************************************************)
EXTENDS Outbound, TLAPS

-----------------------------------------------------------------------------
(* The inductive invariant *)

\* The directories whose message has been delivered whole.
Sent == {Home[m] : m \in delivered}

\* A scan has its own files to move, and .complete to move last.
SpoolShape ==
  \A m \in Message :
    /\ spool[m] \subseteq Parts[m] \cup {Complete}
    /\ spool[m] # {} => Complete \in spool[m]

\* A directory has only files of its own message.
OwnFiles ==
  \A d \in Dir, f \in File :
    tree[d][f] # None => Home[tree[d][f]] = d /\ f \in Parts[tree[d][f]]

\* Until a message is delivered, what was moved of it stays: all of it once
\* its directory is complete.
Kept ==
  \A m \in Message \ delivered : \A f \in Parts[m] :
    \/ m \in collected
    \/ Home[m] \in complete
    \/ spool[m] # {} /\ f \notin spool[m]
    => tree[Home[m]][f] = m

\* Markers, packages on the share and the work of the sweep are of delivered
\* messages.
OnlySent ==
  /\ published \cup agenda \cup seen \subseteq Sent
  /\ victim # None => victim \in Sent
  /\ \A d \in Dir : dest[d] # Absent => d \in seen
  /\ \A p \in Pid : pc[p] = "mark" => job[p] \in Sent

\* A run of the publisher works on complete directories, or on ones that were.
WasComplete ==
  /\ complete \subseteq {Home[m] : m \in Message}
  /\ \A p \in Pid :
       /\ queue[p] \subseteq complete \cup Sent
       /\ pc[p] # "next" => job[p] \in complete \cup Sent

\* The first copy of a job has each file of its message but those still
\* listed, and nothing else.
Copied(m, f, rest) == IF f \in Parts[m] \ rest THEN m ELSE None

CopyOf(p) ==
  /\ pc[p] # "copy" => staging[p] = Bare /\ listing[p] = {}
  /\ pc[p] = "copy" =>
       \A m \in Message \ delivered : Home[m] = job[p] =>
         /\ listing[p] \subseteq Parts[m]
         /\ \A f \in File : staging[p][f] = Copied(m, f, listing[p])

CopyShape == \A p \in Pid : CopyOf(p)

IInv ==
  /\ TypeOK /\ SpoolShape /\ OwnFiles /\ Kept
  /\ OnlySent /\ WasComplete /\ CopyShape

-----------------------------------------------------------------------------
(* Type correctness *)

LEMMA FaultType == TypeOK /\ Fault => faults' \in 0..MaxFaults
  BY BoundAssumption DEF TypeOK, Fault

LEMMA BareType == Bare \in Content
  BY DEF Bare, Content

RunTypeOK ==
  /\ queue \in [Pid -> SUBSET Dir] /\ job \in [Pid -> Dir \cup {None}]
  /\ pc \in [Pid -> {"next", "copy", "mark"}]
  /\ \A p \in Pid : pc[p] = "next" <=> job[p] = None
  /\ listing \in [Pid -> SUBSET File] /\ staging \in [Pid -> Content]

LEMMA LeaveType ==
  ASSUME TypeOK, NEW p \in Pid, NEW rest, rest \subseteq Dir, Leave(p, rest)
  PROVE  RunTypeOK'
  BY BareType DEF TypeOK, RunTypeOK, Leave

LEMMA CollectType == TypeOK /\ (\E m \in Message : Collect(m)) => TypeOK'
<1> SUFFICES ASSUME TypeOK, NEW m \in Message, Collect(m) PROVE TypeOK'
  OBVIOUS
<1> USE DEF TypeOK, treeVars, scanVars, runVars, shareVars, sweepVars
<1>1. CASE Scan(m)
  <2>1. Parts[m] \cup {Complete} \in SUBSET (File \cup {Complete})
    BY PackageAssumption
  <2>2. spool' \in [Message -> SUBSET (File \cup {Complete})]
    BY <1>1, <2>1 DEF Scan
  <2>3. scans' \in [Message -> Nat]
    BY <1>1 DEF Scan
  <2>4. QED
    BY <1>1, <2>2, <2>3 DEF Scan
<1>2. CASE MergeCut(m)
  BY <1>2, FaultType DEF MergeCut
<1>3. ASSUME NEW f \in File \cup {Complete}, Merge(m, f) PROVE TypeOK'
  <2>1. Home[m] \in Dir
    BY PackageAssumption
  <2>2. complete' \subseteq Dir
    BY <1>3, <2>1 DEF Merge
  <2>3. tree' \in [Dir -> Content]
    <3>1. [tree[Home[m]] EXCEPT ![f] = m] \in Content
      BY <2>1 DEF Content
    <3>2. QED
      BY <1>3, <2>1, <3>1 DEF Merge
  <2>4. QED
    BY <1>3, <2>2, <2>3 DEF Merge
<1>4. QED
  BY <1>1, <1>2, <1>3 DEF Collect

LEMMA RunType ==
  TypeOK /\ (\E p \in Pid : Fire(p) \/ Publish(p) \/ Kill(p)) => TypeOK'
<1> SUFFICES ASSUME TypeOK, NEW p \in Pid, Fire(p) \/ Publish(p) \/ Kill(p)
             PROVE  TypeOK'
  OBVIOUS
<1> USE DEF treeVars, scanVars, runVars, shareVars, sweepVars
<1>1. CASE Fire(p)
  <2>1. RunTypeOK'
    BY <1>1, LeaveType DEF Fire
  <2>2. QED
    BY <1>1, <2>1 DEF Fire, TypeOK, RunTypeOK
<1>2. ASSUME NEW d \in Dir, Found(p, d) \/ Begin(p, d) PROVE TypeOK'
  <2>1. Files(d) \subseteq File
    BY DEF Files
  <2>2. d # None
    BY PackageAssumption
  <2>3. QED
    BY <1>2, <2>1, <2>2 DEF Found, Begin, Take, TypeOK
<1>3. CASE CopyFile(p)
  <2>1. PICK f \in listing[p] :
          /\ staging' = [staging EXCEPT ![p][f] = tree[job[p]][f]]
          /\ listing' = [listing EXCEPT ![p] = @ \ {f}]
    BY <1>3 DEF CopyFile
  <2>2. tree[job[p]] \in Content /\ f \in File
    BY <1>3 DEF CopyFile, TypeOK
  <2>3. staging' \in [Pid -> Content]
    BY <2>1, <2>2 DEF TypeOK, Content
  <2>4. QED
    BY <1>3, <2>1, <2>3 DEF CopyFile, TypeOK
<1>4. CASE Rename(p)
  <2>1. job[p] \in Dir /\ staging[p] \in Content
    BY <1>4 DEF Rename, TypeOK
  <2>2. dest' \in [Dir -> Content \cup {Absent}]
    BY <1>4, <2>1 DEF Rename, TypeOK
  <2>3. delivered' \subseteq Message /\ seen' \subseteq Dir
    BY <1>4, <2>1 DEF Rename, TypeOK
  <2>4. QED
    BY <1>4, <2>2, <2>3, BareType DEF Rename, TypeOK
<1>5. CASE Mark(p)
  <2>1. RunTypeOK'
    BY <1>5, LeaveType DEF Mark, TypeOK
  <2>2. job[p] \in Dir
    BY <1>5 DEF Mark, TypeOK
  <2>3. QED
    BY <1>5, <2>1, <2>2 DEF Mark, TypeOK, RunTypeOK
<1>6. CASE JobFails(p)
  <2>1. queue[p] \subseteq Dir
    BY DEF TypeOK
  <2>2. RunTypeOK'
    BY <1>6, <2>1, LeaveType DEF JobFails, AfterFailure
  <2>3. faults' \in 0..MaxFaults
    BY <1>6, FaultType DEF JobFails, Raises, TypeOK
  <2>4. QED
    BY <1>6, <2>2, <2>3 DEF JobFails, TypeOK, RunTypeOK
<1>7. CASE Kill(p)
  <2>1. RunTypeOK'
    BY <1>7, LeaveType DEF Kill
  <2>2. QED
    BY <1>7, <2>1, FaultType DEF Kill, TypeOK, RunTypeOK
<1>8. QED
  BY <1>1, <1>2, <1>3, <1>4, <1>5, <1>6, <1>7 DEF Publish

LEMMA SweepType == TypeOK /\ Sweep => TypeOK'
<1> SUFFICES ASSUME TypeOK, Sweep PROVE TypeOK'
  OBVIOUS
<1> USE DEF TypeOK, treeVars, scanVars, runVars, shareVars, sweepVars
<1>1. CASE Classify
  BY <1>1 DEF Classify, IsExpired
<1>2. CASE CloseJob
  BY <1>2 DEF CloseJob
<1>3. CASE SweepCut
  BY <1>3, FaultType DEF SweepCut
<1>4. ASSUME NEW d \in Dir, OpenJob(d) PROVE TypeOK'
  BY <1>4 DEF OpenJob, Entries, Files
<1>5. ASSUME NEW e \in File \cup {Complete, Published}, Unlink(e) PROVE TypeOK'
  <2>1. tree' \in [Dir -> Content]
    BY <1>5 DEF Unlink, Content
  <2>2. QED
    BY <1>5, <2>1 DEF Unlink
<1>6. QED
  BY <1>1, <1>2, <1>3, <1>4, <1>5 DEF Sweep

LEMMA OutsideType == TypeOK /\ Outside => TypeOK'
<1> SUFFICES ASSUME TypeOK, Outside PROVE TypeOK'
  OBVIOUS
<1> USE DEF TypeOK, treeVars, scanVars, runVars, shareVars, sweepVars
<1>1. ASSUME NEW d \in Dir, Age(d) \/ Repush(d) \/ Consume(d) PROVE TypeOK'
  BY <1>1 DEF Age, MayExpire, Repush, Consume
<1>2. CASE ShareDown \/ ShareUp
  BY <1>2, FaultType DEF ShareDown, ShareUp
<1>3. QED
  BY <1>1, <1>2 DEF Outside

LEMMA TypeInit == Init => TypeOK
  BY BoundAssumption, BareType DEF Init, TypeOK

LEMMA TypeStep == TypeOK /\ [Next]_vars => TypeOK'
<1>1. TypeOK /\ UNCHANGED vars => TypeOK'
  BY DEF TypeOK, vars
<1>2. QED
  BY <1>1, CollectType, RunType, SweepType, OutsideType DEF Next

\* The variables keep their types, whatever directories messages share.
THEOREM TypeCorrect == Spec => []TypeOK
  BY TypeInit, TypeStep, PTL DEF Spec

-----------------------------------------------------------------------------
(* Which steps touch what *)

\* The steps that write the spool, the tree or .complete, or are counted.
LEMMA TreeEffect ==
  ASSUME [Next]_vars
  PROVE  \/ \E m \in Message :
              \/ Scan(m) \/ MergeCut(m)
              \/ \E f \in File \cup {Complete} : Merge(m, f)
         \/ \E e \in File \cup {Complete, Published} : Unlink(e)
         \/ UNCHANGED <<spool, tree, complete, collected>>
<1> USE DEF treeVars, scanVars
<1>1. CASE UNCHANGED vars
  BY <1>1 DEF vars
<1>2. ASSUME NEW p \in Pid, Fire(p) \/ Publish(p) \/ Kill(p)
      PROVE  UNCHANGED <<spool, tree, complete, collected>>
  BY <1>2
  DEF Fire, Publish, Kill, Found, Begin, CopyFile, Rename, Mark, JobFails
<1>3. CASE Sweep
  BY <1>3 DEF Sweep, Classify, CloseJob, SweepCut, OpenJob
<1>4. CASE Outside
  BY <1>4 DEF Outside, Age, Repush, Consume, ShareDown, ShareUp
<1>5. QED
  BY <1>1, <1>2, <1>3, <1>4 DEF Next, Collect

\* Only a run of the publisher changes its own place, its copy and what counts
\* as delivered.
LEMMA RunEffect ==
  ASSUME [Next]_vars
  PROVE  \/ \E p \in Pid : Fire(p) \/ Publish(p) \/ Kill(p)
         \/ UNCHANGED <<runVars, delivered, seen>>
<1> USE DEF runVars, shareVars
<1>1. CASE UNCHANGED vars
  BY <1>1 DEF vars
<1>2. ASSUME NEW m \in Message, Collect(m)
      PROVE  UNCHANGED <<runVars, delivered, seen>>
  BY <1>2 DEF Collect, Scan, Merge, MergeCut
<1>3. CASE Sweep
  BY <1>3 DEF Sweep, Classify, CloseJob, SweepCut, OpenJob, Unlink
<1>4. CASE Outside
  BY <1>4 DEF Outside, Age, Repush, Consume, ShareDown, ShareUp
<1>5. QED
  BY <1>1, <1>2, <1>3, <1>4 DEF Next

LEMMA DeliveredGrows ==
  ASSUME [Next]_vars
  PROVE  delivered \subseteq delivered' /\ Sent \subseteq Sent'
<1>1. delivered \subseteq delivered'
  BY RunEffect
  DEF Fire, Publish, Kill, Found, Begin, CopyFile, Rename, Mark, JobFails,
      shareVars
<1>2. QED
  BY <1>1 DEF Sent

\* Where each message has a directory of its own, a directory has been
\* delivered only if its message has.
LEMMA OwnHome ==
  ASSUME OneJobEach, TypeOK, NEW m \in Message, Home[m] \in Sent
  PROVE  m \in delivered
  BY DEF OneJobEach, TypeOK, Sent

-----------------------------------------------------------------------------
(* The tree *)

LEMMA SpoolStep == IInv /\ [Next]_vars => SpoolShape'
<1> SUFFICES ASSUME IInv, [Next]_vars PROVE SpoolShape'
  OBVIOUS
<1> USE DEF IInv, TypeOK, SpoolShape
<1>1. ASSUME NEW m \in Message, Scan(m) \/ MergeCut(m) PROVE SpoolShape'
  BY <1>1 DEF Scan, MergeCut
<1>2. ASSUME NEW m \in Message, NEW f \in File \cup {Complete}, Merge(m, f)
      PROVE  SpoolShape'
  BY <1>2 DEF Merge, MayMove
<1>3. CASE \E e \in File \cup {Complete, Published} : Unlink(e)
  BY <1>3 DEF Unlink, scanVars
<1>4. QED
  BY <1>1, <1>2, <1>3, TreeEffect

LEMMA OwnFilesStep == IInv /\ [Next]_vars => OwnFiles'
<1> SUFFICES ASSUME IInv, [Next]_vars PROVE OwnFiles'
  OBVIOUS
<1> USE DEF IInv, OwnFiles
<1>1. ASSUME NEW m \in Message, Scan(m) \/ MergeCut(m) PROVE OwnFiles'
  BY <1>1 DEF Scan, MergeCut, treeVars
<1>2. ASSUME NEW m \in Message, NEW f \in File \cup {Complete}, Merge(m, f)
      PROVE  OwnFiles'
  <2>1. CASE f = Complete
    BY <1>2, <2>1 DEF Merge
  <2>2. CASE f # Complete
    <3>1. f \in Parts[m]
      BY <1>2, <2>2 DEF Merge, SpoolShape
    <3>2. \A d \in Dir, g \in File :
            tree'[d][g] = IF d = Home[m] /\ g = f THEN m ELSE tree[d][g]
      BY <1>2, <2>2 DEF Merge, TypeOK, Content
    <3>3. QED
      BY <3>1, <3>2
  <2>3. QED
    BY <2>1, <2>2
<1>3. ASSUME NEW e \in File \cup {Complete, Published}, Unlink(e)
      PROVE  OwnFiles'
  <2>1. \A d \in Dir, f \in File : tree'[d][f] \in {tree[d][f], None}
    BY <1>3 DEF Unlink, TypeOK, Content
  <2>2. QED
    BY <2>1
<1>4. QED
  BY <1>1, <1>2, <1>3, TreeEffect

LEMMA KeptStep == OneJobEach /\ IInv /\ [Next]_vars => Kept'
<1> SUFFICES ASSUME OneJobEach, IInv, [Next]_vars,
                    NEW n \in Message \ delivered', NEW g \in Parts[n],
                    \/ n \in collected'
                    \/ Home[n] \in complete'
                    \/ spool'[n] # {} /\ g \notin spool'[n]
             PROVE  tree'[Home[n]][g] = n
  BY DEF Kept
<1> USE DEF IInv, TypeOK, Kept, SpoolShape
<1>0. /\ n \in Message \ delivered /\ Home[n] \in Dir
      /\ g \in File /\ g # Complete
  BY DeliveredGrows, PackageAssumption
<1>1. ASSUME NEW m \in Message, Scan(m) \/ MergeCut(m)
      PROVE  tree'[Home[n]][g] = n
  BY <1>0, <1>1 DEF Scan, MergeCut, treeVars
<1>2. ASSUME NEW m \in Message, NEW f \in File \cup {Complete}, Merge(m, f)
      PROVE  tree'[Home[n]][g] = n
  <2>1. CASE m = n /\ f = Complete
    BY <1>0, <1>2, <2>1 DEF Merge, MayMove
  <2>2. CASE m = n /\ f # Complete
    <3>1. Complete \in spool[n] /\ spool[n] # {f}
      BY <1>2, <2>2 DEF Merge
    <3>2. tree' = [tree EXCEPT ![Home[n]][f] = n]
      BY <1>2, <2>2 DEF Merge
    <3>3. tree'[Home[n]][g] = IF g = f THEN n ELSE tree[Home[n]][g]
      BY <1>0, <3>2 DEF Content
    <3>4. g # f => n \in collected \/ Home[n] \in complete \/ g \notin spool[n]
      BY <1>2, <2>2, <3>1 DEF Merge
    <3>5. QED
      BY <1>0, <3>1, <3>3, <3>4
  <2>3. CASE m # n
    <3>1. Home[m] # Home[n]
      BY <2>3 DEF OneJobEach
    <3>2. tree'[Home[n]] = tree[Home[n]]
      BY <1>0, <1>2, <3>1 DEF Merge
    <3>3. spool'[n] = spool[n]
      BY <1>2, <2>3 DEF Merge
    <3>4. n \in collected' => n \in collected
      BY <1>2, <2>3 DEF Merge
    <3>5. Home[n] \in complete' => Home[n] \in complete
      BY <1>2, <3>1 DEF Merge
    <3>6. QED
      BY <1>0, <3>2, <3>3, <3>4, <3>5
  <2>4. QED
    BY <2>1, <2>2, <2>3
<1>3. ASSUME NEW e \in File \cup {Complete, Published}, Unlink(e)
      PROVE  tree'[Home[n]][g] = n
  <2>1. victim # Home[n]
    BY <1>0, <1>3, OwnHome DEF Unlink, OnlySent
  <2>2. tree'[Home[n]] = tree[Home[n]]
    BY <1>0, <1>3, <2>1 DEF Unlink
  <2>3. QED
    BY <1>0, <1>3, <2>2 DEF Unlink, scanVars
<1>4. QED
  BY <1>0, <1>1, <1>2, <1>3, TreeEffect

-----------------------------------------------------------------------------
(* The publisher *)

\* What a run lists of a complete job that was never delivered is its package.
LEMMA ListsPackage ==
  ASSUME OneJobEach, IInv, NEW m \in Message \ delivered,
         Home[m] \in complete \cup Sent
  PROVE  Files(Home[m]) = Parts[m]
<1> USE DEF IInv, TypeOK
<1>1. Home[m] \in complete /\ Home[m] \in Dir
  BY OwnHome, PackageAssumption
<1>2. \A f \in Parts[m] : tree[Home[m]][f] = m
  BY <1>1 DEF Kept
<1>3. ASSUME NEW f \in File, tree[Home[m]][f] # None PROVE f \in Parts[m]
  <2>1. tree[Home[m]][f] \in Message
    BY <1>1, <1>3 DEF Content
  <2>2. QED
    BY <1>1, <1>3, <2>1 DEF OwnFiles, OneJobEach
<1>4. QED
  BY <1>2, <1>3, PackageAssumption DEF Files

\* The first copy of a message is its package.
LEMMA FirstCopy ==
  ASSUME OneJobEach, IInv, NEW p \in Pid, Rename(p),
         NEW m \in Message \ delivered, Home[m] = job[p]
  PROVE  staging[p] = Package(m) /\ dest[job[p]] = Absent
<1> USE DEF IInv, TypeOK
<1>1. job[p] \in Dir /\ pc[p] = "copy" /\ listing[p] = {}
  BY DEF Rename
<1>2. dest[job[p]] = Absent
  BY <1>1, OwnHome DEF OnlySent
<1>3. \A f \in File : staging[p][f] = Copied(m, f, {})
  <2>1. \A f \in File : staging[p][f] = Copied(m, f, listing[p])
    BY <1>1 DEF CopyShape, CopyOf
  <2>2. QED
    BY <1>1, <2>1
<1>4. QED
  BY <1>2, <1>3 DEF Copied, Package, Content

\* A run that gets to the marker is at a job that has been delivered.
LEMMA RenameDelivers ==
  ASSUME OneJobEach, IInv, [Next]_vars, NEW p \in Pid, Rename(p)
  PROVE  job[p] \in Sent'
<1>1. CASE job[p] \in Sent
  BY <1>1, DeliveredGrows
<1>2. CASE job[p] \notin Sent
  <2>1. PICK m \in Message : Home[m] = job[p]
    BY <1>2 DEF IInv, WasComplete, Rename
  <2>2. m \notin delivered
    BY <1>2, <2>1 DEF Sent
  <2>3. staging[p] = Package(m) /\ dest[job[p]] = Absent
    BY <2>1, <2>2, FirstCopy
  <2>4. m \in delivered'
    BY <2>1, <2>3 DEF Rename, MayRename
  <2>5. QED
    BY <2>1, <2>4 DEF Sent
<1>3. QED
  BY <1>1, <1>2

LEMMA CopyStep == OneJobEach /\ IInv /\ [Next]_vars => CopyShape'
<1> SUFFICES ASSUME OneJobEach, IInv, [Next]_vars, NEW q \in Pid
             PROVE  CopyOf(q)'
  BY DEF CopyShape
<1> USE DEF IInv, TypeOK, CopyShape, CopyOf
<1>1. \A m \in Message \ delivered' : m \in Message \ delivered
  BY DeliveredGrows
<1>2. CASE UNCHANGED <<pc[q], job[q], listing[q], staging[q]>>
  BY <1>1, <1>2
<1>3. CASE pc'[q] # "copy" /\ staging'[q] = Bare /\ listing'[q] = {}
  BY <1>3
<1>4. CASE \E d \in Dir : Found(q, d)
  <2>1. pc[q] = "next" /\ pc'[q] = "mark" /\ UNCHANGED <<listing, staging>>
    BY <1>4 DEF Found, Take
  <2>2. QED
    BY <1>3, <2>1
<1>5. ASSUME NEW d \in Dir, Begin(q, d) PROVE CopyOf(q)'
  <2>1. /\ pc[q] = "next" /\ d \in queue[q] /\ job'[q] = d
        /\ listing'[q] = Files(d) /\ staging'[q] = Bare /\ pc'[q] = "copy"
    BY <1>5 DEF Begin, Take
  <2>2. ASSUME NEW m \in Message \ delivered', Home[m] = d
        PROVE  Files(d) = Parts[m]
    BY <1>1, <2>1, <2>2, ListsPackage DEF WasComplete
  <2>3. \A m \in Message, f \in File : Bare[f] = Copied(m, f, Parts[m])
    BY DEF Bare, Copied
  <2>4. QED
    BY <2>1, <2>2, <2>3
<1>6. CASE CopyFile(q)
  <2>1. PICK g \in listing[q] :
          /\ tree[job[q]][g] # None
          /\ staging' = [staging EXCEPT ![q][g] = tree[job[q]][g]]
          /\ listing' = [listing EXCEPT ![q] = @ \ {g}]
    BY <1>6 DEF CopyFile
  <2>2. /\ pc[q] = "copy" /\ pc'[q] = "copy" /\ job'[q] = job[q]
        /\ job[q] \in Dir /\ g \in File
    BY <1>6 DEF CopyFile
  <2>3. /\ listing'[q] = listing[q] \ {g}
        /\ \A f \in File :
             staging'[q][f] = IF f = g THEN tree[job[q]][g] ELSE staging[q][f]
    BY <2>1, <2>2 DEF Content
  <2>4. ASSUME NEW m \in Message \ delivered', Home[m] = job[q]
        PROVE  /\ listing'[q] \subseteq Parts[m]
               /\ \A f \in File : staging'[q][f] = Copied(m, f, listing'[q])
    <3>1. /\ listing[q] \subseteq Parts[m]
          /\ \A f \in File : staging[q][f] = Copied(m, f, listing[q])
      BY <1>1, <2>2, <2>4
    <3>2. tree[job[q]][g] = m
      <4>1. tree[job[q]][g] \in Message
        BY <2>1, <2>2 DEF Content
      <4>2. QED
        BY <2>1, <2>2, <2>4, <4>1 DEF OwnFiles, OneJobEach
    <3>3. QED
      BY <2>3, <3>1, <3>2 DEF Copied
  <2>5. QED
    BY <2>2, <2>4
<1>7. CASE Rename(q)
  BY <1>3, <1>7 DEF Rename
<1>8. CASE Fire(q) \/ Mark(q) \/ JobFails(q) \/ Kill(q)
  BY <1>3, <1>8 DEF Fire, Mark, JobFails, Kill, Leave
<1>9. ASSUME NEW p \in Pid, p # q, Fire(p) \/ Publish(p) \/ Kill(p)
      PROVE  UNCHANGED <<pc[q], job[q], listing[q], staging[q]>>
  BY <1>9
  DEF Fire, Publish, Kill, Found, Begin, Take, CopyFile, Rename, Mark,
      JobFails, Leave, runVars
<1>10. QED
  BY <1>2, <1>4, <1>5, <1>6, <1>7, <1>8, <1>9, RunEffect DEF Publish, runVars

LEMMA WasCompleteStep == OneJobEach /\ IInv /\ [Next]_vars => WasComplete'
<1> SUFFICES ASSUME OneJobEach, IInv, [Next]_vars PROVE WasComplete'
  OBVIOUS
<1> USE DEF IInv, TypeOK, WasComplete
<1>1. complete' \subseteq {Home[m] : m \in Message}
  <2>1. ASSUME NEW m \in Message, NEW f \in File \cup {Complete}, Merge(m, f)
        PROVE  complete' \subseteq complete \cup {Home[m]}
    BY <2>1 DEF Merge
  <2>2. CASE UNCHANGED complete
    BY <2>2
  <2>3. QED
    BY <2>1, <2>2, TreeEffect DEF Scan, MergeCut, Unlink, treeVars
<1>2. complete \cup Sent \subseteq complete' \cup Sent'
  <2>1. complete \subseteq complete' \cup Sent
    BY TreeEffect DEF Scan, Merge, MergeCut, Unlink, treeVars, OnlySent
  <2>2. QED
    BY <2>1, DeliveredGrows
<1>3. ASSUME NEW q \in Pid
      PROVE  /\ queue'[q] \subseteq complete \cup Sent
             /\ pc'[q] # "next" => job'[q] \in complete \cup Sent
  <2>1. CASE UNCHANGED <<queue[q], pc[q], job[q]>>
    BY <2>1
  <2>2. CASE Fire(q)
    BY <2>2 DEF Fire, Leave, IsPending
  <2>3. CASE \E d \in Dir : Found(q, d) \/ Begin(q, d)
    BY <2>3 DEF Found, Begin, Take
  <2>4. CASE CopyFile(q) \/ Rename(q)
    BY <2>4 DEF CopyFile, Rename
  <2>5. CASE Mark(q) \/ JobFails(q) \/ Kill(q)
    BY <2>5 DEF Mark, JobFails, Kill, Leave, AfterFailure
  <2>6. ASSUME NEW p \in Pid, p # q, Fire(p) \/ Publish(p) \/ Kill(p)
        PROVE  UNCHANGED <<queue[q], pc[q], job[q]>>
    BY <2>6
    DEF Fire, Publish, Kill, Found, Begin, Take, CopyFile, Rename, Mark,
        JobFails, Leave, runVars
  <2>7. QED
    BY <2>1, <2>2, <2>3, <2>4, <2>5, <2>6, RunEffect DEF Publish, runVars
<1>4. QED
  BY <1>1, <1>2, <1>3

-----------------------------------------------------------------------------
(* Markers, the share and the sweep *)

LEMMA SentStep == OneJobEach /\ IInv /\ [Next]_vars => OnlySent'
<1> SUFFICES ASSUME OneJobEach, IInv, [Next]_vars PROVE OnlySent'
  OBVIOUS
<1> USE DEF IInv, TypeOK, OnlySent
<1>1. Sent \subseteq Sent'
  BY DeliveredGrows
<1>2. CASE UNCHANGED <<published, agenda, seen, victim, dest, pc, job>>
  BY <1>1, <1>2
<1>3. ASSUME NEW m \in Message, Collect(m) PROVE OnlySent'
  BY <1>2, <1>3
  DEF Collect, Scan, Merge, MergeCut, treeVars, runVars, shareVars, sweepVars
<1>4. ASSUME NEW p \in Pid, Fire(p) \/ JobFails(p) \/ Kill(p) PROVE OnlySent'
  BY <1>1, <1>4
  DEF Fire, JobFails, Kill, Leave, treeVars, shareVars, sweepVars
<1>5. ASSUME NEW p \in Pid, NEW d \in Dir, Found(p, d) PROVE OnlySent'
  BY <1>1, <1>5
  DEF Found, Take, AlreadyThere, treeVars, shareVars, sweepVars
<1>6. ASSUME NEW p \in Pid, CopyFile(p) \/ \E d \in Dir : Begin(p, d)
      PROVE  OnlySent'
  BY <1>1, <1>6
  DEF CopyFile, Begin, Take, treeVars, shareVars, sweepVars
<1>7. ASSUME NEW p \in Pid, Rename(p) PROVE OnlySent'
  <2>1. job[p] \in Sent' /\ job' = job
    BY <1>7, RenameDelivers DEF Rename
  <2>2. seen' \subseteq seen \cup {job[p]}
    BY <1>7 DEF Rename, shareVars
  <2>3. \A d \in Dir : dest'[d] # Absent => d \in seen'
    BY <1>7 DEF Rename, shareVars
  <2>4. \A q \in Pid : pc'[q] = "mark" => q = p \/ pc[q] = "mark"
    BY <1>7 DEF Rename
  <2>5. UNCHANGED <<published, agenda, victim>>
    BY <1>7 DEF Rename, treeVars, sweepVars
  <2>6. QED
    BY <1>1, <2>1, <2>2, <2>3, <2>4, <2>5
<1>8. ASSUME NEW p \in Pid, Mark(p) PROVE OnlySent'
  BY <1>1, <1>8 DEF Mark, Leave, shareVars, sweepVars
<1>9. CASE Sweep
  <2>1. UNCHANGED <<seen, dest, pc, job>>
    BY <1>9
    DEF Sweep, Classify, CloseJob, SweepCut, OpenJob, Unlink, runVars, shareVars
  <2>2. /\ published' \cup agenda' \subseteq Sent
        /\ victim' # None => victim' \in Sent
    BY <1>9
    DEF Sweep, Classify, IsExpired, CloseJob, SweepCut, OpenJob, Unlink,
        treeVars
  <2>3. QED
    BY <1>1, <2>1, <2>2
<1>10. CASE Outside
  BY <1>1, <1>10
  DEF Outside, Age, Repush, Consume, ShareDown, ShareUp, treeVars, runVars,
      shareVars, sweepVars
<1>11. QED
  BY <1>2, <1>3, <1>4, <1>5, <1>6, <1>7, <1>8, <1>9, <1>10
  DEF Next, Publish, vars

-----------------------------------------------------------------------------
(* The theorems *)

LEMMA InductiveInit == Init => IInv
<1> SUFFICES ASSUME Init PROVE IInv
  OBVIOUS
<1>1. TypeOK
  BY TypeInit
<1>2. SpoolShape /\ OwnFiles
  BY DEF Init, SpoolShape, OwnFiles, Bare
<1>3. Kept /\ OnlySent /\ WasComplete /\ CopyShape
  BY DEF Init, Kept, OnlySent, WasComplete, CopyShape, CopyOf
<1>4. QED
  BY <1>1, <1>2, <1>3 DEF IInv

LEMMA InductiveStep == OneJobEach /\ IInv /\ [Next]_vars => IInv'
<1> SUFFICES ASSUME OneJobEach, IInv, [Next]_vars PROVE IInv'
  OBVIOUS
<1>1. TypeOK
  BY DEF IInv
<1>2. QED
  BY <1>1, TypeStep, SpoolStep, OwnFilesStep, KeptStep, SentStep,
     WasCompleteStep, CopyStep
  DEF IInv

\* The invariant behind what follows.
THEOREM Inductive ==
  ASSUME OneJobEach
  PROVE  Spec => []IInv
<1>1. Init => IInv
  BY InductiveInit
<1>2. IInv /\ [Next]_vars => IInv'
  BY InductiveStep
<1>3. QED
  BY <1>1, <1>2, PTL DEF Spec

\* Whatever is scanned again, killed, swept or consumed meanwhile: what first
\* appears on the share under a job's name is a whole package of that job.
THEOREM AppearsWhole ==
  ASSUME OneJobEach
  PROVE  Spec => []FirstIsWhole
<1>1. IInv => FirstIsWhole
  BY DEF IInv, OnlySent, Sent, FirstIsWhole
<1>2. QED
  BY <1>1, Inductive, PTL

\* A marker never stands for a message that still waits to be delivered.
THEOREM MarkersAreTrue ==
  ASSUME OneJobEach
  PROVE  Spec => []MarkerIsTrue
<1>1. IInv => MarkerIsTrue
  BY OwnHome DEF IInv, TypeOK, OnlySent, MarkerIsTrue
<1>2. QED
  BY <1>1, Inductive, PTL

\* A directory with every file of its message holds the package.
LEMMA WholeTree ==
  ASSUME OneJobEach, IInv, NEW m \in Message \ delivered,
         \A f \in Parts[m] : tree[Home[m]][f] = m
  PROVE  tree[Home[m]] = Package(m)
<1> USE DEF IInv, TypeOK
<1>1. Home[m] \in Dir /\ tree[Home[m]] \in Content
  BY PackageAssumption
<1>2. ASSUME NEW f \in File PROVE tree[Home[m]][f] = Package(m)[f]
  <2>1. CASE f \in Parts[m]
    BY <2>1 DEF Package
  <2>2. CASE f \notin Parts[m]
    <3>1. tree[Home[m]][f] \in Message \cup {None}
      BY <1>1 DEF Content
    <3>2. tree[Home[m]][f] = None
      BY <1>1, <2>2, <3>1 DEF OwnFiles, OneJobEach
    <3>3. QED
      BY <2>2, <3>2 DEF Package
  <2>3. QED
    BY <2>1, <2>2
<1>3. QED
  BY <1>1, <1>2 DEF Content, Package

LEMMA CollectedIsWhole ==
  ASSUME OneJobEach, IInv, NEW m \in collected \ delivered
  PROVE  tree[Home[m]] = Package(m)
<1>1. m \in Message \ delivered /\ \A f \in Parts[m] : tree[Home[m]][f] = m
  BY DEF IInv, TypeOK, Kept
<1>2. QED
  BY <1>1, WholeTree

\* Publisher and sweep between them lose no message that was collected.
THEOREM NothingGoesMissing ==
  ASSUME OneJobEach
  PROVE  Spec => []NothingIsLost
<1>1. IInv => NothingIsLost
  BY CollectedIsWhole DEF NothingIsLost
<1>2. QED
  BY <1>1, Inductive, PTL

\* Two runs at once, or a run after a crash, never replace or remove a package
\* the share already has; messages may share directories.
THEOREM PackagesStay == Spec => FirstIsKept
<1>1. ASSUME TypeOK, [Next]_vars, NEW d \in Dir, dest[d] \notin {Absent, Bare},
             dest'[d] # dest[d]
      PROVE  Consume(d)
  <2> USE DEF TypeOK, shareVars
  <2>1. ASSUME NEW p \in Pid, Publish(p) \/ Fire(p) \/ Kill(p) PROVE FALSE
    BY <1>1, <2>1
    DEF Publish, Found, Begin, CopyFile, Rename, MayRename, Mark, JobFails,
        Fire, Kill
  <2>2. ASSUME NEW m \in Message, Collect(m) PROVE FALSE
    BY <1>1, <2>2 DEF Collect, Scan, Merge, MergeCut
  <2>3. CASE Sweep
    BY <1>1, <2>3 DEF Sweep, Classify, CloseJob, SweepCut, OpenJob, Unlink
  <2>4. CASE Outside
    BY <1>1, <2>4 DEF Outside, Age, Repush, Consume, ShareDown, ShareUp
  <2>5. CASE UNCHANGED vars
    BY <1>1, <2>5 DEF vars
  <2>6. QED
    BY <1>1, <2>1, <2>2, <2>3, <2>4, <2>5 DEF Next
<1>2. TypeOK /\ [Next]_vars =>
        [\A d \in Dir : dest[d] \notin {Absent, Bare} /\ dest'[d] # dest[d]
                          => Consume(d)]_vars
  BY <1>1
<1>3. QED
  BY <1>2, TypeCorrect, PTL DEF Spec, FirstIsKept

-----------------------------------------------------------------------------
(* Merge, publisher and sweep implement Parcels *)

\* Only collected messages are complete or have been delivered.
OnlyCollected ==
  /\ delivered \subseteq collected
  /\ complete \subseteq {Home[m] : m \in collected}

PostInv == IInv /\ OnlyCollected

LEMMA OnlyCollectedStep ==
  OneJobEach /\ PostInv /\ [Next]_vars => OnlyCollected'
<1> SUFFICES ASSUME OneJobEach, PostInv, [Next]_vars PROVE OnlyCollected'
  OBVIOUS
<1> USE DEF PostInv, IInv, TypeOK, OnlyCollected
<1>1. collected \subseteq collected'
  BY TreeEffect DEF Scan, MergeCut, Merge, Unlink, scanVars
<1>2. complete' \subseteq {Home[m] : m \in collected'}
  <2>1. ASSUME NEW m \in Message, NEW f \in File \cup {Complete}, Merge(m, f)
        PROVE  complete' \subseteq {Home[n] : n \in collected'}
    <3>1. CASE f # Complete
      BY <1>1, <2>1, <3>1 DEF Merge
    <3>2. CASE f = Complete
      <4>1. m \in collected' /\ complete' = complete \cup {Home[m]}
        BY <2>1, <3>2 DEF Merge, MayMove
      <4>2. QED
        BY <1>1, <4>1
    <3>3. QED
      BY <3>1, <3>2
  <2>2. CASE complete' \subseteq complete
    BY <1>1, <2>2
  <2>3. QED
    BY <2>1, <2>2, TreeEffect DEF Scan, MergeCut, Unlink, treeVars
<1>3. delivered' \subseteq collected'
  <2>1. ASSUME NEW p \in Pid, Rename(p) PROVE delivered' \subseteq collected
    <3>1. PICK n \in collected : job[p] = Home[n]
      BY <2>1 DEF Rename, WasComplete, Sent
    <3>2. \A m \in delivered' \ delivered : m \in Message /\ Home[m] = job[p]
      BY <2>1 DEF Rename, shareVars
    <3>3. QED
      BY <3>1, <3>2 DEF OneJobEach
  <2>2. CASE delivered' = delivered
    BY <1>1, <2>2
  <2>3. QED
    BY <1>1, <2>1, <2>2, RunEffect
    DEF Fire, Publish, Kill, Found, Begin, CopyFile, Mark, JobFails, shareVars
<1>4. QED
  BY <1>2, <1>3

\* A package is something, and what is on the share is not nothing.
LEMMA PackageShape ==
  /\ \A c \in Content : c # Absent
  /\ \A m \in Message : Package(m) \in Content /\ Package(m) # Bare
<1>1. ASSUME NEW c \in Content PROVE c # Absent
  <2>1. DOMAIN c = File /\ DOMAIN Absent = {}
    BY DEF Content, Absent
  <2>2. QED
    BY <2>1, PackageAssumption
<1>2. ASSUME NEW m \in Message
      PROVE  Package(m) \in Content /\ Package(m) # Bare
  <2>1. PICK f \in File : f \in Parts[m]
    BY PackageAssumption
  <2>2. Package(m)[f] = m /\ Bare[f] = None /\ m # None
    BY <2>1, PackageAssumption DEF Package, Bare
  <2>3. Package(m) \in Content
    BY DEF Package, Content
  <2>4. QED
    BY <2>2, <2>3
<1>3. QED
  BY <1>1, <1>2

Whole == {m \in collected : tree[Home[m]] = Package(m)}
Box == [m \in Message |-> Look(dest[Home[m]], m)]

LEMMA MergeHandsIn ==
  ASSUME OneJobEach, PostInv,
         NEW m \in Message, NEW f \in File \cup {Complete}, Merge(m, f)
  PROVE  \/ /\ collected' = collected \cup {m}
            /\ Whole' = Whole \cup {m}
         \/ UNCHANGED <<collected, Whole>>
<1> USE DEF PostInv, IInv, TypeOK
<1>1. CASE f = Complete
  <2>1. spool[m] = {Complete} /\ tree' = tree /\ collected' = collected \cup {m}
    BY <1>1 DEF Merge, MayMove
  <2>2. CASE m \in collected
    BY <2>1, <2>2 DEF Whole
  <2>3. CASE m \notin collected
    <3>1. m \in Message \ delivered
      BY <2>3 DEF OnlyCollected
    <3>2. \A g \in Parts[m] : g # Complete
      BY PackageAssumption
    <3>3. \A g \in Parts[m] : tree[Home[m]][g] = m
      BY <2>1, <3>1, <3>2 DEF Kept
    <3>4. tree[Home[m]] = Package(m)
      BY <3>1, <3>3, WholeTree
    <3>5. QED
      BY <2>1, <3>4 DEF Whole
  <2>4. QED
    BY <2>2, <2>3
<1>2. CASE f # Complete
  <2>1. /\ f \in Parts[m] /\ collected' = collected
        /\ tree' = [tree EXCEPT ![Home[m]][f] = m]
    BY <1>2 DEF Merge, SpoolShape
  <2>2. Home[m] \in Dir /\ tree[Home[m]] \in Content /\ f \in File
    BY <1>2, PackageAssumption
  <2>3. tree[Home[m]] = Package(m) => tree'[Home[m]] = Package(m)
    <3>1. SUFFICES ASSUME tree[Home[m]] = Package(m)
                   PROVE  tree'[Home[m]] = Package(m)
      OBVIOUS
    <3>2. tree'[Home[m]] = [tree[Home[m]] EXCEPT ![f] = m]
      BY <2>1, <2>2
    <3>3. Package(m)[f] = m
      BY <2>1, <2>2 DEF Package
    <3>4. QED
      BY <2>2, <3>1, <3>2, <3>3 DEF Content
  <2>4. ASSUME NEW n \in collected, n # m
        PROVE  tree'[Home[n]] = tree[Home[n]]
    <3>1. Home[n] # Home[m] /\ Home[n] \in Dir
      BY <2>4, PackageAssumption DEF OneJobEach
    <3>2. QED
      BY <2>1, <2>2, <3>1
  <2>5. QED
    BY <2>1, <2>3, <2>4 DEF Whole
<1>3. QED
  BY <1>1, <1>2

LEMMA UnlinkDiscards ==
  ASSUME OneJobEach, PostInv,
         NEW e \in File \cup {Complete, Published}, Unlink(e)
  PROVE  \/ \E m \in delivered : Whole' = Whole \ {m}
         \/ UNCHANGED Whole
<1> USE DEF PostInv, IInv, TypeOK
<1>1. collected' = collected
  BY DEF Unlink, scanVars
<1>2. CASE e \notin File
  BY <1>1, <1>2 DEF Unlink, Whole
<1>3. CASE e \in File
  <2>1. PICK m \in delivered : Home[m] = victim
    BY DEF Unlink, OnlySent, Sent
  <2>2. victim \in Dir /\ tree' = [tree EXCEPT ![victim][e] = None]
    BY <1>3 DEF Unlink
  <2>3. ASSUME NEW n \in collected, n # m
        PROVE  tree'[Home[n]] = tree[Home[n]]
    <3>1. Home[n] # victim /\ Home[n] \in Dir
      BY <2>1, <2>3, PackageAssumption DEF OneJobEach
    <3>2. QED
      BY <2>2, <3>1
  <2>4. tree'[victim] = Package(m) => tree[victim] = Package(m)
    <3>1. SUFFICES ASSUME tree'[victim] = Package(m), e \in Parts[m]
                   PROVE  FALSE
      <4>1. ASSUME e \notin Parts[m] PROVE tree'[victim] = tree[victim]
        <5>1. tree[victim] \in Content
          BY <2>2
        <5>2. tree[victim][e] = None
          BY <1>3, <2>1, <2>2, <4>1, <5>1, PackageAssumption
          DEF OwnFiles, OneJobEach, Content
        <5>3. tree'[victim] = [tree[victim] EXCEPT ![e] = None]
          BY <2>2
        <5>4. QED
          BY <1>3, <5>1, <5>2, <5>3 DEF Content
      <4>2. QED
        BY <4>1
    <3>2. tree'[victim][e] = None
      BY <1>3, <2>2 DEF Content
    <3>3. Package(m)[e] = m /\ m # None
      BY <1>3, <2>1, <3>1, PackageAssumption DEF Package
    <3>4. QED
      BY <3>1, <3>2, <3>3
  <2>5. Whole' = Whole \/ Whole' = Whole \ {m}
    BY <1>1, <2>1, <2>3, <2>4 DEF Whole
  <2>6. QED
    BY <2>5
<1>4. QED
  BY <1>2, <1>3

\* A look tells apart no package, a whole one and an empty directory.
LEMMA LookShape ==
  ASSUME NEW m \in Message
  PROVE  /\ Look(Absent, m) = "absent"
         /\ Look(Package(m), m) = "whole"
         /\ Look(Bare, m) = "empty"
         /\ \A c \in Content : Look(c, m) \in {"whole", "partial", "empty"}
<1>1. Bare \in Content /\ Package(m) # Bare /\ Package(m) \in Content
  BY BareType, PackageShape
<1>2. Package(m) # Absent /\ Bare # Absent /\ \A c \in Content : c # Absent
  BY <1>1, PackageShape
<1>3. QED
  BY <1>1, <1>2 DEF Look

\* The box changes where a directory does, if each message has its own.
LEMMA BoxChange ==
  ASSUME OneJobEach, TypeOK, NEW m \in Message, NEW c,
         dest' = [dest EXCEPT ![Home[m]] = c]
  PROVE  Box' = [Box EXCEPT ![m] = Look(c, m)]
<1>1. Home[m] \in Dir
  BY PackageAssumption
<1>2. \A n \in Message \ {m} : Home[n] \in Dir /\ Home[n] # Home[m]
  BY PackageAssumption DEF OneJobEach
<1>3. /\ dest'[Home[m]] = c
      /\ \A n \in Message \ {m} : dest'[Home[n]] = dest[Home[n]]
  BY <1>1, <1>2 DEF TypeOK
<1>4. Box' = [n \in Message |-> Look(dest'[Home[n]], n)]
  BY DEF Box, Look
<1>5. \A n \in Message :
        Look(dest'[Home[n]], n) = IF n = m THEN Look(c, m)
                                  ELSE Look(dest[Home[n]], n)
  BY <1>3
<1>6. QED
  BY <1>4, <1>5 DEF Box

LEMMA RenameDeliversOrNot ==
  ASSUME OneJobEach, PostInv, NEW p \in Pid, Rename(p)
  PROVE  \/ UNCHANGED <<collected, Whole, delivered, Box>>
         \/ \E m \in Message : Post!Deliver(m) \/ Post!DeliverAgain(m)
<1> USE DEF PostInv, IInv, TypeOK
<1>1. UNCHANGED <<collected, tree, Whole>>
  BY DEF Rename, scanVars, treeVars, Whole
<1>2. CASE ~MayRename(job[p])
  BY <1>1, <1>2 DEF Rename, shareVars, Box
<1>3. CASE MayRename(job[p])
  <2>1. PICK m \in collected : Home[m] = job[p]
    BY DEF Rename, WasComplete, Sent, OnlyCollected
  <2>2. /\ dest' = [dest EXCEPT ![Home[m]] = staging[p]]
        /\ delivered' = delivered \cup {n \in Message :
                          Home[n] = job[p] /\ staging[p] = Package(n)}
    BY <1>3, <2>1 DEF Rename
  <2>3. m \in Message /\ staging[p] \in Content
    OBVIOUS
  <2>4. Box' = [Box EXCEPT ![m] = Look(staging[p], m)]
    BY <2>2, <2>3, BoxChange
  <2>5. Box[m] = Look(dest[Home[m]], m)
    BY <2>3 DEF Box
  <2>6. CASE m \notin delivered
    <3>1. staging[p] = Package(m) /\ dest[Home[m]] = Absent
      BY <2>1, <2>3, <2>6, FirstCopy
    <3>2. m \in Whole \ delivered
      BY <2>1, <2>6, CollectedIsWhole DEF Whole
    <3>3. Box[m] = "absent" /\ Box' = [Box EXCEPT ![m] = "whole"]
      BY <2>3, <2>4, <2>5, <3>1, LookShape
    <3>4. delivered' = delivered \cup {m}
      BY <2>1, <2>2, <2>3, <3>1 DEF OneJobEach
    <3>5. Post!Deliver(m)
      BY <1>1, <3>2, <3>3, <3>4 DEF Post!Deliver, Whole, Box
    <3>6. QED
      BY <2>3, <3>5
  <2>7. CASE m \in delivered
    <3>1. Box[m] \in {"absent", "empty"}
      BY <1>3, <2>1, <2>3, <2>5, LookShape DEF MayRename
    <3>2. Look(staging[p], m) \in {"whole", "partial", "empty"}
      BY <2>3, LookShape
    <3>3. delivered' = delivered
      BY <2>1, <2>2, <2>3, <2>7 DEF OneJobEach
    <3>4. Post!DeliverAgain(m)
      BY <1>1, <2>4, <2>7, <3>1, <3>2, <3>3 DEF Post!DeliverAgain, Whole, Box
    <3>5. QED
      BY <2>3, <3>4
  <2>8. QED
    BY <2>6, <2>7
<1>4. QED
  BY <1>2, <1>3

LEMMA PostStep ==
  OneJobEach /\ PostInv /\ [Next]_vars => [Post!Next]_(Post!vars)
<1> SUFFICES ASSUME OneJobEach, PostInv, [Next]_vars
             PROVE  [Post!Next]_(Post!vars)
  OBVIOUS
<1>1. CASE UNCHANGED <<collected, Whole, delivered, Box>>
  BY <1>1 DEF Post!vars, Whole, Box
<1>2. CASE UNCHANGED <<collected, tree, delivered, dest>>
  <2>1. UNCHANGED <<collected, Whole, delivered, Box>>
    BY <1>2 DEF Whole, Box
  <2>2. QED
    BY <1>1, <2>1
<1>3. ASSUME NEW m \in Message, NEW f \in File \cup {Complete}, Merge(m, f)
      PROVE  [Post!Next]_(Post!vars)
  <2>1. UNCHANGED <<delivered, dest, Box>>
    BY <1>3 DEF Merge, shareVars, Box
  <2>2. CASE UNCHANGED <<collected, Whole>>
    BY <1>1, <2>1, <2>2
  <2>3. CASE collected' = collected \cup {m} /\ Whole' = Whole \cup {m}
    <3>1. Post!HandIn(m)
      BY <2>1, <2>3 DEF Post!HandIn, Whole, Box
    <3>2. QED
      BY <3>1 DEF Post!Next
  <2>4. QED
    BY <1>3, <2>2, <2>3, MergeHandsIn
<1>4. ASSUME NEW p \in Pid, Rename(p) PROVE [Post!Next]_(Post!vars)
  BY <1>1, <1>4, RenameDeliversOrNot DEF Post!Next
<1>5. ASSUME NEW e \in File \cup {Complete, Published}, Unlink(e)
      PROVE  [Post!Next]_(Post!vars)
  <2>1. UNCHANGED <<collected, delivered, dest, Box>>
    BY <1>5 DEF Unlink, scanVars, shareVars, Box
  <2>2. CASE UNCHANGED Whole
    BY <1>1, <2>1, <2>2
  <2>3. ASSUME NEW m \in delivered, Whole' = Whole \ {m}
        PROVE  [Post!Next]_(Post!vars)
    <3>1. Post!Discard(m)
      BY <2>1, <2>3 DEF Post!Discard, Whole, Box
    <3>2. m \in Message
      BY DEF PostInv, IInv, TypeOK
    <3>3. QED
      BY <3>1, <3>2 DEF Post!Next
  <2>4. QED
    BY <1>5, <2>2, <2>3, UnlinkDiscards
<1>6. ASSUME NEW d \in Dir, Consume(d) PROVE [Post!Next]_(Post!vars)
  <2>1. UNCHANGED <<collected, tree, delivered, Whole>>
    BY <1>6 DEF Consume, scanVars, treeVars, Whole
  <2>2. PICK m \in delivered : Home[m] = d
    BY <1>6 DEF PostInv, IInv, OnlySent, Sent, Consume
  <2>3. TypeOK /\ m \in Message
    BY DEF PostInv, IInv, TypeOK
  <2>4. dest' = [dest EXCEPT ![Home[m]] = Absent]
    BY <1>6, <2>2 DEF Consume
  <2>5. Box' = [Box EXCEPT ![m] = "absent"]
    BY <2>3, <2>4, BoxChange, LookShape
  <2>6. Post!Take(m)
    BY <2>1, <2>5 DEF Post!Take, Whole, Box
  <2>7. QED
    BY <2>3, <2>6 DEF Post!Next
<1>7. ASSUME NEW p \in Pid, Fire(p) \/ Publish(p) \/ Kill(p)
      PROVE  [Post!Next]_(Post!vars)
  BY <1>2, <1>4, <1>7
  DEF Fire, Publish, Kill, Found, Begin, CopyFile, Mark, JobFails, scanVars,
      treeVars, shareVars
<1>8. CASE Sweep
  BY <1>2, <1>5, <1>8
  DEF Sweep, Classify, CloseJob, SweepCut, OpenJob, scanVars, treeVars,
      shareVars
<1>9. CASE Outside
  BY <1>2, <1>6, <1>9
  DEF Outside, Age, Repush, ShareDown, ShareUp, scanVars, treeVars, shareVars
<1>10. ASSUME NEW m \in Message, Collect(m) PROVE [Post!Next]_(Post!vars)
  BY <1>2, <1>3, <1>10 DEF Collect, Scan, MergeCut, treeVars, shareVars
<1>11. CASE UNCHANGED vars
  BY <1>2, <1>11 DEF vars
<1>12. QED
  BY <1>7, <1>8, <1>9, <1>10, <1>11 DEF Next

\* Collect, publisher, sweep, kills, outages, re-scans and a consumer that
\* deletes what it took implement the parcels: held until delivered, first
\* seen whole, left alone until taken.
THEOREM Refinement ==
  ASSUME OneJobEach
  PROVE  Spec => ImplementsParcels
<1>1. Init => PostInv /\ Post!Init
  <2> SUFFICES ASSUME Init PROVE PostInv /\ Post!Init
    OBVIOUS
  <2>1. PostInv
    BY InductiveInit DEF PostInv, OnlyCollected, Init
  <2>2. \A m \in Message : Look(dest[Home[m]], m) = "absent"
    BY LookShape, PackageAssumption DEF Init
  <2>3. Post!Init
    BY <2>2 DEF Init, Post!Init
  <2>4. QED
    BY <2>1, <2>3
<1>2. PostInv /\ [Next]_vars => PostInv'
  BY InductiveStep, OnlyCollectedStep DEF PostInv
<1>3. PostInv /\ [Next]_vars => [Post!Next]_(Post!vars)
  BY PostStep
<1>4. QED
  BY <1>1, <1>2, <1>3, PTL DEF Spec, ImplementsParcels, Post!Spec
=============================================================================
