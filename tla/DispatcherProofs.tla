-------------------------- MODULE DispatcherProofs --------------------------
(***************************************************************************)
(* Proofs about Dispatcher, for every set of messages, every numbering of  *)
(* them, every number of attempts and workers, and every bound on faults.  *)
(***************************************************************************)
EXTENDS Dispatcher, TLAPS

\* The one-line helpers of the model are expanded everywhere.
USE DEF IsDone, MayRetry, AfterScan, Remembered

-----------------------------------------------------------------------------
(* The inductive invariant *)

\* Memory holds all of state.json from Start to Exit, so a save drops nothing.
MemoryHoldsFile == pc # "down" => stateFile \subseteq processed

\* Between passes nothing is pending, and only a drain gets to these steps.
PassShape ==
  /\ pc \in {"down", "connect", "search", "fetch", "wait"} => pending = {}
  /\ pc \in {"sift", "commit", "quarantine", "record", "mark"} => Draining
  /\ pc = "next" => ~Draining
  /\ pc \in {"deliver", "quarantine", "record", "mark"} => current \in pending
  /\ pc = "scan" /\ ~Draining => current \in pending

\* What a drain has still to commit is not on the done-list.
PendingIsNew ==
  Draining => \A u \in pending :
    <<uidValidity, u>> \in processed => pc = "mark" /\ u = current

\* The order of _commit: sinks or log line, then add, then the flag.
CommitOrder ==
  /\ pc = "record" => Disposals(CurrentKey) > 0
  /\ pc = "mark" => CurrentKey \in processed

\* A key has one disposal for each fault, plus one that is on record or is
\* about to be.
PaidFor ==
  \A k \in Key :
    Disposals(k) <= faults + (IF k \in stateFile \/ (pc = "record" /\ k = CurrentKey)
                              THEN 1 ELSE 0)

IInv ==
  /\ TypeOK /\ MemoryHoldsFile /\ PassShape /\ PendingIsNew /\ CommitOrder
  /\ DoneWasDisposed /\ FlaggedWasDisposed /\ PaidFor

-----------------------------------------------------------------------------
(* Type correctness *)

PassTypeOK ==
  /\ found \subseteq UID /\ messages \subseteq UID /\ pending \subseteq UID
  /\ attempt \in [UID -> 0..MaxAttempts]
  /\ outcome \in [UID -> {"none", "ok", "failed"}]
  /\ current \in UID \cup {NoUid}
  /\ post \in 0..WebhookAttempts

LEMMA ClearPassType == ClearPass => PassTypeOK'
  BY BoundAssumption DEF ClearPass, PassTypeOK

LEMMA FaultType == TypeOK /\ Fault => faults' \in 0..MaxFaults
  BY BoundAssumption DEF TypeOK, Fault

LEMMA CountType ==
  ASSUME NEW f \in [Key -> Nat], NEW k \in Key
  PROVE  [f EXCEPT ![k] = @ + 1] \in [Key -> Nat]
  OBVIOUS

\* What an exception, an exit or the end of a pass leaves behind.
LEMMA LeaveType ==
  ASSUME NEW held, held \subseteq Key, TypeOK, Exit \/ Raise(held) \/ Finish
  PROVE  /\ alive' \in BOOLEAN /\ pc' \in PCs /\ processed' \subseteq Key
         /\ PassTypeOK'
  BY ClearPassType DEF TypeOK, Exit, Raise, Finish, PCs

LEMMA TypeStep == IInv /\ [Next]_vars => TypeOK'
<1> SUFFICES ASSUME IInv, [Next]_vars PROVE TypeOK'
  OBVIOUS
<1> USE DEF IInv, TypeOK, mailVars, storeVars, listVars, scanVars, passVars,
            procVars
<1>1. CASE UNCHANGED vars
  BY <1>1 DEF vars
<1>2. CASE Environment
  <2>1. ASSUME NEW m \in Message, Arrive(m) \/ ClientTouches(m)
        PROVE  TypeOK'
    BY <2>1 DEF Arrive, ClientTouches
  <2>2. CASE Renumber
    <3>1. validity' \in Validity
      BY <2>2, UidAssumption DEF Renumber, Validity
    <3>2. QED
      BY <2>2, <3>1 DEF Renumber
  <2>3. CASE Drop
    BY <2>3, FaultType DEF Drop
  <2>4. QED
    BY <1>2, <2>1, <2>2, <2>3 DEF Environment
<1>3. CASE \E md \in Modes : Start(md)
  BY <1>3, BoundAssumption DEF Start, PCs
<1>4. CASE Crash \/ Stop
  BY <1>4, LeaveType, FaultType DEF Crash, Stop, PassTypeOK
<1>5. CASE ConnectFails \/ QuarantineFails \/ ReadFails
  <2>1. Raise(processed) /\ faults' \in 0..MaxFaults
    BY <1>5, FaultType DEF ConnectFails, QuarantineFails, ReadFails
  <2>2. QED
    BY <1>5, <2>1, LeaveType
    DEF ConnectFails, QuarantineFails, ReadFails, Raise, PassTypeOK
<1>6. CASE SaveFails
  <2>1. processed \cup {CurrentKey} \subseteq Key
    BY <1>6 DEF SaveFails, PassShape, CurrentKey, Key
  <2>2. QED
    BY <1>6, <2>1, LeaveType, FaultType DEF SaveFails, Raise, PassTypeOK
<1>7. CASE Connect \/ Wake
  BY <1>7 DEF Connect, Wake, PCs
<1>8. CASE Search
  <2>1. found' \subseteq UID
    BY <1>8, UidAssumption DEF Search, Searched
  <2>2. QED
    BY <1>8, <2>1 DEF Search, PCs
<1>9. CASE Fetch
  BY <1>9 DEF Fetch
<1>10. CASE Fetched
  BY <1>10 DEF Fetched, First, PCs
<1>11. CASE Sift
  BY <1>11 DEF Sift, MarkSeen, Owners, IsLeast
<1>12. CASE Sifted
  <2>1. CASE pending = {}
    BY <1>12, <2>1, LeaveType DEF Sifted, Finish, PassTypeOK
  <2>2. CASE pending # {}
    BY <1>12, <2>2 DEF Sifted, PCs
  <2>3. QED
    BY <2>1, <2>2
<1>13. CASE StartScan \/ ScanSucceeds \/ ScanFails \/ ScansDone
  BY <1>13, BoundAssumption
  DEF StartScan, ScanSucceeds, ScanFails, ScansDone, Running, IsLeast, PCs
<1>14. CASE Committed \/ RescanDone
  BY <1>14, LeaveType DEF Committed, RescanDone, Finish, PassTypeOK
<1>15. CASE Commit \/ RescanNext \/ Observe
  BY <1>15, BoundAssumption DEF Commit, RescanNext, Observe, IsLeast, PCs
<1>16. CASE Quarantine
  <2>1. CurrentKey \in Key
    BY <1>16 DEF Quarantine, PassShape, CurrentKey, Key
  <2>2. QED
    BY <1>16, <2>1, CountType DEF Quarantine, PCs
<1>17. CASE Deliver
  BY <1>17, BoundAssumption DEF Deliver, Delivered, Owners, PCs
<1>18. CASE Record
  BY <1>18 DEF Record, PassShape, CurrentKey, Key, PCs
<1>19. CASE Mark
  BY <1>19 DEF Mark, MarkSeen, Owners, PCs
<1>20. QED
  BY <1>1, <1>2, <1>3, <1>4, <1>5, <1>6, <1>7, <1>8, <1>9, <1>10, <1>11,
     <1>12, <1>13, <1>14, <1>15, <1>16, <1>17, <1>18, <1>19
  DEF Next, Disturbance, Step

-----------------------------------------------------------------------------
(* The shape of a pass, and memory against the file *)

\* The actions on which a pass ends, by an exception, an exit or in order.
Leave ==
  \/ Crash \/ Stop \/ ConnectFails \/ QuarantineFails \/ SaveFails \/ ReadFails
  \/ Committed \/ RescanDone \/ (Sifted /\ pending = {})

\* Leaving empties the pass and keeps the file; memory goes with the process
\* or is kept, with the key a failed save was about added to it.
LEMMA LeaveEffect ==
  ASSUME Leave
  PROVE  /\ pc' \in {"down", "connect", "wait"} /\ pending' = {}
         /\ mode' = mode /\ uidValidity' = uidValidity
         /\ \/ pc' = "down" /\ processed' = {}
            \/ pc' # "down" /\ pc # "down"
               /\ \/ processed' = processed
                  \/ SaveFails /\ processed' = processed \cup {CurrentKey}
         /\ UNCHANGED <<stateFile, quarantineLog, handed, flagged>>
         /\ faults' \in {faults, faults + 1}
  BY DEF Leave, Crash, Stop, ConnectFails, QuarantineFails, SaveFails,
         ReadFails, Committed, RescanDone, Sifted, Exit, Raise, Finish,
         ClearPass, Fault, mailVars, storeVars

LEMMA MemoryStep == IInv /\ [Next]_vars => MemoryHoldsFile'
<1> SUFFICES ASSUME IInv, [Next]_vars PROVE MemoryHoldsFile'
  OBVIOUS
<1> USE DEF IInv, MemoryHoldsFile, storeVars
<1>1. CASE Leave
  BY <1>1, LeaveEffect
<1>2. CASE \E md \in Modes : Start(md)
  BY <1>2 DEF Start
<1>3. CASE Record
  BY <1>3 DEF Record
<1>4. CASE UNCHANGED vars \/ Environment \/ (Step /\ ~Leave /\ ~Record)
  <2>1. UNCHANGED <<processed, stateFile>> /\ (pc' # "down" => pc # "down")
    BY <1>4
    DEF vars, Environment, Arrive, ClientTouches, Renumber, Drop, Step, Leave,
        Connect, Wake, Search, Fetch, Fetched, Sift, Sifted, StartScan,
        ScanSucceeds, ScanFails, ScansDone, Commit, Quarantine, Deliver,
        Delivered, Mark, RescanNext, Observe
  <2>2. QED
    BY <2>1
<1>5. QED
  BY <1>1, <1>2, <1>3, <1>4 DEF Next, Disturbance, Leave

LEMMA ShapeStep == IInv /\ [Next]_vars => PassShape'
<1> SUFFICES ASSUME IInv, [Next]_vars PROVE PassShape'
  OBVIOUS
<1> USE DEF IInv, PassShape, Draining, passVars, listVars, procVars
<1>1. CASE Leave
  BY <1>1, LeaveEffect
<1>2. CASE UNCHANGED vars \/ Environment \/ \E md \in Modes : Start(md)
  BY <1>2 DEF vars, Environment, Arrive, ClientTouches, Renumber, Drop, Start
<1>3. CASE Connect \/ Wake \/ Search \/ Fetch \/ Fetched
  BY <1>3 DEF Connect, Wake, Search, Fetch, Fetched
<1>4. CASE Sift \/ (Sifted /\ ~Leave)
  BY <1>4 DEF Sift, Sifted, Leave
<1>5. CASE StartScan \/ ScanSucceeds \/ ScanFails \/ ScansDone
  BY <1>5 DEF StartScan, ScanSucceeds, ScanFails, ScansDone
<1>6. CASE Commit \/ Quarantine \/ Record \/ Mark
  BY <1>6 DEF Commit, Quarantine, Record, Mark, IsLeast
<1>7. CASE Deliver
  BY <1>7 DEF Deliver, Delivered
<1>8. CASE RescanNext \/ Observe
  BY <1>8 DEF RescanNext, Observe, IsLeast
<1>9. QED
  BY <1>1, <1>2, <1>3, <1>4, <1>5, <1>6, <1>7, <1>8
  DEF Next, Disturbance, Step, Leave

-----------------------------------------------------------------------------
(* Disposals: where they happen, and what they count *)

\* Only the log line of Quarantine and the last step of Deliver in a drain
\* dispose of a key, the current one, which is not yet on the done-list.
LEMMA DisposalEffect ==
  ASSUME IInv, Quarantine \/ Deliver
  PROVE  \/ pc' # "record" /\ UNCHANGED <<handed, quarantineLog>>
         \/ /\ pc' = "record" /\ CurrentKey \in Key
            /\ CurrentKey' = CurrentKey /\ CurrentKey \notin processed
            /\ \A k \in Key :
                 Disposals(k)' = Disposals(k) + (IF k = CurrentKey THEN 1 ELSE 0)
<1> USE DEF IInv, TypeOK, PassShape, CurrentKey
<1>1. pc' = "record" => CurrentKey \in Key
  BY DEF Quarantine, Deliver, Delivered, Key
<1>2. pc' = "record" => CurrentKey' = CurrentKey
  BY DEF Quarantine, Deliver, Delivered, passVars, procVars
<1>3. pc' = "record" => CurrentKey \notin processed
  BY DEF Quarantine, Deliver, Delivered, PendingIsNew
<1>4. CASE Quarantine
  <2>1. \A k \in Key :
          Disposals(k)' = Disposals(k) + (IF k = CurrentKey THEN 1 ELSE 0)
    BY <1>4 DEF Quarantine, Disposals
  <2>2. QED
    BY <1>1, <1>2, <1>3, <1>4, <2>1 DEF Quarantine
<1>5. CASE Deliver /\ pc' = "record"
  <2>1. \A k \in Key :
          Disposals(k)' = Disposals(k) + (IF k = CurrentKey THEN 1 ELSE 0)
    BY <1>5 DEF Deliver, Delivered, Disposals, storeVars
  <2>2. QED
    BY <1>1, <1>2, <1>3, <1>5, <2>1
<1>6. CASE Deliver /\ pc' # "record"
  BY <1>6 DEF Deliver, Delivered, storeVars
<1>7. QED
  BY <1>4, <1>5, <1>6

\* Every other step leaves the counts alone.
LEMMA OtherEffect ==
  ASSUME [Next]_vars, ~Quarantine, ~Deliver
  PROVE  UNCHANGED <<handed, quarantineLog>>
<1> USE DEF storeVars
<1>1. CASE Leave
  BY <1>1, LeaveEffect
<1>2. CASE UNCHANGED vars \/ Environment \/ \E md \in Modes : Start(md)
  BY <1>2 DEF vars, Environment, Arrive, ClientTouches, Renumber, Drop, Start
<1>3. CASE Step /\ ~Leave
  BY <1>3
  DEF Step, Leave, Connect, Wake, Search, Fetch, Fetched, Sift, Sifted,
      StartScan, ScanSucceeds, ScanFails, ScansDone, Commit, Record, Mark,
      RescanNext, Observe
<1>4. QED
  BY <1>1, <1>2, <1>3 DEF Next, Disturbance, Leave

LEMMA DisposalsGrow ==
  ASSUME IInv, [Next]_vars, NEW k \in Key
  PROVE  Disposals(k)' >= Disposals(k)
<1>1. Disposals(k) \in Nat
  BY DEF IInv, TypeOK, Disposals
<1>2. CASE UNCHANGED <<handed, quarantineLog>>
  BY <1>1, <1>2 DEF Disposals
<1>3. QED
  BY <1>1, <1>2, DisposalEffect, OtherEffect

-----------------------------------------------------------------------------
(* The order of _commit *)

LEMMA PendingStep == IInv /\ [Next]_vars => PendingIsNew'
<1> SUFFICES ASSUME IInv, [Next]_vars, Draining', NEW u \in pending',
                    <<uidValidity', u>> \in processed'
             PROVE  pc' = "mark" /\ u = current'
  BY DEF PendingIsNew
<1> USE DEF IInv, PendingIsNew, PassShape, Draining, procVars, storeVars,
            listVars, passVars
<1>1. CASE Leave
  BY <1>1, LeaveEffect
<1>2. CASE UNCHANGED vars \/ Environment
  BY <1>2 DEF vars, Environment, Arrive, ClientTouches, Renumber, Drop
<1>3. CASE (\E md \in Modes : Start(md)) \/ Connect
  BY <1>3 DEF Start, Connect
<1>4. CASE Wake \/ Search \/ Fetch \/ Fetched
  BY <1>4 DEF Wake, Search, Fetch, Fetched
<1>5. CASE Sift
  BY <1>5 DEF Sift
<1>6. CASE (Sifted /\ ~Leave) \/ StartScan \/ ScanSucceeds \/ ScanFails
           \/ ScansDone \/ Commit \/ Quarantine
  BY <1>6
  DEF Leave, Sifted, StartScan, ScanSucceeds, ScanFails, ScansDone, Commit,
      Quarantine
<1>7. CASE Deliver
  BY <1>7 DEF Deliver, Delivered
<1>8. CASE Record
  BY <1>8 DEF Record, CurrentKey
<1>9. CASE Mark
  BY <1>9 DEF Mark
<1>10. CASE RescanNext \/ Observe
  BY <1>10 DEF RescanNext, Observe
<1>11. QED
  BY <1>1, <1>2, <1>3, <1>4, <1>5, <1>6, <1>7, <1>8, <1>9, <1>10
  DEF Next, Disturbance, Step, Leave

LEMMA CommitStep == IInv /\ [Next]_vars => CommitOrder'
<1> SUFFICES ASSUME IInv, [Next]_vars PROVE CommitOrder'
  OBVIOUS
<1> USE DEF IInv, CommitOrder
<1>1. CASE Quarantine \/ Deliver
  <2>1. pc' # "mark"
    BY <1>1 DEF Quarantine, Deliver, Delivered
  <2>2. ASSUME pc' = "record" PROVE Disposals(CurrentKey)' > 0
    <3>1. Disposals(CurrentKey) \in Nat /\ CurrentKey \in Key
      BY <1>1, <2>2, DisposalEffect DEF TypeOK, Disposals
    <3>2. Disposals(CurrentKey)' = Disposals(CurrentKey) + 1
      BY <1>1, <2>2, DisposalEffect DEF Disposals
    <3>3. QED
      BY <3>1, <3>2
  <2>3. QED
    BY <2>1, <2>2
<1>2. CASE Record
  BY <1>2 DEF Record, CurrentKey, procVars, passVars
<1>3. CASE UNCHANGED vars \/ Environment
  BY <1>3
  DEF vars, Environment, Arrive, ClientTouches, Renumber, Drop, CurrentKey,
      Disposals, procVars, passVars, storeVars
<1>4. CASE Leave
  BY <1>4, LeaveEffect
<1>5. CASE \/ \E md \in Modes : Start(md)
           \/ Step /\ ~Leave /\ ~Quarantine /\ ~Deliver /\ ~Record
  BY <1>5
  DEF Start, Step, Leave, Connect, Wake, Search, Fetch, Fetched, Sift, Sifted,
      StartScan, ScanSucceeds, ScanFails, ScansDone, Commit, Mark, RescanNext,
      Observe
<1>6. QED
  BY <1>1, <1>2, <1>3, <1>4, <1>5 DEF Next, Disturbance, Leave

LEMMA DoneStep == IInv /\ [Next]_vars => DoneWasDisposed'
<1> SUFFICES ASSUME IInv, [Next]_vars, NEW k \in stateFile' \cup processed'
             PROVE  Disposals(k)' > 0
  BY DEF DoneWasDisposed
<1>1. k \in Key
  BY TypeStep DEF TypeOK
<1>2. Disposals(k) > 0
  <2>1. CASE k \in stateFile \cup processed
    BY <2>1 DEF IInv, DoneWasDisposed
  <2>2. CASE k \notin stateFile \cup processed
    <3>1. (Record \/ SaveFails) /\ k = CurrentKey
      <4>1. CASE Leave
        BY <2>2, <4>1, LeaveEffect
      <4>2. CASE Record
        BY <2>2, <4>2 DEF Record
      <4>3. CASE UNCHANGED vars \/ Environment \/ (\E md \in Modes : Start(md))
                 \/ (Step /\ ~Leave /\ ~Record)
        BY <2>2, <4>3
        DEF vars, Environment, Arrive, ClientTouches, Renumber, Drop, Start,
            Step, Leave, Connect, Wake, Search, Fetch, Fetched, Sift, Sifted,
            StartScan, ScanSucceeds, ScanFails, ScansDone, Commit, Quarantine,
            Deliver, Delivered, Mark, RescanNext, Observe, storeVars
      <4>4. QED
        BY <4>1, <4>2, <4>3 DEF Next, Disturbance, Leave
    <3>2. QED
      BY <3>1 DEF IInv, CommitOrder, Record, SaveFails
  <2>3. QED
    BY <2>1, <2>2
<1>3. Disposals(k) \in Nat /\ Disposals(k)' \in Nat
  BY <1>1, TypeStep DEF IInv, TypeOK, Disposals
<1>4. QED
  BY <1>1, <1>2, <1>3, DisposalsGrow

-----------------------------------------------------------------------------
(* The \Seen flag *)

\* A STORE only hits messages whose key, as the connection numbers them, is
\* on the done-list.
LEMMA StoreEffect ==
  ASSUME IInv, Sift \/ Mark, NEW m \in flagged' \ flagged
  PROVE  <<uidValidity, UidOf[uidValidity][m]>> \in processed
<1> USE DEF IInv, CommitOrder, CurrentKey, MarkSeen, Owners
<1>1. CASE Sift
  BY <1>1 DEF Sift
<1>2. CASE Mark
  BY <1>2 DEF Mark
<1>3. QED
  BY <1>1, <1>2

\* Only a sift or a mark sets a flag.
LEMMA FlagSteps ==
  ASSUME [Next]_vars, NEW m \in flagged' \ flagged
  PROVE  Sift \/ Mark
<1>1. CASE Leave
  BY <1>1, LeaveEffect
<1>2. CASE UNCHANGED vars \/ Environment \/ (\E md \in Modes : Start(md))
  BY <1>2
  DEF vars, Environment, Arrive, ClientTouches, Renumber, Drop, Start,
      mailVars
<1>3. CASE Step /\ ~Leave
  BY <1>3
  DEF Step, Leave, Connect, Wake, Search, Fetch, Fetched, Sifted,
      StartScan, ScanSucceeds, ScanFails, ScansDone, Commit, Quarantine,
      Deliver, Record, RescanNext, Observe, mailVars
<1>4. QED
  BY <1>1, <1>2, <1>3 DEF Next, Disturbance, Leave

LEMMA FlaggedStep == IInv /\ [Next]_vars => FlaggedWasDisposed'
<1> SUFFICES ASSUME IInv, [Next]_vars, NEW m \in flagged'
             PROVE  Disposed(m)'
  BY DEF FlaggedWasDisposed
<1>1. m \in Message /\ KeysOf(m) \subseteq Key
  BY TypeStep, UidAssumption DEF TypeOK, KeysOf, Key
<1>2. Disposed(m)
  <2>1. CASE m \in flagged
    BY <2>1 DEF IInv, FlaggedWasDisposed
  <2>2. CASE m \notin flagged
    <3>1. Sift \/ Mark
      BY <2>2, FlagSteps
    <3>2. <<uidValidity, UidOf[uidValidity][m]>> \in processed
      BY <2>2, <3>1, StoreEffect
    <3>3. <<uidValidity, UidOf[uidValidity][m]>> \in KeysOf(m)
      BY DEF IInv, TypeOK, KeysOf
    <3>4. QED
      BY <3>2, <3>3 DEF IInv, DoneWasDisposed, Disposed
  <2>3. QED
    BY <2>1, <2>2
<1>3. \A k \in Key : Disposals(k) \in Nat /\ Disposals(k)' \in Nat
  BY TypeStep DEF IInv, TypeOK, Disposals
<1>4. PICK k \in KeysOf(m) : Disposals(k) > 0
  BY <1>2 DEF Disposed
<1>5. Disposals(k)' > 0
  BY <1>1, <1>3, <1>4, DisposalsGrow
<1>6. QED
  BY <1>5 DEF Disposed, KeysOf

-----------------------------------------------------------------------------
(* Duplicates are paid for *)

LEMMA PaidStep == IInv /\ [Next]_vars => PaidFor'
<1> DEFINE Credit(k) ==
      IF k \in stateFile \/ (pc = "record" /\ k = CurrentKey) THEN 1 ELSE 0
<1> SUFFICES ASSUME IInv, [Next]_vars, NEW k \in Key
             PROVE  Disposals(k)' <= faults' + Credit(k)'
  BY DEF PaidFor
<1>1. Disposals(k) <= faults + Credit(k)
  BY DEF IInv, PaidFor
<1>2. /\ Disposals(k) \in Nat /\ Disposals(k)' \in Nat
      /\ faults \in Nat /\ faults' \in Nat
  BY TypeStep, BoundAssumption DEF IInv, TypeOK, Disposals
<1>3. CASE Quarantine \/ Deliver
  <2>1. faults' = faults /\ stateFile' = stateFile
    BY <1>3 DEF Quarantine, Deliver, storeVars
  <2>2. CASE pc' # "record"
    <3>1. Disposals(k)' = Disposals(k)
      BY <1>3, <2>2, DisposalEffect DEF Disposals
    <3>2. Credit(k)' = Credit(k)
      BY <1>3, <2>1, <2>2 DEF Quarantine, Deliver
    <3>3. QED
      BY <1>1, <2>1, <3>1, <3>2
  <2>3. CASE pc' = "record" /\ k = CurrentKey
    <3>1. Credit(k) = 0
      BY <1>3, <2>3, DisposalEffect
      DEF Quarantine, Deliver, IInv, MemoryHoldsFile
    <3>2. Disposals(k)' = Disposals(k) + 1 /\ Credit(k)' = 1
      BY <1>3, <2>3, DisposalEffect
    <3>3. QED
      BY <1>1, <1>2, <2>1, <3>1, <3>2
  <2>4. CASE pc' = "record" /\ k # CurrentKey
    <3>1. Disposals(k)' = Disposals(k)
      BY <1>2, <1>3, <2>4, DisposalEffect
    <3>2. Credit(k)' = Credit(k)
      BY <1>3, <2>1, <2>4, DisposalEffect
    <3>3. QED
      BY <1>1, <2>1, <3>1, <3>2
  <2>5. QED
    BY <2>2, <2>3, <2>4
<1>4. CASE Record
  <2>1. faults' = faults /\ Credit(k)' >= Credit(k)
    <3>1. CurrentKey \notin processed
      BY <1>4 DEF Record, IInv, PassShape, PendingIsNew, CurrentKey
    <3>2. stateFile \subseteq stateFile' /\ CurrentKey \in stateFile'
      BY <1>4, <3>1 DEF Record, IInv, MemoryHoldsFile, CurrentKey
    <3>3. pc = "record" /\ faults' = faults
      BY <1>4 DEF Record
    <3>4. QED
      BY <3>2, <3>3
  <2>2. Disposals(k)' = Disposals(k)
    BY <1>4, OtherEffect DEF Disposals, Record, Quarantine, Deliver
  <2>3. QED
    BY <1>1, <1>2, <2>1, <2>2
<1>5. CASE Leave
  <2>1. Disposals(k)' = Disposals(k)
    BY <1>5, LeaveEffect DEF Disposals
  <2>2. CASE pc = "record"
    <3>1. faults' = faults + 1 /\ stateFile' = stateFile
      BY <1>5, <2>2, LeaveEffect
      DEF Leave, Crash, Stop, ConnectFails, QuarantineFails, SaveFails,
          ReadFails, Committed, RescanDone, Sifted, Fault
    <3>2. Credit(k)' >= 0 /\ Credit(k) <= 1
      OBVIOUS
    <3>3. QED
      BY <1>1, <1>2, <2>1, <3>1, <3>2
  <2>3. CASE pc # "record"
    <3>1. Credit(k)' = Credit(k)
      BY <1>5, <2>3, LeaveEffect
    <3>2. QED
      BY <1>1, <1>2, <1>5, <2>1, <3>1, LeaveEffect
  <2>4. QED
    BY <2>2, <2>3
<1>6. CASE UNCHANGED vars \/ Environment
  <2>1. Disposals(k)' = Disposals(k) /\ Credit(k)' = Credit(k)
    BY <1>6
    DEF vars, Environment, Arrive, ClientTouches, Renumber, Drop, Disposals,
        CurrentKey, storeVars, procVars, passVars
  <2>2. faults' >= faults
    BY <1>2, <1>6
    DEF vars, Environment, Arrive, ClientTouches, Renumber, Drop, Fault
  <2>3. QED
    BY <1>1, <1>2, <2>1, <2>2
<1>7. CASE \/ \E md \in Modes : Start(md)
           \/ Step /\ ~Leave /\ ~Quarantine /\ ~Deliver /\ ~Record
  <2>1. Disposals(k)' = Disposals(k)
    BY <1>7, OtherEffect DEF Disposals, Start, Quarantine, Deliver
  <2>2. /\ faults' = faults /\ stateFile' = stateFile
        /\ pc # "record" /\ pc' # "record"
    BY <1>7
    DEF Start, Step, Leave, Connect, Wake, Search, Fetch, Fetched, Sift, Sifted,
        StartScan, ScanSucceeds, ScanFails, ScansDone, Commit, Mark, RescanNext,
        Observe, storeVars
  <2>3. QED
    BY <1>1, <2>1, <2>2
<1>8. QED
  BY <1>3, <1>4, <1>5, <1>6, <1>7 DEF Next, Disturbance, Leave

-----------------------------------------------------------------------------
(* The theorems *)

LEMMA InitIInv == Init => IInv
<1> SUFFICES ASSUME Init PROVE IInv
  OBVIOUS
<1> USE DEF Init
<1>1. TypeOK
  <2>1. 1 \in Validity /\ 0 \in 0..MaxFaults
    BY UidAssumption, BoundAssumption DEF Validity
  <2>2. PassTypeOK
    BY BoundAssumption DEF PassTypeOK
  <2>3. QED
    BY <2>1, <2>2 DEF TypeOK, PassTypeOK, PCs, DrainModes
<1>2. \A k \in Key : Disposals(k) = 0
  BY DEF Disposals
<1>3. PaidFor
  BY <1>2 DEF PaidFor
<1>4. QED
  BY <1>1, <1>3
  DEF IInv, MemoryHoldsFile, PassShape, PendingIsNew, CommitOrder,
      DoneWasDisposed, FlaggedWasDisposed

LEMMA StepIInv == IInv /\ [Next]_vars => IInv'
  BY TypeStep, MemoryStep, ShapeStep, PendingStep, CommitStep, DoneStep,
     FlaggedStep, PaidStep
  DEF IInv

THEOREM Inductive == Spec => []IInv
  BY InitIInv, StepIInv, PTL DEF Spec

\* Every variable keeps its type: state.py and runner.py under any number of
\* crashes, restarts and failed calls.
THEOREM TypeCorrect == Spec => []TypeOK
  BY Inductive, PTL DEF IInv

\* Nothing is on the done-list, in memory or in state.json, that was not
\* first given to the sinks or written to quarantine.log (_commit's order).
THEOREM DoneIsDisposed == Spec => []DoneWasDisposed
  BY Inductive, PTL DEF IInv

\* The dispatcher sets \Seen only on messages that were themselves disposed
\* of, whatever the server did to UIDVALIDITY (_mark_seen, drain_once).
THEOREM FlaggedIsDisposed == Spec => []FlaggedWasDisposed
  BY Inductive, PTL DEF IInv

\* One key is disposed of at most once more than there were faults: the
\* at-least-once of runner.py's docstring costs a duplicate only per fault.
THEOREM DuplicatesArePaidFor == Spec => []DuplicatesNeedFaults
<1>1. IInv => DuplicatesNeedFaults
  <2> SUFFICES ASSUME IInv, NEW k \in Key
               PROVE  Disposals(k) <= 1 + faults
    BY DEF DuplicatesNeedFaults
  <2>1. Disposals(k) \in Nat /\ faults \in Nat
    BY BoundAssumption DEF IInv, TypeOK, Disposals
  <2>2. QED
    BY <2>1 DEF IInv, PaidFor
<1>2. QED
  BY <1>1, Inductive, PTL

\* state.json only grows: no save, failed save, crash or restart drops a key
\* that was in it (ProcessedState._save writes all of memory).
THEOREM FileOnlyGrows == Spec => DoneListOnlyGrows
<1>1. IInv /\ [Next]_vars => [stateFile \subseteq stateFile']_vars
  <2> SUFFICES ASSUME IInv, [Next]_vars PROVE stateFile \subseteq stateFile'
    OBVIOUS
  <2>1. CASE Record
    BY <2>1 DEF Record, IInv, MemoryHoldsFile
  <2>2. CASE Leave
    BY <2>2, LeaveEffect
  <2>3. CASE UNCHANGED vars \/ Environment \/ (\E md \in Modes : Start(md))
             \/ (Step /\ ~Leave /\ ~Record)
    BY <2>3
    DEF vars, Environment, Arrive, ClientTouches, Renumber, Drop, Start, Step,
        Leave, Connect, Wake, Search, Fetch, Fetched, Sift, Sifted, StartScan,
        ScanSucceeds, ScanFails, ScansDone, Commit, Quarantine, Deliver,
        Delivered, Mark, RescanNext, Observe, storeVars
  <2>4. QED
    BY <2>1, <2>2, <2>3 DEF Next, Disturbance, Leave
<1>2. QED
  BY <1>1, Inductive, PTL DEF Spec, DoneListOnlyGrows

\* What a step flags was in memory before, under a key of that message.
LEMMA FlagsFromMemory ==
  ASSUME IInv, [Next]_vars, NEW m \in flagged' \ flagged
  PROVE  KeysOf(m) \cap processed # {} /\ stateFile \subseteq stateFile'
<1>1. Sift \/ Mark
  BY FlagSteps
<1>2. <<uidValidity, UidOf[uidValidity][m]>> \in processed
  BY <1>1, StoreEffect
<1>3. <<uidValidity, UidOf[uidValidity][m]>> \in KeysOf(m)
  BY DEF IInv, TypeOK, KeysOf
<1>4. stateFile' = stateFile
  BY <1>1 DEF Sift, Mark, storeVars
<1>5. QED
  BY <1>2, <1>3, <1>4

\* As long as memory is not ahead of state.json (only a failed save takes it
\* there: ProcessedState.add), what the dispatcher flags is in state.json.
THEOREM FlagsAreSaved ==
  Spec => [][processed \subseteq stateFile =>
               \A m \in flagged' \ flagged : KeysOf(m) \cap stateFile' # {}]_vars
<1>1. IInv /\ [Next]_vars =>
        [processed \subseteq stateFile =>
           \A m \in flagged' \ flagged : KeysOf(m) \cap stateFile' # {}]_vars
  BY FlagsFromMemory
<1>2. QED
  BY <1>1, Inductive, PTL DEF Spec

\* Without a fault memory is never ahead, and every flag is on record.
Quiet ==
  faults = 0 => processed \subseteq stateFile /\ FlaggedIsRecorded

LEMMA QuietStep == IInv /\ Quiet /\ [Next]_vars => Quiet'
<1> SUFFICES ASSUME IInv, Quiet, [Next]_vars, faults' = 0
             PROVE  /\ processed' \subseteq stateFile'
                    /\ FlaggedIsRecorded'
  BY DEF Quiet
<1>1. faults = 0 /\ processed' \subseteq stateFile'
                /\ stateFile \subseteq stateFile'
  <2>1. faults \in Nat
    BY BoundAssumption DEF IInv, TypeOK
  <2>2. CASE Leave
    <3>1. ~SaveFails
      BY <2>1 DEF SaveFails, Fault
    <3>2. QED
      BY <2>1, <2>2, <3>1, LeaveEffect DEF Quiet
  <2>3. CASE Record
    BY <2>3
    DEF Record, IsDone, Remembered, CurrentKey, Quiet, IInv, MemoryHoldsFile
  <2>4. CASE UNCHANGED vars \/ Environment \/ (\E md \in Modes : Start(md))
    BY <2>1, <2>4
    DEF vars, Environment, Arrive, ClientTouches, Renumber, Drop, Fault, Start,
        storeVars, Quiet
  <2>5. CASE Step /\ ~Leave /\ ~Record
    BY <2>5
    DEF Step, Leave, Connect, Wake, Search, Fetch, Fetched, Sift, Sifted,
        StartScan, ScanSucceeds, ScanFails, ScansDone, Commit, Quarantine,
        Deliver, Mark, RescanNext, Observe, storeVars, procVars, Quiet
  <2>6. QED
    BY <2>2, <2>3, <2>4, <2>5 DEF Next, Disturbance, Leave
<1>2. FlaggedIsRecorded'
  <2>1. ASSUME NEW m \in flagged' PROVE KeysOf(m) \cap stateFile' # {}
    <3>1. CASE m \in flagged
      BY <1>1, <3>1 DEF Quiet, FlaggedIsRecorded
    <3>2. CASE m \notin flagged
      BY <1>1, <3>2, FlagsFromMemory DEF Quiet
    <3>3. QED
      BY <3>1, <3>2
  <2>2. QED
    BY <2>1 DEF FlaggedIsRecorded, KeysOf
<1>3. QED
  BY <1>1, <1>2

\* It takes a fault for a flag that state.json knows nothing of (state.py: "The
\* state file is the authority").
THEOREM QuietFlagsAreRecorded == Spec => [](faults = 0 => FlaggedIsRecorded)
<1>1. Init => Quiet
  BY DEF Init, Quiet, FlaggedIsRecorded
<1>2. Quiet => (faults = 0 => FlaggedIsRecorded)
  BY DEF Quiet
<1>3. QED
  BY <1>1, <1>2, QuietStep, Inductive, PTL DEF Spec

\* A re-scan, with or without webhooks, changes no record of the live loop:
\* not state.json, not quarantine.log, not a \Seen flag (Runner.rescan), also
\* when it is interrupted, fails, or meets a renumbered mailbox.
THEOREM RescanLeavesNoTrace == Spec => RescanWritesNothing
<1>1. ASSUME IInv, [Next]_vars, pc # "down", ~Draining
      PROVE  UNCHANGED <<stateFile, quarantineLog, flagged, handed>>
  <2>1. pc \notin {"sift", "commit", "quarantine", "record", "mark"}
    BY <1>1 DEF IInv, PassShape
  <2>2. CASE Environment
    BY <2>2 DEF Environment, Arrive, ClientTouches, Renumber, Drop, mailVars, storeVars
  <2>3. CASE Leave
    BY <2>1, <2>3
    DEF Leave, Crash, Stop, ConnectFails, QuarantineFails, SaveFails, ReadFails,
        Committed, Sifted, RescanDone, Finish, mailVars, storeVars
  <2>4. CASE Step /\ ~Leave
    BY <1>1, <2>1, <2>4
    DEF Step, Leave, Connect, Wake, Search, Fetch, Fetched, Sift, Sifted, StartScan,
        ScanSucceeds, ScanFails, ScansDone, Commit, Quarantine, Deliver, Delivered,
        Record, Mark, RescanNext, Observe, mailVars, storeVars
  <2>5. CASE UNCHANGED vars \/ \E md \in Modes : Start(md)
    BY <1>1, <2>5 DEF vars, Start
  <2>6. QED
    BY <1>1, <2>2, <2>3, <2>4, <2>5 DEF Next, Disturbance, Leave
<1>2. QED
  BY <1>1, Inductive, PTL DEF Spec, RescanWritesNothing

-----------------------------------------------------------------------------
(* The dispatcher implements the at-least-once queue *)

LEMMA QueueStep == IInv /\ IInv' /\ [Next]_vars => [Queue!Next]_(Queue!vars)
<1> SUFFICES ASSUME IInv, IInv', [Next]_vars
             PROVE  Queue!Next \/ UNCHANGED Queue!vars
  OBVIOUS
<1> DEFINE count == [k \in Key |-> Disposals(k)]
<1>1. CASE Quarantine \/ Deliver
  <2>1. UNCHANGED <<stateFile, faults>>
    BY <1>1 DEF Quarantine, Deliver, storeVars
  <2>2. CASE pc' # "record"
    <3>1. count' = count
      BY <1>1, <2>2, DisposalEffect DEF Disposals
    <3>2. QED
      BY <2>1, <3>1 DEF Queue!vars
  <2>3. CASE pc' = "record"
    <3>1. CurrentKey \in Key /\ CurrentKey \notin stateFile
      BY <1>1, <2>3, DisposalEffect DEF Quarantine, Deliver, IInv, MemoryHoldsFile
    <3>2. count[CurrentKey] <= faults
      BY <1>1, <3>1 DEF Quarantine, Deliver, IInv, PaidFor, TypeOK
    <3>3. \A k \in Key :
            Disposals(k)' = IF k = CurrentKey THEN Disposals(k) + 1
                                              ELSE Disposals(k)
      <4>1. \A k \in Key : Disposals(k) \in Nat
        BY DEF IInv, TypeOK, Disposals
      <4>2. QED
        BY <1>1, <2>3, <4>1, DisposalEffect
    <3>4. count' = [count EXCEPT ![CurrentKey] = @ + 1]
      BY <3>1, <3>3
    <3>5. Queue!Dispose(CurrentKey)
      BY <2>1, <3>1, <3>2, <3>4 DEF Queue!Dispose
    <3>6. QED
      BY <3>1, <3>5 DEF Queue!Next
  <2>4. QED
    BY <2>2, <2>3
<1>2. CASE ~Quarantine /\ ~Deliver
  <2>1. count' = count
    BY <1>2, OtherEffect DEF Disposals
  <2>2. CASE stateFile' # stateFile
    <3>1. Record /\ stateFile' = processed'
      <4>1. CASE Leave
        BY <2>2, <4>1, LeaveEffect
      <4>2. CASE Record
        BY <2>2, <4>2 DEF Record
      <4>3. CASE UNCHANGED vars \/ Environment \/ (\E md \in Modes : Start(md))
                 \/ (Step /\ ~Leave /\ ~Record)
        BY <1>2, <2>2, <4>3
        DEF vars, Environment, Arrive, ClientTouches, Renumber, Drop, Start,
            Step, Leave, Connect, Wake, Search, Fetch, Fetched, Sift, Sifted,
            StartScan, ScanSucceeds, ScanFails, ScansDone, Commit, Mark,
            RescanNext, Observe, storeVars
      <4>4. QED
        BY <4>1, <4>2, <4>3 DEF Next, Disturbance, Leave
    <3>2. stateFile \subseteq stateFile' /\ stateFile' \subseteq Key
      BY <3>1 DEF Record, IInv, MemoryHoldsFile, TypeOK
    <3>3. \A k \in stateFile' : count[k] > 0
      <4>1. \A k \in stateFile' : k \in Key /\ count'[k] > 0
        BY <3>2 DEF IInv, DoneWasDisposed
      <4>2. QED
        BY <2>1, <4>1
    <3>4. faults' = faults
      BY <3>1 DEF Record
    <3>5. Queue!Finish(stateFile')
      BY <2>1, <3>2, <3>3, <3>4 DEF Queue!Finish
    <3>6. QED
      BY <3>2, <3>5 DEF Queue!Next
  <2>3. CASE stateFile' = stateFile /\ faults' # faults
    <3>1. faults' = faults + 1 /\ faults < MaxFaults
      BY <2>3, BoundAssumption
      DEF Next, Environment, Disturbance, Step, vars, Fault, Arrive,
          ClientTouches, Renumber, Drop, Crash, Stop, ConnectFails,
          QuarantineFails, SaveFails, Start, Connect, Wake, Search, Fetch,
          ReadFails, Fetched, Sift, Sifted, StartScan, ScanSucceeds, ScanFails,
          ScansDone, Commit, Committed, Quarantine, Deliver, Record, Mark,
          RescanNext, Observe, RescanDone
    <3>2. QED
      BY <2>1, <2>3, <3>1 DEF Queue!Fault, Queue!Next
  <2>4. CASE UNCHANGED <<stateFile, faults>>
    BY <2>1, <2>4 DEF Queue!vars
  <2>5. QED
    BY <2>2, <2>3, <2>4
<1>3. QED
  BY <1>1, <1>2

\* Every behaviour of the dispatcher is, seen through the done-list and the
\* counts of disposals, a behaviour of the at-least-once queue.
THEOREM Refinement == Spec => ImplementsIntake
<1>1. Init => Queue!Init
  BY DEF Init, Queue!Init, Disposals
<1>2. QED
  BY <1>1, Inductive, QueueStep, PTL DEF Spec, ImplementsIntake, Queue!Spec
=============================================================================
