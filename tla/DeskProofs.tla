----------------------------- MODULE DeskProofs -----------------------------
(***************************************************************************)
(* Proofs about Desk, for any messages, domains, documents and bounds: the *)
(* scanner's judgement is the one Verdict describes, the review queue      *)
(* loses no question that has a path of its own, what the scanner and the  *)
(* console pass over is what lists on disk pass over, and a scan is        *)
(* refused only for a reason.                                              *)
(***************************************************************************)
EXTENDS Desk, ListsProofs, VerdictProofs

\* The message under scan, and the scanner's copy of the lists.
ScanTypes ==
    /\ at \in ScanPlaces
    /\ at # "idle" => mail \in Message
    /\ seen \in [List -> Content]

\* Only cards that were asked are staged, shown or decided, each at the path of
\* its message's job, and the card in hand was decided once the applier is done
\* with it.
Queue ==
    /\ NoQuestionLost
    /\ \A q \in asked : q \in Card /\ q.id[2] = JobOf[q.of]
    /\ staged \subseteq asked /\ screen \subseteq asked
    /\ card \in asked \cup {NoCard}
    /\ pc[Console] = "applied" /\ card # NoCard => card \in decided

\* An untorn read holds what is on disk, and so lists that agree.
Reads ==
    /\ at \in {"grey", "black"} /\ ~torn => seen["whitelist"] = files["whitelist"]
    /\ at = "black" /\ ~torn => seen["greylist"] = files["greylist"]
    /\ at = "check" /\ ~torn /\ ~mixed => Exclusive(seen)
    /\ RefusedForAReason

-----------------------------------------------------------------------------
(* What a step of the desk is to the lists and to the verdict *)

\* Kills of the scanner count as faults and touch no list.
OnlyFaults ==
    /\ UNCHANGED <<files, pc, doc, step, mem, dirty, gained, mixed>>
    /\ Fault

LEMMA ApplierSteps ==
    ASSUME NEW t \in Applier
    PROVE  /\ \A ds \in Docs : Send(t, ds) => ListsNext
           /\ Apply(t) => ListsNext
           /\ Reply(t) => ListsNext
           /\ Fail(t) => ListsNext
BY DEF Send, Apply, Reply, Fail, ListsNext

LEMMA DeskToLists ==
    ASSUME [DeskNext]_deskVars
    PROVE  [ListsNext]_listVars \/ OnlyFaults
<1>1. CASE ScannerNext
  <2>1. CASE KillScan BY <2>1 DEF KillScan, OnlyFaults
  <2>2. CASE ~KillScan
    BY <1>1, <2>2 DEF ScannerNext, StartScan, LoadList, RefuseLists, Judge, JudgeStep,
       StageCandidate, ExitScan
  <2> QED BY <2>1, <2>2
<1>2. CASE ConsoleNext
  <2>1. Console \in Applier BY ListsAssumption
  <2>2. ASSUME NEW c \in Card, NEW ds \in Docs, Confirm(c, ds) PROVE ListsNext
    BY <2>1, <2>2, ApplierSteps DEF Confirm
  <2>3. ASSUME NEW ds \in Docs, ManualAdd(ds) PROVE ListsNext
    BY <2>1, <2>3, ApplierSteps DEF ManualAdd
  <2> QED
    BY <1>2, <2>2, <2>3 DEF ConsoleNext, Consume, OpenQueue, ReadForQueue, ShowQueue,
       Unavailable, LookUnchanged
<1>3. CASE ApplierNext BY <1>3, ApplierSteps DEF ApplierNext, CommandLine
<1>4. CASE UNCHANGED deskVars BY <1>4 DEF deskVars
<1> QED BY <1>1, <1>2, <1>3, <1>4 DEF DeskNext

LEMMA TypesHold ==
    ASSUME TInv, [DeskNext]_deskVars
    PROVE  TInv'
<1>1. CASE [ListsNext]_listVars BY <1>1, TypeNext
<1>2. CASE OnlyFaults
  <2>1. faults' \in 0 .. MaxFaults
    <3>1. MaxFaults \in Nat BY ListsAssumption
    <3>2. faults \in 0 .. MaxFaults BY DEF TInv, ListsTypeOK
    <3>3. faults < MaxFaults /\ faults' = faults + 1 BY <1>2 DEF OnlyFaults, Fault
    <3> QED BY <3>1, <3>2, <3>3
  <2> QED BY <1>2, <2>1 DEF OnlyFaults, TInv, ListsTypeOK, Sound
<1> QED BY <1>1, <1>2, DeskToLists

LEMMA ListsHold ==
    ASSUME ~Overlap, TInv, SInv, [DeskNext]_deskVars
    PROVE  SInv'
<1>1. CASE [ListsNext]_listVars BY <1>1, SafeNext
<1>2. CASE OnlyFaults
  BY <1>2 DEF OnlyFaults, SInv, Solo, OneTarget, FollowsAll, Follows, CleanIsFile,
     LostOnly, GainIsTarget, Exclusive, OneListEach
<1> QED BY <1>1, <1>2, DeskToLists

LEMMA RedoHolds ==
    ASSUME ~Overlap, RInv, [DeskNext]_deskVars
    PROVE  RInv'
<1>1. CASE [ListsNext]_listVars BY <1>1, RedoNext
<1>2. CASE OnlyFaults
  <2>1. TInv' BY TypesHold DEF RInv
  <2> QED BY <1>2, <2>1 DEF OnlyFaults, RInv, Solo, Redoes, CleanIsFile
<1> QED BY <1>1, <1>2, DeskToLists

LEMMA MixedGrows ==
    ASSUME [DeskNext]_deskVars, mixed
    PROVE  mixed'
<1>1. CASE [ListsNext]_listVars
  BY <1>1 DEF ListsNext, Submit, Reject, ApplierStep, ReadList, ApplyOne, Accept,
     RefuseResult, Preview, WriteList, Finish, Crash, Answer, listVars
<1>2. CASE OnlyFaults BY <1>2 DEF OnlyFaults
<1> QED BY <1>1, <1>2, DeskToLists

\* What lists say of a message is always coherent.
LEMMA HitsType ==
    ASSUME NEW lists, NEW m, NEW shapes
    PROVE  HitsOf(lists, m, shapes) \in Hits /\ Coherent(HitsOf(lists, m, shapes))
<1> DEFINE h == HitsOf(lists, m, shapes)
           g == lists["greylist"]
<1>1. /\ h.white \in BOOLEAN /\ h.grey \in BOOLEAN /\ h.black \in BOOLEAN
  BY DEF HitsOf, Hit
<1>2. ClassifyGreylist(g, m, shapes) \in GreyClass
  BY DEF ClassifyGreylist, GreyClass
<1>3. Hit(g, m) <=> ClassifyGreylist(g, m, shapes) # "none"
  BY DEF ClassifyGreylist
<1>4. h = [white |-> h.white, grey |-> h.grey, black |-> h.black, class |-> h.class]
  BY DEF HitsOf
<1>5. h.class = ClassifyGreylist(g, m, shapes) /\ h.grey = Hit(g, m)
  BY DEF HitsOf
<1> QED BY <1>1, <1>2, <1>3, <1>4, <1>5 DEF Hits, Coherent

LEMMA DeskToVerdict ==
    ASSUME ScanTypes, [DeskNext]_deskVars
    PROVE  [VerdictNext]_verdictVars
<1>1. ASSUME NEW f \in Feed, NEW p \in Pack, Judge(f, p) PROVE VerdictNext
  <2>1. mail \in Message /\ Begin(mail, HitsOf(seen, mail, mail.shapes), f, p)
    BY <1>1 DEF Judge, ScanTypes
  <2> QED BY <2>1, HitsType DEF VerdictNext
<1>2. CASE ScannerNext
  BY <1>1, <1>2 DEF ScannerNext, StartScan, LoadList, RefuseLists, JudgeStep,
     StageCandidate, KillScan, ExitScan, VerdictNext
<1>3. CASE ConsoleNext
  BY <1>3 DEF ConsoleNext, Confirm, ManualAdd, Send, DeskUnchanged, Consume,
     OpenQueue, ReadForQueue, ShowQueue, Unavailable, LookUnchanged
<1>4. CASE ApplierNext
  BY <1>4 DEF ApplierNext, CommandLine, Send, Apply, Reply, Fail, DeskUnchanged
<1>5. CASE UNCHANGED deskVars BY <1>5 DEF deskVars
<1> QED BY <1>2, <1>3, <1>4, <1>5 DEF DeskNext

-----------------------------------------------------------------------------
(* The scan *)

LEMMA FilesType ==
    ASSUME TInv
    PROVE  files \in [List -> Content]
BY DEF TInv, ListsTypeOK

LEMMA ListAtType ==
    ASSUME NEW place \in Reading
    PROVE  ListAt[place] \in List /\ NextPlace[place] \in ScanPlaces \ {"idle"}
BY DEF Reading, NextPlace, ListAt, List, ScanPlaces

LEMMA ScanTypesHold ==
    ASSUME TInv, ScanTypes, [DeskNext]_deskVars
    PROVE  ScanTypes'
<1>1. Unread \in [List -> Content] BY DEF Unread, Empty, Content
<1>2. CASE LoadList
  <2>1. at \in Reading /\ mail' = mail /\ at' = NextPlace[at]
        /\ seen' = [seen EXCEPT ![ListAt[at]] = files[ListAt[at]]]
    BY <1>2 DEF LoadList
  <2>2. ListAt[at] \in List /\ at' \in ScanPlaces \ {"idle"} BY <2>1, ListAtType
  <2>3. seen' \in [List -> Content] BY <2>1, <2>2, FilesType DEF ScanTypes
  <2>4. at # "idle" BY <2>1 DEF Reading, NextPlace
  <2> QED BY <2>1, <2>2, <2>3, <2>4 DEF ScanTypes
<1>3. CASE ScannerNext /\ ~LoadList
  BY <1>1, <1>3 DEF ScannerNext, StartScan, RefuseLists, Judge, JudgeStep,
     StageCandidate, KillScan, ExitScan, ScanTypes, ScanPlaces, scannerVars
<1>4. CASE ConsoleNext
  BY <1>4 DEF ConsoleNext, Confirm, ManualAdd, Send, DeskUnchanged, Consume,
     OpenQueue, ReadForQueue, ShowQueue, Unavailable, LookUnchanged, scannerVars,
     ScanTypes
<1>5. CASE ApplierNext
  BY <1>5 DEF ApplierNext, CommandLine, Send, Apply, Reply, Fail, DeskUnchanged,
     ScanTypes
<1>6. CASE UNCHANGED deskVars BY <1>6 DEF deskVars, scannerVars, ScanTypes
<1> QED BY <1>2, <1>3, <1>4, <1>5, <1>6 DEF DeskNext

\* What a scanner that starts, reads or is killed does to the reads.
LEMMA ReadsHold ==
    ASSUME TInv, SInv, ScanTypes, Reads, [DeskNext]_deskVars
    PROVE  Reads'
<1>1. mixed => mixed' BY MixedGrows
<1>2. CASE LoadList
  <2>1. /\ at \in Reading /\ at' = NextPlace[at]
        /\ seen' = [seen EXCEPT ![ListAt[at]] = files[ListAt[at]]]
        /\ UNCHANGED <<torn, files, mixed>>
    BY <1>2 DEF LoadList, listVars
  <2>2. CASE at = "white"
    <3>1. at' = "grey" /\ seen'["whitelist"] = files["whitelist"]
      BY <2>1, <2>2 DEF NextPlace, ListAt, ScanTypes, List
    <3> QED BY <2>1, <3>1 DEF Reads, RefusedForAReason
  <2>3. CASE at = "grey"
    <3>1. /\ at' = "black" /\ seen'["greylist"] = files["greylist"]
          /\ seen'["whitelist"] = seen["whitelist"]
      BY <2>1, <2>3 DEF NextPlace, ListAt, ScanTypes, List
    <3> QED BY <2>1, <2>3, <3>1 DEF Reads, RefusedForAReason
  <2>4. CASE at = "black"
    <3>1. /\ at' = "check" /\ seen'["blacklist"] = files["blacklist"]
          /\ seen'["whitelist"] = seen["whitelist"]
          /\ seen'["greylist"] = seen["greylist"]
      BY <2>1, <2>4 DEF NextPlace, ListAt, ScanTypes, List
    <3>2. ASSUME ~torn, ~mixed PROVE Exclusive(seen')
      <4>1. \A l \in List : seen'[l] = files[l]
        BY <2>4, <3>1, <3>2 DEF Reads, List
      <4>2. Exclusive(files) BY <3>2 DEF SInv, OneListEach
      <4> QED BY <4>1, <4>2 DEF Exclusive
    <3> QED BY <2>1, <3>1, <3>2 DEF Reads, RefusedForAReason, Exclusive
  <2> QED BY <2>1, <2>2, <2>3, <2>4 DEF Reading, NextPlace
<1>3. CASE RefuseLists
  BY <1>3 DEF RefuseLists, Reads, RefusedForAReason, listVars
<1>4. CASE ScannerNext /\ ~LoadList /\ ~RefuseLists
  BY <1>4 DEF ScannerNext, StartScan, Judge, JudgeStep,
     StageCandidate, KillScan, ExitScan, Reads, RefusedForAReason, scannerVars, listVars
<1>5. CASE UNCHANGED <<at, seen, files, torn>>
  BY <1>1, <1>5 DEF Reads, RefusedForAReason, Exclusive
<1>6. CASE ConsoleNext \/ UNCHANGED deskVars
  BY <1>5, <1>6 DEF ConsoleNext, Confirm, ManualAdd, Send, DeskUnchanged, Consume,
     OpenQueue, ReadForQueue, ShowQueue, Unavailable, LookUnchanged, scannerVars,
     listVars, deskVars, Submit, Reject
<1>7. CASE ApplierNext
  <2>1. ASSUME NEW t \in Applier, Apply(t) PROVE Reads'
    <3>1. /\ UNCHANGED <<at, seen>>
          /\ torn' = (torn \/ (at \in {"grey", "black"} /\ files' # files))
      BY <2>1 DEF Apply, NoteTear, DeskUnchanged
    <3> QED BY <1>1, <3>1 DEF Reads, RefusedForAReason, Exclusive
  <2>2. ASSUME NEW t \in Applier, NEW ds \in Docs, CommandLine(t, ds) PROVE Reads'
    BY <1>5, <2>2 DEF CommandLine, Send, Submit, Reject, DeskUnchanged
  <2>3. ASSUME NEW t \in Applier, Reply(t) \/ Fail(t) PROVE Reads'
    BY <1>5, <2>3 DEF Reply, Answer, Fail, Crash, DeskUnchanged
  <2> QED BY <1>7, <2>1, <2>2, <2>3 DEF ApplierNext
<1> QED BY <1>2, <1>3, <1>4, <1>6, <1>7 DEF DeskNext

-----------------------------------------------------------------------------
(* The queue *)

\* Asking more undoes no sharing.
LEMMA SharingStays ==
    ASSUME asked \subseteq asked', NEW q, Shared(q)
    PROVE  Shared(q)'
BY DEF Shared

\* Two cards at one path that are not one card are about two messages.
LEMMA OnePathTwoMessages ==
    ASSUME NEW c \in Card, NEW d \in Card, c.id = d.id, c # d
    PROVE  c.of # d.of
BY DEF Card

\* A step that asks, stages and shows nothing new, and keeps what is decided.
LEMMA QueueKept ==
    ASSUME Queue, UNCHANGED <<asked, staged>>,
           screen' \subseteq asked, decided \subseteq decided',
           card' \in asked \cup {NoCard},
           pc'[Console] = "applied" /\ card' # NoCard => card' \in decided'
    PROVE  Queue'
BY DEF Queue, NoQuestionLost, Shared

LEMMA QueueStage ==
    ASSUME ScanTypes, Queue, NEW day \in Day, StageCandidate(day)
    PROVE  Queue'
<1> DEFINE c == [id |-> <<day, JobOf[mail]>>, of |-> mail]
<1>1. /\ UNCHANGED <<pc, card, decided, screen>>
      /\ at = "judge"
      /\ \/ staged' = Put(staged, c) /\ asked' = asked \cup {c}
         \/ UNCHANGED <<staged, asked>>
  BY DEF StageCandidate, consoleVars, listVars
<1>2. CASE UNCHANGED <<staged, asked>>
  BY <1>1, <1>2, QueueKept DEF Queue
<1>3. CASE staged' = Put(staged, c) /\ asked' = asked \cup {c}
  <2>1. mail \in Message /\ JobOf[mail] \in Job
    BY <1>1, DeskAssumption DEF ScanTypes
  <2>2. c \in Card /\ c.id = <<day, JobOf[mail]>> /\ c.id[2] = JobOf[c.of]
    BY <2>1 DEF Card
  <2> HIDE DEF c
  <2>3. ASSUME NEW q \in asked' \ decided' PROVE q \in staged' \/ Shared(q)'
    <3>1. CASE q = c BY <1>3, <3>1 DEF Put
    <3>2. CASE q # c
      <4>1. q \in asked \ decided /\ q \in Card BY <1>1, <1>3, <2>3, <3>2 DEF Queue
      <4>2. CASE Shared(q) BY <1>3, <4>2, SharingStays
      <4>3. CASE q \in staged /\ q.id # c.id BY <1>3, <4>3 DEF Put
      <4>4. CASE q \in staged /\ q.id = c.id
        <5>1. q.of # c.of BY <2>2, <3>2, <4>1, <4>4, OnePathTwoMessages
        <5> QED BY <1>3, <4>4, <5>1 DEF Shared
      <4> QED BY <4>1, <4>2, <4>3, <4>4 DEF Queue, NoQuestionLost
    <3> QED BY <3>1, <3>2
  <2>4. NoQuestionLost' BY <2>3 DEF NoQuestionLost
  <2>5. \A q \in asked' : q \in Card /\ q.id[2] = JobOf[q.of]
    BY <1>3, <2>2 DEF Queue
  <2>6. staged' \subseteq asked' BY <1>3 DEF Queue, Put
  <2> QED BY <1>1, <1>3, <2>4, <2>5, <2>6 DEF Queue
<1> QED BY <1>1, <1>2, <1>3

LEMMA QueueScan ==
    ASSUME ScanTypes, Queue, ScannerNext
    PROVE  Queue'
<1>1. CASE \E day \in Day : StageCandidate(day) BY <1>1, QueueStage
<1>2. CASE ~\E day \in Day : StageCandidate(day)
  <2>1. UNCHANGED <<pc, card, decided, screen, staged, asked>>
    BY <1>2 DEF ScannerNext, StartScan, LoadList, RefuseLists, Judge, JudgeStep,
       KillScan, ExitScan, consoleVars, scannerVars, trees, listVars
  <2> QED BY <2>1, QueueKept DEF Queue
<1> QED BY <1>1, <1>2

\* A document that is sent is on its way, and not applied.
LEMMA SendNotApplied ==
    ASSUME TInv, NEW t \in Applier, NEW ds \in Docs, Send(t, ds)
    PROVE  /\ pc'[t] # "applied"
           /\ \A u \in Applier \ {t} : pc'[u] = pc[u]
BY DEF Send, Submit, Reject, TInv, ListsTypeOK

LEMMA QueueConsume ==
    ASSUME Queue, Consume
    PROVE  Queue'
<1>1. /\ card \in decided /\ card \in asked /\ card' = NoCard
      /\ staged' = staged \ FiledUnder(card.id)
      /\ UNCHANGED <<decided, asked, screen>>
  BY DEF Consume, scannerVars, Queue
<1>2. ASSUME NEW q \in asked \ decided PROVE q \in staged' \/ Shared(q)
  <2>1. CASE q \in FiledUnder(card.id)
    <3>1. q.id = card.id /\ q # card BY <1>1, <1>2, <2>1 DEF FiledUnder
    <3>2. q \in Card /\ card \in Card BY <1>1, <1>2 DEF Queue
    <3>3. q.of # card.of BY <3>1, <3>2, OnePathTwoMessages
    <3> QED BY <1>1, <3>1, <3>3 DEF Shared
  <2>2. CASE q \notin FiledUnder(card.id)
    BY <1>1, <1>2, <2>2 DEF Queue, NoQuestionLost
  <2> QED BY <2>1, <2>2
<1>3. NoQuestionLost' BY <1>1, <1>2, SharingStays DEF NoQuestionLost
<1> QED BY <1>1, <1>3 DEF Queue

LEMMA QueueConsole ==
    ASSUME TInv, Queue, ConsoleNext
    PROVE  Queue'
<1>1. Console \in Applier BY ListsAssumption
<1>2. ASSUME NEW ds \in Docs, Send(Console, ds), card' \in asked \cup {NoCard}
      PROVE  Queue'
  <2>1. UNCHANGED <<asked, staged, screen, decided>> /\ pc'[Console] # "applied"
    BY <1>1, <1>2, SendNotApplied DEF Send, DeskUnchanged, trees
  <2> QED BY <1>2, <2>1, QueueKept DEF Queue
<1>3. ASSUME NEW c \in Card, NEW ds \in Docs, Confirm(c, ds) PROVE Queue'
  BY <1>2, <1>3 DEF Confirm, Queue
<1>4. ASSUME NEW ds \in Docs, ManualAdd(ds) PROVE Queue'
  BY <1>2, <1>4 DEF ManualAdd, Queue
<1>5. CASE OpenQueue \/ ReadForQueue \/ ShowQueue \/ Unavailable
  <2>1. UNCHANGED <<asked, staged, decided, card, pc>> /\ screen' \subseteq asked
    BY <1>5 DEF OpenQueue, ReadForQueue, ShowQueue, Unavailable, LookUnchanged,
       listVars, scannerVars, trees, Queue
  <2> QED BY <2>1, QueueKept DEF Queue
<1> QED BY <1>3, <1>4, <1>5, QueueConsume DEF ConsoleNext

LEMMA QueueAppliers ==
    ASSUME TInv, Queue, ApplierNext
    PROVE  Queue'
<1>1. Console \in Applier BY ListsAssumption
<1>2. ASSUME NEW t \in Applier, NEW ds \in Docs, CommandLine(t, ds) PROVE Queue'
  <2>1. /\ UNCHANGED <<asked, staged, screen, decided, card>>
        /\ pc'[Console] = pc[Console]
    BY <1>1, <1>2, SendNotApplied DEF CommandLine, Send, DeskUnchanged, trees
  <2> QED BY <2>1, QueueKept DEF Queue
<1>3. ASSUME NEW t \in Applier, Apply(t) PROVE Queue'
  <2>1. /\ UNCHANGED <<asked, staged, screen, card>>
        /\ decided' = IF t = Console /\ card # NoCard /\ pc'[t] = "applied"
                      THEN decided \cup {card} ELSE decided
    BY <1>3 DEF Apply, DeskUnchanged, trees
  <2>2. t # Console => pc'[Console] = pc[Console]
    BY <1>1, <1>3 DEF Apply, ApplierStep, ReadList, ApplyOne, Accept, RefuseResult,
       Preview, WriteList, Finish, TInv, ListsTypeOK
  <2> QED BY <2>1, <2>2, QueueKept DEF Queue
<1>4. ASSUME NEW t \in Applier, Reply(t) \/ Fail(t) PROVE Queue'
  <2>1. /\ UNCHANGED <<asked, staged, screen, decided>>
        /\ card' = IF t = Console THEN NoCard ELSE card
    BY <1>4 DEF Reply, Fail, DeskUnchanged, trees
  <2>2. Forget(t) BY <1>4 DEF Reply, Answer, Fail, Crash
  <2>3. t # Console => pc'[Console] = pc[Console]
    BY <1>1, <2>2 DEF Forget, TInv, ListsTypeOK
  <2> QED BY <2>1, <2>3, QueueKept DEF Queue
<1> QED BY <1>2, <1>3, <1>4 DEF ApplierNext

LEMMA QueueHolds ==
    ASSUME TInv, ScanTypes, Queue, [DeskNext]_deskVars
    PROVE  Queue'
<1>1. CASE UNCHANGED deskVars
  BY <1>1, QueueKept DEF deskVars, scannerVars, consoleVars, trees, listVars, Queue
<1> QED BY <1>1, QueueScan, QueueConsole, QueueAppliers DEF DeskNext

-----------------------------------------------------------------------------

LEMMA DeskStarts ==
    ASSUME DeskInit
    PROVE  TInv /\ SInv /\ ScanTypes /\ Queue /\ Reads
<1>1. TInv /\ SInv BY TypeInit, SafeInit DEF DeskInit
<1>2. Unread \in [List -> Content] BY DEF Unread, Empty, Content
<1>3. ScanTypes BY <1>2 DEF DeskInit, ScanTypes, ScanPlaces
<1>4. Queue BY DEF DeskInit, Queue, NoQuestionLost
<1>5. Reads BY DEF DeskInit, Reads, RefusedForAReason
<1> QED BY <1>1, <1>3, <1>4, <1>5

-----------------------------------------------------------------------------
(* The rest of the types *)

DeskRest ==
    /\ at = "idle" <=> mail = NoMessage
    /\ view \in [List -> Content]
    /\ looking \in {"idle", "check"} \cup Reading
    /\ {asked, staged, reviewed, screen, decided} \subseteq SUBSET Card
    /\ card \in Card \cup {NoCard}
    /\ answered \subseteq Message /\ passable \in BOOLEAN
    /\ work \in 0 .. MaxWork
    /\ torn \in BOOLEAN

LEMMA RestStarts == DeskInit => DeskRest
<1> SUFFICES ASSUME DeskInit PROVE DeskRest OBVIOUS
<1>1. view \in [List -> Content] BY DEF DeskInit, Unread, Empty, Content
<1>2. work \in 0 .. MaxWork BY DeskAssumption DEF DeskInit
<1>3. {asked, staged, reviewed, screen, decided} \subseteq SUBSET Card
  <2>1. \A S \in {asked, staged, reviewed, screen, decided} : S = {}
    BY DEF DeskInit
  <2> QED BY <2>1
<1> QED BY <1>1, <1>2, <1>3 DEF DeskInit, DeskRest

LEMMA LoadPlace ==
    ASSUME NEW place \in Reading
    PROVE  place # "idle" /\ NextPlace[place] # "idle"
BY DEF Reading, NextPlace

LEMMA LookPlace ==
    ASSUME NEW place \in Reading
    PROVE  /\ ListAt[place] \in List
           /\ NextPlace[place] \in {"idle", "check"} \cup Reading
BY DEF Reading, NextPlace, ListAt, List

LEMMA RestScanner ==
    ASSUME TInv, ScanTypes, DeskRest, ScannerNext
    PROVE  DeskRest'
<1> USE DEF DeskRest, consoleVars, trees
<1>1. ASSUME NEW m \in Message, StartScan(m) PROVE DeskRest'
  <2>1. work' \in 0 .. MaxWork BY <1>1, DeskAssumption DEF StartScan
  <2>2. at' # "idle" /\ mail' # NoMessage BY <1>1, VerdictAssumption DEF StartScan
  <2> QED BY <1>1, <2>1, <2>2 DEF StartScan
<1>2. CASE LoadList
  BY <1>2, LoadPlace DEF LoadList, Passes
<1>3. CASE RefuseLists BY <1>3 DEF RefuseLists
<1>4. ASSUME NEW f \in Feed, NEW p \in Pack, Judge(f, p) PROVE DeskRest'
  BY <1>4 DEF Judge
<1>5. CASE JudgeStep BY <1>5 DEF JudgeStep, scannerVars
<1>6. ASSUME NEW day \in Day, StageCandidate(day) PROVE DeskRest'
  <2> DEFINE c == [id |-> <<day, JobOf[mail]>>, of |-> mail]
  <2>1. c \in Card
    BY <1>6, DeskAssumption DEF StageCandidate, ScanTypes, Card
  <2>2. \/ staged' = Put(staged, c) /\ asked' = asked \cup {c}
        \/ UNCHANGED <<staged, asked>>
    BY <1>6 DEF StageCandidate
  <2> HIDE DEF c
  <2>3. staged' \subseteq Card /\ asked' \subseteq Card BY <2>1, <2>2 DEF Put
  <2> QED BY <1>6, <2>3 DEF StageCandidate, ScanTypes
<1>7. CASE KillScan BY <1>7 DEF KillScan
<1>8. CASE ExitScan BY <1>8 DEF ExitScan
<1> QED BY <1>1, <1>2, <1>3, <1>4, <1>5, <1>6, <1>7, <1>8 DEF ScannerNext

LEMMA RestConsole ==
    ASSUME TInv, DeskRest, ConsoleNext
    PROVE  DeskRest'
<1> USE DEF DeskRest, scannerVars, trees
<1>1. ASSUME NEW ds \in Docs, Send(Console, ds), card' \in Card \cup {NoCard}
      PROVE  DeskRest'
  BY <1>1, DeskAssumption DEF Send, DeskUnchanged
<1>2. ASSUME NEW c \in Card, NEW ds \in Docs, Confirm(c, ds) PROVE DeskRest'
  BY <1>1, <1>2 DEF Confirm
<1>3. ASSUME NEW ds \in Docs, ManualAdd(ds) PROVE DeskRest'
  BY <1>1, <1>3 DEF ManualAdd
<1>4. CASE Consume
  <2>1. staged' \subseteq Card /\ reviewed' \subseteq Card
    BY <1>4 DEF Consume, FiledUnder
  <2> QED BY <1>4, <2>1 DEF Consume
<1>5. CASE OpenQueue
  BY <1>5 DEF OpenQueue, LookUnchanged, Reading, NextPlace, Passed
<1>6. CASE ReadForQueue
  BY <1>6, LookPlace, FilesType DEF ReadForQueue, LookUnchanged
<1>7. CASE ShowQueue
  BY <1>7 DEF ShowQueue, LookUnchanged, Unread, Empty, Content
<1>8. CASE Unavailable
  BY <1>8 DEF Unavailable, LookUnchanged, Unread, Empty, Content
<1> QED BY <1>2, <1>3, <1>4, <1>5, <1>6, <1>7, <1>8 DEF ConsoleNext

LEMMA RestAppliers ==
    ASSUME TInv, DeskRest, ApplierNext
    PROVE  DeskRest'
<1> USE DEF DeskRest, DeskUnchanged, trees
<1>1. ASSUME NEW t \in Applier, NEW ds \in Docs, CommandLine(t, ds) PROVE DeskRest'
  BY <1>1, DeskAssumption DEF CommandLine, Send
<1>2. ASSUME NEW t \in Applier, Apply(t) PROVE DeskRest'
  <2>1. torn' \in BOOLEAN BY <1>2 DEF Apply, NoteTear
  <2>2. decided' \subseteq Card BY <1>2 DEF Apply
  <2>3. passable' \in BOOLEAN /\ answered' \subseteq Message
    BY <1>2 DEF Apply, NoteMoment, Passes, Passed
  <2> QED BY <1>2, <2>1, <2>2, <2>3 DEF Apply
<1>3. ASSUME NEW t \in Applier, Reply(t) \/ Fail(t) PROVE DeskRest'
  BY <1>3 DEF Reply, Fail
<1> QED BY <1>1, <1>2, <1>3 DEF ApplierNext

LEMMA RestHolds ==
    ASSUME TInv, ScanTypes, DeskRest, [DeskNext]_deskVars
    PROVE  DeskRest'
<1>1. CASE UNCHANGED deskVars
  BY <1>1 DEF deskVars, scannerVars, consoleVars, trees, DeskRest
<1> QED BY <1>1, RestScanner, RestConsole, RestAppliers DEF DeskNext

-----------------------------------------------------------------------------
(* What the scanner and the queue pass over *)

\* One list by itself makes the scanner ask nothing of a message.
Excuses(l, content, m) ==
    IF l = "greylist"
    THEN ClassifyGreylist(content, m, m.shapes) \in {"known", "denied"}
    ELSE Hit(content, m)

\* The lists a reader of the three has behind it.
ReadBefore(place) ==
    {l \in List :
        \/ place = "check"
        \/ place = "black" /\ l # "blacklist"
        \/ place = "grey" /\ l = "whitelist"}

\* A reader that may yet find a message excused by one list can say that the
\* lists on disk asked nothing of it at some moment: the scanner of its own
\* message, the console of every one.
ScanReason ==
    /\ at \in {"grey", "black"} /\ Passes(files, mail) => passable
    /\ \A l \in ReadBefore(at) : Excuses(l, seen[l], mail) => passable
    /\ at = "judge" => WantsCandidate(hits) \/ passable

LookReason ==
    /\ looking \in Reading => Passed(files) \subseteq answered
    /\ \A l \in ReadBefore(looking), m \in Message :
          Excuses(l, view[l], m) => m \in answered

LEMMA PassesIfExcused ==
    ASSUME NEW lists, NEW m
    PROVE  Passes(lists, m) <=> \E l \in List : Excuses(l, lists[l], m)
<1>1. ClassifyGreylist(lists["greylist"], m, m.shapes)
         \in {"none", "new_structure", "known", "denied"}
  BY DEF ClassifyGreylist
<1>2. /\ HitsOf(lists, m, m.shapes).black = Hit(lists["blacklist"], m)
      /\ HitsOf(lists, m, m.shapes).white = Hit(lists["whitelist"], m)
      /\ HitsOf(lists, m, m.shapes).class
            = ClassifyGreylist(lists["greylist"], m, m.shapes)
  BY DEF HitsOf
<1> QED BY <1>1, <1>2 DEF Passes, WantsCandidate, Excuses, List

\* What a read adds to the lists read.
LEMMA ReadOneMore ==
    ASSUME NEW place \in Reading
    PROVE  /\ ListAt[place] \in List
           /\ ReadBefore(NextPlace[place]) = ReadBefore(place) \cup {ListAt[place]}
           /\ NextPlace[place] # "judge" /\ place # "judge"
BY DEF Reading, NextPlace, ListAt, ReadBefore, List

\* The fewer shapes are looked at, the more a sender looks like one to ask about.
LEMMA ExcerptErrsTowardsShowing ==
    ASSUME NEW lists, NEW m \in Message, ~NeedsReview(lists, m)
    PROVE  Passes(lists, m)
<1> DEFINE c == lists["greylist"]
           M(shapes) == {s \in c.shapes : /\ Covers(s.domain, m)
                                          /\ s.name \in shapes \cup {CatchAll}}
<1>1. m.excerpt \subseteq m.shapes BY DeskAssumption
<1>2. M(m.excerpt) \subseteq M(m.shapes) BY <1>1
<1>3. ASSUME NEW shapes
      PROVE  /\ HitsOf(lists, m, shapes).class \in {"new_structure", "none"}
                   <=> ~Hit(c, m) \/ M(shapes) = {}
             /\ HitsOf(lists, m, shapes).black = Hit(lists["blacklist"], m)
             /\ HitsOf(lists, m, shapes).white = Hit(lists["whitelist"], m)
  BY DEF HitsOf, ClassifyGreylist
<1> QED BY <1>2, <1>3 DEF WantsCandidate, NeedsReview, Passes

LEMMA ScanReasonHolds ==
    ASSUME TInv, ScanTypes, ScanReason, [DeskNext]_deskVars
    PROVE  ScanReason'
<1>1. ASSUME UNCHANGED <<at, mail, seen, hits, passable, files>> PROVE ScanReason'
  BY <1>1 DEF ScanReason, ReadBefore, Excuses, Passes, HitsOf, Hit, Covers,
     ClassifyGreylist, WantsCandidate
<1>2. ASSUME NEW t \in Applier, Apply(t) PROVE ScanReason'
  <2>1. /\ UNCHANGED <<at, mail, seen, hits>>
        /\ passable' = (passable \/ (at \in {"grey", "black"}
                                       /\ Passes(files', mail)))
    BY <1>2 DEF Apply, NoteMoment, DeskUnchanged, verdictVars
  <2>2. Passes(files, mail)' <=> Passes(files', mail)
    BY <2>1 DEF Passes, HitsOf, Hit, Covers, ClassifyGreylist, WantsCandidate
  <2>3. \A l \in ReadBefore(at)' : Excuses(l, seen[l], mail)' => passable'
    BY <2>1 DEF ScanReason, ReadBefore, Excuses, Hit, Covers, ClassifyGreylist
  <2> QED BY <2>1, <2>2, <2>3 DEF ScanReason, WantsCandidate
<1>3. CASE LoadList
  <2>1. /\ at \in Reading /\ at' = NextPlace[at]
        /\ seen' = [seen EXCEPT ![ListAt[at]] = files[ListAt[at]]]
        /\ UNCHANGED <<mail, files>>
        /\ passable' = (passable \/ Passes(files, mail))
    BY <1>3 DEF LoadList, listVars
  <2>2. /\ ReadBefore(at') = ReadBefore(at) \cup {ListAt[at]}
        /\ at' # "judge" /\ ListAt[at] \in List
    BY <2>1, ReadOneMore
  <2>3. ASSUME NEW l \in ReadBefore(at'), Excuses(l, seen'[l], mail) PROVE passable'
    <3>0. l \in List BY <2>3 DEF ReadBefore
    <3>1. CASE l = ListAt[at]
      <4>1. Excuses(l, files[l], mail) BY <2>1, <2>2, <2>3, <3>1 DEF ScanTypes
      <4> QED BY <2>1, <3>0, <4>1, PassesIfExcused
    <3>2. CASE l # ListAt[at]
      <4>1. l \in ReadBefore(at) /\ seen'[l] = seen[l]
        BY <2>1, <2>2, <2>3, <3>0, <3>2 DEF ScanTypes
      <4> QED BY <2>1, <2>3, <4>1 DEF ScanReason
    <3> QED BY <3>1, <3>2
  <2>4. \A l \in ReadBefore(at)' : Excuses(l, seen[l], mail)' => passable'
    BY <2>1, <2>3 DEF ReadBefore, Excuses, Hit, Covers, ClassifyGreylist
  <2>5. Passes(files, mail)' => passable'
    BY <2>1 DEF Passes, HitsOf, Hit, Covers, ClassifyGreylist, WantsCandidate
  <2> QED BY <2>2, <2>4, <2>5 DEF ScanReason
<1>4. ASSUME NEW f \in Feed, NEW p \in Pack, Judge(f, p) PROVE ScanReason'
  <2>1. /\ at = "check" /\ at' = "judge" /\ passable' = passable
        /\ hits' = HitsOf(seen, mail, mail.shapes)
    BY <1>4 DEF Judge, Begin
  <2>2. WantsCandidate(hits') \/ passable
    <3>1. CASE Passes(seen, mail)
      <4>1. PICK l \in List : Excuses(l, seen[l], mail) BY <3>1, PassesIfExcused
      <4>2. l \in ReadBefore(at) BY <2>1 DEF ReadBefore
      <4> QED BY <4>1, <4>2 DEF ScanReason
    <3>2. CASE ~Passes(seen, mail) BY <2>1, <3>2 DEF Passes
    <3> QED BY <3>1, <3>2
  <2>3. WantsCandidate(hits)' <=> WantsCandidate(hits') BY DEF WantsCandidate
  <2>4. ReadBefore(at)' = {} BY <2>1 DEF ReadBefore, List
  <2> QED BY <2>1, <2>2, <2>3, <2>4 DEF ScanReason
<1>5. CASE JudgeStep
  <2>1. UNCHANGED <<at, mail, seen, hits, passable, files>>
    BY <1>5 DEF JudgeStep, Triage, ScanPass, scannerVars, listVars
  <2> QED BY <1>1, <2>1
<1>6. CASE \/ \E m \in Message : StartScan(m)
           \/ RefuseLists \/ KillScan \/ ExitScan
           \/ \E day \in Day : StageCandidate(day)
  <2>1. at' \in {"white", "refused", "failed", "idle", "done"}
    BY <1>6 DEF StartScan, RefuseLists, KillScan, ExitScan, StageCandidate
  <2> QED BY <2>1 DEF ScanReason, ReadBefore
<1>7. CASE ConsoleNext
  <2>1. UNCHANGED <<at, mail, seen, hits, passable>>
    BY <1>7 DEF ConsoleNext, Confirm, ManualAdd, Send, DeskUnchanged, Consume,
       OpenQueue, ReadForQueue, ShowQueue, Unavailable, LookUnchanged, scannerVars,
       verdictVars
  <2>2. files' = files
    BY <1>7 DEF ConsoleNext, Confirm, ManualAdd, Send, Submit, Reject, Consume,
       OpenQueue, ReadForQueue, ShowQueue, Unavailable, LookUnchanged, listVars
  <2> QED BY <1>1, <2>1, <2>2
<1>8. CASE ApplierNext
  <2>1. ASSUME NEW t \in Applier, NEW ds \in Docs, CommandLine(t, ds)
        PROVE  ScanReason'
    BY <1>1, <2>1 DEF CommandLine, Send, Submit, Reject, DeskUnchanged, verdictVars
  <2>2. ASSUME NEW t \in Applier, Reply(t) \/ Fail(t) PROVE ScanReason'
    BY <1>1, <2>2 DEF Reply, Answer, Fail, Crash, DeskUnchanged, verdictVars
  <2> QED BY <1>2, <1>8, <2>1, <2>2 DEF ApplierNext
<1>9. CASE UNCHANGED deskVars
  BY <1>1, <1>9 DEF deskVars, scannerVars, verdictVars, listVars
<1> QED BY <1>3, <1>4, <1>5, <1>6, <1>7, <1>8, <1>9 DEF DeskNext, ScannerNext

LEMMA LookReasonHolds ==
    ASSUME TInv, DeskRest, LookReason, [DeskNext]_deskVars
    PROVE  LookReason'
<1>1. ASSUME UNCHANGED <<looking, view, answered, files>> PROVE LookReason'
  BY <1>1 DEF LookReason, Passed, Passes, HitsOf, WantsCandidate, ReadBefore, Excuses,
     Hit, Covers, ClassifyGreylist
<1>2. ASSUME NEW t \in Applier, Apply(t) PROVE LookReason'
  <2>1. /\ UNCHANGED <<looking, view>>
        /\ answered' = IF looking \in Reading THEN answered \cup Passed(files')
                       ELSE answered
    BY <1>2 DEF Apply, NoteMoment, DeskUnchanged
  <2>2. Passed(files)' = Passed(files')
    BY DEF Passed, Passes, HitsOf, WantsCandidate, Hit, Covers, ClassifyGreylist
  <2>3. \A l \in ReadBefore(looking)', m \in Message :
           Excuses(l, view[l], m)' => m \in answered'
    BY <2>1 DEF LookReason, ReadBefore, Excuses, Hit, Covers, ClassifyGreylist
  <2> QED BY <2>1, <2>2, <2>3 DEF LookReason
<1>3. CASE OpenQueue
  <2>1. looking' = "white" /\ answered' = Passed(files) /\ files' = files
    BY <1>3 DEF OpenQueue, LookUnchanged, listVars
  <2>2. Passed(files)' = Passed(files)
    BY <2>1 DEF Passed, Passes, HitsOf, WantsCandidate, Hit, Covers, ClassifyGreylist
  <2>3. ReadBefore(looking)' = {} BY <2>1 DEF ReadBefore
  <2> QED BY <2>1, <2>2, <2>3 DEF LookReason
<1>4. CASE ReadForQueue
  <2>1. /\ looking \in Reading /\ looking' = NextPlace[looking]
        /\ view' = [view EXCEPT ![ListAt[looking]] = files[ListAt[looking]]]
        /\ UNCHANGED <<answered, files>>
    BY <1>4 DEF ReadForQueue, LookUnchanged, listVars
  <2>2. /\ ReadBefore(looking') = ReadBefore(looking) \cup {ListAt[looking]}
        /\ ListAt[looking] \in List
    BY <2>1, ReadOneMore
  <2>3. ASSUME NEW l \in ReadBefore(looking'), NEW m \in Message,
               Excuses(l, view'[l], m)
        PROVE  m \in answered
    <3>0. l \in List BY <2>3 DEF ReadBefore
    <3>1. CASE l = ListAt[looking]
      <4>1. Excuses(l, files[l], m) BY <2>1, <2>2, <2>3, <3>1 DEF DeskRest
      <4>2. Passes(files, m) BY <3>0, <4>1, PassesIfExcused
      <4> QED BY <2>1, <4>2 DEF LookReason, Passed
    <3>2. CASE l # ListAt[looking]
      <4>1. l \in ReadBefore(looking) /\ view'[l] = view[l]
        BY <2>1, <2>2, <2>3, <3>0, <3>2 DEF DeskRest
      <4> QED BY <2>3, <4>1 DEF LookReason
    <3> QED BY <3>1, <3>2
  <2>4. Passed(files)' = Passed(files)
    BY <2>1 DEF Passed, Passes, HitsOf, WantsCandidate, Hit, Covers, ClassifyGreylist
  <2>5. \A l \in ReadBefore(looking)', m \in Message :
           Excuses(l, view[l], m)' => m \in answered'
    BY <2>1, <2>3 DEF ReadBefore, Excuses, Hit, Covers, ClassifyGreylist
  <2> QED BY <2>1, <2>4, <2>5 DEF LookReason
<1>5. CASE ShowQueue \/ Unavailable
  <2>1. looking' = "idle" BY <1>5 DEF ShowQueue, Unavailable
  <2> QED BY <2>1 DEF LookReason, ReadBefore, Reading, NextPlace
<1>6. CASE \/ Consume
           \/ \E c \in Card, ds \in Docs : Confirm(c, ds)
           \/ \E ds \in Docs : ManualAdd(ds)
  <2>1. UNCHANGED <<looking, view, answered, files>>
    BY <1>6 DEF Consume, Confirm, ManualAdd, Send, Submit, Reject, DeskUnchanged,
       listVars
  <2> QED BY <1>1, <2>1
<1>7. CASE ScannerNext
  <2>1. UNCHANGED <<looking, view, answered, files>>
    BY <1>7 DEF ScannerNext, StartScan, LoadList, RefuseLists, Judge, JudgeStep,
       StageCandidate, KillScan, ExitScan, consoleVars, listVars
  <2> QED BY <1>1, <2>1
<1>8. CASE ApplierNext
  <2>1. ASSUME NEW t \in Applier, NEW ds \in Docs, CommandLine(t, ds)
        PROVE  LookReason'
    BY <1>1, <2>1 DEF CommandLine, Send, Submit, Reject, DeskUnchanged
  <2>2. ASSUME NEW t \in Applier, Reply(t) \/ Fail(t) PROVE LookReason'
    BY <1>1, <2>2 DEF Reply, Answer, Fail, Crash, DeskUnchanged
  <2> QED BY <1>2, <1>8, <2>1, <2>2 DEF ApplierNext
<1>9. CASE UNCHANGED deskVars
  BY <1>1, <1>9 DEF deskVars, consoleVars, listVars
<1> QED BY <1>3, <1>4, <1>5, <1>6, <1>7, <1>8, <1>9 DEF DeskNext, ConsoleNext

LEMMA ReasonsStart == DeskInit => ScanReason /\ LookReason
BY DEF DeskInit, ScanReason, LookReason, ReadBefore, Reading, NextPlace

-----------------------------------------------------------------------------
(* The theorems *)

\* The scan inside the learning loop is the verdict engine: it starts from hits
\* the lists can really give, and nothing the lists, the console or an applier
\* does touches a judgement under way.
THEOREM DeskImplementsVerdict == DeskSpec => VerdictSpec
<1>1. DeskInit => TInv /\ ScanTypes BY DeskStarts
<1>2. TInv /\ ScanTypes /\ [DeskNext]_deskVars => (TInv /\ ScanTypes)'
  BY TypesHold, ScanTypesHold
<1>3. ScanTypes /\ [DeskNext]_deskVars => [VerdictNext]_verdictVars BY DeskToVerdict
<1>4. DeskInit => VerdictInit BY DEF DeskInit
<1> QED BY <1>1, <1>2, <1>3, <1>4, PTL DEF DeskSpec, VerdictSpec

LEMMA QueueAlways == DeskSpec => []Queue
<1>1. DeskInit => TInv /\ ScanTypes /\ Queue BY DeskStarts
<1>2. TInv /\ ScanTypes /\ Queue /\ [DeskNext]_deskVars => (TInv /\ ScanTypes /\ Queue)'
  BY TypesHold, ScanTypesHold, QueueHolds
<1> QED BY <1>1, <1>2, PTL DEF DeskSpec

\* A question a completed scan asked stays in the queue until a decision on its
\* card is applied in full (app.py:278), unless the same day's candidate of
\* another message has the same path (propose.py:85); with any number of
\* appliers, overlapping or not.
THEOREM QuestionsStay == DeskSpec => []NoQuestionLost
<1>1. Queue => NoQuestionLost BY DEF Queue
<1> QED BY QueueAlways, <1>1, PTL

\* When no two messages share a job there is no exception: what was asked is
\* staged, or decided and applied.
THEOREM OneJobEachQuestionsStay ==
    ASSUME \A m, n \in Message : JobOf[m] = JobOf[n] => m = n
    PROVE  DeskSpec => [](asked \subseteq staged \cup decided)
<1>1. ASSUME Queue, NEW q \in asked PROVE ~Shared(q)
  BY <1>1 DEF Queue, Shared, Card
<1>2. Queue => asked \subseteq staged \cup decided
  BY <1>1 DEF Queue, NoQuestionLost
<1> QED BY QueueAlways, <1>2, PTL

\* Every variable of scanner, console and appliers keeps its type, also when
\* appliers overlap.
THEOREM DeskTypes == DeskSpec => []DeskTypeOK
<1>1. DeskInit => TInv /\ ScanTypes /\ DeskRest BY DeskStarts, RestStarts
<1>2. TInv /\ ScanTypes /\ DeskRest /\ [DeskNext]_deskVars
         => (TInv /\ ScanTypes /\ DeskRest)'
  BY TypesHold, ScanTypesHold, RestHolds
<1>3. TInv /\ ScanTypes /\ DeskRest /\ VerdictTypeOK => DeskTypeOK
  BY DEF TInv, ScanTypes, DeskRest, DeskTypeOK
<1>4. DeskSpec => []VerdictTypeOK BY DeskImplementsVerdict, VerdictTypes, PTL
<1> QED BY <1>1, <1>2, <1>3, <1>4, PTL DEF DeskSpec

\* Whatever is written under the scanner while it reads the three lists one after
\* another, it leaves a message without a card only if lists that were on disk
\* at some moment of its reading ask nothing of it (propose.py:50).
THEOREM SkipsHaveReasons == DeskSpec => SkippedForAReason
<1> DEFINE Inv == TInv /\ ScanTypes /\ ScanReason
           Skip == at = "judge" /\ at' = "done" =>
                      passable \/ \E c \in staged' : c.of = mail
<1>1. DeskInit => Inv BY DeskStarts, ReasonsStart
<1>2. Inv /\ [DeskNext]_deskVars => Inv'
  BY TypesHold, ScanTypesHold, ScanReasonHolds
<1>3. Inv /\ [DeskNext]_deskVars => [Skip]_deskVars
  <2> SUFFICES ASSUME Inv, DeskNext, at = "judge", at' = "done", ~passable
               PROVE  \E c \in staged' : c.of = mail
    OBVIOUS
  <2>1. PICK day \in Day : StageCandidate(day)
    <3>1. CASE ScannerNext
      BY <3>1 DEF ScannerNext, StartScan, LoadList, Reading, NextPlace, RefuseLists,
         Judge, JudgeStep, KillScan, ExitScan, scannerVars
    <3>2. ~ConsoleNext
      BY DEF ConsoleNext, Confirm, ManualAdd, Send, DeskUnchanged, Consume, OpenQueue,
         ReadForQueue, ShowQueue, Unavailable, LookUnchanged, scannerVars
    <3>3. ~ApplierNext
      BY DEF ApplierNext, CommandLine, Send, Apply, Reply, Fail, DeskUnchanged
    <3> QED BY <3>1, <3>2, <3>3 DEF DeskNext
  <2> DEFINE c == [id |-> <<day, JobOf[mail]>>, of |-> mail]
  <2>2. WantsCandidate(hits) BY DEF ScanReason
  <2>3. staged' = Put(staged, c) BY <2>1, <2>2 DEF StageCandidate
  <2>4. c \in staged' /\ c.of = mail BY <2>3 DEF Put
  <2> QED BY <2>4
<1> QED BY <1>1, <1>2, <1>3, PTL DEF DeskSpec, SkippedForAReason

\* The queue hides a staged card only if the scanner would not stage it
\* (candidates.py:101) by lists that were on disk at some moment while the
\* console read them, though the console has only the excerpt of the message to
\* match shapes against and the lists may be written under it.
THEOREM HiddenCardsAreSkipped == DeskSpec => HiddenIsSkipped
<1> DEFINE Inv == TInv /\ ScanTypes /\ DeskRest /\ LookReason
           Skips == \A c \in staged \ screen' :
               looking = "check" /\ looking' = "idle" /\ Exclusive(view) =>
                  c.of \in answered
<1>1. DeskInit => Inv BY DeskStarts, RestStarts, ReasonsStart
<1>2. Inv /\ [DeskNext]_deskVars => Inv'
  BY TypesHold, ScanTypesHold, RestHolds, LookReasonHolds
<1>3. Inv /\ [DeskNext]_deskVars => [Skips]_deskVars
  <2> SUFFICES ASSUME Inv, DeskNext, NEW c \in staged \ screen',
                      looking = "check", looking' = "idle", Exclusive(view)
               PROVE  c.of \in answered
    OBVIOUS
  <2>1. CASE ScannerNext
    BY <2>1 DEF ScannerNext, StartScan, LoadList, RefuseLists, Judge, JudgeStep,
       StageCandidate, KillScan, ExitScan, consoleVars
  <2>2. CASE ApplierNext
    BY <2>2 DEF ApplierNext, CommandLine, Send, Apply, Reply, Fail, DeskUnchanged
  <2>3. CASE ConsoleNext /\ ~ShowQueue
    BY <2>3 DEF ConsoleNext, Confirm, ManualAdd, Send, DeskUnchanged, Consume,
       OpenQueue, ReadForQueue, Reading, NextPlace, Unavailable
  <2>4. CASE ShowQueue
    <3>1. c \in Card BY DEF DeskRest
    <3>2. c.of \in Message /\ ~NeedsReview(view, c.of)
      BY <2>4, <3>1 DEF Card, ShowQueue
    <3>3. PICK l \in List : Excuses(l, view[l], c.of)
      BY <3>2, ExcerptErrsTowardsShowing, PassesIfExcused
    <3>4. l \in ReadBefore(looking) BY DEF ReadBefore
    <3> QED BY <3>2, <3>3, <3>4 DEF LookReason
  <2> QED BY <2>1, <2>2, <2>3, <2>4 DEF DeskNext
<1> QED BY <1>1, <1>2, <1>3, PTL DEF DeskSpec, HiddenIsSkipped

\* When appliers do not overlap, a scan is refused for the lists only because
\* they were written while it read them or a batch for two lists was sent, and
\* the list files themselves agree (cli.py:192).
THEOREM RefusalsHaveReasons ==
    ASSUME ~Overlap PROVE DeskSpec => [](RefusedForAReason /\ OneListEach)
<1> DEFINE Inv == TInv /\ SInv /\ ScanTypes /\ Reads
<1>1. DeskInit => Inv BY DeskStarts
<1>2. Inv /\ [DeskNext]_deskVars => Inv'
  BY TypesHold, ListsHold, ScanTypesHold, ReadsHold
<1>3. Inv => RefusedForAReason /\ OneListEach BY DEF Reads, SInv
<1> QED BY <1>1, <1>2, <1>3, PTL DEF DeskSpec

\* Idempotence across a crash with the scanner and the console at work beside
\* the applier (apply.py:38, apply.py:41), whose questions and answers the
\* documents are.
THEOREM DeskRedoingFinishes ==
    ASSUME ~Overlap PROVE DeskSpec => []RedoFinishes
<1>1. DeskInit => RInv BY RedoInit DEF DeskInit
<1>2. RInv /\ [DeskNext]_deskVars => RInv' BY RedoHolds
<1> QED BY <1>1, <1>2, RedoDone, PTL DEF DeskSpec
=============================================================================
