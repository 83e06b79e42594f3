----------------------------- MODULE ListsProofs -----------------------------
(***************************************************************************)
(* Proofs about Lists, for any domains, shapes, documents and appliers and *)
(* any number of crashes.  Type correctness holds whatever overlaps; the   *)
(* rest is proved for appliers that do not overlap, which is what the      *)
(* console's event loop gives and the command line has to respect.         *)
(*                                                                         *)
(* The argument: while an applier works, a file it has not marked dirty is *)
(* the file on disk, a list that gained nothing holds no key that the file *)
(* does not hold, and a document for one list lets one list gain at most.  *)
(* So a file that is written either only shrinks, or is written last.      *)
(*                                                                         *)
(* What a whole document does is shown by induction over its decisions, as *)
(* a statement about the least number that is not in a set: on each list   *)
(* it takes some entries away and puts some in, whatever the list held, so *)
(* doing it again to a list that has had it already changes nothing.       *)
(***************************************************************************)
EXTENDS Lists, TLAPS, WellFoundedInduction

\* A document under way was validated, an applier starts from nothing, and the
\* reading counts to three.
Sound ==
    /\ \A t \in Applier : Valid(doc[t])
    /\ \A t \in Applier : pc[t] = "idle" =>
          step[t] = 1 /\ dirty[t] = {} /\ gained[t] = {}
    /\ \A t \in Applier : pc[t] = "read" => step[t] \in {1, 2, 3}

\* No two appliers are at work at once.
Solo == \A t, u \in Applier : t # u /\ pc[t] \in Busy => pc[u] \notin Busy

OneTarget == \A t \in Applier : ~mixed /\ pc[t] \in Busy => ~TwoTargets(doc[t])

\* What the copies say of the files.
CleanIsFile(t) == \A l \in List : l \notin dirty[t] => mem[t][l] = files[l]
LostOnly(t) == \A l \in List : l \notin gained[t] => mem[t][l].keys \subseteq files[l].keys
GainIsTarget(t) ==
    \A l \in gained[t] : \E i \in DOMAIN doc[t] :
        IsListAction(doc[t][i]) /\ Target(doc[t][i]) = l

Follows(t) ==
    /\ pc[t] = "read" => /\ dirty[t] = {} /\ gained[t] = {}
                         /\ \A i \in {1, 2, 3} : i < step[t] =>
                               mem[t][Order[i]] = files[Order[i]]
    /\ pc[t] \in {"apply", "write"} => CleanIsFile(t) /\ LostOnly(t) /\ GainIsTarget(t)
    /\ pc[t] = "write" => Exclusive(mem[t])

FollowsAll == ~mixed => \A t \in Applier : Follows(t)

-----------------------------------------------------------------------------
(* Decisions *)

LEMMA TargetIsList ==
    ASSUME NEW d \in Decision, IsListAction(d)
    PROVE  Target(d) \in List
BY DEF Decision, IsListAction, Target, List

LEMMA WantedType ==
    ASSUME NEW d \in Decision, WellFormed(d)
    PROVE  Wanted(d) \subseteq Structure
<1>1. CASE d.action = "trust_all"
  <2>1. d.key \in Domain BY <1>1 DEF WellFormed, IsListAction, Target
  <2>2. [domain |-> d.key, name |-> CatchAll, disposition |-> "allowed"] \in Structure
    BY <2>1, ListsAssumption DEF Structure, Disposition
  <2> QED BY <1>1, <2>2 DEF Wanted
<1>2. CASE d.action = "greylist" /\ d.shape # NoShape
  <2>1. d.key \in Domain BY <1>2 DEF WellFormed, IsListAction, Target
  <2>2. d.shape \in Shape /\ d.disposition \in Disposition BY <1>2 DEF Decision
  <2>3. [domain |-> d.key, name |-> d.shape, disposition |-> d.disposition]
           \in Structure
    BY <2>1, <2>2 DEF Structure
  <2> QED BY <1>2, <2>3 DEF Wanted
<1>3. CASE d.action # "trust_all" /\ ~(d.action = "greylist" /\ d.shape # NoShape)
  BY <1>3 DEF Wanted
<1> QED BY <1>1, <1>2, <1>3

LEMMA EnteredType ==
    ASSUME NEW c \in Content, NEW d \in Decision, WellFormed(d)
    PROVE  Entered(c, d) \in Content
<1>1. c.keys \cup {d.key} \subseteq Key BY DEF Content, Decision
<1>2. c.shapes \subseteq Structure BY DEF Content
<1> QED BY <1>1, <1>2, WantedType DEF Entered, Content

LEMMA WithoutType ==
    ASSUME NEW c \in Content, NEW dom
    PROVE  Without(c, dom) \in Content /\ Without(c, dom).keys \subseteq c.keys
BY DEF Without, Content

\* A decision keeps the lists lists, and takes keys from every list but its
\* target.
LEMMA DecidedFacts ==
    ASSUME NEW lists \in [List -> Content], NEW d \in Decision, WellFormed(d)
    PROVE  /\ Decided(lists, d) \in [List -> Content]
           /\ \A l \in List : l # Target(d) =>
                 Decided(lists, d)[l].keys \subseteq lists[l].keys
           /\ ~IsListAction(d) => Decided(lists, d) = lists
<1>1. CASE ~IsListAction(d) BY <1>1 DEF Decided
<1>2. CASE IsListAction(d)
  <2>1. \A l \in List : lists[l] \in Content OBVIOUS
  <2>2. \A l \in List : /\ Entered(lists[l], d) \in Content
                        /\ Without(lists[l], Claimed(d.key)) \in Content
                        /\ Without(lists[l], Claimed(d.key)).keys \subseteq lists[l].keys
    BY <2>1, EnteredType, WithoutType
  <2> QED BY <1>2, <2>2 DEF Decided
<1> QED BY <1>1, <1>2

LEMMA EmptyType == Empty \in Content
BY DEF Empty, Content

LEMMA OrderType == \A i \in {1, 2, 3} : Order[i] \in List
BY DEF Order, List

-----------------------------------------------------------------------------
(* Type correctness *)

TInv == ListsTypeOK /\ Sound

LEMMA TypeInit == ListsInit => TInv
<1> SUFFICES ASSUME ListsInit PROVE TInv OBVIOUS
<1>1. <<>> \in Seq(Decision) /\ Valid(<<>>) BY DEF Valid
<1>2. [l \in List |-> Empty] \in [List -> Content] BY EmptyType
<1>3. files \in [List -> Content] BY ListsAssumption DEF ListsInit
<1>4. mem \in [Applier -> [List -> Content]] BY <1>2 DEF ListsInit
<1>5. doc \in [Applier -> Seq(Decision)] BY <1>1 DEF ListsInit
<1>6. /\ pc \in [Applier -> {"idle", "read", "apply", "write", "applied",
                             "refused", "previewed"}]
      /\ step \in [Applier -> Nat \ {0}]
      /\ dirty \in [Applier -> SUBSET List] /\ gained \in [Applier -> SUBSET List]
  BY DEF ListsInit
<1>7. faults \in 0 .. MaxFaults /\ mixed \in BOOLEAN
  <2>1. MaxFaults \in Nat BY ListsAssumption
  <2>2. faults = 0 BY DEF ListsInit
  <2>3. mixed \in BOOLEAN BY DEF ListsInit
  <2> QED BY <2>1, <2>2, <2>3
<1>8. Sound BY <1>1 DEF ListsInit, Sound
<1> QED BY <1>3, <1>4, <1>5, <1>6, <1>7, <1>8 DEF TInv, ListsTypeOK

LEMMA TypeForget ==
    ASSUME TInv, NEW t \in Applier, Forget(t), files' = files, mixed' = mixed,
           faults' \in 0 .. MaxFaults
    PROVE  TInv'
<1>1. <<>> \in Seq(Decision) /\ Valid(<<>>) BY DEF Valid
<1>2. [l \in List |-> Empty] \in [List -> Content] BY EmptyType
<1>3. mem' \in [Applier -> [List -> Content]]
  BY <1>2 DEF TInv, ListsTypeOK, Forget
<1>4. doc' \in [Applier -> Seq(Decision)] BY <1>1 DEF TInv, ListsTypeOK, Forget
<1>5. /\ pc' \in [Applier -> {"idle", "read", "apply", "write", "applied",
                              "refused", "previewed"}]
      /\ step' \in [Applier -> Nat \ {0}]
      /\ dirty' \in [Applier -> SUBSET List] /\ gained' \in [Applier -> SUBSET List]
  BY DEF TInv, ListsTypeOK, Forget
<1>6. Sound' BY <1>1 DEF TInv, ListsTypeOK, Sound, Forget
<1> QED BY <1>3, <1>4, <1>5, <1>6 DEF TInv, ListsTypeOK

LEMMA TypeSubmit ==
    ASSUME TInv, NEW t \in Applier, NEW ds \in Docs, Submit(t, ds)
    PROVE  TInv'
<1>1. ds \in Seq(Decision) /\ Valid(ds) BY ListsAssumption DEF Submit
<1>2. ListsTypeOK' BY <1>1 DEF TInv, ListsTypeOK, Submit
<1>3. Sound' BY <1>1 DEF TInv, ListsTypeOK, Sound, Submit
<1> QED BY <1>2, <1>3 DEF TInv

\* A step that moves one applier on and changes nothing else.
LEMMA TypeMove ==
    ASSUME TInv, NEW t \in Applier,
           NEW place \in {"write", "applied", "refused", "previewed"},
           pc' = [pc EXCEPT ![t] = place],
           UNCHANGED <<files, doc, step, mem, dirty, gained, faults, mixed>>
    PROVE  TInv'
BY DEF TInv, ListsTypeOK, Sound

LEMMA TypeRead ==
    ASSUME TInv, NEW t \in Applier, ReadList(t)
    PROVE  TInv'
<1> DEFINE l == Order[step[t]]
<1>1. step[t] \in {1, 2, 3} /\ l \in List
  BY OrderType DEF TInv, Sound, ReadList
<1>2. mem' \in [Applier -> [List -> Content]]
  <2>1. files[l] \in Content /\ mem[t] \in [List -> Content]
    BY <1>1 DEF TInv, ListsTypeOK
  <2>2. [mem[t] EXCEPT ![l] = files[l]] \in [List -> Content] BY <2>1
  <2>3. mem' = [mem EXCEPT ![t] = [mem[t] EXCEPT ![l] = files[l]]]
    BY DEF ReadList
  <2> QED BY <2>2, <2>3 DEF TInv, ListsTypeOK
<1>3. step' \in [Applier -> Nat \ {0}] BY <1>1 DEF TInv, ListsTypeOK, ReadList
<1>4. pc' \in [Applier -> {"idle", "read", "apply", "write", "applied",
                           "refused", "previewed"}]
  BY DEF TInv, ListsTypeOK, ReadList
<1>5. Sound'
  <2>1. \A u \in Applier : doc'[u] = doc[u] /\ dirty'[u] = dirty[u]
                           /\ gained'[u] = gained[u]
    BY DEF ReadList
  <2>2. \A u \in Applier \ {t} : pc'[u] = pc[u] /\ step'[u] = step[u]
    BY DEF ReadList, TInv, ListsTypeOK
  <2>3. pc'[t] = "read" => step[t] \in {1, 2} /\ step'[t] = step[t] + 1
    BY <1>1 DEF ReadList, TInv, ListsTypeOK
  <2>4. pc'[t] # "idle" BY DEF ReadList, TInv, ListsTypeOK
  <2> QED BY <2>1, <2>2, <2>3, <2>4 DEF TInv, Sound
<1> QED BY <1>2, <1>3, <1>4, <1>5 DEF TInv, ListsTypeOK, ReadList

LEMMA TypeApply ==
    ASSUME TInv, NEW t \in Applier, NEW retag \in BOOLEAN, ApplyOne(t, retag)
    PROVE  TInv'
<1> DEFINE d == doc[t][step[t]]
           after == Decided(mem[t], d)
           touched == {l \in List : after[l] # mem[t][l]}
                         \cup (IF retag THEN {Target(d)} ELSE {})
<1>1. doc[t] \in Seq(Decision) /\ step[t] \in DOMAIN doc[t]
  BY DEF TInv, ListsTypeOK, ApplyOne
<1>2. d \in Decision /\ WellFormed(d) BY <1>1 DEF TInv, Sound, Valid
<1>3. mem[t] \in [List -> Content] BY DEF TInv, ListsTypeOK
<1>4. after \in [List -> Content] BY <1>2, <1>3, DecidedFacts
<1>5. /\ retag => IsListAction(d)
      /\ mem' = [mem EXCEPT ![t] = after]
      /\ dirty' = [dirty EXCEPT ![t] = dirty[t] \cup touched]
      /\ gained' = [gained EXCEPT ![t] = gained[t] \cup (touched \cap {Target(d)})]
      /\ step' = [step EXCEPT ![t] = step[t] + 1]
      /\ pc[t] = "apply" /\ UNCHANGED <<files, pc, doc, faults, mixed>>
  BY DEF ApplyOne
<1>6. touched \subseteq List BY <1>2, <1>5, TargetIsList
<1>7. ListsTypeOK'
  <2>1. mem' \in [Applier -> [List -> Content]]
    BY <1>4, <1>5 DEF TInv, ListsTypeOK
  <2>2. dirty' \in [Applier -> SUBSET List] /\ gained' \in [Applier -> SUBSET List]
    BY <1>5, <1>6 DEF TInv, ListsTypeOK
  <2>3. step' \in [Applier -> Nat \ {0}] BY <1>5 DEF TInv, ListsTypeOK
  <2> QED BY <1>5, <2>1, <2>2, <2>3 DEF TInv, ListsTypeOK
<1>8. Sound'
  <2>1. \A u \in Applier \ {t} : step'[u] = step[u] /\ dirty'[u] = dirty[u]
                                 /\ gained'[u] = gained[u]
    BY <1>5 DEF TInv, ListsTypeOK
  <2> QED BY <1>5, <2>1 DEF TInv, Sound
<1> QED BY <1>7, <1>8 DEF TInv

LEMMA TypeWrite ==
    ASSUME TInv, NEW t \in Applier, NEW l \in List, WriteList(t, l)
    PROVE  TInv'
<1>1. mem[t][l] \in Content BY DEF TInv, ListsTypeOK
<1>2. ListsTypeOK' BY <1>1 DEF TInv, ListsTypeOK, WriteList
<1>3. Sound' BY DEF TInv, ListsTypeOK, Sound, WriteList
<1> QED BY <1>2, <1>3 DEF TInv

LEMMA TypeNext == ASSUME TInv, [ListsNext]_listVars PROVE TInv'
<1>1. ASSUME NEW t \in Applier, NEW ds \in Docs, Submit(t, ds) PROVE TInv'
  BY <1>1, TypeSubmit
<1>2. ASSUME NEW t \in Applier, NEW ds \in Docs, Reject(t, ds) PROVE TInv'
  BY <1>2, TypeMove DEF Reject
<1>3. ASSUME NEW t \in Applier, ReadList(t) PROVE TInv' BY <1>3, TypeRead
<1>4. ASSUME NEW t \in Applier, NEW retag \in BOOLEAN, ApplyOne(t, retag) PROVE TInv'
  BY <1>4, TypeApply
<1>5. ASSUME NEW t \in Applier, Accept(t) PROVE TInv' BY <1>5, TypeMove DEF Accept
<1>6. ASSUME NEW t \in Applier, RefuseResult(t) PROVE TInv'
  BY <1>6, TypeMove DEF RefuseResult
<1>7. ASSUME NEW t \in Applier, Preview(t) PROVE TInv' BY <1>7, TypeMove DEF Preview
<1>8. ASSUME NEW t \in Applier, NEW l \in List, WriteList(t, l) PROVE TInv'
  BY <1>8, TypeWrite
<1>9. ASSUME NEW t \in Applier, Finish(t) PROVE TInv' BY <1>9, TypeMove DEF Finish
<1>10. ASSUME NEW t \in Applier, Crash(t) PROVE TInv'
  <2>1. faults' \in 0 .. MaxFaults
    BY <1>10, ListsAssumption DEF Crash, Fault, TInv, ListsTypeOK
  <2> QED BY <1>10, <2>1, TypeForget DEF Crash
<1>11. ASSUME NEW t \in Applier, Answer(t) PROVE TInv'
  BY <1>11, TypeForget DEF Answer, TInv, ListsTypeOK
<1>12. CASE UNCHANGED listVars BY <1>12 DEF TInv, ListsTypeOK, Sound, listVars
<1> QED
  BY <1>1, <1>2, <1>3, <1>4, <1>5, <1>6, <1>7, <1>8, <1>9, <1>10, <1>11, <1>12
     DEF ListsNext, ApplierStep


-----------------------------------------------------------------------------
(* One list each *)

\* Single-list documents, appliers that do not overlap.
SInv == Solo /\ OneTarget /\ FollowsAll /\ OneListEach

LEMMA SafeInit == ListsInit => SInv
<1> SUFFICES ASSUME ListsInit PROVE SInv OBVIOUS
<1>1. Exclusive(files) BY ListsAssumption DEF ListsInit
<1>2. \A t \in Applier : pc[t] = "idle" BY DEF ListsInit
<1> QED BY <1>1, <1>2 DEF SInv, Solo, OneTarget, FollowsAll, Follows, OneListEach, Busy

\* A step that leaves the files alone and sends one applier out of work keeps
\* everything.
LEMMA SafeIdle ==
    ASSUME TInv, SInv, NEW t \in Applier, NEW place, place \notin Busy,
           pc' = [pc EXCEPT ![t] = place], files' = files, mixed' = mixed,
           \A u \in Applier \ {t} : /\ doc'[u] = doc[u] /\ step'[u] = step[u]
                                    /\ mem'[u] = mem[u] /\ dirty'[u] = dirty[u]
                                    /\ gained'[u] = gained[u]
    PROVE  SInv'
<1>1. pc'[t] \notin Busy /\ \A u \in Applier \ {t} : pc'[u] = pc[u]
  BY DEF TInv, ListsTypeOK
<1>2. Solo' BY <1>1 DEF SInv, Solo
<1>3. OneTarget' BY <1>1 DEF SInv, OneTarget
<1>4. \A u \in Applier \ {t} : ~mixed => Follows(u)'
  BY <1>1 DEF SInv, FollowsAll, Follows, CleanIsFile, LostOnly, GainIsTarget
<1>5. Follows(t)' BY <1>1 DEF Follows, Busy
<1>6. FollowsAll' BY <1>4, <1>5 DEF FollowsAll
<1>7. OneListEach' BY DEF SInv, OneListEach, Exclusive
<1> QED BY <1>2, <1>3, <1>6, <1>7 DEF SInv

LEMMA SafeForget ==
    ASSUME TInv, SInv, NEW t \in Applier, Forget(t), files' = files, mixed' = mixed
    PROVE  SInv'
<1>1. pc' = [pc EXCEPT ![t] = "idle"] /\ "idle" \notin Busy BY DEF Forget, Busy
<1>2. \A u \in Applier \ {t} : /\ doc'[u] = doc[u] /\ step'[u] = step[u]
                                /\ mem'[u] = mem[u] /\ dirty'[u] = dirty[u]
                                /\ gained'[u] = gained[u]
  BY DEF Forget, TInv, ListsTypeOK
<1> QED BY <1>1, <1>2, SafeIdle

LEMMA SafeSubmit ==
    ASSUME ~Overlap, TInv, SInv, NEW t \in Applier, NEW ds \in Docs, Submit(t, ds)
    PROVE  SInv'
<1>1. /\ pc[t] = "idle" /\ \A u \in Applier \ {t} : pc[u] \notin Busy
      /\ pc'[t] = "read" /\ \A u \in Applier \ {t} : pc'[u] = pc[u]
      /\ doc'[t] = ds /\ mixed' = (mixed \/ TwoTargets(ds))
      /\ UNCHANGED <<files, step, mem, dirty, gained, faults>>
  BY DEF Submit, MayStart, TInv, ListsTypeOK
<1>2. step[t] = 1 /\ dirty[t] = {} /\ gained[t] = {} BY <1>1 DEF TInv, Sound
<1>3. Solo' BY <1>1 DEF Solo
<1>4. OneTarget' BY <1>1 DEF OneTarget
<1>5. FollowsAll' BY <1>1, <1>2 DEF FollowsAll, Follows, Busy
<1>6. OneListEach' BY <1>1 DEF SInv, OneListEach, Exclusive
<1> QED BY <1>3, <1>4, <1>5, <1>6 DEF SInv

LEMMA SafeRead ==
    ASSUME TInv, SInv, NEW t \in Applier, ReadList(t)
    PROVE  SInv'
<1> DEFINE l == Order[step[t]]
<1>1. /\ pc[t] = "read" /\ step[t] \in {1, 2, 3} /\ l \in List
      /\ UNCHANGED <<files, doc, dirty, gained, faults, mixed>>
  BY OrderType DEF TInv, Sound, ReadList
<1>2. /\ pc'[t] = IF step[t] = 3 THEN "apply" ELSE "read"
      /\ step'[t] = IF step[t] = 3 THEN 1 ELSE step[t] + 1
      /\ \A u \in Applier \ {t} : pc'[u] = pc[u] /\ step'[u] = step[u]
                                  /\ mem'[u] = mem[u]
  BY <1>1 DEF ReadList, TInv, ListsTypeOK
<1>3. mem'[t][l] = files[l] /\ \A k \in List \ {l} : mem'[t][k] = mem[t][k]
  <2>1. mem[t] \in [List -> Content] BY DEF TInv, ListsTypeOK
  <2>2. mem'[t] = [mem[t] EXCEPT ![l] = files[l]] BY DEF ReadList, TInv, ListsTypeOK
  <2> QED BY <1>1, <2>1, <2>2
<1>4. Solo' BY <1>1, <1>2 DEF SInv, Solo, Busy
<1>5. OneTarget' BY <1>1, <1>2 DEF SInv, OneTarget, Busy
<1>6. FollowsAll'
  <2>1. SUFFICES ASSUME ~mixed, NEW u \in Applier PROVE Follows(u)'
    BY <1>1 DEF FollowsAll
  <2>2. CASE u # t
    BY <1>1, <1>2, <2>1, <2>2
       DEF SInv, FollowsAll, Follows, CleanIsFile, LostOnly, GainIsTarget
  <2>3. CASE u = t
    <3>1. /\ dirty[t] = {} /\ gained[t] = {}
          /\ \A i \in {1, 2, 3} : i < step[t] => mem[t][Order[i]] = files[Order[i]]
      BY <1>1, <2>1 DEF SInv, FollowsAll, Follows
    <3>2. \A i \in {1, 2, 3} : i <= step[t] => mem'[t][Order[i]] = files[Order[i]]
      BY <1>1, <1>3, <3>1, OrderType
    <3>3. CASE step[t] # 3
      BY <1>1, <1>2, <2>3, <3>1, <3>2, <3>3 DEF Follows
    <3>4. CASE step[t] = 3
      <4>1. \A k \in List : mem'[t][k] = files[k]
        BY <3>2, <3>4 DEF List, Order
      <4> QED
        BY <1>1, <1>2, <2>3, <3>1, <3>4, <4>1
           DEF Follows, CleanIsFile, LostOnly, GainIsTarget
    <3> QED BY <3>3, <3>4
  <2> QED BY <2>2, <2>3
<1>7. OneListEach' BY <1>1 DEF SInv, OneListEach, Exclusive
<1> QED BY <1>4, <1>5, <1>6, <1>7 DEF SInv

LEMMA SafeApply ==
    ASSUME TInv, SInv, NEW t \in Applier, NEW retag \in BOOLEAN, ApplyOne(t, retag)
    PROVE  SInv'
<1> DEFINE d == doc[t][step[t]]
           after == Decided(mem[t], d)
           touched == {l \in List : after[l] # mem[t][l]}
                         \cup (IF retag THEN {Target(d)} ELSE {})
<1>1. /\ pc[t] = "apply" /\ step[t] \in DOMAIN doc[t] /\ doc[t] \in Seq(Decision)
      /\ d \in Decision /\ WellFormed(d) /\ mem[t] \in [List -> Content]
      /\ retag => IsListAction(d)
      /\ UNCHANGED <<files, pc, doc, faults, mixed>>
  BY DEF ApplyOne, TInv, ListsTypeOK, Sound, Valid
<1>2. /\ mem'[t] = after /\ dirty'[t] = dirty[t] \cup touched
      /\ gained'[t] = gained[t] \cup (touched \cap {Target(d)})
      /\ \A u \in Applier \ {t} : /\ mem'[u] = mem[u] /\ dirty'[u] = dirty[u]
                                  /\ gained'[u] = gained[u] /\ step'[u] = step[u]
  BY DEF ApplyOne, TInv, ListsTypeOK
<1>3. /\ after \in [List -> Content]
      /\ \A l \in List : l # Target(d) => after[l].keys \subseteq mem[t][l].keys
      /\ ~IsListAction(d) => after = mem[t]
  BY <1>1, DecidedFacts
<1>4. Solo' /\ OneTarget' /\ OneListEach'
  BY <1>1 DEF SInv, Solo, OneTarget, OneListEach, Exclusive
<1>5. FollowsAll'
  <2>1. SUFFICES ASSUME ~mixed, NEW u \in Applier PROVE Follows(u)'
    BY <1>1 DEF FollowsAll
  <2>2. CASE u # t
    BY <1>1, <1>2, <2>1, <2>2
       DEF SInv, FollowsAll, Follows, CleanIsFile, LostOnly, GainIsTarget
  <2>3. CASE u = t
    <3>1. CleanIsFile(t) /\ LostOnly(t) /\ GainIsTarget(t)
      BY <1>1, <2>1 DEF SInv, FollowsAll, Follows
    <3>2. CleanIsFile(t)' BY <1>1, <1>2, <3>1 DEF CleanIsFile
    <3>3. LostOnly(t)'
      <4>1. SUFFICES ASSUME NEW l \in List, l \notin gained'[t]
                     PROVE  after[l].keys \subseteq files[l].keys
        BY <1>1, <1>2 DEF LostOnly
      <4>2. mem[t][l].keys \subseteq files[l].keys BY <1>2, <3>1, <4>1 DEF LostOnly
      <4>3. l = Target(d) => after[l] = mem[t][l] BY <1>2, <4>1
      <4> QED BY <1>3, <4>2, <4>3
    <3>4. GainIsTarget(t)'
      <4>1. SUFFICES ASSUME NEW l \in touched \cap {Target(d)}
                     PROVE  IsListAction(d)
        BY <1>1, <1>2, <3>1 DEF GainIsTarget
      <4> QED BY <1>1, <1>3, <4>1
    <3> QED BY <1>1, <2>3, <3>2, <3>3, <3>4 DEF Follows
  <2> QED BY <2>2, <2>3
<1> QED BY <1>4, <1>5 DEF SInv

\* A list written out of a copy that is exclusive leaves the files exclusive:
\* it shrank, or every file that still waits was to lose.
LEMMA SafeWrite ==
    ASSUME TInv, SInv, NEW t \in Applier, NEW l \in List, WriteList(t, l)
    PROVE  SInv'
<1>1. /\ pc[t] = "write" /\ IsNext(t, l)
      /\ files' = [files EXCEPT ![l] = mem[t][l]]
      /\ dirty' = [dirty EXCEPT ![t] = dirty[t] \ {l}]
      /\ UNCHANGED <<pc, doc, step, mem, gained, faults, mixed>>
  BY DEF WriteList
<1>2. /\ files'[l] = mem[t][l] /\ \A k \in List \ {l} : files'[k] = files[k]
      /\ dirty'[t] = dirty[t] \ {l}
      /\ \A u \in Applier \ {t} : dirty'[u] = dirty[u] /\ pc[u] \notin Busy
  BY <1>1 DEF TInv, ListsTypeOK, SInv, Solo, Busy
<1>3. Solo' /\ OneTarget' BY <1>1 DEF SInv, Solo, OneTarget
<1>4. ASSUME ~mixed
      PROVE  CleanIsFile(t) /\ LostOnly(t) /\ GainIsTarget(t) /\ Exclusive(mem[t])
             /\ Exclusive(files) /\ ~TwoTargets(doc[t])
  BY <1>1, <1>4 DEF SInv, FollowsAll, Follows, OneListEach, OneTarget, Busy
<1>5. ASSUME ~mixed, NEW k \in List \ {l}
      PROVE  Claims(files[k]) \cap Claims(mem[t][l]) = {}
  <2>1. CASE k \notin dirty[t]
    <3>1. files[k] = mem[t][k] BY <1>4, <1>5, <2>1 DEF CleanIsFile
    <3> QED BY <1>4, <1>5, <3>1 DEF Exclusive
  <2>2. CASE l \notin gained[t]
    <3>1. mem[t][l].keys \subseteq files[l].keys BY <1>4, <1>5, <2>2 DEF LostOnly
    <3>2. Claims(mem[t][l]) \subseteq Claims(files[l]) BY <3>1 DEF Claims
    <3>3. Claims(files[k]) \cap Claims(files[l]) = {} BY <1>4, <1>5 DEF Exclusive
    <3> QED BY <3>2, <3>3
  <2>3. CASE k \in dirty[t] /\ l \in gained[t]
    <3>1. k \in gained[t] BY <1>1, <2>3 DEF IsNext, WrittenBefore
    <3>2. gained[t] \subseteq List BY DEF TInv, ListsTypeOK
    <3>3. PICK i \in DOMAIN doc[t] : IsListAction(doc[t][i]) /\ Target(doc[t][i]) = k
      BY <1>4, <1>5, <3>1 DEF GainIsTarget
    <3>4. PICK j \in DOMAIN doc[t] : IsListAction(doc[t][j]) /\ Target(doc[t][j]) = l
      BY <1>4, <1>5, <2>3 DEF GainIsTarget
    <3> QED BY <1>4, <1>5, <3>3, <3>4 DEF TwoTargets
  <2> QED BY <2>1, <2>2, <2>3
<1>6. OneListEach'
  <2>1. ASSUME ~mixed, NEW k1 \in List, NEW k2 \in List, k1 # k2
        PROVE  Claims(files'[k1]) \cap Claims(files'[k2]) = {}
    <3>1. CASE k1 # l /\ k2 # l BY <1>2, <1>4, <2>1, <3>1 DEF Exclusive
    <3>2. CASE k1 = l BY <1>2, <1>5, <2>1, <3>2
    <3>3. CASE k2 = l BY <1>2, <1>5, <2>1, <3>3
    <3> QED BY <3>1, <3>2, <3>3
  <2> QED BY <1>1, <2>1 DEF OneListEach, Exclusive
<1>7. FollowsAll'
  <2>1. SUFFICES ASSUME ~mixed, NEW u \in Applier PROVE Follows(u)'
    BY <1>1 DEF FollowsAll
  <2>2. CASE u # t BY <1>1, <1>2, <2>2 DEF Follows, Busy
  <2>3. CASE u = t
    <3>1. CleanIsFile(t)' BY <1>1, <1>2, <1>4, <2>1 DEF CleanIsFile
    <3>2. LostOnly(t)' BY <1>1, <1>2, <1>4, <2>1 DEF LostOnly
    <3>3. GainIsTarget(t)' BY <1>1, <1>4, <2>1 DEF GainIsTarget
    <3>4. Exclusive(mem[t])' BY <1>1, <1>4, <2>1 DEF Exclusive
    <3> QED BY <1>1, <2>3, <3>1, <3>2, <3>3, <3>4 DEF Follows
  <2> QED BY <2>2, <2>3
<1> QED BY <1>3, <1>6, <1>7 DEF SInv

LEMMA SafeAccept ==
    ASSUME TInv, SInv, NEW t \in Applier, Accept(t)
    PROVE  SInv'
<1>1. /\ pc[t] = "apply" /\ pc'[t] = "write" /\ Exclusive(mem[t])
      /\ \A u \in Applier \ {t} : pc'[u] = pc[u]
      /\ UNCHANGED <<files, doc, step, mem, dirty, gained, faults, mixed>>
  BY DEF Accept, AllApplied, TInv, ListsTypeOK
<1>2. Solo' /\ OneTarget' BY <1>1 DEF SInv, Solo, OneTarget, Busy
<1>3. OneListEach' BY <1>1 DEF SInv, OneListEach, Exclusive
<1>4. FollowsAll'
  BY <1>1 DEF SInv, FollowsAll, Follows, CleanIsFile, LostOnly, GainIsTarget, Exclusive
<1> QED BY <1>2, <1>3, <1>4 DEF SInv

LEMMA SafeNext ==
    ASSUME ~Overlap, TInv, SInv, [ListsNext]_listVars
    PROVE  SInv'
<1>1. ASSUME NEW t \in Applier, NEW ds \in Docs, Submit(t, ds) PROVE SInv'
  BY <1>1, SafeSubmit
<1>2. ASSUME NEW t \in Applier, NEW ds \in Docs, Reject(t, ds) PROVE SInv'
  BY <1>2, SafeIdle DEF Reject, Busy
<1>3. ASSUME NEW t \in Applier, ReadList(t) PROVE SInv' BY <1>3, SafeRead
<1>4. ASSUME NEW t \in Applier, NEW retag \in BOOLEAN, ApplyOne(t, retag) PROVE SInv'
  BY <1>4, SafeApply
<1>5. ASSUME NEW t \in Applier, Accept(t) PROVE SInv' BY <1>5, SafeAccept
<1>6. ASSUME NEW t \in Applier, RefuseResult(t) PROVE SInv'
  BY <1>6, SafeIdle DEF RefuseResult, Busy
<1>7. ASSUME NEW t \in Applier, Preview(t) PROVE SInv'
  BY <1>7, SafeIdle DEF Preview, Busy
<1>8. ASSUME NEW t \in Applier, NEW l \in List, WriteList(t, l) PROVE SInv'
  BY <1>8, SafeWrite
<1>9. ASSUME NEW t \in Applier, Finish(t) PROVE SInv'
  BY <1>9, SafeIdle DEF Finish, Busy
<1>10. ASSUME NEW t \in Applier, Crash(t) PROVE SInv' BY <1>10, SafeForget DEF Crash
<1>11. ASSUME NEW t \in Applier, Answer(t) PROVE SInv' BY <1>11, SafeForget DEF Answer
<1>12. CASE UNCHANGED listVars
  <2>1. UNCHANGED <<files, pc, doc, step, mem, dirty, gained, mixed>>
    BY <1>12 DEF listVars
  <2>2. Solo' /\ OneTarget' BY <2>1 DEF SInv, Solo, OneTarget
  <2>3. FollowsAll'
    BY <2>1 DEF SInv, FollowsAll, Follows, CleanIsFile, LostOnly, GainIsTarget,
                Exclusive
  <2>4. OneListEach' BY <2>1 DEF SInv, OneListEach, Exclusive
  <2> QED BY <2>2, <2>3, <2>4 DEF SInv
<1> QED
  BY <1>1, <1>2, <1>3, <1>4, <1>5, <1>6, <1>7, <1>8, <1>9, <1>10, <1>11, <1>12
     DEF ListsNext, ApplierStep

-----------------------------------------------------------------------------
(* A document as a whole: induction over its decisions *)

\* The least-number principle for sets, and with it induction.
LEMMA LeastNatural ==
    ASSUME NEW T, T \subseteq Nat, T # {}
    PROVE  \E m \in T : \A k \in T : ~(k < m)
<1> DEFINE Less == OpToRel(<, Nat)
<1>1. IsWellFoundedOn(Less, Nat) BY NatLessThanWellFounded
<1> HIDE DEF Less
<1>2. PICK m \in T : \A k \in T : <<k, m>> \notin Less BY <1>1, WFMin
<1>3. \A k \in T : k < m => <<k, m>> \in Less BY DEF Less, OpToRel
<1> QED BY <1>2, <1>3

LEMMA SetInduction ==
    ASSUME NEW T, 0 \in T, \A n \in Nat : n \in T => n + 1 \in T
    PROVE  Nat \subseteq T
<1> SUFFICES ASSUME Nat \ T # {} PROVE FALSE OBVIOUS
<1>1. PICK m \in Nat \ T : \A k \in Nat \ T : ~(k < m) BY LeastNatural
<1>2. m # 0 /\ m - 1 \in Nat /\ m - 1 < m OBVIOUS
<1>3. m - 1 \in T BY <1>1, <1>2
<1>4. (m - 1) + 1 \in T BY <1>2, <1>3
<1> QED BY <1>1, <1>4

\* After is the function its definition describes.
LEMMA AfterIs ==
    ASSUME NEW lists, NEW ds, Len(ds) \in Nat
    PROVE  /\ After(lists, ds)[0] = lists
           /\ \A i \in 1 .. Len(ds) :
                 After(lists, ds)[i] = Decided(After(lists, ds)[i - 1], ds[i])
<1> DEFINE Next(f, i) == IF i = 0 THEN lists ELSE Decided(f[i - 1], ds[i])
           T == {n \in Nat : \E f : f = [i \in 0 .. n |-> Next(f, i)]}
<1>1. 0 \in T
  <2> DEFINE f == [i \in 0 .. 0 |-> lists]
  <2>1. f = [i \in 0 .. 0 |-> Next(f, i)] OBVIOUS
  <2> QED BY <2>1
<1>2. ASSUME NEW n \in Nat, n \in T PROVE n + 1 \in T
  <2>1. PICK f : f = [i \in 0 .. n |-> Next(f, i)] BY <1>2
  <2> DEFINE g == [i \in 0 .. n + 1 |-> IF i <= n THEN f[i] ELSE Next(f, i)]
  <2>2. \A i \in 0 .. n + 1 : g[i] = Next(g, i)
    <3>1. ASSUME NEW i \in 0 .. n + 1 PROVE g[i] = Next(f, i) BY <2>1
    <3>2. ASSUME NEW i \in 1 .. n + 1 PROVE g[i - 1] = f[i - 1] OBVIOUS
    <3> QED BY <3>1, <3>2
  <2>3. g = [i \in 0 .. n + 1 |-> Next(g, i)] BY <2>2
  <2>4. \E h : h = [i \in 0 .. n + 1 |-> Next(h, i)]
    <3> HIDE DEF g
    <3> QED BY <2>3
  <2> QED BY <2>4
<1>3. Len(ds) \in T BY <1>1, <1>2, SetInduction
<1>4. \E f : f = [i \in 0 .. Len(ds) |-> Next(f, i)] BY <1>3
<1>5. After(lists, ds) = [i \in 0 .. Len(ds) |-> Next(After(lists, ds), i)]
  BY <1>4 DEF After
<1> QED BY <1>5

(* What a document does to one list: some entries go, some come, the others    *)
(* stay as they were.                                                          *)

Mask == [lost : SUBSET Key, won : SUBSET Key,
         dropped : SUBSET Structure, entered : SUBSET Structure]
Masked(c, g) == [keys |-> (c.keys \ g.lost) \cup g.won,
                 shapes |-> (c.shapes \ g.dropped) \cup g.entered]

LEMMA MaskTwice ==
    ASSUME NEW c \in Content, NEW g \in Mask
    PROVE  Masked(c, g) \in Content /\ Masked(Masked(c, g), g) = Masked(c, g)
<1>1. /\ c.keys \subseteq Key /\ c.shapes \subseteq Structure
      /\ g.won \subseteq Key /\ g.entered \subseteq Structure
  BY DEF Content, Mask
<1> QED BY <1>1 DEF Content, Masked

LEMMA MaskAfterMask ==
    ASSUME NEW g \in Mask, NEW h \in Mask
    PROVE  \E k \in Mask : \A c \in Content : Masked(Masked(c, g), h) = Masked(c, k)
<1> DEFINE k == [lost |-> g.lost \cup h.lost,
                 won |-> (g.won \ h.lost) \cup h.won,
                 dropped |-> g.dropped \cup h.dropped,
                 entered |-> (g.entered \ h.dropped) \cup h.entered]
<1>1. k \in Mask BY DEF Mask
<1>2. ASSUME NEW c \in Content PROVE Masked(Masked(c, g), h) = Masked(c, k)
  <2>1. (((c.keys \ g.lost) \cup g.won) \ h.lost) \cup h.won
          = (c.keys \ k.lost) \cup k.won
    OBVIOUS
  <2>2. (((c.shapes \ g.dropped) \cup g.entered) \ h.dropped) \cup h.entered
          = (c.shapes \ k.dropped) \cup k.entered
    OBVIOUS
  <2> QED BY <2>1, <2>2 DEF Masked
<1> QED BY <1>1, <1>2

LEMMA OneMask ==
    ASSUME NEW d \in Decision, WellFormed(d), NEW l \in List
    PROVE  \E g \in Mask : \A lists \in [List -> Content] :
               Decided(lists, d)[l] = Masked(lists[l], g)
<1> DEFINE none == [lost |-> {}, won |-> {}, dropped |-> {}, entered |-> {}]
           enter == [lost |-> {}, won |-> {d.key},
                     dropped |-> {s \in Structure : \E w \in Wanted(d) :
                                    s.domain = w.domain /\ s.name = w.name},
                     entered |-> Wanted(d)]
           leave == [lost |-> {k \in Key : Claimed(k) = Claimed(d.key)},
                     won |-> {},
                     dropped |-> {s \in Structure : s.domain = Claimed(d.key)},
                     entered |-> {}]
<1>1. CASE ~IsListAction(d)
  <2>1. none \in Mask BY DEF Mask
  <2>2. ASSUME NEW c \in Content PROVE c = Masked(c, none)
    BY DEF Content, Masked
  <2>3. \A lists \in [List -> Content] :
          Decided(lists, d)[l] = Masked(lists[l], none)
    BY <1>1, <2>2 DEF Decided
  <2> QED BY <2>1, <2>3
<1>2. CASE IsListAction(d) /\ l = Target(d)
  <2>1. d.key \in Key BY DEF Decision
  <2>2. enter \in Mask BY <2>1, WantedType DEF Mask
  <2>3. ASSUME NEW c \in Content PROVE Entered(c, d) = Masked(c, enter)
    <3>1. c.shapes \subseteq Structure BY DEF Content
    <3>2. {s \in c.shapes : \A w \in Wanted(d) :
                               s.domain # w.domain \/ s.name # w.name}
             = c.shapes \ enter.dropped
      BY <3>1
    <3> QED BY <3>2 DEF Entered, Masked
  <2>4. \A lists \in [List -> Content] :
          Decided(lists, d)[l] = Masked(lists[l], enter)
    BY <1>2, <2>3 DEF Decided
  <2> QED BY <2>2, <2>4
<1>3. CASE IsListAction(d) /\ l # Target(d)
  <2>1. leave \in Mask BY DEF Mask
  <2>2. ASSUME NEW c \in Content
        PROVE  Without(c, Claimed(d.key)) = Masked(c, leave)
    <3>1. c.keys \subseteq Key /\ c.shapes \subseteq Structure BY DEF Content
    <3> QED BY <3>1 DEF Without, Masked
  <2>3. \A lists \in [List -> Content] :
          Decided(lists, d)[l] = Masked(lists[l], leave)
    BY <1>3, <2>2 DEF Decided
  <2> QED BY <2>1, <2>3
<1> QED BY <1>1, <1>2, <1>3

LEMMA AfterType ==
    ASSUME NEW lists \in [List -> Content], NEW ds \in Seq(Decision),
           \A i \in DOMAIN ds : WellFormed(ds[i])
    PROVE  \A i \in 0 .. Len(ds) : After(lists, ds)[i] \in [List -> Content]
<1> DEFINE T == {i \in Nat : i <= Len(ds) =>
                               After(lists, ds)[i] \in [List -> Content]}
<1>1. Len(ds) \in Nat /\ DOMAIN ds = 1 .. Len(ds) OBVIOUS
<1>2. 0 \in T BY <1>1, AfterIs
<1>3. ASSUME NEW i \in Nat, i \in T PROVE i + 1 \in T
  <2>1. CASE i + 1 <= Len(ds)
    <3>1. i + 1 \in DOMAIN ds /\ After(lists, ds)[i] \in [List -> Content]
      BY <1>1, <1>3, <2>1
    <3>2. ds[i + 1] \in Decision /\ WellFormed(ds[i + 1]) BY <3>1
    <3>3. After(lists, ds)[i + 1] = Decided(After(lists, ds)[i], ds[i + 1])
      BY <1>1, <2>1, AfterIs
    <3> QED BY <3>1, <3>2, <3>3, DecidedFacts
  <2> QED BY <2>1
<1> HIDE DEF T
<1>4. Nat \subseteq T BY <1>2, <1>3, SetInduction
<1> QED BY <1>1, <1>4 DEF T

\* Each list goes through a document by itself, and through a mask.
LEMMA AfterMask ==
    ASSUME NEW ds \in Seq(Decision), \A i \in DOMAIN ds : WellFormed(ds[i]),
           NEW l \in List
    PROVE  \E g \in Mask : \A lists \in [List -> Content] :
               AllDecided(lists, ds)[l] = Masked(lists[l], g)
<1> DEFINE T == {i \in Nat : i <= Len(ds) =>
                   \E g \in Mask : \A lists \in [List -> Content] :
                      After(lists, ds)[i][l] = Masked(lists[l], g)}
<1>1. Len(ds) \in Nat /\ DOMAIN ds = 1 .. Len(ds) OBVIOUS
<1>2. 0 \in T
  <2> DEFINE none == [lost |-> {}, won |-> {}, dropped |-> {}, entered |-> {}]
  <2>1. none \in Mask BY DEF Mask
  <2>2. \A c \in Content : c = Masked(c, none) BY DEF Content, Masked
  <2>3. \A lists \in [List -> Content] :
          After(lists, ds)[0][l] = Masked(lists[l], none)
    BY <1>1, <2>2, AfterIs
  <2> HIDE DEF none
  <2> QED BY <2>1, <2>3
<1>3. ASSUME NEW i \in Nat, i \in T PROVE i + 1 \in T
  <2>1. ASSUME i + 1 <= Len(ds)
        PROVE  \E g \in Mask : \A lists \in [List -> Content] :
                  After(lists, ds)[i + 1][l] = Masked(lists[l], g)
    <3>1. i + 1 \in DOMAIN ds BY <1>1, <2>1
    <3>2. ds[i + 1] \in Decision /\ WellFormed(ds[i + 1]) BY <3>1
    <3>3. PICK g \in Mask : \A lists \in [List -> Content] :
                               After(lists, ds)[i][l] = Masked(lists[l], g)
      BY <1>1, <1>3, <2>1
    <3>4. PICK h \in Mask : \A lists \in [List -> Content] :
                               Decided(lists, ds[i + 1])[l] = Masked(lists[l], h)
      BY <3>2, OneMask
    <3>5. PICK k \in Mask : \A c \in Content :
                               Masked(Masked(c, g), h) = Masked(c, k)
      BY MaskAfterMask
    <3>6. ASSUME NEW lists \in [List -> Content]
          PROVE  After(lists, ds)[i + 1][l] = Masked(lists[l], k)
      <4>1. After(lists, ds)[i + 1] = Decided(After(lists, ds)[i], ds[i + 1])
        BY <1>1, <2>1, AfterIs
      <4>2. After(lists, ds)[i] \in [List -> Content]
        BY <1>1, <2>1, AfterType
      <4>3. After(lists, ds)[i + 1][l] = Masked(Masked(lists[l], g), h)
        BY <3>3, <3>4, <4>1, <4>2
      <4> QED BY <3>5, <4>3
    <3> QED BY <3>6
  <2> QED BY <2>1
<1> HIDE DEF T
<1>4. Len(ds) \in T BY <1>1, <1>2, <1>3, SetInduction
<1> QED BY <1>1, <1>4 DEF T, AllDecided

\* Idempotence, also half-way: whichever of the lists a document has already
\* been written to, applying it again to all three ends in the same lists.
THEOREM RedoIsHarmless ==
    ASSUME NEW ds \in Seq(Decision), \A i \in DOMAIN ds : WellFormed(ds[i]),
           NEW lists \in [List -> Content], NEW half \in [List -> Content],
           \A l \in List : half[l] \in {lists[l], AllDecided(lists, ds)[l]}
    PROVE  AllDecided(half, ds) = AllDecided(lists, ds)
<1>1. ASSUME NEW l \in List PROVE AllDecided(half, ds)[l] = AllDecided(lists, ds)[l]
  <2>1. PICK g \in Mask : \A other \in [List -> Content] :
                             AllDecided(other, ds)[l] = Masked(other[l], g)
    BY AfterMask
  <2>2. CASE half[l] = lists[l] BY <2>1, <2>2
  <2>3. CASE half[l] = Masked(lists[l], g)
    <3>1. lists[l] \in Content OBVIOUS
    <3>2. AllDecided(half, ds)[l] = Masked(Masked(lists[l], g), g)
      BY <2>1, <2>3
    <3> QED BY <2>1, <3>1, <3>2, MaskTwice
  <2> QED BY <2>1, <2>2, <2>3
<1>2. /\ AllDecided(half, ds) \in [List -> Content]
      /\ AllDecided(lists, ds) \in [List -> Content]
  BY AfterType DEF AllDecided
<1> QED BY <1>1, <1>2

(* Applying a document again *)

\* An applier's copies are what its document makes of the files, as far as it
\* has come, and a file without changes to write is its copy.
Redoes(t) ==
    /\ pc[t] = "read" =>
          /\ dirty[t] = {}
          /\ \A i \in {1, 2, 3} : i < step[t] => mem[t][Order[i]] = files[Order[i]]
    /\ pc[t] = "apply" =>
          /\ step[t] \in 1 .. Len(doc[t]) + 1
          /\ mem[t] = After(files, doc[t])[step[t] - 1]
    /\ pc[t] = "write" => mem[t] = AllDecided(files, doc[t])
    /\ pc[t] \in {"apply", "write"} => CleanIsFile(t)

RInv == TInv /\ Solo /\ \A t \in Applier : Redoes(t)

\* A step that leaves the files alone, and every applier but one.
Rests(u) ==
    /\ pc'[u] = pc[u] /\ doc'[u] = doc[u] /\ step'[u] = step[u]
    /\ mem'[u] = mem[u] /\ dirty'[u] = dirty[u]

LEMMA RedoRests ==
    ASSUME NEW u \in Applier, Redoes(u), Rests(u), files' = files
    PROVE  Redoes(u)'
BY DEF Redoes, Rests, CleanIsFile

LEMMA RedoOne ==
    ASSUME RInv, NEW t \in Applier, files' = files,
           \A u \in Applier \ {t} : Rests(u), Solo', Redoes(t)', TInv'
    PROVE  RInv'
BY RedoRests DEF RInv

\* A step that ends the work of one applier.
LEMMA RedoIdle ==
    ASSUME RInv, TInv', NEW t \in Applier, NEW place, place \notin Busy,
           pc' = [pc EXCEPT ![t] = place], files' = files,
           \A u \in Applier \ {t} : /\ doc'[u] = doc[u] /\ step'[u] = step[u]
                                    /\ mem'[u] = mem[u] /\ dirty'[u] = dirty[u]
    PROVE  RInv'
<1>1. pc'[t] \notin Busy /\ \A u \in Applier \ {t} : pc'[u] = pc[u]
  BY DEF RInv, TInv, ListsTypeOK
<1>2. Solo' BY <1>1 DEF RInv, Solo
<1>3. \A u \in Applier \ {t} : Rests(u) BY <1>1 DEF Rests
<1>4. Redoes(t)' BY <1>1 DEF Redoes, Busy
<1> QED BY <1>2, <1>3, <1>4, RedoOne

LEMMA RedoForget ==
    ASSUME RInv, TInv', NEW t \in Applier, Forget(t), files' = files
    PROVE  RInv'
<1>1. pc' = [pc EXCEPT ![t] = "idle"] /\ "idle" \notin Busy BY DEF Forget, Busy
<1>2. \A u \in Applier \ {t} : /\ doc'[u] = doc[u] /\ step'[u] = step[u]
                                /\ mem'[u] = mem[u] /\ dirty'[u] = dirty[u]
  BY DEF Forget, RInv, TInv, ListsTypeOK
<1> QED BY <1>1, <1>2, RedoIdle

LEMMA RedoSubmit ==
    ASSUME ~Overlap, RInv, TInv', NEW t \in Applier, NEW ds \in Docs, Submit(t, ds)
    PROVE  RInv'
<1>1. /\ pc[t] = "idle" /\ \A u \in Applier \ {t} : pc[u] \notin Busy
      /\ pc'[t] = "read" /\ \A u \in Applier \ {t} : pc'[u] = pc[u]
      /\ \A u \in Applier \ {t} : doc'[u] = doc[u]
      /\ UNCHANGED <<files, step, mem, dirty>>
  BY DEF Submit, MayStart, RInv, TInv, ListsTypeOK
<1>2. step[t] = 1 /\ dirty[t] = {} BY <1>1 DEF RInv, TInv, Sound
<1>3. Solo' BY <1>1 DEF Solo
<1>4. \A u \in Applier \ {t} : Rests(u) BY <1>1 DEF Rests
<1>5. Redoes(t)' BY <1>1, <1>2 DEF Redoes
<1> QED BY <1>1, <1>3, <1>4, <1>5, RedoOne

LEMMA RedoRead ==
    ASSUME RInv, TInv', NEW t \in Applier, ReadList(t)
    PROVE  RInv'
<1> DEFINE l == Order[step[t]]
<1>1. /\ pc[t] = "read" /\ step[t] \in {1, 2, 3} /\ l \in List
      /\ mem[t] \in [List -> Content] /\ files \in [List -> Content]
      /\ doc[t] \in Seq(Decision) /\ dirty[t] = {}
      /\ UNCHANGED <<files, doc, dirty>>
  BY OrderType DEF RInv, TInv, ListsTypeOK, Sound, ReadList, Redoes
<1>2. /\ mem'[t] = [mem[t] EXCEPT ![l] = files[l]]
      /\ step'[t] = (IF step[t] = 3 THEN 1 ELSE step[t] + 1)
      /\ pc'[t] = (IF step[t] = 3 THEN "apply" ELSE "read")
      /\ \A u \in Applier \ {t} : /\ mem'[u] = mem[u] /\ step'[u] = step[u]
                                   /\ pc'[u] = pc[u]
  BY DEF RInv, TInv, ListsTypeOK, ReadList
<1>3. Solo' BY <1>1, <1>2 DEF RInv, Solo, Busy
<1>4. \A u \in Applier \ {t} : Rests(u) BY <1>1, <1>2 DEF Rests
<1>5. \A i \in {1, 2, 3} : i <= step[t] => mem'[t][Order[i]] = files[Order[i]]
  <2>1. \A i \in {1, 2, 3} : i < step[t] => mem[t][Order[i]] = files[Order[i]]
    BY <1>1 DEF RInv, Redoes
  <2> QED BY <1>1, <1>2, <2>1, OrderType
<1>6. Redoes(t)'
  <2>1. CASE step[t] = 3
    <3>1. \A k \in List : mem'[t][k] = files[k]
      <4>1. \A k \in List : \E i \in {1, 2, 3} : k = Order[i] BY DEF List, Order
      <4> QED BY <1>5, <2>1, <4>1
    <3>2. mem'[t] = files
      <4>1. mem'[t] \in [List -> Content] BY <1>1, <1>2
      <4> QED BY <1>1, <3>1, <4>1
    <3>3. After(files, doc[t])[0] = files
      <4>1. Len(doc[t]) \in Nat BY <1>1
      <4> QED BY <4>1, AfterIs
    <3>4. pc'[t] = "apply" /\ step'[t] = 1 /\ step'[t] - 1 = 0 BY <1>2, <2>1
    <3>5. step'[t] \in 1 .. Len(doc[t]) + 1
      <4>1. Len(doc[t]) \in Nat BY <1>1
      <4> QED BY <3>4, <4>1
    <3>6. mem'[t] = After(files', doc'[t])[step'[t] - 1]
      BY <1>1, <3>2, <3>3, <3>4
    <3>7. CleanIsFile(t)' BY <1>1, <3>1 DEF CleanIsFile
    <3> QED BY <1>1, <3>4, <3>5, <3>6, <3>7 DEF Redoes
  <2>2. CASE step[t] # 3
    <3>1. pc'[t] = "read" /\ step'[t] = step[t] + 1 BY <1>2, <2>2
    <3>2. \A i \in {1, 2, 3} : i < step'[t] => i <= step[t] BY <1>1, <3>1
    <3> QED BY <1>1, <1>5, <3>1, <3>2 DEF Redoes
  <2> QED BY <2>1, <2>2
<1> QED BY <1>1, <1>3, <1>4, <1>6, RedoOne

LEMMA RedoApply ==
    ASSUME RInv, TInv', NEW t \in Applier, NEW retag \in BOOLEAN,
           ApplyOne(t, retag)
    PROVE  RInv'
<1> DEFINE d == doc[t][step[t]]
           after == Decided(mem[t], d)
           touched == {l \in List : after[l] # mem[t][l]}
                         \cup (IF retag THEN {Target(d)} ELSE {})
<1>1. /\ pc[t] = "apply" /\ step[t] \in 1 .. Len(doc[t]) /\ Len(doc[t]) \in Nat
      /\ mem[t] = After(files, doc[t])[step[t] - 1]
      /\ UNCHANGED <<files, pc, doc>>
  BY DEF ApplyOne, RInv, TInv, ListsTypeOK, Redoes
<1>2. /\ mem'[t] = after /\ dirty'[t] = dirty[t] \cup touched
      /\ step'[t] = step[t] + 1
      /\ \A u \in Applier \ {t} : /\ mem'[u] = mem[u] /\ dirty'[u] = dirty[u]
                                  /\ step'[u] = step[u]
  BY DEF ApplyOne, RInv, TInv, ListsTypeOK
<1>3. Solo' BY <1>1 DEF RInv, Solo
<1>4. \A u \in Applier \ {t} : Rests(u) BY <1>1, <1>2 DEF Rests
<1>5. CleanIsFile(t)'
  BY <1>1, <1>2 DEF RInv, Redoes, CleanIsFile
<1>6. after = After(files, doc[t])[step[t]]
  BY <1>1, AfterIs
<1>7. step'[t] \in 1 .. Len(doc[t]) + 1 /\ step'[t] - 1 = step[t]
  BY <1>1, <1>2
<1>8. Redoes(t)' BY <1>1, <1>2, <1>5, <1>6, <1>7 DEF Redoes
<1> QED BY <1>1, <1>3, <1>4, <1>8, RedoOne

LEMMA RedoAccept ==
    ASSUME RInv, TInv', NEW t \in Applier, Accept(t)
    PROVE  RInv'
<1>1. /\ pc[t] = "apply" /\ pc'[t] = "write" /\ step[t] > Len(doc[t])
      /\ \A u \in Applier \ {t} : pc'[u] = pc[u]
      /\ UNCHANGED <<files, doc, step, mem, dirty>>
      /\ Len(doc[t]) \in Nat
  BY DEF Accept, AllApplied, RInv, TInv, ListsTypeOK
<1>2. Solo' BY <1>1 DEF RInv, Solo, Busy
<1>3. \A u \in Applier \ {t} : Rests(u) BY <1>1 DEF Rests
<1>4. /\ step[t] \in 1 .. Len(doc[t]) + 1 /\ CleanIsFile(t)
      /\ mem[t] = After(files, doc[t])[step[t] - 1]
  BY <1>1 DEF RInv, Redoes
<1>5. step[t] - 1 = Len(doc[t]) BY <1>1, <1>4
<1>6. Redoes(t)' BY <1>1, <1>4, <1>5 DEF Redoes, AllDecided, CleanIsFile
<1> QED BY <1>1, <1>2, <1>3, <1>6, RedoOne

LEMMA RedoWrite ==
    ASSUME RInv, TInv', NEW t \in Applier, NEW l \in List, WriteList(t, l)
    PROVE  RInv'
<1>1. /\ pc[t] = "write" /\ pc[t] \in Busy
      /\ files \in [List -> Content] /\ files' \in [List -> Content]
      /\ files'[l] = mem[t][l] /\ \A k \in List \ {l} : files'[k] = files[k]
      /\ dirty'[t] = dirty[t] \ {l}
      /\ UNCHANGED <<pc, doc, step, mem>>
  BY DEF WriteList, RInv, TInv, ListsTypeOK, Busy
<1>2. mem[t] = AllDecided(files, doc[t]) /\ CleanIsFile(t)
  BY <1>1 DEF RInv, Redoes
<1>3. doc[t] \in Seq(Decision) /\ \A i \in DOMAIN doc[t] : WellFormed(doc[t][i])
  BY DEF RInv, TInv, ListsTypeOK, Sound, Valid
<1>4. \A k \in List : files'[k] \in {files[k], AllDecided(files, doc[t])[k]}
  BY <1>1, <1>2
<1>5. AllDecided(files', doc[t]) = AllDecided(files, doc[t])
  BY <1>1, <1>3, <1>4, RedoIsHarmless
<1>6. CleanIsFile(t)' BY <1>1, <1>2 DEF CleanIsFile
<1>7. Redoes(t)' BY <1>1, <1>2, <1>5, <1>6 DEF Redoes
<1>8. ASSUME NEW u \in Applier \ {t} PROVE Redoes(u)'
  BY <1>1 DEF RInv, Solo, Redoes, Busy
<1>9. Solo' BY <1>1 DEF RInv, Solo
<1> QED BY <1>7, <1>8, <1>9 DEF RInv

LEMMA RedoInit == ListsInit => RInv
<1> SUFFICES ASSUME ListsInit PROVE RInv OBVIOUS
<1>1. \A t \in Applier : pc[t] = "idle" BY DEF ListsInit
<1>2. Solo /\ \A t \in Applier : Redoes(t) BY <1>1 DEF Solo, Redoes, Busy
<1> QED BY <1>2, TypeInit DEF RInv

LEMMA RedoNext == ~Overlap /\ RInv /\ [ListsNext]_listVars => RInv'
<1> SUFFICES ASSUME ~Overlap, RInv, [ListsNext]_listVars PROVE RInv' OBVIOUS
<1>0. TInv' BY TypeNext DEF RInv
<1>1. ASSUME NEW t \in Applier, NEW ds \in Docs, Submit(t, ds) PROVE RInv'
  BY <1>0, <1>1, RedoSubmit
<1>2. ASSUME NEW t \in Applier, NEW ds \in Docs, Reject(t, ds) PROVE RInv'
  BY <1>0, <1>2, RedoIdle DEF Reject, Busy
<1>3. ASSUME NEW t \in Applier, ReadList(t) PROVE RInv' BY <1>0, <1>3, RedoRead
<1>4. ASSUME NEW t \in Applier, NEW retag \in BOOLEAN, ApplyOne(t, retag) PROVE RInv'
  BY <1>0, <1>4, RedoApply
<1>5. ASSUME NEW t \in Applier, Accept(t) PROVE RInv' BY <1>0, <1>5, RedoAccept
<1>6. ASSUME NEW t \in Applier, RefuseResult(t) PROVE RInv'
  BY <1>0, <1>6, RedoIdle DEF RefuseResult, Busy
<1>7. ASSUME NEW t \in Applier, Preview(t) PROVE RInv'
  BY <1>0, <1>7, RedoIdle DEF Preview, Busy
<1>8. ASSUME NEW t \in Applier, NEW l \in List, WriteList(t, l) PROVE RInv'
  BY <1>0, <1>8, RedoWrite
<1>9. ASSUME NEW t \in Applier, Finish(t) PROVE RInv'
  BY <1>0, <1>9, RedoIdle DEF Finish, Busy
<1>10. ASSUME NEW t \in Applier, Crash(t) PROVE RInv'
  BY <1>0, <1>10, RedoForget DEF Crash
<1>11. ASSUME NEW t \in Applier, Answer(t) PROVE RInv'
  BY <1>0, <1>11, RedoForget DEF Answer
<1>12. CASE UNCHANGED listVars
  <2>1. UNCHANGED <<files, pc, doc, step, mem, dirty>> BY <1>12 DEF listVars
  <2>2. Solo' BY <2>1 DEF RInv, Solo
  <2>3. \A t \in Applier : Redoes(t)' BY <2>1 DEF RInv, Redoes, CleanIsFile
  <2> QED BY <1>0, <2>2, <2>3 DEF RInv
<1> QED
  BY <1>1, <1>2, <1>3, <1>4, <1>5, <1>6, <1>7, <1>8, <1>9, <1>10, <1>11, <1>12
     DEF ListsNext, ApplierStep

(* What a document promises of the lists *)

\* A decision keeps lists that agree in agreement, whatever they held.
LEMMA DecidedExclusive ==
    ASSUME NEW lists \in [List -> Content], Exclusive(lists), NEW d
    PROVE  Exclusive(Decided(lists, d))
<1> DEFINE x == Claimed(d.key)
           after == Decided(lists, d)
<1>1. CASE ~IsListAction(d) BY <1>1 DEF Decided
<1>2. CASE IsListAction(d)
  <2>1. \A l \in List : l = Target(d) => Claims(after[l]) \subseteq Claims(lists[l]) \cup {x}
    BY <1>2 DEF Decided, Entered, Claims
  <2>2. \A l \in List : l # Target(d) =>
          Claims(after[l]) \subseteq Claims(lists[l]) /\ x \notin Claims(after[l])
    BY <1>2 DEF Decided, Without, Claims
  <2> HIDE DEF after, x
  <2>3. ASSUME NEW l1 \in List, NEW l2 \in List, l1 # l2
        PROVE  Claims(after[l1]) \cap Claims(after[l2]) = {}
    <3>1. Claims(lists[l1]) \cap Claims(lists[l2]) = {} BY <2>3 DEF Exclusive
    <3>2. CASE l1 = Target(d) BY <2>1, <2>2, <2>3, <3>1, <3>2
    <3>3. CASE l2 = Target(d) BY <2>1, <2>2, <2>3, <3>1, <3>3
    <3>4. CASE l1 # Target(d) /\ l2 # Target(d) BY <2>2, <3>1, <3>4
    <3> QED BY <3>2, <3>3, <3>4
  <2> QED BY <2>3 DEF after, Exclusive
<1> QED BY <1>1, <1>2

\* A key that was decided on stays where a decision on another domain, or for
\* the same list, finds it.
LEMMA DecidedKeeps ==
    ASSUME NEW lists \in [List -> Content], NEW d, NEW l \in List,
           NEW k \in lists[l].keys,
           IsListAction(d) /\ Claimed(k) = Claimed(d.key) => Target(d) = l
    PROVE  k \in Decided(lists, d)[l].keys
BY DEF Decided, Entered, Without

\* The lists stay one per domain through any document of well-formed decisions,
\* so what the applier validates in memory (apply.py:477) can fail only if the
\* files did not agree; and every decision of a document that was let in takes
\* effect, whatever comes after it in the document.
THEOREM DocumentsTakeEffect ==
    ASSUME NEW ds \in Seq(Decision), Valid(ds),
           NEW lists \in [List -> Content], Exclusive(lists)
    PROVE  /\ Exclusive(AllDecided(lists, ds))
           /\ \A j \in DOMAIN ds : IsListAction(ds[j]) =>
                 ds[j].key \in AllDecided(lists, ds)[Target(ds[j])].keys
<1> DEFINE A == After(lists, ds)
           Effect(i) == \A j \in 1 .. i : IsListAction(ds[j]) =>
                           ds[j].key \in A[i][Target(ds[j])].keys
           T == {i \in Nat : i <= Len(ds) => Exclusive(A[i]) /\ Effect(i)}
<1>1. Len(ds) \in Nat /\ DOMAIN ds = 1 .. Len(ds) OBVIOUS
<1>2. \A i \in DOMAIN ds : ds[i] \in Decision /\ WellFormed(ds[i]) BY DEF Valid
<1>3. \A i \in 0 .. Len(ds) : A[i] \in [List -> Content] BY <1>2, AfterType
<1>4. /\ A[0] = lists
      /\ \A i \in 1 .. Len(ds) : A[i] = Decided(A[i - 1], ds[i])
  BY <1>1, AfterIs
<1> HIDE DEF A
<1>5. 0 \in T BY <1>4
<1>6. ASSUME NEW i \in Nat, i \in T PROVE i + 1 \in T
  <2>1. SUFFICES ASSUME i + 1 <= Len(ds) PROVE Exclusive(A[i + 1]) /\ Effect(i + 1)
    OBVIOUS
  <2> DEFINE d == ds[i + 1]
  <2>2. /\ A[i] \in [List -> Content] /\ Exclusive(A[i]) /\ Effect(i)
        /\ A[i + 1] = Decided(A[i], d) /\ d \in Decision /\ i + 1 \in DOMAIN ds
    BY <1>1, <1>2, <1>3, <1>4, <1>6, <2>1
  <2>3. Exclusive(A[i + 1]) BY <2>2, DecidedExclusive
  <2>4. ASSUME NEW j \in 1 .. i + 1, IsListAction(ds[j])
        PROVE  ds[j].key \in A[i + 1][Target(ds[j])].keys
    <3>1. j \in DOMAIN ds /\ Target(ds[j]) \in List
      BY <1>1, <1>2, <2>1, <2>4, TargetIsList
    <3>2. CASE j = i + 1
      BY <2>2, <2>4, <3>1, <3>2 DEF Decided, Entered
    <3>3. CASE j # i + 1
      <4>1. ds[j].key \in A[i][Target(ds[j])].keys BY <2>2, <2>4, <3>3
      <4>2. IsListAction(d) /\ Claimed(ds[j].key) = Claimed(d.key)
              => Target(d) = Target(ds[j])
        BY <2>2, <2>4, <3>1 DEF Valid
      <4> QED BY <2>2, <3>1, <4>1, <4>2, DecidedKeeps
    <3> QED BY <3>2, <3>3
  <2> QED BY <2>3, <2>4
<1> HIDE DEF T
<1>7. Len(ds) \in T BY <1>1, <1>5, <1>6, SetInduction
<1> QED BY <1>1, <1>7 DEF T, A, AllDecided

LEMMA RedoDone == RInv => RedoFinishes
<1>1. ASSUME RInv, NEW t \in Applier, pc[t] = "write"
      PROVE  /\ AllDecided(files, doc[t]) = mem[t]
             /\ dirty[t] = {} => files = mem[t]
  <2>1. mem[t] = AllDecided(files, doc[t]) /\ CleanIsFile(t)
    BY <1>1 DEF RInv, Redoes
  <2>2. files \in [List -> Content] /\ mem[t] \in [List -> Content]
    BY <1>1 DEF RInv, TInv, ListsTypeOK
  <2>3. dirty[t] = {} => \A l \in List : mem[t][l] = files[l]
    BY <2>1 DEF CleanIsFile
  <2> QED BY <2>1, <2>2, <2>3
<1> QED BY <1>1 DEF RedoFinishes

(* What it takes to leave a domain on two files *)

\* Without a crash the files agree except while they are being written.
XInv ==
    faults = 0 =>
        /\ (\A t \in Applier : pc[t] # "write") => Exclusive(files)
        /\ \A t \in Applier : pc[t] = "write" => Exclusive(mem[t])

LEMMA CalmNext == ASSUME RInv, XInv, [ListsNext]_listVars PROVE XInv'
<1> USE DEF RInv, TInv, ListsTypeOK
<1>1. ASSUME NEW t \in Applier, Crash(t) PROVE XInv'
  BY <1>1, ListsAssumption DEF Crash, Fault, XInv
<1>2. ASSUME NEW t \in Applier,
             \/ \E ds \in Docs : Submit(t, ds) \/ Reject(t, ds)
             \/ ReadList(t) \/ \E retag \in BOOLEAN : ApplyOne(t, retag)
             \/ RefuseResult(t) \/ Preview(t) \/ Answer(t)
      PROVE  XInv'
  <2>1. UNCHANGED <<files, faults>> /\ pc[t] # "write" /\ pc'[t] # "write"
    BY <1>2
    DEF Submit, Reject, ReadList, ApplyOne, RefuseResult, Preview, AllApplied,
        Answer, Forget
  <2>2. \A u \in Applier \ {t} : pc'[u] = pc[u] /\ mem'[u] = mem[u]
    BY <1>2
    DEF Submit, Reject, ReadList, ApplyOne, RefuseResult, Preview, Answer, Forget
  <2> QED BY <2>1, <2>2 DEF XInv, Exclusive
<1>3. ASSUME NEW t \in Applier, Accept(t) PROVE XInv'
  <2>1. /\ Exclusive(mem[t]) /\ pc'[t] = "write" /\ UNCHANGED <<files, mem, faults>>
        /\ \A u \in Applier \ {t} : pc'[u] = pc[u]
    BY <1>3 DEF Accept
  <2> QED BY <2>1 DEF XInv, Exclusive
<1>4. ASSUME NEW t \in Applier, NEW l \in List, WriteList(t, l) PROVE XInv'
  BY <1>4 DEF WriteList, XInv, Exclusive
<1>5. ASSUME NEW t \in Applier, Finish(t) PROVE XInv'
  <2>1. /\ pc[t] = "write" /\ dirty[t] = {} /\ UNCHANGED <<files, mem, faults>>
        /\ pc'[t] = "applied" /\ \A u \in Applier \ {t} : pc'[u] = pc[u]
    BY <1>5 DEF Finish
  <2>2. \A l \in List : mem[t][l] = files[l]
    BY <2>1 DEF Redoes, CleanIsFile
  <2> QED BY <2>1, <2>2 DEF XInv, Exclusive
<1>6. CASE UNCHANGED listVars BY <1>6 DEF listVars, XInv, Exclusive
<1> QED BY <1>1, <1>2, <1>3, <1>4, <1>5, <1>6 DEF ListsNext, ApplierStep

-----------------------------------------------------------------------------

\* Type correctness, whatever overlaps and crashes.
THEOREM ListsTypes == ListsSpec => []ListsTypeOK
<1>1. ListsInit => TInv BY TypeInit
<1>2. TInv /\ [ListsNext]_listVars => TInv' BY TypeNext
<1>3. TInv => ListsTypeOK BY DEF TInv
<1> QED BY <1>1, <1>2, <1>3, PTL DEF ListsSpec

\* A domain lives on one list: after every write and every crash no two list
\* files claim one domain, as long as appliers do not overlap and every document
\* decides for one list (apply.py:423, apply.py:477).
THEOREM DomainOnOneList ==
    ASSUME ~Overlap PROVE ListsSpec => []OneListEach
<1>1. ListsInit => TInv /\ SInv BY TypeInit, SafeInit
<1>2. TInv /\ SInv /\ [ListsNext]_listVars => (TInv /\ SInv)'
  BY TypeNext, SafeNext
<1>3. TInv /\ SInv => OneListEach BY DEF SInv
<1> QED BY <1>1, <1>2, <1>3, PTL DEF ListsSpec

\* All-or-nothing across a crash, and idempotence (apply.py:38, apply.py:41): as
\* long as appliers do not overlap, applying a document again to whatever part of
\* it was written ends in the lists that the first application was writing, and
\* when all was written those are the files.
THEOREM RedoingFinishes ==
    ASSUME ~Overlap PROVE ListsSpec => []RedoFinishes
<1>1. ListsInit => RInv BY RedoInit
<1>2. RInv /\ [ListsNext]_listVars => RInv' BY RedoNext
<1>3. RInv => RedoFinishes BY RedoDone
<1> QED BY <1>1, <1>2, <1>3, PTL DEF ListsSpec

\* What it takes for the files to be ones the loader refuses while no applier is
\* at work (apply.py:48): a document for two lists and a crash, never one of the
\* two alone, as long as appliers do not overlap.
THEOREM LoadableUnlessBoth ==
    ASSUME ~Overlap
    PROVE  ListsSpec => [](faults = 0 \/ ~mixed => CrashLeavesLoadable)
<1>1. ListsInit => RInv /\ SInv /\ XInv
  <2>1. ListsInit => XInv
    BY ListsAssumption DEF ListsInit, XInv
  <2> QED BY <2>1, RedoInit, SafeInit
<1>2. RInv /\ SInv /\ XInv /\ [ListsNext]_listVars => (RInv /\ SInv /\ XInv)'
  <2>1. RInv => TInv BY DEF RInv
  <2> QED BY <2>1, RedoNext, SafeNext, CalmNext
<1>3. RInv /\ SInv /\ XInv => (faults = 0 \/ ~mixed => CrashLeavesLoadable)
  BY DEF SInv, OneListEach, XInv, CrashLeavesLoadable, Busy
<1> QED BY <1>1, <1>2, <1>3, PTL DEF ListsSpec

\* No update is lost while appliers do not overlap (apply.py:436 reads, changes
\* and writes without a lock): a list file changes only into what a validated
\* document makes of the list that is in the file at that moment.
THEOREM FilesFollowDecisions ==
    ASSUME ~Overlap
    PROVE  ListsSpec => [][\A l \in List : files'[l] # files[l] =>
                             \E t \in Applier :
                                /\ Valid(doc[t])
                                /\ files'[l] = AllDecided(files, doc[t])[l]]_listVars
<1>1. ASSUME RInv, ListsNext, NEW l \in List, files'[l] # files[l]
      PROVE  \E t \in Applier :
                Valid(doc[t]) /\ files'[l] = AllDecided(files, doc[t])[l]
  <2>1. PICK t \in Applier, k \in List : WriteList(t, k)
    BY <1>1 DEF ListsNext, Submit, Reject, ApplierStep, ReadList, ApplyOne,
       Accept, RefuseResult, Preview, Finish, Crash, Answer
  <2>2. files' = [files EXCEPT ![k] = mem[t][k]] /\ pc[t] = "write"
    BY <2>1 DEF WriteList
  <2>3. files \in [List -> Content] /\ Valid(doc[t])
    BY <1>1 DEF RInv, TInv, ListsTypeOK, Sound
  <2>4. k = l BY <1>1, <2>2, <2>3
  <2>5. mem[t] = AllDecided(files, doc[t]) BY <1>1, <2>2 DEF RInv, Redoes
  <2> QED BY <2>2, <2>3, <2>4, <2>5
<1>2. RInv /\ [ListsNext]_listVars =>
        [\A l \in List : files'[l] # files[l] =>
            \E t \in Applier :
               /\ Valid(doc[t])
               /\ files'[l] = AllDecided(files, doc[t])[l]]_listVars
  BY <1>1
<1>3. RInv /\ [ListsNext]_listVars => RInv' BY RedoNext
<1> QED BY <1>2, <1>3, RedoInit, PTL DEF ListsSpec
=============================================================================
