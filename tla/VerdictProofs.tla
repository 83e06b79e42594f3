---------------------------- MODULE VerdictProofs ----------------------------
(***************************************************************************)
(* Proofs about Verdict: for every set of messages, every list hit and     *)
(* every feed, and for a pack whose assessors answer anything at all.      *)
(*                                                                         *)
(* The argument: a pass moves only along AllowedMoves, so a scan that is   *)
(* still looping after two passes has gone straight from 2 over 3 to 4 or  *)
(* back, and whatever the third pass answers ends it.                      *)
(***************************************************************************)
EXTENDS Verdict, TLAPS

\* Where a looping scan has been.
Path ==
    /\ phase = "triage" => pass = 0
    /\ phase = "looping" =>
        /\ level \in {2, 3, 4}
        /\ pass \in {0, 1, 2}
        /\ Len(trail) = pass + 1
        /\ trail[pass + 1] = level
        /\ pass >= 1 => trail[pass] \in {2, 3, 4} /\ trail[pass] # level
                        /\ level \in AllowedMoves[trail[pass]]
        /\ pass = 2 => trail[2] = 3 /\ level # 3

\* What triage has already excluded when a scan loops.
Screened ==
    phase = "looping" =>
        ~hits.black /\ hits.class # "denied" /\ ~Injected(msg, feed)

\* The shipped assessor of level 4 always calls the scan complete.
FourIsLast ==
    pack = "shipped" /\ phase = "looping" /\ pass >= 1 => trail[pass] # 4

VInv ==
    /\ VerdictTypeOK
    /\ Path /\ Screened /\ FourIsLast
    /\ EndsByPassThree /\ OnlyTriageTrusts /\ ClearedIsVouched

-----------------------------------------------------------------------------

\* A move that is held or permitted.
LEMMA HeldMoves ==
    ASSUME NEW l \in {2, 3, 4}, NEW to \in Levels
    PROVE  /\ Held(l, to) \in {1, 2, 3, 4}
           /\ Held(l, to) # l => Held(l, to) \in AllowedMoves[l]
           /\ l = 2 => Held(l, to) \in {1, 2, 3}
           /\ l = 3 => Held(l, to) \in {2, 3, 4}
           /\ l = 4 => Held(l, to) \in {3, 4}
BY DEF Held, AllowedMoves, Levels

LEMMA ShippedLevels ==
    ASSUME NEW m, NEW h, NEW l \in {2, 3, 4}
    PROVE  ShippedJudgement(m, h, l) \in Judgement
<1>1. AssessTwo(m) \in Levels BY DEF AssessTwo, Levels
<1>2. AssessThree(m) \in Levels BY DEF AssessThree, Levels
<1>3. AssessFour(m, h) \in Levels BY DEF AssessFour, Levels
<1>4. CASE l = 2 BY <1>1, <1>4 DEF ShippedJudgement, Judgement
<1>5. CASE l = 3 BY <1>2, <1>5 DEF ShippedJudgement, Judgement
<1>6. CASE l = 4 BY <1>3, <1>6 DEF ShippedJudgement, Judgement
<1> QED BY <1>4, <1>5, <1>6

\* Whatever pack is in use, an assessor asks for a level.
LEMMA JudgementsAreJudgements ==
    ASSUME NEW m, NEW h, NEW l \in {2, 3, 4}, NEW p, NEW j \in Judgements(m, h, l, p)
    PROVE  j.to \in Levels /\ j.complete \in BOOLEAN
<1>1. Judgements(m, h, l, p) \subseteq Judgement BY ShippedLevels DEF Judgements
<1> QED BY <1>1 DEF Judgement

\* Triage answers a level, and one above 1 only for a message that no list and
\* no marker condemns.
LEMMA TriageLevels ==
    ASSUME NEW m, NEW h, NEW f
    PROVE  /\ InitialLevel(m, h, f) \in Levels
           /\ InitialLevel(m, h, f) # 1 =>
                 ~h.black /\ h.class # "denied" /\ ~Injected(m, f)
           /\ InitialLevel(m, h, f) = 5 =>
                 h.white /\ h.class # "known" /\ h.class # "new_structure"
                 /\ ~m.attachments
BY DEF InitialLevel, Levels

LEMMA InitHolds == VerdictInit => VInv
BY DEF VerdictInit, VInv, VerdictTypeOK, Hits, NoHits, GreyClass, Coherent, Levels,
       Path, Screened, FourIsLast, EndsByPassThree, OnlyTriageTrusts,
       ClearedIsVouched

LEMMA BeginKeeps ==
    ASSUME VInv, NEW m \in Message, NEW h \in Hits, NEW f \in Feed, NEW p \in Pack,
           Coherent(h), Begin(m, h, f, p)
    PROVE  VInv'
BY VerdictAssumption
   DEF VInv, Begin, VerdictTypeOK, Levels, Coherent, Path, Screened, FourIsLast,
       EndsByPassThree, OnlyTriageTrusts, ClearedIsVouched

LEMMA LeaveKeeps == ASSUME VInv, Leave PROVE VInv'
BY DEF VInv, Leave, VerdictTypeOK, Hits, NoHits, GreyClass, Coherent, Levels, Path,
       Screened, FourIsLast, EndsByPassThree, OnlyTriageTrusts, ClearedIsVouched

LEMMA TriageKeeps == ASSUME VInv, Triage PROVE VInv'
<1> DEFINE n == InitialLevel(msg, hits, feed)
<1>1. /\ phase = "triage" /\ level' = n /\ trail' = <<n>>
      /\ phase' = IF n \in Terminal THEN "judged" ELSE "looping"
      /\ UNCHANGED <<msg, hits, feed, pack, pass>>
  BY DEF Triage
<1>2. /\ n \in Levels
      /\ n # 1 => ~hits.black /\ hits.class # "denied" /\ ~Injected(msg, feed)
      /\ n = 5 => hits.white /\ hits.class # "known" /\ hits.class # "new_structure"
                  /\ ~msg.attachments
  BY TriageLevels
<1>3. msg \in Message /\ hits \in Hits BY <1>1 DEF VInv, VerdictTypeOK
<1>4. pass = 0 BY <1>1 DEF VInv, Path
<1>5. VerdictTypeOK'
  <2>1. trail' \in Seq(Levels) BY <1>1, <1>2
  <2> QED BY <1>1, <1>2, <2>1 DEF VInv, VerdictTypeOK, Coherent
<1>6. Path'
  <2>1. Len(trail') = 1 /\ trail'[1] = n BY <1>1
  <2>2. phase' = "looping" => n \in {2, 3, 4} BY <1>1, <1>2 DEF Terminal, Levels
  <2> QED BY <1>1, <1>4, <2>1, <2>2 DEF Path
<1>7. Screened' BY <1>1, <1>2 DEF Screened, Injected, Finds, Terminal
<1>8. FourIsLast' /\ EndsByPassThree' BY <1>1, <1>4 DEF FourIsLast, EndsByPassThree
<1>9. OnlyTriageTrusts'
  BY <1>1, <1>2, <1>3 DEF OnlyTriageTrusts, Injected, Finds, Hits, GreyClass
<1>10. ClearedIsVouched'
  <2>1. phase' = "judged" /\ Bucket(level') = "cleared" => n = 5
    BY <1>1, <1>2 DEF Terminal, Levels, Bucket
  <2> QED BY <1>1, <1>2, <2>1 DEF ClearedIsVouched, SenderPasses, Injected, Finds
<1> QED BY <1>5, <1>6, <1>7, <1>8, <1>9, <1>10 DEF VInv

LEMMA PassKeeps == ASSUME VInv, ScanPass PROVE VInv'
<1>1. PICK j \in Judgements(msg, hits, level, pack) :
         LET n == Held(level, j.to)
         IN  /\ level' = n
             /\ trail' = Append(trail, n)
             /\ pass' = pass + 1
             /\ phase' = IF Stops(level, n, j.complete, trail', pass')
                         THEN "judged" ELSE "looping"
  BY DEF ScanPass
<1> DEFINE n == Held(level, j.to)
<1>2. phase = "looping" /\ UNCHANGED <<msg, hits, feed, pack>> BY DEF ScanPass
<1>3. /\ level \in {2, 3, 4} /\ pass \in {0, 1, 2}
      /\ Len(trail) = pass + 1 /\ trail[pass + 1] = level
      /\ pass >= 1 => trail[pass] \in {2, 3, 4} /\ trail[pass] # level
                      /\ level \in AllowedMoves[trail[pass]]
      /\ pass = 2 => trail[2] = 3 /\ level # 3
  BY <1>2 DEF VInv, Path
<1>4. j.to \in Levels /\ j.complete \in BOOLEAN BY <1>3, JudgementsAreJudgements
<1>5. /\ n \in {1, 2, 3, 4}
      /\ n # level => n \in AllowedMoves[level]
      /\ level = 2 => n \in {1, 2, 3}
      /\ level = 3 => n \in {2, 3, 4}
      /\ level = 4 => n \in {3, 4}
  BY <1>3, <1>4, HeldMoves
<1>6. /\ level' = n /\ trail' = Append(trail, n) /\ pass' = pass + 1
      /\ phase' = IF Stops(level, n, j.complete, trail', pass')
                  THEN "judged" ELSE "looping"
  BY <1>1
<1>7. trail \in Seq(Levels) /\ msg \in Message /\ hits \in Hits /\ Coherent(hits)
      /\ feed \subseteq SignatureFile /\ pack \in {"shipped", "any"}
  BY <1>2 DEF VInv, VerdictTypeOK
<1>8. /\ Len(trail') = pass + 2 /\ trail'[pass + 2] = n
      /\ trail'[pass + 1] = level
      /\ pass >= 1 => trail'[pass] = trail[pass]
  BY <1>3, <1>5, <1>6, <1>7 DEF Levels
<1>9. phase' = "looping" =>
         /\ ~j.complete /\ n # level /\ n \in {2, 3, 4}
         /\ pass >= 1 => trail[pass] # n
  BY <1>3, <1>5, <1>6, <1>8 DEF Stops, Terminal, Oscillates
<1>10. pass = 2 => phase' = "judged"
  BY <1>3, <1>5, <1>6, <1>9
<1>11. VerdictTypeOK'
  <2>1. n \in Levels BY <1>5 DEF Levels
  <2>2. trail' \in Seq(Levels) BY <1>6, <1>7, <2>1
  <2> QED BY <1>2, <1>3, <1>6, <1>7, <2>1, <2>2 DEF VerdictTypeOK, Coherent
<1>12. Path'
  <2>1. ASSUME phase' = "looping"
        PROVE  /\ n \in {2, 3, 4} /\ pass \in {0, 1}
               /\ n # level /\ n \in AllowedMoves[level]
               /\ pass = 1 => level = 3 /\ n # 3
    <3>1. n \in {2, 3, 4} /\ n # level /\ pass \in {0, 1}
      BY <2>1, <1>3, <1>9, <1>10
    <3>2. pass = 1 => trail[1] \in {2, 3, 4} /\ trail[1] # level
                      /\ level \in AllowedMoves[trail[1]] /\ trail[1] # n
      BY <2>1, <1>3, <1>9
    <3>3. pass = 1 => level = 3
      BY <3>1, <3>2, <1>3, <1>5 DEF AllowedMoves
    <3> QED BY <3>1, <3>3, <1>5
  <2> QED BY <2>1, <1>3, <1>6, <1>8 DEF Path
<1>13. Screened' BY <1>2 DEF VInv, Screened, Injected, Finds
<1>14. EndsByPassThree' BY <1>3, <1>6, <1>10 DEF EndsByPassThree
<1>15. OnlyTriageTrusts' BY <1>5, <1>6 DEF OnlyTriageTrusts
<1>16. FourIsLast'
  <2>1. ASSUME pack = "shipped", phase' = "looping", level = 4 PROVE FALSE
    BY <2>1, <1>9, <1>1 DEF Judgements, ShippedJudgement
  <2> QED BY <2>1, <1>2, <1>3, <1>6, <1>8 DEF FourIsLast
<1>17. ClearedIsVouched'
  <2>1. SUFFICES ASSUME pack = "shipped", phase' = "judged", n = 4
                 PROVE  SenderPasses(hits)
    BY <1>2, <1>5, <1>6 DEF ClearedIsVouched, Bucket, VInv, Screened, Injected, Finds, SenderPasses
  <2>2. j = ShippedJudgement(msg, hits, level) BY <2>1 DEF Judgements
  <2>3. CASE level = 4
    <3>1. j.to = AssessFour(msg, hits) BY <2>2, <2>3 DEF ShippedJudgement
    <3>2. j.to # 3 BY <2>1, <2>3 DEF Held, AllowedMoves
    <3> QED BY <3>1, <3>2 DEF AssessFour
  <2>4. CASE level = 3
    <3>1. ~j.complete
      <4>1. j.to = AssessThree(msg) /\ j.complete = (AssessThree(msg) = 3)
        BY <2>2, <2>4 DEF ShippedJudgement
      <4>2. j.to = 4 BY <2>1, <2>4 DEF Held
      <4>3. AssessThree(msg) # 3 BY <4>1, <4>2
      <4> QED BY <4>1, <4>3, Zenon
    <3>2. ~Oscillates(trail')
      BY <2>1, <1>2, <1>3, <1>8 DEF Oscillates, VInv, FourIsLast
    <3> QED BY <2>1, <2>4, <3>1, <3>2, <1>3, <1>6 DEF Stops, Terminal, MaxIterations
  <2>5. CASE level = 2 BY <2>1, <2>5, <1>5
  <2> QED BY <2>3, <2>4, <2>5, <1>3
<1> QED BY <1>11, <1>12, <1>13, <1>14, <1>15, <1>16, <1>17 DEF VInv

LEMMA StutterKeeps == ASSUME VInv, UNCHANGED verdictVars PROVE VInv'
BY DEF VInv, verdictVars, VerdictTypeOK, Coherent, Path, Screened, FourIsLast,
       EndsByPassThree, OnlyTriageTrusts, ClearedIsVouched, Injected, Finds, SenderPasses,
       Bucket

LEMMA NextKeeps == ASSUME VInv, [VerdictNext]_verdictVars PROVE VInv'
<1>1. CASE \E m \in Message, h \in Hits, f \in Feed, p \in Pack :
              Coherent(h) /\ Begin(m, h, f, p)
  BY <1>1, BeginKeeps
<1>2. CASE Triage BY <1>2, TriageKeeps
<1>3. CASE ScanPass BY <1>3, PassKeeps
<1>4. CASE Leave BY <1>4, LeaveKeeps
<1>5. CASE UNCHANGED verdictVars BY <1>5, StutterKeeps
<1> QED BY <1>1, <1>2, <1>3, <1>4, <1>5 DEF VerdictNext

-----------------------------------------------------------------------------

\* The invariant holds of every scan.
THEOREM VerdictInvariant == VerdictSpec => []VInv
BY InitHolds, NextKeeps, PTL DEF VerdictSpec

\* Type correctness.
THEOREM VerdictTypes == VerdictSpec => []VerdictTypeOK
<1>1. VInv => VerdictTypeOK BY DEF VInv
<1> QED BY <1>1, VerdictInvariant, PTL

\* The loop (loop.py:56-140) ends by the third pass whatever an assessor of the
\* pack in use answers and whether or not it ever calls a scan complete.
THEOREM LoopEnds == VerdictSpec => []EndsByPassThree
<1>1. VInv => EndsByPassThree BY DEF VInv
<1> QED BY <1>1, VerdictInvariant, PTL

\* Level 5 is decided by triage alone, for a whitelisted sender with nothing
\* held against it, whatever pack is in use (loop.py:10).
THEOREM TriageAloneTrusts == VerdictSpec => []OnlyTriageTrusts
<1>1. VInv => OnlyTriageTrusts BY DEF VInv
<1> QED BY <1>1, VerdictInvariant, PTL

\* With the shipped assessors a cleared message has a sender a list vouches for.
THEOREM ClearedNeedsAList == VerdictSpec => []ClearedIsVouched
<1>1. VInv => ClearedIsVouched BY DEF VInv
<1> QED BY <1>1, VerdictInvariant, PTL
=============================================================================
