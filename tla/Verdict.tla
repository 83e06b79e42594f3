------------------------------ MODULE Verdict ------------------------------
(***************************************************************************)
(* From what the lists and the signature feed say of a message to its      *)
(* level and bucket: triage (scanner/email_guard/triage.py), the deep scan *)
(* and the shipped rules and assessors (scanner/email_guard/deepscan.py,   *)
(* rules/scan, rules/assess), and the loop over them                       *)
(* (scanner/email_guard/loop.py).                                          *)
(*                                                                         *)
(* Levels run from 1, rejected, to 5, trusted.  A message is the set of    *)
(* facts about it that the rules tell apart.  The rules pack is data that  *)
(* the feed replaces under the engine, so the loop is modelled with two    *)
(* packs: the shipped one, and any pack at all, whose assessors may answer *)
(* whatever they like.                                                     *)
(***************************************************************************)
EXTENDS Naturals, Sequences

CONSTANTS
    Message,    \* the messages that may arrive
    NoMessage,  \* no scan is under way
    Feed,       \* the sets of signature files that may load
    Pack        \* the packs in use: "shipped", "any"

MaxIterations == 6
Levels == 1 .. 5
Terminal == {1, 5}
AllowedMoves == [l \in {2, 3, 4} |-> CASE l = 2 -> {1, 2, 3}
                                       [] l = 3 -> {2, 3, 4}
                                       [] OTHER -> {3, 4}]

\* Scan points of level 2 that can fail without being critical.
SoftPoint == {"title", "clean_text", "dmarc", "dkim", "spf", "sid_result",
              "return_path", "is_multipart", "header_count", "mailer",
              "dkim_verified", "links"}

SignatureFile == {"injection", "phishing"}

\* What the lists say of the sender and the message.
GreyClass == {"none", "known", "denied", "new_structure"}
Hits == [white : BOOLEAN, grey : BOOLEAN, black : BOOLEAN, class : GreyClass]

ASSUME VerdictAssumption ==
    /\ NoMessage \notin Message
    /\ \A m \in Message :
          /\ {"marker", "injection", "phishing", "visual", "attachments",
              "signed", "foreign", "shortener", "hidden"} \subseteq DOMAIN m
          /\ \A f \in {"marker", "injection", "phishing", "visual",
                       "attachments", "signed", "foreign", "shortener",
                       "hidden"} : m[f] \in BOOLEAN
          /\ "soft" \in DOMAIN m /\ m.soft \subseteq SoftPoint
    /\ Feed \subseteq SUBSET SignatureFile
    /\ Pack \subseteq {"shipped", "any"}

VARIABLES
    phase,      \* "idle", "triage", "looping", "judged"
    msg,        \* the message being scanned, or NoMessage
    hits,       \* what the loaded lists say of it
    feed, pack,
    level,      \* the level of the next pass, and in the end the final one
    trail,      \* the levels so far, the initial one first
    pass        \* passes made

verdictVars == <<phase, msg, hits, feed, pack, level, trail, pass>>

-----------------------------------------------------------------------------
(* Triage *)

\* A signature file finds what its usable entries match, or, missing or
\* unreadable, nothing; the two files load on their own.
Finds(f, file, m) == file \in f /\ m[file]

\* The baseline markers are compiled in; the feed only adds to them.
Injected(m, f) == m.marker \/ Finds(f, "injection", m)
Suspicious(m, f) == m.visual \/ Finds(f, "phishing", m)

\* Mutant: a whitelisted sender is trusted before its shapes are looked at.
WhitelistFirst(m, h, f) ==
    IF h.black \/ Injected(m, f) THEN 1
    ELSE IF h.white THEN (IF m.attachments THEN 4 ELSE 5)
    ELSE IF h.class = "denied" THEN 1
    ELSE IF Suspicious(m, f) THEN 2
    ELSE IF h.class = "known" THEN 4 ELSE 3

InitialLevel(m, h, f) ==
    IF h.black \/ h.class = "denied" \/ Injected(m, f) THEN 1
    ELSE IF ~h.white /\ Suspicious(m, f) THEN 2
    ELSE IF h.class = "known" THEN 4
    ELSE IF h.class = "new_structure" \/ ~h.white THEN 3
    ELSE IF m.attachments THEN 4 ELSE 5

(* The deep scan and the assessors of the shipped pack *)

\* A rich header set overturns these; the other half of the anchor, the DKIM
\* status, contains "pass" whichever way its rule answers.
Overturned == {"dmarc", "spf", "sid_result", "title", "dkim_verified"}

AssessTwo(m) ==
    LET left == IF "header_count" \in m.soft THEN m.soft ELSE m.soft \ Overturned
    IN  IF m.attachments THEN 1 ELSE IF left = {} THEN 3 ELSE 2

\* The title, text and header rules of level 3 answer nothing but a kind of
\* pass, so the header set always counts as complex and excuses the mailer.
Score(m) == 1 + 1 + (IF m.signed THEN 2 ELSE 0) + (IF m.hidden THEN 1 ELSE 0)

AssessThree(m) ==
    IF ~m.signed \/ m.foreign THEN 2 ELSE IF Score(m) >= 4 THEN 4 ELSE 3

\* Mutant: level 4 looks at the links only.
AnySender(m, h) == IF m.shortener THEN 3 ELSE 4

SenderPasses(h) == h.white \/ h.grey
AssessFour(m, h) == IF SenderPasses(h) /\ ~m.shortener THEN 4 ELSE 3

\* The level an assessor asks for and whether it calls the scan complete.
Judgement == [to : Levels, complete : BOOLEAN]

\* Level 2 compares its answer with the level of the report, which is 2
\* whenever it runs.
ShippedJudgement(m, h, l) ==
    CASE l = 2 -> [to |-> AssessTwo(m), complete |-> AssessTwo(m) = 2]
      [] l = 3 -> [to |-> AssessThree(m), complete |-> AssessThree(m) = 3]
      [] OTHER -> [to |-> AssessFour(m, h), complete |-> TRUE]

Judgements(m, h, l, p) ==
    IF p = "shipped" THEN {ShippedJudgement(m, h, l)} ELSE Judgement

-----------------------------------------------------------------------------
(* The loop *)

\* A move that is not permitted is held at the level of the pass.
Held(l, to) == IF to \in AllowedMoves[l] THEN to ELSE l

Oscillates(t) == Len(t) >= 3 /\ t[Len(t)] = t[Len(t) - 2]

\* Mutant: two levels that disagree go on until the cap.
NeverOscillates(l, n, complete, t, k) ==
    \/ complete
    \/ n \in Terminal
    \/ n = l
    \/ k >= MaxIterations

\* Why the loop ends after a pass from l to n.
Stops(l, n, complete, t, k) ==
    \/ complete
    \/ n \in Terminal
    \/ n = l
    \/ Oscillates(t)
    \/ k >= MaxIterations

Bucket(l) == CASE l <= 1 -> "rejected"
               [] l \in {2, 3} -> "flagged"
               [] OTHER -> "cleared"

NoHits == [white |-> FALSE, grey |-> FALSE, black |-> FALSE, class |-> "none"]

VerdictInit ==
    /\ phase = "idle"
    /\ msg = NoMessage
    /\ hits = NoHits
    /\ feed = {} /\ pack = "shipped"
    /\ level = 3
    /\ trail = <<>>
    /\ pass = 0

\* A scan starts with the lists and the pack it loaded.
Begin(m, h, f, p) ==
    /\ phase = "idle"
    /\ phase' = "triage"
    /\ msg' = m /\ hits' = h /\ feed' = f /\ pack' = p
    /\ level' = 3 /\ trail' = <<>> /\ pass' = 0

Triage ==
    /\ phase = "triage"
    /\ level' = InitialLevel(msg, hits, feed)
    /\ trail' = <<level'>>
    /\ phase' = IF level' \in Terminal THEN "judged" ELSE "looping"
    /\ UNCHANGED <<msg, hits, feed, pack, pass>>

\* One iteration: deep scan, assessment, and the tests that end the loop.
ScanPass ==
    /\ phase = "looping"
    /\ \E j \in Judgements(msg, hits, level, pack) :
          LET n == Held(level, j.to)
          IN  /\ level' = n
              /\ trail' = Append(trail, n)
              /\ pass' = pass + 1
              /\ phase' = IF Stops(level, n, j.complete, trail', pass')
                          THEN "judged" ELSE "looping"
    /\ UNCHANGED <<msg, hits, feed, pack>>

\* The verdict is printed, or the process is gone.
Leave ==
    /\ phase # "idle"
    /\ phase' = "idle"
    /\ msg' = NoMessage /\ hits' = NoHits
    /\ feed' = {} /\ pack' = "shipped"
    /\ level' = 3 /\ trail' = <<>> /\ pass' = 0

\* The lists are exclusive by domain, and matching covers subdomains, so every
\* combination of hits can come up; a grey hit is what gives a class.
Coherent(h) == h.grey <=> h.class # "none"

VerdictNext ==
    \/ \E m \in Message, h \in Hits, f \in Feed, p \in Pack :
          Coherent(h) /\ Begin(m, h, f, p)
    \/ Triage
    \/ ScanPass
    \/ Leave

VerdictSpec == VerdictInit /\ [][VerdictNext]_verdictVars

-----------------------------------------------------------------------------
(* Properties *)

VerdictTypeOK ==
    /\ phase \in {"idle", "triage", "looping", "judged"}
    /\ msg \in Message \cup {NoMessage} /\ (phase # "idle" => msg \in Message)
    /\ hits \in Hits /\ Coherent(hits)
    /\ feed \subseteq SignatureFile /\ pack \in {"shipped", "any"}
    /\ level \in Levels
    /\ trail \in Seq(Levels)
    /\ pass \in Nat

\* The engine terminates whatever the pack answers, also one that never sets
\* scanComplete: stabilising, oscillating and the permitted moves end every
\* scan by the third pass, long before the cap of six (loop.py:22).
EndsByPassThree == pass <= 3 /\ (phase = "looping" => pass <= 2)

\* "The loop never promotes anything into" level 5 (loop.py:10): whatever the
\* pack answers, a message ends there only because triage put it there, for a
\* whitelisted sender without attachments on no greylisted domain.
OnlyTriageTrusts ==
    phase = "judged" /\ level = 5 =>
        /\ trail = <<5>>
        /\ hits.white /\ ~hits.black /\ hits.class = "none"
        /\ ~msg.attachments /\ ~msg.marker

\* "A message that somehow arrives at level 4 off-list has not earned the
\* cleared tier" (rules/scan/level4_funcs.py:33): with the shipped pack a
\* message is cleared only if its sender is on a list that vouches for it, is
\* not blacklisted, does not match a denied shape and carries no marker.
ClearedIsVouched ==
    pack = "shipped" /\ phase = "judged" /\ Bucket(level) = "cleared" =>
        /\ SenderPasses(hits)
        /\ ~hits.black /\ hits.class # "denied"
        /\ ~Injected(msg, feed)
=============================================================================
