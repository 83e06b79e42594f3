-------------------------------- MODULE Desk --------------------------------
(***************************************************************************)
(* The learning loop: a scanner that judges mail by the sender lists and   *)
(* stages a candidate for every sender it cannot place                     *)
(* (scanner/email_guard/cli.py, pipeline.py, propose.py), and the review   *)
(* console that shows the candidates and hands the reviewer's decisions to *)
(* the applier (webui/email_guard_webui/app.py, candidates.py), beside an  *)
(* applier on the command line.                                            *)
(*                                                                         *)
(* The processes share files and no lock: the three lists (Lists), which   *)
(* scanner and console read one after another while an applier may be      *)
(* writing them, and the tree of staged candidates.  One scan runs at a    *)
(* time; the console serves one request at a time, on its event loop.      *)
(*                                                                         *)
(* A candidate is a file, <brief-day>/<job>/candidate.json, and its job is *)
(* a slug of the Message-ID: two messages may have one, and then one file  *)
(* replaces the other.                                                     *)
(***************************************************************************)
EXTENDS Lists, Verdict

CONSTANTS
    Above,      \* a domain and every domain it is a subdomain of
    Job,        \* names of job directories
    JobOf,      \* the job of each message: a slug of its Message-ID
    Day,        \* days a scan may run on
    NoCard,     \* the applier works on no card
    MaxWork     \* bound: scans and documents in one behaviour

\* A message also names its sender and the shapes it matches, in full and in
\* the excerpt a candidate carries.
ASSUME DeskAssumption ==
    /\ Above \in [Domain -> SUBSET Domain]
    /\ \A d \in Domain : d \in Above[d]
    /\ \A m \in Message :
          /\ m.sender \in Address
          /\ m.excerpt \subseteq m.shapes /\ m.shapes \subseteq Shape \ {CatchAll}
    /\ JobOf \in [Message -> Job]
    /\ MaxWork \in Nat

\* A candidate: its id, which is the path of its file, and the message it asks
\* about.
Card == [id : Day \X Job, of : Message]

ASSUME CardAssumption == NoCard \notin Card

VARIABLES
    at,         \* where the scan is
    mail,       \* the message it reads
    seen,       \* its copy of the lists
    staged,     \* the candidates in the daily brief
    reviewed,   \* the candidates under reviewed/
    looking,    \* the lists the console has still to read for the queue
    view,       \* its copy of them
    screen,     \* the candidates the reviewer has before them, as they were
    card,       \* the one of these the console is deciding, or NoCard
    work,       \* scans and documents so far
    torn,       \* history: a list was written while the scanner read them
    passable,   \* history: so far in this scan's reading, the lists on disk
                \* have for a moment been ones that ask nothing of the message
    answered,   \* history: the messages of which the same holds for the
                \* console's reading
    asked,      \* history: the candidates that completed scans staged
    decided     \* history: the cards with an applied document

scannerVars == <<at, mail, seen, torn, passable, asked>>
consoleVars == <<looking, view, answered, screen, card, decided>>
trees == <<staged, reviewed>>
deskVars == <<listVars, verdictVars, scannerVars, consoleVars, trees, work>>

-----------------------------------------------------------------------------
(* What lists say of a message *)

Covers(k, m) == k = m.sender \/ k \in Above[HostOf[m.sender]]

Hit(c, m) == \E k \in c.keys : Covers(k, m)

\* Mutant: a sender on no greylisted domain has a new structure.
UnlistedIsNew(c, m, shapes) ==
    LET matched == {s \in c.shapes : /\ Covers(s.domain, m)
                                     /\ s.name \in shapes \cup {CatchAll}}
    IN  IF \E s \in matched : s.disposition = "denied" THEN "denied"
        ELSE IF matched # {} THEN "known" ELSE "new_structure"

\* Every covering entry is scanned, and a denied match wins.
ClassifyGreylist(c, m, shapes) ==
    LET matched == {s \in c.shapes : /\ Covers(s.domain, m)
                                     /\ s.name \in shapes \cup {CatchAll}}
    IN  IF ~Hit(c, m) THEN "none"
        ELSE IF \E s \in matched : s.disposition = "denied" THEN "denied"
        ELSE IF matched # {} THEN "known" ELSE "new_structure"

HitsOf(lists, m, shapes) ==
    [white |-> Hit(lists["whitelist"], m),
     grey  |-> Hit(lists["greylist"], m),
     black |-> Hit(lists["blacklist"], m),
     class |-> ClassifyGreylist(lists["greylist"], m, shapes)]

\* propose.classify: the message is worth a candidate.
WantsCandidate(h) ==
    ~h.black /\ ~h.white /\ h.class \in {"new_structure", "none"}

\* Mutant: the queue hides a sender that is on any list.
OnNoList(lists, m) == \A l \in List : ~Hit(lists[l], m)

\* The scanner would ask nothing of the message.
Passes(lists, m) == ~WantsCandidate(HitsOf(lists, m, m.shapes))
Passed(lists) == {m \in Message : Passes(lists, m)}

\* The queue asks the same of a staged candidate, from its excerpt.
NeedsReview(lists, m) == WantsCandidate(HitsOf(lists, m, m.excerpt))

-----------------------------------------------------------------------------
(* The scanner *)

Unread == [l \in List |-> Empty]
ScanPlaces == {"idle", "white", "grey", "black", "check", "judge",
               "done", "refused", "failed"}
NextPlace == [white |-> "grey", grey |-> "black", black |-> "check"]
Reading == DOMAIN NextPlace
ListAt == [white |-> "whitelist", grey |-> "greylist", black |-> "blacklist"]

\* The rules pack is loaded and the message read before the lists.
StartScan(m) ==
    /\ at = "idle"
    /\ work < MaxWork /\ work' = work + 1
    /\ at' = "white" /\ mail' = m
    /\ passable' = FALSE
    /\ UNCHANGED <<seen, torn, asked>>
    /\ UNCHANGED <<listVars, verdictVars, consoleVars, trees>>

LoadList ==
    /\ at \in Reading
    /\ seen' = [seen EXCEPT ![ListAt[at]] = files[ListAt[at]]]
    /\ at' = NextPlace[at]
    /\ passable' = (passable \/ Passes(files, mail))
    /\ UNCHANGED <<mail, torn, asked>>
    /\ UNCHANGED <<listVars, verdictVars, consoleVars, trees, work>>

\* Mutant: a sender that is on two lists is taken for a contradiction.
RefuseTwoHits ==
    /\ at = "check"
    /\ \/ ~Exclusive(seen)
       \/ Hit(seen["whitelist"], mail) /\ Hit(seen["greylist"], mail)
    /\ at' = "refused"
    /\ UNCHANGED <<mail, seen, torn, passable, asked>>
    /\ UNCHANGED <<listVars, verdictVars, consoleVars, trees, work>>

\* InvalidLists: exit 3, no verdict.
RefuseLists ==
    /\ at = "check" /\ ~Exclusive(seen)
    /\ at' = "refused"
    /\ UNCHANGED <<mail, seen, torn, passable, asked>>
    /\ UNCHANGED <<listVars, verdictVars, consoleVars, trees, work>>

\* The feed and the pack were loaded before; nothing here changes them.
Judge(f, p) ==
    /\ at = "check" /\ Exclusive(seen)
    /\ Begin(mail, HitsOf(seen, mail, mail.shapes), f, p)
    /\ at' = "judge"
    /\ UNCHANGED <<mail, seen, torn, passable, asked>>
    /\ UNCHANGED <<listVars, consoleVars, trees, work>>

JudgeStep ==
    /\ at = "judge"
    /\ Triage \/ ScanPass
    /\ UNCHANGED <<listVars, scannerVars, consoleVars, trees, work>>

\* A file at a path replaces the one that was there.
Put(tree, c) == {other \in tree : other.id # c.id} \cup {c}

\* Mutant: only a sender on no list is worth a candidate.
StageUnlisted(day) ==
    /\ at = "judge" /\ phase = "judged"
    /\ at' = "done"
    /\ LET c == [id |-> <<day, JobOf[mail]>>, of |-> mail]
       IN  IF OnNoList(seen, mail)
           THEN staged' = Put(staged, c) /\ asked' = asked \cup {c}
           ELSE UNCHANGED <<staged, asked>>
    /\ UNCHANGED <<mail, seen, torn, passable, reviewed>>
    /\ UNCHANGED <<listVars, verdictVars, consoleVars, work>>

\* scan_and_write: the verdict is complete before anything is written, and the
\* outbound package, which Outbound follows, before the candidate.  The day is
\* the container's, or the command line's --now.
StageCandidate(day) ==
    /\ at = "judge" /\ phase = "judged"
    /\ at' = "done"
    /\ LET c == [id |-> <<day, JobOf[mail]>>, of |-> mail]
       IN  IF WantsCandidate(hits)
           THEN staged' = Put(staged, c) /\ asked' = asked \cup {c}
           ELSE UNCHANGED <<staged, asked>>
    /\ UNCHANGED <<mail, seen, torn, passable, reviewed>>
    /\ UNCHANGED <<listVars, verdictVars, consoleVars, work>>

\* A container killed, a disk full.
KillScan ==
    /\ at \in ScanPlaces \ {"idle", "done", "refused", "failed"}
    /\ Fault
    /\ at' = "failed"
    /\ UNCHANGED <<files, pc, doc, step, mem, dirty, gained, mixed>>
    /\ UNCHANGED <<mail, seen, torn, passable, asked>>
    /\ UNCHANGED <<verdictVars, consoleVars, trees, work>>

\* Mutant: the next scan inherits the message of the last.
ExitKeepsMail ==
    /\ at \in {"done", "refused", "failed"}
    /\ at' = "idle" /\ seen' = Unread /\ torn' = FALSE /\ passable' = FALSE
    /\ IF phase = "idle" THEN UNCHANGED verdictVars ELSE Leave
    /\ UNCHANGED <<mail, asked>>
    /\ UNCHANGED <<listVars, consoleVars, trees, work>>

ExitScan ==
    /\ at \in {"done", "refused", "failed"}
    /\ at' = "idle" /\ mail' = NoMessage /\ seen' = Unread
    /\ torn' = FALSE /\ passable' = FALSE
    /\ IF phase = "idle" THEN UNCHANGED verdictVars ELSE Leave
    /\ UNCHANGED asked
    /\ UNCHANGED <<listVars, consoleVars, trees, work>>

-----------------------------------------------------------------------------
(* The appliers *)

\* A list is written between the scanner's first and last read of the lists.
NoteTear == torn' = (torn \/ (at \in {"grey", "black"} /\ files' # files))

\* What each reader of the lists might see on disk next.
NoteMoment ==
    /\ passable' = (passable \/ (at \in {"grey", "black"} /\ Passes(files', mail)))
    /\ answered' = IF looking \in Reading THEN answered \cup Passed(files')
                   ELSE answered

DeskUnchanged == UNCHANGED <<at, mail, seen, asked>>
                 /\ UNCHANGED <<verdictVars, looking, view, screen, trees>>

Send(t, ds) ==
    /\ work < MaxWork /\ work' = work + 1
    /\ Submit(t, ds) \/ Reject(t, ds)
    /\ DeskUnchanged /\ UNCHANGED <<torn, passable, answered, decided>>

CommandLine(t, ds) == t # Console /\ Send(t, ds) /\ UNCHANGED card

\* POST /api/decisions and /api/decisions/trust-all, for a card on the screen,
\* which may be long answered.
Confirm(c, ds) ==
    /\ looking = "idle" /\ c \in screen
    /\ Len(ds) = 1
    /\ Send(Console, ds)
    /\ card' = c

\* POST /api/lists/{name}/add.
ManualAdd(ds) ==
    /\ looking = "idle"
    /\ Len(ds) = 1 /\ ds[1].action \in List
    /\ Send(Console, ds)
    /\ UNCHANGED card

Apply(t) ==
    /\ ApplierStep(t)
    /\ NoteTear /\ NoteMoment
    /\ decided' = IF t = Console /\ card # NoCard /\ pc'[t] = "applied"
                  THEN decided \cup {card} ELSE decided
    /\ DeskUnchanged /\ UNCHANGED <<card, work>>

\* What lies at the path of a candidate: one file, or none.
FiledUnder(id) == {c \in staged : c.id = id}

\* Mutant: the card is consumed before the applier has written.
ConsumeFirst ==
    /\ pc[Console] \in {"apply", "write", "applied"} /\ card # NoCard
    /\ card' = NoCard
    /\ staged' = staged \ FiledUnder(card.id)
    /\ reviewed' = FiledUnder(card.id)
                    \cup {c \in reviewed : FiledUnder(card.id) = {} \/ c.id # card.id}
    /\ UNCHANGED <<listVars, verdictVars, scannerVars>>
    /\ UNCHANGED <<looking, view, answered, screen, work, decided>>

\* Whatever candidate lies at the card's path is moved to reviewed/ once the
\* decision is applied, though the reviewer may have seen another message's; if
\* none does there is nothing to consume.
Consume ==
    /\ pc[Console] = "applied" /\ card # NoCard
    /\ card' = NoCard
    /\ staged' = staged \ FiledUnder(card.id)
    /\ reviewed' = FiledUnder(card.id)
                    \cup {c \in reviewed : FiledUnder(card.id) = {} \/ c.id # card.id}
    /\ UNCHANGED <<listVars, verdictVars, scannerVars>>
    /\ UNCHANGED <<looking, view, answered, screen, work, decided>>

Reply(t) ==
    /\ Answer(t)
    /\ t = Console => card = NoCard \/ pc[t] = "refused"
    /\ card' = IF t = Console THEN NoCard ELSE card
    /\ DeskUnchanged /\ UNCHANGED <<torn, passable, answered, work, decided>>

\* An applier dies, or a write or the move fails.
Fail(t) ==
    /\ Crash(t)
    /\ card' = IF t = Console THEN NoCard ELSE card
    /\ DeskUnchanged /\ UNCHANGED <<torn, passable, answered, work, decided>>

-----------------------------------------------------------------------------
(* GET /api/candidates *)

LookUnchanged == UNCHANGED <<listVars, verdictVars, scannerVars, trees>>
                 /\ UNCHANGED <<card, work, decided>>

OpenQueue ==
    /\ looking = "idle" /\ pc[Console] = "idle"
    /\ looking' = "white" /\ answered' = Passed(files)
    /\ LookUnchanged /\ UNCHANGED <<view, screen>>

ReadForQueue ==
    /\ looking \in Reading
    /\ view' = [view EXCEPT ![ListAt[looking]] = files[ListAt[looking]]]
    /\ looking' = NextPlace[looking]
    /\ LookUnchanged /\ UNCHANGED <<answered, screen>>

\* One load of the lists for the filter and for every card.
ShowQueue ==
    /\ looking = "check" /\ Exclusive(view)
    /\ screen' = {c \in staged : NeedsReview(view, c.of)}
    /\ looking' = "idle" /\ view' = Unread /\ answered' = {}
    /\ LookUnchanged

\* InvalidLists: 503.
Unavailable ==
    /\ looking = "check" /\ ~Exclusive(view)
    /\ looking' = "idle" /\ view' = Unread /\ answered' = {}
    /\ LookUnchanged /\ UNCHANGED screen

-----------------------------------------------------------------------------

DeskInit ==
    /\ ListsInit /\ VerdictInit
    /\ at = "idle" /\ mail = NoMessage /\ seen = Unread
    /\ torn = FALSE /\ passable = FALSE
    /\ asked = {} /\ staged = {} /\ reviewed = {}
    /\ looking = "idle" /\ view = Unread /\ answered = {} /\ screen = {}
    /\ card = NoCard /\ work = 0 /\ decided = {}

ScannerNext ==
    \/ \E m \in Message : StartScan(m)
    \/ LoadList \/ RefuseLists
    \/ \E f \in Feed, p \in Pack : Judge(f, p)
    \/ JudgeStep
    \/ \E day \in Day : StageCandidate(day)
    \/ KillScan \/ ExitScan

ConsoleNext ==
    \/ \E c \in Card, ds \in Docs : Confirm(c, ds)
    \/ \E ds \in Docs : ManualAdd(ds)
    \/ Consume
    \/ OpenQueue \/ ReadForQueue \/ ShowQueue \/ Unavailable

ApplierNext ==
    \E t \in Applier :
       \/ \E ds \in Docs : CommandLine(t, ds)
       \/ Apply(t) \/ Reply(t) \/ Fail(t)

DeskNext == ScannerNext \/ ConsoleNext \/ ApplierNext

DeskSpec == DeskInit /\ [][DeskNext]_deskVars

-----------------------------------------------------------------------------
(* Properties *)

DeskTypeOK ==
    /\ ListsTypeOK /\ VerdictTypeOK
    /\ at \in ScanPlaces
    /\ mail \in Message \cup {NoMessage} /\ (mail = NoMessage <=> at = "idle")
    /\ seen \in [List -> Content] /\ view \in [List -> Content]
    /\ looking \in {"idle", "check"} \cup Reading
    /\ {asked, staged, reviewed, screen, decided} \subseteq SUBSET Card
    /\ card \in Card \cup {NoCard}
    /\ answered \subseteq Message /\ passable \in BOOLEAN
    /\ work \in 0 .. MaxWork
    /\ torn \in BOOLEAN

\* A job that another message was asked about on the same day: the two share a
\* file.
Shared(q) == \E other \in asked : other.id = q.id /\ other.of # q.of

\* "Order matters: the applier runs first" (app.py:278): a question that a
\* completed scan asked leaves the queue only through a decision on that very
\* card which was applied in full, whatever was refused, crashed, confirmed from
\* a stale screen or done on the command line in between.  The exception is a
\* job that two messages share: the later candidate replaces the earlier one
\* (propose.py:85), and a decision on either consumes the file (app.py:294).
NoQuestionLost == \A q \in asked \ decided : q \in staged \/ Shared(q)

\* The scanner reads three files one after another under a writer, and what it
\* puts together may never have been on disk at any moment.  Still it leaves a
\* message without a card only if the lists, as they were on disk at some moment
\* of its reading, ask nothing of the message (propose.py:50, lists.py:77).
SkippedForAReason ==
    [][at = "judge" /\ at' = "done" =>
          passable \/ \E c \in staged' : c.of = mail]_deskVars

\* "A candidate survives here exactly when the scanner would stage it again
\* today" (candidates.py:101), and the excerpt "errs towards showing a card": a
\* staged card the queue leaves out is one that the scanner would not stage by
\* the lists as they were on disk at some moment while the console read them,
\* though the three files it put together may never have been on disk at once.
HiddenIsSkipped ==
    [][\A c \in staged \ screen' :
          looking = "check" /\ looking' = "idle" /\ Exclusive(view) =>
              c.of \in answered]_deskVars

\* The three lists are read one after another under a writer.  Contradictory
\* lists are refused (cli.py:192); a scan is refused only if a list was written
\* while it read them, or a batch for two lists was sent.
RefusedForAReason == at = "refused" => torn \/ mixed
=============================================================================
