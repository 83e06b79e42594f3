----------------------------- MODULE Dispatcher -----------------------------
(***************************************************************************)
(* The dispatcher process: runner.py over mailsource.py, state.py and      *)
(* sinks.py, together with the mailbox it watches and the other clients of *)
(* that mailbox.                                                           *)
(*                                                                         *)
(* One pass of drain_once is SEARCH, one FETCH per message, the `has' test *)
(* of each message, the scans in a pool, and then, message by message in   *)
(* mailbox order, sinks -> state file -> \Seen.  A step is one call that   *)
(* leaves the process or writes a store, so that a crash, a dropped        *)
(* connection or another mail client can come between any two of them.     *)
(***************************************************************************)
EXTENDS Naturals, FiniteSets

CONSTANTS
  Message,          \* the messages that may ever reach the mailbox
  UID,              \* the UIDs a server may hand out
  MaxValidity,      \* bound: UIDVALIDITY ranges over 1..MaxValidity
  UidOf,            \* UidOf[v][m]: the UID of message m under UIDVALIDITY v
  MaxAttempts,      \* Runner.max_attempts
  Concurrency,      \* Runner.concurrency
  WebhookAttempts,  \* WebhookSink._attempts
  Limit,            \* --rescan --limit
  Modes,            \* how the process may be started
  MaxFaults         \* bound: crashes, stops, drops and failed calls in a run

NoUid == 0
Validity == 1..MaxValidity
Key == Validity \X UID     \* what state.json records: (UIDVALIDITY, UID)
DrainModes == {"forever", "once"}

ASSUME UidAssumption ==
  /\ UID \subseteq Nat \ {0}
  /\ MaxValidity \in Nat \ {0}
  /\ UidOf \in [Validity -> [Message -> UID]]
  /\ \A v \in Validity : \A m, n \in Message :
       UidOf[v][m] = UidOf[v][n] => m = n

ASSUME BoundAssumption ==
  /\ MaxAttempts \in Nat \ {0}
  /\ Concurrency \in Nat \ {0}
  /\ WebhookAttempts \in Nat \ {0}
  /\ Limit \in Nat \ {0}
  /\ MaxFaults \in Nat
  /\ Modes \subseteq DrainModes \cup {"rescan", "rescan+webhooks"}

VARIABLES
  mailbox,       \* Message -> "unborn", "unseen", "seen" or "gone"
  validity,      \* the server's UIDVALIDITY
  alive,         \* the dispatcher's connection answers
  pc,            \* where the main thread is
  mode,          \* how the process was started
  uidValidity,   \* ImapMailSource._uid_validity, read by connect
  processed,     \* ProcessedState._processed, in memory
  stateFile,     \* the keys in state.json
  quarantineLog, \* Key -> its lines in quarantine.log
  found,         \* UIDs of the SEARCH not fetched yet
  messages,      \* UIDs fetched and not yet sifted
  pending,       \* UIDs to scan, then to commit
  attempt,       \* UID -> scan attempts begun in this pass
  outcome,       \* UID -> "none", "ok" or "failed"
  current,       \* the UID being committed
  post,          \* POSTs of the current verdict that have failed
  handed,        \* history: Key -> times a drain gave it to the sinks
  flagged,       \* history: messages the dispatcher has set \Seen on
  faults         \* disturbances so far, capped by MaxFaults

mailVars == <<mailbox, validity, flagged>>
storeVars == <<processed, stateFile, quarantineLog>>
listVars == <<found, messages, pending>>
scanVars == <<attempt, outcome>>
passVars == <<found, messages, pending, attempt, outcome, current, post>>
procVars == <<alive, mode, uidValidity>>
vars == <<mailbox, validity, alive, pc, mode, uidValidity, processed,
          stateFile, quarantineLog, found, messages, pending, attempt,
          outcome, current, post, handed, flagged, faults>>

-----------------------------------------------------------------------------
(* Helpers *)

IsLeast(u, S) == u \in S /\ \A w \in S : u <= w
First(S, n) == {u \in S : Cardinality({w \in S : w < u}) < n}

Draining == mode \in DrainModes
CurrentKey == <<uidValidity, current>>
Owners(v, u) == {m \in Message : UidOf[v][m] = u}
Running == {u \in pending : attempt[u] > 0 /\ outcome[u] = "none"}

\* The messages a SEARCH returns: UNSEEN for a drain, ALL for a re-scan.
Searched ==
  IF Draining THEN {m \in Message : mailbox[m] = "unseen"}
              ELSE {m \in Message : mailbox[m] \in {"unseen", "seen"}}

-----------------------------------------------------------------------------
(* Mutants: one plausible slip each, used only to show that a property bites *)

HasAnyValidity(u) == \E v \in Validity : <<v, u>> \in processed
HasNothing(u) == FALSE
RetriesOnceMore(u) == attempt[u] <= MaxAttempts
NoLogLine(u) == IF outcome[u] = "ok" THEN "deliver" ELSE "record"
SavesOnlyThis == {CurrentKey}
RescanCommits ==
  /\ post' = 0 /\ pc' = "record"
  /\ handed' = [handed EXCEPT ![CurrentKey] = @ + 1]
  /\ UNCHANGED <<pending, current>>

-----------------------------------------------------------------------------
(* One operator per decision of the code *)

\* ProcessedState.has, under the UIDVALIDITY this connection read.
IsDone(u) == <<uidValidity, u>> \in processed

\* _scan_with_retries: another attempt is left.
MayRetry(u) == attempt[u] < MaxAttempts

\* _commit's two branches.
AfterScan(u) == IF outcome[u] = "ok" THEN "deliver" ELSE "quarantine"

\* What ProcessedState.add leaves in memory and hands to _save: everything.
Remembered == processed \cup {CurrentKey}

ClearPass ==
  /\ found' = {} /\ messages' = {} /\ pending' = {}
  /\ attempt' = [u \in UID |-> 0]
  /\ outcome' = [u \in UID |-> "none"]
  /\ current' = NoUid /\ post' = 0

\* Mutant of Raise: the loop goes on with the connection that failed.
KeepsConnection(held) ==
  /\ IF mode = "forever"
     THEN pc' = "search" /\ processed' = held /\ UNCHANGED alive /\ ClearPass
     ELSE pc' = "down" /\ alive' = FALSE /\ processed' = {} /\ ClearPass
  /\ UNCHANGED <<mode, uidValidity>>

\* The process is gone: everything it held in memory with it.
Exit == pc' = "down" /\ alive' = FALSE /\ processed' = {} /\ ClearPass

\* An exception leaves drain_once: run_forever reconnects, --once and
\* --rescan let it end the process.  `held' is the in-memory done-list then.
Raise(held) ==
  /\ IF mode = "forever"
     THEN pc' = "connect" /\ alive' = FALSE /\ processed' = held /\ ClearPass
     ELSE Exit
  /\ UNCHANGED <<mode, uidValidity>>

\* The pass is over: wait for work, or leave.
Finish ==
  /\ IF mode = "forever"
     THEN pc' = "wait" /\ ClearPass /\ UNCHANGED <<alive, processed>>
     ELSE Exit
  /\ UNCHANGED <<mode, uidValidity, stateFile, quarantineLog>>

Fault == faults < MaxFaults /\ faults' = faults + 1

\* _mark_seen: STORE +FLAGS \Seen, any failure swallowed.
MarkSeen(u) ==
  \/ UNCHANGED <<mailbox, flagged>>
  \/ /\ alive
     /\ LET hit == {m \in Owners(uidValidity, u) : mailbox[m] # "gone"} IN
        /\ mailbox' = [m \in Message |->
                         IF m \in hit THEN "seen" ELSE mailbox[m]]
        /\ flagged' = flagged \cup hit

-----------------------------------------------------------------------------
(* The mailbox and its other clients *)

Arrive(m) ==
  /\ mailbox[m] = "unborn"
  /\ mailbox' = [mailbox EXCEPT ![m] = "unseen"]
  /\ UNCHANGED <<validity, flagged, pc, storeVars, passVars, handed,
                 procVars, faults>>

\* Another client reads a message, marks it unread, or deletes it.
ClientTouches(m) ==
  /\ \/ /\ mailbox[m] = "unseen"
        /\ mailbox' = [mailbox EXCEPT ![m] = "seen"]
     \/ /\ mailbox[m] = "seen"
        /\ mailbox' = [mailbox EXCEPT ![m] = "unseen"]
     \/ /\ mailbox[m] \in {"unseen", "seen"}
        /\ mailbox' = [mailbox EXCEPT ![m] = "gone"]
  /\ UNCHANGED <<validity, flagged, pc, storeVars, passVars, handed,
                 procVars, faults>>

\* The server renumbers the mailbox, which ends every session on it.
Renumber ==
  /\ validity < MaxValidity
  /\ validity' = validity + 1
  /\ alive' = FALSE
  /\ UNCHANGED <<mailbox, flagged, pc, mode, uidValidity, storeVars, passVars,
                 handed, faults>>

Drop ==
  /\ alive /\ Fault
  /\ alive' = FALSE
  /\ UNCHANGED <<mailVars, pc, mode, uidValidity, storeVars, passVars,
                 handed>>

-----------------------------------------------------------------------------
(* The life of the process *)

\* main: load state.json, build the runner, enter the mode.
Start(md) ==
  /\ pc = "down"
  /\ pc' = "connect" /\ mode' = md
  /\ processed' = stateFile
  /\ UNCHANGED <<mailVars, alive, uidValidity, stateFile, quarantineLog,
                 passVars, handed, faults>>

Crash ==
  /\ pc # "down" /\ Fault /\ Exit
  /\ UNCHANGED <<mailVars, mode, uidValidity, stateFile, quarantineLog,
                 handed>>

\* SIGTERM: run_forever leaves between two passes.
Stop ==
  /\ pc \in {"connect", "wait"} /\ mode = "forever" /\ Fault /\ Exit
  /\ UNCHANGED <<mailVars, mode, uidValidity, stateFile, quarantineLog,
                 handed>>

Connect ==
  /\ pc = "connect"
  /\ pc' = "search" /\ alive' = TRUE /\ uidValidity' = validity
  /\ UNCHANGED <<mailVars, mode, storeVars, passVars, handed, faults>>

ConnectFails ==
  /\ pc = "connect" /\ Fault /\ Raise(processed)
  /\ UNCHANGED <<mailVars, stateFile, quarantineLog, handed>>

Wake ==
  /\ pc = "wait"
  /\ pc' = "search"
  /\ UNCHANGED <<mailVars, procVars, storeVars, passVars, handed, faults>>

-----------------------------------------------------------------------------
(* fetch_new and fetch_all *)

Search ==
  /\ pc = "search" /\ alive
  /\ pc' = "fetch"
  /\ found' = {UidOf[uidValidity][m] : m \in Searched}
  /\ UNCHANGED <<mailVars, procVars, storeVars, messages, pending, scanVars,
                 current, post, handed, faults>>

\* BODY.PEEK of the next UID; a message that has vanished is left out.
Fetch ==
  /\ pc = "fetch" /\ alive
  /\ \E u \in found :
       /\ IsLeast(u, found)
       /\ found' = found \ {u}
       /\ messages' = IF \E m \in Owners(uidValidity, u) : mailbox[m] # "gone"
                      THEN messages \cup {u} ELSE messages
  /\ UNCHANGED <<mailVars, pc, procVars, storeVars, pending, scanVars,
                 current, post, handed, faults>>

ReadFails ==
  /\ pc = "search" \/ (pc = "fetch" /\ found # {})
  /\ ~alive /\ Raise(processed)
  /\ UNCHANGED <<mailVars, stateFile, quarantineLog, handed, faults>>

Fetched ==
  /\ pc = "fetch" /\ found = {}
  /\ IF Draining
     THEN pc' = "sift" /\ UNCHANGED <<messages, pending>>
     ELSE pc' = "next" /\ messages' = {} /\ pending' = First(messages, Limit)
  /\ UNCHANGED <<mailVars, procVars, storeVars, found, scanVars, current,
                 post, handed, faults>>

-----------------------------------------------------------------------------
(* drain_once: skip what is done, scan the rest *)

Sift ==
  /\ pc = "sift"
  /\ \E u \in messages :
       /\ IsLeast(u, messages)
       /\ messages' = messages \ {u}
       /\ \/ /\ IsDone(u)
             /\ MarkSeen(u) /\ UNCHANGED pending
          \/ /\ ~IsDone(u)
             /\ pending' = pending \cup {u} /\ UNCHANGED <<mailbox, flagged>>
  /\ UNCHANGED <<validity, pc, procVars, storeVars, found, scanVars, current,
                 post, handed, faults>>

Sifted ==
  /\ pc = "sift" /\ messages = {}
  /\ IF pending = {}
     THEN Finish
     ELSE pc' = "scan" /\ UNCHANGED <<procVars, storeVars, passVars>>
  /\ UNCHANGED <<mailVars, handed, faults>>

\* The pool takes messages in submission order, `Concurrency' at a time.
StartScan ==
  /\ pc = "scan" /\ Draining
  /\ Cardinality(Running) < Concurrency
  /\ \E u \in pending :
       /\ IsLeast(u, {w \in pending : attempt[w] = 0})
       /\ attempt' = [attempt EXCEPT ![u] = 1]
  /\ UNCHANGED <<mailVars, pc, procVars, storeVars, listVars, outcome,
                 current, post, handed, faults>>

ScanSucceeds ==
  /\ pc = "scan"
  /\ \E u \in Running : outcome' = [outcome EXCEPT ![u] = "ok"]
  /\ UNCHANGED <<mailVars, pc, procVars, storeVars, listVars, attempt,
                 current, post, handed, faults>>

ScanFails ==
  /\ pc = "scan"
  /\ \E u \in Running :
       \/ /\ MayRetry(u)
          /\ attempt' = [attempt EXCEPT ![u] = @ + 1]
          /\ UNCHANGED outcome
       \/ /\ ~MayRetry(u)
          /\ outcome' = [outcome EXCEPT ![u] = "failed"]
          /\ UNCHANGED attempt
  /\ UNCHANGED <<mailVars, pc, procVars, storeVars, listVars, current, post,
                 handed, faults>>

ScansDone ==
  /\ pc = "scan" /\ Draining
  /\ \A u \in pending : outcome[u] # "none"
  /\ pc' = "commit"
  /\ UNCHANGED <<mailVars, procVars, storeVars, passVars, handed, faults>>

-----------------------------------------------------------------------------
(* _commit: sinks, then state, then the flag *)

Commit ==
  /\ pc = "commit"
  /\ \E u \in pending :
       /\ IsLeast(u, pending)
       /\ current' = u
       /\ pc' = AfterScan(u)
  /\ UNCHANGED <<mailVars, procVars, storeVars, listVars, scanVars, post,
                 handed, faults>>

Committed ==
  /\ pc = "commit" /\ pending = {} /\ Finish
  /\ UNCHANGED <<mailVars, handed, faults>>

\* The line is appended; `add' is the next step.
Quarantine ==
  /\ pc = "quarantine"
  /\ pc' = "record"
  /\ quarantineLog' = [quarantineLog EXCEPT ![CurrentKey] = @ + 1]
  /\ UNCHANGED <<mailVars, procVars, processed, stateFile, passVars, handed,
                 faults>>

QuarantineFails ==
  /\ pc = "quarantine" /\ Fault /\ Raise(processed)
  /\ UNCHANGED <<mailVars, stateFile, quarantineLog, handed>>

\* What follows the sinks, whether or not the webhook got through.
Delivered ==
  /\ post' = 0
  /\ IF Draining
     THEN /\ pc' = "record"
          /\ handed' = [handed EXCEPT ![CurrentKey] = @ + 1]
          /\ UNCHANGED <<pending, current>>
     ELSE /\ pc' = "next"
          /\ pending' = pending \ {current} /\ current' = NoUid
          /\ UNCHANGED handed

\* One POST, or none in a re-scan.  The sink is left after the first that is
\* answered, after the last that fails, or by an exception it does not catch.
Deliver ==
  /\ pc = "deliver"
  /\ \/ Delivered
     \/ /\ mode # "rescan" /\ post + 1 < WebhookAttempts
        /\ post' = post + 1
        /\ UNCHANGED <<pc, handed, pending, current>>
  /\ UNCHANGED <<mailVars, procVars, storeVars, found, messages, scanVars,
                 faults>>

\* ProcessedState.add: memory first, then the whole file.
Record ==
  /\ pc = "record"
  /\ pc' = "mark"
  /\ processed' = Remembered
  /\ stateFile' = IF IsDone(current) THEN stateFile ELSE Remembered
  /\ UNCHANGED <<mailVars, procVars, quarantineLog, passVars, handed,
                 faults>>

\* _save raises: the file keeps its old contents, memory keeps the key.
SaveFails ==
  /\ pc = "record" /\ ~IsDone(current)
  /\ Fault /\ Raise(Remembered)
  /\ UNCHANGED <<mailVars, stateFile, quarantineLog, handed>>

Mark ==
  /\ pc = "mark"
  /\ pc' = "commit" /\ MarkSeen(current)
  /\ pending' = pending \ {current} /\ current' = NoUid
  /\ UNCHANGED <<validity, procVars, storeVars, found, messages, scanVars,
                 post, handed, faults>>

-----------------------------------------------------------------------------
(* rescan: one message at a time, nothing recorded *)

RescanNext ==
  /\ pc = "next"
  /\ \E u \in pending :
       /\ IsLeast(u, pending)
       /\ current' = u /\ attempt' = [attempt EXCEPT ![u] = 1]
  /\ pc' = "scan"
  /\ UNCHANGED <<mailVars, procVars, storeVars, listVars, outcome, post,
                 handed, faults>>

\* _observe: a failure is only counted, a success goes to the sinks.
Observe ==
  /\ pc = "scan" /\ ~Draining
  /\ outcome[current] # "none"
  /\ IF outcome[current] = "ok"
     THEN pc' = "deliver" /\ UNCHANGED <<pending, current>>
     ELSE pc' = "next" /\ pending' = pending \ {current} /\ current' = NoUid
  /\ UNCHANGED <<mailVars, procVars, storeVars, found, messages, scanVars,
                 post, handed, faults>>

RescanDone ==
  /\ pc = "next" /\ pending = {} /\ Finish
  /\ UNCHANGED <<mailVars, handed, faults>>

-----------------------------------------------------------------------------
Environment ==
  \/ \E m \in Message : Arrive(m) \/ ClientTouches(m)
  \/ Renumber
  \/ Drop

Disturbance ==
  \/ Crash \/ Stop \/ ConnectFails \/ QuarantineFails \/ SaveFails

Step ==
  \/ Connect \/ Wake \/ Search \/ Fetch \/ ReadFails \/ Fetched
  \/ Sift \/ Sifted \/ StartScan \/ ScanSucceeds \/ ScanFails \/ ScansDone
  \/ Commit \/ Committed \/ Quarantine \/ Deliver \/ Record \/ Mark
  \/ RescanNext \/ Observe \/ RescanDone

Next ==
  \/ Environment
  \/ Disturbance
  \/ Step
  \/ \E md \in Modes : Start(md)

Init ==
  /\ mailbox = [m \in Message |-> "unborn"]
  /\ validity = 1 /\ alive = FALSE
  /\ pc = "down" /\ mode = "forever" /\ uidValidity = 1
  /\ processed = {} /\ stateFile = {}
  /\ quarantineLog = [k \in Key |-> 0]
  /\ found = {} /\ messages = {} /\ pending = {}
  /\ attempt = [u \in UID |-> 0]
  /\ outcome = [u \in UID |-> "none"]
  /\ current = NoUid /\ post = 0
  /\ handed = [k \in Key |-> 0]
  /\ flagged = {} /\ faults = 0

Spec == Init /\ [][Next]_vars

\* The process runs whenever it can, and the supervisor restarts the live
\* loop (compose's restart: unless-stopped), whatever else is started between.
Fairness == WF_vars(Step) /\ SF_vars(Start("forever"))

FairSpec == Spec /\ Fairness

-----------------------------------------------------------------------------
(* Properties *)

PCs == {"down", "connect", "search", "fetch", "sift", "scan", "commit",
        "deliver", "quarantine", "record", "mark", "wait", "next"}

\* Type invariant: the values each variable of the process, the mailbox and
\* the two files of state.py ranges over.
TypeOK ==
  /\ mailbox \in [Message -> {"unborn", "unseen", "seen", "gone"}]
  /\ validity \in Validity /\ uidValidity \in Validity
  /\ alive \in BOOLEAN
  /\ pc \in PCs
  /\ mode \in DrainModes \cup {"rescan", "rescan+webhooks"}
  /\ processed \subseteq Key /\ stateFile \subseteq Key
  /\ quarantineLog \in [Key -> Nat]
  /\ found \subseteq UID /\ messages \subseteq UID /\ pending \subseteq UID
  /\ attempt \in [UID -> 0..MaxAttempts]
  /\ outcome \in [UID -> {"none", "ok", "failed"}]
  /\ current \in UID \cup {NoUid}
  /\ post \in 0..WebhookAttempts
  /\ handed \in [Key -> Nat]
  /\ flagged \subseteq Message
  /\ faults \in 0..MaxFaults

Disposals(k) == handed[k] + quarantineLog[k]
KeysOf(m) == {<<v, UidOf[v][m]>> : v \in Validity}
Disposed(m) == \E k \in KeysOf(m) : Disposals(k) > 0

\* No message is lost by being called done: whatever is on the done-list, in
\* memory or in state.json, was given to the sinks or has a line in
\* quarantine.log (runner.py: sinks fire before the message is recorded).
DoneWasDisposed == \A k \in stateFile \cup processed : Disposals(k) > 0

\* The dispatcher hides a message from its own next SEARCH UNSEEN only after
\* that very message was disposed of, through crashes, restarts, failed saves
\* and renumbered mailboxes (a UID means nothing without its UIDVALIDITY).
FlaggedWasDisposed == \A m \in flagged : Disposed(m)

\* At-least-once is not at-any-time: each extra delivery or quarantine line
\* of one (UIDVALIDITY, UID) is paid for by a crash or a failed call.
DuplicatesNeedFaults == \A k \in Key : Disposals(k) <= 1 + faults

\* state.json never forgets: a save, a restart or a failed save leaves every
\* key that was in the file in the file (add writes all of memory, and memory
\* holds all of the file).
DoneListOnlyGrows == [][stateFile \subseteq stateFile']_vars

\* A re-scan leaves the live loop's records as they were: state.json,
\* quarantine.log and the \Seen flags (README, re-scanning the mailbox).
RescanWritesNothing ==
  [][pc # "down" /\ ~Draining
       => UNCHANGED <<stateFile, quarantineLog, flagged, handed>>]_vars

\* No unread message waits forever: unless another client takes it out of
\* the unread mail first, it is delivered or quarantined.  In particular a
\* message no scan succeeds on does not hold up the ones behind it.
NothingIsStranded ==
  \A m \in Message :
    mailbox[m] = "unseen" ~> Disposed(m) \/ mailbox[m] # "unseen"

\* state.py: "The state file is the authority; \Seen is a courtesy", and
\* runner.py on a failed STORE: "state already records it".  What the
\* dispatcher has flagged is then in the state file.
FlaggedIsRecorded ==
  \A m \in flagged : KeysOf(m) \cap stateFile # {}

\* The dispatcher implements the at-least-once queue of Intake: an item is a
\* (UIDVALIDITY, UID), done is being in state.json.
Queue == INSTANCE Intake WITH
  Item <- Key,
  disposals <- [k \in Key |-> Disposals(k)],
  done <- stateFile

ImplementsIntake == Queue!Spec
=============================================================================
