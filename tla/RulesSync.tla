------------------------------ MODULE RulesSync ------------------------------
(***************************************************************************)
(* The rules updater: sync.py over store.py, lock.py, loop.py and the      *)
(* control server, with the upstream branch it follows and the scan        *)
(* containers that mount what `current' names.                             *)
(*                                                                         *)
(* Two threads of one process call pull_and_promote: the scheduled loop    *)
(* and the handler of the console's Refresh rules, which also stands for   *)
(* the operator's --once beside the service.  A pull holds the flock from  *)
(* end to end; the ensure_live_root with which run_forever starts does not *)
(* hold it.  A step is one call that writes the live root or talks to git, *)
(* so that a crash, a stop or the other thread can come between any two.   *)
(***************************************************************************)
EXTENDS Naturals, FiniteSets

CONSTANTS
  Commit,        \* the commits upstream may ever have
  Root,          \* the commit upstream starts on
  Ancestor,      \* the pairs <<a, b>>, a an ancestor of b or b itself
  Moves,         \* the pairs <<a, b>> by which the branch may move
  Pack,          \* Commit -> what a pull finds: "valid", "invalid", "none"
  Keep,          \* SyncConfig.keep_releases
  EarlyRefresh,  \* whether a refresh may overlap run_forever's own seeding
  MaxFaults      \* bound: crashes, stops, failed calls, state files removed

Seed == "seed"       \* store.SEED_ID
None == "none"
Id == Commit \cup {Seed}
Thread == {"loop", "console"}

ASSUME HistoryAssumption ==
  /\ Seed \notin Commit /\ None \notin Commit
  /\ Root \in Commit
  /\ Ancestor \subseteq Commit \X Commit
  /\ \A a \in Commit : <<a, a>> \in Ancestor
  /\ \A a, b, c \in Commit :
       <<a, b>> \in Ancestor /\ <<b, c>> \in Ancestor => <<a, c>> \in Ancestor
  /\ Moves \subseteq Commit \X Commit
  /\ Pack \in [Commit -> {"valid", "invalid", "none"}]

ASSUME LimitAssumption ==
  /\ Keep \in Nat \ {0}
  /\ EarlyRefresh \in BOOLEAN
  /\ MaxFaults \in Nat

VARIABLES
  upstream,  \* the tip of the followed branch
  work,      \* HEAD of the working copy, None before the clone
  current,   \* the release `current' names, None before the first promotion
  pack,      \* Id -> releases/<id>/rules: "absent", "partial" or "whole"
  marked,    \* the releases with a .complete
  newer,     \* the pairs <<a, b>>, release a staged after release b
  fresh,     \* those younger than PRUNE_MIN_AGE_SECONDS
  promoted,  \* state.json: promoted_commit
  rejected,  \* state.json: last_rejected_commit
  lock,      \* the thread that holds .lock
  pc,        \* Thread -> where it is
  seeding,   \* the threads inside the seeding of ensure_live_root
  remote,    \* the answer of ls-remote in the pull under way
  mounted,   \* the release a running scan container has mounted
  trail,     \* history: the last upstream commit that was live
  faults     \* disturbances so far, capped by MaxFaults

gitVars == <<upstream, work>>
treeVars == <<pack, marked, newer, fresh>>
stateVars == <<promoted, rejected>>
liveVars == <<current, trail>>
pullVars == <<lock, seeding, remote>>
vars == <<upstream, work, current, pack, marked, newer, fresh, promoted,
          rejected, lock, pc, seeding, remote, mounted, trail, faults>>

-----------------------------------------------------------------------------
(* Helpers *)

Exists(id) == pack[id] # "absent" \/ id \in marked
LivePack == IF current = None THEN "absent" ELSE pack[current]
Staged(t) == IF t \in seeding THEN Seed ELSE remote
Goto(t, step) == pc' = [pc EXCEPT ![t] = step]
Fault == faults < MaxFaults /\ faults' = faults + 1

\* run_forever is still in the ensure_live_root it starts with.
Booting == pc["loop"] \notin {"down", "idle"} /\ lock # "loop"

\* The other thread is staging the same release, or has just deleted it.
Disturbed(t) ==
  \/ pack[Staged(t)] = "absent"
  \/ \E s \in Thread \ {t} :
       pc[s] \in {"create", "copy"} /\ Staged(s) = Staged(t)

-----------------------------------------------------------------------------
(* Mutants: one plausible slip each, used only to show that a property bites *)

AnyDescent(head) == TRUE
AlwaysStale == FALSE
CompleteIsEnough == remote \in marked
AnyPack(id) == TRUE
PidfileStays == lock
MarkAlways(id) == marked \cup {id, remote}
SaveTip(t) ==
  /\ pc[t] = "save" /\ Goto(t, "tidy")
  /\ promoted' = upstream /\ rejected' = None
  /\ UNCHANGED <<gitVars, treeVars, liveVars, pullVars, mounted, faults>>

-----------------------------------------------------------------------------
(* One operator per decision of the code *)

\* "no change": what upstream has is what was promoted, and is complete.
UpToDate == remote = promoted /\ remote \in marked

\* is_ancestor, after the fetch: remote descends from the working copy's
\* HEAD, and is still on the branch that was fetched.
FastForward(head) ==
  \/ head = remote
  \/ <<head, remote>> \in Ancestor /\ <<remote, upstream>> \in Ancestor

\* validate_staged: the pack's own validator, over what was copied.
Passes(id) == pack[id] = "whole" /\ Pack[id] = "valid"

\* mark_complete: _write_json makes the parent directory if it has to.
Marks(id) == marked \cup {id}

\* prune: all but the Keep - 1 newest of the others, and no fresh one.
Prunable ==
  LET others == {c \in Commit : Exists(c) /\ c # current} IN
  {c \in others : Cardinality({a \in others : <<a, c>> \in newer}) + 1 >= Keep}
    \ fresh

\* The kernel drops a flock with the process that held it.
LockAfterExit == None

Deleted(gone) == [id \in Id |-> IF id \in gone THEN "absent" ELSE pack[id]]

\* The lock is released and the thread is back where it came from.
Leave(t) ==
  /\ lock' = None /\ remote' = None
  /\ seeding' = seeding \ {t}
  /\ Goto(t, "idle")

\* The process is gone, its daemon threads with it.
Exit ==
  /\ lock' = LockAfterExit /\ remote' = None /\ seeding' = {}
  /\ pc' = [t \in Thread |-> "down"]

\* An exception: pull_and_promote turns it into an error result, but nothing
\* catches it in the ensure_live_root of run_forever.
Abort(t) == IF lock = t THEN Leave(t) ELSE Exit

-----------------------------------------------------------------------------
(* Upstream, the operator, the scan containers, the clock *)

Push(c) ==
  /\ <<upstream, c>> \in Moves
  /\ upstream' = c
  /\ UNCHANGED <<work, treeVars, stateVars, liveVars, pullVars, pc, mounted,
                 faults>>

\* VALIDATION 9.2: with the service stopped, state.json is removed.
ForgetState ==
  /\ pc["loop"] = "down" /\ Fault
  /\ <<promoted, rejected>> # <<None, None>>
  /\ promoted' = None /\ rejected' = None
  /\ UNCHANGED <<gitVars, treeVars, liveVars, pullVars, pc, mounted>>

\* A container starts: the docker daemon resolves `current' once.
StartScan ==
  /\ mounted = None /\ LivePack # "absent"
  /\ mounted' = current
  /\ UNCHANGED <<gitVars, treeVars, stateVars, liveVars, pullVars, pc, faults>>

EndScan ==
  /\ mounted # None
  /\ mounted' = None
  /\ UNCHANGED <<gitVars, treeVars, stateVars, liveVars, pullVars, pc, faults>>

\* An hour passes for a release.
Age(c) ==
  /\ c \in fresh
  /\ fresh' = fresh \ {c}
  /\ UNCHANGED <<gitVars, pack, marked, newer, stateVars, liveVars, pullVars,
                 pc, mounted, faults>>

-----------------------------------------------------------------------------
(* The life of the process *)

\* main: the control server first, then run_forever.
Boot ==
  /\ pc["loop"] = "down"
  /\ pc' = [pc EXCEPT !["loop"] = "prune", !["console"] = "idle"]
  /\ UNCHANGED <<gitVars, treeVars, stateVars, liveVars, pullVars, mounted,
                 faults>>

Crash ==
  /\ pc["loop"] # "down" /\ Fault /\ Exit
  /\ UNCHANGED <<gitVars, treeVars, stateVars, liveVars, mounted>>

\* SIGTERM: the loop stops between its own pulls, and main returns whatever
\* the console's thread is doing.
Stop ==
  /\ pc["loop"] = "idle" /\ Fault /\ Exit
  /\ UNCHANGED <<gitVars, treeVars, stateVars, liveVars, mounted>>

\* A pull that finds the lock free; one that does not is answered `busy'.
Call(t) ==
  /\ pc[t] = "idle" /\ lock = None
  /\ Booting => EarlyRefresh
  /\ lock' = t /\ Goto(t, "prune")
  /\ UNCHANGED <<gitVars, treeVars, stateVars, liveVars, seeding, remote,
                 mounted, faults>>

\* Any write or git call of a pull, or of the seeding, fails.
Fails(t) ==
  /\ pc[t] \in {"query", "sync", "wipe", "create", "copy", "mark", "promote",
                "save", "reject"}
  /\ Fault /\ Abort(t)
  /\ UNCHANGED <<gitVars, treeVars, stateVars, liveVars, mounted>>

-----------------------------------------------------------------------------
(* ensure_live_root *)

PruneIncomplete(t) ==
  /\ pc[t] = "prune" /\ Goto(t, "check")
  /\ pack' = Deleted({id \in Id : id \notin marked /\ id # current})
  /\ UNCHANGED <<gitVars, marked, newer, fresh, stateVars, liveVars, pullVars,
                 mounted, faults>>

\* `current' resolves: its scan/ is there, which a partial pack may have.
Rooted(t) ==
  /\ pc[t] = "check"
  /\ LivePack # "absent"
  /\ Goto(t, IF lock = t THEN "query" ELSE "idle")
  /\ UNCHANGED <<gitVars, treeVars, stateVars, liveVars, pullVars, mounted,
                 faults>>

SeedAgain(t) ==
  /\ pc[t] = "check"
  /\ LivePack # "whole"
  /\ Goto(t, "wipe")
  /\ seeding' = seeding \cup {t}
  /\ UNCHANGED <<gitVars, treeVars, stateVars, liveVars, lock, remote, mounted,
                 faults>>

-----------------------------------------------------------------------------
(* _locked_pull up to the staging *)

Query(t) ==
  /\ pc[t] = "query" /\ Goto(t, "compare")
  /\ remote' = upstream
  /\ UNCHANGED <<gitVars, treeVars, stateVars, liveVars, lock, seeding,
                 mounted, faults>>

NoChange(t) ==
  /\ pc[t] = "compare" /\ UpToDate
  /\ Leave(t)
  /\ UNCHANGED <<gitVars, treeVars, stateVars, liveVars, mounted, faults>>

Replay(t) ==
  /\ pc[t] = "compare" /\ ~UpToDate /\ remote = rejected
  /\ Leave(t)
  /\ UNCHANGED <<gitVars, treeVars, stateVars, liveVars, mounted, faults>>

Proceed(t) ==
  /\ pc[t] = "compare" /\ ~UpToDate /\ remote # rejected
  /\ Goto(t, "sync")
  /\ UNCHANGED <<gitVars, treeVars, stateVars, liveVars, pullVars, mounted,
                 faults>>

\* _sync_work, the fast-forward and the look for scan/.  A clone brings the
\* branch's tip as it is now, not as ls-remote saw it.  A git that is killed
\* half-way leaves the working copy as it was: its lock files are left out.
Sync(t) ==
  /\ pc[t] = "sync"
  /\ LET head == IF work = None THEN upstream ELSE work IN
     IF FastForward(head)
     THEN /\ work' = remote
          /\ Goto(t, IF Pack[remote] = "none" THEN "reject" ELSE "wipe")
     ELSE work' = head /\ Goto(t, "reject")
  /\ UNCHANGED <<upstream, treeVars, stateVars, liveVars, pullVars, mounted,
                 faults>>

\* _reject: only state.json is written.
Reject(t) ==
  /\ pc[t] = "reject"
  /\ rejected' = remote /\ Leave(t)
  /\ UNCHANGED <<gitVars, treeVars, promoted, liveVars, mounted, faults>>

-----------------------------------------------------------------------------
(* stage_release: of a commit, or of the seed *)

\* rmtree is under way: it takes the entries in no order one can rely on.
Wipe(t) ==
  /\ pc[t] = "wipe" /\ Goto(t, "create")
  /\ pack' = [pack EXCEPT ![Staged(t)] = IF @ = "absent" THEN @ ELSE "partial"]
  /\ marked' \in {marked, marked \ {Staged(t)}}
  /\ UNCHANGED <<gitVars, newer, fresh, stateVars, liveVars, pullVars, mounted,
                 faults>>

\* rmtree has ended, the directory is made anew and copytree is under way.
Create(t) ==
  /\ pc[t] = "create" /\ Goto(t, "copy")
  /\ pack' = [pack EXCEPT ![Staged(t)] = "partial"]
  /\ marked' = marked \ {Staged(t)}
  /\ IF t \in seeding
     THEN UNCHANGED <<newer, fresh>>
     ELSE /\ newer' = {q \in newer : remote \notin {q[1], q[2]}}
                       \cup {remote} \X (Commit \ {remote})
          /\ fresh' = fresh \cup {remote}
  /\ UNCHANGED <<gitVars, stateVars, liveVars, pullVars, mounted, faults>>

\* Where the tree was deleted under it, copytree leaves a part, or raises: Fails.
Copy(t) ==
  /\ pc[t] = "copy"
  /\ pack' = [pack EXCEPT ![Staged(t)] =
                IF Disturbed(t) THEN "partial" ELSE "whole"]
  /\ Goto(t, IF t \in seeding THEN "mark" ELSE "validate")
  /\ UNCHANGED <<gitVars, marked, newer, fresh, stateVars, liveVars, pullVars,
                 mounted, faults>>

-----------------------------------------------------------------------------
(* Validate, mark, promote, record, prune *)

Validated(t) ==
  /\ pc[t] = "validate" /\ Passes(Staged(t))
  /\ Goto(t, "mark")
  /\ UNCHANGED <<gitVars, treeVars, stateVars, liveVars, pullVars, mounted,
                 faults>>

\* Errors, or a validator that did not finish: the staged release is deleted.
Refused(t) ==
  /\ pc[t] = "validate"
  /\ \/ ~Passes(Staged(t)) /\ UNCHANGED faults
     \/ Fault
  /\ Goto(t, "reject")
  /\ pack' = Deleted({Staged(t)})
  /\ UNCHANGED <<gitVars, marked, newer, fresh, stateVars, liveVars, pullVars,
                 mounted>>

Mark(t) ==
  /\ pc[t] = "mark" /\ Goto(t, "promote")
  /\ marked' = Marks(Staged(t))
  /\ UNCHANGED <<gitVars, pack, newer, fresh, stateVars, liveVars, pullVars,
                 mounted, faults>>

\* os.replace of the symlink; a pull goes on to record it, the seeding to
\* what ensure_live_root was called for.
Promote(t) ==
  /\ pc[t] = "promote"
  /\ current' = Staged(t)
  /\ seeding' = seeding \ {t}
  /\ IF t \in seeding
     THEN Goto(t, IF lock = t THEN "query" ELSE "idle") /\ UNCHANGED trail
     ELSE Goto(t, "save") /\ trail' = remote
  /\ UNCHANGED <<gitVars, treeVars, stateVars, lock, remote, mounted, faults>>

Save(t) ==
  /\ pc[t] = "save" /\ Goto(t, "tidy")
  /\ promoted' = remote /\ rejected' = None
  /\ UNCHANGED <<gitVars, treeVars, liveVars, pullVars, mounted, faults>>

Tidy(t) ==
  /\ pc[t] = "tidy"
  /\ pack' = Deleted(Prunable) /\ marked' = marked \ Prunable
  /\ Leave(t)
  /\ UNCHANGED <<gitVars, newer, fresh, stateVars, liveVars, mounted, faults>>

-----------------------------------------------------------------------------
Environment ==
  \/ \E c \in Commit : Push(c) \/ Age(c)
  \/ ForgetState \/ StartScan \/ EndScan

Disturbance == Crash \/ Stop \/ \E t \in Thread : Fails(t)

\* What a thread does once it is in a pull or in the seeding.
Work(t) ==
  \/ PruneIncomplete(t) \/ Rooted(t) \/ SeedAgain(t)
  \/ Query(t) \/ NoChange(t) \/ Replay(t) \/ Proceed(t) \/ Sync(t) \/ Reject(t)
  \/ Wipe(t) \/ Create(t) \/ Copy(t)
  \/ Validated(t) \/ Refused(t) \/ Mark(t) \/ Promote(t) \/ Save(t) \/ Tidy(t)

Next ==
  \/ Environment
  \/ Disturbance
  \/ Boot
  \/ \E t \in Thread : Call(t) \/ Work(t)

Init ==
  /\ upstream = Root /\ work = None
  /\ current = None /\ trail = None
  /\ pack = [id \in Id |-> "absent"] /\ marked = {}
  /\ newer = {} /\ fresh = {}
  /\ promoted = None /\ rejected = None
  /\ lock = None /\ pc = [t \in Thread |-> "down"]
  /\ seeding = {} /\ remote = None
  /\ mounted = None /\ faults = 0

Spec == Init /\ [][Next]_vars

\* Threads run, the supervisor restarts the service, and the loop's interval
\* ends.  Nothing is assumed of the console, of upstream or of the scans.
Fairness ==
  /\ WF_vars(Boot)
  /\ SF_vars(Call("loop"))
  /\ \A t \in Thread : WF_vars(Work(t))

FairSpec == Spec /\ Fairness

-----------------------------------------------------------------------------
(* Properties *)

PCs == {"down", "idle", "prune", "check", "query", "compare", "sync", "wipe",
        "create", "copy", "validate", "mark", "promote", "save", "tidy",
        "reject"}

\* Type invariant: the values each variable of the working copy, the live
\* root, state.json and the two threads ranges over.
TypeOK ==
  /\ upstream \in Commit /\ work \in Commit \cup {None}
  /\ current \in Id \cup {None} /\ mounted \in Id \cup {None}
  /\ pack \in [Id -> {"absent", "partial", "whole"}]
  /\ marked \subseteq Id
  /\ newer \subseteq Commit \X Commit /\ fresh \subseteq Commit
  /\ promoted \in Commit \cup {None} /\ rejected \in Commit \cup {None}
  /\ remote \in Commit \cup {None} /\ trail \in Commit \cup {None}
  /\ lock \in Thread \cup {None}
  /\ pc \in [Thread -> PCs] /\ seeding \subseteq Thread
  /\ faults \in 0..MaxFaults

\* Scan rules fail closed (README, auto-updating the pack): whatever crashes,
\* fails or is retried, `current' never names a commit whose pack the
\* validator would refuse.
OnlyValidated == current \in Commit => Pack[current] = "valid"

\* A rewritten history is never followed: each upstream commit that goes live
\* descends from the one that was live before it, also across restarts, lost
\* state files and falls back to the seed (git.py on --filter=blob:none).
OnlyForward ==
  [][trail # None /\ trail' # trail => <<trail, trail'>> \in Ancestor]_vars

\* As long as nothing crashes or fails, what `current' names is a whole pack,
\* at every instant a scan container may start (store.py: there is no window
\* in which a partial tree is reachable).
LiveIsWhole ==
  faults = 0 /\ current # None => LivePack = "whole"

\* `no_change' is the truth: the commit it speaks of is live, and whole
\* (sync.py: "already on ..."; VALIDATION 9.2, the table of outcomes).
NoChangeIsTrue ==
  [][\A t \in Thread :
       NoChange(t) => current = remote /\ pack[remote] = "whole"]_vars

\* The updater implements the register of RuleFeed: whatever crashes, fails,
\* overlaps or is lost, what is live, what went live before and the record of it
\* move only as that specification lets them.
Feed == INSTANCE RuleFeed WITH
  Good <- {c \in Commit : Pack[c] = "valid"},
  live <- current, last <- trail, record <- promoted

ImplementsRuleFeed == Feed!Spec

\* The feed never stops in silence (lock.py: "the rules stopped updating and
\* nothing said why"): what upstream settles on goes live, or its refusal is
\* on record, whatever crashed, failed or held the lock meanwhile.
NoSilentStall ==
  \A c \in Commit :
    upstream = c ~> \/ current = c /\ pack[c] = "whole"
                   \/ rejected = c
                   \/ upstream # c

\* README, auto-updating the pack: a scan container starting at any instant
\* resolves the old release or the new one, "never a half-written tree -- and
\* a scan already running keeps the release it started with".
ScanSeesWholePack == mounted # None => pack[mounted] = "whole"
=============================================================================
