------------------------------- MODULE Lists -------------------------------
(***************************************************************************)
(* The three sender lists and the applier that writes them                 *)
(* (scanner/email_guard/apply.py and lists.py).                            *)
(*                                                                         *)
(* A list is one JSON file: the entries it holds, each keyed on an address *)
(* or a domain, and, on the greylist, the message shapes catalogued for a  *)
(* domain.  Tags and display names are left out; that a merged tag makes a *)
(* file dirty is kept.  An applier validates a document of decisions,      *)
(* reads the three files one after another, applies every decision in      *)
(* memory, validates the result, and writes the changed files one after    *)
(* another, the files that gained something last.  Nothing locks the       *)
(* files: Overlap says whether two appliers may be at work at once.        *)
(***************************************************************************)
EXTENDS Naturals, Sequences, FiniteSets

CONSTANTS
    Domain,     \* domains an entry can be keyed on
    Address,    \* addresses an entry can be keyed on
    HostOf,     \* the domain part of each address
    Shape,      \* names of message shapes
    CatchAll,   \* the shape "ALL EMAILS"
    NoShape,    \* a decision without a structure
    Applier,    \* processes that may apply a document
    Console,    \* the review console; the others are command lines
    Curated,    \* the lists an installation may start with
    Docs,       \* the documents that may be submitted, sequences of decisions
    Overlap,    \* whether two appliers may be at work at once
    MaxFaults   \* bound: crashes and failed writes in one behaviour

List == {"whitelist", "greylist", "blacklist"}
Order == <<"whitelist", "greylist", "blacklist">>
Rank == [l \in List |-> CASE l = "whitelist" -> 1
                          [] l = "greylist" -> 2
                          [] OTHER -> 3]

Key == Domain \cup Address
Disposition == {"allowed", "denied"}
Structure == [domain : Domain, name : Shape, disposition : Disposition]
Content == [keys : SUBSET Key, shapes : SUBSET Structure]
Empty == [keys |-> {}, shapes |-> {}]

\* The domain an entry claims.
Claimed(k) == IF k \in Domain THEN k ELSE HostOf[k]
Claims(c) == {Claimed(k) : k \in c.keys}

\* A domain has one structure of each name: the applier keeps it so, a file
\* edited by hand need not.
OneOfEachName(c) ==
    \A s1, s2 \in c.shapes :
       s1.domain = s2.domain /\ s1.name = s2.name => s1 = s2

\* No domain is claimed on two lists: what the loader and the applier demand.
Exclusive(lists) ==
    \A l1, l2 \in List : l1 # l2 => Claims(lists[l1]) \cap Claims(lists[l2]) = {}

\* "malformed" stands for every decision that fails a check of its fields.
Decision == [action : {"whitelist", "greylist", "trust_all", "blacklist",
                       "discard", "malformed"},
             key : Key, shape : Shape \cup {NoShape}, disposition : Disposition]

ASSUME ListsAssumption ==
    /\ HostOf \in [Address -> Domain]
    /\ Domain \cap Address = {}
    /\ CatchAll \in Shape
    /\ NoShape \notin Shape
    /\ Console \in Applier
    /\ Curated \subseteq [List -> Content]
    /\ \A lists \in Curated :
          Exclusive(lists) /\ \A l \in List : OneOfEachName(lists[l])
    /\ Docs \subseteq Seq(Decision)
    /\ Overlap \in BOOLEAN
    /\ MaxFaults \in Nat

VARIABLES
    files,      \* what each list file holds
    pc,         \* where each applier is
    doc,        \* the document it applies
    step,       \* the next file it reads, or the next decision it applies
    mem,        \* its copy of each file
    dirty,      \* the files it changed and has not written yet
    gained,     \* the files that gained something
    faults,
    mixed       \* history: a document sent decisions to two lists

listVars == <<files, pc, doc, step, mem, dirty, gained, faults, mixed>>

-----------------------------------------------------------------------------
(* Documents *)

IsListAction(d) == d.action \notin {"discard", "malformed"}
Target(d) == IF d.action = "trust_all" THEN "greylist" ELSE d.action

WellFormed(d) ==
    /\ d.action # "malformed"
    /\ IsListAction(d) /\ Target(d) = "greylist" => d.key \in Domain
    /\ IsListAction(d) /\ d.shape # NoShape => d.action = "greylist"

Valid(ds) ==
    /\ \A i \in DOMAIN ds : WellFormed(ds[i])
    /\ \A i, j \in DOMAIN ds :
          /\ IsListAction(ds[i]) /\ IsListAction(ds[j])
          /\ Claimed(ds[i].key) = Claimed(ds[j].key)
          => Target(ds[i]) = Target(ds[j])

\* The decisions of a document go to more than one list.
TwoTargets(ds) ==
    \E i, j \in DOMAIN ds :
       /\ IsListAction(ds[i]) /\ IsListAction(ds[j])
       /\ Target(ds[i]) # Target(ds[j])

(* What one decision does to the three lists *)

\* The structure a decision catalogues: the catch-all of a trust_all, the one
\* a greylist decision carries, or none.
Wanted(d) ==
    CASE d.action = "trust_all" ->
            {[domain |-> d.key, name |-> CatchAll, disposition |-> "allowed"]}
      [] d.action = "greylist" /\ d.shape # NoShape ->
            {[domain |-> d.key, name |-> d.shape, disposition |-> d.disposition]}
      [] OTHER -> {}

\* The structure of the same name is replaced; the code looks for the first, and
\* there is one.
Entered(c, d) ==
    [keys |-> c.keys \cup {d.key},
     shapes |-> {s \in c.shapes : \A w \in Wanted(d) :
                    s.domain # w.domain \/ s.name # w.name} \cup Wanted(d)]

\* Exclusivity: the domain leaves a list with every address that claims it.
Without(c, dom) ==
    [keys |-> {k \in c.keys : Claimed(k) # dom},
     shapes |-> {s \in c.shapes : s.domain # dom}]

Decided(lists, d) ==
    IF IsListAction(d)
    THEN [l \in List |-> IF l = Target(d) THEN Entered(lists[l], d)
                         ELSE Without(lists[l], Claimed(d.key))]
    ELSE lists

-----------------------------------------------------------------------------
(* The applier *)

Busy == {"read", "apply", "write"}
MayStart(t) == Overlap \/ \A u \in Applier \ {t} : pc[u] \notin Busy

\* One more crash, full disk or failed replace.
Fault == faults < MaxFaults /\ faults' = faults + 1

ListsInit ==
    /\ files \in Curated
    /\ pc = [t \in Applier |-> "idle"]
    /\ doc = [t \in Applier |-> <<>>]
    /\ step = [t \in Applier |-> 1]
    /\ mem = [t \in Applier |-> [l \in List |-> Empty]]
    /\ dirty = [t \in Applier |-> {}]
    /\ gained = [t \in Applier |-> {}]
    /\ faults = 0
    /\ mixed = FALSE

\* The call returns, or its process is gone.
Forget(t) ==
    /\ pc' = [pc EXCEPT ![t] = "idle"]
    /\ doc' = [doc EXCEPT ![t] = <<>>]
    /\ step' = [step EXCEPT ![t] = 1]
    /\ mem' = [mem EXCEPT ![t] = [l \in List |-> Empty]]
    /\ dirty' = [dirty EXCEPT ![t] = {}]
    /\ gained' = [gained EXCEPT ![t] = {}]

Submit(t, ds) ==
    /\ pc[t] = "idle" /\ MayStart(t)
    /\ Valid(ds)
    /\ pc' = [pc EXCEPT ![t] = "read"]
    /\ doc' = [doc EXCEPT ![t] = ds]
    /\ mixed' = (mixed \/ TwoTargets(ds))
    /\ UNCHANGED <<files, step, mem, dirty, gained, faults>>

\* The whole document is validated before a file is read.
Reject(t, ds) ==
    /\ pc[t] = "idle"
    /\ ~Valid(ds)
    /\ pc' = [pc EXCEPT ![t] = "refused"]
    /\ UNCHANGED <<files, doc, step, mem, dirty, gained, faults, mixed>>

ReadList(t) ==
    /\ pc[t] = "read"
    /\ LET l == Order[step[t]]
       IN  mem' = [mem EXCEPT ![t] = [@ EXCEPT ![l] = files[l]]]
    /\ step' = [step EXCEPT ![t] = IF @ = 3 THEN 1 ELSE @ + 1]
    /\ pc' = [pc EXCEPT ![t] = IF step[t] = 3 THEN "apply" ELSE "read"]
    /\ UNCHANGED <<files, doc, dirty, gained, faults, mixed>>

\* A decision about an entry that is already there may still merge new tags.
ApplyOne(t, retag) ==
    /\ pc[t] = "apply" /\ step[t] <= Len(doc[t])
    /\ LET d == doc[t][step[t]]
           after == Decided(mem[t], d)
           touched == {l \in List : after[l] # mem[t][l]}
                         \cup (IF retag THEN {Target(d)} ELSE {})
       IN  /\ retag => IsListAction(d) /\ d.key \in mem[t][Target(d)].keys
           /\ mem' = [mem EXCEPT ![t] = after]
           /\ dirty' = [dirty EXCEPT ![t] = @ \cup touched]
           /\ gained' = [gained EXCEPT ![t] = @ \cup (touched \cap {Target(d)})]
    /\ step' = [step EXCEPT ![t] = @ + 1]
    /\ UNCHANGED <<files, pc, doc, faults, mixed>>

AllApplied(t) == pc[t] = "apply" /\ step[t] > Len(doc[t])

Accept(t) ==
    /\ AllApplied(t)
    /\ Exclusive(mem[t])
    /\ pc' = [pc EXCEPT ![t] = "write"]
    /\ UNCHANGED <<files, doc, step, mem, dirty, gained, faults, mixed>>

\* The result is validated in memory: lists the loader would refuse are not
\* written.
RefuseResult(t) ==
    /\ AllApplied(t)
    /\ ~Exclusive(mem[t])
    /\ pc' = [pc EXCEPT ![t] = "refused"]
    /\ UNCHANGED <<files, doc, step, mem, dirty, gained, faults, mixed>>

\* --dry-run, on the command line only.
Preview(t) ==
    /\ AllApplied(t) /\ t # Console
    /\ Exclusive(mem[t])
    /\ pc' = [pc EXCEPT ![t] = "previewed"]
    /\ UNCHANGED <<files, doc, step, mem, dirty, gained, faults, mixed>>

\* Mutant: the file that gains goes first.
GainedFirst(t, l1, l2) ==
    \/ l1 \in gained[t] /\ l2 \notin gained[t]
    \/ (l1 \in gained[t] <=> l2 \in gained[t]) /\ Rank[l1] < Rank[l2]

\* sorted(LIST_NAMES, key = gained), a stable sort.
WrittenBefore(t, l1, l2) ==
    \/ l1 \notin gained[t] /\ l2 \in gained[t]
    \/ (l1 \in gained[t] <=> l2 \in gained[t]) /\ Rank[l1] < Rank[l2]

IsNext(t, l) == l \in dirty[t] /\ \A k \in dirty[t] : ~WrittenBefore(t, k, l)

\* Mutant: one file is written and the others are forgotten.
WriteOne(t, l) ==
    /\ pc[t] = "write"
    /\ IsNext(t, l)
    /\ files' = [files EXCEPT ![l] = mem[t][l]]
    /\ dirty' = [dirty EXCEPT ![t] = {}]
    /\ UNCHANGED <<pc, doc, step, mem, gained, faults, mixed>>

WriteList(t, l) ==
    /\ pc[t] = "write"
    /\ IsNext(t, l)
    /\ files' = [files EXCEPT ![l] = mem[t][l]]
    /\ dirty' = [dirty EXCEPT ![t] = @ \ {l}]
    /\ UNCHANGED <<pc, doc, step, mem, gained, faults, mixed>>

Finish(t) ==
    /\ pc[t] = "write" /\ dirty[t] = {}
    /\ pc' = [pc EXCEPT ![t] = "applied"]
    /\ UNCHANGED <<files, doc, step, mem, dirty, gained, faults, mixed>>

\* The process dies, or a write raises: each file is either the old or the new
\* one, and the files that come later in the order keep the old content.
Crash(t) ==
    /\ pc[t] \in Busy \cup {"applied"}
    /\ Fault
    /\ Forget(t)
    /\ UNCHANGED <<files, mixed>>

Answer(t) ==
    /\ pc[t] \in {"applied", "refused", "previewed"}
    /\ Forget(t)
    /\ UNCHANGED <<files, faults, mixed>>

ApplierStep(t) ==
    \/ ReadList(t)
    \/ \E retag \in BOOLEAN : ApplyOne(t, retag)
    \/ Accept(t) \/ RefuseResult(t) \/ Preview(t)
    \/ \E l \in List : WriteList(t, l)
    \/ Finish(t)

ListsNext ==
    \E t \in Applier :
       \/ \E ds \in Docs : Submit(t, ds) \/ Reject(t, ds)
       \/ ApplierStep(t) \/ Crash(t) \/ Answer(t)

ListsSpec == ListsInit /\ [][ListsNext]_listVars

-----------------------------------------------------------------------------
(* Properties *)

\* The lists after each number of decisions of a document, and after them all.
After(lists, ds) ==
    LET after[i \in 0 .. Len(ds)] ==
            IF i = 0 THEN lists ELSE Decided(after[i - 1], ds[i])
    IN  after

AllDecided(lists, ds) == After(lists, ds)[Len(ds)]

ListsTypeOK ==
    /\ files \in [List -> Content]
    /\ pc \in [Applier -> {"idle", "read", "apply", "write", "applied",
                           "refused", "previewed"}]
    /\ doc \in [Applier -> Seq(Decision)]
    /\ step \in [Applier -> Nat \ {0}]
    /\ mem \in [Applier -> [List -> Content]]
    /\ dirty \in [Applier -> SUBSET List]
    /\ gained \in [Applier -> SUBSET List]
    /\ faults \in 0 .. MaxFaults
    /\ mixed \in BOOLEAN

\* "A domain lives on exactly one list" (apply.py:33, lists.py:20): as long as
\* no document sends decisions to two lists, no crash, no failed write and no
\* moment between two writes leaves a domain on two list files, because the
\* file that gains is written after those that lose.
OneListEach == mixed \/ Exclusive(files)

\* "All-or-nothing" and "Idempotent" (apply.py:38, apply.py:41) together with a
\* crash: whatever part of a document has been written, applying the document
\* again to what is on disk ends in the lists the first application meant; and
\* when the last file is written those lists are what is on disk, so applying
\* it again changes nothing.
RedoFinishes ==
    Overlap \/ \A t \in Applier :
        pc[t] = "write" =>
            /\ AllDecided(files, doc[t]) = mem[t]
            /\ dirty[t] = {} => files = mem[t]

\* "Files that only lost entries are written first, so a crash between them
\* leaves a domain on zero lists ... rather than on two, which the loader would
\* now refuse outright" (apply.py:48): when no applier is at work, whatever was
\* cut short, the files are ones the loader takes.
CrashLeavesLoadable ==
    (\A t \in Applier : pc[t] \notin Busy) => Exclusive(files)
=============================================================================
