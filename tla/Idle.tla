-------------------------------- MODULE Idle --------------------------------
(***************************************************************************)
(* How the live loop waits for mail: one call of wait_for_activity         *)
(* (dispatcher/email_guard_dispatcher/mailsource.py) and the IDLE          *)
(* exchanges it is made of (idle.py), on a connection the server may drop, *)
(* leave hanging or answer out of turn.                                    *)
(*                                                                         *)
(* Time is counted in slices, the longest the code blocks before it looks  *)
(* at the stop flag again.  A wake line is whatever the server says that   *)
(* holds EXISTS, RECENT, EXPUNGE or FETCH; no push has to be announced and *)
(* any may be, so what reaches the mailbox is no part of this module.      *)
(***************************************************************************)
EXTENDS Naturals

CONSTANTS
    Poll,           \* poll_interval_seconds
    IdleTimeout,    \* idle_timeout_seconds, the longest stretch of one IDLE
    Backstop,       \* READ_BACKSTOP_SECONDS, the longest a line may take
    PreambleTime,   \* the longest the lines before the continuation may take
    CompletionTime, \* the longest the lines after DONE may take
    MaxFailures     \* IDLE_FAILURES_BEFORE_POLLING

ASSUME IdleAssumption ==
    /\ Poll \in Nat /\ IdleTimeout \in Nat \ {0}
    /\ Backstop \in Nat /\ PreambleTime \in Nat /\ CompletionTime \in Nat
    /\ MaxFailures \in Nat \ {0}

VARIABLES
    conn,       \* "none", "up", "lost", or "suspect" after a broken exchange
    enabled,    \* _idle_enabled
    failures,   \* _idle_failures
    phase,      \* "off" between two waits, else where the wait is
    waited,     \* slices since the wait began
    until,      \* when the watch ends; in the preamble, how long it may last
    spent,      \* slices in the reads of this phase, or in one line of a watch
    heard,      \* a wake line was read in this exchange
    stopping    \* the stop flag

idleVars == <<conn, enabled, failures, phase, waited, until, spent, heard, stopping>>
exchangeVars == <<until, spent, heard>>

Exchange == {"preamble", "watch", "completion"}
Shorter(a, b) == IF a <= b THEN a ELSE b

\* The longest the reads of a phase may take: at most so many lines, each
\* within the backstop; in a watch, the line select announced.
Allowed == [preamble |-> PreambleTime, watch |-> Backstop,
            completion |-> CompletionTime]

IdleInit ==
    /\ conn = "none" /\ enabled = FALSE /\ failures = 0
    /\ phase = "off" /\ waited = 0
    /\ until = 0 /\ spent = 0 /\ heard = FALSE
    /\ stopping = FALSE

-----------------------------------------------------------------------------
(* wait_for_activity *)

BeginWait ==
    /\ phase = "off"
    /\ phase' = "top" /\ waited' = 0
    /\ UNCHANGED <<conn, enabled, failures, exchangeVars, stopping>>

\* The call returns, and the next drain is due.
EndWait ==
    /\ phase' = "off" /\ waited' = 0
    /\ until' = 0 /\ spent' = 0 /\ heard' = FALSE

TimeIsUp == stopping \/ waited >= Poll

\* Mutant: the sleep after a broken exchange has no end.
SleepsOn ==
    /\ phase = "top" /\ TimeIsUp
    /\ EndWait
    /\ UNCHANGED <<conn, enabled, failures, stopping>>

\* Back at the top of the loop, or asleep until the deadline.
Return ==
    /\ phase \in {"top", "sleep"} /\ TimeIsUp
    /\ EndWait
    /\ UNCHANGED <<conn, enabled, failures, stopping>>

SleepOut ==
    /\ phase = "top" /\ ~enabled /\ ~TimeIsUp
    /\ phase' = "sleep"
    /\ UNCHANGED <<conn, enabled, failures, waited, exchangeVars, stopping>>

\* IDLE is sent; the stretch is measured before the server answers.
SendIdle ==
    /\ phase = "top" /\ enabled /\ ~TimeIsUp
    /\ phase' = "preamble"
    /\ until' = Shorter(Poll - waited, IdleTimeout)
    /\ spent' = 0 /\ heard' = FALSE
    /\ UNCHANGED <<conn, enabled, failures, waited, stopping>>

\* IdleError: any read or write of an exchange may break down, and the wait
\* sleeps out what is left of it.
Break ==
    /\ phase \in Exchange
    /\ failures' = failures + 1
    /\ enabled' = (failures' < MaxFailures)
    /\ conn' = IF conn = "up" THEN "suspect" ELSE conn
    /\ phase' = "sleep"
    /\ until' = 0 /\ spent' = 0 /\ heard' = FALSE
    /\ UNCHANGED <<waited, stopping>>

\* NO or BAD: polling from here on.
Refused ==
    /\ phase = "preamble" /\ conn # "lost"
    /\ enabled' = FALSE
    /\ phase' = "sleep"
    /\ until' = 0 /\ spent' = 0 /\ heard' = FALSE
    /\ UNCHANGED <<conn, failures, waited, stopping>>

-----------------------------------------------------------------------------
(* idle_once *)

\* The continuation: the watch has a deadline of its own, counted from here.
Continue ==
    /\ phase = "preamble" /\ conn # "lost"
    /\ phase' = "watch"
    /\ until' = waited + until
    /\ spent' = 0
    /\ UNCHANGED <<conn, enabled, failures, waited, heard, stopping>>

\* A wake line before the continuation, or after DONE.
HearAside ==
    /\ phase \in {"preamble", "completion"} /\ conn # "lost"
    /\ ~heard /\ heard' = TRUE
    /\ UNCHANGED <<conn, enabled, failures, phase, waited, until, spent, stopping>>

\* Mutant: every line that is no wake starts the stretch over.
ChatterExtends(wake) ==
    /\ phase = "watch" /\ conn # "lost"
    /\ wake \/ spent > 0
    /\ phase' = IF wake THEN "completion" ELSE "watch"
    /\ until' = IF wake THEN until ELSE waited + IdleTimeout
    /\ heard' = (heard \/ wake)
    /\ spent' = 0
    /\ UNCHANGED <<conn, enabled, failures, waited, stopping>>

\* A line was read to its end: a wake ends the watch, any other line does not.
ReadLine(wake) ==
    /\ phase = "watch" /\ conn # "lost"
    /\ wake \/ spent > 0
    /\ phase' = IF wake THEN "completion" ELSE "watch"
    /\ heard' = (heard \/ wake)
    /\ spent' = 0
    /\ UNCHANGED <<conn, enabled, failures, waited, until, stopping>>

\* A clean time-out or a stop: DONE.
StopWatching ==
    /\ phase = "watch" /\ spent = 0
    /\ stopping \/ waited >= until
    /\ phase' = "completion"
    /\ UNCHANGED <<conn, enabled, failures, waited, exchangeVars, stopping>>

\* The tagged completion: a push ends the wait, a clean time-out starts over.
Complete ==
    /\ phase = "completion" /\ conn # "lost"
    /\ IF heard
       THEN EndWait /\ UNCHANGED failures
       ELSE /\ phase' = "top" /\ failures' = 0
            /\ until' = 0 /\ spent' = 0
            /\ UNCHANGED <<waited, heard>>
    /\ UNCHANGED <<conn, enabled, stopping>>

\* A slice goes by: in a select, in a read, or asleep.
Tick ==
    /\ \/ phase = "sleep" /\ ~TimeIsUp /\ UNCHANGED spent
       \/ phase = "watch" /\ spent = 0 /\ waited < until /\ ~stopping /\ UNCHANGED spent
       \/ /\ phase \in Exchange /\ spent < Allowed[phase]
          /\ phase = "watch" /\ spent = 0 => waited < until /\ ~stopping
          /\ spent' = spent + 1
    /\ waited' = waited + 1
    /\ UNCHANGED <<conn, enabled, failures, phase, until, heard, stopping>>

WaitStep ==
    \/ Return \/ SleepOut \/ SendIdle \/ Break \/ Refused
    \/ Continue \/ HearAside \/ \E wake \in BOOLEAN : ReadLine(wake)
    \/ StopWatching \/ Complete \/ Tick

-----------------------------------------------------------------------------
(* The connection *)

\* connect: IDLE gets another chance if the server advertises it.
Reconnect(advertised) ==
    /\ phase = "off"
    /\ conn' = "up" /\ enabled' = advertised /\ failures' = 0
    /\ UNCHANGED <<phase, waited, exchangeVars, stopping>>

Lose ==
    /\ conn \in {"up", "suspect"}
    /\ conn' = "lost"
    /\ UNCHANGED <<enabled, failures, phase, waited, exchangeVars, stopping>>

Terminate ==
    /\ ~stopping /\ stopping' = TRUE
    /\ UNCHANGED <<conn, enabled, failures, phase, waited, exchangeVars>>

\* The process is gone.
Vanish ==
    /\ conn' = "none" /\ enabled' = FALSE /\ failures' = 0
    /\ EndWait
    /\ stopping' = FALSE

IdleNext ==
    \/ BeginWait \/ WaitStep
    \/ \E advertised \in BOOLEAN : Reconnect(advertised)
    \/ Lose \/ Terminate \/ Vanish

IdleSpec == IdleInit /\ [][IdleNext]_idleVars

-----------------------------------------------------------------------------
(* Properties *)

Overrun == PreambleTime + Backstop + CompletionTime

IdleTypeOK ==
    /\ conn \in {"none", "up", "lost", "suspect"}
    /\ enabled \in BOOLEAN /\ heard \in BOOLEAN /\ stopping \in BOOLEAN
    /\ failures \in 0 .. MaxFailures
    /\ phase \in {"off", "top", "sleep"} \cup Exchange
    /\ {waited, until, spent} \subseteq Nat

\* "A full drain happens at least every poll_interval_seconds whatever the
\* server does or does not announce" (runner.py:378), up to what reads under
\* way may still take: a wait is over within the poll interval and one
\* exchange's reads, whatever is dropped, refused, hanging or chattering, and
\* however often an exchange is started over.
DrainComesInTime == waited <= Poll + Overrun
=============================================================================
