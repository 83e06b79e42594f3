----------------------------- MODULE MCOutbound -----------------------------
(* Instances of Outbound for TLC. *)
EXTENDS Outbound, TLC

CONSTANTS m1, m2, d1, d2, p1, p2

\* Two bare messages, the second scanned again, before or after it was
\* published.
BothBare == [m \in Message |-> {"message"}]
OnceAndAgain == (m1 :> 1) @@ (m2 :> 2)
TwoHomes == (m1 :> d1) @@ (m2 :> d2)

\* Two messages with one Message-ID, or two Message-IDs with one slug.
SharedHome == [m \in Message |-> d1]
BothFull == [m \in Message |-> {"message", "report"}]
Once == [m \in Message |-> 1]
=============================================================================
