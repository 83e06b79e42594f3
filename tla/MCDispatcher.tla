---------------------------- MODULE MCDispatcher ----------------------------
(* Instances of Dispatcher for TLC. *)
EXTENDS Dispatcher, TLC

CONSTANTS m1, m2

\* Two messages; the second UIDVALIDITY gives each the UID the other had.
SwappedUids ==
  [v \in Validity |-> IF v % 2 = 1 THEN (m1 :> 1) @@ (m2 :> 2)
                                  ELSE (m1 :> 2) @@ (m2 :> 1)]
=============================================================================
