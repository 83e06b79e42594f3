------------------------------- MODULE MCLive -------------------------------
(***************************************************************************)
(* Live on a small instance: a good message whose scan stages a candidate, *)
(* one no scan ever succeeds on, two attempts and two workers; a poll of   *)
(* three slices, IDLE stretches of two, so that an exchange is started     *)
(* over within one wait, and every read allowed to overrun by a slice.     *)
(***************************************************************************)
EXTENDS Live

CONSTANTS good, bad

McMessage == {good, bad}
McPoison == {bad}
McReview == {good}
=============================================================================
