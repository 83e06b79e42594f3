------------------------------ MODULE Parcels ------------------------------
(***************************************************************************)
(* What becomes of a scanned message between the host and its consumer,    *)
(* with no files, no markers, no runs of a publisher and no sweep.  A      *)
(* parcel is held from the moment it is handed in until it was delivered,  *)
(* and longer; the first the consumer sees of it is the whole parcel; and  *)
(* what is in the consumer's box stays there until the consumer takes it.  *)
(* Once it was delivered, nothing more is promised of it: it may be        *)
(* discarded, handed in again, and what is left of it delivered again.     *)
(***************************************************************************)

CONSTANT Message

VARIABLES
  handedIn,   \* the messages whose scan was collected to the end
  held,       \* those of them whose whole parcel is on local disk
  delivered,  \* those whose whole parcel was put into the box
  box         \* Message -> what the consumer sees of it

vars == <<handedIn, held, delivered, box>>

Init ==
  /\ handedIn = {} /\ held = {} /\ delivered = {}
  /\ box = [m \in Message |-> "absent"]

\* Also when a message is scanned again.
HandIn(m) ==
  /\ handedIn' = handedIn \cup {m} /\ held' = held \cup {m}
  /\ UNCHANGED <<delivered, box>>

Deliver(m) ==
  /\ m \in held \ delivered /\ box[m] = "absent"
  /\ box' = [box EXCEPT ![m] = "whole"]
  /\ delivered' = delivered \cup {m}
  /\ UNCHANGED <<handedIn, held>>

DeliverAgain(m) ==
  /\ m \in delivered /\ box[m] \in {"absent", "empty"}
  /\ \E look \in {"whole", "partial", "empty"} :
       box' = [box EXCEPT ![m] = look]
  /\ UNCHANGED <<handedIn, held, delivered>>

Take(m) ==
  /\ box' = [box EXCEPT ![m] = "absent"]
  /\ UNCHANGED <<handedIn, held, delivered>>

Discard(m) ==
  /\ m \in delivered
  /\ held' = held \ {m}
  /\ UNCHANGED <<handedIn, delivered, box>>

Next ==
  \E m \in Message :
    HandIn(m) \/ Deliver(m) \/ DeliverAgain(m) \/ Take(m) \/ Discard(m)

Spec == Init /\ [][Next]_vars
=============================================================================
