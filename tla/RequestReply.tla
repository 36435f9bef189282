---------------------------- MODULE RequestReply ----------------------------
(***************************************************************************)
(* What the RetroAchievements console link promises its client, whatever   *)
(* the transport does underneath: requests and replies alternate on one    *)
(* wire, and an exchange ends with the reply to its own request.  The only *)
(* excuse is a reply that was lost: an exchange may then end without one,  *)
(* and a later exchange may find an older reply on the wire.               *)
(***************************************************************************)
VARIABLES
    phase,   \* "free" or "wire": is an exchange on the wire?
    missed,  \* has a reply been lost?
    last     \* what the last exchange ended with, while the wire is free

vars == <<phase, missed, last>>

Init ==
    /\ phase = "free"
    /\ missed = FALSE
    /\ last = "none"

Put ==
    /\ phase = "free"
    /\ phase' = "wire"
    /\ last' = "none"
    /\ UNCHANGED missed

(* A request that does not get onto the wire leaves no reply behind. *)
Refuse ==
    /\ phase = "free"
    /\ last' = "none"
    /\ UNCHANGED <<phase, missed>>

Lose ==
    /\ phase = "wire"
    /\ missed' = TRUE
    /\ UNCHANGED <<phase, last>>

Finish ==
    /\ phase = "wire"
    /\ phase' = "free"
    /\ \/ last' = "own"
       \/ missed /\ last' \in {"none", "old"}
    /\ UNCHANGED missed

Next == Put \/ Refuse \/ Lose \/ Finish

Spec == Init /\ [][Next]_vars
=============================================================================
