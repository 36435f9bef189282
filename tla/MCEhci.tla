------------------------------- MODULE MCEhci -------------------------------
(***************************************************************************)
(* The EHCI module in two grains, checked side by side: its thread, its    *)
(* requests and the disk (EhciLoop, UmsDisk), where a transfer and a port  *)
(* reset are one step each, and the host controller's driver (EhciHost),   *)
(* which carries them out.  Which of them a behavior is about is chosen in *)
(* its first state.                                                        *)
(***************************************************************************)
EXTENDS EhciLoop, EhciHost

CONSTANT MaxMishaps   \* transfers that fail or are given up on

VARIABLE layer   \* "loop" or "host"

mcVars == <<layer, vars, hostVars>>

MCInit ==
    \/ layer = "loop" /\ Init /\ HostInit /\ ~usbport.there
    \/ layer = "host" /\ HostInit /\ Init /\ port = NoDisk

LoopOnly == layer = "loop" /\ UNCHANGED <<layer, hostVars>>
HostOnly == layer = "host" /\ UNCHANGED <<layer, vars>>

MCNext ==
    \/ LoopOnly /\ Next
    \/ HostOnly /\ HostNext(MaxMishaps)

MCSpec == MCInit /\ [][MCNext]_mcVars

(* The thread runs; a disk that stays in its socket is reset and read in   *)
(* the end; the controller works through its schedule.                     *)
MCFairSpec ==
    /\ MCSpec
    /\ WF_mcVars(LoopOnly /\ Thread)
    /\ SF_mcVars(LoopOnly /\ UnplugOpens /\ UNCHANGED loopVars)
    /\ SF_mcVars(LoopOnly /\ MountCompletes /\ UNCHANGED loopVars)
    /\ \A c \in 1..Chunks :
         SF_mcVars(LoopOnly /\ ChunkCompletes /\ job.chunk = c /\ UNCHANGED loopVars)
    /\ WF_mcVars(HostOnly /\ HostDriver(MaxMishaps))
    /\ WF_mcVars(HostOnly /\ HostController(MaxMishaps))
=============================================================================
