------------------------------ MODULE EhciLoop ------------------------------
(***************************************************************************)
(* The request loop of the EHCI module (source/ehci-module/loop.c): one    *)
(* thread takes the messages of all clients, and of the watchdog timer,    *)
(* from one queue.  The watchdog reads a sector of the disk when nothing   *)
(* else was asked for ten seconds, so that the disk does not go to sleep.  *)
(*                                                                         *)
(* Requests for the SD card and for plain USB devices, and the two hooks   *)
(* that are never answered, are left out, and so is the refusal of opens   *)
(* while a title runs.                                                     *)
(***************************************************************************)
EXTENDS UmsDisk, Sequences

CONSTANTS
    Clients,   \* descriptors of the module's device
    Nobody     \* no descriptor; the watchdog's sender

VARIABLES
    queue,      \* messages, oldest first
    waiting,    \* clients without an answer yet
    opened,     \* clients with an open descriptor
    discovered, \* has the device been opened before?
    ums_mode,   \* the descriptor UMS_INIT was last called with
    timer,      \* is the watchdog timer armed?
    sender,     \* who the thread works for
    starved     \* ghost: the last watchdog had no memory

loopVars == <<queue, waiting, opened, discovered, ums_mode, timer, sender, starved>>
vars == <<umsVars, loopVars>>

Init ==
    /\ UmsInit
    /\ queue = <<>>
    /\ waiting = {}
    /\ opened = {}
    /\ discovered = FALSE
    /\ ums_mode = Nobody
    /\ timer = TRUE
    /\ sender = Nobody
    /\ starved = FALSE

Requests(c) == IF c \in opened THEN Ops \cup {"umount", "close"} ELSE {"open"}

Send(c) ==
    /\ c \notin waiting
    /\ \E op \in Requests(c) : queue' = Append(queue, [op |-> op, from |-> c])
    /\ waiting' = waiting \cup {c}
    /\ UNCHANGED <<umsVars, opened, discovered, ums_mode, timer, sender, starved>>

(* The loop takes the next message long before the timer fires. *)
TimerFires ==
    /\ timer /\ pc = "idle" /\ queue = <<>>
    /\ timer' = FALSE
    /\ queue' = <<[op |-> "tick", from |-> Nobody]>>
    /\ UNCHANGED <<umsVars, waiting, opened, discovered, ums_mode, sender, starved>>

-----------------------------------------------------------------------------
(* The thread takes a message and stops the timer. *)
Receive(ops) ==
    /\ pc = "idle" /\ queue # <<>>
    /\ Head(queue).op \in ops
    /\ queue' = Tail(queue)

Start(op) ==
    /\ pc' = "start"
    /\ job' = [NoJob EXCEPT !.op = op]
    /\ sender' = Head(queue).from
    /\ timer' = FALSE

(* The timer is started again and the client has its answer. *)
Answer(c) ==
    /\ timer' = TRUE
    /\ waiting' = waiting \ {c}
    /\ starved' = FALSE

UmsRequest ==
    /\ Receive(Ops)
    /\ Start(Head(queue).op)
    /\ UNCHANGED <<hardware, driver, ghosts, waiting, opened, discovered, ums_mode, starved>>

(* The first open of the module's device discovers what is plugged in. *)
Open ==
    /\ Receive({"open"})
    /\ opened' = opened \cup {Head(queue).from}
    /\ discovered' = TRUE
    /\ IF discovered \/ port = NoDisk THEN UNCHANGED <<addressed, id>>
       ELSE \E ok \in BOOLEAN : PortReset(ok)
    /\ Answer(Head(queue).from)
    /\ UNCHANGED <<port, driver, pc, job, ghosts, ums_mode, sender>>

(* A close of the descriptor of UMS_INIT ends the UMS mode. *)
Close ==
    /\ Receive({"close"})
    /\ opened' = opened \ {Head(queue).from}
    /\ ums_mode' = IF ums_mode = Head(queue).from THEN Nobody ELSE ums_mode
    /\ Answer(Head(queue).from)
    /\ UNCHANGED <<umsVars, discovered, sender>>

UmsUmount ==
    /\ Receive({"umount"})
    /\ Umount
    /\ home' = IF ums.init_done THEN NoDisk ELSE home
    /\ Answer(Head(queue).from)
    /\ UNCHANGED <<hardware, handshake_mode, pc, job, touched, opened, discovered, ums_mode, sender>>

(* UMS_INIT sets the mode whatever came of it. *)
Done ==
    /\ pc = "done"
    /\ pc' = "idle" /\ job' = NoJob /\ sender' = Nobody
    /\ ums_mode' = IF job.op = "init" THEN sender ELSE ums_mode
    /\ Answer(sender)
    /\ UNCHANGED <<hardware, driver, ghosts, queue, opened, discovered>>

(* mutant: the watchdog does not run while its own read is the last one *)
__EHCI_WatchdogIdle ==
    /\ Receive({"tick"})
    /\ timer' = FALSE
    /\ starved' = FALSE
    /\ UNCHANGED <<umsVars, waiting, opened, discovered, ums_mode, sender>>

(* The watchdog reads a sector of a mounted disk.  The timer is started    *)
(* again after the read only, not when there is nothing to read or no      *)
(* memory to read it to.                                                   *)
__EHCI_Watchdog ==
    /\ Receive({"tick"})
    /\ \/ /\ ums_mode # Nobody /\ ums.mounted
          /\ Start("read")
          /\ UNCHANGED <<hardware, driver, ghosts, starved>>
       \/ /\ timer' = FALSE
          /\ starved' = (ums_mode # Nobody /\ ums.mounted)
          /\ UNCHANGED <<umsVars, sender>>
    /\ UNCHANGED <<waiting, opened, discovered, ums_mode>>

Thread ==
    \/ UmsRequest \/ Open \/ Close \/ UmsUmount \/ __EHCI_Watchdog \/ Done
    \/ Command /\ UNCHANGED loopVars

User == (Unplug \/ Plug) /\ UNCHANGED loopVars

Next ==
    \/ \E c \in Clients : Send(c)
    \/ TimerFires
    \/ Thread
    \/ User

Spec == Init /\ [][Next]_vars

(* The thread runs; a disk that stays in its socket is reset and read in   *)
(* the end.                                                                *)
FairSpec ==
    /\ Spec
    /\ WF_vars(Thread)
    /\ SF_vars(UnplugOpens /\ UNCHANGED loopVars)
    /\ SF_vars(MountCompletes /\ UNCHANGED loopVars)
    /\ \A c \in 1..Chunks : SF_vars(ChunkCompletes /\ job.chunk = c /\ UNCHANGED loopVars)

-----------------------------------------------------------------------------
(* "test device changed without unmount (prevent device write corruption)" *)
(* (USBStorage_Open): what is written between UMS_INIT and UMS_UMOUNT      *)
(* reaches the disk of the UMS_INIT and no other, whenever disks are       *)
(* pulled out and plugged in.                                              *)
OnlyHomeDisk == ums.init_done => touched \subseteq {home}

(* A request that succeeds has exchanged every one of its chunks with that *)
(* disk, also when it was interrupted and started over, unless the disk    *)
(* itself refused a command (__USBStorage_Read never sees the status).     *)
RequestIsWhole ==
    pc = "done" /\ job.op # "init" /\ job.result /\ ~job.refused =>
        \A c \in 1..Chunks : job.moved[c] = home

(* The watchdog does not die: while a disk is mounted and used, its timer  *)
(* is armed or a message will arm it (EHCI_Loop, __EHCI_Watchdog).         *)
WatchdogAlive ==
    pc = "idle" /\ ums_mode # Nobody /\ ums.mounted /\ ~starved => timer \/ queue # <<>>

(* A request ends once its disk is back for good, provided no attempt to   *)
(* mount it failed before (unplug_procedure).                              *)
RequestEnds == <>[](port = ums.old_udd /\ ums.usb_fd) => []<>(pc = "idle")

(* "ENODEV return without retries and unplug_device can works" (handshake) *)
(* and "infinite loop" (USBStorage_Read_Sectors): a request whose disk was *)
(* lost waits until the disk is back, and ends then.                       *)
ReplugResumes == <>[](port = home) => []<>(pc = "idle")
=============================================================================
