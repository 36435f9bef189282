------------------------------ MODULE UmsDisk ------------------------------
(***************************************************************************)
(* The USB disk of the EHCI module (source/ehci-module/tinyehci): mounting *)
(* a disk, reading and writing sectors by bulk-only SCSI commands, and     *)
(* what happens when the disk is pulled out while a client waits.          *)
(*                                                                         *)
(* A request of the sector interface never gives up.  A failed command     *)
(* sets unplug_device; from then on every turn of the request's loop       *)
(* resets the port and mounts what it finds there, if it is the disk that  *)
(* was mounted, and starts the request over.  Which failures end a command *)
(* at once depends on handshake_mode: while a disk is being mounted a      *)
(* timeout leads to resets and retries, later it counts as an unplug.      *)
(*                                                                         *)
(* A disk is told from another by its descriptors.  The data of a request  *)
(* is the disk each of its chunks was last exchanged with.  The disk, the  *)
(* controller and the port's registers are external: a transfer to a disk  *)
(* that has an address works, fails, or ends in a bad status; other        *)
(* transfers fail.  Pulling one disk out and plugging another one in takes *)
(* longer than the pauses between two transfers of a mount.                *)
(***************************************************************************)
EXTENDS Naturals

CONSTANTS
    Disks,      \* disks, as their descriptors tell them apart
    NoDisk,     \* none
    Tries,      \* attempts of __cycle (USBSTORAGE_CYCLE_RETRIES + 1)
    Chunks      \* 32 KB pieces of a request

ASSUME UmsAssumption ==
    /\ NoDisk \notin Disks
    /\ Tries \in Nat \ {0}
    /\ Chunks \in Nat \ {0}

VARIABLES
    port,            \* the disk in the socket
    addressed,       \* does it have the address the driver uses?
    id,              \* dev->id # 0: the driver has given an address
    handshake_mode,  \* 1: a timeout is a timeout; 0: it is an unplug
    unplug_device,
    ums,             \* ums_init_done, __mounted, __usbfd.usb_fd # NULL, _old_udd
    pc,              \* where the EHCI thread is
    job,             \* the request it works on
    home,            \* ghost: the disk of the last UMS_INIT
    touched          \* ghost: the disks written to since

hardware == <<port, addressed, id>>
driver == <<handshake_mode, unplug_device, ums>>
ghosts == <<home, touched>>
umsVars == <<hardware, driver, pc, job, ghosts>>

Ops == {"init", "read", "write", "stress"}

NoJob == [op |-> "none", probing |-> FALSE, again |-> FALSE, tries |-> 0, chunk |-> 1,
          retval |-> "ok", moved |-> [c \in 1..Chunks |-> NoDisk], refused |-> FALSE,
          result |-> FALSE]

UmsInit ==
    /\ port \in Disks \cup {NoDisk}
    /\ addressed = FALSE
    /\ id = FALSE
    /\ handshake_mode = 0
    /\ unplug_device = FALSE
    /\ ums = [init_done |-> FALSE, mounted |-> FALSE, usb_fd |-> FALSE, old_udd |-> NoDisk]
    /\ pc = "idle"
    /\ job = NoJob
    /\ home = NoDisk
    /\ touched = {}

-----------------------------------------------------------------------------
(* The user. *)

Mounting == job.probing /\ pc \in {"cycle", "reset"}

Unplug ==
    /\ port # NoDisk
    /\ port' = NoDisk
    /\ addressed' = FALSE
    /\ UNCHANGED <<id, driver, pc, job, ghosts>>

Plug ==
    /\ port = NoDisk /\ ~Mounting
    /\ port' \in Disks
    /\ UNCHANGED <<addressed, id, driver, pc, job, ghosts>>

-----------------------------------------------------------------------------
(* A reset of the port gives the disk that is there its address, or fails, *)
(* before or after the driver has forgotten the old address.               *)
PortReset(ok) ==
    /\ ok => port # NoDisk
    /\ addressed' = ok
    /\ id' \in IF ok THEN {TRUE} ELSE {id, FALSE}

Finish(result) ==
    /\ pc' = "done"
    /\ job' = [job EXCEPT !.result = result, !.probing = FALSE]

(* __cycle is called for the next command. *)
NewCycle(j) == [j EXCEPT !.tries = Tries]

(* mutant: a changed disk is not recognised *)
SameDiskAlways == TRUE

(* Device change protection: until it is unmounted, only the disk that was *)
(* mounted is mounted again.                                               *)
SameDisk == ums.init_done => port = ums.old_udd

(* USBStorage_Open: the handle is cleared when it fails, but not when the  *)
(* disk has changed.                                                       *)
Opened == SameDisk /\ ums' = [ums EXCEPT !.usb_fd = TRUE, !.old_udd = port]

OpenFails ==
    \/ ums' = [ums EXCEPT !.usb_fd = FALSE]
    \/ SameDisk /\ ums' = [ums EXCEPT !.usb_fd = FALSE, !.old_udd = port]

Probe == pc' = "cycle" /\ job' = NewCycle([job EXCEPT !.probing = TRUE, !.again = TRUE])

(* USBStorage_Init.  With a device known to the driver the port is reset   *)
(* and the disk is tried.                                                  *)
InitAgain ==
    /\ pc = "start" /\ job.op = "init" /\ ums.init_done
    /\ Finish(TRUE)
    /\ UNCHANGED <<hardware, driver, ghosts>>

InitTries ==
    /\ pc = "start" /\ job.op = "init" /\ ~ums.init_done /\ id
    /\ handshake_mode' = 1
    /\ \/ PortReset(TRUE) /\ Opened /\ Probe
       \/ PortReset(TRUE) /\ OpenFails /\ pc' = "nextport" /\ UNCHANGED job
       \/ PortReset(FALSE) /\ pc' = "nextport" /\ UNCHANGED <<ums, job>>
    /\ UNCHANGED <<port, unplug_device, ghosts>>

(* A port without a known device ends the search; the disk in the socket,  *)
(* if there is one, is reset for the next call.                            *)
NextPort ==
    /\ \/ pc = "start" /\ job.op = "init" /\ ~ums.init_done /\ ~id
       \/ pc = "nextport"
    /\ IF port = NoDisk THEN UNCHANGED <<addressed, id>>
       ELSE \E ok \in BOOLEAN : PortReset(ok)
    /\ handshake_mode' = 1
    /\ Finish(FALSE)
    /\ UNCHANGED <<port, unplug_device, ums, ghosts>>

(* The sector interface answers at once when no disk is mounted. *)
Sectors ==
    /\ pc = "start" /\ job.op # "init"
    /\ IF ums.mounted
       THEN /\ pc' = IF job.op = "stress" THEN "cycle" ELSE "try"
            /\ job' = NewCycle(job)
       ELSE Finish(FALSE)
    /\ UNCHANGED <<hardware, driver, ghosts>>

-----------------------------------------------------------------------------
(* One turn of the loop of USBStorage_Read_Sectors and _Write_Sectors. *)

(* A request starts over from its first chunk. *)
StartOver == NewCycle([NoJob EXCEPT !.op = job.op])

(* Errors other than a timeout are neither retried nor given up.           *)
Turn ==
    /\ pc = "try" /\ ~unplug_device
    /\ job.retval \in {"ok", "timeout"}
    /\ IF job.retval = "timeout"
       THEN unplug_device' = TRUE /\ UNCHANGED <<pc, job>>
       ELSE pc' = "cycle" /\ job' = StartOver /\ UNCHANGED unplug_device
    /\ UNCHANGED <<hardware, handshake_mode, ums, ghosts>>

(* unplug_procedure: nothing is done without a handle; a port that cannot  *)
(* be reset, and another disk in it, are tried again on the next turn.     *)
UnplugResetFails ==
    /\ pc = "try" /\ unplug_device /\ ums.usb_fd
    /\ PortReset(FALSE)
    /\ UNCHANGED <<port, driver, pc, job, ghosts>>

UnplugChanged ==
    /\ pc = "try" /\ unplug_device /\ ums.usb_fd
    /\ PortReset(TRUE)
    /\ ~SameDisk
    /\ handshake_mode' = 0
    /\ UNCHANGED <<port, unplug_device, ums, pc, job, ghosts>>

UnplugOpens ==
    /\ pc = "try" /\ unplug_device /\ ums.usb_fd
    /\ PortReset(TRUE)
    /\ Opened /\ Probe
    /\ handshake_mode' = 1
    /\ UNCHANGED <<port, unplug_device, ghosts>>

UnplugOpenFails ==
    /\ pc = "try" /\ unplug_device /\ ums.usb_fd
    /\ PortReset(TRUE)
    /\ OpenFails
    /\ handshake_mode' = 0
    /\ UNCHANGED <<port, unplug_device, pc, job, ghosts>>

-----------------------------------------------------------------------------
(* USBStorage_Try_Device: the end of a mount.                              *)

(* mutant: a disk that came back leaves timeouts as timeouts *)
MountedKeepsMode ==
    /\ ums' = [ums EXCEPT !.mounted = TRUE, !.init_done = TRUE]
    /\ handshake_mode' = IF job.op = "init" THEN 0 ELSE handshake_mode
    /\ unplug_device' = FALSE

(* The disk is mounted, for UMS_INIT or for the request that waits. *)
Mounted ==
    /\ ums' = [ums EXCEPT !.mounted = TRUE, !.init_done = TRUE]
    /\ handshake_mode' = 0
    /\ unplug_device' = FALSE

(* A command of the mount failed for good: once more after GET_MAX_LUN,    *)
(* unless it timed out, then the disk is closed.  UMS_INIT goes on with    *)
(* the next port, which only resets this one.                              *)
MountFails(r) ==
    IF r # "timeout" /\ job.again
    THEN /\ pc' = "cycle"
         /\ job' = NewCycle([job EXCEPT !.again = FALSE])
         /\ UNCHANGED <<handshake_mode, ums>>
    ELSE /\ ums' = [ums EXCEPT !.mounted = FALSE, !.usb_fd = FALSE]
         /\ IF job.op = "init"
            THEN pc' = "nextport" /\ UNCHANGED <<job, handshake_mode>>
            ELSE /\ pc' = "try"
                 /\ job' = [job EXCEPT !.probing = FALSE]
                 /\ handshake_mode' = 0

-----------------------------------------------------------------------------
(* __cycle: a command, its data, its status. *)

Answers == port # NoDisk /\ addressed

(* What handshake makes of a transfer that does not complete. *)
Failure == IF port = NoDisk \/ handshake_mode = 0 THEN "nodev" ELSE "timeout"

(* mutant: an error of a chunk does not end the request *)
CycleReturnsNext(r) ==
    IF job.probing THEN MountFails(r)
    ELSE /\ IF job.op = "stress" THEN Finish(FALSE)
            ELSE IF job.chunk < Chunks
            THEN pc' = "cycle" /\ job' = NewCycle([job EXCEPT !.chunk = @ + 1])
            ELSE pc' = "try" /\ job' = [job EXCEPT !.retval = r]
         /\ UNCHANGED <<handshake_mode, ums>>

(* A read without retries, a request of the loop, a command of a mount:    *)
(* where a failed command leads.                                           *)
CycleReturns(r) ==
    IF job.probing THEN MountFails(r)
    ELSE /\ IF job.op = "stress" THEN Finish(FALSE)
            ELSE pc' = "try" /\ job' = [job EXCEPT !.retval = r]
         /\ UNCHANGED <<handshake_mode, ums>>

(* The disk takes or gives the chunk; refused when the status says the     *)
(* command failed, which nobody looks at.                                  *)
Moved(refused) ==
    [job EXCEPT !.moved[job.chunk] = IF refused THEN NoDisk ELSE port,
                !.refused = @ \/ refused]

Written(d) == IF job.op = "write" /\ ~job.probing THEN touched \cup {d} ELSE touched

MountCompletes ==
    /\ pc = "cycle" /\ job.probing /\ Answers
    /\ Mounted
    /\ IF job.op = "init"
       THEN Finish(TRUE) /\ home' = port /\ touched' = {}
       ELSE pc' = "cycle" /\ job' = StartOver /\ UNCHANGED ghosts
    /\ UNCHANGED hardware

ChunkCompletes ==
    /\ pc = "cycle" /\ ~job.probing /\ Answers
    /\ \E refused \in BOOLEAN :
         IF job.chunk < Chunks
         THEN pc' = "cycle" /\ job' = NewCycle([Moved(refused) EXCEPT !.chunk = @ + 1])
         ELSE pc' = "done" /\ job' = [Moved(refused) EXCEPT !.result = TRUE]
    /\ touched' = Written(port)
    /\ UNCHANGED <<hardware, driver, home>>

(* The disk says that it is not ready, or that its medium is bad. *)
NotReady ==
    /\ pc = "cycle" /\ job.probing /\ Answers
    /\ MountFails("sense")
    /\ UNCHANGED <<hardware, unplug_device, ghosts>>

(* The transfer does not complete; its data may have reached the disk. *)
TransferFails ==
    /\ pc = "cycle"
    /\ IF Failure = "nodev"
       THEN unplug_device' = TRUE /\ CycleReturns("nodev")
       ELSE /\ pc' = "reset"
            /\ job' = [job EXCEPT !.retval = "timeout"]
            /\ UNCHANGED driver
    /\ \/ UNCHANGED touched
       \/ Answers /\ touched' = Written(port)
    /\ UNCHANGED <<hardware, home>>

(* The status block is short, unsigned or of another command. *)
StatusIsBad ==
    /\ pc = "cycle" /\ Answers
    /\ pc' = "reset"
    /\ job' = [job EXCEPT !.retval = "bad"]
    /\ touched' = Written(port)
    /\ UNCHANGED <<hardware, driver, home>>

(* mutant: a disk in use whose retries ran out does not count as pulled out *)
LastTryKeepsError ==
    /\ pc = "reset" /\ job.tries = 1
    /\ \E r \in {job.retval, "timeout"} : CycleReturns(r)
    /\ UNCHANGED <<hardware, unplug_device, ghosts>>

(* Before the next attempt the disk is reset; after the last one a disk in *)
(* use counts as pulled out.                                               *)
LastTry ==
    /\ pc = "reset" /\ job.tries = 1
    /\ IF handshake_mode = 0
       THEN unplug_device' = TRUE /\ CycleReturns("nodev")
       ELSE /\ \E r \in {job.retval, "timeout"} : CycleReturns(r)
            /\ UNCHANGED unplug_device
    /\ UNCHANGED <<hardware, ghosts>>

Retry ==
    /\ pc' = "cycle"
    /\ job' = [job EXCEPT !.tries = @ - 1]

SoftReset ==
    /\ pc = "reset" /\ job.tries > 1 /\ Answers
    /\ Retry
    /\ UNCHANGED <<hardware, driver, ghosts>>

(* No answer to the reset request: the port is reset, five times at most.  *)
(* What sits in it then has the address.                                   *)
HardReset ==
    /\ pc = "reset" /\ job.tries > 1 /\ Failure = "timeout"
    /\ \/ PortReset(TRUE) /\ Retry
       \/ PortReset(FALSE) /\ pc' = "reset" /\ job' = [job EXCEPT !.tries = @ - 1,
                                                                  !.retval = "timeout"]
    /\ UNCHANGED <<port, driver, ghosts>>

ResetFails ==
    /\ pc = "reset" /\ job.tries > 1 /\ Failure = "nodev"
    /\ unplug_device' = TRUE
    /\ CycleReturns("nodev")
    /\ UNCHANGED <<hardware, ghosts>>

-----------------------------------------------------------------------------
(* USBStorage_Umount. *)
Umount ==
    IF ums.init_done
    THEN /\ ums' = [ums EXCEPT !.init_done = FALSE, !.mounted = FALSE, !.usb_fd = FALSE]
         /\ unplug_device' = FALSE
    ELSE UNCHANGED <<ums, unplug_device>>

Command ==
    \/ InitAgain \/ InitTries \/ NextPort \/ Sectors \/ Turn
    \/ UnplugResetFails \/ UnplugChanged \/ UnplugOpens \/ UnplugOpenFails
    \/ MountCompletes \/ NotReady \/ ChunkCompletes \/ TransferFails \/ StatusIsBad
    \/ LastTry \/ SoftReset \/ HardReset \/ ResetFails
=============================================================================
