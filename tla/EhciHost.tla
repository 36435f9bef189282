------------------------------ MODULE EhciHost ------------------------------
(***************************************************************************)
(* Transfers and ports of the USB 2 host controller                        *)
(* (source/ehci-module/tinyehci/ehci.c, ehci-mem.c, usb.c).  The driver    *)
(* has one queue head: a transfer is cut into transfer descriptors (qTDs), *)
(* linked, waited for by polling the controller's status, and unlinked.    *)
(* A port is reset and its device described and addressed by control       *)
(* messages.  UmsDisk uses both as one step each.                          *)
(*                                                                         *)
(* The controller and the drive are external and run at their own pace: a  *)
(* transfer to an address nobody has ends with an error, any other is      *)
(* completed, or fails before or after the drive has done what it was      *)
(* told.  One bulk endpoint stands for both, and the toggle bits that qTDs *)
(* of control messages carry are left out.                                 *)
(***************************************************************************)
EXTENDS Naturals, Sequences

CONSTANTS
    PageBytes,      \* bytes of a page (4096)
    QtdPages,       \* pages of a qTD (5)
    EHCI_MAX_QTD,   \* qTDs of the driver (8)
    MaxPacket,      \* packet of a bulk endpoint (512)
    CtrlPacket,     \* of the control endpoint (64)
    DescLength,     \* bytes of a device descriptor (18)
    BulkLengths,    \* lengths of bulk transfers
    Alignments,     \* offsets of buffers in their page
    DescTries       \* attempts of each way to get the descriptor (3)

(* A packet is smaller than the four whole pages every qTD has. *)
ASSUME HostAssumption ==
    /\ {PageBytes, QtdPages, EHCI_MAX_QTD, MaxPacket, CtrlPacket, DescLength, DescTries}
         \subseteq Nat \ {0}
    /\ BulkLengths \cup Alignments \subseteq Nat
    /\ MaxPacket <= (QtdPages - 1) * PageBytes /\ CtrlPacket <= (QtdPages - 1) * PageBytes

VARIABLES
    usbport,   \* the port: a drive is there, we own it, it is enabled
    drive,     \* the drive: its address and its data toggle
    dev,       \* the driver's device: id and toggles
    ctl,       \* the controller: linked, where it is, its transfer, toggle, INT and ERR
    urb,       \* the transfer under way
    hpc,       \* where ehci_do_urb is
    bringup,   \* the stage of ehci_init_port, and the attempt
    mishaps,   \* transfers failed or given up on so far
    fresh      \* ghost: since the drive was addressed, every transfer was a success

hostVars == <<usbport, drive, dev, ctl, urb, hpc, bringup, mishaps, fresh>>

Address == 2

NoUrb == [for |-> "none", ctrl |-> TRUE, input |-> FALSE, dma |-> 0, length |-> 0, to |-> 0,
          clean |-> TRUE, ok |-> TRUE]

NoInit == [stage |-> "none", i |-> 0]

(* Ports without a device are released at the start. *)
HostInit ==
    /\ \E there \in BOOLEAN : usbport = [there |-> there, ours |-> there, enabled |-> FALSE]
    /\ drive = [address |-> 0, toggle |-> 0]
    /\ dev = [id |-> 0, toggle |-> 0]
    /\ ctl = [linked |-> FALSE, at |-> "head", transfer |-> "none", toggle |-> 0, int |-> FALSE,
              err |-> FALSE]
    /\ urb = NoUrb /\ hpc = "idle" /\ bringup = NoInit
    /\ mishaps = 0 /\ fresh = FALSE

-----------------------------------------------------------------------------
(* How a transfer is cut. *)

(* Bytes of a qTD for what is left: up to QtdPages pages, the first one    *)
(* from the buffer's offset; only the last qTD may end in a short packet.  *)
qtd_fill(buf, len, maxpacket) ==
    LET room == QtdPages * PageBytes - (buf % PageBytes)
    IN  IF len <= room THEN len ELSE room - (room % maxpacket)

Data(buf, len, input) == [stage |-> "data", buf |-> buf, len |-> len, input |-> input]

(* mutant: a qTD is filled to the last byte of its pages *)
DataQtdsToTheBrim(dma, length, input, maxpacket) ==
    LET from[left \in 0..length] ==
            LET len == qtd_fill(dma + length - left, left, 1)
            IN  <<Data(dma + length - left, len, input)>> \o
                IF left = len THEN <<>> ELSE from[left - len]
    IN  from[length]

(* A qTD for what is left, until nothing is. *)
DataQtds(dma, length, input, maxpacket) ==
    LET from[left \in 0..length] ==
            LET len == qtd_fill(dma + length - left, left, maxpacket)
            IN  <<Data(dma + length - left, len, input)>> \o
                IF left = len THEN <<>> ELSE from[left - len]
    IN  from[length]

Control(stage, len, input) == <<[stage |-> stage, buf |-> 0, len |-> len, input |-> input]>>

(* A control transfer has a setup stage of 8 bytes and a status stage      *)
(* against the direction of the data, inwards without data.                *)
qh_urb_transaction(u) ==
    IF ~u.ctrl THEN DataQtds(u.dma, u.length, u.input, MaxPacket)
    ELSE Control("setup", 8, FALSE) \o
         IF u.length = 0 THEN Control("status", 0, TRUE)
         ELSE DataQtds(u.dma, u.length, u.input, CtrlPacket) \o Control("status", 0, ~u.input)

(* ehci_qtd_alloc: there is a qTD for every part. *)
FitsPool(u) == Len(qh_urb_transaction(u)) <= EHCI_MAX_QTD

-----------------------------------------------------------------------------
(* The user. *)

PlugIn ==
    /\ ~usbport.there
    /\ usbport' = [there |-> TRUE, ours |-> TRUE, enabled |-> FALSE]
    /\ drive' = [address |-> 0, toggle |-> 0]
    /\ UNCHANGED <<dev, ctl, urb, hpc, bringup, mishaps, fresh>>

PullOut ==
    /\ usbport.there
    /\ usbport' = [usbport EXCEPT !.there = FALSE, !.enabled = FALSE]
    /\ UNCHANGED <<drive, dev, ctl, urb, hpc, bringup, mishaps, fresh>>

-----------------------------------------------------------------------------
(* The controller. *)

HcEnters ==
    /\ ctl.linked /\ ctl.at = "head"
    /\ ctl' = [ctl EXCEPT !.at = "qh"]
    /\ UNCHANGED <<usbport, drive, dev, urb, hpc, bringup, mishaps, fresh>>

HcLeaves ==
    /\ ~ctl.linked /\ ctl.at = "qh"
    /\ ctl' = [ctl EXCEPT !.at = "head"]
    /\ UNCHANGED <<usbport, drive, dev, urb, hpc, bringup, mishaps, fresh>>

Hears == usbport.there /\ usbport.ours /\ usbport.enabled /\ drive.address = urb.to

(* The drive does what it is told; an odd number of packets flips the      *)
(* toggle.                                                                 *)
Does(flips) ==
    drive' = [address |-> IF urb.for = "address" THEN Address ELSE drive.address,
              toggle |-> IF urb.ctrl \/ ~flips THEN drive.toggle ELSE 1 - drive.toggle]

HcCompletes ==
    /\ ctl.at = "qh" /\ ctl.transfer = "active" /\ Hears
    /\ \E flips \in BOOLEAN :
         /\ Does(flips)
         /\ ctl' = [ctl EXCEPT !.transfer = "done", !.int = TRUE,
                               !.toggle = IF urb.ctrl THEN 0
                                          ELSE IF flips THEN 1 - @ ELSE @]
    /\ UNCHANGED <<usbport, dev, urb, hpc, bringup, mishaps, fresh>>

(* An error halts the queue; a drive that heard may have done its part. *)
HcHalts(bound) ==
    /\ ctl.at = "qh" /\ ctl.transfer = "active"
    /\ Hears => mishaps < bound
    /\ mishaps' = IF Hears THEN mishaps + 1 ELSE mishaps
    /\ ctl' = [ctl EXCEPT !.transfer = "halted", !.err = TRUE]
    /\ UNCHANGED drive \/ (Hears /\ Does(TRUE))
    /\ UNCHANGED <<usbport, dev, urb, hpc, bringup, fresh>>

-----------------------------------------------------------------------------
(* ehci_do_urb. *)

(* Nothing of an earlier transfer is left in the controller c. *)
Clean(c) == c.at = "head" /\ ~c.int /\ ~c.err

(* The queue head and the qTDs are written and linked, the controller      *)
(* being c.                                                                *)
ehci_do_urb(c, for, ctrl, input, dma, length) ==
    /\ LET u == [for |-> for, ctrl |-> ctrl, input |-> input, dma |-> dma, length |-> length,
                 to |-> dev.id, clean |-> Clean(c), ok |-> TRUE]
       IN  urb' = [u EXCEPT !.ok = FitsPool(u)]
    /\ hpc' = IF urb'.ok THEN "wait" ELSE "end"
    /\ ctl' = IF urb'.ok
              THEN [c EXCEPT !.linked = TRUE, !.transfer = "active",
                             !.toggle = IF ctrl THEN 0 ELSE dev.toggle]
              ELSE c

ehci_control_message(c, for, input, length) == ehci_do_urb(c, for, TRUE, input, 0, length)

(* mutant: a wait that succeeds leaves the status bits set *)
AcknowledgeNot(c) == c

(* The status bits that were seen are written back. *)
Acknowledge(c) == [c EXCEPT !.int = FALSE, !.err = FALSE]

(* One wait: for done, unless the drive is gone or an error is reported;   *)
(* or until the time is over.  A port that belongs to the other controller *)
(* ends it without an acknowledgement.                                     *)
handshake(done, ok, bound) ==
    \/ ~ok /\ ~usbport.ours /\ UNCHANGED <<ctl, mishaps>>
    \/ /\ ~ok /\ usbport.ours /\ (~usbport.there \/ ctl.err)
       /\ ctl' = Acknowledge(ctl) /\ UNCHANGED mishaps
    \/ /\ ok /\ done /\ usbport.ours /\ usbport.there /\ ~ctl.err
       /\ ctl' = Acknowledge(ctl) /\ UNCHANGED mishaps
    \/ /\ ~ok /\ ~done /\ usbport.ours /\ usbport.there /\ ~ctl.err
       /\ mishaps < bound /\ mishaps' = mishaps + 1
       /\ ctl' = Acknowledge(ctl)

WaitDone(bound) ==
    /\ hpc = "wait"
    /\ \E ok \in BOOLEAN : handshake(ctl.int, ok, bound) /\ urb' = [urb EXCEPT !.ok = ok]
    /\ hpc' = "unlink"
    /\ UNCHANGED <<usbport, drive, dev, bringup, fresh>>

(* The queue head is unlinked and its toggle kept for the endpoint. *)
Unlink ==
    /\ hpc = "unlink"
    /\ ctl' = [ctl EXCEPT !.linked = FALSE]
    /\ dev' = IF urb.ctrl THEN dev ELSE [dev EXCEPT !.toggle = ctl.toggle]
    /\ hpc' = IF urb.ok THEN "stop" ELSE "end"
    /\ UNCHANGED <<usbport, drive, urb, bringup, mishaps, fresh>>

(* After a success only, the controller is waited for. *)
WaitStopped(bound) ==
    /\ hpc = "stop"
    /\ \E ok \in BOOLEAN :
         handshake(ctl.at = "head", ok, bound) /\ urb' = [urb EXCEPT !.ok = ok]
    /\ hpc' = "end"
    /\ UNCHANGED <<usbport, drive, dev, bringup, fresh>>

-----------------------------------------------------------------------------
(* What is made of the result. *)

(* The qTDs are free again. *)
EndsWith(where) ==
    /\ hpc = "end"
    /\ hpc' = "idle"
    /\ urb' = [urb EXCEPT !.input = FALSE, !.dma = 0, !.length = 0, !.clean = TRUE, !.ok = TRUE]
    /\ bringup' = where
    /\ UNCHANGED <<ctl, mishaps>>

(* Every way to get the descriptor is tried DescTries times: as it is,     *)
(* after a reset, after taking the port over and a reset.                  *)
NextWay ==
    [desc |-> [stage |-> "reset", i |-> 0],
     reset |-> [stage |-> "acquire", i |-> 0],
     acquire |-> NoInit]

DescriptorRead ==
    /\ urb.for = "desc"
    /\ EndsWith(IF urb.ok THEN [stage |-> "address", i |-> 0]
                ELSE IF bringup.i + 1 < DescTries THEN [bringup EXCEPT !.i = @ + 1]
                ELSE NextWay[bringup.stage])
    /\ UNCHANGED <<usbport, drive, dev, fresh>>

(* mutant: the new address is used only if SET_ADDRESS was acknowledged *)
AddressKnown(ok) == IF ok THEN [id |-> Address, toggle |-> 0] ELSE dev

(* Whether SET_ADDRESS succeeded is not asked: the drive may have taken it. *)
AddressTaken(ok) == [id |-> Address, toggle |-> 0]

AddressSent ==
    /\ urb.for = "address"
    /\ dev' = AddressTaken(urb.ok)
    /\ EndsWith([stage |-> "halt", i |-> 0])
    /\ UNCHANGED <<usbport, drive, fresh>>

HaltCleared ==
    /\ urb.for = "halt"
    /\ EndsWith([stage |-> "check", i |-> 0])
    /\ UNCHANGED <<usbport, drive, dev, fresh>>

(* Only the descriptor at the new address ends the loop, which never       *)
(* counts.                                                                 *)
AddressChecked ==
    /\ urb.for = "check"
    /\ dev' = IF urb.ok THEN dev ELSE [dev EXCEPT !.id = 0]
    /\ EndsWith(IF urb.ok THEN NoInit ELSE [stage |-> "address", i |-> 0])
    /\ fresh' = (urb.ok /\ urb.clean)
    /\ UNCHANGED <<usbport, drive>>

BulkDone ==
    /\ urb.for = "bulk"
    /\ EndsWith(NoInit)
    /\ fresh' = (fresh /\ urb.ok)
    /\ UNCHANGED <<usbport, drive, dev>>

-----------------------------------------------------------------------------
(* Ports. *)

(* The port is taken from the other controller, disabled and powered. *)
ehci_adquire_port(p) == [p EXCEPT !.ours = TRUE, !.enabled = FALSE]

(* What a reset of port p can come to.  A port without a drive, or of the  *)
(* other controller, is left to that one.  A drive forgets its address and *)
(* its toggles; a port that is not enabled then is left to the other       *)
(* controller, unless the wait for the reset's end fails.                  *)
PortLeft(p) ==
    [ok |-> FALSE, port |-> [p EXCEPT !.ours = FALSE, !.enabled = FALSE], drive |-> drive, ctl |-> ctl]

ResetPort(p, ok, e) ==
    [ok |-> ok, port |-> [p EXCEPT !.ours = e \/ ~ok, !.enabled = e],
     drive |-> [address |-> 0, toggle |-> 0], ctl |-> Acknowledge(ctl)]

ehci_reset_usb_port(p) ==
    IF ~p.there \/ ~p.ours THEN {PortLeft(p)}
    ELSE {ResetPort(p, ok, e) : ok \in {b \in BOOLEAN : ctl.err => ~b}, e \in BOOLEAN}

ehci_reset_port ==
    /\ hpc = "idle" /\ bringup = NoInit
    /\ \E r \in ehci_reset_usb_port(usbport) :
         /\ usbport' = r.port /\ drive' = r.drive /\ ctl' = r.ctl
         /\ bringup' = IF r.ok THEN [stage |-> "desc", i |-> 0] ELSE NoInit
         /\ dev' = IF r.ok THEN [dev EXCEPT !.id = 0] ELSE dev
    /\ fresh' = FALSE
    /\ UNCHANGED <<urb, hpc, mishaps>>

(* ehci_init_port sends the message of its stage. *)
SendDescriptor ==
    /\ hpc = "idle" /\ bringup.stage = "desc"
    /\ ehci_control_message(ctl, "desc", TRUE, DescLength)
    /\ UNCHANGED <<usbport, drive, dev, bringup, mishaps, fresh>>

ResetAndSend ==
    /\ hpc = "idle" /\ bringup.stage = "reset"
    /\ \E r \in ehci_reset_usb_port(usbport) :
         /\ usbport' = r.port /\ drive' = r.drive
         /\ ehci_control_message(r.ctl, "desc", TRUE, DescLength)
    /\ UNCHANGED <<dev, bringup, mishaps, fresh>>

AcquireAndSend ==
    /\ hpc = "idle" /\ bringup.stage = "acquire"
    /\ \E r \in ehci_reset_usb_port(ehci_adquire_port(usbport)) :
         /\ usbport' = r.port /\ drive' = r.drive
         /\ ehci_control_message(r.ctl, "desc", TRUE, DescLength)
    /\ UNCHANGED <<dev, bringup, mishaps, fresh>>

SendAddress ==
    /\ hpc = "idle" /\ bringup.stage = "address"
    /\ ehci_control_message(ctl, "address", FALSE, 0)
    /\ UNCHANGED <<usbport, drive, dev, bringup, mishaps, fresh>>

USB_ClearHalt ==
    /\ hpc = "idle" /\ bringup.stage = "halt"
    /\ ehci_control_message(ctl, "halt", FALSE, 0)
    /\ UNCHANGED <<usbport, drive, dev, bringup, mishaps, fresh>>

SendCheck ==
    /\ hpc = "idle" /\ bringup.stage = "check"
    /\ ehci_control_message(ctl, "check", TRUE, DescLength)
    /\ UNCHANGED <<usbport, drive, dev, bringup, mishaps, fresh>>

ehci_bulk_message ==
    /\ hpc = "idle" /\ bringup = NoInit /\ dev.id # 0
    /\ \E input \in BOOLEAN, dma \in Alignments, length \in BulkLengths :
         ehci_do_urb(ctl, "bulk", FALSE, input, dma, length)
    /\ UNCHANGED <<usbport, drive, dev, bringup, mishaps, fresh>>

-----------------------------------------------------------------------------
HostDriver(bound) ==
    \/ WaitDone(bound) \/ Unlink \/ WaitStopped(bound)
    \/ DescriptorRead \/ AddressSent \/ HaltCleared \/ AddressChecked \/ BulkDone
    \/ SendDescriptor \/ ResetAndSend \/ AcquireAndSend
    \/ SendAddress \/ USB_ClearHalt \/ SendCheck

HostController(bound) == HcEnters \/ HcLeaves \/ HcCompletes \/ HcHalts(bound)

HostNext(bound) ==
    \/ HostDriver(bound) \/ HostController(bound)
    \/ ehci_reset_port \/ ehci_bulk_message
    \/ PlugIn \/ PullOut

-----------------------------------------------------------------------------
(* The data qTDs: those between the setup and the status stage. *)
DataOf(ctrl, chain) == IF ctrl THEN SubSeq(chain, 2, Len(chain) - 1) ELSE chain

(* The qTDs of a transfer move each of its bytes once, in order: they      *)
(* follow each other in memory, none needs more pages than it can name,    *)
(* none but the last ends in a short packet, and there are enough of them; *)
(* a control message ends with one status stage (qh_urb_transaction,       *)
(* qtd_fill).                                                              *)
ChainIsTransfer ==
    hpc = "wait" =>
        LET chain == qh_urb_transaction(urb)
            data  == DataOf(urb.ctrl, chain)
            packet == IF urb.ctrl THEN CtrlPacket ELSE MaxPacket
        IN  /\ FitsPool(urb)
            /\ urb.length > 0 =>
                 /\ data[1].buf = urb.dma
                 /\ data[Len(data)].buf + data[Len(data)].len = urb.dma + urb.length
            /\ \A k \in DOMAIN data :
                 /\ data[k].stage = "data"
                 /\ (data[k].buf % PageBytes) + data[k].len <= QtdPages * PageBytes
                 /\ data[k].input = urb.input
                 /\ k < Len(data) => /\ data[k].len > 0 /\ data[k].len % packet = 0
                                     /\ data[k + 1].buf = data[k].buf + data[k].len
            /\ urb.ctrl => /\ chain[1].stage = "setup"
                           /\ chain[Len(chain)] =
                                Control("status", 0, urb.length > 0 => ~urb.input)[1]

(* A call that succeeds was about its own transfer: it leaves nothing of   *)
(* it in the controller, and if nothing was left before, the transfer is   *)
(* done.  So while calls succeed the driver knows the drive's address and  *)
(* its data toggle, and no block is taken for a repetition (handshake,     *)
(* ehci_do_urb, set_toggle).                                               *)
TransferIsOwn ==
    /\ hpc = "end" /\ urb.ok => Clean(ctl) /\ (urb.clean => ctl.transfer = "done")
    /\ hpc = "idle" /\ fresh /\ usbport.enabled =>
         dev = [id |-> drive.address, toggle |-> drive.toggle]

(* Bringing up a port ends, with a device or without, as long as the drive *)
(* stays: whatever was lost, the drive is found at its new or at its old   *)
(* address (ehci_init_port).                                               *)
PortInitEnds == bringup.stage # "none" ~> (bringup.stage = "none" \/ ~usbport.enabled)
=============================================================================
