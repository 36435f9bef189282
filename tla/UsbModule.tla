----------------------------- MODULE UsbModule ------------------------------
(***************************************************************************)
(* The USB module (source/usb-module), which serves /dev/usb2 on base IOSs *)
(* with a USB stack of their own, and the library its clients use          *)
(* (source/cios-lib/usbstorage.c).  One thread takes clients' requests and *)
(* IOS's notifications from one queue.  IOS tells of disks that come and   *)
(* go by answering an ioctl that the module must issue again each time;    *)
(* mounting a disk is a message the module sends itself.                   *)
(*                                                                         *)
(* IOS and the disks are external: a disk has a new identifier each time   *)
(* it is attached; a transfer to one that is attached works or fails, to   *)
(* another fails; no transfer ends with USBSTORAGE_ETIMEDOUT, which is not *)
(* an error of IOS.  A disk has one unit, and its vendor and product are   *)
(* its model.  Memory does not run out, and IOS has the version the module *)
(* asks for.                                                               *)
(***************************************************************************)
EXTENDS Naturals, Sequences, SequencesExt

CONSTANTS
    Models,       \* vendor and product of the disks
    NoModel,
    UsbClients,   \* users of the library
    CycleTries,   \* attempts of __cycle (USBSTORAGE_CYCLE_RETRIES + 1)
    Pieces,       \* pieces of USB_MAX_SECTORS of a client's request
    Parts,        \* transfers of MAX_TRANSFER_SIZE of a piece
    QueueSize,    \* messages the queue holds (32)
    NoClient

ASSUME UsbAssumption ==
    /\ NoModel \notin Models /\ NoClient \notin UsbClients
    /\ {CycleTries, Pieces, Parts, QueueSize} \subseteq Nat \ {0}

VARIABLES
    hub,        \* attached disks, in the order of their identifiers
    ids,        \* identifiers given so far
    change,     \* GETDEVICECHANGE: not "asked", asked, or asked and told before
    finishing,  \* is ATTACHFINISH under way?
    told,       \* the list IOS told last
    attached_devices,   \* the list in the module's memory
    messages,   \* the queue
    glue,       \* __inited, __mounted, __vid/__pid, __usbfd.usb_fd (0: none)
    tpc, work,  \* where the thread is, and with what
    client,     \* per client: the library's variables and its call
    deaf        \* ghost: an answer of IOS was an error

usbIos == <<hub, ids, change, finishing, told>>
usbVars == <<usbIos, attached_devices, messages, glue, tpc, work, client, deaf>>

NoWork == [op |-> "none", from |-> NoClient, found |-> <<>>, tries |-> 0, pos |-> 0, dev |-> 0,
           placed |-> [k \in 1..Parts |-> 0], spoilt |-> FALSE]

NewClient == [fd |-> FALSE, call |-> "none", stage |-> "none", piece |-> 0,
              whole |-> TRUE, spoilt |-> FALSE, result |-> FALSE]

UsbInit ==
    /\ hub = <<>> /\ ids = 0
    /\ change = FALSE /\ finishing = FALSE
    /\ told = <<>>
    /\ attached_devices = <<>>
    /\ messages = <<>>
    /\ glue = [inited |-> FALSE, mounted |-> FALSE, known |-> NoModel, usb_fd |-> 0]
    /\ tpc = "idle" /\ work = NoWork
    /\ client = [c \in UsbClients |-> NewClient]
    /\ deaf = FALSE

-----------------------------------------------------------------------------
(* The user. *)
Attach(bound) ==
    /\ ids < bound
    /\ \E m \in Models : hub' = Append(hub, [id |-> ids + 1, model |-> m])
    /\ ids' = ids + 1
    /\ UNCHANGED <<change, finishing, told, attached_devices, messages, glue, tpc, work, client, deaf>>

Detach ==
    /\ \E i \in DOMAIN hub : hub' = RemoveAt(hub, i)
    /\ UNCHANGED <<ids, change, finishing, told, attached_devices, messages, glue, tpc, work, client,
                   deaf>>

-----------------------------------------------------------------------------
(* IOS. *)

(* The list is written over the module's, entry by entry, before the       *)
(* message is taken; what was beyond its end stays.                        *)
TellChange ==
    /\ change /\ hub # told
    /\ change' = FALSE
    /\ \/ /\ told' = hub
          /\ attached_devices' = hub \o SubSeq(attached_devices, Len(hub) + 1, Len(attached_devices))
          /\ messages' = Append(messages, [op |-> "devchange", from |-> NoClient, result |-> Len(hub)])
          /\ UNCHANGED deaf
       \/ /\ deaf' = TRUE
          /\ UNCHANGED <<told, attached_devices, messages>>
    /\ UNCHANGED <<hub, ids, finishing, glue, tpc, work, client>>

TellAttached ==
    /\ finishing
    /\ finishing' = FALSE
    /\ \E ok \in BOOLEAN :
         /\ messages' = Append(messages, [op |-> "attach", from |-> NoClient,
                                          result |-> IF ok THEN 0 ELSE 1])
         /\ deaf' = (deaf \/ ~ok)
    /\ UNCHANGED <<hub, ids, change, told, attached_devices, glue, tpc, work, client>>

Alive == \E i \in DOMAIN hub : hub[i].id = glue.usb_fd

-----------------------------------------------------------------------------
(* A client of the library.  Its call sends messages until it returns.     *)

Ask(c, op, record) ==
    /\ messages' = Append(messages, [op |-> op, from |-> c, result |-> 0])
    /\ client' = [client EXCEPT ![c] = [record EXCEPT !.stage = op]]

Calling(c, call) == [client[c] EXCEPT !.call = call, !.piece = 1, !.whole = TRUE, !.spoilt = FALSE,
                                      !.result = FALSE]

Returned(record, result) == [record EXCEPT !.stage = "none", !.result = result]

(* usbstorage_Init opens the device once. *)
usbstorage_Init(c) ==
    /\ client[c].stage = "none" /\ ~client[c].fd
    /\ Ask(c, "init", [Calling(c, "init") EXCEPT !.fd = TRUE])

(* Reads, writes and questions need the descriptor. *)
usbstorage_ReadSectors(c) ==
    /\ client[c].stage = "none" /\ client[c].fd
    /\ Ask(c, "read", Calling(c, "read"))

usbstorage_WriteSectors(c) ==
    /\ client[c].stage = "none" /\ client[c].fd
    /\ Ask(c, "write", Calling(c, "write"))

usbstorage_IsInserted(c) ==
    /\ client[c].stage = "none" /\ client[c].fd
    /\ Ask(c, "capacity", Calling(c, "inserted"))

usbstorage_Shutdown(c) ==
    /\ client[c].stage = "none" /\ client[c].fd
    /\ client' = [client EXCEPT ![c] = [Calling(c, "shutdown") EXCEPT !.fd = FALSE]]
    /\ UNCHANGED messages

(* Requests the library does not make, of loaders. *)
Loader(c) ==
    /\ client[c].stage = "none" /\ client[c].fd
    /\ \E op \in {"inserted", "unmount"} : Ask(c, op, Calling(c, "loader"))

Calls(c) ==
    /\ \/ usbstorage_Init(c) \/ usbstorage_ReadSectors(c) \/ usbstorage_WriteSectors(c)
       \/ usbstorage_IsInserted(c) \/ usbstorage_Shutdown(c) \/ Loader(c)
    /\ UNCHANGED <<usbIos, attached_devices, glue, tpc, work, deaf>>

(* mutant: the loop goes on with the next piece after a failed one *)
PieceDoneAnyway(record, ok) ==
    IF record.piece < Pieces THEN [record EXCEPT !.piece = @ + 1]
    ELSE Returned(record, ok)

(* __usbstorage_ReadWriteSectors: piece after piece, until one fails. *)
PieceDone(record, ok) ==
    IF ~ok THEN Returned(record, FALSE)
    ELSE IF record.piece < Pieces THEN [record EXCEPT !.piece = @ + 1]
    ELSE Returned(record, TRUE)

(* A failed init closes the descriptor. *)
InitFailed(record) == [Returned(record, FALSE) EXCEPT !.fd = FALSE]

(* The capacity: a number of sectors, or 0 for an error. *)
Capacity(record, nbSector) ==
    [Returned(record, nbSector # 0) EXCEPT !.fd = record.call = "inserted" \/ nbSector # 0]

-----------------------------------------------------------------------------
(* The thread's answer to a client (os_message_queue_ack); the client's    *)
(* next message, if its call is not over, is in the queue then.            *)

(* What the client makes of ret, with the state its data is in. *)
Received(record, ret, moved, spoilt) ==
    IF record.stage = "init" THEN
        IF ret # 0 THEN InitFailed(record) ELSE [record EXCEPT !.stage = "capacity"]
    ELSE IF record.stage = "capacity" THEN Capacity(record, ret)
    ELSE IF record.stage \in {"read", "write"} THEN
        PieceDone([record EXCEPT !.whole = @ /\ moved, !.spoilt = @ \/ spoilt], ret = 0)
    ELSE Returned(record, ret = 0)

Ack(c, queue, record) ==
    /\ client' = [client EXCEPT ![c] = record]
    /\ messages' = IF record.stage = "none" THEN queue
                   ELSE Append(queue, [op |-> record.stage, from |-> c, result |-> 0])

AckWith(c, queue, ret) == Ack(c, queue, Received(client[c], ret, FALSE, FALSE))

Take(op) ==
    /\ tpc = "idle" /\ messages # <<>>
    /\ Head(messages).op = op

Idle == tpc' = "idle" /\ work' = NoWork

(* USB_DeviceChange: entries beyond the new list are cleared, and IOS is   *)
(* told that the list was taken.                                           *)
USB_DeviceChange ==
    /\ Take("devchange")
    /\ attached_devices' = SubSeq(attached_devices, 1, Head(messages).result)
    /\ finishing' = TRUE
    /\ messages' = Tail(messages)
    /\ UNCHANGED <<hub, ids, change, told, glue, tpc, work, client, deaf>>

(* mutant: the next change is not asked for *)
AttachFinishOnce ==
    /\ Take("attach")
    /\ messages' = Tail(messages)
    /\ UNCHANGED <<usbIos, attached_devices, glue, tpc, work, client, deaf>>

(* USB_AttachFinish: changes are asked for again, unless that failed. *)
USB_AttachFinish ==
    /\ Take("attach")
    /\ change' = (Head(messages).result = 0)
    /\ messages' = Tail(messages)
    /\ UNCHANGED <<hub, ids, finishing, told, attached_devices, glue, tpc, work, client, deaf>>

(* usbstorage_Startup: the first one asks IOS for changes; every one sends *)
(* the module a message to mount a disk, and waits while the queue is full.*)
usbstorage_Startup ==
    /\ Take("init")
    /\ \/ ~glue.inited /\ AckWith(Head(messages).from, Tail(messages), 1) /\ UNCHANGED <<glue, change>>
       \/ /\ Len(Tail(messages)) < QueueSize
          /\ AckWith(Head(messages).from,
                     Append(Tail(messages), [op |-> "mount", from |-> NoClient, result |-> 0]), 0)
          /\ glue' = [glue EXCEPT !.inited = TRUE]
          /\ change' = (change \/ ~glue.inited)
    /\ UNCHANGED <<hub, ids, finishing, told, attached_devices, tpc, work, deaf>>

(* usbstorage_Shutdown of the module: the disk is closed; __mounted, __vid *)
(* and __pid stay.                                                         *)
Unmount ==
    /\ Take("unmount")
    /\ glue' = [glue EXCEPT !.usb_fd = IF glue.known = NoModel THEN @ ELSE 0]
    /\ AckWith(Head(messages).from, Tail(messages), 0)
    /\ UNCHANGED <<usbIos, attached_devices, tpc, work, deaf>>

(* IOCTL_UMS_GET_CAPACITY: an error is answered by 1, a number of sectors  *)
(* to the client.                                                          *)
GetCapacity ==
    /\ Take("capacity")
    /\ \E ok \in BOOLEAN :
         /\ ok => glue.mounted /\ Alive
         /\ Ack(Head(messages).from, Tail(messages),
                Received(client[Head(messages).from], IF ok THEN 2 ELSE 1, FALSE, FALSE))
    /\ UNCHANGED <<usbIos, attached_devices, glue, tpc, work, deaf>>

-----------------------------------------------------------------------------
(* Mounting: usbstorage_IsInserted of the module, for its own message or   *)
(* for a client.                                                           *)

(* A client that asked has its answer. *)
Mounted(g, queue) ==
    /\ glue' = g
    /\ Idle
    /\ IF work.from = NoClient THEN UNCHANGED client /\ messages' = queue
       ELSE AckWith(work.from, queue, IF g.mounted THEN 0 ELSE 1)

NothingMounted == [glue EXCEPT !.mounted = FALSE, !.known = NoModel, !.usb_fd = 0]

(* A disk of the model that was mounted is taken for the one that is open. *)
IsInserted ==
    /\ Take("mount") \/ Take("inserted")
    /\ messages' = Tail(messages)
    /\ work' = [NoWork EXCEPT !.op = "mount", !.from = Head(messages).from,
                              !.found = attached_devices]
    /\ tpc' = IF ~glue.inited THEN "refused"
              ELSE IF glue.known = NoModel THEN "open" ELSE "search"
    /\ glue' = IF glue.inited THEN [glue EXCEPT !.mounted = FALSE] ELSE glue
    /\ UNCHANGED <<usbIos, attached_devices, client, deaf>>

Search ==
    /\ tpc \in {"search", "refused"}
    /\ IF tpc = "refused" THEN Mounted(glue, messages)
       ELSE IF \E i \in DOMAIN work.found : work.found[i].model = glue.known
       THEN Mounted([glue EXCEPT !.mounted = TRUE], messages)
       ELSE Mounted(NothingMounted, messages)
    /\ UNCHANGED <<usbIos, attached_devices, deaf>>

(* The disk that is tried. *)
Tried == work.found[1]

(* Is the disk still in the list? *)
__USB_FindDevice(disk) == disk \in ToSet(attached_devices)

(* A command of IOS to a disk. *)
USB_SuspendResume(disk) == __USB_FindDevice(disk) /\ disk \in ToSet(hub)

(* The disk is closed and the next one tried; the handle is cleared. *)
USBStorage_Close ==
    /\ glue' = [glue EXCEPT !.usb_fd = 0]
    /\ work' = [work EXCEPT !.found = Tail(@)]
    /\ tpc' = "open"
    /\ UNCHANGED <<client, messages>>

MountGoes(where) == tpc' = where /\ UNCHANGED <<glue, work, client, messages>>

(* USBStorage_Open: the disk is looked up and resumed. *)
USB_OpenDevice ==
    /\ tpc = "open"
    /\ \/ /\ work.found = <<>>
          /\ Mounted(NothingMounted, messages)
       \/ /\ work.found # <<>> /\ USB_SuspendResume(Tried)
          /\ glue' = [glue EXCEPT !.usb_fd = Tried.id]
          /\ tpc' = "descriptors"
          /\ UNCHANGED <<work, client, messages>>
       \/ work.found # <<>> /\ USBStorage_Close
    /\ UNCHANGED <<usbIos, attached_devices, deaf>>

(* Its descriptors are read, and an interface of the right kind found. *)
USB_GetDescriptors ==
    /\ tpc = "descriptors"
    /\ \/ __USB_FindDevice(Tried) /\ Alive /\ MountGoes("configure")
       \/ USBStorage_Close
    /\ UNCHANGED <<usbIos, attached_devices, deaf>>

(* Configuration, reset, and the number of units. *)
USBStorage_Open ==
    /\ tpc = "configure"
    /\ \/ Alive /\ MountGoes("unit")
       \/ USBStorage_Close
    /\ UNCHANGED <<usbIos, attached_devices, deaf>>

(* USBStorage_MountLUN: is the unit ready, and how large is it? *)
__usbstorage_clearerrors ==
    /\ tpc = "unit"
    /\ \/ Alive /\ MountGoes("capacity")
       \/ USBStorage_Close
    /\ UNCHANGED <<usbIos, attached_devices, deaf>>

USBStorage_ReadCapacity ==
    /\ tpc = "capacity"
    /\ \/ Alive /\ MountGoes("mbr")
       \/ USBStorage_Close
    /\ UNCHANGED <<usbIos, attached_devices, deaf>>

(* The first sector decides.  Whether it could be read is not looked at:   *)
(* what was in the buffer decides then.                                    *)
CheckMbr ==
    /\ tpc = "mbr"
    /\ \/ Mounted([glue EXCEPT !.mounted = TRUE, !.known = Tried.model], messages)
       \/ USBStorage_Close
    /\ UNCHANGED <<usbIos, attached_devices, deaf>>

-----------------------------------------------------------------------------
(* Reading and writing a piece: __cycle.  placed says which of the disk's  *)
(* parts each part of the buffer was exchanged with.                       *)

(* A module without a mounted or an open disk answers at once. *)
StartTransfer ==
    /\ Take("read") \/ Take("write")
    /\ IF glue.mounted /\ glue.usb_fd # 0
       THEN /\ tpc' = "cbw"
            /\ work' = [NoWork EXCEPT !.op = Head(messages).op, !.from = Head(messages).from,
                                      !.tries = CycleTries]
            /\ messages' = Tail(messages)
            /\ UNCHANGED client
       ELSE AckWith(Head(messages).from, Tail(messages), 1) /\ UNCHANGED <<tpc, work>>
    /\ UNCHANGED <<usbIos, attached_devices, glue, deaf>>

(* The piece is over. *)
Whole == \A k \in 1..Parts : work.placed[k] = k

TransferEnds(ok) ==
    /\ Ack(work.from, messages,
           Received(client[work.from], IF ok THEN 0 ELSE 1, Whole, work.spoilt))
    /\ Idle

(* mutant: the attempts are not counted *)
TryForever(w) == tpc' = "cbw" /\ work' = [w EXCEPT !.dev = 0] /\ UNCHANGED <<client, messages>>

(* The disk is reset, with whatever result, and the same command sent      *)
(* again for what is left of the data.                                     *)
TryAgain(w) ==
    IF w.tries > 1
    THEN /\ tpc' = "cbw"
         /\ work' = [w EXCEPT !.tries = @ - 1, !.dev = 0]
         /\ UNCHANGED <<client, messages>>
    ELSE TransferEnds(FALSE)

__send_cbw ==
    /\ tpc = "cbw"
    /\ \/ /\ Alive
          /\ tpc' = IF work.pos < Parts THEN "data" ELSE "csw"
          /\ UNCHANGED <<work, client, messages>>
       \/ TryAgain(work)
    /\ UNCHANGED <<usbIos, attached_devices, glue, deaf>>

Moved == [work EXCEPT !.pos = @ + 1, !.dev = @ + 1, !.placed[work.pos + 1] = work.dev + 1]

DataMoves ==
    /\ tpc = "data" /\ Alive
    /\ work' = Moved
    /\ tpc' = IF work.pos + 1 < Parts THEN "data" ELSE "csw"
    /\ UNCHANGED <<usbIos, attached_devices, glue, messages, client, deaf>>

(* A disk that refuses the command gives less, and a read goes on to its   *)
(* status.                                                                 *)
DataShort ==
    /\ tpc = "data" /\ Alive /\ work.op = "read"
    /\ work' = [work EXCEPT !.spoilt = TRUE]
    /\ tpc' = "csw"
    /\ UNCHANGED <<usbIos, attached_devices, glue, messages, client, deaf>>

(* A failed transfer: a read has moved its pointer and its length by the   *)
(* error's number; a write keeps them, but the command starts at its first *)
(* sector again.                                                           *)
DataFails ==
    /\ tpc = "data"
    /\ TryAgain([work EXCEPT !.spoilt = @ \/ work.op = "read" \/ work.pos > 0])
    /\ UNCHANGED <<usbIos, attached_devices, glue, deaf>>

(* The status of the command itself is not looked at (it would have to be  *)
(* greater than 0).                                                        *)
__read_csw ==
    /\ tpc = "csw"
    /\ \/ Alive /\ TransferEnds(TRUE)
       \/ TryAgain(work)
    /\ UNCHANGED <<usbIos, attached_devices, glue, deaf>>

-----------------------------------------------------------------------------
UsbThread ==
    \/ USB_DeviceChange \/ USB_AttachFinish \/ usbstorage_Startup \/ Unmount \/ GetCapacity
    \/ IsInserted \/ Search \/ USB_OpenDevice \/ USB_GetDescriptors \/ USBStorage_Open
    \/ __usbstorage_clearerrors \/ USBStorage_ReadCapacity \/ CheckMbr
    \/ StartTransfer \/ __send_cbw \/ DataMoves \/ DataShort \/ DataFails \/ __read_csw

Ios == TellChange \/ TellAttached

UsbNext(bound) ==
    \/ UsbThread \/ Ios
    \/ \E c \in UsbClients : Calls(c)
    \/ Attach(bound) \/ Detach

-----------------------------------------------------------------------------
(* A read or a write that succeeded has moved every part of every piece to *)
(* its place, with disks going at any moment and commands sent again,      *)
(* unless a disk gave less than it was asked for or a transfer failed in   *)
(* the middle of the data, after which __cycle sends the whole command for *)
(* the rest of the buffer (__usbstorage_ReadWriteSectors, __cycle).        *)
PiecesAreWhole ==
    \A c \in UsbClients :
        client[c].call \in {"read", "write"} /\ client[c].result /\ ~client[c].spoilt
        => client[c].whole

(* Once started, the module knows the disks that are attached when nothing *)
(* has changed for long enough, unless IOS answered it with an error: it   *)
(* has asked for the next change, or a message on its way makes it ask     *)
(* (USB_DeviceChange, USB_AttachFinish).                                   *)
ListCatchesUp == <>[](glue.inited /\ ~deaf => attached_devices = hub)

(* Every call of a client returns, whatever fails or is pulled out: the    *)
(* attempts of a transfer are bounded, each piece is answered, and the     *)
(* thread never waits for room in the queue that only it empties           *)
(* (__cycle, __usbstorage_ReadWriteSectors, usbstorage_Startup).           *)
CallsEnd == \A c \in UsbClients : client[c].stage # "none" ~> client[c].stage = "none"
=============================================================================
