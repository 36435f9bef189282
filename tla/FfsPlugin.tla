----------------------------- MODULE FfsPlugin -----------------------------
(***************************************************************************)
(* NAND emulation (source/ffs-plugin): requests for files of the internal  *)
(* flash are answered from a FAT device.  Two places decide where a        *)
(* request goes.  The patched open system call (iop.c) runs in the         *)
(* caller's thread: a path that starts with '#' is meant for the real      *)
(* flash, and a global flag tells so to the file-system thread.  That      *)
(* thread (plugin.c) takes the requests of all clients from one queue,     *)
(* opens emulated files in the FAT module by paths relative to a folder    *)
(* the FAT module was told once, remembers their descriptors in a table,   *)
(* and leaves every other request to the original handler.                 *)
(*                                                                         *)
(* What the requests do to the emulated files is NandEmu's; the original   *)
(* handler is external.                                                    *)
(***************************************************************************)
EXTENDS Naturals, FiniteSets, Sequences, SequencesExt

CONSTANTS
    Clients,      \* threads that use the file system
    Authorized,   \* clients with TID_RIGHTS_FORCE_REAL_NAND (ES)
    Handles,      \* descriptors
    Folders,      \* nand folders emulation may be switched to
    NoFolder,     \* none: emulation is off, or the FAT module's default
    MaxFatFd      \* MAX_FAT_FD (20)

NoFile == [owner |-> "none", asked |-> "none", where |-> "none"]

VARIABLES
    folder,        \* config.mode and config.path: NoFolder when emulation is off
    fatOpen,       \* fatFd > 0
    emuNandPath,   \* the folder the FAT module has (NoFolder: its default)
    forceRealPath,
    running,       \* is a title running? (Swi_GetRunningTitle)
    fat_fd,        \* descriptors in the table
    queue,         \* requests for the file-system thread
    waiting,       \* clients with a request in the queue
    files          \* open files: who asked for what, and who serves them

vars == <<folder, fatOpen, emuNandPath, forceRealPath, running, fat_fd, queue, waiting, files>>

Init ==
    /\ folder = NoFolder
    /\ fatOpen = FALSE
    /\ emuNandPath = NoFolder
    /\ forceRealPath = FALSE
    /\ running = FALSE
    /\ fat_fd = {}
    /\ queue = <<>>
    /\ waiting = {}
    /\ files = [h \in Handles |-> NoFile]

Emulating == folder # NoFolder

Open(h) == files[h].where # "none"

(* A path is emulated, always real, or emulated but asked for with '#'. *)
Paths == {"emu", "sys", "hash"}

-----------------------------------------------------------------------------
(* A client sends a request and waits for its answer. *)
Send(c, request) ==
    /\ c \notin waiting
    /\ waiting' = waiting \cup {c}
    /\ queue' = Append(queue, request)

(* No change of the mode waits for the file-system thread. *)
ModeSettled == \A i \in DOMAIN queue : queue[i].op # "mode"

(* The open system call: '#' is for authorized threads only, and asked for *)
(* when the mode has settled.                                              *)
__IOP_SyscallOpen(c) ==
    \E p \in Paths :
        /\ p = "hash" => c \in Authorized /\ ModeSettled
        /\ Send(c, [op |-> "open", from |-> c, path |-> p])
        /\ forceRealPath' = IF p = "hash" THEN Emulating ELSE forceRealPath
        /\ UNCHANGED <<folder, fatOpen, emuNandPath, running, fat_fd, files>>

SendUse(c) ==
    \E h \in Handles, op \in {"use", "close"} :
        /\ files[h].owner = c
        /\ Send(c, [op |-> op, from |-> c, handle |-> h])
        /\ UNCHANGED <<folder, fatOpen, emuNandPath, forceRealPath, running, fat_fd, files>>

(* Loaders, ES and the DIP plugin switch emulation with no file open. *)
SendSetMode(c) ==
    \E f \in Folders \cup {NoFolder} :
        /\ queue = <<>> /\ \A h \in Handles : ~Open(h)
        /\ Send(c, [op |-> "mode", from |-> c, folder |-> f])
        /\ UNCHANGED <<folder, fatOpen, emuNandPath, forceRealPath, running, fat_fd, files>>

-----------------------------------------------------------------------------
(* The file-system thread answers the oldest request. *)
Answer(op) ==
    /\ queue # <<>>
    /\ Head(queue).op = op
    /\ queue' = Tail(queue)
    /\ waiting' = waiting \ {Head(queue).from}

(* The file a request opened, and where. *)
Opened(h, where) ==
    files' = [files EXCEPT ![h] = [owner |-> Head(queue).from, asked |-> Head(queue).path,
                                   where |-> where]]

(* The original handler: on the real flash, or not at all. *)
OpenReal ==
    \/ UNCHANGED files
    \/ \E h \in Handles : ~Open(h) /\ Opened(h, "nand")

(* The table drops what it has no room for. *)
__FS_RegisterFile(h) == IF Cardinality(fat_fd) < MaxFatFd THEN fat_fd \cup {h} ELSE fat_fd

(* An emulated open: a path relative to the FAT module's folder. *)
OpenEmulated ==
    \/ UNCHANGED <<files, fat_fd>>
    \/ \E h \in Handles :
         /\ ~Open(h)
         /\ Opened(h, "fat")
         /\ fat_fd' = __FS_RegisterFile(h)

FS_Open ==
    /\ Answer("open")
    /\ IF Emulating /\ ~forceRealPath /\ Head(queue).path # "sys"
       THEN OpenEmulated /\ UNCHANGED forceRealPath
       ELSE /\ OpenReal
            /\ forceRealPath' = IF Emulating THEN FALSE ELSE forceRealPath
            /\ UNCHANGED fat_fd
    /\ UNCHANGED <<folder, fatOpen, emuNandPath, running>>

(* A request on a descriptor goes to the FAT module if the table has it    *)
(* and emulation is on, to the original handler otherwise.                 *)
Server(h) == IF Emulating /\ h \in fat_fd THEN "fat" ELSE "nand"

(* FS_Read, FS_Write, FS_Seek and the file statistics. *)
FS_Use ==
    /\ Answer("use")
    /\ UNCHANGED <<folder, fatOpen, emuNandPath, forceRealPath, running, fat_fd, files>>

(* A close that reaches the wrong server, or fails, leaves the file open. *)
FS_Close ==
    LET h == Head(queue).handle
    IN  /\ Answer("close")
        /\ \/ UNCHANGED <<files, fat_fd>>
           \/ /\ Server(h) = files[h].where
              /\ files' = [files EXCEPT ![h] = NoFile]
              /\ fat_fd' = IF Server(h) = "fat" THEN fat_fd \ {h} ELSE fat_fd
        /\ UNCHANGED <<folder, fatOpen, emuNandPath, forceRealPath, running>>

(* FAT_Init opens the module and passes the folder on, the first time. *)
FAT_Init(f) ==
    /\ fatOpen' = TRUE
    /\ emuNandPath' = IF fatOpen THEN emuNandPath ELSE f

(* Emulation is on, unless the FAT module cannot be opened. *)
SwitchOn(f) ==
    /\ fat_fd' = {}
    /\ \/ FAT_Init(f) /\ folder' = f
       \/ ~fatOpen /\ folder' = NoFolder /\ UNCHANGED <<fatOpen, emuNandPath>>

SwitchOff == folder' = NoFolder /\ UNCHANGED <<fat_fd, fatOpen, emuNandPath>>

(* While a title runs, emulation cannot be switched on, and only ES        *)
(* switches it off.                                                        *)
__FS_SetMode ==
    LET r == Head(queue)
    IN  /\ Answer("mode")
        /\ CASE r.folder # NoFolder /\ ~running -> SwitchOn(r.folder)
             [] r.folder = NoFolder /\ (running => r.from \in Authorized) -> SwitchOff
             [] OTHER -> UNCHANGED <<folder, fat_fd, fatOpen, emuNandPath>>
        /\ UNCHANGED <<forceRealPath, running, files>>

(* ES verifies the disc of a title (Swi_SetRunningTitle). *)
StartTitle ==
    /\ running' \in BOOLEAN
    /\ UNCHANGED <<folder, fatOpen, emuNandPath, forceRealPath, fat_fd, queue, waiting, files>>

Serve == FS_Open \/ FS_Use \/ FS_Close \/ __FS_SetMode

Next ==
    \/ \E c \in Clients : __IOP_SyscallOpen(c) \/ SendUse(c) \/ SendSetMode(c)
    \/ Serve
    \/ StartTitle

Spec == Init /\ [][Next]_vars

-----------------------------------------------------------------------------
(* "Paths starting with '#' are always sent to real nand." (iop.c, the     *)
(* open system call): no file asked for with '#' is an emulated one.       *)
HashIsReal == \A h \in Handles : files[h].asked = "hash" => files[h].where # "fat"
=============================================================================
