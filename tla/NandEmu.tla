------------------------------ MODULE NandEmu ------------------------------
(***************************************************************************)
(* The emulated NAND: the file-system thread's requests (ffs-plugin) as    *)
(* the FAT module carries them out (fat-module: main.c, fat_wrapper.c,     *)
(* diskio.c) on a volume of FatFs.                                         *)
(*                                                                         *)
(* The file-system thread handles one request at a time, and the FAT       *)
(* module one message at a time.  Every request is given a number of disk  *)
(* accesses after which the device stops answering: pulled out, or the     *)
(* console switched off.  What is then on the device is what the request   *)
(* had written so far.  A device that stopped answers again after it is    *)
(* mounted anew (the drivers below fail every access until then).          *)
(*                                                                         *)
(* tree and durable are history: what the files hold as their users see    *)
(* it, and which of them were closed (or made, or renamed) since they were *)
(* written.                                                                *)
(*                                                                         *)
(* Users, as the real NAND makes them: a file open for writing is not      *)
(* opened again, an open one is not deleted or renamed, the source of a    *)
(* rename exists, and neither of its paths is inside the other.  Loaders   *)
(* switch emulation with no file open, and mount one device at a time.     *)
(***************************************************************************)
EXTENDS FatFs, FiniteSetsExt

CONSTANTS
    Handles,     \* descriptors
    Dirs,        \* paths of directories: one name
    Files,       \* paths of files: one or two names
    Tmp,         \* the directory emptied when emulation is switched on
    Writes,      \* sequences of units a program writes
    MaxSize,     \* bound on the size of a file
    MaxFatFd,    \* MAX_FAT_FD (20)
    isNMH2,      \* the running game is the one whose opens for writing create
    Home0,       \* what the home device may hold at first
    MaxChanges   \* bound on the requests that change the volume

ASSUME NandAssumption ==
    /\ Tmp \in Dirs
    /\ \A p \in Dirs : Len(p) = 1
    /\ \A p \in Files : Len(p) \in {1, 2}
    /\ Dirs \cap Files = {}
    /\ MaxFatFd \in Nat \ {0}

Paths == Dirs \cup Files
Devices == {"home", "other"}     \* the emulated NAND's, and another one

VARIABLES
    disk,        \* the sectors of each device
    fs,          \* fatFs: the one FATFS object
    bound,       \* devices whose FatFs[] slot points to it
    alive,       \* the home device answers
    config,      \* config.mode: emulation is on
    file,        \* descriptors: who serves them, their path, their FIL
    fat_fd,      \* descriptors in the file-system plugin's table
    tree, durable,
    moving,      \* the rename that was cut short: from, to, and what it moves
    torn,        \* the device stopped inside a critical section of FatFs
    changes,     \* requests that may have changed the volume
    cut          \* the device stopped, or was remounted, before a sync

vars == <<disk, fs, bound, alive, config, file, fat_fd, tree, durable, moving, torn, cut, changes>>

-----------------------------------------------------------------------------
(* What is on a device, read without any code of the module. *)
Link(d, c) == d[FatSect(c)].link[c]

(* The clusters of a chain, in order; longer than the volume: a loop. *)
ChainOf(d, c) ==
    LET walk[i \in 0 .. NClusters] ==
            IF i = 0 THEN <<c>>
            ELSE LET w == walk[i - 1]
                 IN  IF Len(w) = i /\ Link(d, w[i]) \in Clusters THEN Append(w, Link(d, w[i])) ELSE w
    IN  IF c \in Clusters THEN walk[NClusters] ELSE <<>>

Table(d, c) == IF c = 0 THEN [i \in 1 .. RootSize |-> 100 + i] ELSE ChainOf(d, c)

(* The slots of a directory before the first blank one. *)
Slots(d, c) ==
    LET t == Table(d, c)
    IN  {t[i] : i \in {j \in 1 .. Len(t) : \A k \in 1 .. j : d[t[k]].kind # "blank"}}
Used(d, c) == {s \in Slots(d, c) : d[s].kind \in {"file", "dir"}}

EntryOf(d, c, n) ==
    IF \E s \in Used(d, c) : d[s].name = n
    THEN d[CHOOSE s \in Used(d, c) : d[s].name = n] ELSE Blank
Lookup(d, p) ==
    IF Len(p) = 1 THEN EntryOf(d, 0, p[1])
    ELSE LET e == EntryOf(d, 0, p[1])
         IN  IF e.kind = "dir" THEN EntryOf(d, e.clust, p[2]) ELSE Blank

Content(d, e) ==
    LET ch == ChainOf(d, e.clust)
    IN  [i \in 1 .. e.size |->
            IF (i + 1) \div SS <= Len(ch) THEN UnitOf(d[ch[(i + 1) \div SS]], 1 + ((i - 1) % SS)) ELSE Junk]

Nothing == [kind |-> "none", data |-> <<>>]
Directory == [kind |-> "dir", data |-> <<>>]
FileOf(x) == [kind |-> "file", data |-> x]
Seen(d, p) ==
    LET e == Lookup(d, p)
    IN  CASE e.kind = "file" -> FileOf(Content(d, e))
          [] e.kind = "dir"  -> Directory
          [] OTHER           -> Nothing
SeenTree(d) == [p \in Paths |-> Seen(d, p)]

Formatted ==
    [s \in DiskSectors |->
        CASE s \in FatArea -> [kind |-> "fat", link |-> [c \in {x \in Clusters : FatSect(x) = s} |-> 0]]
          [] s \in Root    -> Blank
          [] OTHER         -> Data(Junk, Junk)]

-----------------------------------------------------------------------------
NoFile == [where |-> "none", path |-> <<>>, valid |-> FALSE, fil |-> NoFil]
NoMove == [from |-> <<>>, to |-> <<>>, what |-> Nothing]
NoFs == [type |-> FALSE, drv |-> "home", win |-> Blank, winsect |-> 0, wflag |-> FALSE, last |-> 0]

Init ==
    /\ \E d \in Home0 : /\ disk = [home |-> d, other |-> Formatted]
                       /\ tree = SeenTree(d)
    /\ fs = NoFs
    /\ bound = {}
    /\ alive = TRUE
    /\ config = FALSE
    /\ file = [h \in Handles |-> NoFile]
    /\ fat_fd = {}
    /\ durable = Paths
    /\ moving = NoMove
    /\ torn = FALSE
    /\ cut = FALSE
    /\ changes = 0

(* What comes of a request, by the accesses the device answers: all, or    *)
(* fewer than it needs.                                                    *)
Enough == 99
Short(op(_), w) == {op(b) : b \in 0 .. Enough - 1 - w.io}
Outcomes(op(_)) == UNION {{w} \cup Short(op, w) : w \in {op(Enough)}}

(* The volume a request works on, for b accesses (disk_read, disk_write). *)
Volume(b) ==
    [disk |-> disk[fs.drv], win |-> fs.win, winsect |-> fs.winsect, wflag |-> fs.wflag, last |-> fs.last,
     io |-> b, dead |-> FALSE, res |-> "ok", at |-> 0, dir |-> 0,
     clst |-> 0, ent |-> Blank, fp |-> NoFil, cnt |-> 0, buf |-> <<>>, part |-> "none"]

(* The status never says that a drive lost its initialization, so an       *)
(* object that was mounted once is taken as it is.                         *)
chk_mounted(v) == IF "home" \in bound THEN v ELSE Err(v, "not_enabled")
PathVolume(b) == chk_mounted(Volume(b))

(* mutant: a file of an earlier mount is as good as any *)
validateAny(v, h) == IF fs.type THEN v ELSE Err(v, "invalid_object")

(* A mount gives the object a new id; a FIL keeps the one it was opened with. *)
validate(v, h) == IF fs.type /\ file[h].valid THEN v ELSE Err(v, "invalid_object")
FileVolume(h, b) == validate([Volume(b) EXCEPT !.fp = file[h].fil], h)

(* A cluster that is free, on the device and in the window, holds nothing   *)
(* that can be told from junk.                                             *)
Tidy(w) ==
    [s \in DiskSectors |->
        IF s \in Clusters /\ Link(w.disk, s) = 0 /\ (w.winsect = FatSect(s) => w.win.link[s] = 0)
        THEN Data(Junk, Junk) ELSE w.disk[s]]

(* What a request leaves behind in the module and on the device. *)
Leaves(w) ==
    /\ disk' = [disk EXCEPT ![fs.drv] = Tidy(w)]
    /\ fs' = IF w.dead THEN [NoFs EXCEPT !.type = TRUE]
             ELSE [fs EXCEPT !.win = w.win, !.winsect = w.winsect, !.wflag = w.wflag, !.last = w.last]
    /\ alive' = (alive /\ ~w.dead)
    /\ torn' = (torn \/ (w.dead /\ w.part # "none"))
    /\ cut' = (cut \/ w.dead)

(* Requests to a device that has stopped are left out: none writes to it,  *)
(* and a mount discards what they leave in the window and in FIL objects.  *)
(* Bound: after one cut the volume is only looked at.                      *)
Answering == alive /\ ~torn /\ ~cut

(* Bound: the histories looked at have so many changes. *)
Changing == changes' = changes + 1

Refused(w) == w.res # "ok"

(* History: a request that did its work changes the tree, and what it      *)
(* changed is durable; one cut short may have done any part of it.         *)
Only(S) == [p \in Paths |-> IF p \in S THEN tree[p] ELSE Nothing]
Became(w, t, touched) ==
    /\ tree' = IF w.dead THEN Only(durable \ touched) ELSE IF Refused(w) THEN tree ELSE t
    /\ durable' = IF w.dead THEN durable \ touched
                  ELSE IF Refused(w) THEN durable ELSE durable \cup touched

IsOpen(p) == \E h \in Handles : file[h].where = "fat" /\ file[h].path = p
Inside(p) == {q \in Paths : q = p \/ (Len(q) > Len(p) /\ SubSeq(q, 1, Len(p)) = p)}
NoneOpen(p) == \A q \in Inside(p) : ~IsOpen(q)


NoOpenFile == \A h \in Handles : file[h].where = "none"

-----------------------------------------------------------------------------
(* The FAT module's operations by path (fat_wrapper.c), on a volume. *)
FAT_CreateDir(v, p) == IF Ok(v) THEN f_mkdir(v, p) ELSE v

(* The result of closing the new file is not looked at. *)
CloseNew(v) == IF Ok(v) THEN Again(f_close(v)) ELSE v
FAT_CreateFile(v, p) == CloseNew(IF Ok(v) THEN f_open(v, p, "new", {}) ELSE v)

FAT_Delete(v, p) == IF Ok(v) THEN f_unlink(v, p) ELSE v

(* Every entry is deleted; the end of the directory, or an error reading   *)
(* it, ends the work, and so does an entry that cannot be deleted.         *)
Ended(v) == ~Ok(v) \/ v.ent.kind = "blank"
Finish(v) == [v EXCEPT !.res = "ok", !.ent = Deleted]
Resume(v, at) == [v EXCEPT !.dir = at.dir, !.at = at.at, !.ent = at.ent, !.buf = at.buf, !.clst = at.clst]
DeleteEntry(v, p) == IF Ended(v) THEN Finish(v) ELSE Resume(f_unlink(v, Append(p, v.ent.name)), v)
DeleteNext(v, p) == IF ~Ok(v) \/ v.ent = Deleted THEN v ELSE DeleteEntry(f_readdir(v), p)
EachEntry(step(_), v) == IF Ok(v) THEN Iterate(step, [v EXCEPT !.ent = Blank], NClusters + RootSize + 1) ELSE v
FAT_DeleteDir(v, p) ==
    LET step(x) == DeleteNext(x, p) IN EachEntry(step, IF Ok(v) THEN f_opendir(v, p) ELSE v)

FAT_Rename(v, old, new) == IF Ok(v) THEN f_rename(v, old, new) ELSE v

FAT_GetStats(v, p) == IF Ok(v) THEN f_stat(v, p) ELSE v

(* The names of a directory go to buf. *)
ListEntry(v) == IF Ended(v) THEN Finish(v) ELSE [v EXCEPT !.buf = Append(@, v.ent)]
ListNext(v) == IF ~Ok(v) \/ v.ent = Deleted THEN v ELSE ListEntry(f_readdir(v))
ListAll(v) == EachEntry(ListNext, v)

(* A file is not a directory. *)
ListDir(v, p) ==
    IF Ok(v) THEN Err(f_close(v), "fatal") ELSE ListAll(f_opendir(Again(v), p))
FAT_ReadDir(v, p) ==
    IF ~Ok(v) THEN v
    ELSE ListDir(IF p = <<>> THEN Err(v, "no_file") ELSE f_open(v, p, "existing", {}), p)

(* The files below a directory, those of its directories included: cnt is  *)
(* their bytes.                                                            *)
Bytes(entries) == FoldFunction(LAMBDA x, y : x.size + y, 0, entries)
Added(v, at) == Resume([v EXCEPT !.cnt = at.cnt + Bytes(v.buf)], at)
UsageOf(v, e, p) ==
    IF e.kind = "dir" THEN Added(ListAll(f_opendir([v EXCEPT !.buf = <<>>], Append(p, e.name))), v)
    ELSE [v EXCEPT !.cnt = @ + e.size]
UsageEntry(v, p) == IF Ended(v) THEN Finish(v) ELSE UsageOf(v, v.ent, p)
UsageNext(v, p) == IF ~Ok(v) \/ v.ent = Deleted THEN v ELSE UsageEntry(f_readdir(v), p)
FAT_GetUsage(v, p) ==
    LET step(x) == UsageNext(x, p)
    IN  EachEntry(step, IF Ok(v) THEN f_opendir([v EXCEPT !.cnt = 0], p) ELSE v)

-----------------------------------------------------------------------------
(* Mounting: loaders, and the DIP plugin after a reload. *)

(* The boot sector is read (chk_mounted); the window's contents are gone. *)
MountVolume(d, ok) ==
    fs' = [NoFs EXCEPT !.type = ok, !.drv = d]

(* The FIL objects of the files still open are never valid again. *)
Forget == file' = [h \in Handles |-> [file[h] EXCEPT !.valid = FALSE]]

(* Unwritten, or not yet entered in its directory. *)
Pending == fs.wflag \/ \E h \in Handles : file[h].where = "fat"

(* A device that does not start keeps everything as it was.                *)
FAT_Mount(d) ==
    /\ bound \subseteq {d}
    /\ d = "home" => ~torn
    /\ MountVolume(d, TRUE)
    /\ bound' = {d}
    /\ Forget
    /\ alive' = (alive \/ d = "home")
    /\ cut' = (cut \/ Pending)
    /\ tree' = SeenTree(disk["home"])
    /\ durable' = Paths
    /\ moving' = NoMove
    /\ UNCHANGED <<disk, config, fat_fd, torn, changes>>

(* No file system on any partition: the slot is emptied again. *)
MountFails(d) ==
    /\ bound \subseteq {d}
    /\ d = "home" /\ ~alive
    /\ MountVolume(d, FALSE)
    /\ bound' = {}
    /\ Forget
    /\ cut' = (cut \/ Pending)
    /\ UNCHANGED <<disk, alive, config, fat_fd, tree, durable, moving, torn, changes>>

FAT_Unmount(d) ==
    /\ d \in bound
    /\ bound' = bound \ {d}
    /\ fs' = NoFs
    /\ Forget
    /\ cut' = (cut \/ Pending)
    /\ UNCHANGED <<disk, alive, config, fat_fd, tree, durable, moving, torn, changes>>

(* The IOS is reloaded, or the console restarted, between two requests. *)
Restart ==
    /\ bound # {}
    /\ fs' = NoFs /\ bound' = {} /\ config' = FALSE
    /\ file' = [h \in Handles |-> NoFile] /\ fat_fd' = {}
    /\ cut' = (cut \/ Pending)
    /\ UNCHANGED <<disk, alive, tree, durable, moving, torn, changes>>

(* A card that was damaged is formatted anew. *)
Reformat ==
    /\ torn \/ cut
    /\ bound = {} /\ NoOpenFile
    /\ disk' = [disk EXCEPT !["home"] = Formatted]
    /\ tree' = [p \in Paths |-> Nothing] /\ durable' = {}
    /\ torn' = FALSE /\ cut' = FALSE /\ moving' = NoMove
    /\ UNCHANGED <<fs, bound, alive, config, file, fat_fd, changes>>

-----------------------------------------------------------------------------
(* Requests by path (FS_Ioctl, FS_Ioctlv), with emulation on. *)
Ready == config /\ Answering
MayChange == Ready /\ changes < MaxChanges
ByPath(w) == Leaves(w) /\ UNCHANGED <<bound, config, file, fat_fd>>
Is(p, x) == [tree EXCEPT ![p] = x]

(* The file-system thread's calls of the FAT module: one message each,     *)
(* which it waits for, and what comes of it.                               *)
CreateDirCall(p) == Outcomes(LAMBDA b : FAT_CreateDir(PathVolume(b), p))
CreateFileCall(p) == Outcomes(LAMBDA b : FAT_CreateFile(PathVolume(b), p))
DeleteCall(p) == Outcomes(LAMBDA b : FAT_Delete(PathVolume(b), p))
ReadDirCall(p) == Outcomes(LAMBDA b : FAT_ReadDir(PathVolume(b), p))
GetUsageCall(p) == Outcomes(LAMBDA b : FAT_GetUsage(PathVolume(b), p))
GetStatsCall(p) == Outcomes(LAMBDA b : FAT_GetStats(PathVolume(b), p))

FS_CreateDir ==
    /\ MayChange
    /\ \E p \in Dirs :
         \E w \in CreateDirCall(p) :
             Changing /\ ByPath(w) /\ Became(w, Is(p, Directory), {p}) /\ UNCHANGED moving

FS_CreateFile ==
    /\ MayChange
    /\ \E p \in Files :
         \E w \in CreateFileCall(p) :
             Changing /\ ByPath(w) /\ Became(w, Is(p, FileOf(<<>>)), {p}) /\ UNCHANGED moving

FS_Delete ==
    /\ MayChange
    /\ \E p \in {q \in Paths : NoneOpen(q)} :
         \E w \in DeleteCall(p) :
             Changing /\ ByPath(w) /\ Became(w, Is(p, Nothing), {p}) /\ UNCHANGED moving

(* What is at the new path is deleted first, a directory with all in it. *)
ClearTarget(v, q) ==
    LET Clear(s) == CASE ~Ok(s)               -> s
                      [] s.win.kind = "dir"   -> FAT_Delete(Again(FAT_DeleteDir(s, q)), q)
                      [] OTHER                -> FAT_Delete(s, q)
    IN  Clear(FAT_GetStats(v, q))
MovedTree(p, q) ==
    [x \in Paths |-> IF x = q THEN tree[p]
                     ELSE IF x \in Inside(p) \cup Inside(q) THEN Nothing ELSE tree[x]]
Rename(v, p, q) ==
    IF ~Ok(v) THEN v
    ELSE IF p = q THEN FAT_GetStats(v, p)
    ELSE FAT_Rename(Again(ClearTarget(v, q)), p, q)
RenameCall(p, q) == Outcomes(LAMBDA b : Rename(PathVolume(b), p, q))
MayRename(p, q) ==
    /\ tree[p].kind # "none" /\ NoneOpen(p) /\ NoneOpen(q)
    /\ p \notin Inside(q) \ {q} /\ q \notin Inside(p) \ {p}
FS_Rename ==
    /\ MayChange
    /\ \E p \in Files : \E q \in {x \in Paths : MayRename(p, x)} :
         \E w \in RenameCall(p, q) :
             /\ Changing /\ ByPath(w)
             /\ Became(w, IF p = q THEN tree ELSE MovedTree(p, q),
                       IF p = q THEN {} ELSE Inside(p) \cup Inside(q))
             /\ moving' = IF w.dead /\ p # q /\ p \in durable
                          THEN [from |-> p, to |-> q, what |-> tree[p]] ELSE moving

(* Listing, usage and attributes change nothing but the window. *)
FS_ReadDir ==
    /\ Ready
    /\ \E p \in Dirs \cup {<<>>} :
         \E w \in ReadDirCall(p) :
             ByPath(w) /\ UNCHANGED <<tree, durable, moving, changes>>
FS_GetUsage ==
    /\ Ready
    /\ \E p \in Dirs \cup {<<>>} :
         \E w \in GetUsageCall(p) :
             ByPath(w) /\ UNCHANGED <<tree, durable, moving, changes>>
FS_GetAttr ==
    /\ Ready
    /\ \E p \in Paths :
         \E w \in GetStatsCall(p) :
             ByPath(w) /\ UNCHANGED <<tree, durable, moving, changes>>

(* Emulation is switched on: the descriptor table is emptied and the       *)
(* folders prepared, whatever comes of that.                               *)
__FS_PrepareFolders(v) == FAT_CreateDir(IF Ok(v) THEN Again(FAT_DeleteDir(v, Tmp)) ELSE v, Tmp)
Prepared(w) ==
    [x \in Paths |-> IF x = Tmp /\ tree[Tmp].kind = "none" /\ w.res = "ok" THEN Directory
                     ELSE IF x \in Inside(Tmp) \ {Tmp} /\ "home" \in bound THEN Nothing ELSE tree[x]]
PrepareCall == Outcomes(LAMBDA b : __FS_PrepareFolders(PathVolume(b)))
SwitchOn ==
    /\ Answering /\ ~config /\ NoOpenFile /\ changes < MaxChanges
    /\ \E w \in PrepareCall :
          /\ config' = TRUE /\ fat_fd' = {} /\ Changing
          /\ Leaves(w)
          /\ tree' = IF w.dead THEN Only(durable \ Inside(Tmp)) ELSE Prepared(w)
          /\ durable' = IF w.dead THEN durable \ Inside(Tmp) ELSE durable
          /\ UNCHANGED <<bound, file, moving>>

SwitchOff ==
    /\ config /\ NoOpenFile
    /\ config' = FALSE
    /\ UNCHANGED <<disk, fs, bound, alive, file, fat_fd, tree, durable, moving, torn, cut, changes>>

-----------------------------------------------------------------------------
(* Requests on descriptors. *)

(* The table drops what it has no room for. *)
__FS_RegisterFile(h) == IF Cardinality(fat_fd) < MaxFatFd THEN fat_fd \cup {h} ELSE fat_fd

(* One game's opens for writing make the file. *)
FAT_Open(v, p, access) ==
    LET Create(w) == IF w.res = "no_file" /\ "w" \in access /\ isNMH2
                     THEN f_open(Again(w), p, "always", access) ELSE w
    IN  Create(IF Ok(v) THEN f_open(v, p, "existing", access) ELSE v)

OpenCall(p, access) == Outcomes(LAMBDA b : FAT_Open(PathVolume(b), p, access))

New(p) == tree[p].kind = "none"

(* An open that may make the file is a change, and so that the bound holds *)
(* for them too, so is the opening of a second file.                       *)
Counts(p) == (isNMH2 /\ New(p)) \/ \E h \in Handles : file[h].where = "fat"
MayOpen(p, access) ==
    /\ Counts(p) => changes < MaxChanges
    /\ \A h \in Handles : file[h].where = "fat" /\ file[h].path = p =>
          "w" \notin access /\ "w" \notin file[h].fil.mode

FS_Open(h) ==
    /\ Ready /\ file[h].where = "none"
    /\ \E access \in {{"r"}, {"r", "w"}} : \E p \in {q \in Files : MayOpen(q, access)} :
         \E w \in OpenCall(p, access) :
             /\ Leaves(w)
             /\ IF Refused(w) THEN UNCHANGED <<file, fat_fd, tree>>
                ELSE /\ file' = [file EXCEPT ![h] = [where |-> "fat", path |-> p, valid |-> TRUE, fil |-> w.fp]]
                     /\ fat_fd' = __FS_RegisterFile(h)
                     /\ tree' = IF New(p) THEN Is(p, FileOf(<<>>)) ELSE tree
             /\ durable' = IF New(p) /\ (w.dead \/ ~Refused(w)) THEN durable \ {p} ELSE durable
             /\ UNCHANGED <<bound, config, moving>>
             /\ IF Counts(p) THEN Changing ELSE UNCHANGED changes

(* A path of the real flash (FS_CheckRealPath), or emulation is off. *)
OpenReal(h) ==
    /\ file[h].where = "none"
    /\ file' = [file EXCEPT ![h].where = "nand"]
    /\ UNCHANGED <<disk, fs, bound, alive, config, fat_fd, tree, durable, moving, torn, cut, changes>>
CloseReal(h) ==
    /\ file[h].where = "nand"
    /\ file' = [file EXCEPT ![h] = NoFile]
    /\ UNCHANGED <<disk, fs, bound, alive, config, fat_fd, tree, durable, moving, torn, cut, changes>>

(* A request on a descriptor goes to the FAT module if the table has it.   *)
ServerOf(h) == IF config /\ h \in fat_fd THEN "fat" ELSE "nand"

Mine(h) == alive /\ file[h].where = "fat" /\ ServerOf(h) = "fat"
OnFile(h, w) ==
    /\ Leaves(w)
    /\ UNCHANGED <<bound, config, moving>>
Fil(h, w) == file' = [file EXCEPT ![h].fil = IF w.dead THEN NoFil ELSE w.fp]

FAT_Read(v, n) == IF Ok(v) THEN f_read(v, n) ELSE v
ReadCall(h, n) == Outcomes(LAMBDA b : FAT_Read(FileVolume(h, b), n))
FS_Read(h) ==
    /\ Mine(h)
    /\ \E n \in 1 .. SS :
         \E w \in ReadCall(h, n) :
             OnFile(h, w) /\ Fil(h, w) /\ UNCHANGED <<fat_fd, tree, durable, changes>>

(* What a file holds after n units of x are written at position i: junk in *)
(* a hole.                                                                 *)
Overwritten(old, i, x, n) ==
    [j \in 1 .. (IF i + n > Len(old) THEN i + n ELSE Len(old)) |->
        CASE j \in (i + 1) .. (i + n) -> x[j - i] [] j \in DOMAIN old -> old[j] [] OTHER -> Junk]
FAT_Write(v, x) == IF Ok(v) THEN f_write(v, x) ELSE v
WriteCall(h, x) == Outcomes(LAMBDA b : FAT_Write(FileVolume(h, b), x))
FS_Write(h) ==
    /\ Mine(h)
    /\ changes < MaxChanges
    /\ \E x \in {y \in Writes : file[h].fil.fptr + Len(y) <= MaxSize} :
         \E w \in WriteCall(h, x) :
             /\ Changing /\ OnFile(h, w) /\ Fil(h, w)
             /\ tree' = IF w.dead THEN Only(durable \ {file[h].path}) ELSE IF Refused(w) THEN tree
                        ELSE Is(file[h].path, FileOf(Overwritten(tree[file[h].path].data, file[h].fil.fptr, x, w.cnt)))
             /\ durable' = IF w.dead \/ ~Refused(w) THEN durable \ {file[h].path} ELSE durable
             /\ UNCHANGED fat_fd

(* Not past the end. *)
FAT_Seek(v, to) ==
    IF ~Ok(v) THEN v ELSE IF to > v.fp.fsize THEN Err(v, "fatal") ELSE f_lseek(v, to)
SeekCall(h, to) == Outcomes(LAMBDA b : FAT_Seek(FileVolume(h, b), to))
FS_Seek(h) ==
    /\ Mine(h)
    /\ \E to \in 0 .. MaxSize :
         \E w \in SeekCall(h, to) :
             OnFile(h, w) /\ Fil(h, w) /\ UNCHANGED <<fat_fd, tree, durable, changes>>

(* A close that fails leaves the file open. *)
FAT_Close(v) == IF Ok(v) THEN f_close(v) ELSE v
CloseCall(h) == Outcomes(LAMBDA b : FAT_Close(FileVolume(h, b)))
FS_Close(h) ==
    /\ Mine(h)
    /\ \E w \in CloseCall(h) :
        /\ OnFile(h, w)
        /\ IF Refused(w) THEN Fil(h, w) /\ UNCHANGED fat_fd
           ELSE file' = [file EXCEPT ![h] = NoFile] /\ fat_fd' = fat_fd \ {h}
        /\ durable' = IF Refused(w) THEN durable ELSE durable \cup {file[h].path}
        /\ UNCHANGED <<tree, changes>>

FsRequest ==
    \/ FS_CreateDir \/ FS_CreateFile \/ FS_Delete \/ FS_Rename \/ FS_ReadDir \/ FS_GetUsage \/ FS_GetAttr
    \/ \E h \in Handles : FS_Open(h) \/ FS_Read(h) \/ FS_Write(h) \/ FS_Seek(h) \/ FS_Close(h)
                           \/ OpenReal(h) \/ CloseReal(h)
Next ==
    \/ FsRequest
    \/ SwitchOn \/ SwitchOff
    \/ \E d \in Devices : FAT_Mount(d) \/ MountFails(d) \/ FAT_Unmount(d)
    \/ Restart \/ Reformat

Spec == Init /\ [][Next]_vars

-----------------------------------------------------------------------------
Home == disk["home"]

(* The home volume with the dirty window written back. *)
Current == IF fs.type /\ fs.wflag /\ fs.drv = "home" THEN [Home EXCEPT ![fs.winsect] = fs.win] ELSE Home

(* Every entry of the volume: root entries, and those of its directories. *)
AllEntries(d) ==
    LET top == Used(d, 0)
    IN  top \cup UNION {Used(d, d[s].clust) : s \in {t \in top : d[t].kind = "dir"}}

Closed(d, c) ==
    LET ch == ChainOf(d, c) IN Len(ch) <= NClusters /\ Len(ch) > 0 /\ Link(d, ch[Len(ch)]) = n_fatent
ChainSet(d, c) == {ChainOf(d, c)[i] : i \in 1 .. Len(ChainOf(d, c))}

(* Whatever request the device stopped in, the volume on it is sound:      *)
(* every chain an entry starts ends in a last link, is long enough for the *)
(* file, and belongs to that entry alone; names are unique.  Excepted are  *)
(* what FatFs calls a critical section (f_rename) and a directory being    *)
(* stretched, whose new cluster is linked before it is cleared (dir_next). *)
(* As long as nothing was cut short, every cluster in use belongs to a     *)
(* file, a directory, or a file being written (f_unlink, f_mkdir).         *)
VolumeIsSound ==
    ~torn =>
    LET all == AllEntries(Home)
        heads == {Current[s].clust : s \in AllEntries(Current)}
                     \cup {file[h].fil.sclust : h \in {x \in Handles : file[x].valid /\ fs.type}}
    IN  /\ \A s \in all :
             /\ Home[s].clust # 0 => Closed(Home, Home[s].clust)
             /\ Home[s].kind = "dir" => Home[s].clust # 0
             /\ Home[s].kind = "file" => Home[s].size <= SS * Len(ChainOf(Home, Home[s].clust))
        /\ \A s, t \in all : s # t => ChainSet(Home, Home[s].clust) \cap ChainSet(Home, Home[t].clust) = {}
        /\ \A c \in {0} \cup {Home[s].clust : s \in {t \in all : Home[t].kind = "dir"}} :
             \A s, t \in Used(Home, c) : s # t => Home[s].name # Home[t].name
        /\ ~cut => {c \in Clusters : Link(Current, c) # 0} = UNION {ChainSet(Current, c) : c \in heads}

(* Every file reads as it was written, open or not. *)
ReadsWhatWasWritten ==
    alive /\ "home" \in bound =>
    /\ \A p \in Paths : tree[p].kind = "file" /\ ~IsOpen(p) =>
           f_read(f_open(PathVolume(Enough), p, "existing", {"r"}), MaxSize + 1).buf = tree[p].data
    /\ \A h \in Handles : file[h].where = "fat" /\ file[h].valid /\ fs.type =>
           LET v == [FileVolume(h, Enough) EXCEPT !.fp.mode = {"r"}]
           IN  f_read(f_lseek(v, 0), MaxSize + 1).buf = tree[file[h].path].data
    /\ LET l == FAT_ReadDir(PathVolume(Enough), <<>>).buf
       IN  {l[i].name : i \in 1 .. Len(l)} = {p[1] : p \in {q \in Paths : Len(q) = 1 /\ tree[q].kind # "none"}}

(* A file that was closed holds on the device what was written to it, and  *)
(* a deleted one is gone, wherever a later request on another file was cut *)
(* short; a file being moved is at its old or at its new path.  A program  *)
(* reads back what was written, through the window shared with directories *)
(* and allocation table (f_open, f_lseek, f_read), and the directories     *)
(* list what was made in them.                                             *)
FilesAreKept ==
    /\ \A p \in durable : Seen(Home, p) = tree[p]
    /\ moving # NoMove => moving.what \in {Seen(Home, moving.from), Seen(Home, moving.to)}
    /\ ReadsWhatWasWritten

(* The descriptor table is the open emulated files, so every request on a  *)
(* descriptor reaches the file system that opened it, and no request on    *)
(* the emulated NAND ever writes to a device mounted after it (one FATFS   *)
(* object serves both).                                                    *)
RequestsReachTheirFile ==
    /\ \A h \in Handles : file[h].where # "none" => ServerOf(h) = file[h].where
    /\ fat_fd \subseteq {h \in Handles : file[h].where = "fat"}
    /\ disk["other"] = Formatted
=============================================================================
