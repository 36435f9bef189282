------------------------------- MODULE FatFs -------------------------------
(***************************************************************************)
(* FatFs (source/fat-module/ff.c) as this project builds it: the tiny      *)
(* configuration, in which the file allocation table, the directories and  *)
(* the unaligned ends of files share one sector window that is written     *)
(* back when it moves.                                                     *)
(*                                                                         *)
(* Every function of ff.c is an operator on the volume record v:           *)
(*   disk     the sectors of the drive                                     *)
(*   win, winsect, wflag    the window, its sector, is it dirty            *)
(*   last     last_clust, where the search for a free cluster starts       *)
(*   io       disk accesses that succeed before the drive stops answering  *)
(*   dead     it has stopped                                               *)
(*   res      the result so far ("ok" or the name of an FR_ code)          *)
(*   at, dir  the directory sector reached, and its table's first cluster  *)
(*   clst     the cluster create_chain returned                            *)
(*   ent      the entry f_readdir returned                                 *)
(*   fp       the FIL object in use; cnt, buf: bytes to go, bytes moved     *)
(*   part     what a drive that stops now leaves half done                 *)
(* Once res is not "ok" the remaining steps of a function do nothing.      *)
(*                                                                         *)
(* A sector holds one directory entry or two units of data, a cluster is   *)
(* one sector: every two updates that can be in different sectors are.     *)
(***************************************************************************)
EXTENDS Naturals, FiniteSets, Sequences

CONSTANTS
    NClusters,     \* clusters of the data area
    PerFatSector,  \* entries in a sector of the allocation table
    RootSize       \* entries of the root directory (BPB_RootEntCnt)

ASSUME FatFsAssumption ==
    /\ NClusters \in Nat \ {0} /\ PerFatSector \in Nat \ {0} /\ RootSize \in Nat \ {0}
    /\ NClusters < 90 /\ RootSize < 90

Clusters == 2 .. NClusters + 1
n_fatent == NClusters + 2

(* Sector numbers: 0 is none; clusters are their own sectors. *)
Root == 101 .. 100 + RootSize
FatSect(c) == 201 + c \div PerFatSector
FatArea == {FatSect(c) : c \in Clusters}
DiskSectors == Clusters \cup Root \cup FatArea

Blank == [kind |-> "blank"]        \* first byte zero: nothing here, nor after it
Deleted == [kind |-> "deleted"]    \* DDE
Entry(k, n, c, z) == [kind |-> k, name |-> n, clust |-> c, size |-> z]
Junk == "junk"                     \* what an unwritten byte holds
Data(a, b) == [kind |-> "data", u |-> <<a, b>>]

(* A loop of at most n rounds. *)
Iterate(step(_), x0, n) ==
    LET it[i \in 0 .. n] == IF i = 0 THEN x0 ELSE step(it[i - 1]) IN it[n]

Ok(v) == v.res = "ok"
Err(v, r) == [v EXCEPT !.res = r]
Fail(v) == [v EXCEPT !.res = "disk", !.dead = TRUE]     \* the drive does not answer

-----------------------------------------------------------------------------
(* The window. *)
write_back(v) ==
    CASE ~v.wflag  -> v
      [] v.io = 0  -> Fail(v)
      [] OTHER     -> [v EXCEPT !.disk[v.winsect] = v.win, !.wflag = FALSE, !.io = @ - 1]

load(v, s) ==
    CASE ~Ok(v) \/ s = 0 -> v
      [] v.io = 0        -> Fail(v)
      [] OTHER           -> [v EXCEPT !.win = v.disk[s], !.winsect = s, !.io = @ - 1]

(* Sector 0 only writes back. *)
move_window(v, s) == IF ~Ok(v) \/ v.winsect = s THEN v ELSE load(write_back(v), s)

sync(v) == move_window(v, 0)

(* The window's contents change. *)
Put(v, x) == IF Ok(v) THEN [v EXCEPT !.win = x, !.wflag = TRUE] ELSE v

(* A window put on a sector without reading it. *)
Place(v, s, x) == IF Ok(v) THEN [v EXCEPT !.winsect = s, !.win = x, !.wflag = TRUE] ELSE v

clust2sect(c) == IF c \in Clusters THEN c ELSE 0

-----------------------------------------------------------------------------
(* The allocation table. *)
get_fat(v, c) == move_window(v, FatSect(c))       \* the link is then v.win.link[c]

put_fatIn(v, c, x) == IF Ok(v) THEN [v EXCEPT !.win.link[c] = x, !.wflag = TRUE] ELSE v
put_fat(v, c, x) == put_fatIn(move_window(v, FatSect(c)), c, x)

(* One link of a chain is freed, and the next one becomes clst. *)
FreeIn(v) ==
    CASE ~Ok(v)             -> v
      [] v.win.link[v.clst] = 0  -> [v EXCEPT !.clst = 0]
      [] OTHER              -> [put_fat(v, v.clst, 0) EXCEPT !.clst = v.win.link[v.clst]]
FreeLink(v) == IF Ok(v) /\ v.clst \in Clusters THEN FreeIn(get_fat(v, v.clst)) ELSE v

remove_chain(v, c) ==
    IF c \notin Clusters THEN Err(v, "int")
    ELSE Iterate(FreeLink, [v EXCEPT !.clst = c], NClusters)

(* The i-th cluster looked at from scl on. *)
Candidate(scl, i) == 2 + ((scl + i - 2) % NClusters)

Looked(v, c) == IF Ok(v) /\ v.win.link[c] = 0 THEN [v EXCEPT !.clst = c] ELSE v
LookAt(v, c) == IF Ok(v) /\ v.clst = 0 THEN Looked(get_fat(v, c), c) ELSE v
FindFree(v, scl) ==
    LET look[i \in 0 .. NClusters] ==
            IF i = 0 THEN [v EXCEPT !.clst = 0]
            ELSE LookAt(look[i - 1], Candidate(scl, i))
    IN  look[NClusters]

(* The new cluster is the last link, and follows c if there is one. *)
Linked(v, c) == [(IF c = 0 THEN v ELSE put_fat(v, c, v.clst)) EXCEPT !.last = v.clst]
LinkNew(v, c) == IF Ok(v) /\ v.clst # 0 THEN Linked(put_fat(v, v.clst, n_fatent), c) ELSE v

StretchIn(v, c) ==
    CASE ~Ok(v)                 -> v
      [] v.win.link[c] < 2           -> Err(v, "int")
      [] v.win.link[c] \in Clusters  -> [v EXCEPT !.clst = v.win.link[c]]
      [] OTHER                  -> LinkNew(FindFree(v, c), c)

create_chain(v, c) ==
    IF c = 0 THEN LinkNew(FindFree(v, IF v.last \in Clusters THEN v.last ELSE 1), 0)
    ELSE StretchIn(get_fat(v, c), c)

-----------------------------------------------------------------------------
(* Directories. *)
dir_sdi(v, d) == IF Ok(v) THEN [v EXCEPT !.dir = d, !.at = IF d = 0 THEN 101 ELSE d] ELSE v

(* The new cluster of a directory is filled with blank entries; until then *)
(* its old contents are part of the directory.                             *)
Done(v, part) == IF Ok(v) THEN [v EXCEPT !.part = part] ELSE v
ClearNew(v) ==
    CASE ~Ok(v)      -> v
      [] v.clst = 0  -> Err(v, "denied")
      [] OTHER       ->
           Done(sync(Place(sync([v EXCEPT !.part = "stretch", !.at = v.clst]), v.clst, Blank)), v.part)

NextIn(v, stretch) ==
    CASE ~Ok(v)                    -> v
      [] v.win.link[v.at] < 2           -> Err(v, "int")
      [] v.win.link[v.at] \in Clusters  -> [v EXCEPT !.at = v.win.link[v.at]]
      [] ~stretch                  -> Err(v, "no_file")
      [] OTHER                     -> ClearNew(create_chain(v, v.at))

dir_next(v, stretch) ==
    CASE ~Ok(v)       -> v
      [] v.dir = 0    -> IF v.at + 1 \in Root THEN [v EXCEPT !.at = @ + 1] ELSE Err(v, "no_file")
      [] OTHER        -> NextIn(get_fat(v, v.at), stretch)

HasEntry(v, n) == v.win.kind \in {"file", "dir"} /\ v.win.name = n

(* A search ends with "hit", "no_file" or an error. *)
FindIn(v, n) ==
    CASE ~Ok(v)                  -> v
      [] v.win.kind = "blank"    -> Err(v, "no_file")
      [] HasEntry(v, n)          -> Err(v, "hit")
      [] OTHER                   -> dir_next(v, FALSE)
Hit(v) == IF v.res = "hit" THEN [v EXCEPT !.res = "ok"] ELSE v
dir_find(v, d, n) ==
    LET step(w) == FindIn(move_window(w, w.at), n)
    IN  Hit(Iterate(step, dir_sdi(v, d), NClusters + RootSize))

FreeSlotIn(v) ==
    CASE ~Ok(v)                                -> v
      [] v.win.kind \in {"blank", "deleted"}   -> Err(v, "hit")
      [] OTHER                                 -> dir_next(v, TRUE)
ToSlot(v) == move_window(v, v.at)
dir_register(v, d, n) ==
    LET step(w) == FreeSlotIn(move_window(w, w.at))
    IN  Put(ToSlot(Hit(Iterate(step, dir_sdi(v, d), NClusters + RootSize))), Entry("file", n, 0, 0))

dir_remove(v, s) == Put(move_window(v, s), Deleted)

-----------------------------------------------------------------------------
(* Paths are one or two names.  A path that is found leaves the window on  *)
(* its entry; "no_file": only its last name is missing.                    *)
Below(v, n) ==
    CASE v.res = "no_file"             -> Err(v, "no_path")
      [] Ok(v) /\ v.win.kind # "dir"   -> Err(v, "no_path")
      [] Ok(v)                         -> dir_find(v, v.win.clust, n)
      [] OTHER                         -> v
follow_path(v, p) ==
    IF Len(p) = 1 THEN dir_find(v, 0, p[1]) ELSE Below(dir_find(v, 0, p[1]), p[2])

Name(p) == p[Len(p)]
Again(v) == [v EXCEPT !.res = "ok"]

f_stat(v, p) == follow_path(v, p)

(* The empty path is the root. *)
OpenDirIn(v) ==
    CASE v.res = "no_file"             -> Err(v, "no_path")
      [] Ok(v) /\ v.win.kind = "dir"   -> dir_sdi(v, v.win.clust)
      [] Ok(v)                         -> Err(v, "no_path")
      [] OTHER                         -> v
f_opendir(v, p) == IF p = <<>> THEN dir_sdi(v, 0) ELSE OpenDirIn(follow_path(v, p))

(* The next entry: "hit", with the window on it, or "no_file".             *)
ReadIn(v) ==
    CASE ~Ok(v)                            -> v
      [] v.win.kind = "blank"              -> Err(v, "no_file")
      [] v.win.kind \in {"file", "dir"}    -> Err(v, "hit")
      [] OTHER                             -> dir_next(v, FALSE)
dir_read(v) ==
    LET step(w) == IF Ok(w) /\ w.at = 0 THEN Err(w, "no_file") ELSE ReadIn(move_window(w, w.at))
    IN  Hit(Iterate(step, v, NClusters + RootSize))

(* The entry goes to ent; the cursor moves on, to 0 after the last one.    *)
MoveOn(v) == IF Ok(v) THEN dir_next([v EXCEPT !.ent = v.win], FALSE) ELSE [v EXCEPT !.ent = Blank]
AtEnd(v) == IF v.res = "no_file" THEN [v EXCEPT !.res = "ok", !.at = 0] ELSE v
f_readdir(v) == AtEnd(MoveOn(dir_read(v)))

-----------------------------------------------------------------------------
(* Files.  A FIL object: its entry's sector, its chain, the current cluster *)
(* and sector, the position, the size, and the flags.                       *)
SS == 2        \* units in a sector

NoFil == [dir_sect |-> 0, sclust |-> 0, clust |-> 0, dsect |-> 0, fptr |-> 0, fsize |-> 0,
          mode |-> {}, written |-> FALSE, error |-> FALSE]

(* An existing file is cut to nothing: its entry first, then its chain. *)
LastBefore(v, cl) == IF Ok(v) THEN [v EXCEPT !.last = cl - 1] ELSE v
Truncate(v, cl, sect) == IF cl = 0 THEN v ELSE move_window(LastBefore(remove_chain(v, cl), cl), sect)
OpenIn(v, n, mode) ==
    CASE v.res = "no_file" /\ mode # "existing" -> dir_register(Again(v), v.dir, n)
      [] ~Ok(v)              -> v
      [] v.win.kind = "dir"  -> Err(v, IF mode = "existing" THEN "no_file" ELSE "denied")
      [] mode = "new"        -> Err(v, "exist")
      [] mode = "always"     -> Truncate(Put(v, Entry("file", n, 0, 0)), v.win.clust, v.winsect)
      [] OTHER               -> v
Opened(v, created, access) ==
    IF Ok(v) THEN [v EXCEPT !.fp = [NoFil EXCEPT !.dir_sect = v.winsect, !.sclust = v.win.clust,
                                        !.fsize = v.win.size, !.mode = access, !.written = created]]
    ELSE v
f_open(v, p, mode, access) ==
    Opened(OpenIn(follow_path(v, p), Name(p), mode), mode # "existing", access)

ABORT(v, r) == [v EXCEPT !.res = r, !.fp.error = TRUE]
Checked(v) == IF v.res = "disk" THEN ABORT(v, "disk") ELSE v
OnBoundary(v) == v.fp.fptr % SS = 0
UnitOf(x, i) == IF x.kind = "data" THEN x.u[i] ELSE Junk

(* f_read and f_lseek: clst is the cluster after the current one. *)
TakeLink(v, c) == IF Ok(v) THEN [v EXCEPT !.clst = v.win.link[c]] ELSE v
Follow(v) ==
    IF v.fp.fptr = 0 THEN [v EXCEPT !.clst = v.fp.sclust]
    ELSE TakeLink(get_fat(v, v.fp.clust), v.fp.clust)
EnterClust(v) ==
    CASE ~Ok(v)               -> Checked(v)
      [] clust2sect(v.clst) = 0  -> ABORT(v, "int")
      [] OTHER                -> [v EXCEPT !.fp.clust = v.clst]

ReadWhole(v, s) ==
    IF v.io = 0 THEN ABORT(Fail(v), "disk")
    ELSE LET x == IF v.wflag /\ v.winsect = s THEN v.win ELSE v.disk[s]
         IN  [v EXCEPT !.io = @ - 1, !.buf = @ \o <<UnitOf(x, 1), UnitOf(x, 2)>>,
                       !.fp.fptr = @ + SS, !.cnt = @ - SS]
ReadUnit(v) ==
    IF Ok(v) THEN [v EXCEPT !.buf = Append(@, UnitOf(v.win, 1 + (v.fp.fptr % SS))),
                            !.fp.fptr = @ + 1, !.cnt = @ - 1]
    ELSE Checked(v)
ReadPart(v) == ReadUnit(move_window(v, v.fp.dsect))
ReadSect(v) ==
    CASE ~Ok(v)        -> v
      [] v.cnt >= SS   -> ReadWhole(v, v.fp.clust)
      [] OTHER         -> ReadPart([v EXCEPT !.fp.dsect = v.fp.clust])
ReadRound(v) ==
    CASE ~Ok(v) \/ v.cnt = 0  -> v
      [] OnBoundary(v)        -> ReadSect(EnterClust(Follow(v)))
      [] OTHER                -> ReadPart(v)
f_read(v, n) ==
    LET remain == v.fp.fsize - v.fp.fptr
    IN  CASE v.fp.error            -> Err(v, "int")
          [] "r" \notin v.fp.mode  -> Err(v, "denied")
          [] OTHER -> Iterate(ReadRound, [v EXCEPT !.cnt = IF n > remain THEN remain ELSE n, !.buf = <<>>], n)

(* f_write.  "full": no cluster was left, what was written stays. *)
FirstClust(v) == [v EXCEPT !.fp.sclust = IF Ok(v) THEN v.clst ELSE n_fatent + 1]
Extend(v) ==
    CASE v.fp.fptr = 0 /\ v.fp.sclust # 0  -> [v EXCEPT !.clst = v.fp.sclust]
      [] v.fp.fptr = 0                     -> FirstClust(create_chain(v, 0))
      [] OTHER                             -> create_chain(v, v.fp.clust)
EnterNew(v) ==
    CASE Ok(v) /\ v.clst = 0  -> Err(v, "full")
      [] OTHER                -> EnterClust(v)
FlushOwn(v) == IF Ok(v) /\ v.winsect = v.fp.dsect THEN Checked(move_window(v, 0)) ELSE v

WriteWhole(v, s, x) ==
    IF v.io = 0 THEN ABORT(Fail(v), "disk")
    ELSE [v EXCEPT !.io = @ - 1, !.disk[s] = x,
                   !.win = IF v.winsect = s THEN x ELSE @, !.wflag = @ /\ v.winsect # s,
                   !.fp.fptr = @ + SS, !.cnt = @ + SS]
WriteUnit(v, u) ==
    IF Ok(v) THEN [v EXCEPT !.win = [Data(UnitOf(v.win, 1), UnitOf(v.win, 2))
                                        EXCEPT !.u[1 + (v.fp.fptr % SS)] = u],
                            !.wflag = TRUE, !.fp.fptr = @ + 1, !.cnt = @ + 1]
    ELSE Checked(v)
WritePart(v, u) == IF Ok(v) THEN WriteUnit(move_window(v, v.fp.dsect), u) ELSE v

(* At the end of the file the window is put on the sector without reading. *)
Unread(v) == IF Ok(v) THEN [v EXCEPT !.winsect = v.fp.clust, !.win = Data(Junk, Junk)] ELSE Checked(v)
AtEdge(v) == IF Ok(v) /\ v.fp.fptr >= v.fp.fsize THEN Unread(move_window(v, 0)) ELSE v
OnSect(v) == IF Ok(v) THEN [v EXCEPT !.fp.dsect = v.fp.clust] ELSE v

WriteSect(v, data) ==
    CASE ~Ok(v)                       -> v
      [] Len(data) - v.cnt >= SS      -> WriteWhole(v, v.fp.clust, Data(data[v.cnt + 1], data[v.cnt + 2]))
      [] OTHER                        -> WritePart(OnSect(AtEdge(v)), data[v.cnt + 1])
WriteRound(v, data) ==
    CASE ~Ok(v) \/ v.cnt = Len(data)  -> v
      [] OnBoundary(v)  -> WriteSect(FlushOwn(EnterNew(Extend(v))), data)
      [] OTHER          -> WritePart(v, data[v.cnt + 1])

(* The size follows the position, unless the write was aborted. *)
Wrote(v) ==
    IF v.res \in {"ok", "full"}
    THEN [v EXCEPT !.res = "ok", !.fp.written = TRUE,
                   !.fp.fsize = IF v.fp.fptr > @ THEN v.fp.fptr ELSE @]
    ELSE v
f_write(v, data) ==
    CASE v.fp.error   -> Err(v, "int")
      [] "w" \notin v.fp.mode -> Err(v, "denied")
      [] OTHER        -> LET step(w) == WriteRound(w, data)
                         IN  Wrote(Iterate(step, [v EXCEPT !.cnt = 0], Len(data)))

(* mutant: the entry keeps the size and the chain it had *)
f_syncData(v) == IF v.fp.written THEN [sync(v) EXCEPT !.fp.written = FALSE] ELSE v

(* The file's entry is brought up to date; its name stays what it was. *)
NameIn(x) == IF x.kind \in {"file", "dir"} THEN x.name ELSE Junk
PutEntry(v) ==
    IF Ok(v) THEN Put([v EXCEPT !.fp.written = FALSE], Entry("file", NameIn(v.win), v.fp.sclust, v.fp.fsize))
    ELSE v
f_sync(v) ==
    IF ~v.fp.written THEN v
    ELSE sync(PutEntry(move_window(v, v.fp.dir_sect)))
f_close(v) == f_sync(v)

(* cnt is the distance left from fptr. *)
Closer(v) == IF Ok(v) THEN [v EXCEPT !.cnt = @ - SS] ELSE v
SeekRound(v) ==
    IF ~Ok(v) \/ v.cnt <= SS THEN v ELSE Closer(EnterClust(Follow([v EXCEPT !.fp.fptr = @ + SS])))
SeekStart(v, ofs, from) ==
    CASE ofs = 0 -> [v EXCEPT !.fp.fptr = 0, !.cnt = 0]
      [] from > 0 /\ (ofs - 1) \div SS >= (from - 1) \div SS ->
           [v EXCEPT !.fp.fptr = SS * ((from - 1) \div SS), !.cnt = ofs - SS * ((from - 1) \div SS)]
      [] OTHER -> [v EXCEPT !.fp.fptr = 0, !.fp.clust = v.fp.sclust, !.cnt = ofs]
SeekEnd(v) ==
    IF ~Ok(v) THEN v
    ELSE [v EXCEPT !.fp.fptr = @ + v.cnt,
                   !.fp.dsect = IF (v.fp.fptr + v.cnt) % SS # 0 THEN v.fp.clust ELSE @]
f_lseek(v, to) ==
    LET ofs == IF to > v.fp.fsize THEN v.fp.fsize ELSE to
    IN  IF v.fp.error THEN Err(v, "int")
        ELSE SeekEnd(Iterate(SeekRound, SeekStart(v, ofs, v.fp.fptr), NClusters))

-----------------------------------------------------------------------------
(* Removing, making and renaming. *)
FreeChain(v, c) == IF Ok(v) /\ c # 0 THEN remove_chain(v, c) ELSE v

(* mutant: the chain is freed before the entry is removed *)
RemoveInFirst(v, s, c) == sync(dir_remove(FreeChain(v, c), s))

RemoveIn(v, s, c) == sync(FreeChain(dir_remove(v, s), c))

(* A directory is removed when it has no entry. *)
Emptied(v, s, c) ==
    CASE Ok(v)              -> Err(v, "denied")
      [] v.res = "no_file"  -> RemoveIn(Again(v), s, c)
      [] OTHER              -> v
UnlinkIn(v) ==
    CASE ~Ok(v)                -> v
      [] v.win.kind = "dir"    -> Emptied(dir_read(dir_sdi(v, v.win.clust)), v.at, v.win.clust)
      [] OTHER                 -> RemoveIn(v, v.at, v.win.clust)
f_unlink(v, p) == UnlinkIn(follow_path(v, p))

(* The table of the new directory is written before its entry. *)
MakeTable(v) ==
    CASE ~Ok(v)      -> v
      [] v.clst = 0  -> Err(v, "denied")
      [] OTHER       -> sync(Place(sync(v), v.clst, Blank))
Registered(v, n, dcl) ==
    IF Ok(v) THEN sync(Put(v, Entry("dir", n, dcl, 0)))
    ELSE [remove_chain(Again(v), dcl) EXCEPT !.res = v.res]
MakeEntry(v, d, n, dcl) == Registered(IF Ok(v) THEN dir_register(v, d, n) ELSE v, n, dcl)
MakeIn(v, d, n) == MakeEntry(MakeTable(v), d, n, v.clst)
MakeAt(v, n) ==
    CASE v.res = "no_file"  -> MakeIn(create_chain(Again(v), 0), v.dir, n)
      [] Ok(v)              -> Err(v, "exist")
      [] OTHER              -> v
f_mkdir(v, p) == MakeAt(follow_path(v, p), Name(p))

(* Between the two entries the chain has two owners ("critical section"). *)
Replace(v, so, e, n) ==
    IF Ok(v) THEN Done(sync(dir_remove(Put(v, Entry(e.kind, n, e.clust, e.size)), so)), "none") ELSE v
RenameIn(v, so, e, n) ==
    Replace(dir_register([v EXCEPT !.res = "ok", !.part = "rename"], v.dir, n), so, e, n)
Vacant(v, so, e, n) ==
    CASE v.res = "no_file"  -> RenameIn(v, so, e, n)
      [] Ok(v)              -> Err(v, "exist")
      [] OTHER              -> v
RenameTo(v, p) == IF Ok(v) THEN Vacant(follow_path(v, p), v.at, v.win, Name(p)) ELSE v
f_rename(v, old, new) == RenameTo(follow_path(v, old), new)
=============================================================================
