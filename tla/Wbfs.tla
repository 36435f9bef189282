-------------------------------- MODULE Wbfs --------------------------------
(***************************************************************************)
(* Discs on a WBFS partition (source/cios-lib/libwbfs/libwbfs.c): the EHCI *)
(* module serves those of a USB disk (source/ehci-module/wbfs.c) and those *)
(* of the SD card (source/cios-lib/sdhc_server.c), with one library and    *)
(* the library's one hd_sec_sz_ratio; the DIP plugin                       *)
(* (source/dip-plugin/wbfs.c) has one of the two servers open at a time.   *)
(* The USB module's functions are the same as the EHCI module's.           *)
(*                                                                         *)
(* A partition has a table of discs; a disc has a table that maps its      *)
(* blocks to blocks of the partition, 0 where it has no data.  Data is its *)
(* own address: a byte is its number on the partition.                     *)
(***************************************************************************)
EXTENDS Naturals, Sequences, FiniteSetsExt

CONSTANTS
    DiscIds,       \* discs a client can ask for
    HdWords,       \* words of a sector of the partition (128)
    HdWordBytes,   \* bytes of a word (4)
    BlockSectors,  \* sectors of a block (wbfs_sec_sz / hd_sec_sz)
    DiscBlocks,    \* blocks of a disc (n_wbfs_sec_per_disc)
    Volumes        \* the servers' disks: sequences of partitions

Servers == {"usb2", "sdhc"}      \* devFs

(* A partition's sector is ratio sectors of its device, or smaller than    *)
(* one of them (0).                                                        *)
ASSUME WbfsAssumption ==
    /\ {HdWords, HdWordBytes, BlockSectors, DiscBlocks} \subseteq Nat \ {0}
    /\ \A v \in Volumes : \A s \in Servers :
         /\ DOMAIN v[s] \subseteq Nat \ {0}
         /\ \A p \in DOMAIN v[s] :
              /\ v[s][p].magic \in BOOLEAN
              /\ v[s][p].ratio \in 0 .. HdWords * HdWordBytes
              /\ v[s][p].ratio # 0 => (HdWords * HdWordBytes) % v[s][p].ratio = 0
              /\ DOMAIN v[s][p].discs \subseteq Nat \ {0}
              /\ \A i \in DOMAIN v[s][p].discs :
                   /\ v[s][p].discs[i].id \in DiscIds
                   /\ v[s][p].discs[i].wlba_table \in [0..(DiscBlocks - 1) -> Nat]

VARIABLES
    volume,            \* the disk of each server
    hdd,               \* its open partition (0: none)
    disc,              \* its open disc: its entry, closed or not (entry 0: NULL)
    hd_sec_sz_ratio,   \* the library's
    devFd,             \* the server the DIP plugin has open ("none": -1)
    served,            \* the disc the plugin has opened, if that went well
    sane               \* ghost: no disc was closed twice

wbfsVars == <<volume, hdd, disc, hd_sec_sz_ratio, devFd, served, sane>>

NoEntry == [entry |-> 0, closed |-> FALSE]

HdBytes == HdWords * HdWordBytes

WbfsInit ==
    /\ volume \in Volumes
    /\ hdd = [s \in Servers |-> 0] /\ disc = [s \in Servers |-> NoEntry]
    /\ hd_sec_sz_ratio = 1
    /\ devFd = "none" /\ served = {} /\ sane = TRUE

-----------------------------------------------------------------------------
(* Opening. *)

(* mutant: the ratio is set only where it is not 1 *)
PartitionKeepsRatio(s, p) ==
    /\ hd_sec_sz_ratio' = IF volume[s][p].ratio = 1 THEN hd_sec_sz_ratio ELSE volume[s][p].ratio
    /\ hdd' = [hdd EXCEPT ![s] = IF volume[s][p].ratio = 0 THEN 0 ELSE p]

(* A partition with sectors smaller than its device's is refused, its      *)
(* ratio kept.  The number of sectors is passed as 0, and not compared.    *)
wbfs_open_partition(s, p) ==
    /\ hd_sec_sz_ratio' = volume[s][p].ratio
    /\ hdd' = [hdd EXCEPT ![s] = IF volume[s][p].ratio = 0 THEN 0 ELSE p]

(* The first partition with the magic, if the device can be read. *)
wbfs_open_hd(s, reads) ==
    LET found == {p \in DOMAIN volume[s] : reads /\ volume[s][p].magic}
    IN  IF found # {} THEN wbfs_open_partition(s, Min(found))
        ELSE hd_sec_sz_ratio' = 1 /\ hdd' = [hdd EXCEPT ![s] = 0]

(* The first disc of the partition with that ID. *)
wbfs_open_disc(s, p, id) ==
    LET found == {i \in DOMAIN volume[s][p].discs : volume[s][p].discs[i].id = id}
    IN  IF found = {} THEN NoEntry ELSE [entry |-> Min(found), closed |-> FALSE]

(* An open disc is closed, the pointer kept. *)
wbfs_close_disc(d) == [d EXCEPT !.closed = d.entry # 0]

(* Without a device that answers, what is open stays open. *)
NotMounted == UNCHANGED <<hdd, disc, hd_sec_sz_ratio, sane>>

(* When the partition is not found, the closed disc stays behind; it would *)
(* be closed again.                                                        *)
Reopened(s, id, reads) ==
    /\ sane' = (sane /\ ~disc[s].closed)
    /\ wbfs_open_hd(s, reads)
    /\ disc' = [disc EXCEPT ![s] = IF hdd'[s] = 0 THEN wbfs_close_disc(@)
                                   ELSE wbfs_open_disc(s, hdd'[s], id)]

WBFS_OpenDisc(id, mounts, reads) == IF mounts THEN Reopened("usb2", id, reads) ELSE NotMounted
__SDHC_WBFS_OpenDisc(id, mounts, reads) == IF mounts THEN Reopened("sdhc", id, reads) ELSE NotMounted

WBFS_OPEN_DISC(s, id, mounts, reads) ==
    \/ s = "usb2" /\ WBFS_OpenDisc(id, mounts, reads)
    \/ s = "sdhc" /\ __SDHC_WBFS_OpenDisc(id, mounts, reads)

(* The plugin: the descriptor stays open when the disc cannot be, and so   *)
(* does the disc at its server when the descriptor is closed.              *)
WBFS_Open(s, id, mounts, reads) ==
    /\ WBFS_OPEN_DISC(s, id, mounts, reads)
    /\ devFd' = s
    /\ served' = IF mounts /\ hdd'[s] # 0 /\ disc'[s].entry # 0 THEN {id} ELSE {}
    /\ UNCHANGED volume

WBFS_Close ==
    /\ devFd' = "none" /\ served' = {}
    /\ UNCHANGED <<volume, hdd, disc, hd_sec_sz_ratio, sane>>

-----------------------------------------------------------------------------
(* Reading. *)

NotRead == [ok |-> FALSE, data |-> <<>>]

(* Where on its partition the library reads sector n of it: it counts in   *)
(* sectors of the device.                                                  *)
SectorAt(ratio, n) == n * hd_sec_sz_ratio * (HdBytes \div ratio)

(* Bytes from..upto-1 of what is read at sector lba of block b. *)
BytesFrom(ratio, b, lba, from, upto) ==
    [k \in 1..(upto - from) |-> SectorAt(ratio, b * BlockSectors + lba) + from + k - 1]

(* A read of n sectors into the rest of the buffer, of which bytes         *)
(* from..upto-1 are kept.                                                  *)
Gets(r, table, n, from, upto) ==
    [r EXCEPT !.data = @ \o BytesFrom(r.ratio, table[r.wlba], r.lba, from, upto),
              !.left = @ - (upto - from), !.lba = @ + n]

(* After the last sector of a block, the next block of the disc. *)
Crosses(r, table) ==
    IF r.lba >= BlockSectors /\ r.left > 0
    THEN [r EXCEPT !.lba = 0, !.wlba = @ + 1, !.ok = table[r.wlba + 1] # 0]
    ELSE r

(* The part of a sector before the first whole one. *)
ReadHead(r, table, off) ==
    LET upto == IF off + r.left < HdBytes THEN off + r.left ELSE HdBytes
    IN  IF off = 0 THEN r ELSE Crosses(Gets(r, table, 1, off, upto), table)

(* The limit is compared with the block's bytes (wbfs_sec_sz). *)
Limited(lba, n) == IF lba + n > BlockSectors * HdBytes THEN BlockSectors * HdBytes - lba ELSE n

SectorTurn(r, table) ==
    LET n == Limited(r.lba, r.left \div HdBytes)
    IN  Crosses(Gets(r, table, n, 0, n * HdBytes), table)

(* Every turn takes a sector at least. *)
ReadSectors(r, table) ==
    LET after[turns \in 0..(r.left \div HdBytes)] ==
          IF turns = 0 THEN r
          ELSE LET before == after[turns - 1]
               IN  IF ~before.ok \/ before.left < HdBytes THEN before ELSE SectorTurn(before, table)
    IN  after[r.left \div HdBytes]

ReadTail(r, table) == IF ~r.ok \/ r.left = 0 THEN r ELSE Gets(r, table, 1, 0, r.left)

(* offset is in words, len in bytes.  The table counts blocks from 0. *)
wbfs_disc_read(ratio, table, offset, length) ==
    LET start == [ok |-> TRUE, data |-> <<>>, left |-> length, ratio |-> ratio,
                  wlba |-> offset \div (HdWords * BlockSectors),
                  lba |-> (offset \div HdWords) % BlockSectors]
        head == ReadHead(start, table, (offset % HdWords) * HdWordBytes)
        done == ReadTail(ReadSectors(head, table), table)
    IN  IF table[start.wlba] = 0 \/ ~done.ok THEN NotRead ELSE [ok |-> TRUE, data |-> done.data]

DiscRead(s, offset, length) ==
    IF disc[s].entry = 0 THEN NotRead
    ELSE LET p == volume[s][hdd[s]]
         IN  wbfs_disc_read(p.ratio, p.discs[disc[s].entry].wlba_table, offset, length)

WBFS_Read(offset, length) == DiscRead("usb2", offset, length)
__SDHC_WBFS_Read(offset, length) == DiscRead("sdhc", offset, length)

WBFS_READ_DISC(s, offset, length) ==
    IF s = "usb2" THEN WBFS_Read(offset, length) ELSE __SDHC_WBFS_Read(offset, length)

(* The plugin's read goes to the server it has open. *)
PluginRead(offset, length) ==
    IF devFd = "none" THEN NotRead ELSE WBFS_READ_DISC(devFd, offset, length)

-----------------------------------------------------------------------------
(* DI_WBFS_SET closes, and opens anew when it names a device. *)
WbfsNext ==
    \/ WBFS_Close
    \/ \E s \in Servers, id \in DiscIds, mounts \in BOOLEAN, reads \in BOOLEAN :
           WBFS_Open(s, id, mounts, reads)

(* What a disc holds from a word on. *)
DiscBytes(table, offset, length) ==
    LET at(k) == offset * HdWordBytes + k - 1
        blockBytes == BlockSectors * HdBytes
        block(k) == table[at(k) \div blockBytes]
    IN  IF \E k \in 1..length : block(k) = 0 THEN NotRead
        ELSE [ok |-> TRUE,
              data |-> [k \in 1..length |-> block(k) * blockBytes + (at(k) % blockBytes)]]

(* The whole sectors of a read are of one block. *)
InOneBlock(offset, len) ==
    LET head == IF offset % HdWords = 0 THEN 0 ELSE HdBytes - (offset % HdWords) * HdWordBytes
        first == (offset * HdWordBytes + head) \div HdBytes
        whole == IF len < head THEN 0 ELSE (len - head) \div HdBytes
    IN  whole = 0 \/ (first % BlockSectors) + whole <= BlockSectors

(* The disc the plugin opened is the one it asked for, whichever of the   *)
(* two servers had a disc open before, and any of its bytes can be read,   *)
(* or the read fails where the disc has none: a read may start and end     *)
(* inside a sector and go on in a block elsewhere on the partition, whose  *)
(* sectors are counted with a ratio both servers share (WBFS_OpenDisc,     *)
(* __SDHC_WBFS_OpenDisc, wbfs_disc_read).  Reads whose whole sectors are   *)
(* of more than one block are left out: the code does not cut them at the  *)
(* block's end ("dont cross wbfs sectors..", Limited).                     *)
ReadsTheDisc ==
    served # {} =>
        LET d == volume[devFd][hdd[devFd]].discs[disc[devFd].entry]
            words == DiscBlocks * BlockSectors * HdWords
        IN  /\ sane => ~disc[devFd].closed /\ served = {d.id}
            /\ \A offset \in 0..(words - 1) : \A length \in 1..((words - offset) * HdWordBytes) :
                 InOneBlock(offset, length) =>
                     PluginRead(offset, length) = DiscBytes(d.wlba_table, offset, length)
=============================================================================
