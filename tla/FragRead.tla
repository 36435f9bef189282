------------------------------ MODULE FragRead ------------------------------
(***************************************************************************)
(* Reading a fragmented, sparse disc image (source/dip-plugin/frag.c).     *)
(* A fragment list maps runs of the image's sectors to sectors of the      *)
(* device; what no fragment maps reads as zero.  The game asks for bytes   *)
(* at a word offset.                                                       *)
(*                                                                         *)
(* Data is its own address: a byte is <<sector of the device, byte of the  *)
(* sector>>, and Zero where the image is sparse.                           *)
(***************************************************************************)
EXTENDS Naturals, Sequences, FiniteSetsExt

CONSTANTS
    MaxIdx,       \* entries of frag_idx (640)
    IdxChunk,     \* sectors per entry (32768)
    SectorWords,  \* words of a sector (128 on an SD card)
    WordBytes,    \* bytes of a word (4)
    FragLists,    \* the fragment lists a loader may hand over
    Reads,        \* the reads a game may ask for
    Damages       \* sets of sectors the device cannot read

ASSUME FragAssumption ==
    /\ MaxIdx \in Nat \ {0}
    /\ IdxChunk \in Nat \ {0}
    /\ SectorWords \in Nat \ {0}
    /\ WordBytes \in Nat \ {0}

SectorSize == SectorWords * WordBytes

Zero == <<0, 0>>

Failed == [ok |-> FALSE, data |-> <<>>]

End(f) == f.offset + f.count

-----------------------------------------------------------------------------
(* frag_idx: for every chunk of the image, the fragment a search starts at *)
(* (fragments are numbered from 1).  idx only moves forward and stops at   *)
(* the last fragment.                                                      *)
__Frag_OptimizeList(ff) ==
    LET num == Len(ff.frag)
        from(idx, off) == Min({k \in idx..num : off < End(ff.frag[k]) \/ k = num})
        f[i \in 0..(MaxIdx - 1)] == from(IF i = 0 THEN 1 ELSE f[i - 1], i * IdxChunk)
    IN  IF num = 0 THEN [i \in 0..(MaxIdx - 1) |-> 1] ELSE f

(* The entry a search uses; one past the table is not caught. *)
IdxOff(offset) ==
    LET off == offset \div IdxChunk
    IN  IF off > MaxIdx THEN MaxIdx - 1 ELSE off

(* The first mapped run of [offset, offset + count), from fragment start   *)
(* on; what comes before it is sparse.                                     *)
__Frag_Get(ff, start, offset, count) ==
    LET inside(f) == f.offset <= offset /\ End(f) > offset
        ahead(f) == f.offset > offset /\ f.offset < offset + count
        hits == {i \in start..Len(ff.frag) : inside(ff.frag[i]) \/ ahead(ff.frag[i])}
        f == ff.frag[Min(hits)]
        delta == IF inside(f) THEN offset - f.offset ELSE f.offset - offset
    IN  IF hits = {}
        THEN [ret |-> IF offset + count > ff.size THEN 2 ELSE 0,
              offset |-> offset + count, sector |-> 0, count |-> 0]
        ELSE IF inside(f)
        THEN [ret |-> 0, offset |-> offset, sector |-> f.sector + delta,
              count |-> Min({f.count - delta, count})]
        ELSE [ret |-> 0, offset |-> f.offset, sector |-> f.sector,
              count |-> Min({f.count, count - delta})]

(* One turn of the read loop: the sparse sectors before the run that was   *)
(* found, the run, and the rest as the following turns read it.  bad is    *)
(* the set of sectors the device cannot read.                              *)
Turn(got, delta, bad, rest) ==
    IF \/ got.ret # 0
       \/ (got.sector..(got.sector + got.count - 1)) \cap bad # {}
       \/ delta + got.count = 0
       \/ ~rest.ok
    THEN Failed
    ELSE [ok |-> TRUE,
          data |-> [k \in 1..delta |-> 0] \o [k \in 1..got.count |-> got.sector + k - 1]
                     \o rest.data]

TurnAt(got, at, left, bad, f) ==
    Turn(got, got.offset - at, bad, f[left - (got.offset - at) - got.count])

(* Whole sectors: the sectors of the device, 0 for sparse ones.  The loop  *)
(* runs over what is left of len.                                          *)
__Frag_ReadSect(ff, idx, bad, offset, len) ==
    LET f[left \in 0..len] ==
          IF left = 0 THEN [ok |-> TRUE, data |-> <<>>]
          ELSE LET at == offset + len - left
               IN  TurnAt(__Frag_Get(ff, idx[IdxOff(at)], at, left), at, left, bad, f)
    IN  f[len]

ByteAt(sector, k) == IF sector = 0 THEN Zero ELSE <<sector, k>>

(* Part of one sector, through the sector buffer: from mod to the end of   *)
(* the sector or of the request; nothing if that is a whole sector.        *)
(* mutant: the part of a sector is never bounded by the request *)
ReadPartialToEnd(ff, idx, bad, woffset, len) ==
    LET mod == (woffset % SectorWords) * WordBytes
        rlen == IF mod = 0 THEN 0 ELSE SectorSize - mod
        got == __Frag_ReadSect(ff, idx, bad, woffset \div SectorWords, 1)
    IN  IF rlen = 0 THEN [ok |-> TRUE, data |-> <<>>]
        ELSE IF ~got.ok THEN Failed
        ELSE [ok |-> TRUE, data |-> [k \in 1..rlen |-> ByteAt(got.data[1], mod + k - 1)]]

__Frag_ReadPartial(ff, idx, bad, woffset, len) ==
    LET mod == (woffset % SectorWords) * WordBytes
        bound == Min({SectorSize - mod, len})
        rlen == IF bound = SectorSize THEN 0 ELSE bound
        got == __Frag_ReadSect(ff, idx, bad, woffset \div SectorWords, 1)
    IN  IF rlen = 0 THEN [ok |-> TRUE, data |-> <<>>]
        ELSE IF ~got.ok THEN Failed
        ELSE [ok |-> TRUE, data |-> [k \in 1..rlen |-> ByteAt(got.data[1], mod + k - 1)]]

(* A read in progress: what it has so far, where it is, what is left. *)
Taken(r, got) ==
    IF got.ok
    THEN [ok |-> TRUE, data |-> r.data \o got.data,
          woffset |-> r.woffset + Len(got.data) \div WordBytes,
          len |-> r.len - Len(got.data)]
    ELSE [r EXCEPT !.ok = FALSE]

TakePart(ff, idx, bad, r) ==
    IF r.ok /\ r.len > 0 THEN Taken(r, __Frag_ReadPartial(ff, idx, bad, r.woffset, r.len)) ELSE r

BytesOf(sectors) ==
    [ok |-> sectors.ok,
     data |-> [k \in 1..(Len(sectors.data) * SectorSize) |->
                 ByteAt(sectors.data[((k - 1) \div SectorSize) + 1], (k - 1) % SectorSize)]]

TakeWhole(ff, idx, bad, r) ==
    IF r.ok /\ r.len >= SectorSize
    THEN Taken(r, BytesOf(__Frag_ReadSect(ff, idx, bad, r.woffset \div SectorWords,
                                          r.len \div SectorSize)))
    ELSE r

Answered(r) == IF r.ok /\ r.len = 0 THEN [ok |-> TRUE, data |-> r.data] ELSE Failed

(* A leading part of a sector, whole sectors, a trailing part. *)
Frag_Read(ff, idx, bad, len, woffset) ==
    LET start == [ok |-> TRUE, data |-> <<>>, woffset |-> woffset, len |-> len]
    IN  Answered(TakePart(ff, idx, bad, TakeWhole(ff, idx, bad, TakePart(ff, idx, bad, start))))

-----------------------------------------------------------------------------
(* What the lists are: fragments in order, apart from each other, inside   *)
(* the image, none empty (the loader builds them from a file's clusters).  *)
WellFormed(ff) ==
    /\ \A i \in DOMAIN ff.frag : ff.frag[i].count > 0 /\ ff.frag[i].sector > 0
    /\ \A i, j \in DOMAIN ff.frag : i < j => End(ff.frag[i]) <= ff.frag[j].offset
    /\ \A i \in DOMAIN ff.frag : End(ff.frag[i]) <= ff.size

FragList ==
    {ff \in [size : Nat, frag : Seq([offset : Nat, sector : Nat, count : Nat])] : WellFormed(ff)}

(* What a game reads is below the end of frag_idx: what lies behind the    *)
(* table is not defined.                                                   *)
Within(woffset, len) == woffset * WordBytes + len <= MaxIdx * IdxChunk * SectorSize

ASSUME ReadAssumption ==
    /\ FragLists \subseteq FragList
    /\ Reads \subseteq [woffset : Nat, len : Nat]
    /\ \A r \in Reads : Within(r.woffset, r.len)
    /\ \A bad \in Damages : bad \subseteq Nat \ {0}

(* The sector of the device that holds sector s of the image, 0 if none. *)
Mapped(ff, s) ==
    LET holds == {i \in DOMAIN ff.frag : ff.frag[i].offset <= s /\ s < End(ff.frag[i])}
    IN  IF holds = {} THEN 0
        ELSE LET f == ff.frag[CHOOSE i \in holds : TRUE] IN f.sector + s - f.offset

(* The answer the image defines: its bytes, unless the request leaves the  *)
(* image or needs a sector the device cannot read.                         *)
Image(ff, bad, len, woffset) ==
    LET first == woffset * WordBytes
        needed == {b \div SectorSize : b \in first..(first + len - 1)}
    IN  IF \A s \in needed : s < ff.size /\ Mapped(ff, s) \notin bad
        THEN [ok |-> TRUE,
              data |-> [k \in 1..len |-> ByteAt(Mapped(ff, (first + k - 1) \div SectorSize),
                                                (first + k - 1) % SectorSize)]]
        ELSE Failed

-----------------------------------------------------------------------------
(* A loader sets a list, and the game reads wherever it likes.  Bound: all *)
(* of its reads are of one length.                                         *)
VARIABLES
    frag_list,   \* the list
    damaged,     \* the sectors the device cannot read
    request      \* the read

fragVars == <<frag_list, damaged, request>>

FragInit == frag_list \in FragLists /\ damaged \in Damages /\ request \in Reads
FragNext ==
    /\ request' \in Reads /\ request'.len = request.len
    /\ UNCHANGED <<frag_list, damaged>>

(* A read of any length at any word returns the bytes of the image, zeros  *)
(* where it is sparse, or fails: never a byte of another sector, however   *)
(* the request cuts fragments, gaps, index chunks and sectors (Frag_Read). *)
ReadsTheImage ==
    Frag_Read(frag_list, __Frag_OptimizeList(frag_list), damaged, request.len, request.woffset)
        = Image(frag_list, damaged, request.len, request.woffset)
=============================================================================
