----------------------------- MODULE MCStorage ------------------------------
(***************************************************************************)
(* What a read of a disc image goes through below the drive's commands:    *)
(* the fragment list (FragRead) or the WBFS partition (Wbfs), then the SD  *)
(* card (SdCard) or the disk of the USB module (UsbModule).  The four are  *)
(* checked side by side; which of them a behavior is about is chosen in    *)
(* its first state.                                                        *)
(*                                                                         *)
(* Of fragment lists, every read of every small image is tried: all        *)
(* well-formed lists of at most three fragments, all offsets and lengths,  *)
(* with and without a bad sector.                                          *)
(***************************************************************************)
EXTENDS FragRead, Wbfs, SdCard, UsbModule

CONSTANTS
    MaxInserts,                    \* cards inserted during a behavior
    MaxAttached                    \* disks attached during a behavior

VARIABLE layer              \* "frag", "wbfs", "sd" or "usb"

vars == <<layer, fragVars, wbfsVars, sdVars, usbVars>>

Fragments == [offset : 0..4, sector : {10, 20}, count : 1..2]

MCFragLists ==
    {l \in [size : 1..5, frag : UNION {[1..n -> Fragments] : n \in 0..3}] : WellFormed(l)}
MCReads == [woffset : 0..9, len : 1..10]
MCDamages == {{}, {11}}

(* Disks with and without a WBFS partition, with sectors like the          *)
(* device's, larger and smaller ones, with two discs in either order,      *)
(* whose blocks are next to each other, apart, the other way round or      *)
(* missing; a card with one disc.                                          *)
Tables == {<<1, 2, 3>>, <<3, 1, 2>>, <<2, 0, 4>>, <<0, 1, 2>>}

Disc(id, table) == [id |-> id, wlba_table |-> [w \in 0..2 |-> table[w + 1]]]
DiscB == Disc("B", <<5, 7, 6>>)
Partition(magic, ratio, discs) == [magic |-> magic, ratio |-> ratio, discs |-> discs]

MCVolumes ==
    {[usb2 |-> <<Partition(FALSE, 1, <<>>), Partition(magic, ratio, discs)>>,
      sdhc |-> <<Partition(TRUE, sdratio, <<Disc("A", <<4, 1, 3>>)>>)>>] :
         magic \in BOOLEAN, ratio \in 0..2, sdratio \in 0..2,
         discs \in {<<Disc("A", t), DiscB>> : t \in Tables} \cup {<<DiscB, Disc("A", t)>> : t \in Tables}}

NoFrag ==
    frag_list = [size |-> 1, frag |-> <<>>] /\ damaged = {} /\ request = [woffset |-> 0, len |-> 1]

NoSd ==
    /\ card = NoCard /\ slot = NoSlot
    /\ sd = [m \in Modules |-> NoDriver] /\ call = [m \in Modules |-> NoCall]
    /\ handles = [m \in Modules |-> 0] /\ dipfd = FALSE /\ inserts = 0
    /\ sdhome = [m \in Modules |-> NoCard]

NoWbfs ==
    /\ volume = <<>> /\ hdd = <<>> /\ disc = <<>> /\ hd_sec_sz_ratio = 1
    /\ devFd = "none" /\ served = {} /\ sane = TRUE

Init ==
    /\ UsbInit
    /\ \/ layer = "frag" /\ FragInit /\ NoWbfs /\ NoSd
       \/ layer = "wbfs" /\ NoFrag /\ WbfsInit /\ NoSd
       \/ layer = "sd" /\ NoFrag /\ NoWbfs /\ SdInit
       \/ layer = "usb" /\ NoFrag /\ NoWbfs /\ NoSd

FragOnly == layer = "frag" /\ UNCHANGED <<layer, wbfsVars, sdVars, usbVars>>
WbfsOnly == layer = "wbfs" /\ UNCHANGED <<layer, fragVars, sdVars, usbVars>>
SdOnly == layer = "sd" /\ UNCHANGED <<layer, fragVars, wbfsVars, usbVars>>
UsbOnly == layer = "usb" /\ UNCHANGED <<layer, fragVars, wbfsVars, sdVars>>

Next ==
    \/ FragOnly /\ FragNext
    \/ WbfsOnly /\ WbfsNext
    \/ SdOnly /\ SdNext(MaxInserts)
    \/ UsbOnly /\ UsbNext(MaxAttached)

Spec == Init /\ [][Next]_vars

(* The USB module's thread runs, and IOS answers it. *)
FairSpec ==
    /\ Spec
    /\ WF_vars(UsbOnly /\ UsbThread)
    /\ WF_vars(UsbOnly /\ Ios)
=============================================================================
