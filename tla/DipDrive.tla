------------------------------ MODULE DipDrive ------------------------------
(***************************************************************************)
(* The disc drive as the DIP plugin emulates it (source/dip-plugin,        *)
(* plugin.c): the commands of DI_EmulateCmd and DI_EmulateIoctl on the     *)
(* plugin's configuration.  A read is served by a fragmented image, by a   *)
(* WBFS disc, by a DVD-R or by the original disc handler, in that order,   *)
(* at an address to which two offsets are added.  Commands that configure  *)
(* the emulation are refused (left to the original handler) while a title  *)
(* runs.                                                                   *)
(*                                                                         *)
(* Addresses are cut to layers: they are small numbers, below Dvd5Length   *)
(* in the first layer, below Dvd9Length in the second.  The disc in the    *)
(* drive, the original handler, and the storage devices are external.      *)
(***************************************************************************)
EXTENDS Naturals, FiniteSets

CONSTANTS
    Images,       \* disc images, fragmented or on WBFS, and the disc in the drive
    NoImage,
    Unsure,       \* a disc identified after a swap or a failed probe
    Dual,         \* images with a second layer
    GameCube,     \* GameCube discs
    Disc,         \* the disc in the drive
    Devices,      \* storage devices, numbered from 1
    Dvd5Length,   \* DVD5_LENGTH
    Dvd9Length,   \* DVD9_LENGTH
    LayerProbe,   \* the address __DI_CheckDisc tries (0x47000000)
    MaxOffset     \* bound on the offsets a client sets

ASSUME DipAssumption ==
    /\ Dual \subseteq Images /\ GameCube \subseteq Images
    /\ Disc \in Images /\ NoImage \notin Images
    /\ Unsure \notin Images \cup {NoImage}
    /\ Devices \subseteq Nat \ {0}
    /\ {Dvd5Length, Dvd9Length, LayerProbe, MaxOffset} \subseteq Nat
    /\ Dvd5Length \in 1 .. LayerProbe
    /\ LayerProbe + 2 * MaxOffset < Dvd9Length

VARIABLES
    config,        \* struct dipConfig
    dipCfgState,   \* the configuration a reload saves
    frag_dev,      \* the device of the open fragment list (0: none)
    fraglist_data, \* the image the list in memory describes
    wbfs,          \* the WBFS disc that is open
    running,       \* is a title running? (Swi_GetRunningTitle)
    answer,        \* result of the last command: "ok" or "fail"
    identified     \* the image READID identified since the drive was reset

dipVars == <<config, dipCfgState, frag_dev, fraglist_data, wbfs, running, answer, identified>>

Modes == {"dvdrom", "crypt", "wbfs", "frag"}

(* MODE_EMUL *)
EmulModes == {"wbfs", "frag"}

Emulated(c) == c.mode \cap EmulModes # {}

(* MODE_DVDROM | MODE_EMUL *)
NotOriginal(c) == c.mode \cap (EmulModes \cup {"dvdrom"}) # {}

NoConfig == [mode |-> {}, type |-> 0, base |-> 0, drive |-> 0, error |-> "none",
             cover |-> FALSE, noreset |-> FALSE]

DipInit ==
    /\ config = NoConfig
    /\ dipCfgState = [mode |-> {}, device |-> 0, list |-> FALSE]
    /\ frag_dev = 0
    /\ fraglist_data = NoImage
    /\ wbfs = NoImage
    /\ running = FALSE
    /\ answer = "ok"
    /\ identified = NoImage

Length(image) == IF image \in Dual THEN Dvd9Length ELSE Dvd5Length

-----------------------------------------------------------------------------
(* What an unencrypted read reads. *)
ReadFrom(c) ==
    IF "frag" \in c.mode THEN IF frag_dev = 0 THEN NoImage ELSE fraglist_data
    ELSE IF "wbfs" \in c.mode THEN wbfs
    ELSE Disc

(* __DI_CheckOffset: an address beyond the disc's end; a disc that has not *)
(* been identified has none.                                               *)
__DI_CheckOffset(c, at) ==
    /\ c.type = 5 => at < Dvd5Length
    /\ c.type = 9 => at < Dvd9Length

(* The device below has the address: its own end is not the plugin's. *)
Readable(c, at) ==
    /\ ReadFrom(c) # NoImage
    /\ at + c.base + c.drive < Length(ReadFrom(c))

__DI_ReadUnencrypted(c, at, works) == __DI_CheckOffset(c, at) /\ works /\ Readable(c, at)

RangeError(c, at) == IF __DI_CheckOffset(c, at) THEN c.error ELSE "range"

(* Every command but REQERROR forgets the last error. *)
NoError == [config EXCEPT !.error = "none"]

Answer(c, ok) ==
    /\ config' = c
    /\ answer' = IF ok THEN "ok" ELSE "fail"

Kept == UNCHANGED <<dipCfgState, frag_dev, fraglist_data, wbfs, running, identified>>

(* A command of the original handler that changes nothing here. *)
DI_HandleCmd == \E ok \in BOOLEAN : Answer(NoError, ok) /\ Kept

-----------------------------------------------------------------------------
(* mutant: the type of the disc survives a reset *)
__DI_ResetConfigKeepsType(c) ==
    [NoConfig EXCEPT !.mode = c.mode \cap EmulModes, !.type = c.type]

__DI_ResetConfig(c) == [NoConfig EXCEPT !.mode = c.mode \cap EmulModes]

DI_RESET ==
    /\ IF config.noreset THEN Answer(NoError, TRUE) /\ UNCHANGED identified
       ELSE \E ok \in {TRUE, Emulated(config)} :
              /\ Answer([__DI_ResetConfig(config) EXCEPT !.cover = Emulated(config)], ok)
              /\ identified' = NoImage
    /\ UNCHANGED <<dipCfgState, frag_dev, fraglist_data, wbfs, running>>

(* The second layer is there if it can be read. *)
__DI_CheckDisc(c, works) ==
    [c EXCEPT !.type = IF __DI_ReadUnencrypted(c, LayerProbe, works) THEN 9 ELSE 5,
              !.error = RangeError(c, LayerProbe)]

(* READID: the original handler's answer (native), or a read of the first  *)
(* sector; then the type, which GameCube discs are not read for.           *)
DI_READID ==
    \E native \in BOOLEAN, works \in BOOLEAN, probe \in BOOLEAN :
        LET c == IF Emulated(config) \/ native THEN NoError
                 ELSE [NoError EXCEPT !.mode = @ \cup {"dvdrom"}]
            manual == NotOriginal(c) \/ c.base # 0 \/ c.drive # 0
            ok == IF manual THEN __DI_ReadUnencrypted(c, 0, works) ELSE native
        IN  /\ Answer(IF ~ok THEN c
                      ELSE IF ReadFrom(c) \in GameCube THEN [c EXCEPT !.type = 9]
                      ELSE __DI_CheckDisc(c, probe), ok)
            /\ identified' = IF ~ok THEN identified
                             ELSE IF probe /\ identified \in {NoImage, ReadFrom(c)} THEN ReadFrom(c)
                             ELSE Unsure
            /\ UNCHANGED <<dipCfgState, frag_dev, fraglist_data, wbfs, running>>

(* Reads by address: UNENCREAD, READ_A8, READ_D0, READBCA, and LOW_READ    *)
(* when the image is not encrypted.                                        *)
DI_READ ==
    \E at \in 0 .. Dvd9Length, works \in BOOLEAN :
        /\ Answer([NoError EXCEPT !.error = RangeError(NoError, at)],
                  __DI_ReadUnencrypted(config, at, works))
        /\ Kept

DI_LOW_READ == IF "crypt" \in config.mode THEN DI_READ ELSE DI_HandleCmd

DI_OFFSET ==
    IF NotOriginal(config)
    THEN \E offset \in 0 .. MaxOffset : Answer([NoError EXCEPT !.drive = offset], TRUE) /\ Kept
    ELSE DI_HandleCmd

DI_REPORT_KEY ==
    IF NotOriginal(config)
    THEN Answer([config EXCEPT !.error = "wrong_disc"], FALSE) /\ Kept
    ELSE DI_HandleCmd

(* The only command that keeps the last error, to report it. *)
DI_REQERROR == Answer(config, TRUE) /\ Kept

(* The cover interrupt, cleared in the plugin or in the drive. *)
DI_COVER_CLEAR ==
    /\ config' = IF Emulated(config) THEN [config EXCEPT !.cover = FALSE] ELSE config
    /\ answer' = "ok"
    /\ Kept

-----------------------------------------------------------------------------
(* mutant: a command is accepted from a running title too *)
SetterUnguarded(set) == set

(* A command that configures the emulation. *)
Setter(set) == IF running THEN DI_HandleCmd ELSE set

DI_OFFSET_SET ==
    Setter(\E offset \in 0 .. MaxOffset : Answer([NoError EXCEPT !.base = offset], TRUE) /\ Kept)

DI_CRYPT_SET ==
    Setter(\/ Answer([NoError EXCEPT !.mode = @ \cup {"crypt"}], TRUE) /\ Kept
           \/ Answer([NoError EXCEPT !.mode = @ \ {"crypt"}], TRUE) /\ Kept)

DI_RESET_DISABLE ==
    Setter(\E value \in BOOLEAN : Answer([NoError EXCEPT !.noreset = value], TRUE) /\ Kept)

Without(mode) == [NoError EXCEPT !.mode = @ \ {mode}]
With(mode) == [NoError EXCEPT !.mode = @ \cup {mode}]

(* Another image after an identification: the type is the old one's. *)
Swapped == identified' = IF identified = NoImage THEN NoImage ELSE Unsure

(* The disc's server: opened with the disc, or not at all.  A disc that    *)
(* cannot be opened may leave its device open.                             *)
WBFS_Close == wbfs' = NoImage
WBFS_Open(image) == wbfs' = image

DI_WBFS_SET ==
    Setter(/\ Swapped
           /\ \/ Answer(Without("wbfs"), TRUE) /\ WBFS_Close /\ UNCHANGED dipCfgState
              \/ \E device \in Devices, image \in Images :
                   /\ Answer(With("wbfs"), TRUE)
                   /\ WBFS_Open(image)
                   /\ dipCfgState' = [mode |-> With("wbfs").mode, device |-> device, list |-> FALSE]
              \/ Answer(Without("wbfs"), FALSE) /\ WBFS_Close /\ UNCHANGED dipCfgState
           /\ UNCHANGED <<frag_dev, fraglist_data, running>>)

(* The memory that holds the list is not cleared. *)
Frag_Close == frag_dev' = 0 /\ UNCHANGED fraglist_data

(* The list is copied into memory once its device has started and the      *)
(* sector buffer is there; until then what Frag_Close left stays.          *)
Frag_Init(device, image) == frag_dev' = device /\ fraglist_data' = image

(* mutant: the old list stays selected when a new one cannot be opened *)
FRAG_SETKeepsMode ==
    Setter(/\ Swapped
           /\ \/ Answer(NoError, TRUE) /\ Frag_Close /\ UNCHANGED dipCfgState
              \/ \E device \in Devices, image \in Images :
                   /\ Answer(With("frag"), TRUE)
                   /\ Frag_Init(device, image)
                   /\ dipCfgState' = [mode |-> With("frag").mode, device |-> device, list |-> TRUE]
           /\ UNCHANGED <<wbfs, running>>)

(* Without a list, or with one that cannot be opened, the mode stays off;  *)
(* the command itself never fails.                                         *)
DI_FRAG_SET ==
    Setter(/\ Swapped
           /\ \/ Answer(Without("frag"), TRUE) /\ Frag_Close /\ UNCHANGED dipCfgState
              \/ \E device \in Devices, image \in Images :
                   /\ Answer(With("frag"), TRUE)
                   /\ Frag_Init(device, image)
                   /\ dipCfgState' = [mode |-> With("frag").mode, device |-> device, list |-> TRUE]
           /\ UNCHANGED <<wbfs, running>>)

(* ES verifies a disc's title (Swi_SetRunningTitle). *)
SetRunningTitle ==
    /\ running' \in BOOLEAN
    /\ UNCHANGED <<config, dipCfgState, frag_dev, fraglist_data, wbfs, answer, identified>>

(* Commands a game sends. *)
GameCommand ==
    \/ DI_RESET \/ DI_READID \/ DI_READ \/ DI_LOW_READ \/ DI_OFFSET
    \/ DI_REPORT_KEY \/ DI_REQERROR \/ DI_COVER_CLEAR

(* Commands a loader sends. *)
LoaderCommand ==
    \/ DI_OFFSET_SET \/ DI_CRYPT_SET \/ DI_RESET_DISABLE \/ DI_WBFS_SET \/ DI_FRAG_SET

DipNext == GameCommand \/ LoaderCommand \/ SetRunningTitle

DipSpec == DipInit /\ [][DipNext]_dipVars

-----------------------------------------------------------------------------
(* A mode that is set has an image behind it, also after a failed or       *)
(* repeated WBFS_SET or FRAG_SET, in any order, of both kinds.             *)
ModeHasImage ==
    /\ "frag" \in config.mode => frag_dev # 0 /\ fraglist_data # NoImage
    /\ "wbfs" \in config.mode => wbfs # NoImage

(* "This fix properly detects DL games" (__DI_CheckDisc): the type of a    *)
(* disc READID has identified is the number of layers it has, or two for   *)
(* the GameCube discs, if its image was selected before the first          *)
(* identification after the drive's reset, and reads go to it; and no      *)
(* address it has is refused by the plugin's own range check, whatever the *)
(* offsets (__DI_CheckOffset).                                             *)
DiscIsReachable ==
    identified \in Images /\ identified = ReadFrom(config) =>
        /\ config.type = 9 <=> identified \in Dual \cup GameCube
        /\ \A at \in 0 .. Dvd9Length : Readable(config, at) => __DI_CheckOffset(config, at)

(* While a title runs, no command takes away the image it runs from, and   *)
(* none undoes a loader's RESET_DISABLE, base offset or encryption mode    *)
(* under it (Stealth_CheckRunningTitle, IOCTL_DI_RESET).                   *)
TitleKeepsDrive ==
    [][running =>
         /\ config'.mode \cap EmulModes = config.mode \cap EmulModes
         /\ ReadFrom(config)' = ReadFrom(config)
         /\ dipCfgState' = dipCfgState
         /\ config.noreset => /\ config'.noreset
                              /\ config'.base = config.base
                              /\ ("crypt" \in config'.mode <=> "crypt" \in config.mode)]_dipVars
=============================================================================
