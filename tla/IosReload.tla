----------------------------- MODULE IosReload ------------------------------
(***************************************************************************)
(* What survives when a disc game reloads its IOS.  The ES plugin          *)
(* (source/es-plugin) answers the launch of an IOS by launching this cIOS  *)
(* again.  Before that it has the DIP plugin write the NAND emulation and  *)
(* the drive emulation to two files, and writes its own settings to a      *)
(* third; the plugins of the next cIOS read the files, delete them and     *)
(* take up the emulation again.  Between any two of these steps a write    *)
(* may fail, the launch may fail, or the console may be switched off; the  *)
(* files then wait for whoever boots the cIOS next.                        *)
(*                                                                         *)
(* A title is identified with the image it is on.                          *)
(***************************************************************************)
EXTENDS DipDrive

CONSTANTS
    Folders,      \* folders NAND emulation can be switched to
    NoFolder      \* emulation is off

ASSUME ReloadAssumption == NoFolder \notin Folders

VARIABLES
    es,        \* struct esConfig: fakelaunch and title_id
    current,   \* the disc title ES runs (NoImage: none)
    nand,      \* the folder NAND emulation uses
    dipFile, ffsFile, espFile,   \* /sys/dip.cfg, /sys/ffs.cfg, /sys/esp.cfg
    pc,        \* progress of a launch or a boot
    who,       \* who uses the cIOS: a loader, then the game it starts
    home,      \* what the game was started with
    faulted    \* did a write, an open, a check or a launch fail since power-on?

esVars == <<es, current, nand, dipFile, ffsFile, espFile, pc, who, home, faulted>>

vars == <<dipVars, esVars>>

NoFile == [kind |-> "none"]
BadFile == [kind |-> "bad"]
File(content) == [kind |-> "file", content |-> content]

DefaultEs == [fakelaunch |-> FALSE, title |-> NoImage]

NoHome == [image |-> NoImage, folder |-> NoFolder, block |-> FALSE, plain |-> FALSE]

Init ==
    /\ DipInit
    /\ es = DefaultEs
    /\ current = NoImage
    /\ nand = NoFolder
    /\ dipFile = NoFile /\ ffsFile = NoFile /\ espFile = NoFile
    /\ pc = "es_boot"
    /\ who = "loader"
    /\ home = NoHome
    /\ faulted = FALSE

-----------------------------------------------------------------------------
(* Before the game. *)

Configure ==
    /\ pc = "up" /\ who = "loader"
    /\ DI_READID \/ DI_CRYPT_SET \/ DI_WBFS_SET \/ DI_FRAG_SET
    /\ UNCHANGED esVars

SetNandMode ==
    /\ pc = "up" /\ who = "loader" /\ ~running
    /\ nand' \in Folders \cup {NoFolder}
    /\ UNCHANGED <<dipVars, es, current, dipFile, ffsFile, espFile, pc, who, home, faulted>>

__ES_SetFakeIosLaunch(mode) == [fakelaunch |-> mode, title |-> NoImage]

SET_FAKE_IOS_LAUNCH ==
    /\ pc = "up" /\ who = "loader" /\ ~running
    /\ \E mode \in BOOLEAN : es' = __ES_SetFakeIosLaunch(mode)
    /\ UNCHANGED <<dipVars, current, nand, dipFile, ffsFile, espFile, pc, who, home, faulted>>

(* After a reload, the block is given up if another title is verified. *)
__ES_RemoveError002(title) ==
    IF es.fakelaunch /\ es.title # NoImage
    THEN [fakelaunch |-> title = es.title, title |-> NoImage]
    ELSE es

(* A reload can save the emulation: one kind of image, selected while no   *)
(* other mode was set, or none.                                            *)
Plain ==
    \/ ~Emulated(config)
    \/ dipCfgState.mode = config.mode /\ config.mode \in {{"wbfs"}, {"frag"}}

(* A disc title is started: the TMD is that of the disc in the drive. *)
DIVERIFY ==
    LET title == ReadFrom(config)
    IN  /\ pc = "up" /\ title # NoImage
        /\ es' = __ES_RemoveError002(title)
        /\ \E ok \in BOOLEAN :
             /\ running' = ok
             /\ current' = IF ok THEN title ELSE current
             /\ who' = IF ok THEN "game" ELSE who
             /\ home' = IF ~ok \/ who = "game" THEN home
                        ELSE [image |-> title, folder |-> nand, block |-> es'.fakelaunch,
                              plain |-> Plain]
             /\ faulted' = (faulted \/ ~ok)
        /\ UNCHANGED <<config, dipCfgState, frag_dev, fraglist_data, wbfs, answer, identified,
                       nand, dipFile, ffsFile, espFile, pc>>

(* The game resets the drive. *)
GameReset ==
    /\ pc = "up" /\ who = "game"
    /\ DI_RESET
    /\ UNCHANGED esVars

-----------------------------------------------------------------------------
(* The launch of an IOS. *)

Blocked == es.fakelaunch /\ es.title = NoImage /\ current # NoImage

Leave ==
    /\ pc' = "gone"
    /\ UNCHANGED <<dipVars, es, current, nand, dipFile, ffsFile, espFile, who, home, faulted>>

(* Not blocked: the requested IOS replaces the cIOS. *)
LaunchOther == pc = "up" /\ who = "game" /\ ~Blocked /\ Leave

(* The system menu: emulation goes off before the launch. *)
LaunchMenu ==
    /\ pc = "up"
    /\ nand' = NoFolder
    /\ \E ok \in BOOLEAN : /\ pc' = IF ok THEN "gone" ELSE "up"
                           /\ faulted' = (faulted \/ ~ok)
    /\ UNCHANGED <<dipVars, es, current, dipFile, ffsFile, espFile, who, home>>

ES_LAUNCH ==
    /\ pc = "up" /\ Blocked
    /\ es' = [es EXCEPT !.title = current]
    /\ pc' = "save_ffs"
    /\ UNCHANGED <<dipVars, current, nand, dipFile, ffsFile, espFile, who, home, faulted>>

(* Writing a file: done, not done, or cut short. *)
Writes(file, content) ==
    \/ file' = File(content) /\ UNCHANGED faulted
    \/ file' \in {file, BadFile} /\ faulted' = TRUE

(* mutant: emulation is not noted before it is switched off *)
SaveFfsAfter ==
    /\ pc = "save_ffs"
    /\ nand' = NoFolder
    /\ pc' = "save_dip"
    /\ UNCHANGED <<dipVars, es, current, dipFile, ffsFile, espFile, who, home, faulted>>

(* SAVE_CONFIG, first half: a failure ends the command. *)
SaveFfs ==
    /\ pc = "save_ffs"
    /\ \/ nand = NoFolder /\ pc' = "save_dip" /\ UNCHANGED <<nand, ffsFile, faulted>>
       \/ /\ nand # NoFolder
          /\ nand' = NoFolder
          /\ Writes(ffsFile, nand)
          /\ pc' = IF ffsFile' = File(nand) /\ faulted' = faulted THEN "save_dip" ELSE "save_es"
       \/ pc' = "save_es" /\ faulted' = TRUE /\ UNCHANGED <<nand, ffsFile>>
    /\ UNCHANGED <<dipVars, es, current, dipFile, espFile, who, home>>

(* The list is written in pure fragment mode only. *)
DI_Config_Save ==
    [mode |-> dipCfgState.mode, device |-> dipCfgState.device, size |-> dipCfgState.list,
     list |-> IF dipCfgState.mode = {"frag"} THEN fraglist_data ELSE NoImage]

(* SAVE_CONFIG, second half. *)
SaveDip ==
    /\ pc = "save_dip"
    /\ IF Emulated(config) THEN Writes(dipFile, DI_Config_Save) ELSE UNCHANGED <<dipFile, faulted>>
    /\ pc' = "save_es"
    /\ UNCHANGED <<dipVars, es, current, nand, ffsFile, espFile, who, home>>

(* ES's own settings, whatever came of SAVE_CONFIG. *)
SaveEs ==
    /\ pc = "save_es"
    /\ Writes(espFile, es)
    /\ pc' = "launch"
    /\ UNCHANGED <<dipVars, es, current, nand, dipFile, ffsFile, who, home>>

(* Everything in memory is lost but the disc ID at address 0. *)
Restart(user) ==
    /\ config' = NoConfig
    /\ dipCfgState' = [mode |-> {}, device |-> 0, list |-> FALSE]
    /\ frag_dev' = 0 /\ fraglist_data' = NoImage /\ wbfs' = NoImage
    /\ running' = FALSE /\ answer' = "ok" /\ identified' = NoImage
    /\ es' = DefaultEs
    /\ current' = NoImage
    /\ nand' = NoFolder
    /\ pc' = "es_boot"
    /\ who' = user
    /\ faulted' = (user = "game" /\ faulted)
    /\ home' = IF user = "game" THEN home ELSE NoHome
    /\ UNCHANGED <<dipFile, ffsFile, espFile>>

__ES_CustomLaunch ==
    /\ pc = "launch"
    /\ Restart("game")

(* The cIOS's ticket cannot be read, or the launch is refused. *)
LaunchFails ==
    /\ pc = "launch"
    /\ pc' = "up"
    /\ faulted' = TRUE
    /\ UNCHANGED <<dipVars, es, current, nand, dipFile, ffsFile, espFile, who, home>>

PowerOff == pc # "gone" /\ Leave

PowerOn ==
    /\ pc = "gone"
    /\ Restart("loader")

-----------------------------------------------------------------------------
(* The boot of the cIOS. *)

(* A configuration file is deleted once it has been read. *)
Consumed(file) == NoFile

(* ES: Config_Load, and the second stage of its first open. *)
BootEs ==
    /\ pc = "es_boot"
    /\ LET loaded == IF espFile.kind = "file" THEN espFile.content ELSE DefaultEs
       IN  es' = IF loaded.title = NoImage THEN __ES_SetFakeIosLaunch(TRUE) ELSE loaded
    /\ espFile' = Consumed(espFile)
    /\ pc' = "dip_boot"
    /\ UNCHANGED <<dipVars, current, nand, dipFile, ffsFile, who, home, faulted>>

(* mutant: the disc that is opened need not be the one of the ID *)
RestoreDriveAnyDisc(c, opens) ==
    /\ config' = [NoConfig EXCEPT !.mode = c.mode]
    /\ dipCfgState' = [mode |-> c.mode, device |-> c.device, list |-> c.size]
    /\ fraglist_data' = c.list
    /\ wbfs' \in Images
    /\ frag_dev' = IF "frag" \in c.mode /\ "wbfs" \notin c.mode /\ c.size /\ opens
                   THEN c.device ELSE 0

(* The drive emulation that was saved; its mode is taken up whether or not *)
(* the WBFS disc (of the ID at address 0) or the list can be opened.       *)
RestoreDrive(c, opens) ==
    /\ config' = [NoConfig EXCEPT !.mode = c.mode]
    /\ dipCfgState' = [mode |-> c.mode, device |-> c.device, list |-> c.size]
    /\ fraglist_data' = c.list
    /\ wbfs' = IF "wbfs" \in c.mode /\ opens THEN home.image ELSE NoImage
    /\ frag_dev' = IF "frag" \in c.mode /\ "wbfs" \notin c.mode /\ c.size /\ opens
                   THEN c.device ELSE 0

__DI_InitDriveEmulation ==
    /\ pc = "dip_boot"
    /\ \E opens \in BOOLEAN, switches \in BOOLEAN :
         /\ IF dipFile.kind = "file" THEN RestoreDrive(dipFile.content, opens)
            ELSE UNCHANGED <<config, dipCfgState, frag_dev, fraglist_data, wbfs>>
         /\ nand' = IF ffsFile.kind = "file" /\ switches THEN ffsFile.content ELSE NoFolder
         /\ faulted' = (faulted \/ ~opens \/ ~switches)
    /\ dipFile' = Consumed(dipFile)
    /\ ffsFile' = Consumed(ffsFile)
    /\ pc' = "up"
    /\ UNCHANGED <<running, answer, identified, es, current, espFile, who, home>>

Next ==
    \/ Configure \/ SetNandMode \/ SET_FAKE_IOS_LAUNCH \/ DIVERIFY \/ GameReset
    \/ LaunchOther \/ LaunchMenu \/ ES_LAUNCH \/ SaveFfs \/ SaveDip \/ SaveEs
    \/ __ES_CustomLaunch \/ LaunchFails \/ PowerOff \/ PowerOn
    \/ BootEs \/ __DI_InitDriveEmulation

Spec == Init /\ [][Next]_vars

-----------------------------------------------------------------------------
(* "Set frag state for ios reload" (plugin.c): a game goes on with the     *)
(* image it was started from, however often it reloads its IOS, when no    *)
(* step failed and the selection is one a reload can save; with its NAND   *)
(* folder and under the same reload block; and a title under the block is  *)
(* reloaded into this cIOS again: the reload before has been accounted for *)
(* when the disc was verified.                                             *)
GameKeepsSetup ==
    pc = "up" /\ ~faulted =>
        /\ who = "game" => /\ home.plain => ReadFrom(config) = home.image
                           /\ nand = home.folder /\ es.fakelaunch = home.block
        /\ running /\ home.block => Blocked

(* Whatever fails between a game's launch and the next boot, power loss    *)
(* included, and however it was configured, the game is never given the    *)
(* image of another game: its own, none, or the disc that is in the drive. *)
NeverAnotherImage ==
    pc = "up" /\ who = "game" => ReadFrom(config) \in {home.image, NoImage, Disc}
=============================================================================
