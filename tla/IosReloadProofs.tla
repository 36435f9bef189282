-------------------------- MODULE IosReloadProofs ---------------------------
(***************************************************************************)
(* Proofs about DipDrive, for every set of images, every number of         *)
(* devices, all lengths of a disc and all offsets, and about IosReload,    *)
(* which extends it, for every set of folders as well.                     *)
(***************************************************************************)
EXTENDS IosReload, TLAPS

(* The drive. *)

Configs ==
    [mode : SUBSET Modes, type : {0, 5, 9}, base : 0 .. MaxOffset, drive : 0 .. MaxOffset,
     error : {"none", "range", "wrong_disc"}, cover : BOOLEAN, noreset : BOOLEAN]

DipTypeOK ==
    /\ config \in Configs
    /\ dipCfgState \in [mode : SUBSET Modes, device : Devices \cup {0}, list : BOOLEAN]
    /\ frag_dev \in Devices \cup {0}
    /\ fraglist_data \in Images \cup {NoImage}
    /\ wbfs \in Images \cup {NoImage}
    /\ running \in BOOLEAN
    /\ answer \in {"ok", "fail"}
    /\ identified \in Images \cup {NoImage, Unsure}

(* The type the plugin keeps is that of the disc it has identified; it has *)
(* none before.                                                            *)
TypeIsKnown ==
    /\ identified = NoImage => config.type = 0
    /\ identified \in Images => (config.type = 9 <=> identified \in Dual \cup GameCube)

DipInv == DipTypeOK /\ ModeHasImage /\ TypeIsKnown

-----------------------------------------------------------------------------
(* What a read goes to is an image or nothing. *)
LEMMA ReadFromType ==
    ASSUME DipTypeOK, NEW c \in Configs
    PROVE  ReadFrom(c) \in Images \cup {NoImage}
  BY DipAssumption DEF ReadFrom, DipTypeOK

(* The probe of the second layer finds it exactly where there is one, when *)
(* the plugin knows nothing of the disc yet or what it knows is right.     *)
LEMMA ProbeIsRight ==
    ASSUME NEW c \in Configs, DipTypeOK, ReadFrom(c) # NoImage,
           c.type = 0 \/ (c.type = 9 <=> ReadFrom(c) \in Dual \cup GameCube),
           ReadFrom(c) \notin GameCube, NEW works \in BOOLEAN, works
    PROVE  __DI_ReadUnencrypted(c, LayerProbe, works) <=> ReadFrom(c) \in Dual \cup GameCube
<1>1. /\ {Dvd5Length, Dvd9Length, LayerProbe, MaxOffset} \subseteq Nat
      /\ Dvd5Length <= LayerProbe
      /\ LayerProbe + 2 * MaxOffset < Dvd9Length
  BY DipAssumption
<1>2. c.base \in 0 .. MaxOffset /\ c.drive \in 0 .. MaxOffset /\ c.type \in {0, 5, 9}
  BY DEF Configs
<1>3. CASE ReadFrom(c) \in Dual
  <2>1. c.type \in {0, 9}
    BY <1>2, <1>3
  <2>2. LayerProbe + c.base + c.drive < Dvd9Length /\ LayerProbe < Dvd9Length
    BY <1>1, <1>2
  <2>3. Length(ReadFrom(c)) = Dvd9Length
    BY <1>3 DEF Length
  <2>. QED  BY <1>1, <1>2, <1>3, <2>1, <2>2, <2>3
            DEF __DI_ReadUnencrypted, __DI_CheckOffset, Readable
<1>4. CASE ReadFrom(c) \notin Dual
  <2>1. Length(ReadFrom(c)) = Dvd5Length
    BY <1>4 DEF Length
  <2>2. ~(LayerProbe + c.base + c.drive < Dvd5Length)
    BY <1>1, <1>2
  <2>. QED  BY <1>4, <2>1, <2>2 DEF __DI_ReadUnencrypted, Readable
<1>. QED  BY <1>3, <1>4

(* A disc whose type is known has no address that the plugin refuses. *)
LEMMA KnownIsReachable ==
    ASSUME DipTypeOK, TypeIsKnown
    PROVE  DiscIsReachable
<1>1. /\ {Dvd5Length, Dvd9Length, LayerProbe, MaxOffset} \subseteq Nat
      /\ Dvd5Length <= LayerProbe
      /\ LayerProbe + 2 * MaxOffset < Dvd9Length
  BY DipAssumption
<1>2. config.base \in Nat /\ config.drive \in Nat /\ config.type \in {0, 5, 9}
  BY <1>1 DEF DipTypeOK, Configs
<1>3. SUFFICES ASSUME identified \in Images, identified = ReadFrom(config),
                      NEW at \in 0 .. Dvd9Length, Readable(config, at)
               PROVE  __DI_CheckOffset(config, at)
  BY DEF DiscIsReachable, TypeIsKnown
<1>4. at + config.base + config.drive < Length(ReadFrom(config))
  BY <1>3 DEF Readable
<1>5. CASE identified \in Dual
  BY <1>1, <1>2, <1>3, <1>4, <1>5 DEF TypeIsKnown, __DI_CheckOffset, Length
<1>6. CASE identified \notin Dual
  BY <1>1, <1>2, <1>3, <1>4, <1>6 DEF TypeIsKnown, __DI_CheckOffset, Length
<1>. QED  BY <1>5, <1>6

-----------------------------------------------------------------------------
LEMMA DipInitInv == DipInit => DipInv
<1> SUFFICES ASSUME DipInit PROVE DipInv
  OBVIOUS
<1>1. NoConfig \in Configs /\ NoConfig.mode = {} /\ NoConfig.type = 0
  BY DipAssumption DEF NoConfig, Configs
<1>2. DipTypeOK
  BY <1>1 DEF DipInit, DipTypeOK
<1>3. ModeHasImage /\ TypeIsKnown
  BY <1>1, DipAssumption DEF DipInit, ModeHasImage, TypeIsKnown
<1>. QED  BY <1>2, <1>3 DEF DipInv

(* A command that touches neither the modes nor the type. *)
LEMMA QuietInv ==
    ASSUME DipInv, Kept, config' \in Configs, answer' \in {"ok", "fail"},
           config'.mode \cap EmulModes = config.mode \cap EmulModes,
           config'.type = config.type
    PROVE  DipInv'
<1>1. /\ "frag" \in config'.mode <=> "frag" \in config.mode
      /\ "wbfs" \in config'.mode <=> "wbfs" \in config.mode
  BY DEF EmulModes
<1>2. DipTypeOK'
  BY DEF DipInv, DipTypeOK, Kept
<1>3. ModeHasImage'
  BY <1>1 DEF DipInv, ModeHasImage, Kept
<1>4. TypeIsKnown'
  BY DEF DipInv, TypeIsKnown, Kept
<1>. QED  BY <1>2, <1>3, <1>4 DEF DipInv

LEMMA NoErrorType ==
    ASSUME DipTypeOK
    PROVE  /\ NoError \in Configs
           /\ NoError.mode = config.mode /\ NoError.type = config.type
           /\ NoError.base = config.base /\ NoError.drive = config.drive
           /\ NoError.noreset = config.noreset /\ NoError.cover = config.cover
  BY DEF DipTypeOK, Configs, NoError

(* What a reset does to the configuration. *)
LEMMA ResetEffect ==
    ASSUME DipTypeOK, DI_RESET
    PROVE  /\ DipTypeOK'
           /\ config'.mode \cap EmulModes = config.mode \cap EmulModes
           /\ \/ config' = NoError /\ identified' = identified
              \/ /\ ~config.noreset /\ config'.mode = config.mode \cap EmulModes
                 /\ config'.type = 0 /\ identified' = NoImage
           /\ UNCHANGED <<dipCfgState, frag_dev, fraglist_data, wbfs, running>>
<1>1. CASE config.noreset
  BY <1>1, NoErrorType DEF DI_RESET, Answer, DipTypeOK
<1>2. CASE ~config.noreset
  <2> DEFINE c == [__DI_ResetConfig(config) EXCEPT !.cover = Emulated(config)]
  <2>1. /\ config' = c /\ answer' \in {"ok", "fail"} /\ identified' = NoImage
        /\ UNCHANGED <<dipCfgState, frag_dev, fraglist_data, wbfs, running>>
    BY <1>2 DEF DI_RESET, Answer
  <2>2. NoConfig \in Configs /\ NoConfig.type = 0
    BY DipAssumption DEF NoConfig, Configs
  <2>3. config.mode \cap EmulModes \in SUBSET Modes
    BY DEF EmulModes, Modes
  <2>4. /\ __DI_ResetConfig(config) \in Configs
        /\ __DI_ResetConfig(config).mode = config.mode \cap EmulModes
        /\ __DI_ResetConfig(config).type = 0
    BY <2>2, <2>3 DEF __DI_ResetConfig, Configs
  <2>5. PICK e \in BOOLEAN : c = [__DI_ResetConfig(config) EXCEPT !.cover = e]
    BY DEF Emulated
  <2>. HIDE DEF c
  <2>6. c \in Configs /\ c.mode = config.mode \cap EmulModes /\ c.type = 0
    BY <2>4, <2>5 DEF Configs
  <2>7. c.mode \cap EmulModes = config.mode \cap EmulModes
    BY <2>6
  <2>. QED  BY <1>2, <2>1, <2>6, <2>7 DEF DipTypeOK
<1>. QED  BY <1>1, <1>2

(* What an identification does to it. *)
LEMMA ReadIdEffect ==
    ASSUME DipTypeOK, DI_READID
    PROVE  /\ DipTypeOK'
           /\ config'.mode \in {config.mode, config.mode \cup {"dvdrom"}}
           /\ config'.noreset = config.noreset /\ config'.base = config.base
           /\ UNCHANGED <<dipCfgState, frag_dev, fraglist_data, wbfs, running>>
<1>1. PICK native \in BOOLEAN, works \in BOOLEAN, probe \in BOOLEAN :
        LET c == IF Emulated(config) \/ native THEN NoError
                 ELSE [NoError EXCEPT !.mode = @ \cup {"dvdrom"}]
            manual == NotOriginal(c) \/ c.base # 0 \/ c.drive # 0
            ok == IF manual THEN __DI_ReadUnencrypted(c, 0, works) ELSE native
        IN  /\ Answer(IF ~ok THEN c
                      ELSE IF ReadFrom(c) \in GameCube THEN [c EXCEPT !.type = 9]
                      ELSE __DI_CheckDisc(c, probe), ok)
            /\ identified' = IF ~ok THEN identified
                             ELSE IF probe /\ identified \in {NoImage, ReadFrom(c)} THEN ReadFrom(c)
                             ELSE Unsure
            /\ UNCHANGED <<dipCfgState, frag_dev, fraglist_data, wbfs, running>>
  BY DEF DI_READID
<1> DEFINE c == IF Emulated(config) \/ native THEN NoError
                ELSE [NoError EXCEPT !.mode = @ \cup {"dvdrom"}]
<1>2. /\ config' \in {c, [c EXCEPT !.type = 9], __DI_CheckDisc(c, probe)}
      /\ answer' \in {"ok", "fail"}
      /\ identified' \in {identified, ReadFrom(c), Unsure}
      /\ UNCHANGED <<dipCfgState, frag_dev, fraglist_data, wbfs, running>>
  BY <1>1 DEF Answer
<1>3. /\ c \in Configs /\ c.noreset = config.noreset /\ c.base = config.base
      /\ c.mode \in {config.mode, config.mode \cup {"dvdrom"}}
  BY NoErrorType DEF Configs, Modes
<1> HIDE DEF c
<1>4. /\ config' \in Configs
      /\ config'.mode = c.mode /\ config'.noreset = c.noreset /\ config'.base = c.base
  BY <1>2, <1>3 DEF Configs, __DI_CheckDisc, RangeError
<1>5. ReadFrom(c) \in Images \cup {NoImage}
  BY <1>3, ReadFromType
<1>6. DipTypeOK'
  BY <1>2, <1>4, <1>5 DEF DipTypeOK
<1>. QED  BY <1>2, <1>3, <1>4, <1>6

LEMMA HandleCmdInv == ASSUME DipInv, DI_HandleCmd PROVE DipInv'
  BY QuietInv, NoErrorType DEF DI_HandleCmd, Answer, DipInv

LEMMA ResetInv == ASSUME DipInv, DI_RESET PROVE DipInv'
<1>1. /\ "frag" \in config'.mode <=> "frag" \in config.mode
      /\ "wbfs" \in config'.mode <=> "wbfs" \in config.mode
  BY ResetEffect DEF DipInv, EmulModes
<1>2. ModeHasImage'
  BY <1>1, ResetEffect DEF DipInv, ModeHasImage
<1>3. TypeIsKnown'
  BY ResetEffect, NoErrorType, DipAssumption DEF DipInv, TypeIsKnown
<1>. QED  BY <1>2, <1>3, ResetEffect DEF DipInv

LEMMA ReadIdInv == ASSUME DipInv, DI_READID PROVE DipInv'
<1>1. PICK native \in BOOLEAN, works \in BOOLEAN, probe \in BOOLEAN :
        LET c == IF Emulated(config) \/ native THEN NoError
                 ELSE [NoError EXCEPT !.mode = @ \cup {"dvdrom"}]
            manual == NotOriginal(c) \/ c.base # 0 \/ c.drive # 0
            ok == IF manual THEN __DI_ReadUnencrypted(c, 0, works) ELSE native
        IN  /\ Answer(IF ~ok THEN c
                      ELSE IF ReadFrom(c) \in GameCube THEN [c EXCEPT !.type = 9]
                      ELSE __DI_CheckDisc(c, probe), ok)
            /\ identified' = IF ~ok THEN identified
                             ELSE IF probe /\ identified \in {NoImage, ReadFrom(c)} THEN ReadFrom(c)
                             ELSE Unsure
            /\ UNCHANGED <<dipCfgState, frag_dev, fraglist_data, wbfs, running>>
  BY DEF DI_READID
<1> DEFINE c == IF Emulated(config) \/ native THEN NoError
                ELSE [NoError EXCEPT !.mode = @ \cup {"dvdrom"}]
           manual == NotOriginal(c) \/ c.base # 0 \/ c.drive # 0
           ok == IF manual THEN __DI_ReadUnencrypted(c, 0, works) ELSE native
           known == IF ReadFrom(c) \in GameCube THEN [c EXCEPT !.type = 9]
                    ELSE __DI_CheckDisc(c, probe)
<1>2. /\ config' = IF ~ok THEN c ELSE known
      /\ answer' \in {"ok", "fail"}
      /\ identified' = IF ~ok THEN identified
                       ELSE IF probe /\ identified \in {NoImage, ReadFrom(c)} THEN ReadFrom(c)
                       ELSE Unsure
      /\ UNCHANGED <<dipCfgState, frag_dev, fraglist_data, wbfs, running>>
  BY <1>1 DEF Answer
<1>3. /\ c \in Configs /\ c.type = config.type
      /\ "frag" \in c.mode <=> "frag" \in config.mode
      /\ "wbfs" \in c.mode <=> "wbfs" \in config.mode
  BY NoErrorType DEF DipInv, Configs, Modes
<1>4. /\ known \in Configs
      /\ known.mode = c.mode
  BY <1>3 DEF Configs, __DI_CheckDisc, RangeError
<1>5. ReadFrom(c) \in Images \cup {NoImage}
  BY <1>3, ReadFromType DEF DipInv
<1>6. DipTypeOK'
  BY ReadIdEffect DEF DipInv
<1>7. ModeHasImage'
  BY <1>2, <1>3, <1>4 DEF DipInv, ModeHasImage
<1>8. TypeIsKnown'
  <2>1. CASE ~ok
    BY <1>2, <1>3, <2>1 DEF DipInv, TypeIsKnown
  <2>2. CASE ok
    <3>1. ReadFrom(c) \in Images
      <4>1. CASE manual
        BY <1>5, <2>2, <4>1 DEF __DI_ReadUnencrypted, Readable
      <4>2. CASE ~manual
        BY <4>2, DipAssumption DEF NotOriginal, EmulModes, ReadFrom
      <4>. QED  BY <4>1, <4>2
    <3>2. CASE ~(probe /\ identified \in {NoImage, ReadFrom(c)})
      BY <1>2, <2>2, <3>2, DipAssumption DEF TypeIsKnown
    <3>3. CASE probe /\ identified \in {NoImage, ReadFrom(c)}
      <4>1. identified' = ReadFrom(c) /\ config' = known
        BY <1>2, <2>2, <3>3
      <4>2. known.type = 9 <=> ReadFrom(c) \in Dual \cup GameCube
        <5>1. CASE ReadFrom(c) \in GameCube
          BY <1>3, <5>1 DEF Configs
        <5>2. CASE ReadFrom(c) \notin GameCube
          <6>1. c.type = 0 \/ (c.type = 9 <=> ReadFrom(c) \in Dual \cup GameCube)
            BY <1>3, <3>1, <3>3 DEF DipInv, TypeIsKnown
          <6>2. __DI_ReadUnencrypted(c, LayerProbe, probe) <=> ReadFrom(c) \in Dual \cup GameCube
            BY <1>3, <3>1, <3>3, <5>2, <6>1, ProbeIsRight, DipAssumption DEF DipInv
          <6>3. known.type = IF __DI_ReadUnencrypted(c, LayerProbe, probe) THEN 9 ELSE 5
            BY <1>3, <5>2 DEF __DI_CheckDisc, Configs
          <6>. HIDE DEF c, known
          <6>. QED  BY <6>2, <6>3
        <5>. QED  BY <5>1, <5>2
      <4>. QED  BY <3>1, <4>1, <4>2, DipAssumption DEF TypeIsKnown
    <3>. QED  BY <3>2, <3>3
  <2>. QED  BY <2>1, <2>2
<1>. QED  BY <1>6, <1>7, <1>8 DEF DipInv

LEMMA ReadInv == ASSUME DipInv, DI_READ PROVE DipInv'
<1>1. PICK at : /\ config' = [NoError EXCEPT !.error = RangeError(NoError, at)]
                /\ answer' \in {"ok", "fail"}
                /\ Kept
  BY DEF DI_READ, Answer
<1>2. RangeError(NoError, at) \in {"none", "range", "wrong_disc"}
  BY NoErrorType DEF DipInv, RangeError, Configs
<1>3. config' \in Configs /\ config'.mode = config.mode /\ config'.type = config.type
  BY <1>1, <1>2, NoErrorType DEF DipInv, Configs
<1>. QED  BY <1>1, <1>3, QuietInv

LEMMA OffsetInv == ASSUME DipInv, DI_OFFSET PROVE DipInv'
<1>1. CASE NotOriginal(config)
  <2>1. PICK offset \in 0 .. MaxOffset : /\ config' = [NoError EXCEPT !.drive = offset]
                                         /\ answer' = "ok" /\ Kept
    BY <1>1 DEF DI_OFFSET, Answer
  <2>2. config' \in Configs /\ config'.mode = config.mode /\ config'.type = config.type
    BY <2>1, NoErrorType DEF DipInv, Configs
  <2>. QED  BY <2>1, <2>2, QuietInv
<1>2. CASE ~NotOriginal(config)
  BY <1>2, HandleCmdInv DEF DI_OFFSET
<1>. QED  BY <1>1, <1>2

LEMMA ReportKeyInv == ASSUME DipInv, DI_REPORT_KEY PROVE DipInv'
<1>1. CASE NotOriginal(config)
  <2>1. config' = [config EXCEPT !.error = "wrong_disc"] /\ answer' = "fail" /\ Kept
    BY <1>1 DEF DI_REPORT_KEY, Answer
  <2>2. config' \in Configs /\ config'.mode = config.mode /\ config'.type = config.type
    BY <2>1 DEF DipInv, DipTypeOK, Configs
  <2>. QED  BY <2>1, <2>2, QuietInv
<1>2. CASE ~NotOriginal(config)
  BY <1>2, HandleCmdInv DEF DI_REPORT_KEY
<1>. QED  BY <1>1, <1>2

LEMMA CoverClearInv == ASSUME DipInv, DI_COVER_CLEAR PROVE DipInv'
<1>1. config' \in Configs /\ config'.mode = config.mode /\ config'.type = config.type
  BY DEF DI_COVER_CLEAR, DipInv, DipTypeOK, Configs
<1>. QED  BY <1>1, QuietInv DEF DI_COVER_CLEAR

LEMMA GameCommandInv == ASSUME DipInv, GameCommand PROVE DipInv'
<1>1. CASE DI_LOW_READ
  BY <1>1, ReadInv, HandleCmdInv DEF DI_LOW_READ
<1>2. CASE DI_REQERROR
  BY <1>2, QuietInv DEF DI_REQERROR, Answer, DipInv, DipTypeOK
<1>. QED  BY <1>1, <1>2, ResetInv, ReadIdInv, ReadInv, OffsetInv, ReportKeyInv, CoverClearInv
          DEF GameCommand

-----------------------------------------------------------------------------
LEMMA OffsetSetInv == ASSUME DipInv, DI_OFFSET_SET PROVE DipInv'
<1>1. CASE ~running
  <2>1. PICK offset \in 0 .. MaxOffset : /\ config' = [NoError EXCEPT !.base = offset]
                                         /\ answer' = "ok" /\ Kept
    BY <1>1 DEF DI_OFFSET_SET, Setter, Answer
  <2>2. config' \in Configs /\ config'.mode = config.mode /\ config'.type = config.type
    BY <2>1, NoErrorType DEF DipInv, Configs
  <2>. QED  BY <2>1, <2>2, QuietInv
<1>. QED  BY <1>1, HandleCmdInv DEF DI_OFFSET_SET, Setter

LEMMA CryptSetEffect ==
    ASSUME DipTypeOK, DI_CRYPT_SET
    PROVE  /\ config' \in Configs /\ answer' \in {"ok", "fail"} /\ Kept
           /\ config'.mode \cap EmulModes = config.mode \cap EmulModes
           /\ config'.type = config.type
<1>1. CASE ~running
  <2>1. PICK mode \in {config.mode \cup {"crypt"}, config.mode \ {"crypt"}} :
            /\ config' = [NoError EXCEPT !.mode = mode]
            /\ answer' = "ok" /\ Kept
    BY <1>1, NoErrorType DEF DI_CRYPT_SET, Setter, Answer, Configs
  <2>2. mode \subseteq Modes /\ mode \cap EmulModes = config.mode \cap EmulModes
    BY DEF DipTypeOK, Configs, Modes, EmulModes
  <2>3. config' \in Configs /\ config'.mode = mode /\ config'.type = config.type
    BY <2>1, <2>2, NoErrorType DEF Configs
  <2>. QED  BY <2>1, <2>2, <2>3
<1>. QED  BY <1>1, NoErrorType DEF DI_CRYPT_SET, Setter, DI_HandleCmd, Answer

LEMMA CryptSetInv == ASSUME DipInv, DI_CRYPT_SET PROVE DipInv'
  BY CryptSetEffect, QuietInv DEF DipInv

LEMMA ResetDisableInv == ASSUME DipInv, DI_RESET_DISABLE PROVE DipInv'
<1>1. CASE ~running
  <2>1. PICK value \in BOOLEAN : /\ config' = [NoError EXCEPT !.noreset = value]
                                 /\ answer' = "ok" /\ Kept
    BY <1>1 DEF DI_RESET_DISABLE, Setter, Answer
  <2>2. config' \in Configs /\ config'.mode = config.mode /\ config'.type = config.type
    BY <2>1, NoErrorType DEF DipInv, Configs
  <2>. QED  BY <2>1, <2>2, QuietInv
<1>. QED  BY <1>1, HandleCmdInv DEF DI_RESET_DISABLE, Setter

(* Changing one mode changes no other, and not the type. *)
LEMMA WithMode ==
    ASSUME DipTypeOK, NEW mode \in Modes
    PROVE  /\ With(mode) \in Configs /\ Without(mode) \in Configs
           /\ With(mode).type = config.type /\ Without(mode).type = config.type
           /\ With(mode).mode = config.mode \cup {mode}
           /\ Without(mode).mode = config.mode \ {mode}
  BY NoErrorType DEF With, Without, Configs, DipTypeOK

(* What WBFS_SET and FRAG_SET do: nothing while a title runs; no image; or *)
(* an image that is open and noted for a reload.                           *)
LEMMA WbfsSetEffect ==
    ASSUME DipTypeOK, DI_WBFS_SET
    PROVE  /\ DipTypeOK' /\ config'.type = config.type
           /\ UNCHANGED <<frag_dev, fraglist_data, running>>
           /\ \/ /\ config'.mode = config.mode /\ UNCHANGED wbfs
                 /\ UNCHANGED <<dipCfgState, identified>>
              \/ /\ config'.mode = config.mode \ {"wbfs"} /\ wbfs' = NoImage
                 /\ UNCHANGED dipCfgState /\ Swapped
              \/ /\ config'.mode = config.mode \cup {"wbfs"} /\ wbfs' \in Images
                 /\ dipCfgState'.mode = config'.mode /\ dipCfgState'.device \in Devices
                 /\ dipCfgState'.list = FALSE /\ Swapped
<1>0. "wbfs" \in Modes
  BY DEF Modes
<1>1. CASE running
  BY <1>1, NoErrorType DEF DI_WBFS_SET, Setter, DI_HandleCmd, Answer, Kept, DipTypeOK
<1>2. CASE ~running
  <2>1. /\ Swapped /\ UNCHANGED <<frag_dev, fraglist_data, running>>
        /\ \/ /\ config' = Without("wbfs") /\ answer' \in {"ok", "fail"}
              /\ WBFS_Close /\ UNCHANGED dipCfgState
           \/ \E device \in Devices, image \in Images :
                /\ config' = With("wbfs") /\ answer' = "ok"
                /\ WBFS_Open(image)
                /\ dipCfgState' = [mode |-> With("wbfs").mode, device |-> device, list |-> FALSE]
    BY <1>2 DEF DI_WBFS_SET, Setter, Answer
  <2>2. identified' \in Images \cup {NoImage, Unsure}
    BY <2>1 DEF Swapped, DipTypeOK
  <2>3. CASE /\ config' = Without("wbfs") /\ answer' \in {"ok", "fail"}
             /\ WBFS_Close /\ UNCHANGED dipCfgState
    BY <1>0, <2>1, <2>2, <2>3, WithMode DEF DipTypeOK, WBFS_Close
  <2>4. CASE \E device \in Devices, image \in Images :
                /\ config' = With("wbfs") /\ answer' = "ok"
                /\ WBFS_Open(image)
                /\ dipCfgState' = [mode |-> With("wbfs").mode, device |-> device, list |-> FALSE]
    <3>1. PICK device \in Devices, image \in Images :
                /\ config' = With("wbfs") /\ answer' = "ok"
                /\ wbfs' = image
                /\ dipCfgState' = [mode |-> With("wbfs").mode, device |-> device, list |-> FALSE]
      BY <2>4 DEF WBFS_Open
    <3>2. With("wbfs").mode \in SUBSET Modes
      BY <1>0, WithMode DEF Configs
    <3>. QED  BY <1>0, <2>1, <2>2, <3>1, <3>2, WithMode DEF DipTypeOK
  <2>. QED  BY <2>1, <2>3, <2>4
<1>. QED  BY <1>1, <1>2 DEF DipTypeOK

LEMMA FragSetEffect ==
    ASSUME DipTypeOK, DI_FRAG_SET
    PROVE  /\ DipTypeOK' /\ config'.type = config.type
           /\ UNCHANGED <<wbfs, running>>
           /\ \/ /\ config'.mode = config.mode /\ UNCHANGED <<frag_dev, fraglist_data>>
                 /\ UNCHANGED <<dipCfgState, identified>>
              \/ /\ config'.mode = config.mode \ {"frag"} /\ frag_dev' = 0 /\ UNCHANGED fraglist_data
                 /\ UNCHANGED dipCfgState /\ Swapped
              \/ /\ config'.mode = config.mode \cup {"frag"} /\ frag_dev' \in Devices /\ fraglist_data' \in Images
                 /\ dipCfgState'.mode = config'.mode /\ dipCfgState'.device \in Devices
                 /\ dipCfgState'.list = TRUE /\ Swapped
<1>0. "frag" \in Modes
  BY DEF Modes
<1>1. CASE running
  BY <1>1, NoErrorType DEF DI_FRAG_SET, Setter, DI_HandleCmd, Answer, Kept, DipTypeOK
<1>2. CASE ~running
  <2>1. /\ Swapped /\ UNCHANGED <<wbfs, running>>
        /\ \/ /\ config' = Without("frag") /\ answer' \in {"ok", "fail"}
              /\ Frag_Close /\ UNCHANGED dipCfgState
           \/ \E device \in Devices, image \in Images :
                /\ config' = With("frag") /\ answer' = "ok"
                /\ Frag_Init(device, image)
                /\ dipCfgState' = [mode |-> With("frag").mode, device |-> device, list |-> TRUE]
    BY <1>2 DEF DI_FRAG_SET, Setter, Answer
  <2>2. identified' \in Images \cup {NoImage, Unsure}
    BY <2>1 DEF Swapped, DipTypeOK
  <2>3. CASE /\ config' = Without("frag") /\ answer' \in {"ok", "fail"}
             /\ Frag_Close /\ UNCHANGED dipCfgState
    BY <1>0, <2>1, <2>2, <2>3, WithMode DEF DipTypeOK, Frag_Close
  <2>4. CASE \E device \in Devices, image \in Images :
                /\ config' = With("frag") /\ answer' = "ok"
                /\ Frag_Init(device, image)
                /\ dipCfgState' = [mode |-> With("frag").mode, device |-> device, list |-> TRUE]
    <3>1. PICK device \in Devices, image \in Images :
                /\ config' = With("frag") /\ answer' = "ok"
                /\ frag_dev' = device /\ fraglist_data' = image
                /\ dipCfgState' = [mode |-> With("frag").mode, device |-> device, list |-> TRUE]
      BY <2>4 DEF Frag_Init
    <3>2. With("frag").mode \in SUBSET Modes
      BY <1>0, WithMode DEF Configs
    <3>. QED  BY <1>0, <2>1, <2>2, <3>1, <3>2, WithMode DEF DipTypeOK
  <2>. QED  BY <2>1, <2>3, <2>4
<1>. QED  BY <1>1, <1>2 DEF DipTypeOK

(* Selecting an image makes an earlier identification unsure. *)
LEMMA SwappedInv ==
    ASSUME DipInv, Swapped \/ UNCHANGED identified, config'.type = config.type
    PROVE  TypeIsKnown'
  BY DipAssumption DEF DipInv, Swapped, TypeIsKnown

LEMMA WbfsSetInv == ASSUME DipInv, DI_WBFS_SET PROVE DipInv'
<1>1. ModeHasImage'
  BY WbfsSetEffect, DipAssumption DEF DipInv, ModeHasImage
<1>2. TypeIsKnown'
  BY WbfsSetEffect, SwappedInv DEF DipInv
<1>. QED  BY <1>1, <1>2, WbfsSetEffect DEF DipInv

LEMMA FragSetInv == ASSUME DipInv, DI_FRAG_SET PROVE DipInv'
<1>1. ModeHasImage'
  BY FragSetEffect, DipAssumption DEF DipInv, ModeHasImage
<1>2. TypeIsKnown'
  BY FragSetEffect, SwappedInv DEF DipInv
<1>. QED  BY <1>1, <1>2, FragSetEffect DEF DipInv

LEMMA DipNextInv == ASSUME DipInv, [DipNext]_dipVars PROVE DipInv'
<1>1. CASE SetRunningTitle
  BY <1>1 DEF SetRunningTitle, DipInv, DipTypeOK, ModeHasImage, TypeIsKnown
<1>2. CASE UNCHANGED dipVars
  BY <1>2 DEF dipVars, DipInv, DipTypeOK, ModeHasImage, TypeIsKnown
<1>. QED  BY <1>1, <1>2, GameCommandInv, OffsetSetInv, CryptSetInv, ResetDisableInv,
             WbfsSetInv, FragSetInv
          DEF DipNext, LoaderCommand

(***************************************************************************)
(* The inductive invariant of the drive's commands, with the types of the  *)
(* plugin's configuration.                                                 *)
(***************************************************************************)
THEOREM DriveInvariant == DipSpec => []DipInv
<1>1. DipInv /\ [DipNext]_dipVars => DipInv'
  BY DipNextInv
<1>. QED  BY DipInitInv, <1>1, PTL DEF DipSpec

(***************************************************************************)
(* A mode that is set has an image behind it, whatever WBFS_SET, FRAG_SET, *)
(* resets and identifications came before, in any order.                   *)
(***************************************************************************)
THEOREM ModesAreBacked == DipSpec => []ModeHasImage
<1>1. DipInv => ModeHasImage
  BY DEF DipInv
<1>. QED  BY <1>1, DriveInvariant, PTL

(***************************************************************************)
(* The type __DI_CheckDisc finds is that of the identified disc, and       *)
(* __DI_CheckOffset refuses no address the disc has, for all lengths and   *)
(* offsets for which the probed address lies in the second layer.          *)
(***************************************************************************)
THEOREM DiscsAreReachable == DipSpec => []DiscIsReachable
<1>1. DipInv => DiscIsReachable
  BY KnownIsReachable DEF DipInv
<1>. QED  BY <1>1, DriveInvariant, PTL

-----------------------------------------------------------------------------
(* What a step may not change while a title runs. *)
Undisturbed ==
    /\ config'.mode \cap EmulModes = config.mode \cap EmulModes
    /\ ReadFrom(config)' = ReadFrom(config)
    /\ dipCfgState' = dipCfgState
    /\ config.noreset => /\ config'.noreset
                         /\ config'.base = config.base
                         /\ ("crypt" \in config'.mode <=> "crypt" \in config.mode)

(* A read goes to the same image while the modes that emulate stay, and    *)
(* with them what is open.                                                 *)
LEMMA SameImage ==
    ASSUME config'.mode \cap EmulModes = config.mode \cap EmulModes,
           UNCHANGED <<frag_dev, fraglist_data, wbfs>>
    PROVE  ReadFrom(config)' = ReadFrom(config)
<1>1. /\ "frag" \in config'.mode <=> "frag" \in config.mode
      /\ "wbfs" \in config'.mode <=> "wbfs" \in config.mode
  BY DEF EmulModes
<1>. QED  BY <1>1 DEF ReadFrom

LEMMA SettledUndisturbed ==
    ASSUME config'.mode = config.mode, config'.noreset = config.noreset,
           config'.base = config.base, Kept
    PROVE  Undisturbed
  BY SameImage DEF Undisturbed, Kept

LEMMA HandleCmdUndisturbed == ASSUME DipTypeOK, DI_HandleCmd PROVE Undisturbed
  BY SettledUndisturbed, NoErrorType DEF DI_HandleCmd, Answer

LEMMA ReadUndisturbed == ASSUME DipTypeOK, DI_READ PROVE Undisturbed
<1>1. PICK at : config' = [NoError EXCEPT !.error = RangeError(NoError, at)] /\ Kept
  BY DEF DI_READ, Answer
<1>2. /\ config'.mode = config.mode /\ config'.noreset = config.noreset
      /\ config'.base = config.base
  BY <1>1, NoErrorType DEF Configs
<1>. QED  BY <1>1, <1>2, SettledUndisturbed

LEMMA GameCommandUndisturbed == ASSUME DipTypeOK, GameCommand PROVE Undisturbed
<1>1. CASE DI_RESET
  BY <1>1, ResetEffect, NoErrorType, SameImage DEF Undisturbed
<1>2. CASE DI_READID
  <2>1. /\ config'.mode \cap EmulModes = config.mode \cap EmulModes
        /\ "crypt" \in config'.mode <=> "crypt" \in config.mode
    BY <1>2, ReadIdEffect DEF EmulModes
  <2>. QED  BY <1>2, <2>1, ReadIdEffect, SameImage DEF Undisturbed
<1>3. CASE DI_LOW_READ
  BY <1>3, ReadUndisturbed, HandleCmdUndisturbed DEF DI_LOW_READ
<1>4. CASE DI_OFFSET
  <2>1. CASE NotOriginal(config)
    <3>1. PICK offset \in 0 .. MaxOffset : config' = [NoError EXCEPT !.drive = offset] /\ Kept
      BY <1>4, <2>1 DEF DI_OFFSET, Answer
    <3>. QED  BY <3>1, NoErrorType, SettledUndisturbed DEF Configs
  <2>. QED  BY <1>4, <2>1, HandleCmdUndisturbed DEF DI_OFFSET
<1>5. CASE DI_REPORT_KEY
  <2>1. CASE NotOriginal(config)
    BY <1>5, <2>1, SettledUndisturbed DEF DI_REPORT_KEY, Answer, DipTypeOK, Configs
  <2>. QED  BY <1>5, <2>1, HandleCmdUndisturbed DEF DI_REPORT_KEY
<1>6. CASE DI_REQERROR
  BY <1>6, SettledUndisturbed DEF DI_REQERROR, Answer
<1>7. CASE DI_COVER_CLEAR
  BY <1>7, SettledUndisturbed DEF DI_COVER_CLEAR, DipTypeOK, Configs
<1>. QED  BY <1>1, <1>2, <1>3, <1>4, <1>5, <1>6, <1>7, ReadUndisturbed DEF GameCommand

(***************************************************************************)
(* While a title runs, no command of the game's or of a loader's takes     *)
(* away its image, nor what was set up under a RESET_DISABLE.              *)
(***************************************************************************)
THEOREM TitlesKeepTheirDrive == DipSpec => TitleKeepsDrive
<1>1. ASSUME DipTypeOK, [DipNext]_dipVars, running
      PROVE  Undisturbed
  <2>1. CASE LoaderCommand
    BY <1>1, <2>1, HandleCmdUndisturbed
       DEF LoaderCommand, DI_OFFSET_SET, DI_CRYPT_SET, DI_RESET_DISABLE, DI_WBFS_SET,
           DI_FRAG_SET, Setter
  <2>2. CASE SetRunningTitle \/ UNCHANGED dipVars
    BY <2>2 DEF SetRunningTitle, dipVars, Undisturbed, ReadFrom
  <2>. QED  BY <1>1, <2>1, <2>2, GameCommandUndisturbed DEF DipNext
<1>2. DipInv /\ [DipNext]_dipVars => [running => Undisturbed]_dipVars
  BY <1>1 DEF DipInv
<1>. QED  BY <1>2, DriveInvariant, PTL DEF DipSpec, TitleKeepsDrive, Undisturbed

-----------------------------------------------------------------------------
(* The reload. *)

Contents ==
    [mode : SUBSET Modes, device : Devices \cup {0}, size : BOOLEAN, list : Images \cup {NoImage}]

EsConfigs == [fakelaunch : BOOLEAN, title : Images \cup {NoImage}]

Homes ==
    [image : Images \cup {NoImage}, folder : Folders \cup {NoFolder}, block : BOOLEAN,
     plain : BOOLEAN]

Holds(file, S) == file = NoFile \/ file = BadFile \/ \E c \in S : file = File(c)

SavingPcs == {"save_ffs", "save_dip", "save_es", "launch"}
BootPcs == {"es_boot", "dip_boot"}

TypeOK ==
    /\ DipTypeOK
    /\ es \in EsConfigs
    /\ current \in Images \cup {NoImage}
    /\ nand \in Folders \cup {NoFolder}
    /\ Holds(dipFile, Contents) /\ Holds(ffsFile, Folders) /\ Holds(espFile, EsConfigs)
    /\ pc \in {"up", "gone"} \cup SavingPcs \cup BootPcs
    /\ who \in {"loader", "game"}
    /\ home \in Homes
    /\ faulted \in BOOLEAN

(* What a restart leaves in memory. *)
Fresh ==
    /\ config = NoConfig
    /\ dipCfgState = [mode |-> {}, device |-> 0, list |-> FALSE]
    /\ frag_dev = 0 /\ fraglist_data = NoImage /\ wbfs = NoImage
    /\ current = NoImage /\ nand = NoFolder /\ running = FALSE

(* A loader finds no file once the cIOS is up, only a game reloads it, and *)
(* the block is what makes it do so.                                       *)
UserInv ==
    /\ pc = "up" /\ who = "loader" =>
          dipFile = NoFile /\ ffsFile = NoFile /\ espFile = NoFile /\ current = NoImage
    /\ pc \in SavingPcs => who = "game" /\ current # NoImage /\ es.fakelaunch /\ es.title = current
    /\ pc \in BootPcs => Fresh
    /\ pc = "dip_boot" => espFile = NoFile
    /\ who = "game" => home.image # NoImage
    /\ who = "loader" => ~home.block
    /\ es.title # NoImage => es.fakelaunch
    /\ espFile.kind = "file" => espFile.content.fakelaunch /\ espFile.content.title # NoImage

(* What is saved is at least what is emulated, and a pure list has a       *)
(* device.                                                                 *)
EmulationInv ==
    /\ config.mode \cap EmulModes \subseteq dipCfgState.mode
    /\ "frag" \in dipCfgState.mode /\ "wbfs" \notin dipCfgState.mode =>
          dipCfgState.list /\ dipCfgState.device # 0
    /\ (dipFile.kind = "file" /\ "frag" \in dipFile.content.mode
          /\ "wbfs" \notin dipFile.content.mode) =>
              dipFile.content.size /\ dipFile.content.device # 0

Own == {home.image, NoImage}

(* A game's lists and discs, in memory and in the file, are its own. *)
OwnInv ==
    who = "game" =>
        /\ "frag" \in config.mode => fraglist_data \in Own
        /\ "wbfs" \in config.mode /\ "frag" \notin config.mode => wbfs \in Own
        /\ dipFile.kind = "file" => dipFile.content.list \in Own

(* The image that a boot takes up from the file, if it can be opened. *)
Restored(c) ==
    IF "frag" \in c.mode THEN IF "wbfs" \notin c.mode THEN c.list ELSE NoImage
    ELSE IF "wbfs" \in c.mode THEN home.image
    ELSE Disc

(* The drive and the folder are in the files, as far as they are not the   *)
(* defaults.                                                               *)
DriveKept ==
    \/ dipFile = NoFile /\ home.image = Disc
    \/ \E c \in Contents :
         /\ dipFile = File(c)
         /\ Restored(c) \in Own
         /\ home.plain => Restored(c) = home.image /\ c.mode \in {{"wbfs"}, {"frag"}}

FolderKept == ffsFile = IF home.folder = NoFolder THEN NoFile ELSE File(home.folder)

(* A game whose reloads have all worked, at each step of the next one. *)
KeptInv ==
    who = "game" /\ ~faulted =>
        /\ pc \in {"up"} \cup SavingPcs =>
              /\ ReadFrom(config) \in Own /\ current \in Own
              /\ home.plain => Plain /\ ReadFrom(config) = home.image
        /\ pc = "up" =>
              /\ nand = home.folder
              /\ es.fakelaunch = home.block /\ es.title \in Own
              /\ running => es.title = NoImage /\ current # NoImage
              /\ dipFile = NoFile /\ ffsFile = NoFile /\ espFile = NoFile
        /\ pc \in SavingPcs \cup BootPcs => home.block
        /\ pc = "save_ffs" => nand = home.folder /\ ffsFile = NoFile
        /\ pc \in {"save_ffs", "save_dip"} => dipFile = NoFile
        /\ pc \in {"save_dip", "save_es", "launch"} \cup BootPcs => FolderKept
        /\ pc \in {"save_es", "launch"} \cup BootPcs => DriveKept
        /\ pc \in {"launch", "es_boot"} =>
              espFile = File([fakelaunch |-> TRUE, title |-> home.image])
        /\ pc = "dip_boot" => es = [fakelaunch |-> TRUE, title |-> home.image]

IInv == TypeOK /\ UserInv /\ EmulationInv /\ OwnInv /\ KeptInv

-----------------------------------------------------------------------------
(* What can be told of a file. *)
LEMMA FileFacts ==
    /\ NoFile.kind = "none" /\ BadFile.kind = "bad"
    /\ \A c : File(c).kind = "file" /\ File(c).content = c
  BY DEF NoFile, BadFile, File

LEMMA HoldsFacts ==
    ASSUME NEW S, NEW file, Holds(file, S), file.kind = "file"
    PROVE  file.content \in S /\ file = File(file.content)
  BY FileFacts DEF Holds

LEMMA ReloadInitInv == Init => IInv
<1> SUFFICES ASSUME Init PROVE IInv
  OBVIOUS
<1>1. DipTypeOK
  BY DipInitInv DEF Init, DipInv
<1>2. NoConfig.mode = {}
  BY DEF NoConfig
<1>3. TypeOK
  BY <1>1 DEF Init, TypeOK, EsConfigs, DefaultEs, Holds, Homes, NoHome, BootPcs
<1>4. UserInv
  BY FileFacts DEF Init, DipInit, UserInv, Fresh, DefaultEs, NoHome, SavingPcs
<1>5. EmulationInv
  BY <1>2, FileFacts DEF Init, DipInit, EmulationInv
<1>6. OwnInv /\ KeptInv
  BY DEF Init, OwnInv, KeptInv
<1>. QED  BY <1>3, <1>4, <1>5, <1>6 DEF IInv

(* Only DI_READID, DI_CRYPT_SET, DI_WBFS_SET and DI_FRAG_SET touch what a  *)
(* loader sets up.                                                         *)
LEMMA ConfigureInv == ASSUME IInv, Configure PROVE IInv'
<1>1. /\ pc = "up" /\ who = "loader" /\ UNCHANGED esVars
      /\ DipTypeOK
  BY DEF Configure, IInv, TypeOK
<1>2. DipTypeOK'
  <2>1. CASE DI_CRYPT_SET
    BY <1>1, <2>1, CryptSetEffect DEF DipTypeOK, Kept
  <2>. QED  BY <1>1, <2>1, ReadIdEffect, WbfsSetEffect, FragSetEffect DEF Configure
<1>3. TypeOK'
  BY <1>1, <1>2 DEF IInv, TypeOK, esVars
<1>4. UserInv'
  BY <1>1 DEF IInv, UserInv, esVars, SavingPcs, BootPcs
<1>5. /\ config'.mode \cap EmulModes \subseteq dipCfgState'.mode
      /\ "frag" \in dipCfgState'.mode /\ "wbfs" \notin dipCfgState'.mode =>
            dipCfgState'.list /\ dipCfgState'.device # 0
  <2>1. CASE DI_READID
    BY <1>1, <2>1, ReadIdEffect DEF IInv, EmulationInv, EmulModes
  <2>2. CASE DI_CRYPT_SET
    BY <1>1, <2>2, CryptSetEffect DEF IInv, EmulationInv, Kept
  <2>3. CASE DI_WBFS_SET
    BY <1>1, <2>3, WbfsSetEffect, DipAssumption DEF IInv, EmulationInv
  <2>4. CASE DI_FRAG_SET
    BY <1>1, <2>4, FragSetEffect, DipAssumption DEF IInv, EmulationInv
  <2>. QED  BY <2>1, <2>2, <2>3, <2>4 DEF Configure
<1>6. EmulationInv'
  BY <1>1, <1>5 DEF IInv, EmulationInv, esVars
<1>7. OwnInv' /\ KeptInv'
  BY <1>1 DEF OwnInv, KeptInv, esVars
<1>. QED  BY <1>3, <1>4, <1>6, <1>7 DEF IInv

LEMMA SetNandModeInv == ASSUME IInv, SetNandMode PROVE IInv'
<1> USE DEF SetNandMode, dipVars
<1>1. TypeOK'
  BY DEF IInv, TypeOK, DipTypeOK
<1>2. UserInv'
  BY DEF IInv, UserInv, SavingPcs, BootPcs
<1>3. EmulationInv'
  BY DEF IInv, EmulationInv
<1>4. OwnInv' /\ KeptInv'
  BY DEF OwnInv, KeptInv
<1>. QED  BY <1>1, <1>2, <1>3, <1>4 DEF IInv

LEMMA FakeLaunchInv == ASSUME IInv, SET_FAKE_IOS_LAUNCH PROVE IInv'
<1> USE DEF SET_FAKE_IOS_LAUNCH, dipVars, __ES_SetFakeIosLaunch
<1>1. TypeOK'
  BY DEF IInv, TypeOK, DipTypeOK, EsConfigs
<1>2. UserInv'
  BY DEF IInv, UserInv, SavingPcs, BootPcs
<1>3. EmulationInv'
  BY DEF IInv, EmulationInv
<1>4. OwnInv' /\ KeptInv'
  BY DEF OwnInv, KeptInv
<1>. QED  BY <1>1, <1>2, <1>3, <1>4 DEF IInv

LEMMA LeaveInv == ASSUME IInv, Leave PROVE IInv'
<1> USE DEF Leave, dipVars
<1>1. TypeOK'
  BY DEF IInv, TypeOK, DipTypeOK
<1>2. UserInv'
  BY DEF IInv, UserInv, SavingPcs, BootPcs
<1>3. EmulationInv'
  BY DEF IInv, EmulationInv
<1>4. OwnInv'
  BY DEF IInv, OwnInv, Own
<1>5. KeptInv'
  BY DEF KeptInv, SavingPcs, BootPcs
<1>. QED  BY <1>1, <1>2, <1>3, <1>4, <1>5 DEF IInv

LEMMA StutterInv == ASSUME IInv, UNCHANGED vars PROVE IInv'
<1> USE DEF vars, dipVars, esVars
<1>1. TypeOK'
  BY DEF IInv, TypeOK, DipTypeOK
<1>2. UserInv'
  BY DEF IInv, UserInv, Fresh
<1>3. EmulationInv'
  BY DEF IInv, EmulationInv
<1>4. OwnInv'
  BY DEF IInv, OwnInv, Own
<1>5. KeptInv'
  BY DEF IInv, KeptInv, Own, Plain, Emulated, ReadFrom, DriveKept, FolderKept, Restored
<1>. QED  BY <1>1, <1>2, <1>3, <1>4, <1>5 DEF IInv

LEMMA RestartInv ==
    ASSUME IInv, NEW user \in {"loader", "game"}, Restart(user), user = "game" => pc = "launch"
    PROVE  IInv'
<1>1. NoConfig \in Configs /\ NoConfig.mode = {}
  BY DipAssumption DEF NoConfig, Configs
<1>2. TypeOK'
  <2>1. DipTypeOK'
    BY <1>1 DEF Restart, DipTypeOK
  <2>2. es' \in EsConfigs
    BY DEF Restart, EsConfigs, DefaultEs
  <2>3. home' \in Homes
    BY DEF Restart, Homes, NoHome, IInv, TypeOK
  <2>. QED  BY <2>1, <2>2, <2>3 DEF IInv, TypeOK, Restart, BootPcs
<1>3. UserInv'
  BY DEF IInv, UserInv, Restart, SavingPcs, BootPcs, Fresh, DefaultEs, NoHome
<1>4. EmulationInv'
  BY <1>1 DEF IInv, EmulationInv, Restart
<1>5. OwnInv'
  BY <1>1 DEF IInv, OwnInv, UserInv, SavingPcs, Restart, Own
<1>6. KeptInv'
  <2> SUFFICES ASSUME who' = "game", ~faulted'
               PROVE  KeptInv'
    BY DEF KeptInv
  <2>1. /\ pc = "launch" /\ who = "game" /\ ~faulted /\ pc' = "es_boot"
        /\ UNCHANGED <<home, dipFile, ffsFile, espFile>>
    BY DEF Restart, IInv, UserInv, SavingPcs, TypeOK
  <2>2. /\ home.block /\ FolderKept /\ DriveKept
        /\ espFile = File([fakelaunch |-> TRUE, title |-> home.image])
    BY <2>1 DEF IInv, KeptInv, SavingPcs
  <2>3. FolderKept' /\ DriveKept'
    BY <2>1, <2>2 DEF FolderKept, DriveKept, Restored, Own
  <2>. QED  BY <2>1, <2>2, <2>3 DEF KeptInv, SavingPcs, BootPcs
<1>. QED  BY <1>2, <1>3, <1>4, <1>5, <1>6 DEF IInv

(* The disc that is verified is the game's own, or it becomes a game's. *)
LEMMA DiverifyInv == ASSUME IInv, DIVERIFY PROVE IInv'
<1> DEFINE title == ReadFrom(config)
<1>1. PICK ok \in BOOLEAN :
        /\ running' = ok
        /\ current' = IF ok THEN title ELSE current
        /\ who' = IF ok THEN "game" ELSE who
        /\ home' = IF ~ok \/ who = "game" THEN home
                   ELSE [image |-> title, folder |-> nand, block |-> es'.fakelaunch,
                         plain |-> Plain]
        /\ faulted' = (faulted \/ ~ok)
  BY DEF DIVERIFY
<1>2. /\ pc = "up" /\ title # NoImage /\ es' = __ES_RemoveError002(title)
      /\ UNCHANGED <<config, dipCfgState, frag_dev, fraglist_data, wbfs, answer, identified,
                     nand, dipFile, ffsFile, espFile, pc>>
  BY DEF DIVERIFY
<1>3. title \in Images
  BY <1>2, ReadFromType DEF IInv, TypeOK, DipTypeOK
<1>4. es' \in EsConfigs /\ es'.title \in {NoImage, es.title} /\ (es'.title # NoImage => es' = es)
  BY <1>2 DEF IInv, TypeOK, EsConfigs, __ES_RemoveError002
<1>5. es'.title = NoImage
  BY <1>2, <1>4 DEF IInv, UserInv, __ES_RemoveError002
<1> HIDE DEF title
<1>6. home' \in Homes
  <2>1. Plain \in BOOLEAN
    BY DEF Plain
  <2>2. nand \in Folders \cup {NoFolder} /\ home \in Homes
    BY DEF IInv, TypeOK
  <2>. QED  BY <1>1, <1>3, <1>4, <2>1, <2>2 DEF Homes, EsConfigs
<1>7. TypeOK'
  BY <1>1, <1>2, <1>3, <1>4, <1>6 DEF IInv, TypeOK, DipTypeOK
<1>8. UserInv'
  BY <1>1, <1>2, <1>3, <1>4, <1>5, DipAssumption DEF IInv, UserInv, SavingPcs, BootPcs, TypeOK
<1>9. EmulationInv'
  BY <1>2 DEF IInv, EmulationInv
<1>10. OwnInv'
  <2>1. CASE who = "game" \/ ~ok
    BY <1>1, <1>2, <2>1 DEF IInv, OwnInv, Own
  <2>2. CASE who # "game" /\ ok
    <3>1. home'.image = title /\ dipFile = NoFile
      BY <1>1, <1>2, <2>2 DEF IInv, UserInv, TypeOK
    <3>2. "frag" \in config.mode => fraglist_data = title
      BY <1>2 DEF title, ReadFrom
    <3>3. "wbfs" \in config.mode /\ "frag" \notin config.mode => wbfs = title
      BY <1>2 DEF title, ReadFrom
    <3>. QED  BY <1>2, <3>1, <3>2, <3>3, FileFacts DEF OwnInv, Own
  <2>. QED  BY <2>1, <2>2
<1>11. KeptInv'
  <2> SUFFICES ASSUME who' = "game", ~faulted'
               PROVE  KeptInv'
    BY DEF KeptInv
  <2>1. ok /\ ~faulted /\ pc' = "up" /\ current' = title /\ running'
    BY <1>1, <1>2
  <2>2. /\ ReadFrom(config)' = title /\ (Plain' <=> Plain)
    BY <1>2 DEF ReadFrom, Plain, Emulated, title
  <2>3. CASE who = "loader"
    <3>1. /\ home'.image = title /\ home'.folder = nand /\ home'.block = es'.fakelaunch
          /\ home'.plain = Plain
      BY <1>1, <2>1, <2>3
    <3>2. dipFile = NoFile /\ ffsFile = NoFile /\ espFile = NoFile
      BY <1>2, <2>3 DEF IInv, UserInv
    <3>. QED  BY <1>2, <1>5, <2>1, <2>2, <3>1, <3>2 DEF KeptInv, Own, SavingPcs, BootPcs
  <2>4. CASE who = "game"
    <3>1. home' = home
      BY <1>1, <2>4
    <3>2. /\ title \in Own /\ (home.plain => Plain)
          /\ nand = home.folder /\ es.fakelaunch = home.block /\ es.title \in Own
          /\ dipFile = NoFile /\ ffsFile = NoFile /\ espFile = NoFile
      BY <1>2, <2>1, <2>4 DEF IInv, KeptInv, title
    <3>3. title = home.image
      BY <1>2, <3>2 DEF Own
    <3>4. es'.fakelaunch = home.block
      BY <1>2, <3>2, <3>3 DEF __ES_RemoveError002, Own, IInv, TypeOK, EsConfigs
    <3>. QED  BY <1>2, <1>5, <2>1, <2>2, <3>1, <3>2, <3>3, <3>4 DEF KeptInv, Own, SavingPcs, BootPcs
  <2>. QED  BY <2>3, <2>4 DEF IInv, TypeOK
<1>. QED  BY <1>7, <1>8, <1>9, <1>10, <1>11 DEF IInv

(* A reset keeps the emulation. *)
LEMMA GameResetInv == ASSUME IInv, GameReset PROVE IInv'
<1>1. pc = "up" /\ who = "game" /\ UNCHANGED esVars /\ DI_RESET /\ DipTypeOK
  BY DEF GameReset, IInv, TypeOK
<1>2. /\ DipTypeOK'
      /\ config'.mode \in {config.mode, config.mode \cap EmulModes}
      /\ config'.mode \cap EmulModes = config.mode \cap EmulModes
      /\ UNCHANGED <<dipCfgState, frag_dev, fraglist_data, wbfs, running>>
  BY <1>1, ResetEffect, NoErrorType
<1>3. /\ "frag" \in config'.mode <=> "frag" \in config.mode
      /\ "wbfs" \in config'.mode <=> "wbfs" \in config.mode
      /\ Emulated(config)' <=> Emulated(config)
  BY <1>2 DEF EmulModes, Emulated
<1>4. TypeOK'
  BY <1>1, <1>2 DEF IInv, TypeOK, esVars
<1>5. UserInv'
  BY <1>1 DEF IInv, UserInv, esVars, SavingPcs, BootPcs
<1>6. EmulationInv'
  BY <1>1, <1>2 DEF IInv, EmulationInv, esVars
<1>7. OwnInv'
  BY <1>1, <1>2, <1>3 DEF IInv, OwnInv, Own, esVars
<1>8. KeptInv'
  <2>1. ReadFrom(config)' = ReadFrom(config)
    BY <1>2, <1>3 DEF ReadFrom
  <2>2. Plain => Plain'
    <3>1. CASE config.mode \in {{"wbfs"}, {"frag"}}
      <4>1. config'.mode = config.mode
        BY <1>2, <3>1 DEF EmulModes
      <4>. QED  BY <1>2, <1>3, <4>1 DEF Plain
    <3>. QED  BY <1>3, <3>1 DEF Plain
  <2>. QED  BY <1>1, <1>2, <2>1, <2>2 DEF IInv, KeptInv, Own, esVars, SavingPcs, BootPcs
<1>. QED  BY <1>4, <1>5, <1>6, <1>7, <1>8 DEF IInv

LEMMA LaunchMenuInv == ASSUME IInv, LaunchMenu PROVE IInv'
<1>1. /\ pc = "up" /\ pc' \in {"up", "gone"} /\ nand' = NoFolder
      /\ pc' = "up" => faulted'
      /\ faulted' \in BOOLEAN
      /\ UNCHANGED <<dipVars, es, current, dipFile, ffsFile, espFile, who, home>>
  BY DEF LaunchMenu, IInv, TypeOK
<1>2. TypeOK'
  BY <1>1 DEF IInv, TypeOK, DipTypeOK, dipVars
<1>3. UserInv'
  BY <1>1 DEF IInv, UserInv, SavingPcs, BootPcs
<1>4. EmulationInv' /\ OwnInv'
  BY <1>1 DEF IInv, EmulationInv, OwnInv, Own, dipVars
<1>5. KeptInv'
  BY <1>1 DEF KeptInv, SavingPcs, BootPcs
<1>. QED  BY <1>2, <1>3, <1>4, <1>5 DEF IInv

(* The launch of an IOS starts the reload of a game under the block. *)
LEMMA LaunchInv == ASSUME IInv, ES_LAUNCH PROVE IInv'
<1>1. /\ pc = "up" /\ pc' = "save_ffs"
      /\ es.fakelaunch /\ es.title = NoImage /\ current # NoImage
      /\ es' = [es EXCEPT !.title = current]
      /\ UNCHANGED <<dipVars, current, nand, dipFile, ffsFile, espFile, who, home, faulted>>
  BY DEF ES_LAUNCH, Blocked
<1>2. es' \in EsConfigs /\ es'.fakelaunch /\ es'.title = current
  BY <1>1 DEF IInv, TypeOK, EsConfigs
<1>3. who = "game"
  BY <1>1 DEF IInv, TypeOK, UserInv
<1>4. TypeOK'
  BY <1>1, <1>2 DEF IInv, TypeOK, DipTypeOK, dipVars, SavingPcs
<1>5. UserInv'
  BY <1>1, <1>2, <1>3 DEF IInv, UserInv, SavingPcs, BootPcs
<1>6. EmulationInv' /\ OwnInv'
  BY <1>1 DEF IInv, EmulationInv, OwnInv, Own, dipVars
<1>7. KeptInv'
  <2>1. UNCHANGED <<ReadFrom(config), Plain>>
    BY <1>1 DEF dipVars, ReadFrom, Plain, Emulated
  <2>. QED  BY <1>1, <1>2, <1>3, <2>1 DEF IInv, KeptInv, Own, dipVars, SavingPcs, BootPcs
<1>. QED  BY <1>4, <1>5, <1>6, <1>7 DEF IInv

(* A file that is written keeps its type; without a fault it holds what    *)
(* was written.                                                            *)
LEMMA WritesFacts ==
    ASSUME NEW S, NEW content \in S, NEW file, NEW file1, NEW f \in BOOLEAN, NEW f1,
           Holds(file, S),
           \/ file1 = File(content) /\ f1 = f
           \/ file1 \in {file, BadFile} /\ f1 = TRUE
    PROVE  /\ Holds(file1, S) /\ f1 \in BOOLEAN /\ (f => f1)
           /\ ~f1 => file1 = File(content)
           /\ file1 \in {file, BadFile, File(content)}
  BY DEF Holds

(* A step of a launch: who it is for and what is in memory stay. *)
LEMMA SavingFrame ==
    ASSUME IInv, pc \in SavingPcs, pc' \in SavingPcs,
           UNCHANGED <<dipVars, es, current, who, home>>
    PROVE  /\ who = "game"
           /\ DipTypeOK'
           /\ UNCHANGED <<ReadFrom(config), Plain>>
           /\ es.title = current /\ es.fakelaunch
<1>1. who = "game" /\ es.title = current /\ es.fakelaunch
  BY DEF IInv, UserInv
<1>2. DipTypeOK'
  BY DEF IInv, TypeOK, DipTypeOK, dipVars
<1>3. UNCHANGED <<ReadFrom(config), Plain>>
  BY DEF dipVars, ReadFrom, Plain, Emulated
<1>. QED  BY <1>1, <1>2, <1>3

LEMMA SaveFfsInv == ASSUME IInv, SaveFfs PROVE IInv'
<1>1. /\ pc = "save_ffs" /\ pc' \in {"save_dip", "save_es"}
      /\ UNCHANGED <<dipVars, es, current, dipFile, espFile, who, home>>
      /\ pc \in SavingPcs /\ pc' \in SavingPcs
  BY DEF SaveFfs, SavingPcs
<1>2. /\ Holds(ffsFile, Folders)' /\ nand' \in Folders \cup {NoFolder} /\ faulted' \in BOOLEAN
      /\ ~faulted' => /\ ~faulted /\ pc' = "save_dip"
                      /\ \/ nand = NoFolder /\ UNCHANGED ffsFile
                         \/ nand # NoFolder /\ ffsFile' = File(nand)
  <2>0. /\ Holds(ffsFile, Folders) /\ nand \in Folders \cup {NoFolder} /\ faulted \in BOOLEAN
    BY DEF IInv, TypeOK
  <2>1. CASE nand = NoFolder /\ pc' = "save_dip" /\ UNCHANGED <<nand, ffsFile, faulted>>
    BY <2>0, <2>1
  <2>2. CASE /\ nand # NoFolder
             /\ nand' = NoFolder
             /\ Writes(ffsFile, nand)
             /\ pc' = IF ffsFile' = File(nand) /\ faulted' = faulted THEN "save_dip" ELSE "save_es"
    <3>1. /\ Holds(ffsFile', Folders) /\ faulted' \in BOOLEAN /\ (faulted => faulted')
          /\ ~faulted' => ffsFile' = File(nand)
      BY <2>0, <2>2, WritesFacts DEF Writes
    <3>. QED  BY <2>0, <2>2, <3>1 DEF Holds
  <2>3. CASE pc' = "save_es" /\ faulted' = TRUE /\ UNCHANGED <<nand, ffsFile>>
    BY <2>0, <2>3
  <2>. QED  BY <2>1, <2>2, <2>3 DEF SaveFfs
<1>3. TypeOK'
  BY <1>1, <1>2, SavingFrame DEF IInv, TypeOK
<1>4. UserInv'
  BY <1>1 DEF IInv, UserInv, SavingPcs, BootPcs
<1>5. EmulationInv' /\ OwnInv'
  BY <1>1 DEF IInv, EmulationInv, OwnInv, Own, dipVars
<1>6. KeptInv'
  <2> SUFFICES ASSUME who' = "game", ~faulted'
               PROVE  KeptInv'
    BY DEF KeptInv
  <2>1. /\ pc' = "save_dip" /\ who = "game" /\ ~faulted /\ home' = home
        /\ current' = current /\ dipFile' = dipFile
    BY <1>1, <1>2
  <2>2. /\ nand = home.folder /\ ffsFile = NoFile /\ dipFile = NoFile /\ home.block
        /\ ReadFrom(config) \in Own /\ current \in Own
        /\ home.plain => Plain /\ ReadFrom(config) = home.image
    BY <1>1, <2>1 DEF IInv, KeptInv
  <2>3. FolderKept'
    BY <1>2, <2>1, <2>2 DEF FolderKept
  <2>4. UNCHANGED <<ReadFrom(config), Plain>>
    BY <1>1, SavingFrame
  <2>. QED  BY <2>1, <2>2, <2>3, <2>4 DEF KeptInv, Own, SavingPcs, BootPcs
<1>. QED  BY <1>3, <1>4, <1>5, <1>6 DEF IInv

(* What a game's configuration is saved as can be taken up again. *)
LEMMA SavedDrive ==
    ASSUME IInv, pc \in SavingPcs, Emulated(config)
    PROVE  LET c == DI_Config_Save
           IN  /\ c \in Contents /\ c.list \in Own
               /\ "frag" \in c.mode /\ "wbfs" \notin c.mode => c.size /\ c.device # 0
               /\ ~faulted => /\ Restored(c) \in Own
                              /\ home.plain => /\ Restored(c) = home.image
                                               /\ c.mode \in {{"wbfs"}, {"frag"}}
<1> DEFINE c == DI_Config_Save
<1>1. /\ c.mode = dipCfgState.mode /\ c.device = dipCfgState.device /\ c.size = dipCfgState.list
      /\ c.list = IF dipCfgState.mode = {"frag"} THEN fraglist_data ELSE NoImage
  BY DEF DI_Config_Save
<1>2. c \in Contents
  BY DEF IInv, TypeOK, DipTypeOK, DI_Config_Save, Contents
<1>3. who = "game" /\ home.image # NoImage
  BY DEF IInv, UserInv
<1>4. /\ "frag" \in config.mode => "frag" \in dipCfgState.mode
      /\ "wbfs" \in config.mode => "wbfs" \in dipCfgState.mode
      /\ "frag" \in config.mode \/ "wbfs" \in config.mode
  BY DEF IInv, EmulationInv, Emulated, EmulModes
<1>5. dipCfgState.mode = {"frag"} => "frag" \in config.mode
  BY <1>4
<1>6. c.list \in Own
  BY <1>1, <1>3, <1>5 DEF IInv, OwnInv, Own
<1>7. "frag" \in c.mode /\ "wbfs" \notin c.mode => c.size /\ c.device # 0
  BY <1>1 DEF IInv, EmulationInv
<1> HIDE DEF c
<1>8. Restored(c) \in Own
  BY <1>1, <1>4, <1>6 DEF Restored, Own
<1>9. ASSUME ~faulted, home.plain
      PROVE  Restored(c) = home.image /\ c.mode \in {{"wbfs"}, {"frag"}}
  <2>1. Plain /\ ReadFrom(config) = home.image
    BY <1>3, <1>9 DEF IInv, KeptInv
  <2>2. config.mode = dipCfgState.mode /\ config.mode \in {{"wbfs"}, {"frag"}}
    BY <2>1 DEF Plain
  <2>3. CASE config.mode = {"frag"}
    <3>1. fraglist_data = home.image
      BY <1>3, <2>1, <2>3 DEF ReadFrom
    <3>. QED  BY <1>1, <2>2, <2>3, <3>1 DEF Restored
  <2>4. CASE config.mode = {"wbfs"}
    BY <1>1, <2>2, <2>4 DEF Restored
  <2>. QED  BY <2>2, <2>3, <2>4
<1>. QED  BY <1>2, <1>6, <1>7, <1>8, <1>9 DEF c

LEMMA SaveDipInv == ASSUME IInv, SaveDip PROVE IInv'
<1>1. /\ pc = "save_dip" /\ pc' = "save_es"
      /\ UNCHANGED <<dipVars, es, current, nand, ffsFile, espFile, who, home>>
      /\ pc \in SavingPcs /\ pc' \in SavingPcs
  BY DEF SaveDip, SavingPcs
<1> DEFINE c == DI_Config_Save
<1>2. CASE ~Emulated(config)
  <2>1. UNCHANGED <<dipFile, faulted>>
    BY <1>2 DEF SaveDip
  <2>2. TypeOK'
    BY <1>1, <2>1, SavingFrame DEF IInv, TypeOK
  <2>3. UserInv'
    BY <1>1 DEF IInv, UserInv, SavingPcs, BootPcs
  <2>4. EmulationInv' /\ OwnInv'
    BY <1>1, <2>1 DEF IInv, EmulationInv, OwnInv, Own, dipVars
  <2>5. KeptInv'
    <3> SUFFICES ASSUME who' = "game", ~faulted'
                 PROVE  KeptInv'
      BY DEF KeptInv
    <3>1. /\ dipFile = NoFile /\ home.block /\ FolderKept
          /\ ReadFrom(config) \in Own /\ current \in Own
          /\ home.plain => Plain /\ ReadFrom(config) = home.image
      BY <1>1, <2>1 DEF IInv, KeptInv
    <3>2. ReadFrom(config) = Disc
      BY <1>2 DEF Emulated, EmulModes, ReadFrom
    <3>3. home.image = Disc
      BY <3>1, <3>2, DipAssumption DEF Own
    <3>4. DriveKept' /\ FolderKept'
      BY <1>1, <2>1, <3>1, <3>3 DEF DriveKept, FolderKept
    <3>. QED  BY <1>1, <3>1, <3>4, SavingFrame DEF KeptInv, Own, SavingPcs, BootPcs
  <2>. QED  BY <2>2, <2>3, <2>4, <2>5 DEF IInv
<1>3. CASE Emulated(config)
  <2>1. /\ c \in Contents /\ c.list \in Own
        /\ "frag" \in c.mode /\ "wbfs" \notin c.mode => c.size /\ c.device # 0
        /\ ~faulted => /\ Restored(c) \in Own
                       /\ home.plain => /\ Restored(c) = home.image
                                        /\ c.mode \in {{"wbfs"}, {"frag"}}
    BY <1>1, <1>3, SavedDrive
  <2> HIDE DEF c
  <2>2. /\ Holds(dipFile', Contents) /\ faulted' \in BOOLEAN /\ (faulted => faulted')
        /\ ~faulted' => dipFile' = File(c)
        /\ dipFile' \in {dipFile, BadFile, File(c)}
    <3>1. Holds(dipFile, Contents) /\ faulted \in BOOLEAN
      BY DEF IInv, TypeOK
    <3>2. Writes(dipFile, c)
      BY <1>3 DEF SaveDip, c
    <3>. QED  BY <2>1, <3>1, <3>2, WritesFacts DEF Writes
  <2>3. TypeOK'
    BY <1>1, <2>2, SavingFrame DEF IInv, TypeOK, Holds
  <2>4. UserInv'
    BY <1>1 DEF IInv, UserInv, SavingPcs, BootPcs
  <2>5. EmulationInv'
    BY <1>1, <2>1, <2>2, FileFacts DEF IInv, EmulationInv, dipVars
  <2>6. OwnInv'
    BY <1>1, <2>1, <2>2, FileFacts DEF IInv, OwnInv, Own, dipVars
  <2>7. KeptInv'
    <3> SUFFICES ASSUME who' = "game", ~faulted'
                 PROVE  KeptInv'
      BY DEF KeptInv
    <3>0. ~faulted
      BY <2>2
    <3>1. /\ home.block /\ FolderKept
          /\ ReadFrom(config) \in Own /\ current \in Own
          /\ home.plain => Plain /\ ReadFrom(config) = home.image
      BY <1>1, <3>0 DEF IInv, KeptInv
    <3>2. DriveKept'
      BY <1>1, <2>1, <2>2, <3>0 DEF DriveKept, Restored, Own
    <3>3. FolderKept'
      BY <1>1, <3>1 DEF FolderKept
    <3>. QED  BY <1>1, <3>1, <3>2, <3>3, SavingFrame DEF KeptInv, Own, SavingPcs, BootPcs
  <2>. QED  BY <2>3, <2>4, <2>5, <2>6, <2>7 DEF IInv
<1>. QED  BY <1>2, <1>3

LEMMA SaveEsInv == ASSUME IInv, SaveEs PROVE IInv'
<1>1. /\ pc = "save_es" /\ pc' = "launch"
      /\ UNCHANGED <<dipVars, es, current, nand, dipFile, ffsFile, who, home>>
      /\ pc \in SavingPcs /\ pc' \in SavingPcs
  BY DEF SaveEs, SavingPcs
<1>2. /\ Holds(espFile', EsConfigs) /\ faulted' \in BOOLEAN /\ (faulted => faulted')
      /\ ~faulted' => espFile' = File(es)
      /\ espFile' \in {espFile, BadFile, File(es)}
  <2>1. Holds(espFile, EsConfigs) /\ faulted \in BOOLEAN /\ es \in EsConfigs
    BY DEF IInv, TypeOK
  <2>. QED  BY <2>1, WritesFacts DEF SaveEs, Writes
<1>3. es.fakelaunch /\ es.title = current /\ current # NoImage
  BY <1>1 DEF IInv, UserInv
<1>4. TypeOK'
  BY <1>1, <1>2, SavingFrame DEF IInv, TypeOK, Holds
<1>5. UserInv'
  BY <1>1, <1>2, <1>3, FileFacts DEF IInv, UserInv, SavingPcs, BootPcs
<1>6. EmulationInv' /\ OwnInv'
  BY <1>1 DEF IInv, EmulationInv, OwnInv, Own, dipVars
<1>7. KeptInv'
  <2> SUFFICES ASSUME who' = "game", ~faulted'
               PROVE  KeptInv'
    BY DEF KeptInv
  <2>0. ~faulted
    BY <1>2
  <2>1. /\ home.block /\ FolderKept /\ DriveKept
        /\ ReadFrom(config) \in Own /\ current \in Own
        /\ home.plain => Plain /\ ReadFrom(config) = home.image
    BY <1>1, <2>0 DEF IInv, KeptInv
  <2>2. es = [fakelaunch |-> TRUE, title |-> home.image]
    BY <1>3, <2>1 DEF Own, IInv, TypeOK, EsConfigs
  <2>3. DriveKept' /\ FolderKept'
    BY <1>1, <2>1 DEF DriveKept, FolderKept, Restored, Own
  <2>. QED  BY <1>1, <1>2, <2>1, <2>2, <2>3, SavingFrame DEF KeptInv, Own, SavingPcs, BootPcs
<1>. QED  BY <1>4, <1>5, <1>6, <1>7 DEF IInv

LEMMA LaunchFailsInv == ASSUME IInv, LaunchFails PROVE IInv'
<1>1. /\ pc = "launch" /\ pc' = "up" /\ faulted' /\ faulted' \in BOOLEAN /\ who = "game"
      /\ UNCHANGED <<dipVars, es, current, nand, dipFile, ffsFile, espFile, who, home>>
  BY DEF LaunchFails, IInv, UserInv, SavingPcs
<1>2. TypeOK'
  BY <1>1 DEF IInv, TypeOK, DipTypeOK, dipVars
<1>3. UserInv'
  BY <1>1 DEF IInv, UserInv, SavingPcs, BootPcs
<1>4. EmulationInv' /\ OwnInv'
  BY <1>1 DEF IInv, EmulationInv, OwnInv, Own, dipVars
<1>5. KeptInv'
  BY <1>1 DEF KeptInv
<1>. QED  BY <1>2, <1>3, <1>4, <1>5 DEF IInv

LEMMA BootEsInv == ASSUME IInv, BootEs PROVE IInv'
<1> DEFINE loaded == IF espFile.kind = "file" THEN espFile.content ELSE DefaultEs
<1>1. /\ pc = "es_boot" /\ pc' = "dip_boot" /\ espFile' = NoFile
      /\ es' = IF loaded.title = NoImage THEN __ES_SetFakeIosLaunch(TRUE) ELSE loaded
      /\ UNCHANGED <<dipVars, current, nand, dipFile, ffsFile, who, home, faulted>>
  BY DEF BootEs, Consumed
<1>2. loaded \in EsConfigs /\ (loaded.title # NoImage => loaded.fakelaunch)
  <2>1. DefaultEs \in EsConfigs /\ DefaultEs.title = NoImage
    BY DEF DefaultEs, EsConfigs
  <2>2. CASE espFile.kind = "file"
    BY <2>2, HoldsFacts DEF IInv, TypeOK, UserInv
  <2>. QED  BY <2>1, <2>2
<1> HIDE DEF loaded
<1>3. es' \in EsConfigs /\ (es'.title # NoImage => es'.fakelaunch)
  BY <1>1, <1>2 DEF __ES_SetFakeIosLaunch, EsConfigs
<1>4. TypeOK'
  <2>1. Holds(espFile', EsConfigs)
    BY <1>1 DEF Holds
  <2>2. Holds(dipFile', Contents) /\ Holds(ffsFile', Folders)
    BY <1>1 DEF IInv, TypeOK
  <2>3. DipTypeOK'
    BY <1>1 DEF IInv, TypeOK, DipTypeOK, dipVars
  <2>4. /\ current' \in Images \cup {NoImage} /\ nand' \in Folders \cup {NoFolder}
        /\ pc' \in {"up", "gone"} \cup SavingPcs \cup BootPcs /\ who' \in {"loader", "game"}
        /\ home' \in Homes /\ faulted' \in BOOLEAN
    BY <1>1 DEF IInv, TypeOK, BootPcs
  <2>. QED  BY <1>3, <2>1, <2>2, <2>3, <2>4 DEF TypeOK
<1>5. UserInv'
  BY <1>1, <1>3, FileFacts DEF IInv, UserInv, Fresh, SavingPcs, BootPcs, dipVars
<1>6. EmulationInv' /\ OwnInv'
  BY <1>1 DEF IInv, EmulationInv, OwnInv, Own, dipVars
<1>7. KeptInv'
  <2> SUFFICES ASSUME who' = "game", ~faulted'
               PROVE  KeptInv'
    BY DEF KeptInv
  <2>1. /\ home.block /\ FolderKept /\ DriveKept
        /\ espFile = File([fakelaunch |-> TRUE, title |-> home.image])
    BY <1>1 DEF IInv, KeptInv, BootPcs
  <2>2. home.image # NoImage
    BY <1>1 DEF IInv, UserInv
  <2>3. loaded = [fakelaunch |-> TRUE, title |-> home.image]
    BY <2>1, FileFacts DEF loaded
  <2>4. es' = [fakelaunch |-> TRUE, title |-> home.image]
    BY <1>1, <2>2, <2>3
  <2>5. DriveKept' /\ FolderKept'
    BY <1>1, <2>1 DEF DriveKept, FolderKept, Restored, Own
  <2>. QED  BY <1>1, <2>1, <2>4, <2>5 DEF KeptInv, SavingPcs, BootPcs
<1>. QED  BY <1>4, <1>5, <1>6, <1>7 DEF IInv

(* The plugins take up what the files hold. *)
LEMMA BootDipInv == ASSUME IInv, __DI_InitDriveEmulation PROVE IInv'
<1>1. PICK opens \in BOOLEAN, switches \in BOOLEAN :
         /\ IF dipFile.kind = "file" THEN RestoreDrive(dipFile.content, opens)
            ELSE UNCHANGED <<config, dipCfgState, frag_dev, fraglist_data, wbfs>>
         /\ nand' = IF ffsFile.kind = "file" /\ switches THEN ffsFile.content ELSE NoFolder
         /\ faulted' = (faulted \/ ~opens \/ ~switches)
  BY DEF __DI_InitDriveEmulation
<1>2. /\ pc = "dip_boot" /\ pc' = "up" /\ dipFile' = NoFile /\ ffsFile' = NoFile
      /\ UNCHANGED <<running, answer, identified, es, current, espFile, who, home>>
  BY DEF __DI_InitDriveEmulation, Consumed
<1>3. Fresh /\ espFile = NoFile
  BY <1>2 DEF IInv, UserInv, BootPcs
<1>4. NoConfig \in Configs /\ NoConfig.mode = {}
  BY DipAssumption DEF NoConfig, Configs
<1> DEFINE c == dipFile.content
<1>5. /\ DipTypeOK' /\ EmulationInv' /\ OwnInv'
      /\ who = "game" /\ ~faulted /\ opens =>
            /\ ReadFrom(config)' \in Own
            /\ home.plain => Plain' /\ ReadFrom(config)' = home.image
  <2>1. CASE dipFile.kind = "file"
    <3>1. /\ c \in Contents
          /\ "frag" \in c.mode /\ "wbfs" \notin c.mode => c.size /\ c.device # 0
          /\ who = "game" => c.list \in Own
      BY <2>1, HoldsFacts DEF IInv, TypeOK, EmulationInv, OwnInv
    <3> HIDE DEF c
    <3>2. /\ config' = [NoConfig EXCEPT !.mode = c.mode]
          /\ dipCfgState' = [mode |-> c.mode, device |-> c.device, list |-> c.size]
          /\ fraglist_data' = c.list
          /\ wbfs' = IF "wbfs" \in c.mode /\ opens THEN home.image ELSE NoImage
          /\ frag_dev' = IF "frag" \in c.mode /\ "wbfs" \notin c.mode /\ c.size /\ opens
                         THEN c.device ELSE 0
      BY <1>1, <2>1 DEF RestoreDrive, c
    <3>3. config' \in Configs /\ config'.mode = c.mode
      BY <1>4, <3>1, <3>2 DEF Configs, Contents
    <3>4. DipTypeOK'
      BY <1>2, <3>1, <3>2, <3>3 DEF IInv, TypeOK, DipTypeOK, Contents, Homes
    <3>5. EmulationInv'
      BY <1>2, <3>1, <3>2, <3>3, FileFacts DEF EmulationInv
    <3>6. OwnInv'
      BY <1>2, <3>1, <3>2, <3>3, FileFacts DEF OwnInv, Own
    <3>7. opens => ReadFrom(config)' = Restored(c)
      BY <3>1, <3>2, <3>3 DEF ReadFrom, Restored, Contents
    <3>8. ASSUME who = "game", ~faulted, opens
          PROVE  /\ ReadFrom(config)' \in Own
                 /\ home.plain => Plain' /\ ReadFrom(config)' = home.image
      <4>1. dipFile = File(c) /\ DriveKept
        BY <1>2, <2>1, <3>8, HoldsFacts DEF IInv, KeptInv, TypeOK, BootPcs, c
      <4>2. /\ Restored(c) \in Own
            /\ home.plain => Restored(c) = home.image /\ c.mode \in {{"wbfs"}, {"frag"}}
        BY <4>1, FileFacts DEF DriveKept
      <4>3. home.plain => Plain'
        BY <3>2, <3>3, <4>2 DEF Plain
      <4>. QED  BY <3>7, <3>8, <4>2, <4>3
    <3>. QED  BY <3>4, <3>5, <3>6, <3>8
  <2>2. CASE dipFile.kind # "file"
    <3>1. /\ config' = NoConfig /\ UNCHANGED <<dipCfgState, frag_dev, fraglist_data, wbfs>>
      BY <1>1, <1>3, <2>2 DEF Fresh
    <3>2. DipTypeOK'
      BY <1>2, <1>4, <3>1 DEF IInv, TypeOK, DipTypeOK
    <3>3. EmulationInv' /\ OwnInv'
      BY <1>2, <1>4, <3>1, FileFacts DEF IInv, EmulationInv, OwnInv
    <3>4. ReadFrom(config)' = Disc /\ Plain'
      BY <1>4, <3>1 DEF ReadFrom, Plain, Emulated
    <3>5. ASSUME who = "game", ~faulted
          PROVE  home.image = Disc
      BY <1>2, <2>2, <3>5, FileFacts DEF IInv, KeptInv, BootPcs, DriveKept
    <3>. QED  BY <3>2, <3>3, <3>4, <3>5 DEF Own
  <2>. QED  BY <2>1, <2>2
<1>6. nand' \in Folders \cup {NoFolder} /\ faulted' \in BOOLEAN
  BY <1>1, HoldsFacts DEF IInv, TypeOK
<1>7. TypeOK'
  BY <1>2, <1>5, <1>6 DEF IInv, TypeOK, Holds
<1>8. UserInv'
  BY <1>2, <1>3 DEF IInv, UserInv, Fresh, SavingPcs, BootPcs
<1>9. KeptInv'
  <2> SUFFICES ASSUME who' = "game", ~faulted'
               PROVE  KeptInv'
    BY DEF KeptInv
  <2>1. who = "game" /\ ~faulted /\ opens /\ switches
    BY <1>1, <1>2
  <2>2. home.block /\ FolderKept /\ es = [fakelaunch |-> TRUE, title |-> home.image]
    BY <1>2, <2>1 DEF IInv, KeptInv, BootPcs
  <2>3. nand' = home.folder
    BY <1>1, <2>1, <2>2, FileFacts DEF FolderKept
  <2>4. es.fakelaunch = home.block /\ es.title = home.image
    BY <2>2 DEF IInv, TypeOK, Homes
  <2>5. ~running
    BY <1>3 DEF Fresh
  <2>. QED  BY <1>2, <1>3, <1>5, <2>1, <2>3, <2>4, <2>5 DEF KeptInv, Own, SavingPcs, BootPcs, Fresh
<1>. QED  BY <1>5, <1>7, <1>8, <1>9 DEF IInv

LEMMA ReloadNextInv == ASSUME IInv, [Next]_vars PROVE IInv'
<1>1. CASE __ES_CustomLaunch
  BY <1>1, RestartInv DEF __ES_CustomLaunch
<1>2. CASE PowerOn
  BY <1>2, RestartInv DEF PowerOn
<1>3. CASE LaunchOther \/ PowerOff
  BY <1>3, LeaveInv DEF LaunchOther, PowerOff
<1>. QED  BY <1>1, <1>2, <1>3, ConfigureInv, SetNandModeInv, FakeLaunchInv, DiverifyInv,
             GameResetInv, LaunchMenuInv, LaunchInv, SaveFfsInv, SaveDipInv, SaveEsInv,
             LaunchFailsInv, BootEsInv, BootDipInv, StutterInv
          DEF Next

(***************************************************************************)
(* The inductive invariant of the reload: what memory and the three files  *)
(* hold of a game at each step of a launch and of a boot, with or without  *)
(* a fault.                                                                *)
(***************************************************************************)
THEOREM ReloadInvariant == Spec => []IInv
<1>1. IInv /\ [Next]_vars => IInv'
  BY ReloadNextInv
<1>. QED  BY ReloadInitInv, <1>1, PTL DEF Spec

(***************************************************************************)
(* Whatever fails, and however the drive was configured, a game that goes  *)
(* on after a reload reads its own image, none, or the disc in the drive.  *)
(***************************************************************************)
THEOREM NeverAnother == Spec => []NeverAnotherImage
<1>1. IInv => NeverAnotherImage
  BY DEF IInv, OwnInv, Own, NeverAnotherImage, ReadFrom
<1>. QED  BY <1>1, ReloadInvariant, PTL

(***************************************************************************)
(* Without a fault a game keeps, over any number of reloads, its image (of *)
(* a selection a reload can save), its NAND folder and the reload block,   *)
(* and the block is in force whenever its title runs.                      *)
(***************************************************************************)
THEOREM GamesKeepTheirSetup == Spec => []GameKeepsSetup
<1>1. IInv => GameKeepsSetup
  BY DEF IInv, TypeOK, UserInv, KeptInv, GameKeepsSetup, Blocked
<1>. QED  BY <1>1, ReloadInvariant, PTL
=============================================================================
