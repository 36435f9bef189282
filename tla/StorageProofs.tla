--------------------------- MODULE StorageProofs ----------------------------
(***************************************************************************)
(* Proofs about SdCard, for any number of modules that share the card, any *)
(* cards, sectors, page size and word width, any number of attempts and of *)
(* inserted cards; about UsbModule, for any disks, clients, pieces, parts  *)
(* and attempts; about NandEmu, for any volume, paths and sizes, and as    *)
(* many descriptors as the file-system plugin's table has room for; about  *)
(* FragRead, for any fragment lists, reads and sizes; and about Wbfs, for  *)
(* any partitions, discs, tables of blocks and sizes.                      *)
(***************************************************************************)
EXTENDS SdCard, UsbModule, NandEmu, FragRead, Wbfs, InductionLemmas

SdSpec(limit) == SdInit /\ [][SdNext(limit)]_sdVars

-----------------------------------------------------------------------------
(* The SD card. *)

Drivers ==
    [fd : BOOLEAN, rca : Nat, sd0_initialized : BOOLEAN, sdhc : BOOLEAN,
     sdio_initialized : BOOLEAN]

StartPcs ==
    {"reset", "reopen", "host", "identify", "fail", "bus", "select", "length", "width", "keep",
     "drop"}

MovePcs == {"try", "command", "moved", "failed"}

SdCalls ==
    [pc : {"idle", "undo"} \cup StartPcs \cup MovePcs, sector : Nat, arg : Nat, tries : Nat,
     sent : Nat, at : SUBSET Nat, result : BOOLEAN]

SdTypeOK ==
    /\ card \in Cards \cup {NoCard}
    /\ slot \in [ready : BOOLEAN, rca : Nat, selected : BOOLEAN]
    /\ sd \in [Modules -> Drivers]
    /\ call \in [Modules -> SdCalls]
    /\ handles \in [Modules -> {0, 1}]
    /\ dipfd \in BOOLEAN /\ inserts \in Nat
    /\ sdhome \in [Modules -> Cards \cup {NoCard}]

(* A driver that is not starting has its descriptor exactly if it is       *)
(* started; while it starts it has one, until it gives up.                 *)
DescriptorOK(driver, c, handle) ==
    /\ handle = IF driver.fd THEN 1 ELSE 0
    /\ c.pc \in StartPcs => driver.fd /\ ~driver.sdio_initialized
    /\ c.pc = "undo" => ~driver.sdio_initialized
    /\ c.pc \in MovePcs \cup {"idle"} => (driver.fd <=> driver.sdio_initialized)

(* The card a module identified is in the slot, and the module knows its   *)
(* kind, except while it starts again.                                     *)
HomeOK(driver, c, home) ==
    home # NoCard => /\ home = card
                     /\ (driver.sdhc <=> card \in HighCap)
                     /\ c.pc \notin {"reopen", "host", "identify"}

(* What a call of a high-capacity card has done so far. *)
SectorCall(c) ==
    /\ c.pc \in MovePcs => c.arg = c.sector /\ c.at \subseteq {c.sector}
    /\ c.pc = "moved" \/ c.result => c.at = {c.sector}

(* And of another card, until its first command is over. *)
ByteCall(c) ==
    /\ c.pc = "try" /\ c.sent = 0 => c.arg = c.sector /\ c.at = {}
    /\ c.pc = "command" /\ c.sent = 0 => c.arg = (c.sector * PageSize) % Wrap /\ c.at = {}
    /\ c.pc \in {"moved", "failed"} => c.sent > 0
    /\ (c.pc = "moved" \/ c.result) /\ c.sent = 1 /\ c.sector * PageSize < Wrap
         => c.at = {c.sector}

CallOK(c, home) ==
    /\ c.result => c.pc = "idle"
    /\ home # NoCard /\ card \in HighCap => SectorCall(c)
    /\ home # NoCard /\ card \notin HighCap => ByteCall(c)

ModuleOK(m) ==
    /\ DescriptorOK(sd[m], call[m], handles[m])
    /\ HomeOK(sd[m], call[m], sdhome[m])
    /\ CallOK(call[m], sdhome[m])

SdInv == SdTypeOK /\ \A m \in Modules : ModuleOK(m)

LEMMA SdInitInv == SdInit => SdInv
<1> SUFFICES ASSUME SdInit PROVE SdInv
  OBVIOUS
<1>1. NoCall \in SdCalls /\ NoCall.pc = "idle" /\ NoCall.result = FALSE /\ NoCall.at = {}
  BY DEF NoCall, SdCalls, StartPcs, MovePcs
<1>2. NoDriver \in Drivers /\ NoDriver.fd = FALSE /\ NoDriver.sdio_initialized = FALSE
  BY DEF NoDriver, Drivers
<1>3. SdTypeOK
  BY <1>1, <1>2, SdAssumption DEF SdInit, SdTypeOK, NoSlot
<1>4. \A m \in Modules : ModuleOK(m)
  BY <1>1, <1>2 DEF SdInit, ModuleOK, DescriptorOK, HomeOK, CallOK, StartPcs, MovePcs
<1>5. QED
  BY <1>3, <1>4 DEF SdInv

(* What calls begin and end with. *)
LEMMA BeginEffect ==
    ASSUME SdTypeOK, NEW m \in Modules, NEW where \in StartPcs \cup MovePcs, NEW s \in Nat,
           Begin(m, where, s)
    PROVE  /\ call[m].pc = "idle"
           /\ call' \in [Modules -> SdCalls]
           /\ \A n \in Modules \ {m} : call'[n] = call[n]
           /\ call'[m].pc = where /\ call'[m].sector = s /\ call'[m].arg = s
           /\ call'[m].sent = 0 /\ call'[m].at = {} /\ ~call'[m].result
<1>1. PICK k : k = NoCall
  OBVIOUS
<1>2. k \in SdCalls /\ k.sent = 0 /\ k.at = {} /\ k.result = FALSE
  BY <1>1 DEF NoCall, SdCalls, StartPcs, MovePcs
<1>3. PICK j : j = [k EXCEPT !.pc = where, !.sector = s, !.arg = s]
  OBVIOUS
<1>4. /\ j \in SdCalls /\ j.sent = 0 /\ j.at = {} /\ j.result = FALSE
      /\ j.pc = where /\ j.sector = s /\ j.arg = s
  BY <1>2, <1>3 DEF SdCalls
<1>5. call[m].pc = "idle" /\ call' = [call EXCEPT ![m] = j]
  BY <1>1, <1>3 DEF Begin
<1>6. QED
  BY <1>4, <1>5 DEF SdTypeOK

LEMMA ReturnEffect ==
    ASSUME SdTypeOK, NEW m \in Modules, Return(m)
    PROVE  /\ call' \in [Modules -> SdCalls]
           /\ \A n \in Modules \ {m} : call'[n] = call[n]
           /\ call'[m].pc = "idle" /\ call'[m].sent = 0 /\ ~call'[m].result
<1>1. PICK k : k = NoCall
  OBVIOUS
<1>2. k \in SdCalls /\ k.pc = "idle" /\ k.sent = 0 /\ k.result = FALSE
  BY <1>1 DEF NoCall, SdCalls, StartPcs, MovePcs
<1>3. call' = [call EXCEPT ![m] = k]
  BY <1>1 DEF Return
<1>4. QED
  BY <1>2, <1>3 DEF SdTypeOK

LEMMA GotoEffect ==
    ASSUME SdTypeOK, NEW m \in Modules, NEW where \in {"undo"} \cup StartPcs \cup MovePcs,
           Goto(m, where)
    PROVE  /\ call' \in [Modules -> SdCalls]
           /\ \A n \in Modules \ {m} : call'[n] = call[n]
           /\ call'[m].pc = where /\ call'[m].result = call[m].result
           /\ call'[m].sector = call[m].sector /\ call'[m].arg = call[m].arg
           /\ call'[m].sent = call[m].sent /\ call'[m].at = call[m].at
BY DEF SdTypeOK, Goto, SdCalls

LEMMA DeinitializeEffect ==
    ASSUME SdTypeOK, NEW m \in Modules, NEW driver \in Drivers, driver.fd => handles[m] = 1,
           sdio_Deinitialize(m, driver)
    PROVE  /\ sd' \in [Modules -> Drivers] /\ handles' \in [Modules -> {0, 1}]
           /\ \A n \in Modules \ {m} : sd'[n] = sd[n] /\ handles'[n] = handles[n]
           /\ ~sd'[m].fd /\ ~sd'[m].sdio_initialized /\ sd'[m].sdhc = driver.sdhc
           /\ handles'[m] = IF driver.fd THEN 0 ELSE handles[m]
<1>1. PICK d : d = [driver EXCEPT !.fd = FALSE, !.sdio_initialized = FALSE]
  OBVIOUS
<1>2. d \in Drivers /\ d.fd = FALSE /\ d.sdio_initialized = FALSE /\ d.sdhc = driver.sdhc
  BY <1>1 DEF Drivers
<1>3. sd' = [sd EXCEPT ![m] = d]
  BY <1>1 DEF sdio_Deinitialize
<1>4. PICK h \in {0, 1} : h = IF driver.fd THEN 0 ELSE handles[m]
  BY DEF SdTypeOK
<1>5. handles' = [handles EXCEPT ![m] = IF driver.fd THEN handles[m] - 1 ELSE handles[m]]
  BY DEF sdio_Deinitialize
<1>6. (IF driver.fd THEN handles[m] - 1 ELSE handles[m]) = h
  BY <1>4
<1>7. handles' = [handles EXCEPT ![m] = h]
  BY <1>5, <1>6
<1>8. QED
  BY <1>2, <1>3, <1>4, <1>7 DEF SdTypeOK

(* A step of module m leaves the others alone. *)
OnlyModule(m) ==
    /\ card' = card
    /\ \A n \in Modules \ {m} :
         sd'[n] = sd[n] /\ call'[n] = call[n] /\ handles'[n] = handles[n] /\ sdhome'[n] = sdhome[n]

LEMMA StepOfOne ==
    ASSUME SdInv, NEW m \in Modules, SdTypeOK', OnlyModule(m), ModuleOK(m)'
    PROVE  SdInv'
<1>1. ASSUME NEW n \in Modules \ {m} PROVE ModuleOK(n)'
  BY <1>1 DEF SdInv, OnlyModule, ModuleOK, DescriptorOK, HomeOK, CallOK
<1>2. QED
  BY <1>1 DEF SdInv

(* The driver of module m is closed and its call over. *)
CallEnds(m) ==
    /\ call' \in [Modules -> SdCalls] /\ sd' \in [Modules -> Drivers]
    /\ handles' \in [Modules -> {0, 1}]
    /\ \A n \in Modules \ {m} :
         call'[n] = call[n] /\ sd'[n] = sd[n] /\ handles'[n] = handles[n]
    /\ call'[m].pc = "idle" /\ call'[m].sent = 0 /\ ~call'[m].result
    /\ ~sd'[m].fd /\ ~sd'[m].sdio_initialized

SlotStates == [ready : BOOLEAN, rca : Nat, selected : BOOLEAN]

LEMMA EndedInv ==
    ASSUME SdInv, NEW m \in Modules, CallEnds(m), sd'[m].sdhc = sd[m].sdhc, handles'[m] = 0,
           UNCHANGED <<card, inserts, sdhome>>, slot' \in SlotStates, dipfd' \in BOOLEAN
    PROVE  SdInv'
<1>1. SdTypeOK' /\ OnlyModule(m)
  BY DEF SdInv, SdTypeOK, CallEnds, OnlyModule, SlotStates
<1>2. ModuleOK(m)
  BY DEF SdInv
<1>3. ModuleOK(m)'
  BY <1>2 DEF ModuleOK, CallEnds, DescriptorOK, HomeOK, CallOK, SectorCall, ByteCall, StartPcs, MovePcs
<1>4. QED
  BY <1>1, <1>3, StepOfOne

LEMMA StartupInv ==
    ASSUME SdInv, NEW m \in Modules, sdio_Startup(m), dipfd' \in BOOLEAN
    PROVE  SdInv'
<1>0. SdTypeOK /\ ModuleOK(m)
  BY DEF SdInv
<1>1. CASE sd[m].sdio_initialized /\ Return(m) /\ UNCHANGED <<sd, handles>>
  <2>1. SdTypeOK' /\ OnlyModule(m) /\ ModuleOK(m)'
    BY <1>0, <1>1, ReturnEffect DEF sdio_Startup, SdTypeOK, OnlyModule, ModuleOK, DescriptorOK,
       HomeOK, CallOK, SectorCall, ByteCall, StartPcs, MovePcs
  <2>2. QED
    BY <2>1, StepOfOne
<1>2. CASE /\ ~sd[m].sdio_initialized /\ Begin(m, "reset", 0)
           /\ sd' = [sd EXCEPT ![m].fd = TRUE] /\ handles' = [handles EXCEPT ![m] = @ + 1]
  <2>1. /\ call[m].pc = "idle" /\ call' \in [Modules -> SdCalls]
        /\ \A n \in Modules \ {m} : call'[n] = call[n]
        /\ call'[m].pc = "reset" /\ ~call'[m].result
    BY <1>0, <1>2, BeginEffect DEF StartPcs
  <2>2. handles[m] = 0 /\ ~sd[m].fd
    BY <1>0, <1>2, <2>1 DEF ModuleOK, DescriptorOK, MovePcs, SdTypeOK, Drivers
  <2>3. handles' \in [Modules -> {0, 1}] /\ handles'[m] = 1
    BY <1>0, <1>2, <2>2 DEF SdTypeOK
  <2>4. /\ sd' \in [Modules -> Drivers] /\ sd'[m].fd /\ sd'[m].sdhc = sd[m].sdhc
        /\ ~sd'[m].sdio_initialized
    <3>1. PICK x \in Drivers : x = sd[m]
      BY <1>0 DEF SdTypeOK
    <3>2. PICK d : d = [x EXCEPT !.fd = TRUE]
      OBVIOUS
    <3>3. d \in Drivers
      BY <3>2 DEF Drivers
    <3>4. d.fd /\ d.sdhc = x.sdhc /\ d.sdio_initialized = x.sdio_initialized
      BY <3>2 DEF Drivers
    <3>5. sd' = [sd EXCEPT ![m] = d]
      BY <1>0, <1>2, <3>1, <3>2 DEF SdTypeOK
    <3>6. sd' \in [Modules -> Drivers] /\ sd'[m] = d
      BY <1>0, <3>3, <3>5 DEF SdTypeOK
    <3>7. QED
      BY <1>2, <3>1, <3>4, <3>6
  <2>5. SdTypeOK' /\ OnlyModule(m)
    BY <1>0, <1>2, <2>1, <2>3, <2>4 DEF sdio_Startup, SdTypeOK, OnlyModule
  <2>6. ModuleOK(m)'
    BY <1>0, <2>1, <2>3, <2>4 DEF sdio_Startup, ModuleOK, DescriptorOK, HomeOK, CallOK, SectorCall,
       ByteCall, StartPcs, MovePcs
  <2>7. QED
    BY <2>5, <2>6, StepOfOne
<1>3. CASE /\ ~sd[m].sdio_initialized /\ call[m].pc = "idle" /\ Return(m)
           /\ sdio_Deinitialize(m, [sd[m] EXCEPT !.fd = FALSE])
  <2>1. PICK d : d = [sd[m] EXCEPT !.fd = FALSE]
    OBVIOUS
  <2>2. d \in Drivers /\ d.fd = FALSE /\ d.sdhc = sd[m].sdhc /\ sdio_Deinitialize(m, d)
    <3>1. PICK x \in Drivers : x = sd[m]
      BY <1>0 DEF SdTypeOK
    <3>2. d = [x EXCEPT !.fd = FALSE]
      BY <2>1, <3>1
    <3>3. d \in Drivers /\ d.fd = FALSE /\ d.sdhc = x.sdhc
      BY <3>2 DEF Drivers
    <3>4. sdio_Deinitialize(m, d)
      BY <1>3, <2>1
    <3>5. QED
      BY <3>1, <3>3, <3>4
  <2>3. CallEnds(m) /\ sd'[m].sdhc = sd[m].sdhc /\ handles'[m] = handles[m]
    BY <1>0, <1>3, <2>2, ReturnEffect, DeinitializeEffect DEF CallEnds
  <2>4. ~sd[m].fd
    BY <1>0, <1>3 DEF ModuleOK, DescriptorOK, MovePcs
  <2>5. handles'[m] = 0
    BY <1>0, <2>3, <2>4 DEF ModuleOK, DescriptorOK
  <2>6. QED
    BY <1>0, <2>3, <2>5, EndedInv DEF sdio_Startup, SdTypeOK, SlotStates
<1>4. QED
  BY <1>1, <1>2, <1>3 DEF sdio_Startup

(* A start that fails, and a shutdown: the driver d is m's but for fields  *)
(* that do not matter here.                                                *)
LEMMA ClosesInv ==
    ASSUME SdInv, NEW m \in Modules, NEW d \in Drivers, d.fd <=> sd[m].fd, d.sdhc = sd[m].sdhc,
           Return(m), sdio_Deinitialize(m, d),
           UNCHANGED <<card, inserts, sdhome>>, slot' \in SlotStates, dipfd' \in BOOLEAN
    PROVE  SdInv'
<1>0. SdTypeOK /\ ModuleOK(m)
  BY DEF SdInv
<1>1. handles[m] = IF d.fd THEN 1 ELSE 0
  BY <1>0 DEF ModuleOK, DescriptorOK
<1>2. CallEnds(m) /\ sd'[m].sdhc = sd[m].sdhc /\ handles'[m] = 0
  BY <1>0, <1>1, ReturnEffect, DeinitializeEffect DEF CallEnds
<1>3. QED
  BY <1>2, EndedInv

LEMMA ShutdownInv ==
    ASSUME SdInv, NEW m \in Modules, sdio_Shutdown(m), dipfd' \in BOOLEAN
    PROVE  SdInv'
<1>0. SdTypeOK /\ ModuleOK(m) /\ slot' \in SlotStates
  BY DEF SdInv, sdio_Shutdown, SdTypeOK, SlotStates
<1>1. CASE sd[m].sd0_initialized
  <2>1. PICK d : d = [sd[m] EXCEPT !.sd0_initialized = FALSE]
    OBVIOUS
  <2>2. d \in Drivers /\ d.fd = sd[m].fd /\ d.sdhc = sd[m].sdhc
    <3>1. PICK x \in Drivers : x = sd[m]
      BY <1>0 DEF SdTypeOK
    <3>2. d = [x EXCEPT !.sd0_initialized = FALSE]
      BY <2>1, <3>1
    <3>3. d \in Drivers /\ d.fd = x.fd /\ d.sdhc = x.sdhc
      BY <3>2 DEF Drivers
    <3>4. QED
      BY <3>1, <3>3
  <2>3. Return(m) /\ sdio_Deinitialize(m, d) /\ UNCHANGED <<card, inserts, sdhome>>
    BY <1>1, <2>1 DEF sdio_Shutdown
  <2>4. QED
    BY <1>0, <2>2, <2>3, ClosesInv
<1>2. CASE ~sd[m].sd0_initialized
  <2>1. /\ call[m].pc = "idle" /\ Return(m)
        /\ UNCHANGED <<card, slot, inserts, sdhome, sd, handles>>
    BY <1>2 DEF sdio_Shutdown
  <2>2. SdTypeOK' /\ OnlyModule(m) /\ ModuleOK(m)'
    BY <1>0, <2>1, ReturnEffect DEF SdTypeOK, OnlyModule, ModuleOK, DescriptorOK,
       HomeOK, CallOK, SectorCall, ByteCall, StartPcs, MovePcs
  <2>3. QED
    BY <2>2, StepOfOne
<1>3. QED
  BY <1>1, <1>2

(* The card was identified. *)
LEMMA IdentifiedInv ==
    ASSUME SdInv, NEW m \in Modules, call[m].pc \in {"reset", "identify"},
           slot' \in {[ready |-> TRUE, rca |-> r, selected |-> FALSE] : r \in Rcas},
           sd' = [sd EXCEPT ![m].rca = slot'.rca, ![m].sdhc = card \in HighCap],
           sdhome' = [sdhome EXCEPT ![m] = card], Goto(m, "bus"),
           UNCHANGED <<card, handles, inserts>>, dipfd' \in BOOLEAN
    PROVE  SdInv'
<1>0. SdTypeOK /\ ModuleOK(m)
  BY DEF SdInv
<1>1. slot' \in SlotStates
  <2>1. PICK r \in Rcas : slot' = [ready |-> TRUE, rca |-> r, selected |-> FALSE]
    OBVIOUS
  <2>2. QED
    BY <2>1, SdAssumption DEF SlotStates
<1>2. /\ sd' \in [Modules -> Drivers]
      /\ \A n \in Modules \ {m} : sd'[n] = sd[n]
      /\ sd'[m].fd = sd[m].fd /\ sd'[m].sdio_initialized = sd[m].sdio_initialized
      /\ sd'[m].sdhc <=> card \in HighCap
  <2>1. slot'.rca \in Nat
    BY <1>1 DEF SlotStates
  <2>2. PICK r \in Nat : r = slot'.rca
    BY <2>1
  <2>3. PICK b \in BOOLEAN : b <=> card \in HighCap
    OBVIOUS
  <2>4. PICK d : d = [sd[m] EXCEPT !.rca = r, !.sdhc = b]
    OBVIOUS
  <2>5. /\ d \in Drivers /\ d.fd = sd[m].fd /\ d.sdio_initialized = sd[m].sdio_initialized
        /\ d.sdhc = b
    <3>1. PICK x \in Drivers : x = sd[m]
      BY <1>0 DEF SdTypeOK
    <3>2. d = [x EXCEPT !.rca = r, !.sdhc = b]
      BY <2>4, <3>1
    <3>3. d \in Drivers
      BY <3>2 DEF Drivers
    <3>4. d.fd = x.fd /\ d.sdio_initialized = x.sdio_initialized /\ d.sdhc = b
      BY <3>2 DEF Drivers
    <3>5. QED
      BY <3>1, <3>3, <3>4
  <2>6. sd' = [sd EXCEPT ![m] = d]
    <3>1. b = (card \in HighCap)
      BY <2>3
    <3>2. sd' = [sd EXCEPT ![m].rca = r, ![m].sdhc = b]
      BY <2>2, <3>1
    <3>3. m \in DOMAIN sd
      BY <1>0 DEF SdTypeOK
    <3>4. [sd EXCEPT ![m].rca = r, ![m].sdhc = b] = [sd EXCEPT ![m] = d]
      BY <2>4, <3>3
    <3>5. QED
      BY <3>2, <3>4
  <2>7. sd' \in [Modules -> Drivers] /\ sd'[m] = d /\ \A n \in Modules \ {m} : sd'[n] = sd[n]
    <3>1. PICK f \in [Modules -> Drivers] : f = sd
      BY <1>0 DEF SdTypeOK
    <3>2. PICK g : g = [f EXCEPT ![m] = d]
      OBVIOUS
    <3>3. d \in Drivers
      BY <2>5
    <3>4. g \in [Modules -> Drivers]
      BY <3>2, <3>3
    <3>5. g[m] = d /\ \A n \in Modules \ {m} : g[n] = f[n]
      BY <3>2
    <3>6. sd' = g
      BY <2>6, <3>1, <3>2
    <3>7. QED
      BY <3>1, <3>4, <3>5, <3>6
  <2>8. QED
    BY <2>3, <2>5, <2>7
<1>3. /\ call' \in [Modules -> SdCalls] /\ \A n \in Modules \ {m} : call'[n] = call[n]
      /\ call'[m].pc = "bus" /\ call'[m].result = call[m].result
  BY <1>0, GotoEffect DEF StartPcs
<1>4. /\ sdhome' \in [Modules -> Cards \cup {NoCard}] /\ sdhome'[m] = card
      /\ \A n \in Modules \ {m} : sdhome'[n] = sdhome[n]
  BY <1>0 DEF SdTypeOK
<1>5. SdTypeOK' /\ OnlyModule(m)
  BY <1>0, <1>1, <1>2, <1>3, <1>4 DEF SdTypeOK, OnlyModule, SlotStates
<1>6. sd[m].fd /\ ~sd[m].sdio_initialized /\ ~call[m].result /\ handles[m] = 1
  BY <1>0 DEF ModuleOK, DescriptorOK, CallOK, StartPcs
<1>7. ModuleOK(m)'
  BY <1>2, <1>3, <1>4, <1>6 DEF ModuleOK, DescriptorOK, HomeOK, CallOK, SectorCall, ByteCall,
     StartPcs, MovePcs
<1>8. QED
  BY <1>5, <1>7, StepOfOne

(* A start goes on. *)
LEMMA GoesOnInv ==
    ASSUME SdInv, NEW m \in Modules, call[m].pc \in StartPcs,
           NEW where \in {"select", "length", "width", "keep", "drop"}, Goto(m, where),
           UNCHANGED <<card, inserts, sdhome, sd, handles>>, slot' \in SlotStates, dipfd' \in BOOLEAN
    PROVE  SdInv'
<1>0. SdTypeOK /\ ModuleOK(m)
  BY DEF SdInv
<1>1. /\ call' \in [Modules -> SdCalls] /\ \A n \in Modules \ {m} : call'[n] = call[n]
      /\ call'[m].pc = where /\ call'[m].result = call[m].result
  BY <1>0, GotoEffect DEF StartPcs
<1>2. SdTypeOK' /\ OnlyModule(m)
  BY <1>0, <1>1 DEF SdTypeOK, OnlyModule, SlotStates
<1>3. sd[m].fd /\ ~sd[m].sdio_initialized /\ ~call[m].result
  BY <1>0 DEF ModuleOK, DescriptorOK, CallOK, StartPcs
<1>4. ModuleOK(m)'
  BY <1>0, <1>1, <1>3 DEF ModuleOK, DescriptorOK, HomeOK, CallOK, SectorCall, ByteCall,
     StartPcs, MovePcs
<1>5. QED
  BY <1>2, <1>4, StepOfOne

(* The kind of the card is guessed or asked for, or the slot opened again, *)
(* while the module knows no card.                                         *)
LEMMA UnknownInv ==
    ASSUME SdInv, NEW m \in Modules, sd' \in [Modules -> Drivers],
           handles' \in [Modules -> {0, 1}],
           \A n \in Modules \ {m} : sd'[n] = sd[n] /\ handles'[n] = handles[n],
           NEW where \in {"reopen", "host", "identify", "fail", "undo"}, Goto(m, where),
           call[m].pc \in StartPcs,
           ~sd'[m].sdio_initialized, sd'[m].fd \/ where = "undo",
           handles'[m] = IF sd'[m].fd THEN 1 ELSE 0,
           sdhome' \in [Modules -> Cards \cup {NoCard}],
           \A n \in Modules \ {m} : sdhome'[n] = sdhome[n],
           sdhome'[m] = NoCard \/ (sd'[m].sdhc = sd[m].sdhc /\ sdhome'[m] = sdhome[m]
                                   /\ where \in {"fail", "undo"}),
           UNCHANGED <<card, inserts>>, slot' \in SlotStates, dipfd' \in BOOLEAN
    PROVE  SdInv'
<1>0. SdTypeOK /\ ModuleOK(m)
  BY DEF SdInv
<1>1. /\ call' \in [Modules -> SdCalls] /\ \A n \in Modules \ {m} : call'[n] = call[n]
      /\ call'[m].pc = where /\ call'[m].result = call[m].result
  BY <1>0, GotoEffect DEF StartPcs
<1>2. SdTypeOK' /\ OnlyModule(m)
  BY <1>0, <1>1 DEF SdTypeOK, OnlyModule, SlotStates
<1>3. ~call[m].result
  BY <1>0 DEF ModuleOK, CallOK, StartPcs
<1>4. ModuleOK(m)'
  BY <1>0, <1>1, <1>3 DEF ModuleOK, DescriptorOK, HomeOK, CallOK, SectorCall, ByteCall,
     StartPcs, MovePcs
<1>5. QED
  BY <1>2, <1>4, StepOfOne

LEMMA NoSlotType == NoSlot \in SlotStates
BY DEF NoSlot, SlotStates

LEMMA ResetcardInv ==
    ASSUME SdInv, NEW m \in Modules, __sdio_resetcard(m), dipfd' \in BOOLEAN
    PROVE  SdInv'
<1>0. SdTypeOK /\ ModuleOK(m) /\ call[m].pc = "reset" /\ UNCHANGED <<card, inserts>>
  BY DEF SdInv, __sdio_resetcard
<1>1. CASE card = NoCard
  <2>1. PICK d : d = [sd[m] EXCEPT !.rca = 0]
    OBVIOUS
  <2>2. d \in Drivers /\ d.fd = sd[m].fd /\ d.sdhc = sd[m].sdhc
    BY <1>0, <2>1 DEF SdTypeOK, Drivers
  <2>3. StartFails(m, d) /\ UNCHANGED <<slot, sdhome>>
    BY <1>1, <2>1 DEF __sdio_resetcard
  <2>4. slot' \in SlotStates
    BY <1>0, <2>3 DEF SdTypeOK, SlotStates
  <2>5. QED
    BY <1>0, <2>2, <2>3, <2>4, ClosesInv DEF StartFails
<1>2. CASE /\ slot' \in {[ready |-> TRUE, rca |-> r, selected |-> FALSE] : r \in Rcas}
           /\ sd' = [sd EXCEPT ![m].rca = slot'.rca, ![m].sdhc = card \in HighCap]
           /\ sdhome' = [sdhome EXCEPT ![m] = card]
           /\ Goto(m, "bus") /\ UNCHANGED handles
  BY <1>0, <1>2, IdentifiedInv
<1>3. CASE /\ slot' = NoSlot /\ sd' = [sd EXCEPT ![m].rca = 0]
           /\ sdhome' = [sdhome EXCEPT ![m] = NoCard]
           /\ Goto(m, "reopen") /\ UNCHANGED handles
  <2>1. /\ sd' \in [Modules -> Drivers] /\ \A n \in Modules \ {m} : sd'[n] = sd[n]
        /\ sd'[m].fd = sd[m].fd /\ sd'[m].sdio_initialized = sd[m].sdio_initialized
    BY <1>0, <1>3 DEF SdTypeOK, Drivers
  <2>2. /\ sdhome' \in [Modules -> Cards \cup {NoCard}] /\ sdhome'[m] = NoCard
        /\ \A n \in Modules \ {m} : sdhome'[n] = sdhome[n]
    BY <1>0, <1>3 DEF SdTypeOK
  <2>3. sd[m].fd /\ ~sd[m].sdio_initialized /\ handles[m] = 1
    BY <1>0 DEF ModuleOK, DescriptorOK, StartPcs
  <2>4. handles' \in [Modules -> {0, 1}] /\ \A n \in Modules : handles'[n] = handles[n]
    BY <1>0, <1>3 DEF SdTypeOK
  <2>5. call[m].pc \in StartPcs
    BY <1>0 DEF StartPcs
  <2>6. QED
    BY <1>0, <1>3, <2>1, <2>2, <2>3, <2>4, <2>5, NoSlotType, UnknownInv
<1>4. QED
  BY <1>1, <1>2, <1>3 DEF __sdio_resetcard

LEMMA ReopenEffect ==
    ASSUME SdInv, NEW m \in Modules, call[m].pc \in StartPcs, NEW opens \in BOOLEAN,
           Reopen(m, opens)
    PROVE  /\ sd' \in [Modules -> Drivers] /\ handles' \in [Modules -> {0, 1}]
           /\ \A n \in Modules \ {m} : sd'[n] = sd[n] /\ handles'[n] = handles[n]
           /\ sd'[m].fd = opens /\ ~sd'[m].sdio_initialized /\ sd'[m].sdhc = sd[m].sdhc
           /\ handles'[m] = IF opens THEN 1 ELSE 0
<1>0. SdTypeOK /\ sd[m].fd /\ ~sd[m].sdio_initialized /\ handles[m] = 1
  BY DEF SdInv, ModuleOK, DescriptorOK
<1>1. /\ sd' \in [Modules -> Drivers] /\ \A n \in Modules \ {m} : sd'[n] = sd[n]
      /\ sd'[m].fd = opens /\ sd'[m].sdhc = sd[m].sdhc
      /\ sd'[m].sdio_initialized = sd[m].sdio_initialized
  BY <1>0 DEF Reopen, SdTypeOK, Drivers
<1>2. handles' = [handles EXCEPT ![m] = IF opens THEN 1 ELSE 0]
  BY <1>0 DEF Reopen
<1>3. QED
  BY <1>0, <1>1, <1>2 DEF SdTypeOK

LEMMA ReopenSlotInv ==
    ASSUME SdInv, NEW m \in Modules, ReopenSlot(m), dipfd' \in BOOLEAN
    PROVE  SdInv'
<1>0. /\ SdTypeOK /\ call[m].pc = "reopen" /\ UNCHANGED <<card, slot, inserts, sdhome>>
      /\ call[m].pc \in StartPcs
  BY DEF SdInv, ReopenSlot, StartPcs
<1>1. sdhome'[m] = NoCard
  BY <1>0 DEF SdInv, ModuleOK, HomeOK
<1>2. slot' \in SlotStates /\ sdhome' \in [Modules -> Cards \cup {NoCard}]
  BY <1>0 DEF SdTypeOK, SlotStates
<1>3. PICK opens \in BOOLEAN, where \in {"host", "undo"} :
        /\ Reopen(m, opens) /\ Goto(m, where)
        /\ opens \/ where = "undo"
  BY DEF ReopenSlot
<1>4. QED
  BY <1>0, <1>1, <1>2, <1>3, ReopenEffect, UnknownInv

(* While the module knows no card, only its flag of high capacity changes. *)
LEMMA GuessInv ==
    ASSUME SdInv, NEW m \in Modules, call[m].pc \in StartPcs, sdhome[m] = NoCard,
           NEW guess \in BOOLEAN, sd' = [sd EXCEPT ![m].sdhc = guess],
           NEW where \in {"identify", "fail"}, Goto(m, where),
           UNCHANGED <<card, handles, inserts, sdhome>>, slot' \in SlotStates, dipfd' \in BOOLEAN
    PROVE  SdInv'
<1>0. SdTypeOK /\ sd[m].fd /\ ~sd[m].sdio_initialized /\ handles[m] = 1
  BY DEF SdInv, ModuleOK, DescriptorOK
<1>1. /\ sd' \in [Modules -> Drivers] /\ \A n \in Modules \ {m} : sd'[n] = sd[n]
      /\ sd'[m].fd = sd[m].fd /\ sd'[m].sdio_initialized = sd[m].sdio_initialized
  BY <1>0 DEF SdTypeOK, Drivers
<1>2. handles' \in [Modules -> {0, 1}] /\ sdhome' \in [Modules -> Cards \cup {NoCard}]
  BY <1>0 DEF SdTypeOK
<1>3. QED
  BY <1>0, <1>1, <1>2, UnknownInv

LEMMA HostPowersInv ==
    ASSUME SdInv, NEW m \in Modules, HostPowers(m), dipfd' \in BOOLEAN
    PROVE  SdInv'
<1>0. /\ SdTypeOK /\ call[m].pc = "host" /\ UNCHANGED <<card, handles, inserts, sdhome>>
      /\ call[m].pc \in StartPcs /\ slot' \in SlotStates
  BY NoSlotType DEF SdInv, HostPowers, StartPcs
<1>1. sdhome[m] = NoCard /\ sd[m].sdhc \in BOOLEAN
  BY <1>0 DEF SdInv, ModuleOK, HomeOK, SdTypeOK, Drivers
<1>2. PICK guess \in BOOLEAN, where \in {"identify", "fail"} :
        sd' = [sd EXCEPT ![m].sdhc = guess] /\ Goto(m, where)
  BY <1>1 DEF HostPowers
<1>3. QED
  BY <1>0, <1>1, <1>2, GuessInv

LEMMA CardIdentifiesInv ==
    ASSUME SdInv, NEW m \in Modules, CardIdentifies(m), dipfd' \in BOOLEAN
    PROVE  SdInv'
<1>0. /\ SdTypeOK /\ call[m].pc = "identify" /\ UNCHANGED <<card, handles, inserts>>
      /\ call[m].pc \in StartPcs
  BY DEF SdInv, CardIdentifies, StartPcs
<1>1. CASE /\ slot' \in {[ready |-> TRUE, rca |-> r, selected |-> FALSE] : r \in Rcas}
           /\ sd' = [sd EXCEPT ![m].rca = slot'.rca, ![m].sdhc = card \in HighCap]
           /\ sdhome' = [sdhome EXCEPT ![m] = card]
           /\ Goto(m, "bus")
  BY <1>0, <1>1, IdentifiedInv
<1>2. CASE /\ \E sdhc \in {sd[m].sdhc, card \in HighCap} : sd' = [sd EXCEPT ![m].sdhc = sdhc]
           /\ Goto(m, "fail")
           /\ UNCHANGED <<slot, sdhome>>
  <2>1. sdhome[m] = NoCard /\ sd[m].sdhc \in BOOLEAN /\ slot' \in SlotStates
    BY <1>0, <1>2 DEF SdInv, ModuleOK, HomeOK, SdTypeOK, Drivers, SlotStates
  <2>2. (card \in HighCap) \in BOOLEAN
    OBVIOUS
  <2>3. {sd[m].sdhc, card \in HighCap} \subseteq BOOLEAN
    BY <2>1, <2>2, Zenon
  <2>4. PICK guess \in BOOLEAN : sd' = [sd EXCEPT ![m].sdhc = guess]
    BY <1>2, <2>3, Zenon
  <2>5. QED
    BY <1>0, <1>2, <2>1, <2>4, GuessInv
<1>3. QED
  BY <1>1, <1>2 DEF CardIdentifies

LEMMA InitFailsInv ==
    ASSUME SdInv, NEW m \in Modules, InitFails(m), dipfd' \in BOOLEAN
    PROVE  SdInv'
<1>0. /\ SdTypeOK /\ call[m].pc = "fail" /\ UNCHANGED <<card, inserts, sdhome>>
      /\ call[m].pc \in StartPcs /\ slot' \in SlotStates /\ Goto(m, "undo")
  BY NoSlotType DEF SdInv, InitFails, StartPcs
<1>1. PICK opens \in BOOLEAN : Reopen(m, opens)
  BY DEF InitFails
<1>2. sdhome' \in [Modules -> Cards \cup {NoCard}] /\ \A n \in Modules : sdhome'[n] = sdhome[n]
  BY <1>0 DEF SdTypeOK
<1>3. QED
  BY <1>0, <1>1, <1>2, ReopenEffect, UnknownInv

(* A start of m is given up. *)
LEMMA StartFailsInv ==
    ASSUME SdInv, NEW m \in Modules, StartFails(m, sd[m]),
           UNCHANGED <<card, inserts, sdhome>>, slot' \in SlotStates, dipfd' \in BOOLEAN
    PROVE  SdInv'
<1>1. PICK d \in Drivers : d = sd[m]
  BY DEF SdInv, SdTypeOK
<1>2. Return(m) /\ sdio_Deinitialize(m, d) /\ d.fd = sd[m].fd /\ d.sdhc = sd[m].sdhc
  BY <1>1 DEF StartFails
<1>3. QED
  BY <1>1, <1>2, ClosesInv

LEMMA StartUndoneInv ==
    ASSUME SdInv, NEW m \in Modules, StartUndone(m), dipfd' \in BOOLEAN
    PROVE  SdInv'
BY StartFailsInv DEF StartUndone, SdInv, SdTypeOK, SlotStates

LEMMA SetbuswidthInv ==
    ASSUME SdInv, NEW m \in Modules, __sdio_setbuswidth(m), dipfd' \in BOOLEAN
    PROVE  SdInv'
<1>1. /\ slot' \in SlotStates /\ call[m].pc \in StartPcs
      /\ UNCHANGED <<card, inserts, sdhome>>
  BY DEF __sdio_setbuswidth, SdInv, SdTypeOK, SlotStates, StartPcs
<1>2. CASE Goto(m, "select") /\ UNCHANGED <<sd, handles>>
  BY <1>1, <1>2, GoesOnInv
<1>3. CASE StartFails(m, sd[m])
  BY <1>1, <1>3, StartFailsInv
<1>4. QED
  BY <1>2, <1>3 DEF __sdio_setbuswidth

LEMMA SelectEffect ==
    ASSUME SdTypeOK, NEW m \in Modules, NEW ok \in BOOLEAN, __sd0_select(m, ok)
    PROVE  slot' \in SlotStates
BY DEF __sd0_select, SdTypeOK, SlotStates

LEMMA StartSelectsInv ==
    ASSUME SdInv, NEW m \in Modules, StartSelects(m), dipfd' \in BOOLEAN
    PROVE  SdInv'
<1>1. SdTypeOK /\ call[m].pc \in StartPcs /\ UNCHANGED <<card, inserts, sdhome>>
  BY DEF StartSelects, SdInv, StartPcs
<1>2. PICK ok \in BOOLEAN : __sd0_select(m, ok)
  BY DEF StartSelects
<1>3. slot' \in SlotStates
  BY <1>1, <1>2, SelectEffect
<1>4. CASE Goto(m, "length") /\ UNCHANGED <<sd, handles>>
  BY <1>1, <1>3, <1>4, GoesOnInv
<1>5. CASE StartFails(m, sd[m])
  BY <1>1, <1>3, <1>5, StartFailsInv
<1>6. QED
  BY <1>4, <1>5 DEF StartSelects

LEMMA SetblocklengthInv ==
    ASSUME SdInv, NEW m \in Modules, __sd0_setblocklength(m) \/ __sd0_setbuswidth(m),
           dipfd' \in BOOLEAN
    PROVE  SdInv'
<1>1. /\ slot' \in SlotStates /\ call[m].pc \in StartPcs
      /\ UNCHANGED <<card, inserts, sdhome, sd, handles>>
  BY DEF __sd0_setblocklength, __sd0_setbuswidth, SdInv, SdTypeOK, SlotStates, StartPcs
<1>2. Goto(m, "width") \/ Goto(m, "keep") \/ Goto(m, "drop")
  BY DEF __sd0_setblocklength, __sd0_setbuswidth
<1>3. QED
  BY <1>1, <1>2, GoesOnInv

LEMMA StartDeselectsInv ==
    ASSUME SdInv, NEW m \in Modules, StartDeselects(m), dipfd' \in BOOLEAN
    PROVE  SdInv'
<1>0. SdTypeOK /\ ModuleOK(m) /\ slot' \in SlotStates /\ UNCHANGED <<card, inserts, sdhome>>
  BY DEF StartDeselects, SdInv, SdTypeOK, SlotStates
<1>1. CASE call[m].pc = "keep"
  <2>1. /\ Return(m) /\ UNCHANGED handles
        /\ sd' = [sd EXCEPT ![m].sd0_initialized = TRUE, ![m].sdio_initialized = TRUE]
    BY <1>1 DEF StartDeselects
  <2>2. /\ sd' \in [Modules -> Drivers] /\ \A n \in Modules \ {m} : sd'[n] = sd[n]
        /\ sd'[m].fd = sd[m].fd /\ sd'[m].sdio_initialized /\ sd'[m].sdhc = sd[m].sdhc
    <3>1. PICK x \in Drivers : x = sd[m]
      BY <1>0 DEF SdTypeOK
    <3>2. PICK d : d = [x EXCEPT !.sd0_initialized = TRUE, !.sdio_initialized = TRUE]
      OBVIOUS
    <3>3. d \in Drivers
      BY <3>2 DEF Drivers
    <3>4. d.fd = x.fd /\ d.sdio_initialized /\ d.sdhc = x.sdhc
      BY <3>2 DEF Drivers
    <3>5. sd' = [sd EXCEPT ![m] = d]
      BY <1>0, <2>1, <3>1, <3>2 DEF SdTypeOK
    <3>6. /\ sd' \in [Modules -> Drivers] /\ sd'[m] = d
          /\ \A n \in Modules \ {m} : sd'[n] = sd[n]
      BY <1>0, <3>3, <3>5 DEF SdTypeOK
    <3>7. QED
      BY <3>1, <3>4, <3>6
  <2>3. SdTypeOK' /\ OnlyModule(m)
    BY <1>0, <2>1, <2>2, ReturnEffect DEF SdTypeOK, OnlyModule, SlotStates
  <2>4. sd[m].fd /\ handles[m] = 1
    BY <1>0, <1>1 DEF ModuleOK, DescriptorOK, StartPcs
  <2>5. ModuleOK(m)'
    BY <1>0, <2>1, <2>2, <2>4, ReturnEffect DEF ModuleOK, DescriptorOK, HomeOK, CallOK, SectorCall,
       ByteCall, StartPcs, MovePcs
  <2>6. QED
    BY <2>3, <2>5, StepOfOne
<1>2. CASE call[m].pc # "keep"
  BY <1>0, <1>2, StartFailsInv DEF StartDeselects
<1>3. QED
  BY <1>1, <1>2

-----------------------------------------------------------------------------
(* Reads and writes. *)

LEMMA BeginMoveInv ==
    ASSUME SdInv, NEW m \in Modules, NEW s \in Sectors, Begin(m, "try", s),
           UNCHANGED <<card, slot, sd, handles, inserts, sdhome>>, dipfd' \in BOOLEAN
    PROVE  SdInv'
<1>0. SdTypeOK /\ ModuleOK(m) /\ s \in Nat
  BY SdAssumption DEF SdInv
<1>1. /\ call[m].pc = "idle"
      /\ call' \in [Modules -> SdCalls]
      /\ \A n \in Modules \ {m} : call'[n] = call[n]
      /\ call'[m].pc = "try" /\ call'[m].sector = s /\ call'[m].arg = s
      /\ call'[m].sent = 0 /\ call'[m].at = {} /\ ~call'[m].result
  BY <1>0, BeginEffect DEF MovePcs
<1>2. SdTypeOK' /\ OnlyModule(m)
  BY <1>0, <1>1 DEF SdTypeOK, OnlyModule
<1>3. ModuleOK(m)'
  BY <1>0, <1>1 DEF ModuleOK, DescriptorOK, HomeOK, CallOK, SectorCall, ByteCall, StartPcs, MovePcs
<1>4. QED
  BY <1>2, <1>3, StepOfOne

LEMMA ReadSectorsInv ==
    ASSUME SdInv, NEW m \in Modules, sdio_ReadSectors(m) \/ sdio_WriteSectors(m),
           dipfd' \in BOOLEAN
    PROVE  SdInv'
BY BeginMoveInv DEF sdio_ReadSectors, sdio_WriteSectors

(* A step of a read or write: k is the call after it. *)
LEMMA MoveInv ==
    ASSUME SdInv, NEW m \in Modules, call[m].pc \in MovePcs,
           NEW k \in SdCalls, call' = [call EXCEPT ![m] = k],
           k.pc \in MovePcs \cup {"idle"}, CallOK(k, sdhome[m]),
           UNCHANGED <<card, sd, handles, inserts, sdhome>>, slot' \in SlotStates, dipfd' \in BOOLEAN
    PROVE  SdInv'
<1>0. SdTypeOK /\ ModuleOK(m)
  BY DEF SdInv
<1>1. /\ call' \in [Modules -> SdCalls] /\ call'[m] = k
      /\ \A n \in Modules \ {m} : call'[n] = call[n]
  BY <1>0 DEF SdTypeOK
<1>2. SdTypeOK' /\ OnlyModule(m)
  BY <1>0, <1>1 DEF SdTypeOK, OnlyModule, SlotStates
<1>3. CallOK(k, sdhome[m])'
  BY DEF CallOK, SectorCall, ByteCall
<1>4. DescriptorOK(sd[m], k, handles[m]) /\ HomeOK(sd[m], k, sdhome[m])
  BY <1>0 DEF ModuleOK, DescriptorOK, HomeOK, StartPcs, MovePcs
<1>5. ModuleOK(m)'
  BY <1>0, <1>1, <1>3, <1>4 DEF ModuleOK, DescriptorOK, HomeOK, SdTypeOK
<1>6. QED
  BY <1>2, <1>5, StepOfOne

(* The next attempt, or none. *)
LEMMA NextTryEffect ==
    ASSUME NEW c \in SdCalls, NEW home, c.pc \in {"try", "failed"},
           CallOK(c, home)
    PROVE  /\ NextTry(c) \in SdCalls /\ NextTry(c).pc \in MovePcs \cup {"idle"}
           /\ CallOK(NextTry(c), home)
<1>1. CASE c.tries + 1 < SdTries
  <2>1. PICK t \in Nat : t = c.tries + 1
    BY DEF SdCalls
  <2>2. PICK k : k = [c EXCEPT !.tries = t, !.pc = "try"]
    OBVIOUS
  <2>3. /\ k \in SdCalls /\ k.pc = "try" /\ k.result = c.result /\ k.arg = c.arg
        /\ k.sector = c.sector /\ k.sent = c.sent /\ k.at = c.at
    BY <2>2 DEF SdCalls, MovePcs
  <2>4. NextTry(c) = k
    BY <1>1, <2>1, <2>2 DEF NextTry
  <2>5. CallOK(k, home)
    BY <2>3 DEF CallOK, SectorCall, ByteCall, MovePcs, SdCalls
  <2>6. QED
    BY <2>3, <2>4, <2>5 DEF MovePcs
<1>2. CASE ~(c.tries + 1 < SdTries)
  <2>1. PICK k : k = NoCall
    OBVIOUS
  <2>2. k \in SdCalls /\ k.pc = "idle" /\ ~k.result
    BY <2>1 DEF NoCall, SdCalls
  <2>3. NextTry(c) = k
    BY <1>2, <2>1 DEF NextTry
  <2>4. CallOK(k, home)
    BY <2>2 DEF CallOK, SectorCall, ByteCall, MovePcs
  <2>5. QED
    BY <2>2, <2>3, <2>4
<1>3. QED
  BY <1>1, <1>2

LEMMA ProductDiv ==
    ASSUME NEW s \in Nat, NEW p \in Nat \ {0}
    PROVE  (s * p) \div p = s
OBVIOUS

LEMMA SmallMod ==
    ASSUME NEW a \in Nat, NEW w \in Nat \ {0}, a < w
    PROVE  a % w = a
OBVIOUS

LEMMA ModType ==
    ASSUME NEW a \in Nat, NEW w \in Nat \ {0}
    PROVE  a % w \in Nat /\ a \div w \in Nat
OBVIOUS

LEMMA ProductType ==
    ASSUME NEW a \in Nat, NEW b \in Nat
    PROVE  a * b \in Nat
OBVIOUS

LEMMA SizesAreNat == PageSize \in Nat \ {0} /\ Wrap \in Nat \ {0}
BY SdAssumption

(* The address of an attempt. *)
LEMMA ByteAddressType ==
    ASSUME NEW m \in Modules, NEW arg \in Nat
    PROVE  ByteAddress(m, arg) \in Nat
BY SizesAreNat, ProductType, ModType DEF ByteAddress

LEMMA TrySelectsInv ==
    ASSUME SdInv, NEW m \in Modules, TrySelects(m), dipfd' \in BOOLEAN
    PROVE  SdInv'
<1>0. /\ SdTypeOK /\ ModuleOK(m) /\ call[m].pc = "try" /\ call[m].pc \in MovePcs
      /\ UNCHANGED <<card, sd, handles, inserts, sdhome>>
  BY DEF SdInv, TrySelects, MovePcs
<1>1. PICK ok \in BOOLEAN :
        /\ __sd0_select(m, ok)
        /\ call' = [call EXCEPT ![m] =
                      IF ok THEN [call[m] EXCEPT !.pc = "command", !.arg = ByteAddress(m, call[m].arg)]
                      ELSE NextTry(call[m])]
  BY DEF TrySelects
<1>2. slot' \in SlotStates
  BY <1>0, <1>1, SelectEffect
<1>3. PICK c \in SdCalls : c = call[m]
  BY <1>0 DEF SdTypeOK
<1>4. c.pc = "try" /\ CallOK(c, sdhome[m])
  BY <1>0, <1>3 DEF ModuleOK
<1>5. CASE ok
  <2>1. PICK x \in Nat : x = ByteAddress(m, c.arg)
    BY ByteAddressType DEF SdCalls
  <2>2. PICK k : k = [c EXCEPT !.pc = "command", !.arg = x]
    OBVIOUS
  <2>3. /\ k \in SdCalls /\ k.pc = "command" /\ k.arg = x /\ k.result = c.result
        /\ k.sector = c.sector /\ k.sent = c.sent /\ k.at = c.at
    BY <2>2 DEF SdCalls, MovePcs
  <2>4. call' = [call EXCEPT ![m] = k]
    BY <1>1, <1>3, <1>5, <2>1, <2>2
  <2>5. ASSUME sdhome[m] # NoCard, card \in HighCap PROVE SectorCall(k)
    <3>1. sd[m].sdhc
      BY <1>0, <2>5 DEF ModuleOK, HomeOK
    <3>2. x = c.arg
      BY <2>1, <3>1 DEF ByteAddress
    <3>3. QED
      BY <1>4, <2>3, <2>5, <3>2 DEF CallOK, SectorCall, MovePcs
  <2>6. ASSUME sdhome[m] # NoCard, card \notin HighCap PROVE ByteCall(k)
    <3>1. ~sd[m].sdhc
      BY <1>0, <2>6 DEF ModuleOK, HomeOK
    <3>2. x = (c.arg * PageSize) % Wrap
      BY <2>1, <3>1 DEF ByteAddress
    <3>3. QED
      BY <1>4, <2>3, <2>6, <3>2 DEF CallOK, ByteCall, MovePcs
  <2>7. CallOK(k, sdhome[m])
    BY <1>4, <2>3, <2>5, <2>6 DEF CallOK
  <2>8. QED
    BY <1>0, <1>2, <2>3, <2>4, <2>7, MoveInv DEF MovePcs
<1>6. CASE ~ok
  <2>1. PICK k : k = NextTry(c)
    OBVIOUS
  <2>2. k \in SdCalls /\ k.pc \in MovePcs \cup {"idle"} /\ CallOK(k, sdhome[m])
    BY <1>4, <2>1, NextTryEffect
  <2>3. call' = [call EXCEPT ![m] = k]
    BY <1>1, <1>3, <1>6, <2>1
  <2>4. QED
    BY <1>0, <1>2, <2>2, <2>3, MoveInv
<1>7. QED
  BY <1>5, <1>6

(* What a first command to a card addressed in bytes reaches. *)
LEMMA FirstCommand ==
    ASSUME NEW s \in Nat, s * PageSize < Wrap, card \notin HighCap
    PROVE  SectorOf(card, (s * PageSize) % Wrap) = s
<1>1. s * PageSize \in Nat
  BY SizesAreNat, ProductType
<1>2. (s * PageSize) % Wrap = s * PageSize
  BY <1>1, SizesAreNat, SmallMod
<1>3. QED
  BY <1>2, SizesAreNat, ProductDiv DEF SectorOf

LEMMA TransfersInv ==
    ASSUME SdInv, NEW m \in Modules, Transfers(m), dipfd' \in BOOLEAN
    PROVE  SdInv'
<1>0. /\ SdTypeOK /\ ModuleOK(m) /\ call[m].pc = "command" /\ call[m].pc \in MovePcs
      /\ UNCHANGED <<card, slot, sd, handles, inserts, sdhome>>
  BY DEF SdInv, Transfers, MovePcs
<1>1. slot' \in SlotStates
  BY <1>0 DEF SdTypeOK, SlotStates
<1>2. PICK ok \in BOOLEAN, moved \in BOOLEAN :
         /\ ok => moved
         /\ call' = [call EXCEPT
                       ![m].pc = IF ok THEN "moved" ELSE "failed",
                       ![m].sent = @ + 1,
                       ![m].at = IF moved THEN @ \cup {SectorOf(card, call[m].arg)} ELSE @]
  BY DEF Transfers
<1>3. PICK c \in SdCalls : c = call[m]
  BY <1>0 DEF SdTypeOK
<1>4. c.pc = "command" /\ CallOK(c, sdhome[m]) /\ c.arg \in Nat /\ c.sent \in Nat /\ c.at \subseteq Nat
  BY <1>0, <1>3 DEF ModuleOK, SdCalls
<1>5. PICK x : x = SectorOf(card, c.arg)
  OBVIOUS
<1>6. x \in Nat
  BY <1>4, <1>5, SizesAreNat, ModType DEF SectorOf
<1>7. PICK at \in SUBSET Nat : at = IF moved THEN c.at \cup {x} ELSE c.at
  BY <1>4, <1>6
<1>8. PICK sent \in Nat : sent = c.sent + 1
  BY <1>4
<1>9. PICK where : where = IF ok THEN "moved" ELSE "failed"
  OBVIOUS
<1>10. PICK k : k = [c EXCEPT !.pc = where, !.sent = sent, !.at = at]
  OBVIOUS
<1>11. /\ k \in SdCalls /\ k.pc = where /\ k.sent = sent /\ k.at = at /\ k.result = c.result
       /\ k.arg = c.arg /\ k.sector = c.sector
  BY <1>9, <1>10 DEF SdCalls, MovePcs
<1>12. call' = [call EXCEPT ![m] = k]
  BY <1>0, <1>2, <1>3, <1>5, <1>7, <1>8, <1>9, <1>10 DEF SdTypeOK, SdCalls
<1>13. ASSUME sdhome[m] # NoCard, card \in HighCap PROVE SectorCall(k)
  <2>1. c.arg = c.sector /\ c.at \subseteq {c.sector} /\ ~c.result
    BY <1>4, <1>13 DEF CallOK, SectorCall, MovePcs
  <2>2. x = c.sector
    BY <1>5, <1>13, <2>1 DEF SectorOf
  <2>3. at \subseteq {c.sector} /\ (ok => at = {c.sector})
    BY <1>2, <1>7, <2>1, <2>2
  <2>4. QED
    BY <1>9, <1>11, <2>1, <2>3 DEF SectorCall, MovePcs
<1>14. ASSUME sdhome[m] # NoCard, card \notin HighCap PROVE ByteCall(k)
  <2>1. ~c.result /\ (c.sent = 0 => c.arg = (c.sector * PageSize) % Wrap /\ c.at = {})
    BY <1>4, <1>14 DEF CallOK, ByteCall
  <2>2. ASSUME sent = 1, ok, c.sector * PageSize < Wrap PROVE at = {c.sector}
    <3>1. c.sent = 0
      BY <1>4, <1>8, <2>2
    <3>2. x = c.sector
      BY <1>5, <1>14, <2>1, <2>2, <3>1, FirstCommand DEF SdCalls
    <3>3. QED
      BY <1>2, <1>7, <2>1, <2>2, <3>1, <3>2
  <2>3. sent > 0
    BY <1>4, <1>8
  <2>4. QED
    BY <1>9, <1>11, <2>1, <2>2, <2>3 DEF ByteCall
<1>15. CallOK(k, sdhome[m])
  BY <1>4, <1>11, <1>13, <1>14 DEF CallOK
<1>16. k.pc \in MovePcs
  BY <1>9, <1>11 DEF MovePcs
<1>17. QED
  BY <1>0, <1>1, <1>11, <1>12, <1>15, <1>16, MoveInv

LEMMA DeselectInv ==
    ASSUME SdInv, NEW m \in Modules, __sd0_deselect(m), dipfd' \in BOOLEAN
    PROVE  SdInv'
<1>0. /\ SdTypeOK /\ ModuleOK(m) /\ call[m].pc \in {"moved", "failed"} /\ call[m].pc \in MovePcs
      /\ UNCHANGED <<card, sd, handles, inserts, sdhome>>
  BY DEF SdInv, __sd0_deselect, MovePcs
<1>1. slot' \in SlotStates
  BY <1>0 DEF SdTypeOK, SlotStates, __sd0_deselect
<1>2. PICK c \in SdCalls : c = call[m]
  BY <1>0 DEF SdTypeOK
<1>3. CallOK(c, sdhome[m])
  BY <1>0, <1>2 DEF ModuleOK
<1>4. CASE c.pc = "moved"
  <2>1. PICK k : k = [c EXCEPT !.pc = "idle", !.result = TRUE, !.arg = 0, !.tries = 0]
    OBVIOUS
  <2>2. /\ k \in SdCalls /\ k.pc = "idle" /\ k.result = TRUE /\ k.sector = c.sector
        /\ k.sent = c.sent /\ k.at = c.at
    BY <2>1 DEF SdCalls
  <2>3. call' = [call EXCEPT ![m] = k]
    BY <1>2, <1>4, <2>1 DEF __sd0_deselect, Succeeded
  <2>4. CallOK(k, sdhome[m])
    BY <1>3, <1>4, <2>2 DEF CallOK, SectorCall, ByteCall, MovePcs
  <2>5. QED
    BY <1>0, <1>1, <2>2, <2>3, <2>4, MoveInv
<1>5. CASE c.pc = "failed"
  <2>1. PICK k : k = NextTry(c)
    OBVIOUS
  <2>2. k \in SdCalls /\ k.pc \in MovePcs \cup {"idle"} /\ CallOK(k, sdhome[m])
    BY <1>3, <1>5, <2>1, NextTryEffect
  <2>3. call' = [call EXCEPT ![m] = k]
    BY <1>2, <1>5, <2>1 DEF __sd0_deselect
  <2>4. QED
    BY <1>0, <1>1, <2>2, <2>3, MoveInv
<1>6. QED
  BY <1>0, <1>2, <1>4, <1>5

-----------------------------------------------------------------------------
(* The user, and the whole. *)

LEMMA CardChangesInv ==
    ASSUME SdInv, NEW limit \in Nat, Eject \/ Insert(limit), UNCHANGED dipfd
    PROVE  SdInv'
<1>0. SdTypeOK
  BY DEF SdInv
<1>1. /\ \A m \in Modules : sdhome'[m] = NoCard
      /\ sdhome' \in [Modules -> Cards \cup {NoCard}]
  BY <1>0 DEF SdInv, Eject, Insert, ModuleOK, HomeOK, SdTypeOK
<1>2. SdTypeOK'
  BY <1>0, <1>1, NoSlotType DEF Eject, Insert, SdTypeOK, SlotStates
<1>3. ASSUME NEW m \in Modules PROVE ModuleOK(m)'
  BY <1>1, <1>3 DEF SdInv, Eject, Insert, ModuleOK, DescriptorOK, HomeOK, CallOK
<1>4. QED
  BY <1>2, <1>3 DEF SdInv

LEMMA StepInv ==
    ASSUME SdInv, NEW m \in Modules, Step(m), dipfd' \in BOOLEAN
    PROVE  SdInv'
BY ResetcardInv, ReopenSlotInv, HostPowersInv, CardIdentifiesInv, InitFailsInv, StartUndoneInv,
   SetbuswidthInv, StartSelectsInv, SetblocklengthInv, StartDeselectsInv, TrySelectsInv,
   TransfersInv, DeselectInv DEF Step

LEMMA RequestInv ==
    ASSUME SdInv, NEW m \in Modules, Request(m), dipfd' \in BOOLEAN
    PROVE  SdInv'
BY StartupInv, ShutdownInv, ReadSectorsInv DEF Request

LEMMA SdNextInv ==
    ASSUME SdInv, NEW limit \in Nat, [SdNext(limit)]_sdVars
    PROVE  SdInv'
<1>0. dipfd \in BOOLEAN /\ Server \in Modules
  BY SdAssumption DEF SdInv, SdTypeOK
<1>1. CASE \E m \in Modules : (Step(m) \/ Request(m)) /\ UNCHANGED dipfd
  BY <1>0, <1>1, StepInv, RequestInv
<1>2. CASE Request(Server) /\ dipfd' \in BOOLEAN
  BY <1>0, <1>2, RequestInv
<1>3. CASE (Eject \/ Insert(limit)) /\ UNCHANGED dipfd
  BY <1>3, CardChangesInv
<1>4. CASE UNCHANGED sdVars
  BY <1>4 DEF SdInv, sdVars, SdTypeOK, ModuleOK, DescriptorOK, HomeOK, CallOK, SectorCall, ByteCall
<1>5. QED
  BY <1>0, <1>1, <1>2, <1>3, <1>4 DEF SdNext, SDHC_Ioctlv, SDHC_Close, sdhc_Init, sdhc_Read,
     sdhc_Shutdown, Request

(* The driver variables, calls and descriptors of every module that shares *)
(* the card stay consistent, whatever opens, resets, commands, ejections   *)
(* and insertions happen in between (sdio.c).                              *)
THEOREM SdInvariant == ASSUME NEW limit \in Nat PROVE SdSpec(limit) => []SdInv
<1>1. SdInit => SdInv
  BY SdInitInv
<1>2. SdInv /\ [SdNext(limit)]_sdVars => SdInv'
  BY SdNextInv
<1>3. QED
  BY <1>1, <1>2, PTL DEF SdSpec

(* No descriptor of the slot is leaked or closed twice by any failure of a *)
(* start (sdio_Startup, __sd0_initio).                                     *)
THEOREM DescriptorsAreBalanced ==
    ASSUME NEW limit \in Nat PROVE SdSpec(limit) => []HandlesBalanced
<1>1. SdInv => HandlesBalanced
  BY DEF SdInv, ModuleOK, DescriptorOK, HandlesBalanced
<1>2. QED
  BY <1>1, SdInvariant, PTL

(* A read or a write that succeeded on the card its module identified      *)
(* moved the sector it was asked for, with any number of modules sharing   *)
(* the card (sdio_ReadSectors, sdio_WriteSectors).                         *)
THEOREM SectorsAreRight ==
    ASSUME NEW limit \in Nat PROVE SdSpec(limit) => []SectorIsRight
<1>1. SdInv => SectorIsRight
  BY DEF SdInv, ModuleOK, CallOK, SectorCall, ByteCall, SectorIsRight
<1>2. QED
  BY <1>1, SdInvariant, PTL

-----------------------------------------------------------------------------
(* The USB module. *)

UsbSpec(limit) == UsbInit /\ [][UsbNext(limit)]_usbVars

ClientOps == {"init", "capacity", "read", "write", "inserted", "unmount"}

ClientRecs ==
    [fd : BOOLEAN, call : {"none", "init", "read", "write", "inserted", "shutdown", "loader"},
     stage : ClientOps \cup {"none"}, piece : Nat, whole : BOOLEAN, spoilt : BOOLEAN,
     result : BOOLEAN]

UsbMessages ==
    [op : ClientOps \cup {"devchange", "attach", "mount"}, from : UsbClients \cup {NoClient},
     result : Nat]

(* Work, with the list of disks that are to be tried. *)
Works(found) ==
    [op : {"none", "mount", "read", "write"}, from : UsbClients \cup {NoClient}, found : {found},
     tries : Nat, pos : Nat, dev : Nat, placed : [1..Parts -> Nat], spoilt : BOOLEAN]

MountPcs == {"refused", "search", "open", "descriptors", "configure", "unit", "capacity", "mbr"}
CyclePcs == {"cbw", "data", "csw"}

UsbTypeOK ==
    /\ hub \in Seq([id : Nat, model : Models]) /\ ids \in Nat
    /\ messages \in Seq(UsbMessages)
    /\ tpc \in {"idle"} \cup MountPcs \cup CyclePcs
    /\ work \in Works(work.found)
    /\ client \in [UsbClients -> ClientRecs]

(* A read or a write so far: every piece that was answered well has all    *)
(* its parts in their places, or is known to be spoilt.                    *)
ClientOK(r) ==
    /\ r.stage \in {"read", "write"} => r.call = r.stage /\ ~r.result
    /\ r.call \in {"read", "write"} =>
         /\ r.stage \in {r.call, "none"}
         /\ r.stage # "none" \/ r.result => r.whole \/ r.spoilt

(* Of each client that waits at most one message is under way, which says  *)
(* what it waits for; w is the client the thread works for.                *)
QueueOK(q, cl, w) ==
    \A i \in DOMAIN q :
        q[i].from # NoClient =>
            /\ q[i].from # w
            /\ q[i].op = cl[q[i].from].stage
            /\ \A j \in DOMAIN q : q[j].from = q[i].from => j = i

AskedOK(q) == \A i \in DOMAIN q : q[i].op \in ClientOps => q[i].from # NoClient

(* Unless it is spoilt, a piece has its first parts in their places, and   *)
(* the disk is where the buffer is.                                        *)
PieceOK(w) ==
    ~w.spoilt =>
        /\ w.pos \in 0..Parts
        /\ \A k \in 1..Parts : k <= w.pos => w.placed[k] = k
        /\ tpc = "cbw" => w.dev = 0 /\ w.pos \in {0, Parts}
        /\ tpc = "data" => w.dev = w.pos /\ w.pos < Parts
        /\ tpc = "csw" => w.pos = Parts

WorkOK ==
    /\ tpc = "idle" => work.from = NoClient
    /\ tpc \in CyclePcs => /\ work.from \in UsbClients
                           /\ client[work.from].stage \in {"read", "write"}
                           /\ PieceOK(work)
    /\ tpc \in MountPcs /\ work.from # NoClient => client[work.from].stage = "inserted"

UsbInv ==
    /\ UsbTypeOK
    /\ \A c \in UsbClients : ClientOK(client[c])
    /\ QueueOK(messages, client, work.from)
    /\ AskedOK(messages)
    /\ WorkOK

LEMMA NoWorkType == NoWork \in Works(NoWork.found) /\ NoWork.from = NoClient
BY DEF NoWork, Works

LEMMA UsbInitInv == UsbInit => UsbInv
<1> SUFFICES ASSUME UsbInit PROVE UsbInv
  OBVIOUS
<1>1. NewClient \in ClientRecs /\ ClientOK(NewClient)
  BY DEF NewClient, ClientRecs, ClientOK
<1>2. UsbTypeOK
  BY <1>1, NoWorkType, EmptySeq DEF UsbInit, UsbTypeOK
<1>3. QED
  BY <1>1, <1>2, NoWorkType
     DEF UsbInit, UsbInv, QueueOK, AskedOK, WorkOK, CyclePcs, MountPcs

(* What happens to the queue. *)

Absent(q, c) == \A i \in DOMAIN q : q[i].from # c

LEMMA TailOK ==
    ASSUME NEW q \in Seq(UsbMessages), q # <<>>, NEW cl, NEW w, QueueOK(q, cl, w), AskedOK(q)
    PROVE  /\ Tail(q) \in Seq(UsbMessages) /\ Head(q) \in UsbMessages
           /\ QueueOK(Tail(q), cl, w) /\ AskedOK(Tail(q))
           /\ Head(q).op \in ClientOps => Head(q).from \in UsbClients
           /\ Head(q).from # NoClient => /\ Head(q).op = cl[Head(q).from].stage
                                         /\ Head(q).from # w
                                         /\ Absent(Tail(q), Head(q).from)
<1>1. /\ Tail(q) \in Seq(UsbMessages) /\ Head(q) \in UsbMessages /\ Head(q) = q[1]
      /\ DOMAIN Tail(q) = 1..(Len(q) - 1) /\ DOMAIN q = 1..Len(q) /\ Len(q) \in Nat /\ Len(q) > 0
      /\ \A i \in 1..(Len(q) - 1) : Tail(q)[i] = q[i + 1]
  BY HeadTailProperties, LenProperties, EmptySeq
<1>2. \A i \in DOMAIN Tail(q) : i + 1 \in DOMAIN q /\ Tail(q)[i] = q[i + 1] /\ i \in Nat /\ i > 0
  BY <1>1
<1>3. QueueOK(Tail(q), cl, w) /\ AskedOK(Tail(q))
  BY <1>2 DEF QueueOK, AskedOK
<1>4. 1 \in DOMAIN q
  BY <1>1
<1>5. Head(q).op \in ClientOps => Head(q).from \in UsbClients
  BY <1>1, <1>4 DEF AskedOK, UsbMessages
<1>6. Head(q).from # NoClient => /\ Head(q).op = cl[Head(q).from].stage
                                 /\ Head(q).from # w
  BY <1>1, <1>4 DEF QueueOK
<1>7. Head(q).from # NoClient => Absent(Tail(q), Head(q).from)
  BY <1>1, <1>2, <1>4 DEF QueueOK, Absent
<1>8. QED
  BY <1>1, <1>3, <1>5, <1>6, <1>7

LEMMA AppendOK ==
    ASSUME NEW q \in Seq(UsbMessages), NEW cl, NEW w, QueueOK(q, cl, w), AskedOK(q),
           NEW msg \in UsbMessages, msg.op \in ClientOps => msg.from # NoClient,
           msg.from # NoClient => /\ msg.from # w /\ msg.op = cl[msg.from].stage
                                  /\ Absent(q, msg.from)
    PROVE  /\ Append(q, msg) \in Seq(UsbMessages)
           /\ QueueOK(Append(q, msg), cl, w) /\ AskedOK(Append(q, msg))
<1>1. /\ Append(q, msg) \in Seq(UsbMessages) /\ DOMAIN Append(q, msg) = 1..(Len(q) + 1)
      /\ DOMAIN q = 1..Len(q) /\ Len(q) \in Nat
      /\ \A i \in 1..Len(q) : Append(q, msg)[i] = q[i]
      /\ Append(q, msg)[Len(q) + 1] = msg
  BY AppendProperties, LenProperties
<1>2. \A i \in DOMAIN Append(q, msg) : \/ i \in DOMAIN q /\ Append(q, msg)[i] = q[i]
                                       \/ i = Len(q) + 1 /\ Append(q, msg)[i] = msg
  BY <1>1
<1>3. QED
  BY <1>1, <1>2 DEF QueueOK, AskedOK, Absent

LEMMA ChangeOK ==
    ASSUME NEW q \in Seq(UsbMessages), NEW cl, NEW cl2, NEW w, NEW w2, NEW c, QueueOK(q, cl, w),
           Absent(q, c), \A d \in UsbClients \ {c} : cl2[d].stage = cl[d].stage,
           w2 \in {w, c, NoClient}
    PROVE  QueueOK(q, cl2, w2)
<1>1. \A i \in DOMAIN q : q[i] \in UsbMessages
  BY ElementOfSeq, LenProperties
<1>2. \A i \in DOMAIN q : q[i].from \in UsbClients \cup {NoClient}
  BY <1>1 DEF UsbMessages
<1>3. QED
  BY <1>2 DEF QueueOK, Absent

(* What a client makes of an answer. *)

LEMMA ReturnedOK ==
    ASSUME NEW r \in ClientRecs, NEW ok \in BOOLEAN,
           r.call \in {"read", "write"} /\ ok => r.whole \/ r.spoilt
    PROVE  /\ Returned(r, ok) \in ClientRecs /\ ClientOK(Returned(r, ok))
           /\ Returned(r, ok).stage = "none" /\ Returned(r, ok).call = r.call
<1>1. PICK k : k = [r EXCEPT !.stage = "none", !.result = ok]
  OBVIOUS
<1>2. /\ k \in ClientRecs /\ k.stage = "none" /\ k.result = ok /\ k.call = r.call
      /\ k.whole = r.whole /\ k.spoilt = r.spoilt
  BY <1>1 DEF ClientRecs
<1>3. ClientOK(k)
  BY <1>2 DEF ClientOK
<1>4. QED
  BY <1>1, <1>2, <1>3 DEF Returned

LEMMA ClosedOK ==
    ASSUME NEW r \in ClientRecs, ClientOK(r), NEW open \in BOOLEAN
    PROVE  LET k == [r EXCEPT !.fd = open] IN k \in ClientRecs /\ ClientOK(k)
<1>1. PICK k : k = [r EXCEPT !.fd = open]
  OBVIOUS
<1>2. /\ k \in ClientRecs /\ k.stage = r.stage /\ k.result = r.result /\ k.call = r.call
      /\ k.whole = r.whole /\ k.spoilt = r.spoilt
  BY <1>1 DEF ClientRecs
<1>3. ClientOK(k)
  BY <1>2 DEF ClientOK
<1>4. QED
  BY <1>1, <1>2, <1>3

LEMMA PieceDoneOK ==
    ASSUME NEW r \in ClientRecs, ClientOK(r), r.stage \in {"read", "write"}, NEW ok \in BOOLEAN
    PROVE  PieceDone(r, ok) \in ClientRecs /\ ClientOK(PieceDone(r, ok))
<1>1. r.whole \/ r.spoilt
  BY DEF ClientOK
<1>2. CASE ~ok \/ ~(r.piece < Pieces)
  <2>1. PieceDone(r, ok) = Returned(r, ok)
    BY <1>2 DEF PieceDone
  <2>2. QED
    BY <1>1, <2>1, ReturnedOK
<1>3. CASE ok /\ r.piece < Pieces
  <2>1. PICK n \in Nat : n = r.piece + 1
    BY DEF ClientRecs
  <2>2. PICK k : k = [r EXCEPT !.piece = n]
    OBVIOUS
  <2>3. /\ k \in ClientRecs /\ k.stage = r.stage /\ k.result = r.result /\ k.call = r.call
        /\ k.whole = r.whole /\ k.spoilt = r.spoilt
    BY <2>2 DEF ClientRecs
  <2>4. ClientOK(k)
    BY <2>3 DEF ClientOK
  <2>5. PieceDone(r, ok) = k
    BY <1>3, <2>1, <2>2 DEF PieceDone
  <2>6. QED
    BY <2>3, <2>4, <2>5
<1>4. QED
  BY <1>2, <1>3

(* An answer to a client that waits: only a piece with all parts in their  *)
(* places, or a spoilt one, is answered well.                              *)
LEMMA ReceivedOK ==
    ASSUME NEW r \in ClientRecs, ClientOK(r), r.stage # "none", NEW ret \in Nat,
           NEW moved \in BOOLEAN, NEW spoilt \in BOOLEAN,
           r.stage \in {"read", "write"} /\ ret = 0 => moved \/ spoilt
    PROVE  /\ Received(r, ret, moved, spoilt) \in ClientRecs
           /\ ClientOK(Received(r, ret, moved, spoilt))
<1>1. CASE r.stage \in {"read", "write"}
  <2>1. PICK ok \in BOOLEAN : ok <=> ret = 0
    OBVIOUS
  <2>2. PICK w \in BOOLEAN : w <=> r.whole /\ moved
    OBVIOUS
  <2>3. PICK p \in BOOLEAN : p <=> r.spoilt \/ spoilt
    OBVIOUS
  <2>4. PICK k : k = [r EXCEPT !.whole = w, !.spoilt = p]
    OBVIOUS
  <2>5. /\ k \in ClientRecs /\ k.stage = r.stage /\ k.result = r.result /\ k.call = r.call
        /\ k.whole = w /\ k.spoilt = p /\ r.whole \in BOOLEAN /\ r.spoilt \in BOOLEAN
    BY <2>4 DEF ClientRecs
  <2>6. Received(r, ret, moved, spoilt) = PieceDone(k, ok)
    BY <1>1, <2>1, <2>2, <2>3, <2>4, <2>5 DEF Received
  <2>7. CASE ok
    <3>1. w \/ p
      BY <1>1, <2>1, <2>2, <2>3, <2>7 DEF ClientOK
    <3>2. k.stage \in {"read", "write"} /\ k.call = k.stage /\ ~k.result /\ (k.whole \/ k.spoilt)
      BY <1>1, <2>5, <3>1 DEF ClientOK
    <3>3. ClientOK(k)
      BY <3>2 DEF ClientOK
    <3>4. k \in ClientRecs /\ k.stage \in {"read", "write"}
      BY <2>5, <3>2
    <3>5. PieceDone(k, ok) \in ClientRecs /\ ClientOK(PieceDone(k, ok))
      BY <3>3, <3>4, PieceDoneOK
    <3>6. QED
      BY <2>6, <3>5
  <2>8. CASE ~ok
    <3>1. PieceDone(k, ok) = Returned(k, ok)
      BY <2>8 DEF PieceDone, Returned
    <3>2. QED
      BY <2>5, <2>6, <2>8, <3>1, ReturnedOK
  <2>9. QED
    BY <2>7, <2>8
<1>2. ASSUME r.stage \notin {"read", "write"} PROVE r.call \notin {"read", "write"}
  BY <1>2 DEF ClientOK
<1>3. CASE r.stage = "init" /\ ret = 0
  <2>1. PICK k : k = [r EXCEPT !.stage = "capacity"]
    OBVIOUS
  <2>2. k \in ClientRecs /\ k.stage = "capacity" /\ k.call = r.call
    BY <2>1 DEF ClientRecs, ClientOps
  <2>3. ClientOK(k)
    BY <1>2, <1>3, <2>2 DEF ClientOK
  <2>4. Received(r, ret, moved, spoilt) = k
    BY <1>3, <2>1 DEF Received
  <2>5. QED
    BY <2>2, <2>3, <2>4
<1>4. CASE r.stage = "init" /\ ret # 0
  <2>1. PICK no \in BOOLEAN : ~no
    OBVIOUS
  <2>2. PICK k : k = Returned(r, no)
    OBVIOUS
  <2>3. k \in ClientRecs /\ ClientOK(k)
    BY <1>2, <1>4, <2>1, <2>2, ReturnedOK
  <2>4. Received(r, ret, moved, spoilt) = [k EXCEPT !.fd = no]
    BY <1>4, <2>1, <2>2 DEF Received, InitFailed, Returned
  <2>5. QED
    BY <2>3, <2>4, ClosedOK
<1>5. CASE r.stage = "capacity"
  <2>1. PICK yes \in BOOLEAN : yes <=> ret # 0
    OBVIOUS
  <2>2. PICK open \in BOOLEAN : open <=> r.call = "inserted" \/ ret # 0
    OBVIOUS
  <2>3. PICK k : k = Returned(r, yes)
    OBVIOUS
  <2>4. k \in ClientRecs /\ ClientOK(k)
    BY <1>2, <1>5, <2>3, ReturnedOK
  <2>5. Received(r, ret, moved, spoilt) = Capacity(r, ret)
    BY <1>5 DEF Received
  <2>6. Capacity(r, ret) = [k EXCEPT !.fd = open]
    BY <2>1, <2>2, <2>3 DEF Capacity, Returned
  <2>7. QED
    BY <2>4, <2>5, <2>6, ClosedOK
<1>6. CASE r.stage \notin {"read", "write", "init", "capacity"}
  <2>1. PICK yes \in BOOLEAN : yes <=> ret = 0
    OBVIOUS
  <2>2. Received(r, ret, moved, spoilt) = Returned(r, yes)
    BY <1>6, <2>1 DEF Received, Returned
  <2>3. QED
    BY <1>2, <1>6, <2>2, ReturnedOK
<1>7. QED
  BY <1>1, <1>3, <1>4, <1>5, <1>6

(* Client c, which has no message in the queue q, is told r. *)
LEMMA AckedInv ==
    ASSUME UsbInv, NEW q \in Seq(UsbMessages), QueueOK(q, client, NoClient), AskedOK(q),
           NEW c \in UsbClients, Absent(q, c), NEW r \in ClientRecs, ClientOK(r), Ack(c, q, r),
           tpc' = "idle", work' \in Works(work'.found), work'.from = NoClient,
           UNCHANGED <<hub, ids>>
    PROVE  UsbInv'
<1>1. /\ client' \in [UsbClients -> ClientRecs] /\ client'[c] = r
      /\ \A d \in UsbClients \ {c} : client'[d] = client[d]
  BY DEF Ack, UsbInv, UsbTypeOK
<1>2. \A d \in UsbClients : ClientOK(client'[d])
  BY <1>1 DEF UsbInv
<1>3. QueueOK(q, client', NoClient)
  BY <1>1, ChangeOK
<1>4. CASE r.stage = "none"
  <2>1. messages' = q
    BY <1>4 DEF Ack
  <2>2. UsbTypeOK'
    BY <1>1, <2>1 DEF UsbInv, UsbTypeOK
  <2>3. QED
    BY <1>2, <1>3, <2>1, <2>2 DEF UsbInv, WorkOK, CyclePcs, MountPcs, ClientOK, QueueOK, AskedOK
<1>5. CASE r.stage # "none"
  <2>1. PICK msg : msg = [op |-> r.stage, from |-> c, result |-> 0]
    OBVIOUS
  <2>2. msg \in UsbMessages /\ msg.op = r.stage /\ msg.from = c /\ msg.from # NoClient
    BY <1>5, <2>1, UsbAssumption DEF UsbMessages, ClientRecs
  <2>3. messages' = Append(q, msg)
    BY <1>5, <2>1 DEF Ack
  <2>4. /\ messages' \in Seq(UsbMessages) /\ QueueOK(messages', client', NoClient)
        /\ AskedOK(messages')
    BY <1>1, <1>3, <2>2, <2>3, AppendOK
  <2>5. UsbTypeOK'
    BY <1>1, <2>4 DEF UsbInv, UsbTypeOK
  <2>6. QED
    BY <1>2, <2>4, <2>5 DEF UsbInv, WorkOK, CyclePcs, MountPcs, ClientOK, QueueOK, AskedOK
<1>6. QED
  BY <1>4, <1>5

(* The client whose message is at the head of the queue is answered; q is  *)
(* what is left, possibly with a message of the module to itself.          *)
LEMMA AnswerInv ==
    ASSUME UsbInv, NEW op \in ClientOps, Take(op), NEW ret \in Nat,
           op \in {"read", "write"} => ret # 0,
           NEW q \in {Tail(messages),
                      Append(Tail(messages), [op |-> "mount", from |-> NoClient, result |-> 0])},
           AckWith(Head(messages).from, q, ret), UNCHANGED <<tpc, work, hub, ids>>
    PROVE  UsbInv'
<1> DEFINE c == Head(messages).from
<1>1. /\ messages \in Seq(UsbMessages) /\ messages # <<>> /\ Head(messages).op = op
      /\ tpc = "idle" /\ work.from = NoClient /\ work \in Works(work.found)
      /\ QueueOK(messages, client, NoClient) /\ AskedOK(messages)
  BY DEF Take, UsbInv, UsbTypeOK, WorkOK
<1>2. /\ Tail(messages) \in Seq(UsbMessages) /\ QueueOK(Tail(messages), client, NoClient)
      /\ AskedOK(Tail(messages)) /\ c \in UsbClients
  BY <1>1, TailOK
<1>3. client[c].stage = op /\ Absent(Tail(messages), c)
  BY <1>1, <1>2, TailOK, UsbAssumption
<1>4. /\ q \in Seq(UsbMessages) /\ QueueOK(q, client, NoClient) /\ AskedOK(q) /\ Absent(q, c)
  <2>1. PICK msg : msg = [op |-> "mount", from |-> NoClient, result |-> 0]
    OBVIOUS
  <2>2. msg \in UsbMessages /\ msg.from = NoClient /\ msg.op \notin ClientOps
    BY <2>1 DEF UsbMessages, ClientOps
  <2>3. CASE q = Append(Tail(messages), msg)
    <3>1. q \in Seq(UsbMessages) /\ QueueOK(q, client, NoClient) /\ AskedOK(q)
      BY <1>2, <2>2, <2>3, AppendOK
    <3>2. \A i \in DOMAIN q : q[i] = msg \/ (i \in DOMAIN Tail(messages) /\ q[i] = Tail(messages)[i])
      BY <1>2, <2>2, <2>3, AppendProperties, LenProperties
    <3>3. Absent(q, c)
      BY <1>2, <1>3, <2>2, <3>2, UsbAssumption DEF Absent
    <3>4. QED
      BY <3>1, <3>3
  <2>4. QED
    BY <1>2, <1>3, <2>1, <2>3
<1>5. PICK no \in BOOLEAN : no = FALSE
  OBVIOUS
<1>6. PICK r : r = Received(client[c], ret, no, no)
  OBVIOUS
<1>7. client[c] \in ClientRecs /\ ClientOK(client[c]) /\ client[c].stage # "none"
  BY <1>2, <1>3 DEF UsbInv, UsbTypeOK, ClientOps
<1>8. r \in ClientRecs /\ ClientOK(r)
  BY <1>3, <1>6, <1>7, ReceivedOK
<1>9. Ack(c, q, r)
  BY <1>5, <1>6 DEF AckWith
<1>10. tpc' = "idle" /\ work' \in Works(work'.found) /\ work'.from = NoClient
  BY <1>1
<1>11. QED
  BY <1>2, <1>4, <1>8, <1>9, <1>10, AckedInv

(* The queue gets a message of IOS. *)
LEMMA ToldInv ==
    ASSUME UsbInv, NEW op \in {"devchange", "attach"}, NEW n \in Nat,
           messages' = Append(messages, [op |-> op, from |-> NoClient, result |-> n]),
           UNCHANGED <<tpc, work, client, hub, ids>>
    PROVE  UsbInv'
<1>1. PICK msg : msg = [op |-> op, from |-> NoClient, result |-> n]
  OBVIOUS
<1>2. msg \in UsbMessages /\ msg.from = NoClient /\ msg.op \notin ClientOps
  BY <1>1 DEF UsbMessages, ClientOps
<1>3. /\ messages' \in Seq(UsbMessages) /\ QueueOK(messages', client, work.from)
      /\ AskedOK(messages')
  BY <1>1, <1>2, AppendOK DEF UsbInv, UsbTypeOK
<1>4. UsbTypeOK'
  BY <1>3 DEF UsbInv, UsbTypeOK
<1>5. QED
  BY <1>3, <1>4 DEF UsbInv, WorkOK, PieceOK, ClientOK, QueueOK, AskedOK

(* A message without a client is taken. *)
LEMMA TakenInv ==
    ASSUME UsbInv, messages # <<>>, messages' = Tail(messages), UNCHANGED <<tpc, work, client, hub, ids>>
    PROVE  UsbInv'
<1>1. /\ messages' \in Seq(UsbMessages) /\ QueueOK(messages', client, work.from)
      /\ AskedOK(messages')
  BY TailOK DEF UsbInv, UsbTypeOK
<1>2. UsbTypeOK'
  BY <1>1 DEF UsbInv, UsbTypeOK
<1>3. QED
  BY <1>1, <1>2 DEF UsbInv, WorkOK, PieceOK, ClientOK, QueueOK, AskedOK

(* Nothing but the module's memory of disks changes. *)
LEMMA StaysInv ==
    ASSUME UsbInv, UNCHANGED <<messages, tpc, work, client>>,
           hub' \in Seq([id : Nat, model : Models]), ids' \in Nat
    PROVE  UsbInv'
BY DEF UsbInv, UsbTypeOK, WorkOK, PieceOK, ClientOK, QueueOK, AskedOK

(* The thread goes on mounting. *)
LEMMA MountInv ==
    ASSUME UsbInv, tpc \in MountPcs, tpc' \in MountPcs, work' \in Works(work'.found),
           work'.from = work.from, UNCHANGED <<messages, client, hub, ids>>
    PROVE  UsbInv'
<1>1. UsbTypeOK'
  BY DEF UsbInv, UsbTypeOK
<1>2. QED
  BY <1>1 DEF UsbInv, WorkOK, ClientOK, QueueOK, AskedOK, MountPcs, CyclePcs

(* Or with a piece. *)
LEMMA CycleInv ==
    ASSUME UsbInv, tpc \in CyclePcs, tpc' \in CyclePcs, work' \in Works(work'.found),
           work'.from = work.from, PieceOK(work)', UNCHANGED <<messages, client, hub, ids>>
    PROVE  UsbInv'
<1>1. UsbTypeOK'
  BY DEF UsbInv, UsbTypeOK
<1>2. QED
  BY <1>1 DEF UsbInv, WorkOK, ClientOK, QueueOK, AskedOK, MountPcs, CyclePcs

(* The client the thread works for is answered. *)
LEMMA WorkEndsInv ==
    ASSUME UsbInv, tpc # "idle", work.from \in UsbClients, NEW ret \in Nat,
           NEW moved \in BOOLEAN, NEW spoilt \in BOOLEAN,
           tpc \in CyclePcs /\ ret = 0 => moved \/ spoilt,
           Ack(work.from, messages, Received(client[work.from], ret, moved, spoilt)),
           Idle, UNCHANGED <<hub, ids>>
    PROVE  UsbInv'
<1>1. /\ client[work.from] \in ClientRecs /\ ClientOK(client[work.from])
      /\ messages \in Seq(UsbMessages) /\ AskedOK(messages)
      /\ QueueOK(messages, client, work.from)
  BY DEF UsbInv, UsbTypeOK
<1>2. /\ client[work.from].stage # "none"
      /\ client[work.from].stage \in {"read", "write"} => tpc \in CyclePcs
  BY UsbAssumption DEF UsbInv, UsbTypeOK, WorkOK, MountPcs, CyclePcs
<1>3. QueueOK(messages, client, NoClient) /\ Absent(messages, work.from)
  BY <1>1, UsbAssumption DEF QueueOK, Absent
<1>4. PICK r : r = Received(client[work.from], ret, moved, spoilt)
  OBVIOUS
<1>5. r \in ClientRecs /\ ClientOK(r)
  BY <1>1, <1>2, <1>4, ReceivedOK
<1>6. tpc' = "idle" /\ work' \in Works(work'.found) /\ work'.from = NoClient
  BY NoWorkType DEF Idle
<1>7. Ack(work.from, messages, r)
  BY <1>4
<1>8. QED
  BY <1>1, <1>3, <1>5, <1>6, <1>7, AckedInv

-----------------------------------------------------------------------------
(* The clients. *)

LEMMA CallingOK ==
    ASSUME UsbInv, NEW c \in UsbClients,
           NEW what \in {"init", "read", "write", "inserted", "shutdown", "loader"}
    PROVE  /\ Calling(c, what) \in ClientRecs /\ Calling(c, what).call = what
           /\ Calling(c, what).whole /\ ~Calling(c, what).result
           /\ Calling(c, what).stage = client[c].stage
<1>1. PICK r \in ClientRecs : r = client[c]
  BY DEF UsbInv, UsbTypeOK
<1>2. PICK k : k = [r EXCEPT !.call = what, !.piece = 1, !.whole = TRUE, !.spoilt = FALSE,
                             !.result = FALSE]
  OBVIOUS
<1>3. k \in ClientRecs /\ k.call = what /\ k.whole /\ ~k.result /\ k.stage = r.stage
  BY <1>2 DEF ClientRecs
<1>4. QED
  BY <1>1, <1>2, <1>3 DEF Calling

LEMMA WorkForOK ==
    ASSUME UsbInv, UNCHANGED <<tpc, work>>,
           \A d \in UsbClients : d = work.from => client'[d].stage = client[d].stage
    PROVE  WorkOK'
<1>1. work.from \in UsbClients \cup {NoClient} /\ WorkOK
  BY DEF UsbInv, UsbTypeOK, Works
<1>2. PieceOK(work) => PieceOK(work)'
  BY DEF PieceOK
<1>3. QED
  BY <1>1, <1>2 DEF WorkOK

LEMMA AskInv ==
    ASSUME UsbInv, NEW c \in UsbClients, client[c].stage = "none", NEW op \in ClientOps,
           NEW r \in ClientRecs, r.whole, ~r.result,
           op \in {"read", "write"} => r.call = op,
           op \notin {"read", "write"} => r.call \notin {"read", "write"},
           Ask(c, op, r), UNCHANGED <<tpc, work, hub, ids>>
    PROVE  UsbInv'
<1>1. PICK k : k = [r EXCEPT !.stage = op]
  OBVIOUS
<1>2. k \in ClientRecs /\ k.stage = op /\ k.call = r.call /\ k.whole /\ ~k.result
  BY <1>1 DEF ClientRecs
<1>3. client' = [client EXCEPT ![c] = k]
  BY <1>1 DEF Ask
<1>4. ClientOK(k)
  BY <1>2 DEF ClientOK
<1>5. /\ client' \in [UsbClients -> ClientRecs] /\ client'[c] = k
      /\ \A d \in UsbClients \ {c} : client'[d] = client[d]
  BY <1>2, <1>3 DEF UsbInv, UsbTypeOK
<1>6. /\ messages \in Seq(UsbMessages) /\ QueueOK(messages, client, work.from)
      /\ AskedOK(messages) /\ c # NoClient
  BY UsbAssumption DEF UsbInv, UsbTypeOK
<1>7. Absent(messages, c)
  <2>1. \A i \in DOMAIN messages : messages[i] \in UsbMessages
    BY <1>6, ElementOfSeq, LenProperties
  <2>2. ASSUME NEW i \in DOMAIN messages, messages[i].from = c PROVE FALSE
    <3>1. messages[i].op = "none"
      BY <1>6, <2>2 DEF QueueOK
    <3>2. QED
      BY <2>1, <2>2, <3>1 DEF UsbMessages, ClientOps
  <2>3. QED
    BY <2>2 DEF Absent
<1>8. work.from # c
  BY <1>6 DEF UsbInv, UsbTypeOK, WorkOK, MountPcs, CyclePcs
<1>9. QueueOK(messages, client', work.from)
  BY <1>5, <1>6, <1>7, ChangeOK
<1>10. PICK msg : msg = [op |-> op, from |-> c, result |-> 0]
  OBVIOUS
<1>11. msg \in UsbMessages /\ msg.from = c /\ msg.op = op
  BY <1>10 DEF UsbMessages
<1>12. messages' = Append(messages, msg)
  BY <1>10 DEF Ask
<1>13. /\ messages' \in Seq(UsbMessages) /\ QueueOK(messages', client', work.from)
       /\ AskedOK(messages')
  BY <1>2, <1>5, <1>6, <1>7, <1>8, <1>9, <1>11, <1>12, AppendOK
<1>14. UsbTypeOK'
  BY <1>5, <1>13 DEF UsbInv, UsbTypeOK
<1>15. \A d \in UsbClients : ClientOK(client'[d])
  BY <1>4, <1>5 DEF UsbInv
<1>16. WorkOK'
  BY <1>5, <1>8, WorkForOK
<1>17. QED
  BY <1>13, <1>14, <1>15, <1>16 DEF UsbInv, ClientOK, QueueOK, AskedOK

LEMMA CallsInv ==
    ASSUME UsbInv, NEW c \in UsbClients, Calls(c)
    PROVE  UsbInv'
<1>0. UNCHANGED <<tpc, work, hub, ids>> /\ client[c].stage = "none"
  BY DEF Calls, usbIos, usbstorage_Init, usbstorage_ReadSectors, usbstorage_WriteSectors,
         usbstorage_IsInserted, usbstorage_Shutdown, Loader
<1>1. CASE usbstorage_Init(c)
  <2>1. PICK r : r = Calling(c, "init")
    OBVIOUS
  <2>2. r \in ClientRecs /\ r.call = "init" /\ r.whole /\ ~r.result
    BY <2>1, CallingOK
  <2>3. PICK k : k = [r EXCEPT !.fd = TRUE]
    OBVIOUS
  <2>4. k \in ClientRecs /\ k.call = "init" /\ k.whole /\ ~k.result
    BY <2>2, <2>3 DEF ClientRecs
  <2>5. Ask(c, "init", k)
    BY <1>1, <2>1, <2>3 DEF usbstorage_Init
  <2>6. QED
    BY <1>0, <2>4, <2>5, AskInv DEF ClientOps
<1>2. CASE usbstorage_ReadSectors(c)
  <2>1. PICK r : r = Calling(c, "read")
    OBVIOUS
  <2>2. r \in ClientRecs /\ r.call = "read" /\ r.whole /\ ~r.result
    BY <2>1, CallingOK
  <2>3. QED
    BY <1>0, <1>2, <2>1, <2>2, AskInv DEF ClientOps, usbstorage_ReadSectors
<1>3. CASE usbstorage_WriteSectors(c)
  <2>1. PICK r : r = Calling(c, "write")
    OBVIOUS
  <2>2. r \in ClientRecs /\ r.call = "write" /\ r.whole /\ ~r.result
    BY <2>1, CallingOK
  <2>3. QED
    BY <1>0, <1>3, <2>1, <2>2, AskInv DEF ClientOps, usbstorage_WriteSectors
<1>4. CASE usbstorage_IsInserted(c)
  <2>1. PICK r : r = Calling(c, "inserted")
    OBVIOUS
  <2>2. r \in ClientRecs /\ r.call = "inserted" /\ r.whole /\ ~r.result
    BY <2>1, CallingOK
  <2>3. QED
    BY <1>0, <1>4, <2>1, <2>2, AskInv DEF ClientOps, usbstorage_IsInserted
<1>5. CASE Loader(c)
  <2>1. PICK r : r = Calling(c, "loader")
    OBVIOUS
  <2>2. r \in ClientRecs /\ r.call = "loader" /\ r.whole /\ ~r.result
    BY <2>1, CallingOK
  <2>3. PICK op \in {"inserted", "unmount"} : Ask(c, op, r)
    BY <1>5, <2>1 DEF Loader
  <2>4. QED
    BY <1>0, <2>2, <2>3, AskInv DEF ClientOps
<1>6. CASE usbstorage_Shutdown(c)
  <2>1. PICK r : r = Calling(c, "shutdown")
    OBVIOUS
  <2>2. r \in ClientRecs /\ r.call = "shutdown" /\ r.stage = "none"
    BY <1>0, <2>1, CallingOK
  <2>3. PICK k : k = [r EXCEPT !.fd = FALSE]
    OBVIOUS
  <2>4. k \in ClientRecs /\ k.call = "shutdown" /\ k.stage = "none"
    BY <2>2, <2>3 DEF ClientRecs
  <2>5. client' = [client EXCEPT ![c] = k] /\ UNCHANGED messages
    BY <1>6, <2>1, <2>3 DEF usbstorage_Shutdown
  <2>6. /\ client' \in [UsbClients -> ClientRecs] /\ client'[c] = k
        /\ \A d \in UsbClients \ {c} : client'[d] = client[d]
        /\ \A d \in UsbClients : client'[d].stage = client[d].stage
    BY <1>0, <2>4, <2>5 DEF UsbInv, UsbTypeOK
  <2>7. UsbTypeOK'
    BY <1>0, <2>5, <2>6 DEF UsbInv, UsbTypeOK
  <2>8. \A d \in UsbClients : ClientOK(client'[d])
    BY <2>4, <2>6 DEF UsbInv, ClientOK
  <2>9. \A i \in DOMAIN messages : messages[i].from \in UsbClients \cup {NoClient}
    <3>1. \A i \in DOMAIN messages : messages[i] \in UsbMessages
      BY ElementOfSeq, LenProperties DEF UsbInv, UsbTypeOK
    <3>2. QED
      BY <3>1 DEF UsbMessages
  <2>10. QueueOK(messages, client', work.from)
    BY <2>6, <2>9 DEF UsbInv, QueueOK
  <2>11. WorkOK'
    BY <1>0, <2>6, WorkForOK
  <2>12. QED
    BY <1>0, <2>5, <2>7, <2>8, <2>10, <2>11 DEF UsbInv, ClientOK, QueueOK, AskedOK
<1>7. QED
  BY <1>1, <1>2, <1>3, <1>4, <1>5, <1>6 DEF Calls

-----------------------------------------------------------------------------
(* The user and IOS. *)

LEMMA AttachInv ==
    ASSUME UsbInv, NEW limit \in Nat, Attach(limit)
    PROVE  UsbInv'
<1>1. PICK m \in Models : hub' = Append(hub, [id |-> ids + 1, model |-> m])
  BY DEF Attach
<1>2. [id |-> ids + 1, model |-> m] \in [id : Nat, model : Models] /\ ids' \in Nat
  BY DEF Attach, UsbInv, UsbTypeOK
<1>3. hub' \in Seq([id : Nat, model : Models])
  BY <1>1, <1>2, AppendProperties DEF UsbInv, UsbTypeOK
<1>4. QED
  BY <1>2, <1>3, StaysInv DEF Attach

LEMMA DetachInv ==
    ASSUME UsbInv, Detach
    PROVE  UsbInv'
<1> DEFINE S == [id : Nat, model : Models]
<1>1. PICK i \in DOMAIN hub : hub' = RemoveAt(hub, i)
  BY DEF Detach
<1>2. hub \in Seq(S) /\ ids \in Nat
  BY DEF UsbInv, UsbTypeOK
<1> HIDE DEF S
<1>3. i \in 1..Len(hub) /\ Len(hub) \in Nat
  BY <1>1, <1>2, LenProperties
<1>4. SubSeq(hub, 1, i - 1) \in Seq(S) /\ SubSeq(hub, i + 1, Len(hub)) \in Seq(S)
  BY <1>2, <1>3, SubSeqProperties
<1>5. hub' \in Seq(S)
  BY <1>1, <1>4, ConcatProperties DEF RemoveAt
<1>6. QED
  BY <1>2, <1>5, StaysInv DEF Detach, S

LEMMA IosInv ==
    ASSUME UsbInv, Ios
    PROVE  UsbInv'
<1>1. CASE TellChange
  <2>1. Len(hub) \in Nat /\ hub \in Seq([id : Nat, model : Models]) /\ ids \in Nat
    BY LenProperties DEF UsbInv, UsbTypeOK
  <2>2. CASE messages' = Append(messages, [op |-> "devchange", from |-> NoClient, result |-> Len(hub)])
    BY <1>1, <2>1, <2>2, ToldInv DEF TellChange
  <2>3. CASE UNCHANGED messages
    BY <1>1, <2>1, <2>3, StaysInv DEF TellChange
  <2>4. QED
    BY <1>1, <2>2, <2>3 DEF TellChange
<1>2. CASE TellAttached
  <2>1. PICK n \in Nat : messages' = Append(messages, [op |-> "attach", from |-> NoClient, result |-> n])
    BY <1>2 DEF TellAttached
  <2>2. QED
    BY <1>2, <2>1, ToldInv DEF TellAttached
<1>3. QED
  BY <1>1, <1>2 DEF Ios

-----------------------------------------------------------------------------
(* The thread. *)

LEMMA HandlersInv ==
    ASSUME UsbInv, \/ USB_DeviceChange \/ USB_AttachFinish \/ usbstorage_Startup \/ Unmount
                   \/ GetCapacity
    PROVE  UsbInv'
<1>1. CASE USB_DeviceChange
  BY <1>1, TakenInv DEF USB_DeviceChange, Take
<1>2. CASE USB_AttachFinish
  BY <1>2, TakenInv DEF USB_AttachFinish, Take
<1>3. CASE usbstorage_Startup
  <2>1. Take("init") /\ UNCHANGED <<tpc, work, hub, ids>>
    BY <1>3 DEF usbstorage_Startup
  <2>2. CASE AckWith(Head(messages).from, Tail(messages), 1)
    BY <2>1, <2>2, AnswerInv DEF ClientOps
  <2>3. CASE AckWith(Head(messages).from,
                     Append(Tail(messages), [op |-> "mount", from |-> NoClient, result |-> 0]), 0)
    BY <2>1, <2>3, AnswerInv DEF ClientOps
  <2>4. QED
    BY <1>3, <2>2, <2>3 DEF usbstorage_Startup
<1>4. CASE Unmount
  BY <1>4, AnswerInv DEF Unmount, ClientOps, usbIos
<1>5. CASE GetCapacity
  <2>1. PICK ret \in Nat : AckWith(Head(messages).from, Tail(messages), ret)
    BY <1>5 DEF GetCapacity, AckWith
  <2>2. QED
    BY <1>5, <2>1, AnswerInv DEF GetCapacity, ClientOps, usbIos
<1>6. QED
  BY <1>1, <1>2, <1>3, <1>4, <1>5

(* The thread takes a message to work on. *)
LEMMA BeginsInv ==
    ASSUME UsbInv, tpc = "idle", messages # <<>>, messages' = Tail(messages),
           work' \in Works(work'.found), work'.from = Head(messages).from,
           \/ /\ tpc' \in MountPcs
              /\ Head(messages).op \in {"mount", "inserted"}
           \/ /\ tpc' \in CyclePcs /\ PieceOK(work)'
              /\ Head(messages).op \in {"read", "write"},
           UNCHANGED <<client, hub, ids>>
    PROVE  UsbInv'
<1> DEFINE c == Head(messages).from
<1>1. /\ messages \in Seq(UsbMessages) /\ work.from = NoClient
      /\ QueueOK(messages, client, NoClient) /\ AskedOK(messages)
  BY DEF UsbInv, UsbTypeOK, WorkOK
<1>2. /\ Tail(messages) \in Seq(UsbMessages) /\ QueueOK(Tail(messages), client, NoClient)
      /\ Head(messages) \in UsbMessages
      /\ AskedOK(Tail(messages)) /\ (Head(messages).op \in ClientOps => c \in UsbClients)
      /\ c # NoClient => Head(messages).op = client[c].stage /\ Absent(Tail(messages), c)
  BY <1>1, TailOK
<1>3. c \in UsbClients \cup {NoClient}
  BY <1>2 DEF UsbMessages
<1>4. QueueOK(Tail(messages), client, c)
  <2>1. CASE c = NoClient
    BY <1>2, <2>1
  <2>2. CASE c # NoClient
    BY <1>2, <2>2, ChangeOK
  <2>3. QED
    BY <2>1, <2>2
<1>5. UsbTypeOK'
  BY <1>2 DEF UsbInv, UsbTypeOK
<1>6. c # NoClient => client[c].stage = Head(messages).op /\ client[c].stage # "mount"
  BY <1>2, <1>3 DEF UsbInv, UsbTypeOK, ClientRecs, ClientOps
<1>7. WorkOK'
  <2>1. CASE tpc' \in MountPcs /\ Head(messages).op \in {"mount", "inserted"}
    BY <1>6, <2>1 DEF WorkOK, MountPcs, CyclePcs
  <2>2. CASE tpc' \in CyclePcs /\ PieceOK(work)' /\ Head(messages).op \in {"read", "write"}
    <3>1. c \in UsbClients /\ c # NoClient
      BY <1>2, <2>2, UsbAssumption DEF ClientOps
    <3>2. QED
      BY <1>6, <2>2, <3>1 DEF WorkOK, MountPcs, CyclePcs
  <2>3. QED
    BY <2>1, <2>2
<1>8. QED
  BY <1>2, <1>4, <1>5, <1>7 DEF UsbInv, ClientOK, QueueOK, AskedOK

LEMMA IsInsertedInv ==
    ASSUME UsbInv, IsInserted
    PROVE  UsbInv'
<1>1. /\ tpc = "idle" /\ messages # <<>> /\ messages' = Tail(messages)
      /\ Head(messages).op \in {"mount", "inserted"} /\ UNCHANGED <<client, hub, ids>>
      /\ tpc' \in MountPcs
  BY DEF IsInserted, Take, usbIos, MountPcs
<1>2. PICK n : n = NoWork
  OBVIOUS
<1>3. n \in Works(n.found)
  BY <1>2, NoWorkType
<1>4. PICK h : h = Head(messages).from
  OBVIOUS
<1>5. h \in UsbClients \cup {NoClient}
  <2>1. Head(messages) \in UsbMessages
    BY <1>1, HeadTailProperties DEF UsbInv, UsbTypeOK
  <2>2. QED
    BY <1>4, <2>1 DEF UsbMessages
<1>6. PICK w : w = [n EXCEPT !.op = "mount", !.from = h, !.found = attached_devices]
  OBVIOUS
<1>7. w \in Works(w.found) /\ w.from = h
  BY <1>3, <1>5, <1>6 DEF Works
<1>8. work' = w
  BY <1>2, <1>4, <1>6 DEF IsInserted
<1>9. QED
  BY <1>1, <1>4, <1>7, <1>8, BeginsInv

LEMMA MountedInv ==
    ASSUME UsbInv, tpc \in MountPcs, NEW g, Mounted(g, messages), UNCHANGED <<hub, ids>>
    PROVE  UsbInv'
<1>1. CASE work.from = NoClient
  <2>1. UNCHANGED <<client, messages>> /\ tpc' = "idle" /\ work' = NoWork
    BY <1>1 DEF Mounted, Idle
  <2>2. UsbTypeOK'
    BY <2>1, NoWorkType DEF UsbInv, UsbTypeOK
  <2>3. QED
    BY <1>1, <2>1, <2>2, NoWorkType DEF UsbInv, WorkOK, ClientOK, QueueOK, AskedOK, MountPcs, CyclePcs
<1>2. CASE work.from # NoClient
  <2>1. PICK ret \in Nat : AckWith(work.from, messages, ret)
    BY <1>2 DEF Mounted
  <2>2. Idle /\ work.from \in UsbClients /\ tpc # "idle" /\ tpc \notin CyclePcs
    BY <1>2 DEF Mounted, UsbInv, UsbTypeOK, Works, MountPcs, CyclePcs
  <2>3. PICK no \in BOOLEAN : no = FALSE
    OBVIOUS
  <2>4. Ack(work.from, messages, Received(client[work.from], ret, no, no))
    BY <2>1, <2>3 DEF AckWith
  <2>5. QED
    BY <2>2, <2>4, WorkEndsInv
<1>3. QED
  BY <1>1, <1>2

LEMMA CloseInv ==
    ASSUME UsbInv, tpc \in MountPcs, USBStorage_Close, UNCHANGED <<hub, ids>>
    PROVE  UsbInv'
<1>1. PICK t : t = Tail(work.found)
  OBVIOUS
<1>2. work' = [work EXCEPT !.found = t]
  BY <1>1 DEF USBStorage_Close
<1>3. work' \in Works(work'.found) /\ work'.from = work.from
  BY <1>2 DEF UsbInv, UsbTypeOK, Works
<1>4. QED
  BY <1>3, MountInv DEF USBStorage_Close, MountPcs

LEMMA MountGoesInv ==
    ASSUME UsbInv, tpc \in MountPcs, NEW where \in MountPcs, MountGoes(where),
           UNCHANGED <<hub, ids>>
    PROVE  UsbInv'
BY MountInv DEF MountGoes, UsbInv, UsbTypeOK

LEMMA MountingInv ==
    ASSUME UsbInv, \/ Search \/ USB_OpenDevice \/ USB_GetDescriptors \/ USBStorage_Open
                   \/ __usbstorage_clearerrors \/ USBStorage_ReadCapacity \/ CheckMbr
    PROVE  UsbInv'
<1>0. UNCHANGED <<hub, ids>> /\ tpc \in MountPcs
  BY DEF Search, USB_OpenDevice, USB_GetDescriptors, USBStorage_Open, __usbstorage_clearerrors,
         USBStorage_ReadCapacity, CheckMbr, usbIos, MountPcs
<1>1. CASE Search
  BY <1>0, <1>1, MountedInv DEF Search
<1>2. CASE USB_OpenDevice
  <2>1. CASE tpc' = "descriptors" /\ UNCHANGED <<work, client, messages>>
    BY <1>0, <2>1, MountInv DEF MountPcs, UsbInv, UsbTypeOK
  <2>2. QED
    BY <1>0, <1>2, <2>1, MountedInv, CloseInv DEF USB_OpenDevice
<1>3. CASE USB_GetDescriptors
  BY <1>0, <1>3, MountGoesInv, CloseInv DEF USB_GetDescriptors, MountPcs
<1>4. CASE USBStorage_Open
  BY <1>0, <1>4, MountGoesInv, CloseInv DEF USBStorage_Open, MountPcs
<1>5. CASE __usbstorage_clearerrors
  BY <1>0, <1>5, MountGoesInv, CloseInv DEF __usbstorage_clearerrors, MountPcs
<1>6. CASE USBStorage_ReadCapacity
  BY <1>0, <1>6, MountGoesInv, CloseInv DEF USBStorage_ReadCapacity, MountPcs
<1>7. CASE CheckMbr
  BY <1>0, <1>7, MountedInv, CloseInv DEF CheckMbr
<1>8. QED
  BY <1>1, <1>2, <1>3, <1>4, <1>5, <1>6, <1>7

(* A piece. *)

LEMMA StartTransferInv ==
    ASSUME UsbInv, StartTransfer
    PROVE  UsbInv'
<1>0. PICK op \in {"read", "write"} : Take(op)
  BY DEF StartTransfer
<1>1. UNCHANGED <<hub, ids>>
  BY DEF StartTransfer, usbIos
<1>2. CASE glue.mounted /\ glue.usb_fd # 0
  <2>1. /\ tpc' = "cbw" /\ messages' = Tail(messages) /\ UNCHANGED client
        /\ tpc = "idle" /\ messages # <<>> /\ Head(messages).op = op
    BY <1>0, <1>2 DEF StartTransfer, Take
  <2>2. PICK n : n = NoWork
    OBVIOUS
  <2>3. n \in Works(n.found) /\ n.dev = 0 /\ n.pos = 0
    BY <2>2, NoWorkType DEF NoWork
  <2>4. PICK h : h = Head(messages).from
    OBVIOUS
  <2>5. h \in UsbClients \cup {NoClient}
    <3>1. Head(messages) \in UsbMessages
      BY <2>1, HeadTailProperties DEF UsbInv, UsbTypeOK
    <3>2. QED
      BY <2>4, <3>1 DEF UsbMessages
  <2>6. PICK w : w = [n EXCEPT !.op = op, !.from = h, !.tries = CycleTries]
    OBVIOUS
  <2>7. w \in Works(w.found) /\ w.from = h /\ w.dev = 0 /\ w.pos = 0
    BY <2>3, <2>5, <2>6, UsbAssumption DEF Works
  <2>8. work' = w
    BY <1>2, <2>1, <2>2, <2>4, <2>6 DEF StartTransfer
  <2>9. PieceOK(work)'
    BY <2>1, <2>7, <2>8, UsbAssumption DEF PieceOK
  <2>10. QED
    BY <1>0, <1>1, <2>1, <2>4, <2>7, <2>8, <2>9, BeginsInv DEF CyclePcs
<1>3. CASE ~(glue.mounted /\ glue.usb_fd # 0)
  <2>1. AckWith(Head(messages).from, Tail(messages), 1) /\ UNCHANGED <<tpc, work>>
    BY <1>3 DEF StartTransfer
  <2>2. QED
    BY <1>0, <1>1, <2>1, AnswerInv DEF ClientOps
<1>4. QED
  BY <1>2, <1>3

LEMMA TransferEndsInv ==
    ASSUME UsbInv, tpc \in CyclePcs, NEW ok \in BOOLEAN, TransferEnds(ok), UNCHANGED <<hub, ids>>,
           ok => Whole \/ work.spoilt
    PROVE  UsbInv'
<1>1. PICK ret \in Nat : ret = IF ok THEN 0 ELSE 1
  OBVIOUS
<1>2. PICK moved \in BOOLEAN : moved = Whole
  BY DEF Whole
<1>3. PICK spoilt \in BOOLEAN : spoilt = work.spoilt
  BY DEF UsbInv, UsbTypeOK, Works
<1>4. /\ Ack(work.from, messages, Received(client[work.from], ret, moved, spoilt)) /\ Idle
      /\ work.from \in UsbClients /\ tpc # "idle"
  BY <1>1, <1>2, <1>3 DEF TransferEnds, UsbInv, WorkOK, CyclePcs
<1>5. ret = 0 => moved \/ spoilt
  BY <1>1, <1>2, <1>3
<1>6. QED
  BY <1>4, <1>5, WorkEndsInv

(* A further attempt with the work w: nothing of it is in place that would *)
(* be sent again.                                                          *)
LEMMA TryAgainInv ==
    ASSUME UsbInv, tpc \in CyclePcs, NEW w \in Works(work.found), w.found = work.found, w.from = work.from,
           ~w.spoilt => /\ w.pos \in {0, Parts}
                        /\ \A k \in 1..Parts : k <= w.pos => w.placed[k] = k,
           TryAgain(w), UNCHANGED <<hub, ids>>
    PROVE  UsbInv'
<1>1. CASE w.tries > 1
  <2>1. PICK t \in Nat : t = w.tries - 1
    BY <1>1 DEF Works
  <2>2. /\ tpc' = "cbw" /\ work' = [w EXCEPT !.tries = t, !.dev = 0]
        /\ UNCHANGED <<client, messages>>
    BY <1>1, <2>1 DEF TryAgain
  <2>3. /\ work' \in Works(work'.found) /\ work'.from = work.from /\ work'.spoilt = w.spoilt
        /\ work'.dev = 0 /\ work'.pos = w.pos /\ work'.placed = w.placed
    BY <2>2 DEF Works
  <2>4. PieceOK(work)'
    BY <2>2, <2>3, UsbAssumption DEF PieceOK
  <2>5. QED
    BY <2>2, <2>3, <2>4, CycleInv DEF CyclePcs
<1>2. CASE ~(w.tries > 1)
  <2>1. PICK no \in BOOLEAN : no = FALSE
    OBVIOUS
  <2>2. TransferEnds(no)
    BY <1>2, <2>1 DEF TryAgain
  <2>3. QED
    BY <2>1, <2>2, TransferEndsInv
<1>3. QED
  BY <1>1, <1>2

LEMMA CycleStepsInv ==
    ASSUME UsbInv, __send_cbw \/ DataMoves \/ DataShort \/ DataFails \/ __read_csw
    PROVE  UsbInv'
<1>0. /\ tpc \in CyclePcs /\ UNCHANGED <<hub, ids>> /\ work \in Works(work.found)
  BY DEF __send_cbw, DataMoves, DataShort, DataFails, __read_csw, usbIos, CyclePcs, UsbInv, UsbTypeOK
<1>1. PieceOK(work) /\ Parts \in Nat \ {0}
  BY <1>0, UsbAssumption DEF UsbInv, WorkOK
<1>2. CASE __send_cbw
  <2>1. tpc = "cbw"
    BY <1>2 DEF __send_cbw
  <2>2. CASE tpc' = (IF work.pos < Parts THEN "data" ELSE "csw") /\ UNCHANGED <<work, client, messages>>
    <3>1. PieceOK(work)'
      BY <1>1, <2>1, <2>2 DEF PieceOK
    <3>2. QED
      BY <1>0, <2>2, <3>1, CycleInv DEF CyclePcs
  <2>3. CASE TryAgain(work)
    BY <1>0, <1>1, <2>1, <2>3, TryAgainInv DEF PieceOK
  <2>4. QED
    BY <1>2, <2>2, <2>3 DEF __send_cbw
<1>3. CASE DataMoves
  <2>1. /\ tpc = "data" /\ tpc' = (IF work.pos + 1 < Parts THEN "data" ELSE "csw")
        /\ UNCHANGED <<client, messages>>
    BY <1>3 DEF DataMoves
  <2>2. PICK p \in Nat, d \in Nat : p = work.pos + 1 /\ d = work.dev + 1
    BY <1>0 DEF Works
  <2>3. PICK f \in [1..Parts -> Nat] : f = [work.placed EXCEPT ![p] = d]
    BY <1>0 DEF Works
  <2>4. work' = [work EXCEPT !.pos = p, !.dev = d, !.placed = f]
    BY <1>0, <1>3, <2>2, <2>3 DEF DataMoves, Moved, Works
  <2>5. /\ work' \in Works(work'.found) /\ work'.from = work.from /\ work'.spoilt = work.spoilt
        /\ work'.dev = d /\ work'.pos = p /\ work'.placed = f
    BY <1>0, <2>4 DEF Works
  <2>6. ASSUME ~work.spoilt PROVE \A k \in 1..Parts : k <= p => f[k] = k
    <3>1. /\ work.pos \in 0..Parts /\ work.dev = work.pos /\ work.pos < Parts
          /\ \A k \in 1..Parts : k <= work.pos => work.placed[k] = k
      BY <1>1, <2>1, <2>6 DEF PieceOK
    <3>2. d = p /\ p \in 1..Parts
      BY <1>1, <2>2, <3>1
    <3>3. work.placed \in [1..Parts -> Nat]
      BY <1>0 DEF Works
    <3>4. f[p] = d
      BY <2>3, <3>2, <3>3
    <3>5. \A k \in 1..Parts : k # p => f[k] = work.placed[k]
      BY <2>3, <3>3
    <3>6. \A k \in 1..Parts : k <= p => k = p \/ k <= work.pos
      BY <2>2, <3>1
    <3>7. QED
      BY <3>1, <3>2, <3>4, <3>5, <3>6
  <2>7. PieceOK(work)'
    BY <1>1, <2>1, <2>2, <2>5, <2>6 DEF PieceOK
  <2>8. QED
    BY <1>0, <2>1, <2>5, <2>7, CycleInv DEF CyclePcs
<1>4. CASE DataShort
  <2>1. /\ work' = [work EXCEPT !.spoilt = TRUE] /\ tpc' = "csw" /\ UNCHANGED <<client, messages>>
    BY <1>4 DEF DataShort
  <2>2. work' \in Works(work'.found) /\ work'.from = work.from /\ work'.spoilt
    BY <1>0, <2>1 DEF Works
  <2>3. QED
    BY <1>0, <2>1, <2>2, CycleInv DEF CyclePcs, PieceOK
<1>5. CASE DataFails
  <2>1. PICK p \in BOOLEAN : p <=> work.spoilt \/ work.op = "read" \/ work.pos > 0
    OBVIOUS
  <2>2. PICK w : w = [work EXCEPT !.spoilt = p]
    OBVIOUS
  <2>3. /\ w \in Works(work.found) /\ w.from = work.from /\ w.found = work.found /\ w.spoilt = p
        /\ w.pos = work.pos /\ w.placed = work.placed /\ w.pos \in Nat
    BY <1>0, <2>2 DEF Works
  <2>4. TryAgain(w) /\ tpc = "data"
    BY <1>0, <1>5, <2>1, <2>2 DEF DataFails, Works
  <2>5. QED
    BY <1>0, <1>1, <2>1, <2>3, <2>4, TryAgainInv DEF PieceOK
<1>6. CASE __read_csw
  <2>1. tpc = "csw"
    BY <1>6 DEF __read_csw
  <2>2. CASE TransferEnds(TRUE)
    <3>1. PICK yes \in BOOLEAN : yes = TRUE
      OBVIOUS
    <3>2. TransferEnds(yes)
      BY <2>2, <3>1
    <3>3. ASSUME ~work.spoilt PROVE Whole
      <4>1. work.pos = Parts /\ \A k \in 1..Parts : k <= work.pos => work.placed[k] = k
        BY <1>1, <2>1, <3>3 DEF PieceOK
      <4>2. QED
        BY <1>1, <4>1 DEF Whole
    <3>4. QED
      BY <1>0, <3>2, <3>3, TransferEndsInv
  <2>3. CASE TryAgain(work)
    BY <1>0, <1>1, <2>1, <2>3, TryAgainInv DEF PieceOK
  <2>4. QED
    BY <1>6, <2>2, <2>3 DEF __read_csw
<1>7. QED
  BY <1>2, <1>3, <1>4, <1>5, <1>6

LEMMA UsbNextInv ==
    ASSUME UsbInv, NEW limit \in Nat, [UsbNext(limit)]_usbVars
    PROVE  UsbInv'
<1>1. CASE UsbThread
  BY <1>1, HandlersInv, IsInsertedInv, MountingInv, StartTransferInv, CycleStepsInv DEF UsbThread
<1>2. CASE Ios
  BY <1>2, IosInv
<1>3. CASE \E c \in UsbClients : Calls(c)
  BY <1>3, CallsInv
<1>4. CASE Attach(limit) \/ Detach
  BY <1>4, AttachInv, DetachInv
<1>5. CASE UNCHANGED usbVars
  BY <1>5, StaysInv DEF usbVars, usbIos, UsbInv, UsbTypeOK
<1>6. QED
  BY <1>1, <1>2, <1>3, <1>4, <1>5 DEF UsbNext

(* Whatever fails or is pulled out, each client that waits has one message *)
(* under way, of the kind it waits for, and the parts of the piece the     *)
(* thread works on are where the positions say (usb-module/main.c,         *)
(* usbstorage.c).                                                          *)
THEOREM UsbInvariant == ASSUME NEW limit \in Nat PROVE UsbSpec(limit) => []UsbInv
<1>1. UsbInit => UsbInv
  BY UsbInitInv
<1>2. UsbInv /\ [UsbNext(limit)]_usbVars => UsbInv'
  BY UsbNextInv
<1>3. QED
  BY <1>1, <1>2, PTL DEF UsbSpec

(* A read or a write of a client that succeeded has every part of every    *)
(* piece in its place, unless a transfer broke off in the middle of the    *)
(* data (__usbstorage_ReadWriteSectors, __cycle).                          *)
THEOREM PiecesStayWhole ==
    ASSUME NEW limit \in Nat PROVE UsbSpec(limit) => []PiecesAreWhole
<1>1. UsbInv => PiecesAreWhole
  BY DEF UsbInv, UsbTypeOK, ClientRecs, ClientOK, PiecesAreWhole
<1>2. QED
  BY <1>1, UsbInvariant, PTL
-----------------------------------------------------------------------------
(* The emulated NAND. *)

NandTypeOK ==
    /\ disk = [d \in Devices |-> disk[d]]
    /\ fs \in [type : BOOLEAN, drv : Devices, win : {fs.win}, winsect : {fs.winsect},
               wflag : {fs.wflag}, last : {fs.last}]
    /\ file = [h \in Handles |-> file[h]]
    /\ \A h \in Handles :
         file[h] \in [where : {"none", "fat", "nand"}, path : {file[h].path}, valid : BOOLEAN,
                      fil : {file[h].fil}]

(* The table holds the open emulated files, and there are none without     *)
(* emulation.                                                              *)
TableInv ==
    /\ \A h \in Handles : file[h].where = "fat" => h \in fat_fd /\ config
    /\ \A h \in fat_fd : h \in Handles /\ file[h].where = "fat"

(* While the FATFS object is another device's no path leads to it, and no  *)
(* FIL object is valid.                                                    *)
DeviceInv ==
    /\ disk["other"] = Formatted
    /\ "home" \in bound => fs.drv = "home"
    /\ \A h \in Handles : file[h].valid /\ fs.type => fs.drv = "home"

NandInv == NandTypeOK /\ TableInv /\ DeviceInv

LEMMA FileRecord ==
    ASSUME NEW x, NEW w \in {"none", "fat", "nand"}, NEW p, NEW v \in BOOLEAN, NEW f,
           x = [where |-> w, path |-> p, valid |-> v, fil |-> f]
    PROVE  x \in [where : {"none", "fat", "nand"}, path : {x.path}, valid : BOOLEAN, fil : {x.fil}]
<1>1. x.path = p /\ x.fil = f
  OBVIOUS
<1>2. x \in [where : {"none", "fat", "nand"}, path : {p}, valid : BOOLEAN, fil : {f}]
  OBVIOUS
<1>3. QED
  BY <1>1, <1>2

LEMMA NandInitInv == Init => NandInv
<1> SUFFICES ASSUME Init PROVE NandInv
  OBVIOUS
<1>1. PICK d \in Home0 : disk = [home |-> d, other |-> Formatted]
  BY DEF Init
<1>2. disk["other"] = Formatted /\ disk = [x \in Devices |-> disk[x]]
  BY <1>1 DEF Devices
<1>3. fs = NoFs /\ file = [h \in Handles |-> NoFile] /\ fat_fd = {} /\ bound = {}
  BY DEF Init
<1>4. \A h \in Handles : file[h] = NoFile
  BY <1>3
<1>5. NandTypeOK
  BY <1>2, <1>3, <1>4 DEF NandTypeOK, NoFs, NoFile, Devices
<1>6. TableInv
  BY <1>3, <1>4 DEF TableInv, NoFile
<1>7. DeviceInv
  BY <1>2, <1>3 DEF DeviceInv, NoFs
<1>8. QED
  BY <1>5, <1>6, <1>7 DEF NandInv

-----------------------------------------------------------------------------
(* A volume that a refused request leaves as it was. *)
Untouched(w) == w.disk = disk[fs.drv] /\ w.dead = FALSE /\ w.res # "ok"

(* While the home device is not mounted every request by path is refused. *)
LEMMA PathRefused ==
    ASSUME "home" \notin bound, NEW b
    PROVE  Untouched(PathVolume(b))
BY DEF PathVolume, chk_mounted, Volume, Err, Untouched

LEMMA RefusedIsKept ==
    ASSUME NEW v, Untouched(v)
    PROVE  /\ \A p : FAT_CreateDir(v, p) = v /\ FAT_CreateFile(v, p) = v /\ FAT_Delete(v, p) = v
           /\ \A p : FAT_ReadDir(v, p) = v /\ FAT_GetStats(v, p) = v /\ FAT_GetUsage(v, p) = v
           /\ \A p, q : Rename(v, p, q) = v
           /\ \A p, a : FAT_Open(v, p, a) = v \/ v.res = "no_file"
           /\ __FS_PrepareFolders(v) = v
           /\ \A n : FAT_Read(v, n) = v /\ FAT_Write(v, n) = v /\ FAT_Seek(v, n) = v
           /\ FAT_Close(v) = v
<1>1. ~Ok(v)
  BY DEF Untouched, Ok
<1>2. \A p : FAT_CreateDir(v, p) = v /\ FAT_Delete(v, p) = v /\ FAT_ReadDir(v, p) = v /\ FAT_GetStats(v, p) = v
  BY <1>1 DEF FAT_CreateDir, FAT_Delete, FAT_ReadDir, FAT_GetStats
<1>3. \A p : FAT_CreateFile(v, p) = v
  BY <1>1 DEF FAT_CreateFile, CloseNew
<1>4. \A p : FAT_GetUsage(v, p) = v
  BY <1>1 DEF FAT_GetUsage, EachEntry
<1>5. \A p, q : Rename(v, p, q) = v
  BY <1>1 DEF Rename
<1>6. \A p, a : FAT_Open(v, p, a) = v \/ v.res = "no_file"
  BY <1>1 DEF FAT_Open
<1>7. __FS_PrepareFolders(v) = v
  BY <1>1, <1>2 DEF __FS_PrepareFolders
<1>8. \A n : FAT_Read(v, n) = v /\ FAT_Write(v, n) = v /\ FAT_Seek(v, n) = v
  BY <1>1 DEF FAT_Read, FAT_Write, FAT_Seek
<1>9. FAT_Close(v) = v
  BY <1>1 DEF FAT_Close
<1>10. QED
  BY <1>2, <1>3, <1>4, <1>5, <1>6, <1>7, <1>8, <1>9

LEMMA CallsRefused ==
    ASSUME "home" \notin bound
    PROVE  /\ \A p : \A w \in CreateDirCall(p) \cup CreateFileCall(p) \cup DeleteCall(p)
                                \cup ReadDirCall(p) \cup GetUsageCall(p) \cup GetStatsCall(p) :
                        Untouched(w)
           /\ \A p, q : \A w \in RenameCall(p, q) : Untouched(w)
           /\ \A w \in PrepareCall : Untouched(w)
           /\ \A p, a : \A w \in OpenCall(p, a) : Untouched(w)
<1>1. \A b : Untouched(PathVolume(b))
  BY PathRefused
<1>2. ASSUME NEW p, NEW w \in CreateDirCall(p) PROVE Untouched(w)
  <2>1. PICK b : w = FAT_CreateDir(PathVolume(b), p)
    BY <1>2 DEF CreateDirCall, Outcomes, Short
  <2>2. QED
    BY <1>1, <2>1, RefusedIsKept
<1>3. ASSUME NEW p, NEW w \in CreateFileCall(p) PROVE Untouched(w)
  <2>1. PICK b : w = FAT_CreateFile(PathVolume(b), p)
    BY <1>3 DEF CreateFileCall, Outcomes, Short
  <2>2. QED
    BY <1>1, <2>1, RefusedIsKept
<1>4. ASSUME NEW p, NEW w \in DeleteCall(p) PROVE Untouched(w)
  <2>1. PICK b : w = FAT_Delete(PathVolume(b), p)
    BY <1>4 DEF DeleteCall, Outcomes, Short
  <2>2. QED
    BY <1>1, <2>1, RefusedIsKept
<1>5. ASSUME NEW p, NEW w \in ReadDirCall(p) PROVE Untouched(w)
  <2>1. PICK b : w = FAT_ReadDir(PathVolume(b), p)
    BY <1>5 DEF ReadDirCall, Outcomes, Short
  <2>2. QED
    BY <1>1, <2>1, RefusedIsKept
<1>6. ASSUME NEW p, NEW w \in GetUsageCall(p) PROVE Untouched(w)
  <2>1. PICK b : w = FAT_GetUsage(PathVolume(b), p)
    BY <1>6 DEF GetUsageCall, Outcomes, Short
  <2>2. QED
    BY <1>1, <2>1, RefusedIsKept
<1>7. ASSUME NEW p, NEW w \in GetStatsCall(p) PROVE Untouched(w)
  <2>1. PICK b : w = FAT_GetStats(PathVolume(b), p)
    BY <1>7 DEF GetStatsCall, Outcomes, Short
  <2>2. QED
    BY <1>1, <2>1, RefusedIsKept
<1>8. ASSUME NEW p, NEW q, NEW w \in RenameCall(p, q)
      PROVE  Untouched(w)
  <2>1. PICK b : w = Rename(PathVolume(b), p, q)
    BY <1>8 DEF RenameCall, Outcomes, Short
  <2>2. QED
    BY <1>1, <2>1, RefusedIsKept
<1>9. ASSUME NEW w \in PrepareCall
      PROVE  Untouched(w)
  <2>1. PICK b : w = __FS_PrepareFolders(PathVolume(b))
    BY <1>9 DEF PrepareCall, Outcomes, Short
  <2>2. QED
    BY <1>1, <2>1, RefusedIsKept
<1>10. ASSUME NEW p, NEW a, NEW w \in OpenCall(p, a)
       PROVE  Untouched(w)
  <2>1. PICK b : w = FAT_Open(PathVolume(b), p, a)
    BY <1>10 DEF OpenCall, Outcomes, Short
  <2>2. PathVolume(b).res = "not_enabled"
    BY DEF PathVolume, chk_mounted, Volume, Err
  <2>3. FAT_Open(PathVolume(b), p, a) = PathVolume(b)
    BY <1>1, <2>2, RefusedIsKept
  <2>4. QED
    BY <1>1, <2>1, <2>3
<1>11. QED
  BY <1>2, <1>3, <1>4, <1>5, <1>6, <1>7, <1>8, <1>9, <1>10

(* So is every request on a FIL object that is not valid any more. *)
LEMMA FileCallsRefused ==
    ASSUME NEW h, ~(fs.type /\ file[h].valid)
    PROVE  /\ \A n : \A w \in ReadCall(h, n) : Untouched(w)
           /\ \A n : \A w \in WriteCall(h, n) : Untouched(w)
           /\ \A n : \A w \in SeekCall(h, n) : Untouched(w)
           /\ \A w \in CloseCall(h) : Untouched(w)
<1>1. ASSUME NEW b PROVE Untouched(FileVolume(h, b))
  BY DEF FileVolume, validate, Volume, Err, Untouched
<1>2. ASSUME NEW n, NEW w \in ReadCall(h, n)
      PROVE  Untouched(w)
  <2>1. PICK b : w = FAT_Read(FileVolume(h, b), n)
    BY <1>2 DEF ReadCall, Outcomes, Short
  <2>2. QED
    BY <1>1, <2>1, RefusedIsKept
<1>3. ASSUME NEW n, NEW w \in WriteCall(h, n)
      PROVE  Untouched(w)
  <2>1. PICK b : w = FAT_Write(FileVolume(h, b), n)
    BY <1>3 DEF WriteCall, Outcomes, Short
  <2>2. QED
    BY <1>1, <2>1, RefusedIsKept
<1>4. ASSUME NEW n, NEW w \in SeekCall(h, n)
      PROVE  Untouched(w)
  <2>1. PICK b : w = FAT_Seek(FileVolume(h, b), n)
    BY <1>4 DEF SeekCall, Outcomes, Short
  <2>2. QED
    BY <1>1, <2>1, RefusedIsKept
<1>5. ASSUME NEW w \in CloseCall(h)
      PROVE  Untouched(w)
  <2>1. PICK b : w = FAT_Close(FileVolume(h, b))
    BY <1>5 DEF CloseCall, Outcomes, Short
  <2>2. QED
    BY <1>1, <2>1, RefusedIsKept
<1>6. QED
  BY <1>2, <1>3, <1>4, <1>5

(* The blank other device is tidy. *)
LEMMA FormattedIsTidy ==
    ASSUME NEW w, w.disk = Formatted
    PROVE  Tidy(w) = Formatted
<1>1. ASSUME NEW s \in Clusters PROVE s \in DiskSectors /\ Formatted[s] = Data(Junk, Junk)
  <2>1. s \in Nat /\ s < 92
    BY FatFsAssumption DEF Clusters
  <2>2. s \notin Root
    BY <2>1 DEF Root
  <2>3. ASSUME NEW c \in Clusters PROVE FatSect(c) > 200
    <3>1. c \in Nat /\ PerFatSector \in Nat \ {0}
      BY FatFsAssumption DEF Clusters
    <3>2. c \div PerFatSector \in Nat
      BY <3>1
    <3>3. QED
      BY <3>2 DEF FatSect
  <2>4. s \notin FatArea
    BY <2>1, <2>3 DEF FatArea
  <2>5. s \in DiskSectors
    BY DEF DiskSectors
  <2>6. QED
    BY <2>2, <2>4, <2>5 DEF Formatted
<1>2. Formatted = [s \in DiskSectors |-> Formatted[s]]
  BY DEF Formatted
<1>3. Tidy(w) = [s \in DiskSectors |-> Formatted[s]]
  BY <1>1 DEF Tidy
<1>4. QED
  BY <1>2, <1>3

(* What a request leaves of another device. *)
LEMMA LeavesOther ==
    ASSUME NandInv, NEW w, fs.drv = "home" \/ Untouched(w), Leaves(w)
    PROVE  /\ disk' = [d \in Devices |-> disk'[d]] /\ disk'["other"] = Formatted
           /\ fs' \in [type : BOOLEAN, drv : Devices, win : {fs'.win}, winsect : {fs'.winsect},
                       wflag : {fs'.wflag}, last : {fs'.last}]
           /\ fs'.drv = fs.drv
           /\ fs.drv # "home" => fs'.type = fs.type
<1>1. /\ disk = [d \in Devices |-> disk[d]] /\ disk["other"] = Formatted
      /\ fs \in [type : BOOLEAN, drv : Devices, win : {fs.win}, winsect : {fs.winsect},
                 wflag : {fs.wflag}, last : {fs.last}]
  BY DEF NandInv, NandTypeOK, DeviceInv
<1>2. disk' = [disk EXCEPT ![fs.drv] = Tidy(w)]
  BY DEF Leaves
<1>3. disk' = [d \in Devices |-> disk'[d]]
  BY <1>1, <1>2
<1>4. disk'["other"] = Formatted
  <2>1. CASE fs.drv = "home"
    BY <1>1, <1>2, <2>1
  <2>2. CASE fs.drv # "home"
    <3>1. fs.drv = "other"
      BY <1>1, <2>2 DEF Devices
    <3>2. w.disk = Formatted
      BY <1>1, <2>2, <3>1 DEF Untouched
    <3>3. Tidy(w) = Formatted
      BY <3>2, FormattedIsTidy
    <3>4. QED
      BY <1>1, <1>2, <3>1, <3>3 DEF Devices
  <2>3. QED
    BY <2>1, <2>2
<1>5. CASE w.dead
  <2>1. fs.drv = "home"
    BY <1>5 DEF Untouched
  <2>2. fs' = [NoFs EXCEPT !.type = TRUE]
    BY <1>5 DEF Leaves
  <2>3. fs' = [type |-> TRUE, drv |-> "home", win |-> Blank, winsect |-> 0, wflag |-> FALSE, last |-> 0]
    BY <2>2 DEF NoFs
  <2>4. QED
    BY <1>3, <1>4, <2>1, <2>3 DEF Devices
<1>6. CASE ~w.dead
  <2>1. fs' = [fs EXCEPT !.win = w.win, !.winsect = w.winsect, !.wflag = w.wflag, !.last = w.last]
    BY <1>6 DEF Leaves
  <2>2. QED
    BY <1>1, <1>3, <1>4, <2>1
<1>7. QED
  BY <1>5, <1>6

(* A request that opens and closes nothing. *)
LEMMA PathStep ==
    ASSUME NandInv, NEW w, fs.drv = "home" \/ Untouched(w), Leaves(w),
           UNCHANGED <<bound, file>>,
           \/ UNCHANGED <<config, fat_fd>>
           \/ NoOpenFile /\ config' = TRUE /\ fat_fd' = {}
    PROVE  NandInv'
<1>1. /\ disk' = [d \in Devices |-> disk'[d]] /\ disk'["other"] = Formatted
      /\ fs' \in [type : BOOLEAN, drv : Devices, win : {fs'.win}, winsect : {fs'.winsect},
                  wflag : {fs'.wflag}, last : {fs'.last}]
      /\ fs'.drv = fs.drv
      /\ fs.drv # "home" => fs'.type = fs.type
  BY LeavesOther
<1>2. NandTypeOK'
  BY <1>1 DEF NandInv, NandTypeOK
<1>3. TableInv'
  BY DEF NandInv, TableInv, NoOpenFile
<1>4. DeviceInv'
  BY <1>1 DEF NandInv, DeviceInv
<1>5. QED
  BY <1>2, <1>3, <1>4 DEF NandInv

(* A request on a descriptor that stays as it is, but for its FIL object. *)
LEMMA FileStep ==
    ASSUME NandInv, NEW h \in Handles, NEW w, fs.drv = "home" \/ Untouched(w), OnFile(h, w), Fil(h, w),
           fat_fd' = fat_fd
    PROVE  NandInv'
<1>1. /\ disk' = [d \in Devices |-> disk'[d]] /\ disk'["other"] = Formatted
      /\ fs' \in [type : BOOLEAN, drv : Devices, win : {fs'.win}, winsect : {fs'.winsect},
                  wflag : {fs'.wflag}, last : {fs'.last}]
      /\ fs'.drv = fs.drv
      /\ fs.drv # "home" => fs'.type = fs.type
  BY LeavesOther DEF OnFile
<1>2. PICK x : file' = [file EXCEPT ![h].fil = x]
  BY DEF Fil
<1>3. /\ file' = [g \in Handles |-> file'[g]]
      /\ \A g \in Handles : file'[g] \in [where : {"none", "fat", "nand"}, path : {file'[g].path},
                                          valid : BOOLEAN, fil : {file'[g].fil}]
      /\ \A g \in Handles : file'[g].where = file[g].where /\ file'[g].valid = file[g].valid
  BY <1>2 DEF NandInv, NandTypeOK
<1>4. NandTypeOK'
  BY <1>1, <1>3 DEF NandTypeOK
<1>5. config' = config /\ bound' = bound
  BY DEF OnFile
<1>6. TableInv'
  BY <1>3, <1>5 DEF NandInv, TableInv
<1>7. DeviceInv'
  BY <1>1, <1>3, <1>5 DEF NandInv, DeviceInv
<1>8. QED
  BY <1>4, <1>6, <1>7 DEF NandInv

(* A request that is not refused finds the home device. *)
LEMMA HomeOrRefused ==
    ASSUME NandInv
    PROVE  /\ "home" \in bound => fs.drv = "home"
           /\ \A h \in Handles : fs.type /\ file[h].valid => fs.drv = "home"
BY DEF NandInv, DeviceInv

LEMMA ByPathStep ==
    ASSUME NandInv,
           FS_CreateDir \/ FS_CreateFile \/ FS_Delete \/ FS_Rename \/ FS_ReadDir \/ FS_GetUsage
             \/ FS_GetAttr \/ SwitchOn
    PROVE  NandInv'
<1>1. "home" \in bound => fs.drv = "home"
  BY HomeOrRefused
<1>2. CASE FS_CreateDir
  <2>1. PICK p, w : w \in CreateDirCall(p) /\ ByPath(w)
    BY <1>2 DEF FS_CreateDir
  <2>2. QED
    BY <1>1, <2>1, CallsRefused, PathStep DEF ByPath
<1>3. CASE FS_CreateFile
  <2>1. PICK p, w : w \in CreateFileCall(p) /\ ByPath(w)
    BY <1>3 DEF FS_CreateFile
  <2>2. QED
    BY <1>1, <2>1, CallsRefused, PathStep DEF ByPath
<1>4. CASE FS_Delete
  <2>1. PICK p, w : w \in DeleteCall(p) /\ ByPath(w)
    BY <1>4 DEF FS_Delete
  <2>2. QED
    BY <1>1, <2>1, CallsRefused, PathStep DEF ByPath
<1>5. CASE FS_Rename
  <2>1. PICK p, q, w : w \in RenameCall(p, q) /\ ByPath(w)
    BY <1>5 DEF FS_Rename
  <2>2. QED
    BY <1>1, <2>1, CallsRefused, PathStep DEF ByPath
<1>6. CASE FS_ReadDir
  <2>1. PICK p, w : w \in ReadDirCall(p) /\ ByPath(w)
    BY <1>6 DEF FS_ReadDir
  <2>2. QED
    BY <1>1, <2>1, CallsRefused, PathStep DEF ByPath
<1>7. CASE FS_GetUsage
  <2>1. PICK p, w : w \in GetUsageCall(p) /\ ByPath(w)
    BY <1>7 DEF FS_GetUsage
  <2>2. QED
    BY <1>1, <2>1, CallsRefused, PathStep DEF ByPath
<1>8. CASE FS_GetAttr
  <2>1. PICK p, w : w \in GetStatsCall(p) /\ ByPath(w)
    BY <1>8 DEF FS_GetAttr
  <2>2. QED
    BY <1>1, <2>1, CallsRefused, PathStep DEF ByPath
<1>9. CASE SwitchOn
  <2>1. PICK w \in PrepareCall :
           NoOpenFile /\ config' = TRUE /\ fat_fd' = {} /\ Leaves(w) /\ UNCHANGED <<bound, file>>
    BY <1>9 DEF SwitchOn
  <2>2. fs.drv = "home" \/ Untouched(w)
    BY <1>1, <2>1, CallsRefused
  <2>3. QED
    BY <2>1, <2>2, PathStep
<1>10. QED
  BY <1>2, <1>3, <1>4, <1>5, <1>6, <1>7, <1>8, <1>9

LEMMA DescriptorStep ==
    ASSUME NandInv, NEW h \in Handles, FS_Read(h) \/ FS_Write(h) \/ FS_Seek(h) \/ FS_Close(h)
    PROVE  NandInv'
<1>1. fs.type /\ file[h].valid => fs.drv = "home"
  BY HomeOrRefused
<1>2. CASE FS_Read(h)
  <2>1. PICK n, w : /\ w \in ReadCall(h, n)
                    /\ OnFile(h, w) /\ Fil(h, w) /\ fat_fd' = fat_fd
    BY <1>2 DEF FS_Read
  <2>2. fs.drv = "home" \/ Untouched(w)
    BY <1>1, <2>1, FileCallsRefused
  <2>3. QED
    BY <2>1, <2>2, FileStep
<1>3. CASE FS_Write(h)
  <2>1. PICK n, w : /\ w \in WriteCall(h, n)
                    /\ OnFile(h, w) /\ Fil(h, w) /\ fat_fd' = fat_fd
    BY <1>3 DEF FS_Write
  <2>2. fs.drv = "home" \/ Untouched(w)
    BY <1>1, <2>1, FileCallsRefused
  <2>3. QED
    BY <2>1, <2>2, FileStep
<1>4. CASE FS_Seek(h)
  <2>1. PICK n, w : /\ w \in SeekCall(h, n)
                    /\ OnFile(h, w) /\ Fil(h, w) /\ fat_fd' = fat_fd
    BY <1>4 DEF FS_Seek
  <2>2. fs.drv = "home" \/ Untouched(w)
    BY <1>1, <2>1, FileCallsRefused
  <2>3. QED
    BY <2>1, <2>2, FileStep
<1>5. CASE FS_Close(h)
  <2>1. PICK w \in CloseCall(h) :
           /\ OnFile(h, w)
           /\ IF Refused(w) THEN Fil(h, w) /\ UNCHANGED fat_fd
              ELSE file' = [file EXCEPT ![h] = NoFile] /\ fat_fd' = fat_fd \ {h}
    BY <1>5 DEF FS_Close
  <2>2. fs.drv = "home" \/ Untouched(w)
    BY <1>1, <2>1, FileCallsRefused
  <2>3. CASE Refused(w)
    BY <2>1, <2>2, <2>3, FileStep
  <2>4. CASE ~Refused(w)
    <3>1. file' = [file EXCEPT ![h] = NoFile] /\ fat_fd' = fat_fd \ {h}
      BY <2>1, <2>4
    <3>2. /\ disk' = [d \in Devices |-> disk'[d]] /\ disk'["other"] = Formatted
          /\ fs' \in [type : BOOLEAN, drv : Devices, win : {fs'.win}, winsect : {fs'.winsect},
                      wflag : {fs'.wflag}, last : {fs'.last}]
          /\ fs'.drv = fs.drv
          /\ fs.drv # "home" => fs'.type = fs.type
      BY <2>1, <2>2, LeavesOther DEF OnFile
    <3>3. config' = config /\ bound' = bound
      BY <2>1 DEF OnFile
    <3>4. /\ file' = [g \in Handles |-> file'[g]]
          /\ \A g \in Handles : file'[g] = IF g = h THEN NoFile ELSE file[g]
      BY <3>1 DEF NandInv, NandTypeOK
    <3>5. NandTypeOK'
      <4>1. ASSUME NEW g \in Handles
            PROVE  file'[g] \in [where : {"none", "fat", "nand"}, path : {file'[g].path},
                                 valid : BOOLEAN, fil : {file'[g].fil}]
        <5>1. CASE g = h
          BY <3>4, <5>1, FileRecord DEF NoFile
        <5>2. CASE g # h
          BY <3>4, <5>2 DEF NandInv, NandTypeOK
        <5>3. QED
          BY <5>1, <5>2
      <4>2. QED
        BY <3>2, <3>4, <4>1 DEF NandTypeOK
    <3>6. TableInv'
      BY <3>1, <3>3, <3>4 DEF NandInv, TableInv, NoFile
    <3>7. DeviceInv'
      BY <3>2, <3>3, <3>4 DEF NandInv, DeviceInv, NoFile
    <3>8. QED
      BY <3>5, <3>6, <3>7 DEF NandInv
  <2>5. QED
    BY <2>3, <2>4
<1>6. QED
  BY <1>2, <1>3, <1>4, <1>5

(* The table has room for every descriptor there is. *)
LEMMA OpenStep ==
    ASSUME IsFiniteSet(Handles), Cardinality(Handles) <= MaxFatFd,
           NandInv, NEW h \in Handles, FS_Open(h)
    PROVE  NandInv'
<1>1. PICK access, p, w : /\ w \in OpenCall(p, access)
                          /\ Leaves(w)
                          /\ IF Refused(w) THEN UNCHANGED <<file, fat_fd>>
                             ELSE /\ file' = [file EXCEPT ![h] = [where |-> "fat", path |-> p, valid |-> TRUE,
                                                                  fil |-> w.fp]]
                                  /\ fat_fd' = __FS_RegisterFile(h)
                          /\ UNCHANGED <<bound, config>>
  BY DEF FS_Open
<1>2. config /\ file[h].where = "none"
  BY DEF FS_Open, Ready
<1>3. fs.drv = "home" \/ Untouched(w)
  BY <1>1, CallsRefused, HomeOrRefused
<1>4. CASE Refused(w)
  BY <1>1, <1>3, <1>4, PathStep
<1>5. CASE ~Refused(w)
  <2>1. fs.drv = "home"
    BY <1>3, <1>5 DEF Untouched, Refused
  <2>2. /\ file' = [file EXCEPT ![h] = [where |-> "fat", path |-> p, valid |-> TRUE, fil |-> w.fp]]
        /\ fat_fd' = __FS_RegisterFile(h)
    BY <1>1, <1>5
  <2>3. fat_fd' = fat_fd \cup {h}
    <3>1. fat_fd \subseteq Handles \ {h}
      BY <1>2 DEF NandInv, TableInv
    <3>2. IsFiniteSet(Handles \ {h}) /\ Cardinality(Handles \ {h}) = Cardinality(Handles) - 1
      BY FS_RemoveElement
    <3>3. Cardinality(fat_fd) <= Cardinality(Handles \ {h})
      BY <3>1, <3>2, FS_Subset
    <3>4. Cardinality(fat_fd) \in Nat /\ Cardinality(Handles) \in Nat
      BY <3>1, <3>2, FS_Subset, FS_CardinalityType
    <3>5. MaxFatFd \in Nat
      BY NandAssumption
    <3>6. Cardinality(fat_fd) < MaxFatFd
      BY <3>2, <3>3, <3>4, <3>5
    <3>7. QED
      BY <2>2, <3>6 DEF __FS_RegisterFile
  <2>4. /\ disk' = [d \in Devices |-> disk'[d]] /\ disk'["other"] = Formatted
        /\ fs' \in [type : BOOLEAN, drv : Devices, win : {fs'.win}, winsect : {fs'.winsect},
                    wflag : {fs'.wflag}, last : {fs'.last}]
        /\ fs'.drv = fs.drv
    BY <1>1, <1>3, LeavesOther
  <2>5. /\ file' = [g \in Handles |-> file'[g]]
        /\ \A g \in Handles : g # h => file'[g] = file[g]
        /\ file'[h] = [where |-> "fat", path |-> p, valid |-> TRUE, fil |-> w.fp]
    BY <2>2 DEF NandInv, NandTypeOK
  <2>6. NandTypeOK'
    <3>1. ASSUME NEW g \in Handles
          PROVE  file'[g] \in [where : {"none", "fat", "nand"}, path : {file'[g].path},
                               valid : BOOLEAN, fil : {file'[g].fil}]
      <4>1. CASE g = h
        BY <2>5, <4>1, FileRecord
      <4>2. CASE g # h
        BY <2>5, <4>2 DEF NandInv, NandTypeOK
      <4>3. QED
        BY <4>1, <4>2
    <3>2. QED
      BY <2>4, <2>5, <3>1 DEF NandTypeOK
  <2>7. TableInv'
    <3>1. ASSUME NEW g \in Handles, file'[g].where = "fat"
          PROVE  g \in fat_fd' /\ config'
      BY <1>1, <1>2, <2>3, <2>5, <3>1 DEF NandInv, TableInv
    <3>2. ASSUME NEW g \in fat_fd'
          PROVE  g \in Handles /\ file'[g].where = "fat"
      <4>1. CASE g = h
        BY <2>5, <4>1
      <4>2. CASE g # h
        BY <2>3, <2>5, <4>2 DEF NandInv, TableInv
      <4>3. QED
        BY <4>1, <4>2
    <3>3. QED
      BY <3>1, <3>2 DEF TableInv
  <2>8. DeviceInv'
    BY <2>1, <2>4 DEF DeviceInv
  <2>9. QED
    BY <2>6, <2>7, <2>8 DEF NandInv
<1>6. QED
  BY <1>4, <1>5

(* Opening and closing on the real flash. *)
LEMMA RealStep ==
    ASSUME NandInv, NEW h \in Handles, OpenReal(h) \/ CloseReal(h)
    PROVE  NandInv'
<1>1. /\ file' = [g \in Handles |-> file'[g]]
      /\ \A g \in Handles : g # h => file'[g] = file[g]
      /\ file'[h] = [file[h] EXCEPT !.where = "nand"] \/ file'[h] = NoFile
  BY DEF NandInv, NandTypeOK, OpenReal, CloseReal
<1>2. file[h].where # "fat" /\ UNCHANGED <<disk, fs, bound, config, fat_fd>>
  BY DEF OpenReal, CloseReal
<1>3. file'[h].where # "fat" /\ (file'[h].valid => file[h].valid)
  BY <1>1 DEF NandInv, NandTypeOK, NoFile
<1>4. NandTypeOK'
  <2>1. ASSUME NEW g \in Handles
        PROVE  file'[g] \in [where : {"none", "fat", "nand"}, path : {file'[g].path},
                             valid : BOOLEAN, fil : {file'[g].fil}]
    <3>1. CASE g = h
      <4>1. CASE file'[h] = [file[h] EXCEPT !.where = "nand"]
        <5>1. PICK r : r = file[h]
          OBVIOUS
        <5>2. r \in [where : {"none", "fat", "nand"}, path : {r.path}, valid : BOOLEAN, fil : {r.fil}]
          BY <5>1 DEF NandInv, NandTypeOK
        <5>3. file'[h] = [where |-> "nand", path |-> r.path, valid |-> r.valid, fil |-> r.fil]
          BY <4>1, <5>1, <5>2
        <5>4. r.valid \in BOOLEAN
          BY <5>2
        <5>5. QED
          BY <3>1, <5>3, <5>4, FileRecord
      <4>2. CASE file'[h] = NoFile
        BY <3>1, <4>2, FileRecord DEF NoFile
      <4>3. QED
        BY <1>1, <4>1, <4>2
    <3>2. CASE g # h
      BY <1>1, <3>2 DEF NandInv, NandTypeOK
    <3>3. QED
      BY <3>1, <3>2
  <2>2. QED
    BY <1>1, <1>2, <2>1 DEF NandInv, NandTypeOK
<1>5. TableInv'
  <2>1. h \notin fat_fd
    BY <1>2 DEF NandInv, TableInv
  <2>2. QED
    BY <1>1, <1>2, <1>3, <2>1 DEF NandInv, TableInv
<1>6. DeviceInv'
  <2>1. \A g \in Handles : file'[g].valid => file[g].valid
    BY <1>1, <1>3
  <2>2. QED
    BY <1>2, <2>1 DEF NandInv, DeviceInv
<1>7. QED
  BY <1>4, <1>5, <1>6 DEF NandInv

LEMMA MountStep ==
    ASSUME NandInv, NEW d \in Devices, FAT_Mount(d) \/ MountFails(d) \/ FAT_Unmount(d)
    PROVE  NandInv'
<1>1. /\ file' = [g \in Handles |-> file'[g]]
      /\ \A g \in Handles : file'[g] = [file[g] EXCEPT !.valid = FALSE]
  BY DEF FAT_Mount, MountFails, FAT_Unmount, Forget
<1>2. \A g \in Handles : file'[g].where = file[g].where /\ file'[g].valid = FALSE
  BY <1>1 DEF NandInv, NandTypeOK
<1>3. UNCHANGED <<disk, config, fat_fd>>
  BY DEF FAT_Mount, MountFails, FAT_Unmount
<1>4. /\ fs' \in [type : BOOLEAN, drv : Devices, win : {fs'.win}, winsect : {fs'.winsect},
                  wflag : {fs'.wflag}, last : {fs'.last}]
      /\ "home" \in bound' => fs'.drv = "home"
  <2>1. CASE FAT_Mount(d)
    BY <2>1 DEF FAT_Mount, MountVolume, NoFs
  <2>2. CASE MountFails(d)
    BY <2>2 DEF MountFails, MountVolume, NoFs
  <2>3. CASE FAT_Unmount(d)
    BY <2>3 DEF FAT_Unmount, NoFs, Devices
  <2>4. QED
    BY <2>1, <2>2, <2>3
<1>5. NandTypeOK'
  <2>1. ASSUME NEW g \in Handles
        PROVE  file'[g] \in [where : {"none", "fat", "nand"}, path : {file'[g].path},
                             valid : BOOLEAN, fil : {file'[g].fil}]
    <3>1. PICK x : x = file[g]
      OBVIOUS
    <3>2. x \in [where : {"none", "fat", "nand"}, path : {x.path}, valid : BOOLEAN, fil : {x.fil}]
      BY <3>1 DEF NandInv, NandTypeOK
    <3>3. PICK y : y = [x EXCEPT !.valid = FALSE]
      OBVIOUS
    <3>4. y \in [where : {"none", "fat", "nand"}, path : {y.path}, valid : BOOLEAN, fil : {y.fil}]
      BY <3>2, <3>3
    <3>5. file'[g] = y
      BY <1>1, <3>1, <3>3
    <3>6. QED
      BY <3>4, <3>5
  <2>2. QED
    BY <1>1, <1>3, <1>4, <2>1 DEF NandInv, NandTypeOK
<1>6. TableInv'
  BY <1>2, <1>3 DEF NandInv, TableInv
<1>7. DeviceInv'
  BY <1>2, <1>3, <1>4 DEF NandInv, DeviceInv
<1>8. QED
  BY <1>5, <1>6, <1>7 DEF NandInv

LEMMA PowerStep ==
    ASSUME NandInv, Restart \/ Reformat \/ SwitchOff \/ UNCHANGED vars
    PROVE  NandInv'
<1>1. CASE Restart
  <2>1. fs' = NoFs /\ bound' = {} /\ fat_fd' = {} /\ disk' = disk /\ file' = [h \in Handles |-> NoFile]
    BY <1>1 DEF Restart
  <2>2. file' = [h \in Handles |-> file'[h]] /\ \A h \in Handles : file'[h] = NoFile
    BY <2>1
  <2>3. NandTypeOK'
    BY <2>1, <2>2 DEF NandInv, NandTypeOK, NoFs, NoFile, Devices
  <2>4. TableInv' /\ DeviceInv'
    BY <2>1, <2>2 DEF NandInv, TableInv, DeviceInv, NoFs, NoFile
  <2>5. QED
    BY <2>3, <2>4 DEF NandInv
<1>2. CASE Reformat
  <2>1. UNCHANGED <<fs, bound, config, file, fat_fd>> /\ disk' = [disk EXCEPT !["home"] = Formatted]
    BY <1>2 DEF Reformat
  <2>2. disk' = [d \in Devices |-> disk'[d]] /\ disk'["other"] = disk["other"]
    BY <2>1 DEF NandInv, NandTypeOK
  <2>3. QED
    BY <2>1, <2>2 DEF NandInv, NandTypeOK, TableInv, DeviceInv
<1>3. CASE SwitchOff
  BY <1>3 DEF SwitchOff, NoOpenFile, NandInv, NandTypeOK, TableInv, DeviceInv
<1>4. CASE UNCHANGED vars
  BY <1>4 DEF vars, NandInv, NandTypeOK, TableInv, DeviceInv
<1>5. QED
  BY <1>1, <1>2, <1>3, <1>4

THEOREM NandInvariant ==
    ASSUME IsFiniteSet(Handles), Cardinality(Handles) <= MaxFatFd
    PROVE  Spec => []NandInv
<1>1. Init => NandInv
  BY NandInitInv
<1>2. NandInv /\ [Next]_vars => NandInv'
  <2> SUFFICES ASSUME NandInv, [Next]_vars
               PROVE  NandInv'
    OBVIOUS
  <2>1. CASE FsRequest
    <3>1. CASE FS_CreateDir \/ FS_CreateFile \/ FS_Delete \/ FS_Rename \/ FS_ReadDir \/ FS_GetUsage \/ FS_GetAttr
      BY <3>1, ByPathStep
    <3>2. ASSUME NEW h \in Handles,
                 FS_Open(h) \/ FS_Read(h) \/ FS_Write(h) \/ FS_Seek(h) \/ FS_Close(h)
                   \/ OpenReal(h) \/ CloseReal(h)
          PROVE  NandInv'
      BY <3>2, DescriptorStep, OpenStep, RealStep
    <3>3. QED
      BY <2>1, <3>1, <3>2 DEF FsRequest
  <2>2. CASE SwitchOn
    BY <2>2, ByPathStep
  <2>3. ASSUME NEW d \in Devices, FAT_Mount(d) \/ MountFails(d) \/ FAT_Unmount(d)
        PROVE  NandInv'
    BY <2>3, MountStep
  <2>4. CASE SwitchOff \/ Restart \/ Reformat \/ UNCHANGED vars
    BY <2>4, PowerStep
  <2>5. QED
    BY <2>1, <2>2, <2>3, <2>4 DEF Next
<1>3. QED
  BY <1>1, <1>2, PTL DEF Spec

(* Every request on a descriptor goes to the file system that opened it,   *)
(* and none of the emulated NAND's requests writes to the device that was  *)
(* mounted in its place, for as many descriptors as the table has slots    *)
(* (plugin.c: FS_Open, __FS_RegisterFile; fat_wrapper.c; ff.c: validate).  *)
THEOREM RequestsReachTheirFiles ==
    ASSUME IsFiniteSet(Handles), Cardinality(Handles) <= MaxFatFd
    PROVE  Spec => []RequestsReachTheirFile
<1>1. NandInv => RequestsReachTheirFile
  <2> SUFFICES ASSUME NandInv
               PROVE  RequestsReachTheirFile
    OBVIOUS
  <2>1. ASSUME NEW h \in Handles, file[h].where # "none"
        PROVE  ServerOf(h) = file[h].where
    <3>1. file[h].where \in {"fat", "nand"}
      BY <2>1 DEF NandInv, NandTypeOK
    <3>2. CASE file[h].where = "fat"
      BY <3>2 DEF NandInv, TableInv, ServerOf
    <3>3. CASE file[h].where = "nand"
      BY <3>3 DEF NandInv, TableInv, ServerOf
    <3>4. QED
      BY <3>1, <3>2, <3>3
  <2>2. fat_fd \subseteq {h \in Handles : file[h].where = "fat"}
    BY DEF NandInv, TableInv
  <2>3. disk["other"] = Formatted
    BY DEF NandInv, DeviceInv
  <2>4. QED
    BY <2>1, <2>2, <2>3 DEF RequestsReachTheirFile
<1>2. QED
  BY <1>1, NandInvariant, PTL

-----------------------------------------------------------------------------
(* Fragment lists. *)

LEMMA ListFacts ==
    ASSUME NEW l \in FragList
    PROVE  /\ l.size \in Nat
           /\ Len(l.frag) \in Nat /\ DOMAIN l.frag = 1 .. Len(l.frag)
           /\ \A i \in DOMAIN l.frag : /\ l.frag[i].offset \in Nat /\ l.frag[i].sector \in Nat \ {0}
                                       /\ l.frag[i].count \in Nat \ {0}
                                       /\ End(l.frag[i]) = l.frag[i].offset + l.frag[i].count
                                       /\ End(l.frag[i]) <= l.size
           /\ \A i, j \in DOMAIN l.frag : i < j => End(l.frag[i]) <= l.frag[j].offset
<1>1. /\ l \in [size : Nat, frag : Seq([offset : Nat, sector : Nat, count : Nat])]
      /\ WellFormed(l)
  BY DEF FragList
<1>2. l.size \in Nat /\ l.frag \in Seq([offset : Nat, sector : Nat, count : Nat])
  BY <1>1
<1>3. PICK f : f = l.frag
  OBVIOUS
<1>4. Len(f) \in Nat /\ DOMAIN f = 1 .. Len(f)
  BY <1>2, <1>3, LenProperties
<1>5. ASSUME NEW i \in DOMAIN f
      PROVE  f[i] \in [offset : Nat, sector : Nat, count : Nat]
  BY <1>2, <1>3, <1>4, ElementOfSeq
<1>6. \A i \in DOMAIN f : f[i].offset \in Nat /\ f[i].sector \in Nat /\ f[i].count \in Nat
  BY <1>5
<1>7. QED
  BY <1>1, <1>2, <1>3, <1>4, <1>6 DEF WellFormed, End

LEMMA EntryFacts ==
    ASSUME NEW l \in FragList, NEW i \in DOMAIN l.frag
    PROVE  l.frag[i].offset \in Nat /\ End(l.frag[i]) \in Nat
<1>1. PICK f : f = l.frag[i] /\ f.offset \in Nat /\ f.count \in Nat /\ End(f) = f.offset + f.count
  BY ListFacts
<1>2. QED
  BY <1>1

LEMMA MappedIn ==
    ASSUME NEW l \in FragList, NEW i \in DOMAIN l.frag, NEW s \in Nat,
           l.frag[i].offset <= s, s < End(l.frag[i])
    PROVE  Mapped(l, s) = l.frag[i].sector + s - l.frag[i].offset
<1> DEFINE holds == {j \in DOMAIN l.frag : l.frag[j].offset <= s /\ s < End(l.frag[j])}
<1>1. ASSUME NEW j \in holds PROVE j = i
  <2>1. j \in DOMAIN l.frag /\ i \in Nat /\ j \in Nat
    BY ListFacts
  <2>2. /\ l.frag[j].offset \in Nat /\ l.frag[i].offset \in Nat
        /\ End(l.frag[j]) \in Nat /\ End(l.frag[i]) \in Nat
    BY <2>1, EntryFacts
  <2>3. /\ i < j => End(l.frag[i]) <= l.frag[j].offset
        /\ j < i => End(l.frag[j]) <= l.frag[i].offset
    BY <2>1, ListFacts
  <2>4. l.frag[j].offset <= s /\ s < End(l.frag[j])
    OBVIOUS
  <2>5. ~ (i < j) /\ ~ (j < i)
    BY <2>2, <2>3, <2>4
  <2>6. QED
    BY <2>1, <2>5
<1>2. i \in holds
  OBVIOUS
<1>3. (CHOOSE j \in holds : TRUE) = i
  <2> HIDE DEF holds
  <2> QED
    BY <1>1, <1>2
<1>4. QED
  BY <1>2, <1>3 DEF Mapped

LEMMA MappedOut ==
    ASSUME NEW l \in FragList, NEW s \in Nat,
           \A i \in DOMAIN l.frag : s < l.frag[i].offset \/ End(l.frag[i]) <= s
    PROVE  Mapped(l, s) = 0
<1> DEFINE holds == {j \in DOMAIN l.frag : l.frag[j].offset <= s /\ s < End(l.frag[j])}
<1>1. holds = {}
  BY ListFacts
<1>2. QED
  BY <1>1 DEF Mapped

(* No fragment before start reaches offset. *)
Reached(l, start, offset) ==
    start \in Nat \ {0} /\ \A k \in DOMAIN l.frag : k < start => End(l.frag[k]) <= offset

(* The run that is found is the image's next one, after d sparse sectors.  *)
RunIs(l, offset, count, got, d) ==
    /\ got.count \in Nat /\ got.sector \in Nat
    /\ d \in Nat /\ got.offset = offset + d
    /\ d + got.count \in 1 .. count
    /\ \A k \in 0 .. d - 1 : Mapped(l, offset + k) = 0
    /\ \A k \in 0 .. got.count - 1 : Mapped(l, offset + d + k) = got.sector + k
    /\ got.ret # 0 <=> offset + d + got.count > l.size

LEMMA GetFinds ==
    ASSUME NEW l \in FragList, NEW start, NEW offset \in Nat, NEW count \in Nat \ {0},
           Reached(l, start, offset)
    PROVE  \E d : RunIs(l, offset, count, __Frag_Get(l, start, offset, count), d)
<1> DEFINE inside(f) == f.offset <= offset /\ End(f) > offset
           ahead(f) == f.offset > offset /\ f.offset < offset + count
           hits == {i \in start..Len(l.frag) : inside(l.frag[i]) \/ ahead(l.frag[i])}
           got == __Frag_Get(l, start, offset, count)
<1>1. hits \in SUBSET Nat /\ hits \subseteq DOMAIN l.frag
  BY ListFacts DEF Reached
<1>2. CASE hits = {}
  <2>1. got = [ret |-> IF offset + count > l.size THEN 2 ELSE 0, offset |-> offset + count,
               sector |-> 0, count |-> 0]
    BY <1>2 DEF __Frag_Get
  <2>2. ASSUME NEW k \in 0 .. count - 1 PROVE Mapped(l, offset + k) = 0
    <3>1. offset + k \in Nat
      OBVIOUS
    <3>2. ASSUME NEW i \in DOMAIN l.frag
          PROVE  offset + k < l.frag[i].offset \/ End(l.frag[i]) <= offset + k
      <4>1. CASE i < start
        BY <4>1, ListFacts DEF Reached
      <4>2. CASE i >= start
        <5>1. i \notin hits
          BY <1>2
        <5>2. ~inside(l.frag[i]) /\ ~ahead(l.frag[i])
          BY <4>2, <5>1, ListFacts DEF Reached
        <5>3. QED
          BY <5>2, ListFacts
      <4>3. QED
        BY <4>1, <4>2, ListFacts DEF Reached
    <3>3. QED
      BY <3>1, <3>2, MappedOut
  <2>3. l.size \in Nat
    BY ListFacts
  <2>4. RunIs(l, offset, count, got, count)
    <3> HIDE DEF got
    <3>1. got.ret = (IF offset + count > l.size THEN 2 ELSE 0) /\ got.offset = offset + count
          /\ got.sector = 0 /\ got.count = 0
      BY <2>1
    <3>2. QED
      BY <2>2, <2>3, <3>1 DEF RunIs
  <2>5. QED
    BY <2>4
<1>3. CASE hits # {}
  <2>1. PICK i : i = Min(hits)
    OBVIOUS
  <2>2. i \in hits /\ \A j \in hits : i <= j
    <3> HIDE DEF hits
    <3> QED
      BY <1>1, <1>3, <2>1, LeastElement
  <2>3. i \in DOMAIN l.frag /\ i >= start /\ (inside(l.frag[i]) \/ ahead(l.frag[i]))
    BY <1>1, <2>2
  <2>4. PICK f : f = l.frag[i]
    OBVIOUS
  <2>5. /\ f.offset \in Nat /\ f.sector \in Nat /\ f.count \in Nat \ {0}
        /\ End(f) = f.offset + f.count /\ End(f) <= l.size /\ l.size \in Nat
    BY <2>3, <2>4, ListFacts
  <2>6. CASE inside(f)
    <3>1. f.count - (offset - f.offset) \in Nat \ {0}
      BY <2>5, <2>6
    <3>2. PICK n \in 1 .. count : n = Min({f.count - (offset - f.offset), count})
                                  /\ n <= f.count - (offset - f.offset)
      BY <3>1, LessOfTwo
    <3>3. got = [ret |-> 0, offset |-> offset, sector |-> f.sector + (offset - f.offset), count |-> n]
      BY <1>3, <2>1, <2>4, <2>6, <3>2 DEF __Frag_Get
    <3>4. \A k \in 0 .. n - 1 : Mapped(l, offset + k) = f.sector + (offset - f.offset) + k
      <4>1. ASSUME NEW k \in 0 .. n - 1
            PROVE  Mapped(l, offset + k) = f.sector + (offset - f.offset) + k
        <5>1. offset + k \in Nat /\ f.offset <= offset + k /\ offset + k < End(f)
          BY <2>5, <2>6, <3>2
        <5>2. Mapped(l, offset + k) = f.sector + (offset + k) - f.offset
          BY <2>3, <2>4, <5>1, MappedIn
        <5>3. QED
          BY <2>5, <5>2
      <4>2. QED
        BY <4>1
    <3>5. RunIs(l, offset, count, got, 0)
      <4> HIDE DEF got
      <4>1. got.ret = 0 /\ got.offset = offset /\ got.sector = f.sector + (offset - f.offset) /\ got.count = n
        BY <3>3
      <4>2. got.sector \in Nat /\ offset + n <= l.size
        BY <2>5, <2>6, <3>2, <4>1
      <4>3. QED
        BY <2>5, <3>2, <3>4, <4>1, <4>2 DEF RunIs
    <3>6. QED
      BY <3>5
  <2>7. CASE ~inside(f)
    <3> DEFINE d == f.offset - offset
    <3>1. ahead(f) /\ d \in Nat /\ d > 0 /\ d < count /\ offset + d = f.offset
      BY <2>3, <2>4, <2>5, <2>7
    <3>2. count - d \in Nat \ {0}
      BY <3>1
    <3>3. PICK n \in 1 .. count - d : n = Min({f.count, count - d}) /\ n <= f.count
      BY <2>5, <3>2, LessOfTwo
    <3>4. got = [ret |-> 0, offset |-> f.offset, sector |-> f.sector, count |-> n]
      BY <1>3, <2>1, <2>4, <2>7, <3>3 DEF __Frag_Get
    <3>5. ASSUME NEW k \in 0 .. d - 1 PROVE Mapped(l, offset + k) = 0
      <4>1. offset + k \in Nat /\ offset + k < f.offset
        BY <3>1
      <4>2. ASSUME NEW j \in DOMAIN l.frag
            PROVE  offset + k < l.frag[j].offset \/ End(l.frag[j]) <= offset + k
        <5>1. CASE j < start
          <6>1. End(l.frag[j]) <= offset
            BY <5>1 DEF Reached
          <6>2. End(l.frag[j]) \in Nat
            BY EntryFacts
          <6>3. QED
            BY <4>1, <6>1, <6>2
        <5>2. CASE j >= start /\ j < i
          <6>1. j \notin hits
            BY <2>2, <2>3, <5>2, ListFacts
          <6>2. ~inside(l.frag[j]) /\ ~ahead(l.frag[j])
            BY <5>2, <6>1, ListFacts DEF Reached
          <6>3. End(l.frag[j]) <= f.offset
            BY <2>3, <2>4, <5>2, ListFacts
          <6>4. l.frag[j].offset \in Nat /\ l.frag[j].count \in Nat \ {0}
                /\ End(l.frag[j]) = l.frag[j].offset + l.frag[j].count
            BY ListFacts
          <6>5. l.frag[j].offset < f.offset /\ f.offset < offset + count
            BY <2>5, <3>1, <6>3, <6>4
          <6>6. End(l.frag[j]) <= offset
            BY <2>5, <6>2, <6>4, <6>5
          <6>7. QED
            BY <2>5, <4>1, <6>4, <6>6
        <5>3. CASE j >= i
          <6>1. l.frag[j].offset \in Nat /\ l.frag[j].offset >= f.offset
            <7>1. CASE j = i
              BY <2>4, <2>5, <7>1
            <7>2. CASE j > i
              <8>1. End(f) <= l.frag[j].offset /\ l.frag[j].offset \in Nat
                BY <2>3, <2>4, <7>2, ListFacts
              <8>2. QED
                BY <2>5, <8>1
            <7>3. QED
              BY <1>1, <2>3, <5>3, <7>1, <7>2, ListFacts
          <6>2. QED
            BY <4>1, <6>1, <2>5
        <5>4. i \in Nat /\ j \in Nat /\ start \in Nat
          BY <2>3, ListFacts DEF Reached
        <5>5. QED
          BY <5>1, <5>2, <5>3, <5>4
      <4>3. QED
        BY <4>1, <4>2, MappedOut
    <3>6. ASSUME NEW k \in 0 .. n - 1 PROVE Mapped(l, offset + d + k) = f.sector + k
      <4>1. offset + d + k \in Nat /\ f.offset <= offset + d + k /\ offset + d + k < End(f)
        BY <2>5, <3>1, <3>3
      <4>2. Mapped(l, offset + d + k) = f.sector + (offset + d + k) - f.offset
        BY <2>3, <2>4, <4>1, MappedIn
      <4>3. QED
        BY <2>5, <3>1, <4>2
    <3>7. RunIs(l, offset, count, got, d)
      <4> HIDE DEF got, d
      <4>1. got.ret = 0 /\ got.offset = f.offset /\ got.sector = f.sector /\ got.count = n
        BY <3>4
      <4>2. offset + d + n <= l.size
        BY <2>5, <3>1, <3>3
      <4>3. QED
        BY <2>5, <3>1, <3>3, <3>5, <3>6, <4>1, <4>2 DEF RunIs
    <3>8. QED
      BY <3>7
  <2>8. QED
    BY <2>6, <2>7
<1>4. QED
  BY <1>2, <1>3

LEMMA MappedType ==
    ASSUME NEW l \in FragList, NEW s \in Nat
    PROVE  Mapped(l, s) \in Nat
<1>1. CASE \E i \in DOMAIN l.frag : l.frag[i].offset <= s /\ s < End(l.frag[i])
  <2>1. PICK i \in DOMAIN l.frag : l.frag[i].offset <= s /\ s < End(l.frag[i])
    BY <1>1
  <2>2. Mapped(l, s) = l.frag[i].sector + s - l.frag[i].offset
    BY <2>1, MappedIn
  <2>3. l.frag[i].offset \in Nat /\ l.frag[i].sector \in Nat
    BY ListFacts
  <2>4. QED
    BY <2>1, <2>2, <2>3
<1>2. CASE ~ \E i \in DOMAIN l.frag : l.frag[i].offset <= s /\ s < End(l.frag[i])
  <2>1. ASSUME NEW i \in DOMAIN l.frag PROVE s < l.frag[i].offset \/ End(l.frag[i]) <= s
    <3>1. l.frag[i].offset \in Nat /\ End(l.frag[i]) \in Nat
      BY ListFacts
    <3>2. QED
      BY <1>2, <3>1
  <2>2. QED
    BY <2>1, MappedOut
<1>3. QED
  BY <1>1, <1>2

-----------------------------------------------------------------------------
(* frag_idx: no fragment before the one a chunk's search starts at reaches *)
(* into the chunk.                                                         *)
Chosen(l, from, i) ==
    {k \in from .. Len(l.frag) : i * IdxChunk < End(l.frag[k]) \/ k = Len(l.frag)}

IsIndex(l, f) ==
    f = [i \in 0..(MaxIdx - 1) |-> Min(Chosen(l, IF i = 0 THEN 1 ELSE f[i - 1], i))]

LEMMA IndexUnfolds ==
    ASSUME NEW l, Len(l.frag) # 0
    PROVE  __Frag_OptimizeList(l) = CHOOSE f : IsIndex(l, f)
BY DEF __Frag_OptimizeList, IsIndex, Chosen

Starts(l, start, i) ==
    /\ start \in 1 .. Len(l.frag)
    /\ \A k \in 1 .. Len(l.frag) : k < start => End(l.frag[k]) <= i * IdxChunk

LEMMA TimesMono ==
    ASSUME NEW a \in Nat, NEW b \in Nat, NEW p \in Nat
    PROVE  /\ a * p \in Nat
           /\ a <= b => a * p <= b * p
           /\ a < b => a * p + p <= b * p
<1>1. a * p \in Nat /\ b * p \in Nat
  OBVIOUS
<1>2. ASSUME a <= b PROVE a * p <= b * p
  <2>1. PICK e \in Nat : b = a + e
    <3>1. b - a \in Nat /\ b = a + (b - a)
      BY <1>2
    <3>2. QED
      BY <3>1
  <2>2. (a + e) * p = a * p + e * p /\ e * p \in Nat
    OBVIOUS
  <2>3. QED
    BY <1>1, <2>1, <2>2
<1>3. ASSUME a < b PROVE a * p + p <= b * p
  <2>1. PICK e \in Nat : b = a + 1 + e
    <3>1. b - a - 1 \in Nat /\ b = a + 1 + (b - a - 1)
      BY <1>3
    <3>2. QED
      BY <3>1
  <2>2. (a + 1 + e) * p = a * p + p + e * p /\ e * p \in Nat
    OBVIOUS
  <2>3. QED
    BY <1>1, <2>1, <2>2
<1>4. QED
  BY <1>1, <1>2, <1>3

LEMMA ChosenStarts ==
    ASSUME NEW l \in FragList, Len(l.frag) # 0, NEW i \in Nat, NEW from,
           Starts(l, from, i)
    PROVE  /\ Chosen(l, from, i) = Chosen(l, 1, i)
           /\ Starts(l, Min(Chosen(l, from, i)), i)
<1>1. Len(l.frag) \in Nat /\ i * IdxChunk \in Nat /\ from \in 1 .. Len(l.frag)
  BY ListFacts, FragAssumption DEF Starts
<1>2. ASSUME NEW k \in 1 .. Len(l.frag) PROVE End(l.frag[k]) \in Nat
  BY ListFacts
<1>3. PICK n \in Nat, c \in Nat : n = Len(l.frag) /\ c = i * IdxChunk
  BY <1>1
<1>4. Chosen(l, from, i) = {k \in from .. n : c < End(l.frag[k]) \/ k = n}
  BY <1>3 DEF Chosen
<1>5. Chosen(l, 1, i) = {k \in 1 .. n : c < End(l.frag[k]) \/ k = n}
  BY <1>3 DEF Chosen
<1>6. \A k \in 1 .. n : k < from => End(l.frag[k]) <= c
  BY <1>3 DEF Starts
<1>7. Chosen(l, from, i) = Chosen(l, 1, i)
  BY <1>1, <1>2, <1>3, <1>4, <1>5, <1>6
<1>8. PICK m : m = Min(Chosen(l, from, i))
  OBVIOUS
<1>9. m \in Chosen(l, 1, i) /\ \A y \in Chosen(l, 1, i) : m <= y
  <2>1. Chosen(l, 1, i) \in SUBSET Nat /\ n \in Chosen(l, 1, i)
    BY <1>1, <1>3, <1>5
  <2>2. QED
    BY <2>1, <1>7, <1>8, LeastElement
<1>10. m \in 1 .. n
  BY <1>5, <1>9
<1>11. ASSUME NEW k \in 1 .. n, k < m PROVE End(l.frag[k]) <= c
  <2>1. k \notin Chosen(l, 1, i)
    BY <1>9, <1>10, <1>11
  <2>2. QED
    BY <1>2, <1>3, <1>5, <2>1
<1>12. QED
  BY <1>3, <1>7, <1>8, <1>10, <1>11 DEF Starts

LEMMA StartsLater ==
    ASSUME NEW l \in FragList, NEW i \in Nat, NEW start, Starts(l, start, i)
    PROVE  Starts(l, start, i + 1)
<1>1. i * IdxChunk \in Nat /\ (i + 1) * IdxChunk \in Nat /\ i * IdxChunk <= (i + 1) * IdxChunk
  BY FragAssumption, TimesMono
<1>2. ASSUME NEW k \in 1 .. Len(l.frag) PROVE End(l.frag[k]) \in Nat
  BY ListFacts
<1>3. QED
  BY <1>1, <1>2 DEF Starts

LEMMA IndexExists ==
    ASSUME NEW l \in FragList, Len(l.frag) # 0
    PROVE  \E f : IsIndex(l, f)
<1> DEFINE f == [i \in 0..(MaxIdx - 1) |-> Min(Chosen(l, 1, i))]
<1>1. ASSUME NEW i \in Nat PROVE Starts(l, 1, i)
  BY ListFacts DEF Starts
<1>2. ASSUME NEW i \in Nat PROVE Starts(l, Min(Chosen(l, 1, i)), i)
  BY <1>1, ChosenStarts
<1>3. ASSUME NEW i \in 0..(MaxIdx - 1)
      PROVE  f[i] = Min(Chosen(l, IF i = 0 THEN 1 ELSE f[i - 1], i))
  <2>1. CASE i = 0
    BY <2>1
  <2>2. CASE i # 0
    <3>1. i - 1 \in 0..(MaxIdx - 1) /\ i - 1 \in Nat /\ (i - 1) + 1 = i /\ i \in Nat
      BY <2>2, FragAssumption
    <3>2. f[i - 1] = Min(Chosen(l, 1, i - 1))
      BY <3>1
    <3>3. Starts(l, f[i - 1], i - 1)
      BY <1>2, <3>1, <3>2
    <3>4. Starts(l, f[i - 1], i)
      <4> HIDE DEF f
      <4>1. Starts(l, f[i - 1], (i - 1) + 1)
        BY <3>1, <3>3, StartsLater
      <4>2. QED
        BY <3>1, <4>1
    <3>5. Chosen(l, f[i - 1], i) = Chosen(l, 1, i)
      <4> HIDE DEF f
      <4> QED
        BY <3>1, <3>4, ChosenStarts
    <3>6. QED
      BY <2>2, <3>5
  <2>3. QED
    BY <2>1, <2>2
<1>4. IsIndex(l, f)
  <2>1. f = [i \in 0..(MaxIdx - 1) |-> f[i]]
    OBVIOUS
  <2> HIDE DEF f
  <2>2. QED
    BY <1>3, <2>1 DEF IsIndex
<1>5. QED
  BY <1>4

LEMMA IndexReaches ==
    ASSUME NEW l \in FragList, NEW i \in 0..(MaxIdx - 1), NEW offset \in Nat,
           i * IdxChunk <= offset
    PROVE  Reached(l, __Frag_OptimizeList(l)[i], offset)
<1> DEFINE idx == __Frag_OptimizeList(l)
<1>0. i \in Nat /\ i * IdxChunk \in Nat /\ DOMAIN l.frag = 1 .. Len(l.frag) /\ Len(l.frag) \in Nat
  BY FragAssumption, ListFacts
<1>1. CASE Len(l.frag) = 0
  <2>1. idx = [k \in 0..(MaxIdx - 1) |-> 1]
    BY <1>1 DEF __Frag_OptimizeList
  <2>2. idx[i] = 1
    BY <2>1
  <2>3. QED
    BY <1>0, <1>1, <2>2 DEF Reached
<1>2. CASE Len(l.frag) # 0
  <2>1. IsIndex(l, idx)
    BY <1>2, IndexUnfolds, IndexExists
  <2> HIDE DEF idx
  <2>2. ASSUME NEW k \in 0..(MaxIdx - 1)
        PROVE  idx[k] = Min(Chosen(l, IF k = 0 THEN 1 ELSE idx[k - 1], k))
    BY <2>1 DEF IsIndex
  <2> DEFINE S == {k \in Nat : k \in 0..(MaxIdx - 1) => Starts(l, idx[k], k)}
  <2>3. 0 \in S
    <3>1. 0 \in 0..(MaxIdx - 1)
      BY FragAssumption
    <3>2. Starts(l, 1, 0)
      BY <1>0, <1>2 DEF Starts
    <3>3. Starts(l, Min(Chosen(l, 1, 0)), 0)
      BY <1>2, <3>2, ChosenStarts
    <3>4. idx[0] = Min(Chosen(l, 1, 0))
      BY <2>2, <3>1
    <3>5. QED
      BY <3>3, <3>4
  <2>4. ASSUME NEW k \in S PROVE k + 1 \in S
    <3>1. SUFFICES ASSUME k + 1 \in 0..(MaxIdx - 1) PROVE Starts(l, idx[k + 1], k + 1)
      OBVIOUS
    <3>2. k \in 0..(MaxIdx - 1) /\ k + 1 # 0 /\ (k + 1) - 1 = k /\ k + 1 \in Nat /\ k \in Nat
      BY <3>1, FragAssumption
    <3>3. Starts(l, idx[k], k + 1)
      BY <3>2, StartsLater
    <3>4. Starts(l, Min(Chosen(l, idx[k], k + 1)), k + 1)
      BY <1>2, <3>2, <3>3, ChosenStarts
    <3>5. idx[k + 1] = Min(Chosen(l, idx[k], k + 1))
      BY <2>2, <3>1, <3>2
    <3>6. QED
      BY <3>4, <3>5
  <2>5. S = Nat
    <3> HIDE DEF S
    <3>1. S \in SUBSET Nat
      BY DEF S
    <3>2. QED
      BY <2>3, <2>4, <3>1, SetInduction
  <2>6. Starts(l, idx[i], i)
    BY <1>0, <2>5
  <2>7. ASSUME NEW k \in 1 .. Len(l.frag) PROVE End(l.frag[k]) \in Nat
    BY ListFacts
  <2>8. Reached(l, idx[i], offset)
    BY <1>0, <2>6, <2>7 DEF Starts, Reached
  <2>9. QED
    BY <2>8 DEF idx
<1>3. QED
  BY <1>1, <1>2

-----------------------------------------------------------------------------
(* Whole sectors. *)

(* The sectors the image defines. *)
AllGood(l, bad, at, n) == \A k \in 0 .. n - 1 : at + k < l.size /\ Mapped(l, at + k) \notin bad

ImageSectors(l, at, n) == [k \in 1 .. n |-> Mapped(l, at + k - 1)]

SectAnswer(l, bad, at, n) ==
    IF AllGood(l, bad, at, n) THEN [ok |-> TRUE, data |-> ImageSectors(l, at, n)] ELSE Failed

LEMMA ImageSectorsType ==
    ASSUME NEW l \in FragList, NEW at \in Nat, NEW n \in Nat
    PROVE  /\ ImageSectors(l, at, n) \in Seq(Nat) /\ Len(ImageSectors(l, at, n)) = n
           /\ \A k \in 1 .. n : ImageSectors(l, at, n)[k] = Mapped(l, at + k - 1)
<1>1. ASSUME NEW k \in 1 .. n PROVE Mapped(l, at + k - 1) \in Nat
  <2>1. at + k - 1 \in Nat
    OBVIOUS
  <2>2. QED
    BY <2>1, MappedType
<1>2. QED
  BY <1>1 DEF ImageSectors

Gap(d) == [k \in 1 .. d |-> 0]
Run(sector, c) == [k \in 1 .. c |-> sector + k - 1]

(* d sparse sectors, then c from sector on. *)
NextRun(l, at, d, sector, c) ==
    /\ \A k \in 0 .. d - 1 : Mapped(l, at + k) = 0
    /\ \A k \in 0 .. c - 1 : Mapped(l, at + d + k) = sector + k

Joins(l, at, d, sector, c, m) ==
    Gap(d) \o Run(sector, c) \o ImageSectors(l, at + d + c, m) = ImageSectors(l, at, d + c + m)

LEMMA ImageJoin ==
    ASSUME NEW l \in FragList, NEW at \in Nat, NEW d \in Nat, NEW c \in Nat, NEW m \in Nat,
           NEW sector \in Nat,
           NextRun(l, at, d, sector, c)
    PROVE  Joins(l, at, d, sector, c, m)
<1> DEFINE p == Gap(d)
           q == Run(sector, c)
           r == ImageSectors(l, at + d + c, m)
           s == ImageSectors(l, at, d + c + m)
<1>1. p \in Seq(Nat) /\ Len(p) = d /\ \A k \in 1 .. d : p[k] = 0
  BY DEF Gap
<1>2. q \in Seq(Nat) /\ Len(q) = c /\ \A k \in 1 .. c : q[k] = sector + k - 1
  BY DEF Run
<1>3. r \in Seq(Nat) /\ Len(r) = m /\ \A k \in 1 .. m : r[k] = Mapped(l, at + d + c + k - 1)
  <2>1. at + d + c \in Nat
    OBVIOUS
  <2>2. QED
    BY <2>1, ImageSectorsType
<1>4. /\ s \in Seq(Nat) /\ Len(s) = d + c + m
      /\ \A k \in 1 .. d + c + m : s[k] = Mapped(l, at + k - 1)
  <2>1. d + c + m \in Nat
    OBVIOUS
  <2>2. QED
    BY <2>1, ImageSectorsType
<1> HIDE DEF p, q, r, s
<1>10. PICK u, v : u = p \o q /\ v = u \o r
  OBVIOUS
<1>5. /\ u \in Seq(Nat) /\ Len(u) = d + c
      /\ \A k \in 1 .. d + c : u[k] = IF k <= d THEN p[k] ELSE q[k - d]
  <2>1. /\ p \o q \in Seq(Nat) /\ Len(p \o q) = d + c
        /\ \A k \in 1 .. d + c : (p \o q)[k] = IF k <= d THEN p[k] ELSE q[k - d]
    BY <1>1, <1>2, ConcatProperties
  <2>2. QED
    BY <1>10, <2>1
<1>6. /\ v \in Seq(Nat) /\ Len(v) = d + c + m
      /\ \A k \in 1 .. d + c + m : v[k] = IF k <= d + c THEN u[k] ELSE r[k - (d + c)]
  <2>1. PICK n \in Nat : n = d + c /\ n + m = d + c + m
    OBVIOUS
  <2>2. u \in Seq(Nat) /\ Len(u) = n /\ r \in Seq(Nat) /\ Len(r) = m
    BY <1>3, <1>5, <2>1
  <2>3. /\ u \o r \in Seq(Nat) /\ Len(u \o r) = n + m
        /\ \A k \in 1 .. n + m : (u \o r)[k] = IF k <= n THEN u[k] ELSE r[k - n]
    BY <2>2, ConcatProperties
  <2>4. QED
    BY <1>10, <2>1, <2>3
<1>7. ASSUME NEW k \in 1 .. d + c + m PROVE v[k] = s[k]
  <2>1. s[k] = Mapped(l, at + k - 1)
    BY <1>4
  <2>2. CASE k <= d
    <3>1. /\ k \in 1 .. d /\ k \in 1 .. d + c /\ k - 1 \in 0 .. d - 1
          /\ at + (k - 1) = at + k - 1 /\ k <= d + c
      BY <2>2
    <3>2. Mapped(l, at + (k - 1)) = 0
      BY <3>1 DEF NextRun
    <3>3. u[k] = 0
      BY <1>1, <1>5, <2>2, <3>1
    <3>4. v[k] = u[k]
      BY <1>6, <3>1
    <3>5. QED
      BY <2>1, <3>1, <3>2, <3>3, <3>4
  <2>3. CASE k > d /\ k <= d + c
    <3>1. /\ k \in 1 .. d + c /\ k - d \in 1 .. c /\ k - d - 1 \in 0 .. c - 1
          /\ at + d + (k - d - 1) = at + k - 1 /\ ~ (k <= d)
      BY <2>3
    <3>2. Mapped(l, at + d + (k - d - 1)) = sector + (k - d - 1)
      BY <3>1 DEF NextRun
    <3>3. u[k] = sector + (k - d) - 1
      BY <1>2, <1>5, <3>1
    <3>4. sector + (k - d - 1) = sector + (k - d) - 1
      BY <2>3
    <3>5. v[k] = u[k]
      BY <1>6, <2>3
    <3>6. QED
      BY <2>1, <3>1, <3>2, <3>3, <3>4, <3>5
  <2>4. CASE k > d + c
    <3>1. /\ k - (d + c) \in 1 .. m /\ at + d + c + (k - (d + c)) - 1 = at + k - 1
          /\ ~ (k <= d + c)
      BY <2>4
    <3>2. r[k - (d + c)] = Mapped(l, at + d + c + (k - (d + c)) - 1)
      BY <1>3, <3>1
    <3>3. v[k] = r[k - (d + c)]
      BY <1>6, <3>1
    <3>4. QED
      BY <2>1, <3>1, <3>2, <3>3
  <2>5. QED
    BY <2>2, <2>3, <2>4
<1>8. v = s
  BY <1>4, <1>6, <1>7, SeqEqual
<1>9. QED
  BY <1>10, <1>8 DEF p, q, r, s, Joins

LEMMA GoodSplits ==
    ASSUME NEW l, NEW bad, NEW at \in Nat, NEW a \in Nat, NEW b \in Nat
    PROVE  AllGood(l, bad, at, a + b) <=> AllGood(l, bad, at, a) /\ AllGood(l, bad, at + a, b)
<1>1. ASSUME AllGood(l, bad, at, a + b)
      PROVE  AllGood(l, bad, at, a) /\ AllGood(l, bad, at + a, b)
  <2>1. AllGood(l, bad, at, a)
    BY <1>1 DEF AllGood
  <2>2. ASSUME NEW k \in 0 .. b - 1
        PROVE  at + a + k < l.size /\ Mapped(l, at + a + k) \notin bad
    <3>1. a + k \in 0 .. a + b - 1 /\ at + (a + k) = at + a + k
      OBVIOUS
    <3>2. QED
      BY <1>1, <3>1 DEF AllGood
  <2>3. QED
    BY <2>1, <2>2 DEF AllGood
<1>2. ASSUME AllGood(l, bad, at, a), AllGood(l, bad, at + a, b)
      PROVE  AllGood(l, bad, at, a + b)
  <2>1. ASSUME NEW k \in 0 .. a + b - 1
        PROVE  at + k < l.size /\ Mapped(l, at + k) \notin bad
    <3>1. CASE k < a
      BY <1>2, <3>1 DEF AllGood
    <3>2. CASE k >= a
      <4>1. k - a \in 0 .. b - 1 /\ at + a + (k - a) = at + k
        BY <3>2
      <4>2. QED
        BY <1>2, <4>1 DEF AllGood
    <3>3. QED
      BY <3>1, <3>2
  <2>2. QED
    BY <2>1 DEF AllGood
<1>3. QED
  BY <1>1, <1>2

(* The run that is found is good if the read does not fail at it. *)
LEMMA RunIsGood ==
    ASSUME NEW l \in FragList, NEW bad, bad \subseteq Nat \ {0}, NEW at \in Nat, NEW left \in Nat,
           NEW got, NEW d \in Nat, RunIs(l, at, left, got, d)
    PROVE  AllGood(l, bad, at, d + got.count)
             <=> got.ret = 0 /\ (got.sector..(got.sector + got.count - 1)) \cap bad = {}
<1>1. PICK c \in Nat, s \in Nat : c = got.count /\ s = got.sector
  BY DEF RunIs
<1>2. /\ d + c \in 1 .. left
      /\ \A k \in 0 .. d - 1 : Mapped(l, at + k) = 0
      /\ \A k \in 0 .. c - 1 : Mapped(l, at + d + k) = s + k
      /\ got.ret # 0 <=> at + d + c > l.size
      /\ l.size \in Nat
  BY <1>1, ListFacts DEF RunIs
<1>3. ASSUME AllGood(l, bad, at, d + c)
      PROVE  got.ret = 0 /\ (s..(s + c - 1)) \cap bad = {}
  <2>1. d + c - 1 \in 0 .. d + c - 1 /\ d + c \in Nat
    BY <1>2
  <2>2. at + (d + c - 1) < l.size
    BY <1>3, <2>1 DEF AllGood
  <2>3. got.ret = 0
    BY <1>2, <2>1, <2>2
  <2>4. ASSUME NEW x \in s..(s + c - 1) PROVE x \notin bad
    <3>1. x - s \in 0 .. c - 1 /\ d + (x - s) \in 0 .. d + c - 1 /\ s + (x - s) = x
          /\ at + d + (x - s) = at + (d + (x - s))
      OBVIOUS
    <3>2. Mapped(l, at + (d + (x - s))) \notin bad
      BY <1>3, <3>1 DEF AllGood
    <3>3. Mapped(l, at + d + (x - s)) = s + (x - s)
      BY <1>2, <3>1
    <3>4. QED
      BY <3>1, <3>2, <3>3
  <2>5. QED
    BY <2>3, <2>4
<1>4. ASSUME got.ret = 0, (s..(s + c - 1)) \cap bad = {}
      PROVE  AllGood(l, bad, at, d + c)
  <2>1. at + d + c <= l.size
    BY <1>2, <1>4
  <2>2. ASSUME NEW k \in 0 .. d + c - 1
        PROVE  at + k < l.size /\ Mapped(l, at + k) \notin bad
    <3>1. at + k < l.size
      BY <1>2, <2>1
    <3>2. CASE k < d
      <4>1. Mapped(l, at + k) = 0
        BY <1>2, <3>2
      <4>2. QED
        BY <3>1, <4>1
    <3>3. CASE k >= d
      <4>1. k - d \in 0 .. c - 1 /\ at + d + (k - d) = at + k /\ s + (k - d) \in s..(s + c - 1)
        BY <3>3
      <4>2. Mapped(l, at + d + (k - d)) = s + (k - d)
        BY <1>2, <4>1
      <4>3. s + (k - d) \notin bad
        BY <1>4, <4>1
      <4>4. QED
        BY <3>1, <4>1, <4>2, <4>3
    <3>4. QED
      BY <3>2, <3>3
  <2>3. QED
    BY <2>2 DEF AllGood
<1>5. QED
  BY <1>1, <1>3, <1>4

(* What is left of a read that ends at end, and what the first n numbers   *)
(* of sectors left are answered with.                                      *)
FromEnd(l, bad, end, left) == SectAnswer(l, bad, end - left, left)
Answers(l, bad, end, n, f) == \A m \in 0 .. n - 1 : f[m] = FromEnd(l, bad, end, m)

(* The loop at at, with the rest of it as f has it. *)
LoopAt(l, bad, start, at, left, end, f) ==
    Reached(l, start, at) /\ end = at + left /\ Answers(l, bad, end, left, f)

TurnsRight(l, bad, start, at, left, f) ==
    TurnAt(__Frag_Get(l, start, at, left), at, left, bad, f) = SectAnswer(l, bad, at, left)

(* One turn of the loop is right if the rest is. *)
LEMMA TurnIsRight ==
    ASSUME NEW l \in FragList, NEW bad, bad \subseteq Nat \ {0},
           NEW at \in Nat, NEW left \in Nat \ {0}, NEW start, NEW end \in Nat, NEW f,
           LoopAt(l, bad, start, at, left, end, f)
    PROVE  TurnsRight(l, bad, start, at, left, f)
<1> USE DEF LoopAt, TurnsRight
<1>1. PICK got : got = __Frag_Get(l, start, at, left)
  OBVIOUS
<1>2. PICK d \in Nat : RunIs(l, at, left, got, d)
  <2>1. \E d : RunIs(l, at, left, got, d)
    BY <1>1, GetFinds
  <2>2. QED
    BY <2>1 DEF RunIs
<1>3. d \in Nat /\ got.offset = at + d
  BY <1>2 DEF RunIs
<1>4. PICK c \in Nat, s \in Nat : c = got.count /\ s = got.sector
  BY <1>2 DEF RunIs
<1>5. d + c \in 1 .. left
  BY <1>2, <1>4 DEF RunIs
<1>6. PICK m \in 0 .. left - 1 : m = left - d - c /\ m \in Nat
  BY <1>3, <1>4, <1>5
<1>7. at + left - m = at + d + c /\ d + c + m = left /\ got.offset - at = d
  BY <1>3, <1>4, <1>6
<1>8. PICK rest : rest = f[m]
  OBVIOUS
<1>9. rest = SectAnswer(l, bad, at + d + c, m)
  BY <1>6, <1>7, <1>8 DEF Answers, FromEnd
<1>10. TurnAt(got, at, left, bad, f) = Turn(got, d, bad, rest)
  <2>1. left - (got.offset - at) - got.count = m
    BY <1>4, <1>6, <1>7
  <2>2. QED
    BY <1>7, <1>8, <2>1 DEF TurnAt
<1>11. AllGood(l, bad, at, left)
         <=> AllGood(l, bad, at, d + c) /\ AllGood(l, bad, at + d + c, m)
  <2>1. PICK n \in Nat : n = d + c
    BY <1>3, <1>4
  <2>2. AllGood(l, bad, at, n + m) <=> AllGood(l, bad, at, n) /\ AllGood(l, bad, at + n, m)
    BY <1>6, GoodSplits
  <2>3. at + n = at + d + c /\ n + m = left
    BY <1>3, <1>4, <1>6, <2>1
  <2>4. QED
    BY <2>1, <2>2, <2>3
<1>12. AllGood(l, bad, at, d + c) <=> got.ret = 0 /\ (s..(s + c - 1)) \cap bad = {}
  BY <1>2, <1>3, <1>4, RunIsGood
<1>13. rest.ok <=> AllGood(l, bad, at + d + c, m)
  BY <1>9 DEF SectAnswer, Failed
<1>14. d + c # 0
  BY <1>5
<1>15. CASE AllGood(l, bad, at, left)
  <2>1. got.ret = 0 /\ (s..(s + c - 1)) \cap bad = {} /\ rest.ok
    BY <1>11, <1>12, <1>13, <1>15
  <2>2. rest.data = ImageSectors(l, at + d + c, m)
    BY <1>9, <1>11, <1>15 DEF SectAnswer
  <2>3. Turn(got, d, bad, rest)
          = [ok |-> TRUE,
             data |-> Gap(d) \o Run(s, c) \o rest.data]
    BY <1>4, <1>14, <2>1 DEF Turn, Gap, Run
  <2>4. /\ \A k \in 0 .. d - 1 : Mapped(l, at + k) = 0
        /\ \A k \in 0 .. c - 1 : Mapped(l, at + d + k) = s + k
    BY <1>2, <1>4 DEF RunIs
  <2>5. Gap(d) \o Run(s, c) \o ImageSectors(l, at + d + c, m)
          = ImageSectors(l, at, left)
    <3>1. Gap(d) \o Run(s, c) \o ImageSectors(l, at + d + c, m)
            = ImageSectors(l, at, d + c + m)
      <4>1. m \in Nat
        BY <1>6
      <4>2. NextRun(l, at, d, s, c)
        BY <2>4 DEF NextRun
      <4>3. Joins(l, at, d, s, c, m)
        BY <4>1, <4>2, ImageJoin
      <4>4. QED
        BY <4>3 DEF Joins
    <3>2. QED
      BY <1>7, <3>1
  <2>6. Turn(got, d, bad, rest) = [ok |-> TRUE, data |-> ImageSectors(l, at, left)]
    BY <2>2, <2>3, <2>5
  <2>7. QED
    BY <1>1, <1>10, <1>15, <2>6 DEF SectAnswer
<1>16. CASE ~AllGood(l, bad, at, left)
  <2>1. got.ret # 0 \/ (s..(s + c - 1)) \cap bad # {} \/ ~rest.ok
    BY <1>11, <1>12, <1>13, <1>16
  <2>2. Turn(got, d, bad, rest) = Failed
    BY <1>4, <2>1 DEF Turn
  <2>3. QED
    BY <1>1, <1>10, <1>16, <2>2 DEF SectAnswer
<1>17. QED
  BY <1>15, <1>16

LEMMA IndexEntry ==
    ASSUME NEW at \in Nat, at < MaxIdx * IdxChunk
    PROVE  IdxOff(at) \in 0..(MaxIdx - 1) /\ IdxOff(at) * IdxChunk <= at
<1>1. PICK q \in Nat, r \in Nat : q = at \div IdxChunk /\ at = q * IdxChunk + r
  BY FragAssumption, Remainder
<1>2. q * IdxChunk \in Nat /\ MaxIdx * IdxChunk \in Nat /\ MaxIdx \in Nat /\ IdxChunk \in Nat
  BY FragAssumption
<1>3. q < MaxIdx
  <2>1. MaxIdx <= q => MaxIdx * IdxChunk <= q * IdxChunk
    BY <1>2, TimesMono
  <2>2. QED
    BY <1>1, <1>2, <2>1
<1>4. IdxOff(at) = q
  BY <1>1, <1>2, <1>3 DEF IdxOff
<1>5. QED
  BY <1>1, <1>2, <1>3, <1>4

(* The equations of the loop, by what is left to read. *)
TurnFrom(l, idx, bad, end, left, f) ==
    TurnAt(__Frag_Get(l, idx[IdxOff(end - left)], end - left, left), end - left, left, bad, f)

Loop(l, idx, bad, offset, len, f) ==
    f = [left \in 0..len |->
           IF left = 0 THEN [ok |-> TRUE, data |-> <<>>]
           ELSE TurnAt(__Frag_Get(l, idx[IdxOff(offset + len - left)], offset + len - left, left),
                       offset + len - left, left, bad, f)]

LEMMA ReadUnfolds ==
    ASSUME NEW l, NEW idx, NEW bad, NEW offset, NEW len
    PROVE  __Frag_ReadSect(l, idx, bad, offset, len)
             = (CHOOSE f : Loop(l, idx, bad, offset, len, f))[len]
BY DEF __Frag_ReadSect, Loop

LEMMA NoSectors ==
    ASSUME NEW l, NEW bad, NEW end \in Nat
    PROVE  FromEnd(l, bad, end, 0) = [ok |-> TRUE, data |-> <<>>]
<1>1. AllGood(l, bad, end - 0, 0)
  BY DEF AllGood
<1>2. ImageSectors(l, end - 0, 0) = <<>>
  BY DEF ImageSectors
<1>3. QED
  BY <1>1, <1>2 DEF FromEnd, SectAnswer

TurnEnds(l, bad, end, left, f) ==
    TurnFrom(l, __Frag_OptimizeList(l), bad, end, left, f) = FromEnd(l, bad, end, left)

LEMMA TurnAnswers ==
    ASSUME NEW l \in FragList, NEW bad, bad \subseteq Nat \ {0},
           NEW end \in Nat, end <= MaxIdx * IdxChunk,
           NEW left \in 1 .. end, NEW f, Answers(l, bad, end, left, f)
    PROVE  TurnEnds(l, bad, end, left, f)
<1>1. PICK at \in Nat : at = end - left
  BY end - left \in Nat
<1>2. at < MaxIdx * IdxChunk
  BY <1>1, FragAssumption
<1>3. PICK i \in 0..(MaxIdx - 1) : i = IdxOff(at) /\ i * IdxChunk <= at
  BY <1>2, IndexEntry
<1>4. PICK start : start = __Frag_OptimizeList(l)[i]
  OBVIOUS
<1>5. Reached(l, start, at)
  BY <1>3, <1>4, IndexReaches
<1>6. end = at + left
  BY <1>1
<1>7. left \in Nat \ {0}
  OBVIOUS
<1>8. LoopAt(l, bad, start, at, left, end, f)
  BY <1>5, <1>6 DEF LoopAt
<1>9. TurnsRight(l, bad, start, at, left, f)
  BY <1>7, <1>8, TurnIsRight
<1>10. QED
  BY <1>1, <1>3, <1>4, <1>9 DEF TurnsRight, TurnFrom, FromEnd, TurnEnds

LEMMA LoopExists ==
    ASSUME NEW l \in FragList, NEW bad, bad \subseteq Nat \ {0},
           NEW offset \in Nat, NEW len \in Nat, offset + len <= MaxIdx * IdxChunk
    PROVE  \E f : Loop(l, __Frag_OptimizeList(l), bad, offset, len, f)
<1>0. PICK end \in Nat : end = offset + len /\ len \in 0 .. end /\ end <= MaxIdx * IdxChunk
  BY offset + len \in Nat
<1> DEFINE f == [left \in 0..len |-> FromEnd(l, bad, end, left)]
<1>1. ASSUME NEW left \in 1 .. len PROVE Answers(l, bad, end, left, f)
  <2>1. ASSUME NEW m \in 0 .. left - 1 PROVE f[m] = FromEnd(l, bad, end, m)
    <3>1. m \in 0..len
      OBVIOUS
    <3>2. QED
      BY <3>1
  <2> HIDE DEF f
  <2>2. QED
    BY <2>1 DEF Answers
<1>3. f = [left \in 0..len |-> f[left]]
  OBVIOUS
<1>4. ASSUME NEW left \in 0 .. len PROVE f[left] = FromEnd(l, bad, end, left)
  OBVIOUS
<1> HIDE DEF f
<1>2. f[0] = [ok |-> TRUE, data |-> <<>>]
  <2>1. f[0] = FromEnd(l, bad, end, 0)
    BY <1>4
  <2>2. QED
    BY <2>1, NoSectors
<1>5. ASSUME NEW left \in 0..len, left # 0
      PROVE  f[left] = TurnFrom(l, __Frag_OptimizeList(l), bad, end, left, f)
  <2>1. left \in 1 .. len /\ left \in 1 .. end
    BY <1>0, <1>5
  <2>2. Answers(l, bad, end, left, f) /\ f[left] = FromEnd(l, bad, end, left)
    BY <2>1, <1>1, <1>4
  <2>3. TurnFrom(l, __Frag_OptimizeList(l), bad, end, left, f) = FromEnd(l, bad, end, left)
    <3>1. PICK n, g : n \in 1 .. end /\ n = left /\ g = f /\ Answers(l, bad, end, n, g)
      BY <2>1, <2>2
    <3>2. TurnEnds(l, bad, end, n, g)
      BY <1>0, <3>1, TurnAnswers
    <3>3. QED
      BY <3>1, <3>2 DEF TurnEnds
  <2>4. QED
    BY <2>2, <2>3
<1>6. Loop(l, __Frag_OptimizeList(l), bad, offset, len, f)
  BY <1>0, <1>2, <1>3, <1>5 DEF Loop, TurnFrom
<1>7. QED
  BY <1>6

(* The whole sectors a read gets are the image's. *)
LEMMA ReadSectIs ==
    ASSUME NEW l \in FragList, NEW bad, bad \subseteq Nat \ {0},
           NEW offset \in Nat, NEW len \in Nat, offset + len <= MaxIdx * IdxChunk
    PROVE  __Frag_ReadSect(l, __Frag_OptimizeList(l), bad, offset, len)
             = SectAnswer(l, bad, offset, len)
<1>0. PICK end \in Nat : end = offset + len /\ len \in 0 .. end /\ end <= MaxIdx * IdxChunk
  BY offset + len \in Nat
<1>1. PICK f : /\ f = CHOOSE g : Loop(l, __Frag_OptimizeList(l), bad, offset, len, g)
               /\ __Frag_ReadSect(l, __Frag_OptimizeList(l), bad, offset, len) = f[len]
  BY ReadUnfolds
<1>2. Loop(l, __Frag_OptimizeList(l), bad, offset, len, f)
  BY <1>1, LoopExists
<1>3. ASSUME NEW left \in 0..len
      PROVE  f[left] = IF left = 0 THEN [ok |-> TRUE, data |-> <<>>]
                       ELSE TurnFrom(l, __Frag_OptimizeList(l), bad, end, left, f)
  <2>1. offset + len - left = end - left
    BY <1>0
  <2>2. f[left] = IF left = 0 THEN [ok |-> TRUE, data |-> <<>>]
                  ELSE TurnAt(__Frag_Get(l, __Frag_OptimizeList(l)[IdxOff(offset + len - left)],
                                         offset + len - left, left),
                              offset + len - left, left, bad, f)
    BY <1>2 DEF Loop
  <2>3. QED
    BY <2>1, <2>2 DEF TurnFrom
<1> DEFINE S == {n \in Nat : n <= len + 1 => Answers(l, bad, end, n, f)}
<1>4. 0 \in S
  BY DEF Answers
<1>5. ASSUME NEW n \in S PROVE n + 1 \in S
  <2>1. SUFFICES ASSUME n + 1 <= len + 1 PROVE Answers(l, bad, end, n + 1, f)
    OBVIOUS
  <2>2. n \in 0..len /\ n \in Nat /\ Answers(l, bad, end, n, f)
    BY <2>1
  <2>3. f[n] = FromEnd(l, bad, end, n)
    <3>1. CASE n = 0
      <4>1. f[0] = [ok |-> TRUE, data |-> <<>>]
        BY <1>3, <2>2, <3>1
      <4>2. QED
        BY <1>0, <3>1, <4>1, NoSectors
    <3>2. CASE n # 0
      <4>1. n \in 1 .. end
        BY <1>0, <2>2, <3>2
      <4>2. f[n] = TurnFrom(l, __Frag_OptimizeList(l), bad, end, n, f)
        BY <1>3, <2>2, <3>2
      <4>3. PICK m : m = n /\ m \in 1 .. end /\ Answers(l, bad, end, m, f)
        BY <2>2, <4>1
      <4>4. TurnEnds(l, bad, end, m, f)
        BY <1>0, <4>3, TurnAnswers
      <4>5. QED
        BY <4>2, <4>3, <4>4 DEF TurnEnds
    <3>3. QED
      BY <3>1, <3>2
  <2>4. ASSUME NEW m \in 0 .. (n + 1) - 1 PROVE f[m] = FromEnd(l, bad, end, m)
    <3>1. m \in 0 .. n - 1 \/ m = n
      BY <2>2
    <3>2. QED
      BY <2>2, <2>3, <3>1 DEF Answers
  <2>5. QED
    BY <2>4 DEF Answers
<1>6. S = Nat
  <2> HIDE DEF S
  <2>1. S \in SUBSET Nat
    BY DEF S
  <2>2. QED
    BY <1>4, <1>5, <2>1, SetInduction
<1>7. Answers(l, bad, end, len + 1, f)
  <2>1. len + 1 \in S
    BY <1>6
  <2>2. QED
    BY <2>1
<1>8. f[len] = SectAnswer(l, bad, offset, len)
  <2>1. len \in 0 .. (len + 1) - 1 /\ end - len = offset
    BY <1>0
  <2>2. QED
    BY <1>7, <2>1 DEF Answers, FromEnd
<1>9. QED
  BY <1>1, <1>8

-----------------------------------------------------------------------------
(* Bytes. *)

ByteIn(l, b) == ByteAt(Mapped(l, b \div SectorSize), b % SectorSize)
GoodByte(l, bad, b) == b \div SectorSize < l.size /\ Mapped(l, b \div SectorSize) \notin bad

(* The n bytes from first on. *)
BytesGood(l, bad, first, n) == \A k \in 0 .. n - 1 : GoodByte(l, bad, first + k)
ImageBytes(l, first, n) == [k \in 1 .. n |-> ByteIn(l, first + k - 1)]

BytesAnswer(l, bad, first, n) ==
    IF BytesGood(l, bad, first, n) THEN [ok |-> TRUE, data |-> ImageBytes(l, first, n)] ELSE Failed

LEMMA Sizes ==
    /\ SectorWords \in Nat \ {0} /\ WordBytes \in Nat \ {0} /\ SectorSize \in Nat \ {0}
    /\ SectorSize = SectorWords * WordBytes
    /\ MaxIdx * IdxChunk \in Nat
<1>1. SectorWords \in Nat \ {0} /\ WordBytes \in Nat \ {0} /\ MaxIdx \in Nat /\ IdxChunk \in Nat
  BY FragAssumption
<1>2. 0 * WordBytes + WordBytes <= SectorWords * WordBytes
  BY <1>1, TimesMono
<1>3. SectorWords * WordBytes \in Nat /\ MaxIdx * IdxChunk \in Nat /\ 0 * WordBytes = 0
  BY <1>1
<1>4. QED
  BY <1>1, <1>2, <1>3 DEF SectorSize

(* The byte r of sector q. *)
LEMMA Address ==
    ASSUME NEW q \in Nat, NEW r \in Nat, r < SectorSize
    PROVE  /\ q * SectorSize \in Nat
           /\ (q * SectorSize + r) \div SectorSize = q
           /\ (q * SectorSize + r) % SectorSize = r
<1>1. PICK p \in Nat \ {0} : p = SectorSize
  BY Sizes
<1>2. PICK a \in Nat : a = q * p + r
  OBVIOUS
<1>3. a \div p = q /\ a % p = r
  BY <1>1, <1>2, Division
<1>4. q * p \in Nat
  OBVIOUS
<1>5. QED
  BY <1>1, <1>2, <1>3, <1>4

LEMMA ByteType ==
    ASSUME NEW l \in FragList, NEW b \in Nat
    PROVE  ByteIn(l, b) \in Nat \X Nat
<1>1. PICK q \in Nat, r \in Nat : q = b \div SectorSize /\ r = b % SectorSize
  BY Sizes, Remainder
<1>2. Mapped(l, q) \in Nat
  BY MappedType
<1>3. QED
  BY <1>1, <1>2 DEF ByteIn, ByteAt, Zero

LEMMA BytesType ==
    ASSUME NEW l \in FragList, NEW first \in Nat, NEW n \in Nat
    PROVE  /\ ImageBytes(l, first, n) \in Seq(Nat \X Nat) /\ Len(ImageBytes(l, first, n)) = n
           /\ \A k \in 1 .. n : ImageBytes(l, first, n)[k] = ByteIn(l, first + k - 1)
<1>1. ASSUME NEW k \in 1 .. n PROVE ByteIn(l, first + k - 1) \in Nat \X Nat
  <2>1. first + k - 1 \in Nat
    OBVIOUS
  <2>2. QED
    BY <2>1, ByteType
<1>2. QED
  BY <1>1 DEF ImageBytes

BytesJoined(l, first, a, b) ==
    ImageBytes(l, first, a) \o ImageBytes(l, first + a, b) = ImageBytes(l, first, a + b)

LEMMA BytesJoin ==
    ASSUME NEW l \in FragList, NEW first \in Nat, NEW a \in Nat, NEW b \in Nat
    PROVE  BytesJoined(l, first, a, b)
<1>1. PICK p, q, s : /\ p = ImageBytes(l, first, a) /\ q = ImageBytes(l, first + a, b)
                     /\ s = ImageBytes(l, first, a + b)
  OBVIOUS
<1>2. p \in Seq(Nat \X Nat) /\ Len(p) = a /\ \A k \in 1 .. a : p[k] = ByteIn(l, first + k - 1)
  BY <1>1, BytesType
<1>3. q \in Seq(Nat \X Nat) /\ Len(q) = b /\ \A k \in 1 .. b : q[k] = ByteIn(l, first + a + k - 1)
  <2>1. PICK f \in Nat : f = first + a
    OBVIOUS
  <2>2. QED
    BY <1>1, <2>1, BytesType
<1>4. /\ s \in Seq(Nat \X Nat) /\ Len(s) = a + b
      /\ \A k \in 1 .. a + b : s[k] = ByteIn(l, first + k - 1)
  <2>1. PICK n \in Nat : n = a + b
    OBVIOUS
  <2>2. QED
    BY <1>1, <2>1, BytesType
<1>5. /\ p \o q \in Seq(Nat \X Nat) /\ Len(p \o q) = a + b
      /\ \A k \in 1 .. a + b : (p \o q)[k] = IF k <= a THEN p[k] ELSE q[k - a]
  BY <1>2, <1>3, ConcatProperties
<1>6. PICK u : u = p \o q
  OBVIOUS
<1>7. ASSUME NEW k \in 1 .. a + b PROVE u[k] = s[k]
  <2>1. s[k] = ByteIn(l, first + k - 1)
    BY <1>4
  <2>2. CASE k <= a
    <3>1. u[k] = p[k]
      BY <1>5, <1>6, <2>2
    <3>2. p[k] = ByteIn(l, first + k - 1)
      BY <1>2, <2>2
    <3>3. QED
      BY <2>1, <3>1, <3>2
  <2>3. CASE k > a
    <3>1. k - a \in 1 .. b /\ first + a + (k - a) - 1 = first + k - 1 /\ ~ (k <= a)
      BY <2>3
    <3>2. u[k] = q[k - a]
      BY <1>5, <1>6, <3>1
    <3>3. q[k - a] = ByteIn(l, first + a + (k - a) - 1)
      BY <1>3, <3>1
    <3>4. QED
      BY <2>1, <3>1, <3>2, <3>3
  <2>4. QED
    BY <2>2, <2>3
<1>8. u = s
  <2>1. u \in Seq(Nat \X Nat) /\ Len(u) = a + b
    BY <1>5, <1>6
  <2>2. QED
    BY <1>4, <1>7, <2>1, SeqEqual
<1>9. QED
  BY <1>1, <1>6, <1>8 DEF BytesJoined

LEMMA BytesSplit ==
    ASSUME NEW l, NEW bad, NEW first \in Nat, NEW a \in Nat, NEW b \in Nat
    PROVE  BytesGood(l, bad, first, a + b)
             <=> BytesGood(l, bad, first, a) /\ BytesGood(l, bad, first + a, b)
<1>1. ASSUME BytesGood(l, bad, first, a + b)
      PROVE  BytesGood(l, bad, first, a) /\ BytesGood(l, bad, first + a, b)
  <2>1. BytesGood(l, bad, first, a)
    BY <1>1 DEF BytesGood
  <2>2. ASSUME NEW k \in 0 .. b - 1 PROVE GoodByte(l, bad, first + a + k)
    <3>1. a + k \in 0 .. a + b - 1 /\ first + (a + k) = first + a + k
      OBVIOUS
    <3>2. QED
      BY <1>1, <3>1 DEF BytesGood
  <2>3. QED
    BY <2>1, <2>2 DEF BytesGood
<1>2. ASSUME BytesGood(l, bad, first, a), BytesGood(l, bad, first + a, b)
      PROVE  BytesGood(l, bad, first, a + b)
  <2>1. ASSUME NEW k \in 0 .. a + b - 1 PROVE GoodByte(l, bad, first + k)
    <3>1. CASE k < a
      BY <1>2, <3>1 DEF BytesGood
    <3>2. CASE k >= a
      <4>1. k - a \in 0 .. b - 1 /\ first + a + (k - a) = first + k
        BY <3>2
      <4>2. QED
        BY <1>2, <4>1 DEF BytesGood
    <3>3. QED
      BY <3>1, <3>2
  <2>2. QED
    BY <2>1 DEF BytesGood
<1>3. QED
  BY <1>1, <1>2

LEMMA NoBytes ==
    ASSUME NEW l, NEW bad, NEW first
    PROVE  /\ BytesGood(l, bad, first, 0) /\ ImageBytes(l, first, 0) = <<>>
           /\ BytesAnswer(l, bad, first, 0) = [ok |-> TRUE, data |-> <<>>]
<1>1. BytesGood(l, bad, first, 0)
  BY DEF BytesGood
<1>2. ImageBytes(l, first, 0) = <<>>
  BY DEF ImageBytes
<1>3. QED
  BY <1>1, <1>2 DEF BytesAnswer

(* The answer the image defines, by its bytes. *)
LEMMA ImageIs ==
    ASSUME NEW l, NEW bad, NEW len \in Nat, NEW woffset \in Nat
    PROVE  Image(l, bad, len, woffset) = BytesAnswer(l, bad, woffset * WordBytes, len)
<1>1. PICK first \in Nat : first = woffset * WordBytes
  BY Sizes, woffset * WordBytes \in Nat
<1> DEFINE needed == {b \div SectorSize : b \in first..(first + len - 1)}
<1>2. (\A s \in needed : s < l.size /\ Mapped(l, s) \notin bad) <=> BytesGood(l, bad, first, len)
  <2>1. ASSUME \A s \in needed : s < l.size /\ Mapped(l, s) \notin bad,
               NEW k \in 0 .. len - 1
        PROVE  GoodByte(l, bad, first + k)
    <3>1. (first + k) \div SectorSize \in needed
      OBVIOUS
    <3>2. QED
      BY <2>1, <3>1 DEF GoodByte
  <2>2. ASSUME BytesGood(l, bad, first, len), NEW s \in needed
        PROVE  s < l.size /\ Mapped(l, s) \notin bad
    <3>1. PICK b \in first..(first + len - 1) : s = b \div SectorSize
      OBVIOUS
    <3>2. b - first \in 0 .. len - 1 /\ first + (b - first) = b
      OBVIOUS
    <3>3. GoodByte(l, bad, b)
      BY <2>2, <3>2 DEF BytesGood
    <3>4. QED
      BY <3>1, <3>3 DEF GoodByte
  <2>3. QED
    BY <2>1, <2>2 DEF BytesGood
<1>3. [k \in 1..len |-> ByteAt(Mapped(l, (first + k - 1) \div SectorSize),
                               (first + k - 1) % SectorSize)] = ImageBytes(l, first, len)
  BY DEF ImageBytes, ByteIn
<1>4. Image(l, bad, len, woffset)
        = IF \A s \in needed : s < l.size /\ Mapped(l, s) \notin bad
          THEN [ok |-> TRUE,
                data |-> [k \in 1..len |-> ByteAt(Mapped(l, (first + k - 1) \div SectorSize),
                                                  (first + k - 1) % SectorSize)]]
          ELSE Failed
  BY <1>1 DEF Image
<1>5. QED
  BY <1>1, <1>2, <1>3, <1>4 DEF BytesAnswer

-----------------------------------------------------------------------------
(* The parts of a read. *)

(* Sector q of the image is below the end of the table. *)
LEMMA SectorBelow ==
    ASSUME NEW q \in Nat, NEW n \in Nat, n <= MaxIdx * IdxChunk * SectorSize,
           q * SectorSize <= n
    PROVE  q <= MaxIdx * IdxChunk
<1>1. PICK M \in Nat, p \in Nat \ {0} : M = MaxIdx * IdxChunk /\ p = SectorSize
  BY Sizes
<1>2. M < q => M * p + p <= q * p
  BY TimesMono
<1>3. M * p \in Nat /\ q * p \in Nat
  OBVIOUS
<1>4. n <= M * p /\ q * p <= n
  BY <1>1
<1>5. QED
  BY <1>1, <1>2, <1>3, <1>4

(* Where a word of the image is. *)
LEMMA WordIs ==
    ASSUME NEW w \in Nat
    PROVE  \E q, r \in Nat : /\ q = w \div SectorWords /\ r = w % SectorWords
                            /\ w = q * SectorWords + r /\ r < SectorWords
                            /\ r * WordBytes \in Nat /\ r * WordBytes < SectorSize
                            /\ SectorSize - r * WordBytes = (SectorWords - r) * WordBytes
                            /\ w * WordBytes = q * SectorSize + r * WordBytes
<1>1. PICK s \in Nat \ {0}, p \in Nat \ {0} : s = SectorWords /\ p = WordBytes
  BY Sizes
<1>2. PICK q \in Nat, r \in Nat : q = w \div s /\ r = w % s /\ w = q * s + r /\ r < s
  BY Remainder
<1>3. r * p \in Nat /\ r * p + p <= s * p
  BY <1>2, TimesMono
<1>4. (q * s + r) * p = q * (s * p) + r * p /\ (s - r) * p = s * p - r * p
  OBVIOUS
<1>5. SectorSize = s * p
  BY <1>1, Sizes
<1>6. r * p < s * p
  BY <1>3, s * p \in Nat
<1>7. QED
  BY <1>1, <1>2, <1>3, <1>4, <1>5, <1>6

(* Some bytes of one sector. *)
LEMMA BytesOfOne ==
    ASSUME NEW l \in FragList, NEW bad, NEW q \in Nat, NEW mod \in Nat, NEW n \in Nat \ {0},
           mod + n <= SectorSize, NEW first \in Nat, first = q * SectorSize + mod
    PROVE  /\ BytesGood(l, bad, first, n) <=> AllGood(l, bad, q, 1)
           /\ ImageBytes(l, first, n) = [k \in 1..n |-> ByteAt(Mapped(l, q), mod + k - 1)]
<1>1. ASSUME NEW k \in 0 .. n - 1
      PROVE  (first + k) \div SectorSize = q /\ (first + k) % SectorSize = mod + k
  <2>1. PICK r \in Nat : r = mod + k /\ r < SectorSize
    BY Sizes
  <2>2. first + k = q * SectorSize + r
    BY <2>1, Address
  <2>3. (q * SectorSize + r) \div SectorSize = q /\ (q * SectorSize + r) % SectorSize = r
    BY <2>1, Address
  <2>4. QED
    BY <2>1, <2>2, <2>3
<1>2. AllGood(l, bad, q, 1) <=> q < l.size /\ Mapped(l, q) \notin bad
  <2>1. 0 .. 1 - 1 = {0} /\ q + 0 = q
    OBVIOUS
  <2>2. QED
    BY <2>1 DEF AllGood
<1>3. ASSUME NEW k \in 0 .. n - 1
      PROVE  GoodByte(l, bad, first + k) <=> AllGood(l, bad, q, 1)
  BY <1>1, <1>2 DEF GoodByte
<1>4. BytesGood(l, bad, first, n) <=> AllGood(l, bad, q, 1)
  <2>1. 0 \in 0 .. n - 1
    OBVIOUS
  <2>2. QED
    BY <1>3, <2>1 DEF BytesGood
<1>5. ASSUME NEW k \in 1 .. n
      PROVE  ByteIn(l, first + k - 1) = ByteAt(Mapped(l, q), mod + k - 1)
  <2>1. k - 1 \in 0 .. n - 1 /\ first + (k - 1) = first + k - 1 /\ mod + (k - 1) = mod + k - 1
    OBVIOUS
  <2>2. QED
    BY <1>1, <2>1 DEF ByteIn
<1>6. ImageBytes(l, first, n) = [k \in 1..n |-> ByteAt(Mapped(l, q), mod + k - 1)]
  BY <1>5 DEF ImageBytes
<1>7. QED
  BY <1>4, <1>6

(* The word offset of the head of a sector. *)
OnSector(w) == \E q \in Nat : w = q * SectorWords

(* A part of a read: n bytes, the last of a sector if more are asked for,  *)
(* all of them if they are the head of a sector.                           *)
PartIs(l, bad, w, len, n) ==
    /\ __Frag_ReadPartial(l, __Frag_OptimizeList(l), bad, w, len)
         = BytesAnswer(l, bad, w * WordBytes, n)
    /\ n < len => \E q, m \in Nat : w * WordBytes + n = q * SectorSize /\ n = m * WordBytes
    /\ OnSector(w) /\ len < SectorSize => n = len

LEMMA PartialIs ==
    ASSUME NEW l \in FragList, NEW bad, bad \subseteq Nat \ {0},
           NEW w \in Nat, NEW len \in Nat \ {0}, Within(w, len)
    PROVE  \E n \in 0..len : PartIs(l, bad, w, len, n)
<1>1. PICK q \in Nat, r \in Nat :
          /\ q = w \div SectorWords /\ r = w % SectorWords
          /\ w = q * SectorWords + r /\ r < SectorWords
          /\ r * WordBytes \in Nat /\ r * WordBytes < SectorSize
          /\ SectorSize - r * WordBytes = (SectorWords - r) * WordBytes
          /\ w * WordBytes = q * SectorSize + r * WordBytes
  BY WordIs
<1>2. PICK mod \in Nat, size \in Nat \ {0}, base \in Nat, first \in Nat :
          /\ mod = r * WordBytes /\ size = SectorSize /\ base = q * SectorSize
          /\ first = w * WordBytes
  <2>1. q * SectorSize \in Nat /\ w * WordBytes \in Nat
    BY Sizes
  <2>2. QED
    BY <1>1, <2>1, Sizes
<1>3. mod < size /\ first = base + mod /\ size - mod = (SectorWords - r) * WordBytes
  BY <1>1, <1>2
<1>4. PICK most : most = Min({size - mod, len})
  OBVIOUS
<1>5. most = (IF size - mod <= len THEN size - mod ELSE len) /\ most \in 1 .. len
      /\ most <= size - mod
  <2>1. size - mod \in Nat \ {0}
    BY <1>3
  <2>2. QED
    BY <1>4, <2>1, LessOfTwo
<1>6. PICK n \in 0..len : n = IF most = size THEN 0 ELSE most
  BY <1>5
<1>7. PICK got : got = __Frag_ReadSect(l, __Frag_OptimizeList(l), bad, q, 1)
  OBVIOUS
<1>8. __Frag_ReadPartial(l, __Frag_OptimizeList(l), bad, w, len)
        = IF n = 0 THEN [ok |-> TRUE, data |-> <<>>]
          ELSE IF ~got.ok THEN Failed
          ELSE [ok |-> TRUE, data |-> [k \in 1..n |-> ByteAt(got.data[1], mod + k - 1)]]
  BY <1>1, <1>2, <1>4, <1>6, <1>7 DEF __Frag_ReadPartial
<1>9. n < len => \E b, m \in Nat : w * WordBytes + n = b * SectorSize /\ n = m * WordBytes
  <2>1. SUFFICES ASSUME n < len
                 PROVE  \E b, m \in Nat : first + n = b * SectorSize /\ n = m * WordBytes
    BY <1>2
  <2>2. CASE n = 0
    <3>1. most = size
      BY <1>5, <1>6, <2>2
    <3>2. mod = 0
      BY <1>3, <1>5, <3>1
    <3>3. first + n = q * SectorSize /\ n = 0 * WordBytes
      BY <1>2, <1>3, <2>2, <3>2, Sizes
    <3>4. QED
      BY <3>3
  <2>3. CASE n # 0
    <3>1. n = size - mod
      BY <1>5, <1>6, <2>1, <2>3
    <3>2. first + n = base + size
      BY <1>3, <3>1
    <3>3. (q + 1) * size = q * size + size /\ q + 1 \in Nat
      OBVIOUS
    <3>4. first + n = (q + 1) * SectorSize
      BY <1>2, <3>2, <3>3
    <3>5. SectorWords - r \in Nat /\ n = (SectorWords - r) * WordBytes
      BY <1>1, <1>3, <3>1, Sizes
    <3>6. QED
      BY <3>3, <3>4, <3>5
  <2>4. QED
    BY <2>2, <2>3
<1>10. (\E b \in Nat : w = b * SectorWords) /\ len < SectorSize => n = len
  <2>1. SUFFICES ASSUME NEW b \in Nat, w = b * SectorWords, len < SectorSize PROVE n = len
    OBVIOUS
  <2>2. r = 0
    <3>1. PICK s \in Nat \ {0} : s = SectorWords
      BY Sizes
    <3>2. w = b * s + 0 /\ 0 < s
      BY <2>1, <3>1
    <3>3. w % s = 0
      BY <3>2, Division
    <3>4. QED
      BY <1>1, <3>1, <3>3
  <2>3. mod = 0
    BY <1>2, <2>2, Sizes
  <2>4. most = len
    BY <1>2, <1>5, <2>1, <2>3
  <2>5. QED
    BY <1>2, <1>6, <2>1, <2>4
<1>11. __Frag_ReadPartial(l, __Frag_OptimizeList(l), bad, w, len) = BytesAnswer(l, bad, first, n)
  <2>1. CASE n = 0
    BY <1>8, <2>1, NoBytes
  <2>2. CASE n # 0
    <3>1. n \in Nat \ {0} /\ mod + n <= size
      BY <1>3, <1>5, <1>6, <2>2
    <3>2. q + 1 <= MaxIdx * IdxChunk
      <4>1. PICK M \in Nat : M = MaxIdx * IdxChunk /\ first + len <= M * size
        BY <1>2, Sizes DEF Within
      <4>2. M <= q => M * size <= q * size
        BY TimesMono
      <4>3. M * size \in Nat /\ q * size = base
        BY <1>2
      <4>4. base < first + len
        BY <1>3
      <4>5. QED
        BY <4>1, <4>2, <4>3, <4>4
    <3>3. got = SectAnswer(l, bad, q, 1)
      BY <1>7, <3>2, ReadSectIs
    <3>4. /\ BytesGood(l, bad, first, n) <=> AllGood(l, bad, q, 1)
          /\ ImageBytes(l, first, n) = [k \in 1..n |-> ByteAt(Mapped(l, q), mod + k - 1)]
      <4>1. first = q * SectorSize + mod /\ mod + n <= SectorSize
        BY <1>2, <1>3, <3>1
      <4>2. QED
        BY <3>1, <4>1, BytesOfOne
    <3>5. ImageSectors(l, q, 1)[1] = Mapped(l, q)
      <4>1. 1 \in 1 .. 1 /\ q + 1 - 1 = q
        OBVIOUS
      <4>2. QED
        BY <4>1 DEF ImageSectors
    <3>6. CASE AllGood(l, bad, q, 1)
      <4>1. got.ok = TRUE /\ got.data = ImageSectors(l, q, 1)
        BY <3>3, <3>6 DEF SectAnswer
      <4>2. __Frag_ReadPartial(l, __Frag_OptimizeList(l), bad, w, len)
              = [ok |-> TRUE, data |-> [k \in 1..n |-> ByteAt(Mapped(l, q), mod + k - 1)]]
        BY <1>8, <2>2, <3>5, <4>1
      <4>3. QED
        BY <3>4, <3>6, <4>2 DEF BytesAnswer
    <3>7. CASE ~AllGood(l, bad, q, 1)
      <4>1. got.ok = FALSE
        BY <3>3, <3>7 DEF SectAnswer, Failed
      <4>2. QED
        BY <1>8, <2>2, <3>4, <3>7, <4>1 DEF BytesAnswer
    <3>8. QED
      BY <3>6, <3>7
  <2>3. QED
    BY <2>1, <2>2
<1>12. QED
  BY <1>2, <1>9, <1>10, <1>11 DEF PartIs, OnSector

(* n whole sectors from sector q on. *)
Spans(q, n, size, first, total) == size = SectorSize /\ first = q * size /\ total = n * size

AreSectors(l, bad, q, n, size, first, total) ==
    /\ BytesGood(l, bad, first, total) <=> AllGood(l, bad, q, n)
    /\ ImageBytes(l, first, total)
         = [k \in 1..total |-> ByteAt(ImageSectors(l, q, n)[((k - 1) \div size) + 1], (k - 1) % size)]

LEMMA BytesOfMany ==
    ASSUME NEW l \in FragList, NEW bad, NEW q \in Nat, NEW n \in Nat,
           NEW size \in Nat \ {0}, NEW first \in Nat, NEW total \in Nat,
           Spans(q, n, size, first, total)
    PROVE  AreSectors(l, bad, q, n, size, first, total)
<1> USE DEF Spans
<1>1. ASSUME NEW k \in 0 .. total - 1
      PROVE  \E a \in 0 .. n - 1, b \in Nat :
                 /\ a = k \div size /\ b = k % size
                 /\ (first + k) \div SectorSize = q + a /\ (first + k) % SectorSize = b
  <2>1. PICK a \in Nat, b \in Nat : a = k \div size /\ b = k % size /\ k = a * size + b /\ b < size
    BY Remainder
  <2>2. a < n
    <3>1. n <= a => n * size <= a * size
      BY TimesMono
    <3>2. n * size \in Nat /\ a * size \in Nat
      OBVIOUS
    <3>3. QED
      BY <2>1, <3>1, <3>2
  <2>3. (q + a) * size = q * size + a * size /\ q + a \in Nat
    OBVIOUS
  <2>4. first + k = (q + a) * size + b
    BY <2>1, <2>3
  <2>5. ((q + a) * SectorSize + b) \div SectorSize = q + a /\ ((q + a) * SectorSize + b) % SectorSize = b
    <3>1. PICK c \in Nat : c = q + a
      BY <2>3
    <3>2. (c * SectorSize + b) \div SectorSize = c /\ (c * SectorSize + b) % SectorSize = b
      BY <2>1, Address
    <3>3. QED
      BY <3>1, <3>2
  <2>6. a \in 0 .. n - 1
    BY <2>2
  <2>7. QED
    BY <2>1, <2>4, <2>5, <2>6
<1>2. ASSUME AllGood(l, bad, q, n), NEW k \in 0 .. total - 1
      PROVE  GoodByte(l, bad, first + k)
  <2>1. PICK a \in 0 .. n - 1 : (first + k) \div SectorSize = q + a
    BY <1>1
  <2>2. QED
    BY <1>2, <2>1 DEF AllGood, GoodByte
<1>3. ASSUME BytesGood(l, bad, first, total), NEW a \in 0 .. n - 1
      PROVE  q + a < l.size /\ Mapped(l, q + a) \notin bad
  <2>1. a * size \in Nat /\ a * size + size <= n * size /\ q + a \in Nat
    BY TimesMono
  <2>2. PICK k \in 0 .. total - 1 : k = a * size
    BY <2>1
  <2>3. first + k = (q + a) * size + 0
    BY <2>2
  <2>4. (first + k) \div SectorSize = q + a
    <3>1. PICK c \in Nat : c = q + a
      BY <2>1
    <3>2. (c * SectorSize + 0) \div SectorSize = c
      BY Address, Sizes
    <3>3. QED
      BY <2>3, <3>1, <3>2
  <2>5. GoodByte(l, bad, first + k)
    BY <1>3 DEF BytesGood
  <2>6. QED
    BY <2>4, <2>5 DEF GoodByte
<1>4. BytesGood(l, bad, first, total) <=> AllGood(l, bad, q, n)
  BY <1>2, <1>3 DEF BytesGood, AllGood
<1>5. ASSUME NEW k \in 1 .. total
      PROVE  ByteIn(l, first + k - 1)
               = ByteAt(ImageSectors(l, q, n)[((k - 1) \div size) + 1], (k - 1) % size)
  <2>1. k - 1 \in 0 .. total - 1 /\ first + (k - 1) = first + k - 1
    OBVIOUS
  <2>2. PICK a \in 0 .. n - 1, b \in Nat :
            /\ a = (k - 1) \div size /\ b = (k - 1) % size
            /\ (first + k - 1) \div SectorSize = q + a /\ (first + k - 1) % SectorSize = b
    BY <1>1, <2>1
  <2>3. a + 1 \in 1 .. n /\ q + (a + 1) - 1 = q + a
    OBVIOUS
  <2>4. ImageSectors(l, q, n)[a + 1] = Mapped(l, q + a)
    BY <2>3 DEF ImageSectors
  <2>5. QED
    BY <2>2, <2>4 DEF ByteIn
<1>6. ImageBytes(l, first, total)
        = [k \in 1..total |-> ByteAt(ImageSectors(l, q, n)[((k - 1) \div size) + 1], (k - 1) % size)]
  BY <1>5 DEF ImageBytes
<1>7. QED
  BY <1>4, <1>6 DEF AreSectors

(* The whole sectors of a read. *)
WholeIsRead(l, bad, w, len, n) ==
    /\ n * SectorSize \in 0..len /\ len - n * SectorSize < SectorSize
    /\ BytesOf(__Frag_ReadSect(l, __Frag_OptimizeList(l), bad,
                               w \div SectorWords, len \div SectorSize))
         = BytesAnswer(l, bad, w * WordBytes, n * SectorSize)

LEMMA WholeIs ==
    ASSUME NEW l \in FragList, NEW bad, bad \subseteq Nat \ {0},
           NEW w \in Nat, NEW len \in Nat, Within(w, len),
           OnSector(w)
    PROVE  \E n \in Nat : WholeIsRead(l, bad, w, len, n)
<1>0. PICK q \in Nat : w = q * SectorWords
  BY DEF OnSector
<1>1. PICK s \in Nat \ {0}, p \in Nat \ {0}, size \in Nat \ {0} :
          s = SectorWords /\ p = WordBytes /\ size = SectorSize /\ size = s * p
  BY Sizes
<1>2. PICK n \in Nat, b \in Nat : n = len \div size /\ len = n * size + b /\ b < size
  BY Remainder
<1>3. PICK total \in Nat : total = n * size /\ total \in 0..len /\ len - total < size
  <2>1. n * size \in Nat
    OBVIOUS
  <2>2. QED
    BY <1>2, <2>1
<1>4. w \div SectorWords = q
  <2>1. w = q * s + 0 /\ 0 < s
    BY <1>0, <1>1
  <2>2. w \div s = q
    BY <2>1, Division
  <2>3. QED
    BY <1>1, <2>2
<1>5. PICK first \in Nat : first = w * WordBytes /\ first = q * size
  <2>1. (q * s) * p = q * (s * p) /\ (q * s) * p \in Nat
    OBVIOUS
  <2>2. QED
    BY <1>0, <1>1, <2>1
<1>6. q + n <= MaxIdx * IdxChunk
  <2>1. (q + n) * size = q * size + n * size /\ q + n \in Nat
    OBVIOUS
  <2>2. PICK c \in Nat, m \in Nat : c = q + n /\ m = first + total
    BY <2>1
  <2>3. c * SectorSize = m
    BY <1>1, <1>3, <1>5, <2>1, <2>2
  <2>4. m <= MaxIdx * IdxChunk * SectorSize
    <3>1. PICK top \in Nat : top = MaxIdx * IdxChunk * SectorSize
      BY Sizes, MaxIdx * IdxChunk * SectorSize \in Nat
    <3>2. first + len <= top
      BY <1>5, <3>1 DEF Within
    <3>3. QED
      BY <1>3, <2>2, <3>1, <3>2
  <2>5. QED
    BY <2>2, <2>3, <2>4, SectorBelow
<1>7. PICK got : got = __Frag_ReadSect(l, __Frag_OptimizeList(l), bad, q, n)
  OBVIOUS
<1>8. got = SectAnswer(l, bad, q, n)
  BY <1>6, <1>7, ReadSectIs
<1>9. /\ BytesGood(l, bad, first, total) <=> AllGood(l, bad, q, n)
      /\ ImageBytes(l, first, total)
           = [k \in 1..total |-> ByteAt(ImageSectors(l, q, n)[((k - 1) \div size) + 1], (k - 1) % size)]
  <2>1. Spans(q, n, size, first, total)
    BY <1>1, <1>3, <1>5 DEF Spans
  <2>2. AreSectors(l, bad, q, n, size, first, total)
    BY <2>1, BytesOfMany
  <2>3. QED
    BY <2>2 DEF AreSectors
<1>10. BytesOf(got) = BytesAnswer(l, bad, first, total)
  <2>1. CASE AllGood(l, bad, q, n)
    <3>1. got.ok = TRUE /\ got.data = ImageSectors(l, q, n)
      BY <1>8, <2>1 DEF SectAnswer
    <3>2. Len(ImageSectors(l, q, n)) * SectorSize = total
      BY <1>1, <1>3, ImageSectorsType
    <3>3. BytesOf(got)
            = [ok |-> TRUE,
               data |-> [k \in 1..total |-> ByteAt(ImageSectors(l, q, n)[((k - 1) \div size) + 1],
                                                   (k - 1) % size)]]
      BY <1>1, <3>1, <3>2 DEF BytesOf
    <3>4. QED
      BY <1>9, <2>1, <3>3 DEF BytesAnswer
  <2>2. CASE ~AllGood(l, bad, q, n)
    <3>1. got.ok = FALSE /\ got.data = <<>>
      BY <1>8, <2>2 DEF SectAnswer, Failed
    <3>2. Len(got.data) * SectorSize = 0
      BY <3>1, Sizes
    <3>3. BytesOf(got) = [ok |-> FALSE, data |-> <<>>]
      <4>1. 1..(Len(got.data) * SectorSize) = {}
        BY <3>2
      <4>2. [k \in 1..(Len(got.data) * SectorSize) |->
               ByteAt(got.data[((k - 1) \div SectorSize) + 1], (k - 1) % SectorSize)] = <<>>
        BY <4>1
      <4>3. QED
        BY <3>1, <4>2 DEF BytesOf
    <3>4. QED
      BY <1>9, <2>2, <3>3 DEF BytesAnswer, Failed
  <2>3. QED
    BY <2>1, <2>2
<1>11. QED
  BY <1>1, <1>2, <1>3, <1>4, <1>5, <1>7, <1>10 DEF WholeIsRead

-----------------------------------------------------------------------------
(* A read in progress has the first bytes of what is asked for, or fails   *)
(* where the image does.                                                   *)
Progress(l, bad, first, len, r) ==
    /\ r \in [ok : BOOLEAN, data : Seq(Nat \X Nat), woffset : Nat, len : Nat]
    /\ \E n \in 0..len :
           IF r.ok
           THEN /\ BytesGood(l, bad, first, n) /\ r.data = ImageBytes(l, first, n) /\ r.len = len - n
                /\ r.len > 0 => r.woffset * WordBytes = first + n
           ELSE ~BytesGood(l, bad, first, n)

(* It stands at the head of a sector. *)
Aligned(r) == OnSector(r.woffset)

(* n more bytes, of the image or failed, in whole words if more follow. *)
More(l, bad, first, len, r, n, got) ==
    /\ got = BytesAnswer(l, bad, first + (len - r.len), n)
    /\ n < r.len => \E m \in Nat : n = m * WordBytes

LEMMA TakenIs ==
    ASSUME NEW l \in FragList, NEW bad, NEW first \in Nat, NEW len \in Nat,
           NEW r, Progress(l, bad, first, len, r), r.ok, NEW n \in 0..r.len,
           NEW got, More(l, bad, first, len, r, n, got), r.len > 0
    PROVE  LET t == Taken(r, got)
           IN  /\ Progress(l, bad, first, len, t)
               /\ t.ok => t.len = r.len - n /\ (t.len > 0 => t.woffset * WordBytes = r.woffset * WordBytes + n)
<1>1. /\ r = [ok |-> r.ok, data |-> r.data, woffset |-> r.woffset, len |-> r.len]
      /\ r.ok = TRUE /\ r.data \in Seq(Nat \X Nat) /\ r.woffset \in Nat /\ r.len \in Nat
  BY DEF Progress
<1>2. PICK a \in 0..len : /\ BytesGood(l, bad, first, a) /\ r.data = ImageBytes(l, first, a)
                          /\ r.len = len - a /\ r.woffset * WordBytes = first + a
  BY DEF Progress
<1>3. a \in Nat /\ n \in Nat /\ a + n \in 0..len /\ len - r.len = a
  BY <1>1, <1>2
<1>4. got = BytesAnswer(l, bad, first + a, n)
  BY <1>3 DEF More
<1>5. BytesGood(l, bad, first, a + n) <=> BytesGood(l, bad, first + a, n)
  <2>1. BytesGood(l, bad, first, a + n)
          <=> BytesGood(l, bad, first, a) /\ BytesGood(l, bad, first + a, n)
    BY <1>3, BytesSplit
  <2>2. QED
    BY <1>2, <2>1
<1>6. CASE BytesGood(l, bad, first + a, n)
  <2>1. got.ok = TRUE /\ got.data = ImageBytes(l, first + a, n)
    BY <1>4, <1>6 DEF BytesAnswer
  <2>2. Len(got.data) = n
    <3>1. PICK f \in Nat : f = first + a
      BY <1>3
    <3>2. QED
      BY <1>3, <2>1, <3>1, BytesType
  <2>3. PICK p \in Nat \ {0} : p = WordBytes
    BY Sizes
  <2>4. PICK words \in Nat : words = n \div WordBytes
    <3>1. \E q, b \in Nat : q = n \div p
      BY <1>3, Remainder
    <3>2. QED
      BY <2>3, <3>1
  <2>5. PICK t : t = Taken(r, got)
    OBVIOUS
  <2>6. t = [ok |-> TRUE, data |-> r.data \o got.data, woffset |-> r.woffset + words,
             len |-> r.len - n]
    BY <2>1, <2>2, <2>4, <2>5 DEF Taken
  <2>7. r.data \o got.data = ImageBytes(l, first, a + n)
    <3>1. BytesJoined(l, first, a, n)
      BY <1>3, BytesJoin
    <3>2. QED
      BY <1>2, <2>1, <3>1 DEF BytesJoined
  <2>8. ImageBytes(l, first, a + n) \in Seq(Nat \X Nat)
    <3>1. PICK k \in Nat : k = a + n
      BY <1>3
    <3>2. QED
      BY <3>1, BytesType
  <2>9. r.len - n \in Nat /\ r.woffset + words \in Nat
    BY <1>1, <2>4
  <2>10. r.len - n > 0 => (r.woffset + words) * WordBytes = r.woffset * WordBytes + n
    <3>1. SUFFICES ASSUME r.len - n > 0
                   PROVE  (r.woffset + words) * WordBytes = r.woffset * WordBytes + n
      OBVIOUS
    <3>2. PICK m \in Nat : n = m * p
      BY <1>1, <1>3, <2>3, <3>1 DEF More
    <3>3. n = m * p + 0 /\ 0 < p
      BY <3>2
    <3>4. words = m
      BY <1>3, <2>3, <2>4, <3>3, Division
    <3>5. PICK w \in Nat : w = r.woffset
      BY <1>1
    <3>6. (w + m) * p = w * p + m * p
      OBVIOUS
    <3>7. QED
      BY <2>3, <3>2, <3>4, <3>5, <3>6
  <2>11. r.woffset * WordBytes + n = first + (a + n) /\ r.len - n = len - (a + n)
    BY <1>2, <1>3
  <2>12. /\ t.ok = TRUE /\ t.data = ImageBytes(l, first, a + n) /\ t.len = r.len - n
         /\ t.woffset = r.woffset + words
    BY <2>6, <2>7
  <2>13. t \in [ok : BOOLEAN, data : Seq(Nat \X Nat), woffset : Nat, len : Nat]
    BY <2>6, <2>7, <2>8, <2>9
  <2>14. Progress(l, bad, first, len, t)
    <3>1. /\ BytesGood(l, bad, first, a + n) /\ t.data = ImageBytes(l, first, a + n)
          /\ t.len = len - (a + n)
          /\ t.len > 0 => t.woffset * WordBytes = first + (a + n)
      BY <1>5, <1>6, <2>10, <2>11, <2>12
    <3>2. QED
      BY <1>3, <2>12, <2>13, <3>1 DEF Progress
  <2>15. QED
    BY <2>5, <2>10, <2>12, <2>14
<1>7. CASE ~BytesGood(l, bad, first + a, n)
  <2>1. got.ok = FALSE
    BY <1>4, <1>7 DEF BytesAnswer, Failed
  <2>2. PICK t : t = Taken(r, got)
    OBVIOUS
  <2>3. t = [r EXCEPT !.ok = FALSE]
    BY <2>1, <2>2 DEF Taken
  <2>4. t \in [ok : BOOLEAN, data : Seq(Nat \X Nat), woffset : Nat, len : Nat] /\ t.ok = FALSE
    BY <2>3 DEF Progress
  <2>5. Progress(l, bad, first, len, t)
    BY <1>3, <1>5, <1>7, <2>4 DEF Progress
  <2>6. QED
    BY <2>2, <2>4, <2>5
<1>8. QED
  BY <1>6, <1>7

(* What is left of the read is below the end of the table, too. *)
LEMMA LeftWithin ==
    ASSUME NEW l \in FragList, NEW bad, NEW w \in Nat, NEW len \in Nat, Within(w, len),
           NEW r, Progress(l, bad, w * WordBytes, len, r), r.ok, r.len > 0
    PROVE  /\ Within(r.woffset, r.len)
           /\ r.woffset * WordBytes = w * WordBytes + (len - r.len)
<1>1. PICK first \in Nat : first = w * WordBytes
  BY Sizes, w * WordBytes \in Nat
<1>2. PICK n \in 0..len : r.len = len - n /\ r.woffset * WordBytes = first + n
  BY <1>1 DEF Progress
<1>3. first + n + r.len = first + len /\ len - r.len = n
  BY <1>2
<1>4. QED
  BY <1>1, <1>2, <1>3 DEF Within

LEMMA PartStep ==
    ASSUME NEW l \in FragList, NEW bad, bad \subseteq Nat \ {0},
           NEW w \in Nat, NEW len \in Nat, Within(w, len),
           NEW r, Progress(l, bad, w * WordBytes, len, r)
    PROVE  LET t == TakePart(l, __Frag_OptimizeList(l), bad, r)
           IN  /\ Progress(l, bad, w * WordBytes, len, t)
               /\ t.ok /\ t.len > 0 => Aligned(t)
               /\ (r.ok /\ r.len > 0 => Aligned(r) /\ r.len < SectorSize) => (t.ok => t.len = 0)
<1>1. PICK t : t = TakePart(l, __Frag_OptimizeList(l), bad, r)
  OBVIOUS
<1>2. r.ok \in BOOLEAN /\ r.woffset \in Nat /\ r.len \in Nat
  BY DEF Progress
<1>3. CASE r.ok /\ r.len > 0
  <2>1. /\ Within(r.woffset, r.len)
        /\ r.woffset * WordBytes = w * WordBytes + (len - r.len)
    BY <1>3, LeftWithin
  <2>2. PICK x \in Nat, left \in Nat \ {0} : x = r.woffset /\ left = r.len
    BY <1>2, <1>3
  <2>3. PICK n \in 0..left : PartIs(l, bad, x, left, n)
    BY <2>1, <2>2, PartialIs
  <2>4. PICK got : got = __Frag_ReadPartial(l, __Frag_OptimizeList(l), bad, x, left)
    OBVIOUS
  <2>5. t = Taken(r, got)
    BY <1>1, <1>3, <2>2, <2>4 DEF TakePart
  <2>6. PICK first \in Nat : first = w * WordBytes
    BY Sizes, w * WordBytes \in Nat
  <2>7. More(l, bad, first, len, r, n, got)
    BY <2>1, <2>2, <2>3, <2>4, <2>6 DEF More, PartIs
  <2>8. /\ Progress(l, bad, first, len, t)
        /\ t.ok => t.len = r.len - n /\ (t.len > 0 => t.woffset * WordBytes = r.woffset * WordBytes + n)
    BY <1>3, <2>2, <2>5, <2>6, <2>7, TakenIs
  <2>9. ASSUME t.ok, t.len > 0 PROVE Aligned(t)
    <3>1. n < left
      BY <2>2, <2>8, <2>9
    <3>2. PICK q \in Nat : x * WordBytes + n = q * SectorSize
      BY <2>3, <3>1 DEF PartIs
    <3>3. t.woffset * WordBytes = q * SectorSize
      BY <2>2, <2>8, <2>9, <3>2
    <3>4. PICK y \in Nat, s \in Nat \ {0}, p \in Nat \ {0} :
              y = t.woffset /\ s = SectorWords /\ p = WordBytes /\ SectorSize = s * p
      BY <2>8, Sizes DEF Progress
    <3>5. q * (s * p) = (q * s) * p
      OBVIOUS
    <3>6. PICK z \in Nat : z = q * s
      BY q * s \in Nat
    <3>7. y * p = z * p
      BY <3>3, <3>4, <3>5, <3>6
    <3>8. (y < z => y * p + p <= z * p) /\ (z < y => z * p + p <= y * p) /\ y * p \in Nat
      BY TimesMono
    <3>9. y = z
      BY <3>7, <3>8
    <3>10. QED
      BY <3>4, <3>6, <3>9 DEF Aligned, OnSector
  <2>10. ASSUME Aligned(r), r.len < SectorSize, t.ok PROVE t.len = 0
    <3>1. n = left
      BY <2>2, <2>3, <2>10 DEF PartIs, Aligned
    <3>2. QED
      BY <2>2, <2>8, <2>10, <3>1
  <2>11. QED
    BY <1>1, <1>3, <2>6, <2>8, <2>9, <2>10
<1>4. CASE ~(r.ok /\ r.len > 0)
  <2>1. t = r
    BY <1>1, <1>4 DEF TakePart
  <2>2. QED
    BY <1>1, <1>2, <1>4, <2>1
<1>5. QED
  BY <1>3, <1>4

LEMMA WholeStep ==
    ASSUME NEW l \in FragList, NEW bad, bad \subseteq Nat \ {0},
           NEW w \in Nat, NEW len \in Nat, Within(w, len),
           NEW r, Progress(l, bad, w * WordBytes, len, r), r.ok /\ r.len > 0 => Aligned(r)
    PROVE  LET t == TakeWhole(l, __Frag_OptimizeList(l), bad, r)
           IN  /\ Progress(l, bad, w * WordBytes, len, t)
               /\ t.ok /\ t.len > 0 => Aligned(t) /\ t.len < SectorSize
<1>1. PICK t : t = TakeWhole(l, __Frag_OptimizeList(l), bad, r)
  OBVIOUS
<1>2. r.ok \in BOOLEAN /\ r.woffset \in Nat /\ r.len \in Nat
  BY DEF Progress
<1>3. CASE r.ok /\ r.len >= SectorSize
  <2>0. r.len > 0
    BY <1>2, <1>3, Sizes
  <2>1. /\ Within(r.woffset, r.len)
        /\ r.woffset * WordBytes = w * WordBytes + (len - r.len)
    BY <1>3, <2>0, LeftWithin
  <2>2. PICK x \in Nat, left \in Nat \ {0} : x = r.woffset /\ left = r.len
    BY <1>2, <2>0
  <2>3. PICK q \in Nat : x = q * SectorWords
    BY <1>3, <2>0, <2>2 DEF Aligned, OnSector
  <2>4. PICK got : got = BytesOf(__Frag_ReadSect(l, __Frag_OptimizeList(l), bad,
                                                 x \div SectorWords, left \div SectorSize))
    OBVIOUS
  <2>5. PICK c \in Nat : /\ c * SectorSize \in 0..left /\ left - c * SectorSize < SectorSize
                         /\ got = BytesAnswer(l, bad, x * WordBytes, c * SectorSize)
    <3>1. OnSector(x) /\ Within(x, left)
      BY <2>1, <2>2, <2>3 DEF OnSector
    <3>2. \E c \in Nat : WholeIsRead(l, bad, x, left, c)
      BY <3>1, WholeIs
    <3>3. QED
      BY <2>4, <3>2 DEF WholeIsRead
  <2>6. t = Taken(r, got)
    BY <1>1, <1>3, <2>2, <2>4 DEF TakeWhole
  <2>7. PICK first \in Nat : first = w * WordBytes
    BY Sizes, w * WordBytes \in Nat
  <2>8. PICK s \in Nat \ {0}, p \in Nat \ {0} :
            s = SectorWords /\ p = WordBytes /\ SectorSize = s * p
    BY Sizes
  <2>9. c * (s * p) = (c * s) * p /\ c * s \in Nat
    OBVIOUS
  <2>10. PICK n \in 0..left : n = c * SectorSize /\ left - n < SectorSize
                              /\ got = BytesAnswer(l, bad, x * WordBytes, n)
    BY <2>5
  <2>11. More(l, bad, first, len, r, n, got)
    <3>1. n = (c * s) * WordBytes
      BY <2>8, <2>9, <2>10
    <3>2. QED
      BY <2>1, <2>2, <2>7, <2>9, <2>10, <3>1 DEF More
  <2>12. /\ Progress(l, bad, first, len, t)
         /\ t.ok => t.len = r.len - n /\ (t.len > 0 => t.woffset * WordBytes = r.woffset * WordBytes + n)
    <3>1. n \in 0..r.len
      BY <2>2
    <3>2. Progress(l, bad, first, len, r)
      BY <2>7
    <3>3. QED
      BY <1>3, <2>0, <2>6, <2>11, <3>1, <3>2, TakenIs
  <2>13. ASSUME t.ok, t.len > 0 PROVE Aligned(t) /\ t.len < SectorSize
    <3>1. t.len < SectorSize
      BY <2>2, <2>10, <2>12, <2>13
    <3>2. PICK y \in Nat, z \in Nat : y = t.woffset /\ z = (q + c) * s
      BY <2>12, (q + c) * s \in Nat DEF Progress
    <3>3. y * p = x * p + n
      BY <2>2, <2>8, <2>12, <2>13, <3>2
    <3>4. z * p = x * p + n
      <4>1. ((q + c) * s) * p = (q * s) * p + (c * s) * p
        OBVIOUS
      <4>2. QED
        BY <2>3, <2>8, <2>9, <2>10, <3>2, <4>1
    <3>5. (y < z => y * p + p <= z * p) /\ (z < y => z * p + p <= y * p) /\ y * p \in Nat
      BY TimesMono
    <3>6. y = z
      BY <3>3, <3>4, <3>5
    <3>7. QED
      BY <2>8, <3>1, <3>2, <3>6 DEF Aligned, OnSector
  <2>14. QED
    BY <1>1, <2>7, <2>12, <2>13
<1>4. CASE ~(r.ok /\ r.len >= SectorSize)
  <2>1. t = r
    BY <1>1, <1>4 DEF TakeWhole
  <2>2. r.ok => r.len < SectorSize
    BY <1>2, <1>4, Sizes
  <2>3. QED
    BY <1>1, <2>1, <2>2
<1>5. QED
  BY <1>3, <1>4

(* Every read is answered with the image. *)
LEMMA ReadIs ==
    ASSUME NEW l \in FragList, NEW bad, bad \subseteq Nat \ {0},
           NEW w \in Nat, NEW len \in Nat, Within(w, len)
    PROVE  Frag_Read(l, __Frag_OptimizeList(l), bad, len, w) = Image(l, bad, len, w)
<1>1. PICK idx : idx = __Frag_OptimizeList(l)
  OBVIOUS
<1>2. PICK r : r = [ok |-> TRUE, data |-> <<>>, woffset |-> w, len |-> len]
  OBVIOUS
<1>3. PICK first \in Nat : first = w * WordBytes
  BY Sizes, w * WordBytes \in Nat
<1>4. Progress(l, bad, first, len, r)
  <2>1. <<>> \in Seq(Nat \X Nat)
    OBVIOUS
  <2>2. /\ r.ok = TRUE /\ r.data = <<>> /\ r.woffset = w /\ r.len = len
        /\ r \in [ok : BOOLEAN, data : Seq(Nat \X Nat), woffset : Nat, len : Nat]
    BY <1>2, <2>1
  <2>3. 0 \in 0..len /\ len = len - 0 /\ first = first + 0
    OBVIOUS
  <2>4. QED
    BY <1>3, <2>2, <2>3, NoBytes DEF Progress
<1>5. PICK r1 : r1 = TakePart(l, idx, bad, r)
  OBVIOUS
<1>6. Progress(l, bad, first, len, r1) /\ (r1.ok /\ r1.len > 0 => Aligned(r1))
  BY <1>1, <1>3, <1>4, <1>5, PartStep
<1>7. PICK r2 : r2 = TakeWhole(l, idx, bad, r1)
  OBVIOUS
<1>8. /\ Progress(l, bad, first, len, r2)
      /\ r2.ok /\ r2.len > 0 => Aligned(r2) /\ r2.len < SectorSize
  BY <1>1, <1>3, <1>6, <1>7, WholeStep
<1>9. PICK r3 : r3 = TakePart(l, idx, bad, r2)
  OBVIOUS
<1>10. Progress(l, bad, first, len, r3) /\ (r3.ok => r3.len = 0)
  BY <1>1, <1>3, <1>8, <1>9, PartStep
<1>11. Frag_Read(l, idx, bad, len, w) = Answered(r3)
  BY <1>2, <1>5, <1>7, <1>9 DEF Frag_Read
<1>12. Answered(r3) = BytesAnswer(l, bad, first, len)
  <2>1. CASE r3.ok
    <3>1. PICK n \in 0..len : BytesGood(l, bad, first, n) /\ r3.data = ImageBytes(l, first, n)
                              /\ r3.len = len - n
      BY <1>10, <2>1 DEF Progress
    <3>2. n = len /\ r3.len = 0
      BY <1>10, <2>1, <3>1
    <3>3. QED
      BY <2>1, <3>1, <3>2 DEF Answered, BytesAnswer
  <2>2. CASE ~r3.ok
    <3>1. PICK n \in 0..len : ~BytesGood(l, bad, first, n)
      BY <1>10, <2>2 DEF Progress
    <3>2. ~BytesGood(l, bad, first, len)
      BY <3>1 DEF BytesGood
    <3>3. QED
      BY <2>2, <3>2 DEF Answered, BytesAnswer
  <2>3. QED
    BY <2>1, <2>2
<1>13. Image(l, bad, len, w) = BytesAnswer(l, bad, first, len)
  BY <1>3, ImageIs
<1>14. QED
  BY <1>1, <1>11, <1>12, <1>13

FragSpec == FragInit /\ [][FragNext]_fragVars

(* A read of any length at any word returns the bytes of the image, zeros  *)
(* where it is sparse, or fails, for every fragment list, every set of     *)
(* sectors the device cannot read and every geometry (Frag_Read).          *)
THEOREM ReadsAreImage == FragSpec => []ReadsTheImage
<1> DEFINE Inv == frag_list \in FragLists /\ damaged \in Damages /\ request \in Reads
<1>1. FragInit => Inv
  BY DEF FragInit
<1>2. Inv /\ [FragNext]_fragVars => Inv'
  BY DEF FragNext, fragVars
<1>3. Inv => ReadsTheImage
  <2>1. SUFFICES ASSUME Inv PROVE ReadsTheImage
    OBVIOUS
  <2>2. /\ frag_list \in FragList /\ damaged \subseteq Nat \ {0}
        /\ request.woffset \in Nat /\ request.len \in Nat
        /\ Within(request.woffset, request.len)
    BY <2>1, ReadAssumption
  <2>3. QED
    BY <2>2, ReadIs DEF ReadsTheImage
<1>4. QED
  BY <1>1, <1>2, <1>3, PTL DEF FragSpec

-----------------------------------------------------------------------------
(* WBFS discs. *)

Discs == [entry : Nat, closed : BOOLEAN]

WbfsTypeOK ==
    /\ volume \in Volumes
    /\ hdd \in [Servers -> Nat] /\ disc \in [Servers -> Discs]

(* The open disc d of partition p is the one of that ID. *)
Serves(p, d, id, ratio) ==
    /\ d.entry \in DOMAIN p.discs /\ d.closed = FALSE
    /\ p.discs[d.entry].id = id
    /\ ratio = p.ratio /\ ratio # 0

ServedOK ==
    served # {} =>
        /\ devFd \in Servers /\ hdd[devFd] \in DOMAIN volume[devFd]
        /\ \E id : /\ served = {id}
                   /\ Serves(volume[devFd][hdd[devFd]], disc[devFd], id, hd_sec_sz_ratio)

WbfsInv == WbfsTypeOK /\ ServedOK

LEMMA VolumeType ==
    ASSUME NEW v \in Volumes, NEW s \in Servers
    PROVE  /\ DOMAIN v[s] \subseteq Nat \ {0}
           /\ \A p \in DOMAIN v[s] :
                /\ v[s][p].ratio \in Nat /\ v[s][p].ratio <= HdBytes
                /\ v[s][p].ratio # 0 => HdBytes % v[s][p].ratio = 0
                /\ DOMAIN v[s][p].discs \subseteq Nat \ {0}
                /\ \A i \in DOMAIN v[s][p].discs :
                     v[s][p].discs[i].wlba_table \in [0..(DiscBlocks - 1) -> Nat]
BY WbfsAssumption DEF HdBytes

LEMMA WbfsInitInv == WbfsInit => WbfsInv
BY DEF WbfsInit, WbfsInv, WbfsTypeOK, ServedOK, Discs, NoEntry

(* The partition that is opened, if any. *)
LEMMA OpenHdEffect ==
    ASSUME WbfsInv, NEW s \in Servers, NEW reads, wbfs_open_hd(s, reads)
    PROVE  \E p \in Nat : /\ hdd' = [hdd EXCEPT ![s] = p]
                          /\ p # 0 => /\ p \in DOMAIN volume[s]
                                      /\ hd_sec_sz_ratio' = volume[s][p].ratio
                                      /\ volume[s][p].ratio # 0
<1> DEFINE found == {p \in DOMAIN volume[s] : reads /\ volume[s][p].magic}
<1>1. volume \in Volumes
  BY DEF WbfsInv, WbfsTypeOK
<1>2. found \subseteq DOMAIN volume[s] /\ DOMAIN volume[s] \subseteq Nat \ {0}
  BY <1>1, VolumeType
<1>3. IF found # {} THEN wbfs_open_partition(s, Min(found))
      ELSE hd_sec_sz_ratio' = 1 /\ hdd' = [hdd EXCEPT ![s] = 0]
  BY DEF wbfs_open_hd
<1> HIDE DEF found
<1>4. CASE found # {}
  <2>1. found \in SUBSET Nat
    BY <1>2
  <2>2. PICK q : q = Min(found) /\ q \in found
    BY <1>4, <2>1, LeastElement
  <2>3. wbfs_open_partition(s, q)
    BY <1>3, <1>4, <2>2
  <2>4. q \in DOMAIN volume[s] /\ q \in Nat
    BY <1>2, <2>2
  <2>5. /\ hd_sec_sz_ratio' = volume[s][q].ratio
        /\ hdd' = [hdd EXCEPT ![s] = IF volume[s][q].ratio = 0 THEN 0 ELSE q]
    BY <2>3 DEF wbfs_open_partition
  <2>6. CASE volume[s][q].ratio = 0
    <3>1. hdd' = [hdd EXCEPT ![s] = 0]
      BY <2>5, <2>6
    <3>2. QED
      BY <3>1
  <2>7. CASE volume[s][q].ratio # 0
    <3>1. hdd' = [hdd EXCEPT ![s] = q]
      BY <2>5, <2>7
    <3>2. QED
      BY <2>4, <2>5, <2>7, <3>1
  <2>8. QED
    BY <2>6, <2>7
<1>5. CASE found = {}
  <2>1. hdd' = [hdd EXCEPT ![s] = 0]
    BY <1>3, <1>5
  <2>2. QED
    BY <2>1
<1>6. QED
  BY <1>4, <1>5

(* A handle on partition p names no entry, or an entry of the disc asked for. *)
OpenedOn(v, s, p, id, d) ==
    /\ d \in Discs
    /\ d.entry # 0 => /\ d.entry \in DOMAIN v[s][p].discs /\ d.closed = FALSE
                      /\ v[s][p].discs[d.entry].id = id

LEMMA OpenDiscEffect ==
    ASSUME NEW v \in Volumes, v = volume, NEW s \in Servers, NEW p \in DOMAIN v[s], NEW id,
           NEW e, e = wbfs_open_disc(s, p, id)
    PROVE  OpenedOn(v, s, p, id, e)
<1> USE DEF OpenedOn
<1> DEFINE found == {i \in DOMAIN v[s][p].discs : v[s][p].discs[i].id = id}
<1>1. PICK d : d = e
  OBVIOUS
<1>2. d = IF found = {} THEN NoEntry ELSE [entry |-> Min(found), closed |-> FALSE]
  BY <1>1 DEF wbfs_open_disc
<1>3. found \in SUBSET Nat
  BY VolumeType
<1>4. \A i \in found : i \in DOMAIN v[s][p].discs /\ v[s][p].discs[i].id = id
  OBVIOUS
<1> HIDE DEF found
<1>5. CASE found = {}
  BY <1>1, <1>2, <1>5 DEF NoEntry, Discs
<1>6. CASE found # {}
  <2>1. PICK i : i = Min(found) /\ i \in found
    BY <1>3, <1>6, LeastElement
  <2>2. d = [entry |-> i, closed |-> FALSE] /\ i \in Nat
    BY <1>2, <1>3, <1>6, <2>1
  <2>3. QED
    BY <1>1, <1>4, <2>1, <2>2 DEF Discs
<1>7. QED
  BY <1>5, <1>6

LEMMA OpenInv ==
    ASSUME WbfsInv, NEW s \in Servers, NEW id, NEW mounts \in BOOLEAN, NEW reads,
           WBFS_Open(s, id, mounts, reads)
    PROVE  WbfsInv'
<1>1. /\ WBFS_OPEN_DISC(s, id, mounts, reads) /\ devFd' = s /\ volume' = volume
      /\ served' = IF mounts /\ hdd'[s] # 0 /\ disc'[s].entry # 0 THEN {id} ELSE {}
  BY DEF WBFS_Open
<1>2. volume \in Volumes /\ hdd \in [Servers -> Nat] /\ disc \in [Servers -> Discs]
  BY DEF WbfsInv, WbfsTypeOK
<1>3. IF mounts THEN Reopened(s, id, reads) ELSE NotMounted
  BY <1>1 DEF WBFS_OPEN_DISC, WBFS_OpenDisc, __SDHC_WBFS_OpenDisc
<1>4. CASE mounts
  <2>1. /\ wbfs_open_hd(s, reads)
        /\ disc' = [disc EXCEPT ![s] = IF hdd'[s] = 0 THEN wbfs_close_disc(disc[s])
                                       ELSE wbfs_open_disc(s, hdd'[s], id)]
    BY <1>3, <1>4 DEF Reopened
  <2>2. PICK p \in Nat : /\ hdd' = [hdd EXCEPT ![s] = p]
                         /\ p # 0 => /\ p \in DOMAIN volume[s]
                                     /\ hd_sec_sz_ratio' = volume[s][p].ratio
                                     /\ volume[s][p].ratio # 0
    BY <2>1, OpenHdEffect
  <2>3. hdd' \in [Servers -> Nat] /\ hdd'[s] = p
    BY <1>2, <2>2
  <2>4. PICK d : disc' = [disc EXCEPT ![s] = d]
                 /\ d = IF p = 0 THEN wbfs_close_disc(disc[s]) ELSE wbfs_open_disc(s, p, id)
    BY <2>1, <2>3
  <2>5. /\ d \in Discs
        /\ p # 0 /\ d.entry # 0 => /\ d.entry \in DOMAIN volume[s][p].discs /\ d.closed = FALSE
                                   /\ volume[s][p].discs[d.entry].id = id
    <3>1. CASE p = 0
      <4>1. PICK e : e = disc[s] /\ e \in Discs
        BY <1>2
      <4>2. d = wbfs_close_disc(e)
        BY <2>4, <3>1, <4>1
      <4>3. d \in Discs
        BY <4>1, <4>2 DEF wbfs_close_disc, Discs
      <4>4. QED
        BY <3>1, <4>3
    <3>2. CASE p # 0
      <4>1. p \in DOMAIN volume[s]
        BY <2>2, <3>2
      <4>2. PICK v \in Volumes : v = volume
        BY <1>2
      <4>3. p \in DOMAIN v[s] /\ d = wbfs_open_disc(s, p, id)
        BY <2>4, <3>2, <4>1, <4>2
      <4>4. OpenedOn(v, s, p, id, d)
        BY <4>2, <4>3, OpenDiscEffect
      <4>5. QED
        BY <4>2, <4>4 DEF OpenedOn
    <3>3. QED
      BY <3>1, <3>2
  <2>6. disc' \in [Servers -> Discs] /\ disc'[s] = d
    BY <1>2, <2>4, <2>5
  <2>7. WbfsTypeOK'
    BY <1>1, <1>2, <2>3, <2>6 DEF WbfsTypeOK
  <2>8. ASSUME served' # {} PROVE ServedOK'
    <3>1. p # 0 /\ d.entry # 0 /\ served' = {id}
      BY <1>1, <2>3, <2>6, <2>8
    <3>2. Serves(volume[s][p], d, id, hd_sec_sz_ratio')
      BY <2>2, <2>5, <3>1 DEF Serves
    <3>3. p \in DOMAIN volume[s]
      BY <2>2, <3>1
    <3>4. QED
      BY <1>1, <2>3, <2>6, <3>1, <3>2, <3>3 DEF ServedOK
  <2>9. QED
    BY <2>7, <2>8 DEF WbfsInv, ServedOK
<1>5. CASE ~mounts
  <2>1. hdd' = hdd /\ disc' = disc /\ served' = {}
    BY <1>1, <1>3, <1>5 DEF NotMounted
  <2>2. QED
    BY <1>1, <1>2, <2>1 DEF WbfsInv, WbfsTypeOK, ServedOK
<1>6. QED
  BY <1>4, <1>5

LEMMA WbfsNextInv == WbfsInv /\ [WbfsNext]_wbfsVars => WbfsInv'
<1>1. SUFFICES ASSUME WbfsInv, [WbfsNext]_wbfsVars PROVE WbfsInv'
  OBVIOUS
<1>2. CASE WBFS_Close
  BY <1>1, <1>2 DEF WBFS_Close, WbfsInv, WbfsTypeOK, ServedOK
<1>3. ASSUME NEW s \in Servers, NEW id \in DiscIds, NEW mounts \in BOOLEAN, NEW reads \in BOOLEAN,
             WBFS_Open(s, id, mounts, reads)
      PROVE  WbfsInv'
  BY <1>1, <1>3, OpenInv
<1>4. CASE UNCHANGED wbfsVars
  BY <1>1, <1>4 DEF wbfsVars, WbfsInv, WbfsTypeOK, ServedOK
<1>5. QED
  BY <1>1, <1>2, <1>3, <1>4 DEF WbfsNext

-----------------------------------------------------------------------------
(* The bytes of a disc. *)

BlockBytes == BlockSectors * HdBytes
Tables == [0..(DiscBlocks - 1) -> Nat]

DiscByteAt(table, x) == table[x \div BlockBytes] * BlockBytes + (x % BlockBytes)
HasByte(table, x) == table[x \div BlockBytes] # 0

(* The n bytes from a on. *)
DiscRun(table, a, n) == [k \in 1 .. n |-> DiscByteAt(table, a + k - 1)]
HasRun(table, a, n) == \A k \in 0 .. n - 1 : HasByte(table, a + k)

DiscAnswer(table, a, n) ==
    IF HasRun(table, a, n) THEN [ok |-> TRUE, data |-> DiscRun(table, a, n)] ELSE NotRead

DiscEnd == DiscBlocks * BlockBytes

LEMMA DiscSizes ==
    /\ HdWords \in Nat \ {0} /\ HdWordBytes \in Nat \ {0} /\ BlockSectors \in Nat \ {0}
    /\ DiscBlocks \in Nat \ {0} /\ HdBytes \in Nat \ {0} /\ BlockBytes \in Nat \ {0}
    /\ DiscEnd \in Nat
    /\ HdBytes = HdWords * HdWordBytes /\ BlockBytes = BlockSectors * HdBytes
<1>1. /\ HdWords \in Nat \ {0} /\ HdWordBytes \in Nat \ {0} /\ BlockSectors \in Nat \ {0}
      /\ DiscBlocks \in Nat \ {0}
  BY WbfsAssumption
<1>2. ASSUME NEW a \in Nat \ {0}, NEW b \in Nat \ {0} PROVE a * b \in Nat \ {0}
  <2>1. 0 * b + b <= a * b /\ a * b \in Nat /\ 0 * b = 0
    BY TimesMono
  <2>2. QED
    BY <2>1
<1>3. PICK h \in Nat \ {0} : h = HdWords * HdWordBytes
  BY <1>1, <1>2
<1>4. PICK b \in Nat \ {0} : b = BlockSectors * h
  BY <1>1, <1>2
<1>5. DiscBlocks * b \in Nat
  BY <1>1
<1>6. QED
  BY <1>1, <1>3, <1>4, <1>5 DEF HdBytes, BlockBytes, DiscEnd

(* The byte y of block q. *)
LEMMA InBlock ==
    ASSUME NEW q \in Nat, NEW y \in Nat, y < BlockBytes
    PROVE  /\ q * BlockBytes \in Nat
           /\ (q * BlockBytes + y) \div BlockBytes = q
           /\ (q * BlockBytes + y) % BlockBytes = y
<1>1. PICK p \in Nat \ {0} : p = BlockBytes
  BY DiscSizes
<1>2. PICK a \in Nat : a = q * p + y
  OBVIOUS
<1>3. a \div p = q /\ a % p = y
  BY <1>1, <1>2, Division
<1>4. q * p \in Nat
  OBVIOUS
<1>5. QED
  BY <1>1, <1>2, <1>3, <1>4

(* A byte before the end of the disc is in one of its blocks. *)
LEMMA BlockOf ==
    ASSUME NEW x \in Nat, x < DiscEnd
    PROVE  \E q, y \in Nat : /\ q = x \div BlockBytes /\ y = x % BlockBytes
                             /\ x = q * BlockBytes + y /\ y < BlockBytes /\ q < DiscBlocks
<1>1. PICK p \in Nat \ {0}, d \in Nat \ {0} : p = BlockBytes /\ d = DiscBlocks /\ DiscEnd = d * p
  BY DiscSizes DEF DiscEnd
<1>2. PICK q \in Nat, y \in Nat : q = x \div p /\ y = x % p /\ x = q * p + y /\ y < p
  BY Remainder
<1>3. d <= q => d * p <= q * p
  BY TimesMono
<1>4. q * p \in Nat /\ d * p \in Nat
  OBVIOUS
<1>5. q < d
  BY <1>1, <1>2, <1>3, <1>4
<1>6. QED
  BY <1>1, <1>2, <1>5

LEMMA DiscByteType ==
    ASSUME NEW table \in Tables, NEW x \in Nat, x < DiscEnd
    PROVE  DiscByteAt(table, x) \in Nat
<1>1. PICK q \in Nat, y \in Nat : q = x \div BlockBytes /\ y = x % BlockBytes /\ q < DiscBlocks
  BY BlockOf
<1>2. PICK t \in Nat : t = table[q]
  BY <1>1, DiscSizes DEF Tables
<1>3. PICK p \in Nat : p = BlockBytes
  BY DiscSizes
<1>4. t * p + y \in Nat
  OBVIOUS
<1>5. QED
  BY <1>1, <1>2, <1>3, <1>4 DEF DiscByteAt

LEMMA DiscRunType ==
    ASSUME NEW table \in Tables, NEW a \in Nat, NEW n \in Nat, a + n <= DiscEnd
    PROVE  /\ DiscRun(table, a, n) \in Seq(Nat) /\ Len(DiscRun(table, a, n)) = n
           /\ \A k \in 1 .. n : DiscRun(table, a, n)[k] = DiscByteAt(table, a + k - 1)
<1>1. ASSUME NEW k \in 1 .. n PROVE DiscByteAt(table, a + k - 1) \in Nat
  <2>1. PICK x \in Nat : x = a + k - 1 /\ x < DiscEnd
    BY DiscSizes
  <2>2. QED
    BY <2>1, DiscByteType
<1>2. QED
  BY <1>1 DEF DiscRun

RunsJoin(table, a, m, n) == DiscRun(table, a, m) \o DiscRun(table, a + m, n) = DiscRun(table, a, m + n)

LEMMA DiscRunJoin ==
    ASSUME NEW table \in Tables, NEW a \in Nat, NEW m \in Nat, NEW n \in Nat,
           a + m + n <= DiscEnd
    PROVE  RunsJoin(table, a, m, n)
<1>1. PICK p, q, s : /\ p = DiscRun(table, a, m) /\ q = DiscRun(table, a + m, n)
                     /\ s = DiscRun(table, a, m + n)
  OBVIOUS
<1>2. p \in Seq(Nat) /\ Len(p) = m /\ \A k \in 1 .. m : p[k] = DiscByteAt(table, a + k - 1)
  <2>1. a + m <= DiscEnd
    BY DiscSizes
  <2>2. QED
    BY <1>1, <2>1, DiscRunType
<1>3. q \in Seq(Nat) /\ Len(q) = n /\ \A k \in 1 .. n : q[k] = DiscByteAt(table, a + m + k - 1)
  <2>1. PICK f \in Nat : f = a + m
    OBVIOUS
  <2>2. f + n <= DiscEnd
    BY <2>1
  <2>3. QED
    BY <1>1, <2>1, <2>2, DiscRunType
<1>4. /\ s \in Seq(Nat) /\ Len(s) = m + n
      /\ \A k \in 1 .. m + n : s[k] = DiscByteAt(table, a + k - 1)
  <2>1. PICK c \in Nat : c = m + n /\ a + c <= DiscEnd
    BY DiscSizes
  <2>2. QED
    BY <1>1, <2>1, DiscRunType
<1>5. /\ p \o q \in Seq(Nat) /\ Len(p \o q) = m + n
      /\ \A k \in 1 .. m + n : (p \o q)[k] = IF k <= m THEN p[k] ELSE q[k - m]
  BY <1>2, <1>3, ConcatProperties
<1>6. PICK u : u = p \o q
  OBVIOUS
<1>7. ASSUME NEW k \in 1 .. m + n PROVE u[k] = s[k]
  <2>1. s[k] = DiscByteAt(table, a + k - 1)
    BY <1>4
  <2>2. CASE k <= m
    <3>1. u[k] = p[k]
      BY <1>5, <1>6, <2>2
    <3>2. p[k] = DiscByteAt(table, a + k - 1)
      BY <1>2, <2>2
    <3>3. QED
      BY <2>1, <3>1, <3>2
  <2>3. CASE k > m
    <3>1. k - m \in 1 .. n /\ a + m + (k - m) - 1 = a + k - 1 /\ ~ (k <= m)
      BY <2>3
    <3>2. u[k] = q[k - m]
      BY <1>5, <1>6, <3>1
    <3>3. q[k - m] = DiscByteAt(table, a + m + (k - m) - 1)
      BY <1>3, <3>1
    <3>4. QED
      BY <2>1, <3>1, <3>2, <3>3
  <2>4. QED
    BY <2>2, <2>3
<1>8. u = s
  <2>1. u \in Seq(Nat) /\ Len(u) = m + n
    BY <1>5, <1>6
  <2>2. QED
    BY <1>4, <1>7, <2>1, SeqEqual
<1>9. QED
  BY <1>1, <1>6, <1>8 DEF RunsJoin

LEMMA HasRunSplits ==
    ASSUME NEW table, NEW a \in Nat, NEW m \in Nat, NEW n \in Nat
    PROVE  HasRun(table, a, m + n) <=> HasRun(table, a, m) /\ HasRun(table, a + m, n)
<1>1. ASSUME HasRun(table, a, m + n)
      PROVE  HasRun(table, a, m) /\ HasRun(table, a + m, n)
  <2>1. HasRun(table, a, m)
    BY <1>1 DEF HasRun
  <2>2. ASSUME NEW k \in 0 .. n - 1 PROVE HasByte(table, a + m + k)
    <3>1. m + k \in 0 .. m + n - 1 /\ a + (m + k) = a + m + k
      OBVIOUS
    <3>2. QED
      BY <1>1, <3>1 DEF HasRun
  <2>3. QED
    BY <2>1, <2>2 DEF HasRun
<1>2. ASSUME HasRun(table, a, m), HasRun(table, a + m, n)
      PROVE  HasRun(table, a, m + n)
  <2>1. ASSUME NEW k \in 0 .. m + n - 1 PROVE HasByte(table, a + k)
    <3>1. CASE k < m
      BY <1>2, <3>1 DEF HasRun
    <3>2. CASE k >= m
      <4>1. k - m \in 0 .. n - 1 /\ a + m + (k - m) = a + k
        BY <3>2
      <4>2. QED
        BY <1>2, <4>1 DEF HasRun
    <3>3. QED
      BY <3>1, <3>2
  <2>2. QED
    BY <2>1 DEF HasRun
<1>3. QED
  BY <1>1, <1>2

(* What a disc holds, by its bytes. *)
LEMMA DiscBytesIs ==
    ASSUME NEW table, NEW offset \in Nat, NEW n \in Nat
    PROVE  DiscBytes(table, offset, n) = DiscAnswer(table, offset * HdWordBytes, n)
<1>1. PICK a \in Nat : a = offset * HdWordBytes
  BY DiscSizes, offset * HdWordBytes \in Nat
<1>2. (\E k \in 1..n : table[(a + k - 1) \div BlockBytes] = 0) <=> ~HasRun(table, a, n)
  <2>1. ASSUME NEW k \in 1..n, table[(a + k - 1) \div BlockBytes] = 0 PROVE ~HasRun(table, a, n)
    <3>1. k - 1 \in 0 .. n - 1 /\ a + (k - 1) = a + k - 1
      OBVIOUS
    <3>2. QED
      BY <2>1, <3>1 DEF HasRun, HasByte
  <2>2. ASSUME ~HasRun(table, a, n)
        PROVE  \E k \in 1..n : table[(a + k - 1) \div BlockBytes] = 0
    <3>1. PICK k \in 0 .. n - 1 : table[(a + k) \div BlockBytes] = 0
      BY <2>2 DEF HasRun, HasByte
    <3>2. k + 1 \in 1..n /\ a + (k + 1) - 1 = a + k
      OBVIOUS
    <3>3. QED
      BY <3>1, <3>2
  <2>3. QED
    BY <2>1, <2>2
<1>3. DiscBytes(table, offset, n)
        = IF \E k \in 1..n : table[(a + k - 1) \div BlockBytes] = 0 THEN NotRead
          ELSE [ok |-> TRUE, data |-> DiscRun(table, a, n)]
  BY <1>1 DEF DiscBytes, DiscRun, DiscByteAt, BlockBytes
<1>4. QED
  BY <1>1, <1>2, <1>3 DEF DiscAnswer

-----------------------------------------------------------------------------
(* One read of the partition. *)

(* The ratio the library counts with is the partition's. *)
RatioOK(ratio) == ratio \in Nat \ {0} /\ hd_sec_sz_ratio = ratio /\ HdBytes % ratio = 0

LEMMA SectorCounts ==
    ASSUME NEW ratio, RatioOK(ratio), NEW n \in Nat
    PROVE  SectorAt(ratio, n) = n * HdBytes
<1>1. PICK h \in Nat \ {0}, d \in Nat \ {0} : h = HdBytes /\ d = ratio
  BY DiscSizes DEF RatioOK
<1>2. PICK q \in Nat, r \in Nat : q = h \div d /\ r = h % d /\ h = q * d + r
  BY Remainder
<1>3. r = 0
  BY <1>1, <1>2 DEF RatioOK
<1>4. h = q * d
  BY <1>2, <1>3, q * d \in Nat
<1>5. n * d * q = n * (q * d)
  OBVIOUS
<1>6. SectorAt(ratio, n) = n * d * q
  BY <1>1, <1>2 DEF SectorAt, RatioOK
<1>7. QED
  BY <1>1, <1>4, <1>5, <1>6

(* Bytes from..upto-1 of n sectors are those of the disc from x on. *)
Piece(q, lba, n, from, upto, x) ==
    /\ q < DiscBlocks /\ lba + n <= BlockSectors
    /\ from < upto /\ upto <= n * HdBytes
    /\ x = q * BlockBytes + lba * HdBytes + from

PieceRead(table, ratio, q, lba, from, upto, x) ==
    /\ BytesFrom(ratio, table[q], lba, from, upto) = DiscRun(table, x, upto - from)
    /\ table[q] # 0 => HasRun(table, x, upto - from)

IsInside(from, upto, k) == from + k < upto
LiesAt(x, k, q, y) == (x + k) \div BlockBytes = q /\ (x + k) % BlockBytes = y + k

(* Byte k of the piece. *)
LEMMA PieceByte ==
    ASSUME NEW q \in Nat, NEW lba \in Nat, NEW n \in Nat, NEW from \in Nat, NEW upto \in Nat,
           NEW x \in Nat, Piece(q, lba, n, from, upto, x),
           NEW k \in Nat, IsInside(from, upto, k)
    PROVE  LiesAt(x, k, q, lba * HdBytes + from)
<1> USE DEF IsInside, LiesAt
<1>1. PICK h \in Nat \ {0}, b \in Nat \ {0} : h = HdBytes /\ b = BlockSectors /\ BlockBytes = b * h
  BY DiscSizes
<1>2. PICK y \in Nat : y = lba * h + from + k
  BY lba * h \in Nat
<1>3. y < (lba + n) * h
  <2>1. (lba + n) * h = lba * h + n * h /\ lba * h \in Nat /\ n * h \in Nat
    OBVIOUS
  <2>2. from + k < n * h
    BY <1>1, <2>1 DEF Piece
  <2>3. QED
    BY <1>2, <2>1, <2>2
<1>4. PICK e \in Nat : e = lba + n /\ e <= b
  BY <1>1 DEF Piece
<1>5. e * h <= b * h /\ e * h \in Nat /\ b * h \in Nat
  BY <1>4, TimesMono
<1>6. y < BlockBytes
  BY <1>1, <1>3, <1>4, <1>5
<1>7. (q * BlockBytes + y) \div BlockBytes = q /\ (q * BlockBytes + y) % BlockBytes = y
  BY <1>6, InBlock
<1>8. PICK z \in Nat : z = q * BlockBytes
  BY <1>6, InBlock
<1>9. x + k = z + y
  <2>1. x = z + lba * h + from
    BY <1>1, <1>8 DEF Piece
  <2>2. QED
    BY <1>2, <2>1, lba * h \in Nat
<1>10. QED
  BY <1>1, <1>2, <1>7, <1>8, <1>9

LEMMA PieceIs ==
    ASSUME NEW table \in Tables, NEW ratio, RatioOK(ratio),
           NEW q \in Nat, NEW lba \in Nat, NEW n \in Nat, NEW from \in Nat, NEW upto \in Nat,
           NEW x \in Nat, Piece(q, lba, n, from, upto, x)
    PROVE  PieceRead(table, ratio, q, lba, from, upto, x)
<1>1. PICK h \in Nat \ {0}, b \in Nat \ {0} : h = HdBytes /\ b = BlockSectors /\ BlockBytes = b * h
  BY DiscSizes
<1>2. PICK t \in Nat : t = table[q]
  BY DiscSizes DEF Tables, Piece
<1>3. PICK s \in Nat : s = t * b + lba
  BY t * b + lba \in Nat
<1>4. SectorAt(ratio, s) = t * (b * h) + lba * h
  <2>1. SectorAt(ratio, s) = s * h
    BY <1>1, SectorCounts
  <2>2. (t * b + lba) * h = t * (b * h) + lba * h
    OBVIOUS
  <2>3. QED
    BY <1>3, <2>1, <2>2
<1>5. ASSUME NEW k \in 1 .. upto - from
      PROVE  SectorAt(ratio, s) + from + k - 1 = DiscByteAt(table, x + k - 1)
  <2>1. PICK j \in Nat : j = k - 1 /\ from + j < upto /\ x + k - 1 = x + j
    BY k - 1 \in Nat
  <2>2. (x + j) \div BlockBytes = q /\ (x + j) % BlockBytes = lba * h + from + j
    <3>1. IsInside(from, upto, j)
      BY <2>1 DEF IsInside
    <3>2. LiesAt(x, j, q, lba * HdBytes + from)
      BY <3>1, PieceByte
    <3>3. QED
      BY <1>1, <3>2, lba * h \in Nat DEF LiesAt
  <2>3. DiscByteAt(table, x + j) = t * (b * h) + (lba * h + from + j)
    BY <1>1, <1>2, <2>2 DEF DiscByteAt
  <2>4. t * (b * h) \in Nat /\ lba * h \in Nat
    OBVIOUS
  <2>5. QED
    BY <1>4, <2>1, <2>3, <2>4
<1>6. BytesFrom(ratio, table[q], lba, from, upto)
        = [k \in 1 .. upto - from |-> SectorAt(ratio, s) + from + k - 1]
  BY <1>1, <1>2, <1>3 DEF BytesFrom
<1>7. DiscRun(table, x, upto - from) = [k \in 1 .. upto - from |-> DiscByteAt(table, x + k - 1)]
  BY DEF DiscRun
<1>8. BytesFrom(ratio, table[q], lba, from, upto) = DiscRun(table, x, upto - from)
  BY <1>5, <1>6, <1>7
<1>9. ASSUME t # 0, NEW k \in 0 .. upto - from - 1 PROVE HasByte(table, x + k)
  <2>1. k \in Nat /\ IsInside(from, upto, k)
    BY DEF IsInside
  <2>2. LiesAt(x, k, q, lba * HdBytes + from)
    BY <2>1, PieceByte
  <2>3. (x + k) \div BlockBytes = q
    BY <2>2 DEF LiesAt
  <2>4. QED
    BY <1>2, <1>9, <2>3 DEF HasByte
<1>10. t # 0 => HasRun(table, x, upto - from)
  BY <1>9 DEF HasRun
<1>11. QED
  BY <1>2, <1>8, <1>10 DEF PieceRead

-----------------------------------------------------------------------------
(* The parts of a read. *)

ReadStates == [ok : BOOLEAN, data : Seq(Nat), left : Nat, ratio : Nat, wlba : Nat, lba : Nat]

(* The read goes on at byte x of the disc, byte from of the next sector,   *)
(* or has come to a block without data.                                    *)
GoesOnAt(table, x, from, r) ==
    /\ r.wlba < DiscBlocks
    /\ r.ok = TRUE => /\ table[r.wlba] # 0 /\ r.lba < BlockSectors
                      /\ x = r.wlba * BlockBytes + r.lba * HdBytes + from
    /\ r.ok = FALSE => table[r.wlba] = 0 /\ x = r.wlba * BlockBytes

(* The first m bytes of the read from a on have been read. *)
Reading(table, ratio, a, length, from, m, r) ==
    /\ r \in ReadStates /\ r.ratio = ratio
    /\ m \in 0..length /\ r.left = length - m
    /\ r.data = DiscRun(table, a, m) /\ HasRun(table, a, m)
    /\ m = length => r.ok = TRUE
    /\ m < length => GoesOnAt(table, a + m, from, r)

(* The last byte of a sector read is followed by the next sector's. *)
Ends(r, n, from, upto) == upto - from <= r.left /\ (upto - from = r.left \/ upto = n * HdBytes)

IsNext(r, q, ok, t) == t = [r EXCEPT !.lba = 0, !.wlba = q, !.ok = ok]

LEMMA NextFields ==
    ASSUME NEW r \in ReadStates, NEW ok \in BOOLEAN, NEW q \in Nat, NEW t, IsNext(r, q, ok, t)
    PROVE  /\ t \in ReadStates /\ t.data = r.data /\ t.left = r.left /\ t.ratio = r.ratio
           /\ t.wlba = q /\ t.lba = 0 /\ t.ok = ok
<1>1. t \in ReadStates
  BY DEF ReadStates, IsNext
<1>2. t.data = r.data /\ t.left = r.left /\ t.ratio = r.ratio /\ t.wlba = q /\ t.lba = 0
  BY DEF ReadStates, IsNext
<1>3. t.ok = ok
  BY DEF ReadStates, IsNext
<1>4. QED
  BY <1>1, <1>2, <1>3

IsGot(r, data, left, lba, t) == t = [r EXCEPT !.data = data, !.left = left, !.lba = lba]

LEMMA GotFields ==
    ASSUME NEW r \in ReadStates, NEW data \in Seq(Nat), NEW left \in Nat, NEW lba \in Nat,
           NEW t, IsGot(r, data, left, lba, t)
    PROVE  /\ t \in ReadStates /\ t.ok = r.ok /\ t.data = data /\ t.left = left
           /\ t.ratio = r.ratio /\ t.wlba = r.wlba /\ t.lba = lba
<1>1. t \in ReadStates
  BY DEF ReadStates, IsGot
<1>2. /\ t.data = data /\ t.left = left /\ t.ratio = r.ratio /\ t.wlba = r.wlba /\ t.lba = lba
  BY DEF ReadStates, IsGot
<1>3. t.ok = r.ok
  BY DEF ReadStates, IsGot
<1>4. QED
  BY <1>1, <1>2, <1>3

(* The read has got what is before x and may have to go to another block. *)
Got(table, x, r) ==
    /\ r \in ReadStates /\ r.ok = TRUE /\ r.left > 0 /\ x < DiscEnd
    /\ r.wlba < DiscBlocks /\ table[r.wlba] # 0 /\ r.lba <= BlockSectors
    /\ x = r.wlba * BlockBytes + r.lba * HdBytes

CrossesTo(table, x, r, t) ==
    /\ t \in ReadStates /\ t.data = r.data /\ t.left = r.left /\ t.ratio = r.ratio
    /\ GoesOnAt(table, x, 0, t)

LEMMA CrossedOK ==
    ASSUME NEW table \in Tables, NEW x \in Nat, NEW r, Got(table, x, r)
    PROVE  CrossesTo(table, x, r, Crosses(r, table))
<1>1. PICK t : t = Crosses(r, table)
  OBVIOUS
<1>2. r \in ReadStates /\ r.wlba \in Nat /\ r.lba \in Nat /\ r.left \in Nat
  BY DEF ReadStates, Got
<1>3. PICK q \in Nat, lba \in Nat : q = r.wlba /\ lba = r.lba
  BY <1>2
<1>4. PICK h \in Nat \ {0}, b \in Nat \ {0} : h = HdBytes /\ b = BlockSectors /\ BlockBytes = b * h
  BY DiscSizes
<1>5. r.left > 0 /\ lba <= b /\ q < DiscBlocks /\ table[q] # 0
  BY <1>3, <1>4 DEF Got
<1>6. x = q * (b * h) + lba * h /\ x < DiscEnd
  BY <1>3, <1>4 DEF Got
<1>7. CASE lba >= b
  <2>1. lba = b
    BY <1>5, <1>7
  <2>2. (q + 1) * (b * h) = q * (b * h) + b * h /\ q * (b * h) \in Nat /\ b * h \in Nat
        /\ 0 * h = 0
    OBVIOUS
  <2>3. x = (q + 1) * (b * h)
    BY <1>6, <2>1, <2>2
  <2>4. q + 1 < DiscBlocks
    <3>1. PICK d \in Nat, e \in Nat : d = DiscBlocks /\ e = q + 1
      BY DiscSizes
    <3>2. PICK p \in Nat : p = b * h
      BY <2>2
    <3>3. d <= e => d * p <= e * p
      BY TimesMono
    <3>4. DiscEnd = d * p /\ d * p \in Nat
      BY <1>4, <3>1, <3>2 DEF DiscEnd
    <3>5. e * p < d * p
      BY <1>6, <2>3, <3>1, <3>2, <3>4
    <3>6. e * p \in Nat
      OBVIOUS
    <3>7. e < d
      BY <3>3, <3>4, <3>5, <3>6
    <3>8. QED
      BY <3>1, <3>7
  <2>5. PICK next \in Nat : next = table[q + 1]
    BY <2>4, DiscSizes DEF Tables
  <2>6. PICK ok \in BOOLEAN : ok = (next # 0)
    OBVIOUS
  <2>7. t = [r EXCEPT !.lba = 0, !.wlba = q + 1, !.ok = ok]
    BY <1>1, <1>3, <1>4, <1>5, <1>7, <2>5, <2>6 DEF Crosses
  <2>8. /\ t \in ReadStates /\ t.data = r.data /\ t.left = r.left /\ t.ratio = r.ratio
        /\ t.wlba = q + 1 /\ t.lba = 0 /\ t.ok = ok
    <3>1. PICK e \in Nat : e = q + 1
      OBVIOUS
    <3>2. QED
      <4>1. IsNext(r, e, ok, t)
        BY <2>7, <3>1 DEF IsNext
      <4>2. QED
        BY <1>2, <3>1, <4>1, NextFields
  <2>9. GoesOnAt(table, x, 0, t)
    <3>1. ok = TRUE => next # 0
      BY <2>6
    <3>2. ok = FALSE => next = 0
      BY <2>6
    <3>3. x = t.wlba * BlockBytes + t.lba * HdBytes + 0 /\ x = t.wlba * BlockBytes
      BY <1>4, <2>2, <2>3, <2>8
    <3>4. 0 < BlockSectors
      BY DiscSizes
    <3>5. QED
      BY <2>4, <2>5, <2>8, <3>1, <3>2, <3>3, <3>4 DEF GoesOnAt
  <2>10. QED
    BY <1>1, <2>8, <2>9 DEF CrossesTo
<1>8. CASE ~(lba >= b)
  <2>1. t = r
    BY <1>1, <1>3, <1>4, <1>8 DEF Crosses
  <2>2. GoesOnAt(table, x, 0, r)
    <3>1. x = r.wlba * BlockBytes + r.lba * HdBytes + 0
      BY <1>3, <1>4, <1>6, q * (b * h) \in Nat, lba * h \in Nat
    <3>2. r.lba < BlockSectors
      BY <1>3, <1>4, <1>8
    <3>3. r.wlba < DiscBlocks /\ table[r.wlba] # 0 /\ r.ok = TRUE
      BY DEF Got
    <3>4. QED
      BY <3>1, <3>2, <3>3 DEF GoesOnAt
  <2>3. QED
    BY <1>1, <1>2, <2>1, <2>2 DEF CrossesTo
<1>9. QED
  BY <1>7, <1>8

(* Bytes from..upto-1 of the next n sectors: of one block, and no more     *)
(* than are left.                                                          *)
Gettable(r, n, from, upto) ==
    /\ r.ok = TRUE /\ r.left > 0
    /\ from < upto /\ upto <= n * HdBytes /\ r.lba + n <= BlockSectors
    /\ upto - from <= r.left /\ (upto - from = r.left \/ upto = n * HdBytes)

(* They are read, and the read goes on where they end. *)
GetsOn(table, ratio, a, length, n, from, upto, m, r) ==
    Reading(table, ratio, a, length, 0, m + (upto - from), Crosses(Gets(r, table, n, from, upto), table))

LEMMA GetStep ==
    ASSUME NEW table \in Tables, NEW ratio, RatioOK(ratio),
           NEW a \in Nat, NEW length \in Nat, a + length <= DiscEnd,
           NEW n \in Nat, NEW from \in Nat, NEW upto \in Nat, NEW m \in Nat, NEW r,
           Reading(table, ratio, a, length, from, m, r), Gettable(r, n, from, upto)
    PROVE  GetsOn(table, ratio, a, length, n, from, upto, m, r)
<1>1. /\ r \in ReadStates /\ r.data = DiscRun(table, a, m) /\ r.left = length - m
      /\ r.ratio = ratio /\ HasRun(table, a, m)
      /\ r.wlba \in Nat /\ r.lba \in Nat /\ r.left \in Nat
  BY DEF Reading, ReadStates
<1>2. m < length /\ r.ok = TRUE
  BY <1>1 DEF Gettable
<1>3. PICK q \in Nat, lba \in Nat, x \in Nat, c \in Nat :
          q = r.wlba /\ lba = r.lba /\ x = a + m /\ c = upto - from
  <2>1. upto - from \in Nat
    BY DEF Gettable
  <2>2. QED
    BY <1>1, <2>1
<1>4. q < DiscBlocks /\ table[q] # 0 /\ x = q * BlockBytes + lba * HdBytes + from
  BY <1>2, <1>3 DEF Reading, GoesOnAt
<1>5. Piece(q, lba, n, from, upto, x)
  BY <1>3, <1>4 DEF Piece, Gettable
<1>6. /\ BytesFrom(ratio, table[q], lba, from, upto) = DiscRun(table, x, c)
      /\ HasRun(table, x, c)
  <2>1. PieceRead(table, ratio, q, lba, from, upto, x)
    BY <1>5, PieceIs
  <2>2. QED
    BY <1>3, <1>4, <2>1 DEF PieceRead
<1>7. c <= length - m /\ (c = length - m \/ upto = n * HdBytes)
  BY <1>1, <1>3 DEF Gettable
<1>8. PICK got : got = Gets(r, table, n, from, upto)
  OBVIOUS
<1>9. PICK data : data = r.data \o BytesFrom(r.ratio, table[r.wlba], r.lba, from, upto)
  OBVIOUS
<1>10. data = DiscRun(table, a, m + c) /\ data \in Seq(Nat)
  <2>1. RunsJoin(table, a, m, c)
    <3>1. a + m + c <= DiscEnd
      BY <1>7, DiscSizes
    <3>2. QED
      BY <3>1, DiscRunJoin
  <2>2. data = DiscRun(table, a, m + c)
    BY <1>1, <1>3, <1>6, <1>9, <2>1 DEF RunsJoin
  <2>3. PICK e \in Nat : e = m + c /\ a + e <= DiscEnd
    BY <1>7, DiscSizes
  <2>4. QED
    BY <2>2, <2>3, DiscRunType
<1>11. HasRun(table, a, m + c)
  BY <1>1, <1>3, <1>6, HasRunSplits
<1>12. PICK left \in Nat, done \in 0..length, next \in Nat :
           left = r.left - c /\ done = m + c /\ left = length - done /\ next = lba + n
  <2>1. r.left - c \in Nat /\ m + c \in 0..length /\ r.left - c = length - (m + c) /\ lba + n \in Nat
    BY <1>1, <1>3, <1>7
  <2>2. QED
    BY <2>1
<1>13. IsGot(r, data, left, next, got)
  BY <1>3, <1>8, <1>9, <1>12 DEF Gets, IsGot
<1>14. /\ got \in ReadStates /\ got.ok = TRUE /\ got.data = data /\ got.left = left
       /\ got.ratio = r.ratio /\ got.wlba = r.wlba /\ got.lba = next
  <2>1. r \in ReadStates /\ r.ok = TRUE /\ data \in Seq(Nat)
    BY <1>1, <1>2, <1>10
  <2>2. /\ got \in ReadStates /\ got.ok = r.ok /\ got.data = data /\ got.left = left
        /\ got.ratio = r.ratio /\ got.wlba = r.wlba /\ got.lba = next
    BY <1>13, <2>1, GotFields
  <2>3. QED
    BY <2>1, <2>2
<1>15. PICK t : t = Crosses(got, table)
  OBVIOUS
<1>16. CASE done = length
  <2>1. ~ (got.left > 0)
    BY <1>12, <1>14, <1>16
  <2>2. t = got
    BY <1>15, <2>1 DEF Crosses
  <2>3. Reading(table, ratio, a, length, 0, done, t)
    BY <1>1, <1>10, <1>11, <1>12, <1>14, <1>16, <2>2 DEF Reading
  <2>4. QED
    BY <1>3, <1>8, <1>12, <1>15, <2>3 DEF GetsOn
<1>17. CASE done < length
  <2>1. upto = n * HdBytes
    BY <1>7, <1>12, <1>17
  <2>2. PICK y \in Nat : y = a + done /\ y < DiscEnd
    BY <1>17, DiscSizes
  <2>3. PICK h \in Nat, bb \in Nat : h = HdBytes /\ bb = BlockBytes
    BY DiscSizes
  <2>4. y = q * BlockBytes + next * HdBytes
    <3>1. (lba + n) * h = lba * h + n * h /\ lba * h \in Nat /\ n * h \in Nat /\ q * bb \in Nat
      OBVIOUS
    <3>2. y = x + c
      BY <1>3, <1>12, <2>2
    <3>3. x = q * bb + lba * h + from /\ c = n * h - from
      BY <1>3, <1>4, <2>1, <2>3
    <3>4. y = q * bb + (lba * h + n * h)
      BY <3>1, <3>2, <3>3
    <3>5. QED
      BY <1>12, <2>3, <3>1, <3>4
  <2>5. next <= BlockSectors
    BY <1>3, <1>12 DEF Gettable
  <2>6. Got(table, y, got)
    BY <1>3, <1>4, <1>12, <1>14, <1>17, <2>2, <2>4, <2>5 DEF Got
  <2>7. CrossesTo(table, y, got, t)
    BY <1>15, <2>6, CrossedOK
  <2>8. Reading(table, ratio, a, length, 0, done, t)
    BY <1>1, <1>10, <1>11, <1>12, <1>14, <1>17, <2>2, <2>7 DEF Reading, CrossesTo
  <2>9. QED
    BY <1>3, <1>8, <1>12, <1>15, <2>8 DEF GetsOn
<1>18. QED
  BY <1>12, <1>16, <1>17

(* How much the part of a sector at the start gives. *)
HeadLength(off, length) ==
    IF off = 0 THEN 0 ELSE IF off + length < HdBytes THEN length ELSE HdBytes - off

HeadOK(table, ratio, a, length, off, r) ==
    Reading(table, ratio, a, length, 0, HeadLength(off, length), ReadHead(r, table, off))

LEMMA HeadStep ==
    ASSUME NEW table \in Tables, NEW ratio, RatioOK(ratio),
           NEW a \in Nat, NEW length \in Nat \ {0}, a + length <= DiscEnd,
           NEW off \in Nat, off < HdBytes, NEW r, Reading(table, ratio, a, length, off, 0, r),
           r.ok = TRUE
    PROVE  HeadOK(table, ratio, a, length, off, r)
<1>1. r.left = length /\ r.lba \in Nat /\ r.lba < BlockSectors
  BY DEF Reading, ReadStates, GoesOnAt
<1>2. CASE off = 0
  BY <1>2 DEF HeadOK, HeadLength, ReadHead
<1>3. CASE off # 0
  <2>1. PICK h \in Nat \ {0} : h = HdBytes
    BY DiscSizes
  <2>2. PICK upto \in Nat : upto = IF off + length < h THEN off + length ELSE h
    BY off + length \in Nat
  <2>3. /\ off < upto /\ upto <= h /\ upto - off = HeadLength(off, length)
        /\ upto - off <= length /\ (upto - off = length \/ upto = h)
    BY <1>3, <2>1, <2>2 DEF HeadLength
  <2>4. 1 * h = h
    OBVIOUS
  <2>5. Gettable(r, 1, off, upto)
    BY <1>1, <2>1, <2>3, <2>4, DiscSizes DEF Gettable
  <2>6. GetsOn(table, ratio, a, length, 1, off, upto, 0, r)
    BY <2>5, GetStep
  <2>7. 0 + (upto - off) = HeadLength(off, length)
    BY <2>3
  <2>8. ReadHead(r, table, off) = Crosses(Gets(r, table, 1, off, upto), table)
    BY <1>1, <1>3, <2>1, <2>2 DEF ReadHead
  <2>9. QED
    BY <2>6, <2>7, <2>8 DEF GetsOn, HeadOK
<1>4. QED
  BY <1>2, <1>3

(* The loop on whole sectors takes one turn at most when they are of one   *)
(* block.                                                                  *)
Stops(r) == r.ok = FALSE \/ r.left < HdBytes

LoopStep(r, table) == IF ~r.ok \/ r.left < HdBytes THEN r ELSE SectorTurn(r, table)

IsLoop(r, table, f) ==
    f = [turns \in 0..(r.left \div HdBytes) |->
           IF turns = 0 THEN r
           ELSE IF ~f[turns - 1].ok \/ f[turns - 1].left < HdBytes THEN f[turns - 1]
                ELSE SectorTurn(f[turns - 1], table)]

LEMMA LoopUnfolds ==
    ASSUME NEW r, NEW table
    PROVE  ReadSectors(r, table) = (CHOOSE f : IsLoop(r, table, f))[r.left \div HdBytes]
BY DEF ReadSectors, IsLoop

LEMMA OneTurn ==
    ASSUME NEW r, NEW table, NEW turns \in Nat, turns = r.left \div HdBytes,
           Stops(LoopStep(r, table)), turns = 0 => LoopStep(r, table) = r
    PROVE  ReadSectors(r, table) = LoopStep(r, table)
<1>1. PICK x : x = LoopStep(r, table)
  OBVIOUS
<1>2. LoopStep(x, table) = x
  BY <1>1 DEF Stops, LoopStep
<1>3. \E f : IsLoop(r, table, f)
  <2> DEFINE g == [i \in 0..turns |-> IF i = 0 THEN r ELSE x]
  <2>1. ASSUME NEW i \in 0..turns
        PROVE  g[i] = IF i = 0 THEN r ELSE LoopStep(g[i - 1], table)
    <3>1. CASE i = 0
      BY <3>1
    <3>2. CASE i = 1
      BY <1>1, <3>2
    <3>3. CASE i # 0 /\ i # 1
      <4>1. i - 1 \in 0..turns /\ i - 1 # 0
        BY <3>3
      <4>2. g[i - 1] = x /\ g[i] = x
        BY <3>3, <4>1
      <4>3. QED
        BY <1>2, <3>3, <4>2
    <3>4. QED
      BY <3>1, <3>2, <3>3
  <2>2. g = [i \in 0..turns |-> g[i]]
    OBVIOUS
  <2> HIDE DEF g
  <2>3. g = [i \in 0..turns |-> IF i = 0 THEN r ELSE LoopStep(g[i - 1], table)]
    BY <2>1, <2>2
  <2>4. IsLoop(r, table, g)
    BY <2>3 DEF IsLoop, LoopStep
  <2>5. QED
    BY <2>4
<1>4. PICK f : f = (CHOOSE g : IsLoop(r, table, g)) /\ ReadSectors(r, table) = f[turns]
  BY LoopUnfolds
<1>5. IsLoop(r, table, f)
  BY <1>3, <1>4
<1>6. \A i \in 0..turns : f[i] = IF i = 0 THEN r ELSE LoopStep(f[i - 1], table)
  BY <1>5 DEF IsLoop, LoopStep
<1> DEFINE S == {i \in Nat : i + 1 <= turns => f[i + 1] = x}
<1>7. 0 \in S
  <2>1. ASSUME 0 + 1 <= turns PROVE f[0 + 1] = x
    <3>1. 0 \in 0..turns /\ 1 \in 0..turns /\ 1 # 0 /\ 1 - 1 = 0 /\ 0 + 1 = 1
      BY <2>1
    <3>2. f[1] = LoopStep(f[0], table) /\ f[0] = r
      BY <1>6, <3>1
    <3>3. QED
      BY <1>1, <3>1, <3>2
  <2>2. QED
    BY <2>1
<1>8. ASSUME NEW i \in S PROVE i + 1 \in S
  <2>1. SUFFICES ASSUME (i + 1) + 1 <= turns PROVE f[(i + 1) + 1] = x
    OBVIOUS
  <2>2. i + 1 <= turns /\ (i + 1) + 1 \in 0..turns /\ (i + 1) + 1 # 0 /\ ((i + 1) + 1) - 1 = i + 1
    BY <2>1
  <2>3. f[i + 1] = x
    BY <2>2
  <2>4. f[(i + 1) + 1] = LoopStep(f[i + 1], table)
    BY <1>6, <2>2
  <2>5. QED
    BY <1>2, <2>3, <2>4
<1>9. S = Nat
  <2> HIDE DEF S
  <2>1. S \in SUBSET Nat
    BY DEF S
  <2>2. QED
    BY <1>7, <1>8, <2>1, SetInduction
<1>10. CASE turns = 0
  <2>1. f[0] = r
    BY <1>6, <1>10
  <2>2. QED
    BY <1>4, <1>10, <2>1
<1>11. CASE turns # 0
  <2>1. turns - 1 \in Nat /\ (turns - 1) + 1 = turns
    BY <1>11
  <2>2. turns - 1 \in S
    BY <1>9, <2>1
  <2>3. f[turns] = x
    BY <2>1, <2>2
  <2>4. QED
    BY <1>1, <1>4, <2>3
<1>12. QED
  BY <1>10, <1>11

(* The whole sectors left, if any, are of the block the read is at. *)
OneBlockLeft(r) == r.ok = TRUE => r.lba + (r.left \div HdBytes) <= BlockSectors

(* What is left then is less than a sector. *)
WholeRead(table, ratio, a, length, t) ==
    \E m \in Nat : Reading(table, ratio, a, length, 0, m, t) /\ Stops(t)

LEMMA SectorsStep ==
    ASSUME NEW table \in Tables, NEW ratio, RatioOK(ratio),
           NEW a \in Nat, NEW length \in Nat, a + length <= DiscEnd, NEW m \in Nat,
           NEW r, Reading(table, ratio, a, length, 0, m, r),
           r.left >= HdBytes => OneBlockLeft(r)
    PROVE  WholeRead(table, ratio, a, length, ReadSectors(r, table))
<1>1. r.ok \in BOOLEAN /\ r.left \in Nat /\ r.lba \in Nat
  BY DEF Reading, ReadStates
<1>2. PICK h \in Nat \ {0}, left \in Nat, lba \in Nat : h = HdBytes /\ left = r.left /\ lba = r.lba
  BY <1>1, DiscSizes
<1>3. PICK n \in Nat, rest \in Nat : n = left \div h /\ left = n * h + rest /\ rest < h
  <2>1. \E q, y \in Nat : /\ q = left \div h /\ y = left % h
                          /\ left = q * h + y /\ y < h
    BY Remainder
  <2>2. QED
    BY <2>1
<1>4. CASE r.ok = TRUE /\ left >= h
  <2>1. n # 0
    BY <1>3, <1>4, 0 * h = 0
  <2>2. PICK bytes \in Nat : bytes = n * h /\ 0 < bytes /\ left - bytes = rest /\ bytes <= left
    <3>1. n * h \in Nat /\ 0 * h + h <= n * h /\ 0 * h = 0
      BY <2>1, TimesMono
    <3>2. QED
      BY <1>3, <3>1
  <2>3. lba + n <= BlockSectors
    BY <1>2, <1>3, <1>4 DEF OneBlockLeft
  <2>4. Limited(lba, n) = n
    <3>1. PICK b \in Nat : b = BlockSectors
      BY DiscSizes
    <3>2. b <= b * h /\ b * h \in Nat
      <4>1. 1 <= h => 1 * b <= h * b
        BY TimesMono
      <4>2. h * b = b * h /\ 1 * b = b /\ b * h \in Nat
        OBVIOUS
      <4>3. QED
        BY <4>1, <4>2
    <3>3. lba + n <= b * h
      BY <2>3, <3>1, <3>2
    <3>4. QED
      BY <1>2, <3>1, <3>2, <3>3 DEF Limited
  <2>5. Gettable(r, n, 0, bytes)
    BY <1>2, <1>4, <2>2, <2>3 DEF Gettable
  <2>6. GetsOn(table, ratio, a, length, n, 0, bytes, m, r)
    BY <2>5, GetStep
  <2>7. PICK t : t = Crosses(Gets(r, table, n, 0, bytes), table)
    OBVIOUS
  <2>8. LoopStep(r, table) = t
    <3>1. LoopStep(r, table) = SectorTurn(r, table)
      BY <1>2, <1>4 DEF LoopStep
    <3>2. SectorTurn(r, table) = t
      BY <1>2, <1>3, <2>2, <2>4, <2>7 DEF SectorTurn
    <3>3. QED
      BY <3>1, <3>2
  <2>9. PICK done \in Nat : done = m + bytes /\ Reading(table, ratio, a, length, 0, done, t)
    BY <2>6, <2>7 DEF GetsOn
  <2>10. t.left < h
    <3>1. t.left = length - (m + bytes) /\ r.left = length - m
      BY <2>9 DEF Reading
    <3>2. m \in 0..length
      BY DEF Reading
    <3>3. QED
      BY <1>2, <1>3, <2>2, <3>1, <3>2
  <2>11. Stops(t)
    BY <1>2, <2>10 DEF Stops
  <2>12. ReadSectors(r, table) = t
    <3>1. n = r.left \div HdBytes
      BY <1>2, <1>3
    <3>2. QED
      BY <2>1, <2>8, <2>11, <3>1, OneTurn
  <2>13. QED
    BY <2>9, <2>11, <2>12 DEF WholeRead
<1>5. CASE ~(r.ok = TRUE /\ left >= h)
  <2>1. Stops(r)
    BY <1>1, <1>2, <1>5 DEF Stops
  <2>2. LoopStep(r, table) = r
    BY <2>1 DEF Stops, LoopStep
  <2>3. ReadSectors(r, table) = r
    <3>1. n = r.left \div HdBytes
      BY <1>2, <1>3
    <3>2. QED
      BY <2>1, <2>2, <3>1, OneTurn
  <2>4. QED
    BY <2>1, <2>3 DEF WholeRead
<1>6. QED
  BY <1>4, <1>5

(* All of it is read, or the read has come to a block without data. *)
ReadOut(table, ratio, a, length, t) ==
    \E m \in Nat : Reading(table, ratio, a, length, 0, m, t) /\ (t.ok = TRUE => m = length)

LEMMA TailStep ==
    ASSUME NEW table \in Tables, NEW ratio, RatioOK(ratio),
           NEW a \in Nat, NEW length \in Nat, a + length <= DiscEnd,
           NEW r, WholeRead(table, ratio, a, length, r)
    PROVE  ReadOut(table, ratio, a, length, ReadTail(r, table))
<1>1. PICK m \in Nat : Reading(table, ratio, a, length, 0, m, r) /\ Stops(r)
  BY DEF WholeRead
<1>2. r \in ReadStates /\ r.ok \in BOOLEAN /\ r.left \in Nat /\ r.lba \in Nat /\ r.left = length - m
      /\ m \in 0..length
  BY <1>1 DEF Reading, ReadStates
<1>3. CASE r.ok = TRUE /\ r.left # 0
  <2>1. PICK h \in Nat \ {0}, left \in Nat \ {0} : h = HdBytes /\ left = r.left /\ left < h
    BY <1>1, <1>2, <1>3, DiscSizes DEF Stops
  <2>2. r.lba < BlockSectors
    <3>1. m < length
      BY <1>2, <1>3
    <3>2. QED
      BY <1>1, <1>3, <3>1 DEF Reading, GoesOnAt
  <2>3. Gettable(r, 1, 0, left)
    <3>1. 1 * h = h
      OBVIOUS
    <3>2. r.lba + 1 <= BlockSectors
      BY <1>2, <2>2, DiscSizes
    <3>3. QED
      BY <1>3, <2>1, <3>1, <3>2 DEF Gettable
  <2>4. GetsOn(table, ratio, a, length, 1, 0, left, m, r)
    BY <1>1, <2>3, GetStep
  <2>5. PICK got : got = Gets(r, table, 1, 0, left)
    OBVIOUS
  <2>6. m + (left - 0) = length
    BY <1>2, <2>1
  <2>7. Reading(table, ratio, a, length, 0, length, Crosses(got, table))
    BY <2>4, <2>5, <2>6 DEF GetsOn
  <2>8. Crosses(got, table) = got
    <3>1. PICK data, lba, zero : /\ data = r.data \o BytesFrom(r.ratio, table[r.wlba], r.lba, 0, left)
                                 /\ lba = r.lba + 1 /\ zero = r.left - (left - 0)
      OBVIOUS
    <3>2. zero = 0
      BY <2>1, <3>1
    <3>3. got = [r EXCEPT !.data = data, !.left = zero, !.lba = lba]
      BY <2>5, <3>1 DEF Gets
    <3>4. got.left = 0
      BY <1>2, <3>2, <3>3 DEF ReadStates
    <3>5. QED
      BY <3>4 DEF Crosses
  <2>9. ReadTail(r, table) = got
    BY <1>3, <2>1, <2>5 DEF ReadTail
  <2>10. QED
    BY <2>7, <2>8, <2>9 DEF ReadOut
<1>4. CASE ~(r.ok = TRUE /\ r.left # 0)
  <2>1. ReadTail(r, table) = r
    BY <1>2, <1>4 DEF ReadTail
  <2>2. r.ok = TRUE => m = length
    BY <1>2, <1>4
  <2>3. QED
    BY <1>1, <2>1, <2>2 DEF ReadOut
<1>5. QED
  BY <1>3, <1>4

Answer(t) == IF ~t.ok THEN NotRead ELSE [ok |-> TRUE, data |-> t.data]

LEMMA AnswerIs ==
    ASSUME NEW table \in Tables, NEW ratio, NEW a \in Nat, NEW length \in Nat, a + length <= DiscEnd,
           NEW t, ReadOut(table, ratio, a, length, t)
    PROVE  Answer(t) = DiscAnswer(table, a, length)
<1> USE DEF Answer
<1>1. PICK m \in Nat : Reading(table, ratio, a, length, 0, m, t) /\ (t.ok = TRUE => m = length)
  BY DEF ReadOut
<1>2. t.ok \in BOOLEAN /\ m \in 0..length
  BY <1>1 DEF Reading, ReadStates
<1>3. CASE t.ok = TRUE
  BY <1>1, <1>3 DEF Reading, DiscAnswer
<1>4. CASE t.ok = FALSE
  <2>1. m < length
    BY <1>1, <1>2, <1>4 DEF Reading
  <2>2. PICK q \in Nat : q = t.wlba
    BY <1>1 DEF Reading, ReadStates
  <2>3. table[q] = 0 /\ a + m = q * BlockBytes
    BY <1>1, <1>4, <2>1, <2>2 DEF Reading, GoesOnAt
  <2>4. (q * BlockBytes + 0) \div BlockBytes = q /\ q * BlockBytes \in Nat
    BY InBlock, DiscSizes
  <2>5. (a + m) \div BlockBytes = q
    BY <2>3, <2>4
  <2>6. ~HasRun(table, a, length)
    <3>1. ~HasByte(table, a + m)
      BY <2>3, <2>5 DEF HasByte
    <3>2. m \in 0..(length - 1)
      BY <1>2, <2>1
    <3>3. QED
      BY <3>1, <3>2 DEF HasRun
  <2>7. QED
    BY <1>4, <2>6 DEF DiscAnswer
<1>5. QED
  BY <1>2, <1>3, <1>4

-----------------------------------------------------------------------------
(* A read of the disc. *)

(* A word of the disc is in byte off of sector lba of block q. *)
WordAt(offset, q, lba, off) ==
    /\ q = offset \div (HdWords * BlockSectors) /\ lba = (offset \div HdWords) % BlockSectors
    /\ off = (offset % HdWords) * HdWordBytes
    /\ off < HdBytes /\ lba < BlockSectors
    /\ offset % HdWords = 0 <=> off = 0
    /\ offset * HdWordBytes = q * BlockBytes + lba * HdBytes + off

LEMMA WordOf ==
    ASSUME NEW offset \in Nat
    PROVE  \E q, lba, off \in Nat : WordAt(offset, q, lba, off)
<1>1. PICK s \in Nat \ {0}, p \in Nat \ {0}, b \in Nat \ {0} :
          s = HdWords /\ p = HdWordBytes /\ b = BlockSectors /\ HdBytes = s * p
          /\ BlockBytes = b * (s * p)
  BY DiscSizes
<1>2. PICK n \in Nat, y \in Nat : n = offset \div s /\ y = offset % s /\ offset = n * s + y /\ y < s
  BY Remainder
<1>3. PICK q \in Nat, lba \in Nat : q = n \div b /\ lba = n % b /\ n = q * b + lba /\ lba < b
  BY Remainder
<1>4. q = offset \div (s * b)
  <2>1. PICK c \in Nat \ {0}, z \in Nat : c = s * b /\ z = lba * s + y
    <3>1. 0 * b + b <= s * b /\ 0 * b = 0 /\ s * b \in Nat
      BY TimesMono
    <3>2. s * b \in Nat \ {0} /\ lba * s + y \in Nat
      BY <3>1
    <3>3. QED
      BY <3>2
  <2>2. z < c
    <3>1. lba * s + s <= b * s
      BY <1>3, TimesMono
    <3>2. b * s = s * b /\ lba * s \in Nat
      OBVIOUS
    <3>3. QED
      BY <1>2, <2>1, <3>1, <3>2
  <2>3. offset = q * c + z
    <3>1. (q * b + lba) * s = q * (s * b) + lba * s
      OBVIOUS
    <3>2. PICK u \in Nat, v \in Nat : u = q * (s * b) /\ v = lba * s
      BY q * (s * b) \in Nat, lba * s \in Nat
    <3>3. n * s = u + v
      BY <1>3, <3>1, <3>2
    <3>4. z = v + y /\ q * c = u
      BY <2>1, <3>2
    <3>5. QED
      BY <1>2, <3>3, <3>4
  <2>4. offset \div c = q
    BY <2>2, <2>3, Division
  <2>5. QED
    BY <2>1, <2>4
<1>5. PICK off \in Nat : off = y * p
  BY y * p \in Nat
<1>6. off < s * p
  <2>1. y * p + p <= s * p /\ s * p \in Nat
    BY <1>2, TimesMono
  <2>2. QED
    BY <1>5, <2>1
<1>7. y = 0 <=> off = 0
  <2>1. 0 < y => 0 * p + p <= y * p
    BY TimesMono
  <2>2. 0 * p = 0
    OBVIOUS
  <2>3. QED
    BY <1>5, <2>1, <2>2
<1>8. offset * p = q * (b * (s * p)) + lba * (s * p) + off
  <2>1. ((q * b + lba) * s + y) * p = q * (b * (s * p)) + lba * (s * p) + y * p
    OBVIOUS
  <2>2. QED
    BY <1>2, <1>3, <1>5, <2>1
<1>9. WordAt(offset, q, lba, off)
  BY <1>1, <1>2, <1>3, <1>4, <1>5, <1>6, <1>7, <1>8 DEF WordAt
<1>10. QED
  BY <1>9

(* After the start of the read, the whole sectors are of the block it is   *)
(* at.                                                                     *)
LEMMA StaysInBlock ==
    ASSUME NEW table, NEW ratio, NEW offset \in Nat, NEW length \in Nat, InOneBlock(offset, length),
           NEW q \in Nat, NEW lba \in Nat, NEW off \in Nat, WordAt(offset, q, lba, off),
           NEW r, Reading(table, ratio, offset * HdWordBytes, length, 0, HeadLength(off, length), r),
           r.left >= HdBytes
    PROVE  OneBlockLeft(r)
<1>1. SUFFICES ASSUME r.ok = TRUE PROVE r.lba + (r.left \div HdBytes) <= BlockSectors
  BY DEF OneBlockLeft
<1>2. PICK h \in Nat \ {0}, b \in Nat \ {0}, a \in Nat :
          h = HdBytes /\ b = BlockSectors /\ BlockBytes = b * h /\ a = offset * HdWordBytes
  <2>1. offset * HdWordBytes \in Nat
    BY DiscSizes
  <2>2. QED
    BY <2>1, DiscSizes
<1>3. PICK left \in Nat, n \in Nat, c \in Nat : left = r.left /\ n = r.lba /\ c = r.wlba
  BY DEF Reading, ReadStates
<1>4. PICK m \in 0..length : m = HeadLength(off, length) /\ left = length - m
  BY <1>3 DEF Reading
<1>5. m < length /\ left >= h
  BY <1>2, <1>3, <1>4
<1>6. m = IF off = 0 THEN 0 ELSE h - off
  BY <1>2, <1>4, <1>5 DEF HeadLength
<1>7. m = IF offset % HdWords = 0 THEN 0 ELSE h - (offset % HdWords) * HdWordBytes
  BY <1>6 DEF WordAt
<1>8. n < b /\ a + m = c * (b * h) + n * h + 0
  BY <1>1, <1>2, <1>3, <1>4, <1>5 DEF Reading, GoesOnAt
<1>9. PICK first \in Nat : first = c * b + n
  BY c * b + n \in Nat
<1>10. (a + m) \div h = first
  <2>1. a + m = first * h + 0
    <3>1. (c * b + n) * h = c * (b * h) + n * h
      OBVIOUS
    <3>2. QED
      BY <1>8, <1>9, <3>1
  <2>2. PICK x \in Nat : x = a + m
    BY <1>4
  <2>3. QED
    BY <2>1, <2>2, Division
<1>11. first % b = n
  BY <1>8, <1>9, Division
<1>12. PICK whole \in Nat : whole = left \div h /\ whole # 0
  <2>1. PICK k \in Nat, rest \in Nat : k = left \div h /\ left = k * h + rest /\ rest < h
    <3>1. \E k, rest \in Nat : /\ k = left \div h /\ rest = left % h
                               /\ left = k * h + rest /\ rest < h
      BY Remainder
    <3>2. QED
      BY <3>1
  <2>2. k # 0
    BY <1>5, <2>1, 0 * h = 0
  <2>3. QED
    BY <2>1, <2>2
<1>13. whole = IF length < m THEN 0 ELSE (length - m) \div h
  BY <1>4, <1>12
<1>14. whole = 0 \/ (first % b) + whole <= b
  BY <1>2, <1>7, <1>10, <1>13 DEF InOneBlock
<1>15. QED
  BY <1>2, <1>3, <1>11, <1>12, <1>14

LEMMA DiscReadIs ==
    ASSUME NEW table \in Tables, NEW ratio, RatioOK(ratio), NEW offset \in Nat,
           NEW length \in Nat \ {0}, offset * HdWordBytes + length <= DiscEnd,
           InOneBlock(offset, length)
    PROVE  wbfs_disc_read(ratio, table, offset, length) = DiscBytes(table, offset, length)
<1>1. PICK a \in Nat : a = offset * HdWordBytes /\ a + length <= DiscEnd
  BY DiscSizes, offset * HdWordBytes \in Nat
<1>2. PICK q \in Nat, lba \in Nat, off \in Nat : WordAt(offset, q, lba, off)
  <2>1. \E q, lba, off \in Nat : WordAt(offset, q, lba, off)
    BY WordOf
  <2>2. QED
    BY <2>1
<1>3. DiscBytes(table, offset, length) = DiscAnswer(table, a, length)
  BY <1>1, DiscBytesIs
<1>4. PICK r : r = [ok |-> TRUE, data |-> <<>>, left |-> length, ratio |-> ratio, wlba |-> q, lba |-> lba]
  OBVIOUS
<1>5. PICK r1, r2, t : /\ r1 = ReadHead(r, table, off) /\ r2 = ReadSectors(r1, table)
                       /\ t = ReadTail(r2, table)
  OBVIOUS
<1>6. wbfs_disc_read(ratio, table, offset, length)
        = IF table[q] = 0 \/ ~t.ok THEN NotRead ELSE [ok |-> TRUE, data |-> t.data]
  BY <1>2, <1>4, <1>5 DEF wbfs_disc_read, WordAt
<1>7. /\ r \in ReadStates /\ r.ok = TRUE /\ r.data = <<>> /\ r.left = length /\ r.ratio = ratio
      /\ r.wlba = q /\ r.lba = lba
  <2>1. <<>> \in Seq(Nat) /\ ratio \in Nat
    BY DEF RatioOK
  <2>2. QED
    BY <1>4, <2>1 DEF ReadStates
<1>8. a = q * BlockBytes + lba * HdBytes + off /\ off < HdBytes /\ lba < BlockSectors
  BY <1>1, <1>2 DEF WordAt
<1>9. a \div BlockBytes = q /\ q < DiscBlocks
  <2>1. PICK h \in Nat \ {0}, b \in Nat \ {0} : h = HdBytes /\ b = BlockSectors /\ BlockBytes = b * h
    BY DiscSizes
  <2>2. PICK y \in Nat : y = lba * h + off
    BY lba * h + off \in Nat
  <2>3. y < BlockBytes
    <3>1. lba * h + h <= b * h /\ b * h \in Nat /\ lba * h \in Nat
      BY <1>8, <2>1, TimesMono
    <3>2. QED
      BY <1>8, <2>1, <2>2, <3>1
  <2>4. (q * BlockBytes + y) \div BlockBytes = q /\ q * BlockBytes \in Nat
    BY <2>3, InBlock
  <2>5. a = q * BlockBytes + y
    BY <1>8, <2>1, <2>2, <2>4, lba * h \in Nat
  <2>6. a < DiscEnd
    BY <1>1, DiscSizes
  <2>7. \E c, z \in Nat : /\ c = a \div BlockBytes /\ z = a % BlockBytes
                          /\ a = c * BlockBytes + z /\ z < BlockBytes /\ c < DiscBlocks
    BY <2>6, BlockOf
  <2>8. QED
    BY <2>4, <2>5, <2>7
<1>10. CASE table[q] = 0
  <2>1. ~HasRun(table, a, length)
    <3>1. 0 \in 0..(length - 1) /\ a + 0 = a
      OBVIOUS
    <3>2. ~HasByte(table, a)
      BY <1>9, <1>10 DEF HasByte
    <3>3. QED
      BY <3>1, <3>2 DEF HasRun
  <2>2. QED
    BY <1>3, <1>6, <1>10, <2>1 DEF DiscAnswer
<1>11. CASE table[q] # 0
  <2>1. Reading(table, ratio, a, length, off, 0, r)
    <3>1. DiscRun(table, a, 0) = <<>> /\ HasRun(table, a, 0)
      BY DEF DiscRun, HasRun
    <3>2. GoesOnAt(table, a + 0, off, r)
      BY <1>7, <1>8, <1>9, <1>11 DEF GoesOnAt
    <3>3. 0 \in 0..length /\ r.left = length - 0
      BY <1>7
    <3>4. QED
      BY <1>7, <3>1, <3>2, <3>3 DEF Reading
  <2>2. HeadOK(table, ratio, a, length, off, r)
    BY <1>1, <1>7, <1>8, <2>1, HeadStep
  <2>3. Reading(table, ratio, a, length, 0, HeadLength(off, length), r1)
    BY <1>5, <2>2 DEF HeadOK
  <2>4. r1.left >= HdBytes => OneBlockLeft(r1)
    BY <1>1, <1>2, <2>3, StaysInBlock
  <2>5. PICK m \in Nat : m = HeadLength(off, length)
    BY <2>3 DEF Reading
  <2>6. WholeRead(table, ratio, a, length, r2)
    BY <1>1, <1>5, <2>3, <2>4, <2>5, SectorsStep
  <2>7. ReadOut(table, ratio, a, length, t)
    BY <1>1, <1>5, <2>6, TailStep
  <2>8. Answer(t) = DiscAnswer(table, a, length)
    BY <1>1, <2>7, AnswerIs
  <2>9. QED
    BY <1>3, <1>6, <1>11, <2>8 DEF Answer
<1>12. QED
  BY <1>10, <1>11

WbfsSpec == WbfsInit /\ [][WbfsNext]_wbfsVars

(* The disc the DIP plugin opened is the one it asked for, and any part of *)
(* it whose whole sectors are of one block is read as it is, whichever     *)
(* server it is at, whatever was open there or at the other before, for    *)
(* every partition, table of blocks and sector size (WBFS_OpenDisc,        *)
(* __SDHC_WBFS_OpenDisc, wbfs_disc_read).                                  *)
THEOREM ReadsAreTheDisc == WbfsSpec => []ReadsTheDisc
<1>1. WbfsInit => WbfsInv
  BY WbfsInitInv
<1>2. WbfsInv /\ [WbfsNext]_wbfsVars => WbfsInv'
  BY WbfsNextInv
<1>3. WbfsInv => ReadsTheDisc
  <2>1. SUFFICES ASSUME WbfsInv, served # {} PROVE ReadsTheDisc
    BY DEF ReadsTheDisc
  <2>2. PICK s, p, e, id : /\ s = devFd /\ p = volume[devFd][hdd[devFd]] /\ e = disc[devFd]
                           /\ served = {id} /\ Serves(p, e, id, hd_sec_sz_ratio)
                           /\ s \in Servers /\ hdd[s] \in DOMAIN volume[s]
    BY <2>1 DEF WbfsInv, ServedOK
  <2>3. volume \in Volumes
    BY <2>1 DEF WbfsInv, WbfsTypeOK
  <2>4. /\ p.ratio \in Nat /\ p.ratio # 0 /\ HdBytes % p.ratio = 0
        /\ DOMAIN p.discs \subseteq Nat \ {0}
        /\ \A i \in DOMAIN p.discs : p.discs[i].wlba_table \in Tables
    <3>1. PICK v \in Volumes : v = volume
      BY <2>3
    <3>2. PICK q : q \in DOMAIN v[s] /\ p = v[s][q] /\ s \in Servers
      BY <2>2, <3>1
    <3>3. /\ p.ratio \in Nat /\ (p.ratio # 0 => HdBytes % p.ratio = 0)
          /\ DOMAIN p.discs \subseteq Nat \ {0}
      BY <3>2, VolumeType
    <3>4. \A i \in DOMAIN p.discs : p.discs[i].wlba_table \in Tables
      BY <3>2, VolumeType DEF Tables
    <3>5. p.ratio # 0
      BY <2>2 DEF Serves
    <3>6. QED
      BY <3>3, <3>4, <3>5
  <2>5. RatioOK(p.ratio)
    BY <2>2, <2>4 DEF Serves, RatioOK
  <2>6. PICK d, table : d = p.discs[e.entry] /\ table = d.wlba_table /\ table \in Tables
    BY <2>2, <2>4 DEF Serves
  <2>7. e.closed = FALSE /\ d.id = id /\ e.entry # 0
    BY <2>2, <2>4, <2>6 DEF Serves
  <2>8. ASSUME NEW offset \in Nat, NEW length \in Nat \ {0},
               offset * HdWordBytes + length <= DiscEnd, InOneBlock(offset, length)
        PROVE  PluginRead(offset, length) = DiscBytes(table, offset, length)
    <3>1. PluginRead(offset, length) = DiscRead(s, offset, length)
      BY <2>2 DEF PluginRead, WBFS_READ_DISC, WBFS_Read, __SDHC_WBFS_Read, Servers
    <3>2. DiscRead(s, offset, length) = wbfs_disc_read(p.ratio, table, offset, length)
      BY <2>2, <2>6, <2>7 DEF DiscRead
    <3>3. QED
      BY <2>5, <2>6, <2>8, <3>1, <3>2, DiscReadIs
  <2>9. ASSUME NEW offset \in 0..(DiscBlocks * BlockSectors * HdWords - 1),
               NEW length \in 1..((DiscBlocks * BlockSectors * HdWords - offset) * HdWordBytes)
        PROVE  /\ offset \in Nat /\ length \in Nat \ {0}
               /\ offset * HdWordBytes + length <= DiscEnd
    <3>1. PICK w \in Nat, x \in Nat, n \in Nat, k \in Nat, b \in Nat :
              /\ w = HdWords /\ x = HdWordBytes /\ n = DiscBlocks /\ b = BlockSectors
              /\ k = n * b * w
      <4>1. DiscBlocks * BlockSectors * HdWords \in Nat
        BY DiscSizes
      <4>2. QED
        BY <4>1, DiscSizes
    <3>2. offset \in 0..(k - 1) /\ length \in 1..((k - offset) * x)
      BY <3>1
    <3>3. offset \in Nat /\ offset < k
      BY <3>2
    <3>4. PICK y \in Nat : y = (k - offset) * x /\ offset * x + y = k * x
      <4>1. PICK j \in Nat : j = k - offset /\ k = offset + j
        <5>1. k - offset \in Nat /\ k = offset + (k - offset)
          BY <3>3
        <5>2. QED
          BY <5>1
      <4>2. (offset + j) * x = offset * x + j * x /\ j * x \in Nat
        OBVIOUS
      <4>3. QED
        BY <4>1, <4>2
    <3>5. length \in Nat \ {0} /\ length <= y
      BY <3>2, <3>4
    <3>6. DiscEnd = k * x
      <4>1. n * (b * (w * x)) = n * b * w * x
        OBVIOUS
      <4>2. QED
        BY <3>1, <4>1 DEF DiscEnd, BlockBytes, HdBytes
    <3>7. offset * x \in Nat /\ k * x \in Nat
      BY <3>3
    <3>8. QED
      BY <3>1, <3>3, <3>4, <3>5, <3>6, <3>7
  <2>10. sane => ~e.closed /\ served = {d.id}
    BY <2>2, <2>7
  <2>11. QED
    BY <2>2, <2>6, <2>8, <2>9, <2>10 DEF ReadsTheDisc
<1>4. QED
  BY <1>1, <1>2, <1>3, PTL DEF WbfsSpec
=============================================================================
