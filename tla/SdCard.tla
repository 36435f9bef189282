------------------------------- MODULE SdCard -------------------------------
(***************************************************************************)
(* The SD card (source/cios-lib/sdio.c).  Two modules link the driver, the *)
(* FAT module and the module that serves /dev/sdio/sdhc (sdhc_server.c, in *)
(* the EHCI or the USB module); each has driver variables of its own, and  *)
(* the two share the card.  Every ioctl to IOS is a step, so that selects, *)
(* commands and deselects of the two modules interleave.                   *)
(*                                                                         *)
(* The card and IOS's driver of the slot are external: a card that is      *)
(* selected obeys a command or fails; it takes a sector number or, if it   *)
(* is not of high capacity, a byte address.  Numbers wrap at Wrap (2^32).  *)
(***************************************************************************)
EXTENDS Naturals

CONSTANTS
    Modules,    \* modules that link sdio.c
    Cards,      \* cards the user has
    HighCap,    \* those of high capacity
    NoCard,
    Rcas,       \* addresses a card may take
    Sectors,    \* sectors that are asked for
    PageSize,   \* PAGE_SIZE512
    Wrap,       \* numbers of a u32
    SdTries,    \* attempts of a read or a write (10)
    Server      \* the module that serves /dev/sdio/sdhc

ASSUME SdAssumption ==
    /\ HighCap \subseteq Cards /\ NoCard \notin Cards
    /\ Rcas \subseteq Nat \ {0} /\ Rcas # {}
    /\ Sectors \subseteq Nat
    /\ {PageSize, Wrap, SdTries} \subseteq Nat \ {0}
    /\ Server \in Modules

VARIABLES
    card,      \* the card in the slot
    slot,      \* IOS's view: initialized, rca, selected
    sd,        \* per module: fd, rca, sd0_initialized, sdhc, sdio_initialized
    call,      \* per module: the call it is in
    handles,   \* descriptors of the slot each module holds open
    dipfd,     \* has the DIP plugin opened the server's device?
    inserts,   \* cards inserted so far
    sdhome     \* ghost: per module, the card it identified last, if still there

sdVars == <<card, slot, sd, call, handles, dipfd, inserts, sdhome>>

NoSlot == [ready |-> FALSE, rca |-> 0, selected |-> FALSE]

NoDriver == [fd |-> FALSE, rca |-> 0, sd0_initialized |-> FALSE, sdhc |-> FALSE,
             sdio_initialized |-> FALSE]

NoCall == [pc |-> "idle", sector |-> 0, arg |-> 0, tries |-> 0, sent |-> 0,
           at |-> {}, result |-> FALSE]

SdInit ==
    /\ card \in Cards \cup {NoCard}
    /\ slot = NoSlot
    /\ sd = [m \in Modules |-> NoDriver]
    /\ call = [m \in Modules |-> NoCall]
    /\ handles = [m \in Modules |-> 0]
    /\ dipfd = FALSE
    /\ inserts = 0
    /\ sdhome = [m \in Modules |-> NoCard]

-----------------------------------------------------------------------------
(* The user. *)
Eject ==
    /\ card # NoCard
    /\ card' = NoCard
    /\ slot' = NoSlot
    /\ sdhome' = [m \in Modules |-> NoCard]
    /\ UNCHANGED <<sd, call, handles, inserts>>

Insert(bound) ==
    /\ card = NoCard /\ inserts < bound
    /\ card' \in Cards
    /\ inserts' = inserts + 1
    /\ UNCHANGED <<slot, sd, call, handles, sdhome>>

-----------------------------------------------------------------------------
Goto(m, where) == call' = [call EXCEPT ![m].pc = where]

(* The call ends.  Of a read or a write that succeeded, what it moved is   *)
(* kept until the next call.                                               *)
Succeeded(c) == [c EXCEPT !.pc = "idle", !.result = TRUE, !.arg = 0, !.tries = 0]

Return(m) == call' = [call EXCEPT ![m] = NoCall]

Begin(m, where, s) ==
    /\ call[m].pc = "idle"
    /\ call' = [call EXCEPT ![m] = [NoCall EXCEPT !.pc = where, !.sector = s, !.arg = s]]

(* mutant: a failed start forgets the descriptor without closing it *)
DeinitializeLeaks(m, driver) ==
    /\ sd' = [sd EXCEPT ![m] = [driver EXCEPT !.fd = FALSE, !.sdio_initialized = FALSE]]
    /\ UNCHANGED handles

(* The driver of a module is closed; sd0_initialized is left alone. *)
sdio_Deinitialize(m, driver) ==
    /\ sd' = [sd EXCEPT ![m] = [driver EXCEPT !.fd = FALSE, !.sdio_initialized = FALSE]]
    /\ handles' = [handles EXCEPT ![m] = IF driver.fd THEN @ - 1 ELSE @]

(* Started already: the card is not looked at.  Otherwise the slot is      *)
(* opened, which may fail.                                                 *)
sdio_Startup(m) ==
    /\ \/ /\ sd[m].sdio_initialized
          /\ call[m].pc = "idle" /\ Return(m)
          /\ UNCHANGED <<sd, handles>>
       \/ /\ ~sd[m].sdio_initialized
          /\ Begin(m, "reset", 0)
          /\ sd' = [sd EXCEPT ![m].fd = TRUE]
          /\ handles' = [handles EXCEPT ![m] = @ + 1]
       \/ /\ ~sd[m].sdio_initialized
          /\ call[m].pc = "idle" /\ Return(m)
          /\ sdio_Deinitialize(m, [sd[m] EXCEPT !.fd = FALSE])
    /\ UNCHANGED <<card, slot, inserts, sdhome>>

(* Only a module that was once initialized shuts down. *)
sdio_Shutdown(m) ==
    /\ call[m].pc = "idle" /\ Return(m)
    /\ IF sd[m].sd0_initialized
       THEN sdio_Deinitialize(m, [sd[m] EXCEPT !.sd0_initialized = FALSE])
       ELSE UNCHANGED <<sd, handles>>
    /\ UNCHANGED <<card, slot, inserts, sdhome>>

-----------------------------------------------------------------------------
(* __sd0_initio. *)

StartFails(m, driver) == Return(m) /\ sdio_Deinitialize(m, driver)

(* IOS resets the card and gives it an address, or leaves it to the driver *)
(* (old versions know no cards of high capacity).                          *)
__sdio_resetcard(m) ==
    /\ call[m].pc = "reset"
    /\ IF card = NoCard
       THEN /\ StartFails(m, [sd[m] EXCEPT !.rca = 0])
            /\ UNCHANGED <<slot, sdhome>>
       ELSE /\ \/ /\ slot' \in {[ready |-> TRUE, rca |-> r, selected |-> FALSE] : r \in Rcas}
                  /\ sd' = [sd EXCEPT ![m].rca = slot'.rca, ![m].sdhc = card \in HighCap]
                  /\ sdhome' = [sdhome EXCEPT ![m] = card]
                  /\ Goto(m, "bus")
               \/ /\ card \in HighCap
                  /\ slot' = NoSlot
                  /\ sd' = [sd EXCEPT ![m].rca = 0]
                  /\ sdhome' = [sdhome EXCEPT ![m] = NoCard]
                  /\ Goto(m, "reopen")
            /\ UNCHANGED handles
    /\ UNCHANGED <<card, inserts>>

(* The descriptor is closed, and opened again if IOS lets it. *)
Reopen(m, opens) ==
    /\ sd' = [sd EXCEPT ![m].fd = opens]
    /\ handles' = [handles EXCEPT ![m] = IF opens THEN @ ELSE @ - 1]

ReopenSlot(m) ==
    /\ call[m].pc = "reopen"
    /\ \/ Reopen(m, TRUE) /\ Goto(m, "host")
       \/ Reopen(m, FALSE) /\ Goto(m, "undo")
    /\ UNCHANGED <<card, slot, inserts, sdhome>>

(* A register of the host controller is read, written or waited for through *)
(* the slot's descriptor; the wait gives up after ten looks.               *)
RegistersObey(m) == sd[m].fd

(* The controller is reset, which forgets the card, and powers it; the     *)
(* flag of high capacity is guessed.                                       *)
HostPowers(m) ==
    /\ call[m].pc = "host"
    /\ slot' = NoSlot
    /\ \/ /\ RegistersObey(m)
          /\ sd' = [sd EXCEPT ![m].sdhc = TRUE]
          /\ Goto(m, "identify")
       \/ /\ \E sdhc \in {sd[m].sdhc, TRUE} : sd' = [sd EXCEPT ![m].sdhc = sdhc]
          /\ Goto(m, "fail")
    /\ UNCHANGED <<card, handles, inserts, sdhome>>

(* The card is told to identify itself, in at most ten tries, says whether *)
(* it is of high capacity, and then gives its CID and its address.         *)
CardIdentifies(m) ==
    /\ call[m].pc = "identify"
    /\ \/ /\ card # NoCard
          /\ slot' \in {[ready |-> TRUE, rca |-> r, selected |-> FALSE] : r \in Rcas}
          /\ sd' = [sd EXCEPT ![m].rca = slot'.rca, ![m].sdhc = card \in HighCap]
          /\ sdhome' = [sdhome EXCEPT ![m] = card]
          /\ Goto(m, "bus")
       \/ /\ \E sdhc \in {sd[m].sdhc, card \in HighCap} : sd' = [sd EXCEPT ![m].sdhc = sdhc]
          /\ Goto(m, "fail")
          /\ UNCHANGED <<slot, sdhome>>
    /\ UNCHANGED <<card, handles, inserts>>

(* Whatever failed, the controller is reset once more and the slot opened  *)
(* once more, for Startup to close.                                        *)
InitFails(m) ==
    /\ call[m].pc = "fail"
    /\ slot' = NoSlot
    /\ \E opens \in BOOLEAN : Reopen(m, opens)
    /\ Goto(m, "undo")
    /\ UNCHANGED <<card, inserts, sdhome>>

StartUndone(m) ==
    /\ call[m].pc = "undo"
    /\ StartFails(m, sd[m])
    /\ UNCHANGED <<card, slot, inserts, sdhome>>

(* A command reaches a card that has the address the module knows. *)
Obeys(m) == slot.ready /\ slot.rca = sd[m].rca /\ sd[m].fd

(* The controller's bus width and its clock. *)
__sdio_setbuswidth(m) ==
    /\ call[m].pc = "bus"
    /\ \/ RegistersObey(m) /\ Goto(m, "select") /\ UNCHANGED <<sd, handles>>
       \/ StartFails(m, sd[m])
    /\ UNCHANGED <<card, slot, inserts, sdhome>>

__sd0_select(m, ok) ==
    /\ ok => Obeys(m)
    /\ slot' = [slot EXCEPT !.selected = IF ok THEN TRUE ELSE @]

StartSelects(m) ==
    /\ call[m].pc = "select"
    /\ \/ __sd0_select(m, TRUE) /\ Goto(m, "length") /\ UNCHANGED <<sd, handles>>
       \/ __sd0_select(m, FALSE) /\ StartFails(m, sd[m])
    /\ UNCHANGED <<card, inserts, sdhome>>

(* Block length, then the card's bus width: commands to whichever card is  *)
(* selected.  The card is deselected in any case.                          *)
__sd0_setblocklength(m) ==
    /\ call[m].pc = "length"
    /\ \/ slot.selected /\ Goto(m, "width")
       \/ Goto(m, "drop")
    /\ UNCHANGED <<card, slot, sd, handles, inserts, sdhome>>

__sd0_setbuswidth(m) ==
    /\ call[m].pc = "width"
    /\ \/ slot.selected /\ Goto(m, "keep")
       \/ Goto(m, "drop")
    /\ UNCHANGED <<card, slot, sd, handles, inserts, sdhome>>

StartDeselects(m) ==
    /\ call[m].pc \in {"keep", "drop"}
    /\ slot' = [slot EXCEPT !.selected = FALSE]
    /\ IF call[m].pc = "keep"
       THEN /\ Return(m)
            /\ sd' = [sd EXCEPT ![m].sd0_initialized = TRUE, ![m].sdio_initialized = TRUE]
            /\ UNCHANGED handles
       ELSE StartFails(m, sd[m])
    /\ UNCHANGED <<card, inserts, sdhome>>

-----------------------------------------------------------------------------
(* sdio_ReadSectors and sdio_WriteSectors differ in the command only.      *)

sdio_ReadSectors(m) ==
    /\ \E s \in Sectors : Begin(m, "try", s)
    /\ UNCHANGED <<card, slot, sd, handles, inserts, sdhome>>

sdio_WriteSectors(m) ==
    /\ \E s \in Sectors : Begin(m, "try", s)
    /\ UNCHANGED <<card, slot, sd, handles, inserts, sdhome>>

(* mutant: a card of high capacity is addressed in bytes too *)
ByteAddressAlways(m, arg) == (arg * PageSize) % Wrap

(* The argument is multiplied in every attempt that selected the card. *)
ByteAddress(m, arg) == IF sd[m].sdhc THEN arg ELSE (arg * PageSize) % Wrap

(* One attempt: SELECT; without it the next attempt begins. *)
NextTry(c) ==
    IF c.tries + 1 < SdTries THEN [c EXCEPT !.tries = @ + 1, !.pc = "try"]
    ELSE NoCall

TrySelects(m) ==
    /\ call[m].pc = "try"
    /\ \E ok \in BOOLEAN :
         /\ __sd0_select(m, ok)
         /\ call' = [call EXCEPT ![m] =
                       IF ok THEN [call[m] EXCEPT !.pc = "command",
                                                  !.arg = ByteAddress(m, call[m].arg)]
                       ELSE NextTry(call[m])]
    /\ UNCHANGED <<card, sd, handles, inserts, sdhome>>

(* The sector a card finds under an argument. *)
SectorOf(c, arg) == IF c \in HighCap THEN arg ELSE arg \div PageSize

(* READMULTIBLOCK or WRITEMULTIBLOCK, to whichever card is selected.  A    *)
(* command that fails may have moved its data.                             *)
Transfers(m) ==
    /\ call[m].pc = "command"
    /\ \E ok \in BOOLEAN, moved \in BOOLEAN :
         /\ ok => moved
         /\ moved => slot.selected
         /\ call' = [call EXCEPT
                       ![m].pc = IF ok THEN "moved" ELSE "failed",
                       ![m].sent = @ + 1,
                       ![m].at = IF moved THEN @ \cup {SectorOf(card, call[m].arg)} ELSE @]
    /\ UNCHANGED <<card, slot, sd, handles, inserts, sdhome>>

__sd0_deselect(m) ==
    /\ call[m].pc \in {"moved", "failed"}
    /\ slot' = [slot EXCEPT !.selected = FALSE]
    /\ call' = [call EXCEPT ![m] = IF @.pc = "moved" THEN Succeeded(@) ELSE NextTry(@)]
    /\ UNCHANGED <<card, sd, handles, inserts, sdhome>>

-----------------------------------------------------------------------------
Step(m) ==
    \/ __sdio_resetcard(m) \/ ReopenSlot(m) \/ HostPowers(m) \/ CardIdentifies(m)
    \/ InitFails(m) \/ StartUndone(m) \/ __sdio_setbuswidth(m) \/ StartSelects(m)
    \/ __sd0_setblocklength(m) \/ __sd0_setbuswidth(m) \/ StartDeselects(m)
    \/ TrySelects(m) \/ Transfers(m) \/ __sd0_deselect(m)

(* The FAT module calls the driver itself. *)
Request(m) ==
    \/ sdio_Startup(m) \/ sdio_Shutdown(m) \/ sdio_ReadSectors(m) \/ sdio_WriteSectors(m)

(* The server calls it for whoever has its device open.  Closing the       *)
(* device by any of them shuts the driver down.                            *)
SDHC_Ioctlv == sdio_Startup(Server) \/ sdio_ReadSectors(Server) \/ sdio_WriteSectors(Server)

SDHC_Close == sdio_Shutdown(Server)

(* The DIP plugin (dip-plugin/sdhc.c) has the server start the driver once *)
(* it has opened the device, and does not look at the answer.  An answer   *)
(* of 1, the server's for a failed read, is not an error to it either.     *)
sdhc_Init == ~dipfd /\ dipfd' = TRUE /\ sdio_Startup(Server)

sdhc_Read == dipfd /\ sdio_ReadSectors(Server) /\ UNCHANGED dipfd

sdhc_Shutdown == dipfd /\ dipfd' = FALSE /\ SDHC_Close

SdNext(bound) ==
    \/ \E m \in Modules :
         \/ Step(m) /\ UNCHANGED dipfd
         \/ m # Server /\ Request(m) /\ UNCHANGED dipfd
    \/ (SDHC_Ioctlv \/ SDHC_Close) /\ UNCHANGED dipfd
    \/ sdhc_Init \/ sdhc_Read \/ sdhc_Shutdown
    \/ (Eject \/ Insert(bound)) /\ UNCHANGED dipfd

(* What a call moved, on the card the module identified, is the sector it   *)
(* was asked for, however the two modules' selects and resets interleave;  *)
(* on a card addressed in bytes only if the first command was the last,    *)
(* since every further attempt multiplies the address again, and if the    *)
(* byte address fits a word (sdio_ReadSectors, sdio_WriteSectors).         *)
SectorIsRight ==
    \A m \in Modules :
        /\ call[m].result
        /\ card # NoCard /\ sdhome[m] = card
        /\ card \in HighCap \/ (call[m].sent = 1 /\ call[m].sector * PageSize < Wrap)
        => call[m].at = {call[m].sector}

(* A module holds the one descriptor it knows of, whatever failed in the   *)
(* opens, resets and retries of a start: none is leaked, none closed twice *)
(* (sdio_Startup, __sd0_initio).                                           *)
HandlesBalanced == \A m \in Modules : handles[m] = IF sd[m].fd THEN 1 ELSE 0
=============================================================================
