# d2x-cIOS in TLA+

This directory holds TLA+ models of d2x-cIOS (the fork that adds the
RetroAchievements module), the TLC configurations that check them on small
instances, and TLAPS proofs, for all instances, of most of the safety properties
the runs check. `PROJECT.json` lists components, runs, mutants, the source lines behind
every definition, hazards, findings and theorems; this file explains them.

How to run: `tlc -config X.cfg M` for a run (module and configuration as in `PROJECT.json`), `tlapm X.tla` for
the proofs of each module X whose name ends in `Proofs`, and of `InductionLemmas`.

## 1. The system

A cIOS is a patched IOS, the operating system of the Wii's ARM processor. This
one adds *modules* (processes with a message queue and a device name) and
*plugins* (code hooked into IOS's own modules) so that games can run from other
media, and a module that serves game memory to an achievement adapter.

| part | state it keeps | operations | talks to |
|---|---|---|---|
| **ra-module: link** (`ra-module/usb_link.c`) | the exchange on the wire, the posted slot, one timer, a queue of 8 messages, `g_dead` | `ra_usb_init`, `ra_usb_xfer`, `ra_usb_post`, `ra_usb_reap` | the kernel's USB stack and timer (asynchronous completions), the adapter |
| **ra-module: session** (`ra-module/main.c`) | the watch list and its sequence number, pending query, pending resync, transmit and receive buffers | per fire: collect, answer queries, resync, snapshot | the link; the adapter's replica of the list |
| **ra-module: poll thread** | life cycle (wait, link, identify, fetch, loop), frame clock, celebration countdown, LED, trophy flag | sampling, bring-up, fires | the game's frame counter in MEM1, the session |
| **ra-module: fetches** | watch list and chain table being filled, chunk number, attempts | request, check and retry of chunks | the link |
| **ra-module: chain walker** | per node value, validity, previous and prior value; window cursor | a walk and a snapshot per fire | game memory, which changes meanwhile |
| **dip-plugin: drive** (`dip-plugin/plugin.c`) | emulation mode, disc type, offsets, last error, the state saved for reloads | the drive commands of a game, the configuration commands of a loader | the original handler, fragmented images, WBFS, the running-title flag |
| **dip-plugin: fragments** (`frag.c`) | fragment list and its seek index | read at an offset | SD card, USB disk |
| **es-plugin, dip-plugin config** (`es-plugin/plugin.c`, `dip-plugin/config.c`) | fake-launch block, title, three files on the flash | launch, save, load, verify | each other, through files and ioctls over a reboot |
| **ffs-plugin** (`ffs-plugin/plugin.c`, `fat.c`, `fs_tools.c`, `iop.c`) | mode, folder, table of emulated descriptors, the `#` flag | open, read, write, seek, close, requests by path, switch | callers' threads, the FAT module, the original file system |
| **fat-module** (`fat-module/main.c`, `fat_wrapper.c`, `diskio.c`) with **FatFs** (`ff.c`) | one FATFS object for two devices: one sector window, the free-cluster hint; open files | mount, unmount, files, directories | SD card, USB disk |
| **dip-plugin and WBFS** (`dip-plugin/wbfs.c`, `ehci-module/wbfs.c`, `sdhc_server.c`, `libwbfs.c`) | the open partition and disc of each server, the library's sector ratio, the plugin's descriptor | open a disc, read it, close | the disk of the same module, the SD card |
| **SD card** (`cios-lib/sdio.c`, `sdhc_server.c`; client `dip-plugin/sdhc.c`) | per module: descriptor, card address, kind, started | start, stop, read, write | IOS's slot driver, one card between two modules |
| **usb-module** (`usb-module/*`; client `cios-lib/usbstorage.c`) | disks IOS told of, the mounted one, its handle, outstanding notifications | mount, capacity, read, write, unmount | IOS's USB stack, clients over one queue |
| **ehci-module** (`ehci-module/loop.c`, `tinyehci`) | mounted disk, unplug flag, timeout mode, UMS descriptor, watchdog timer; one queue head, its qTDs, the device's address and toggles | UMS ioctls, watchdog, unplug procedure; transfers, port resets | several clients over one thread, the host controller, a disk that can be pulled out |
| mload-module, runtime of cios-lib, patches, build tools | | | not modelled (section 8) |

What is hard here, and hardly reachable by a test: two transfers and a timer
completing in any order around a timeout; late replies with no identity; two
replicas of a list kept aligned only by counts and sequence numbers; memory
changing under a walker; state handed over a reboot in three files; one global
flag between two threads; a disk exchanged in the middle of a write; power lost between
two sectors of a file's update; two drivers that do not know of each other on one card. The list of
these hazards, each at its line, is in `PROJECT.json`.

## 2. The modules

| module | models | composed into |
|---|---|---|
| `UsbLink` | the exchange engine of `usb_link.c` with kernel, timer and adapter | |
| `RequestReply` | abstract: what the link promises its client | implemented by `UsbLink` |
| `WatchSync`, `MCWatchSync` | the session of a fire against the adapter's replica | |
| `PollThread` | the life of the poll thread, pacing, celebration | `RaThread` |
| `ChunkFetch` | both chunked fetches and the resync's | `RaThread` |
| `RaThread`, `MCRaThread` | the poll thread with its fetches | |
| `ChainOps` | arithmetic and address guard of the walker, as operators | `ChainWalk` |
| `ChainWalk`, `MCChainWalk` | walk, history, window, history section of a snapshot | |
| `FragRead` | a read of a fragmented image, as operators | `MCStorage` |
| `Wbfs` | WBFS discs: opening and reading | `MCStorage` |
| `SdCard` | the SD card between two modules, the server and its client | `MCStorage` |
| `UsbModule` | the USB module's thread, IOS's notifications, the clients' library | `MCStorage` |
| `MCStorage` | what a read of a disc image goes through: the four above, side by side | |
| `FfsPlugin` | the `#` flag between the callers and the file-system thread | |
| `FatFs` | `ff.c` as operators on a volume | `NandEmu` |
| `NandEmu`, `MCNandEmu` | the emulated NAND: every file-system request, as ffs-plugin and fat-module carry it out on `FatFs` | |
| `DipDrive` | the emulated drive's commands | `IosReload` |
| `IosReload` | launch, save, reboot, restore, verify; `DipDrive` inside | |
| `UmsDisk` | mounting, commands and replugging of a USB disk | `EhciLoop` |
| `EhciLoop` | the request loop and the watchdog of the EHCI module | `MCEhci` |
| `EhciHost` | transfers and ports of the host controller's driver | `MCEhci` |
| `MCEhci` | `EhciLoop` and `EhciHost` side by side | |
| `UsbLinkProofs` | proofs about `UsbLink` and its refinement of `RequestReply` | |
| `WatchSyncProofs` | proofs about `WatchSync` | |
| `RaThreadProofs` | proofs about `RaThread`, `PollThread`, `ChunkFetch` | |
| `ChainWalkProofs` | proofs about `ChainWalk` and the guard of `ChainOps` | |
| `StorageProofs` | proofs about `SdCard`, `UsbModule`, `NandEmu`, `FragRead`, `Wbfs` | |
| `IosReloadProofs` | proofs about `DipDrive` and `IosReload` | |
| `EhciProofs` | proofs about `EhciLoop` and `EhciHost` | |
| `InductionLemmas` | lemmas about natural numbers, recursive functions, folds | five of the above |

`MCStorage` and `MCEhci` hold components that share no variable: the first state
chooses which of them (`layer`) a behavior is about, and the others stand still.

Definitions keep the source's names where an operation is one function; where a
function blocks or loops, it is cut into the steps between which something else
can happen, and each step is an action named for what happens in it. Definitions
marked "mutant" are plausible bugs of the definition below them; they are used
only to show that a property can fail.

### How state and actions correspond to the code

**UsbLink.** `xs` is the static `xs` of `usb_link.c` (`busy`, `outDone`, `inDone`,
results, `isPost`), `post` the posted slot, `queue` the IOS queue `g_q`, `tok`
the token of the current wait, `timer` its timer, `dead` is `g_dead`. A call is
cut where the thread sleeps in `os_message_queue_receive`: `XferPosted`,
`XferWaitsFirst`, `ReceiveCompletion`, `ReceiveStaleToken`, `TimesOut`,
`Completes`. The kernel (`OutCompletes`, `InFails`, `TimerFires`...) and the
adapter (`AdapterReceives`, `AdapterAnswers`, `Unplugged`, `Replugged`) are
external. `missed`, `got` and `fresh` are ghosts: whether a read ever failed,
whose reply was read, whether a token is the current wait's.

**WatchSync.** `wl`, `wlSeq` are `ra_watch_*` and `ra_wl_seq`; `eList` and its
number the adapter's replica. One fire is `Fire`, then `Collect*`, `Addr*` rounds
up to `MaxRounds`, `Resync*`, `Snap*`, in the order of `ra_poll_thread`. The
adapter is external and modelled from what `gc_ra_protocol.h` and the comments
of `ra_parse_response` say the module relies on; it takes an answer for its query
by count, which the format of ADDR_RESPONSE forces. The wire is the client's
view of `UsbLink`. A scenario (`[ask, fail, errors]`) says whether the adapter
sends queries, whether exchanges may time out or be refused, and how many reads
may fail: timeouts with queries and failed reads with queries are separate
scenarios.

**PollThread, ChunkFetch, RaThread.** `main` creates the thread or fails to; `pc` then
follows `ra_poll_thread`. IDENTIFY is answered by nothing, by garbage, by another device or
by the adapter (`ra_identify`). The frame
counter is memory the loader clears and the game's hook counts; before that it
holds `Residue`. `ChunkFetch` has one action per outcome of a request; a garbled
reply fails its CRC (the CRC is taken to be perfect) and the adapter's lists do
not change during a fetch.

**ChainOps, ChainWalk.** A byte is `Bits` wide and a word four bytes, so all
words can be enumerated. The walk reads node by node and the memory may change in
between; the bytes of one node are read at once. `Meaning`, the reference, defines
each node's value from the whole history of what was read, with no array updated in
place. `PowerAssumption` says what the provers do not know of powers: that they are positive, and
that the next power of two is twice the last. `ra_send_snapshot` is one action: window, bitmaps, history section, cursor,
post.

**FragRead.** A byte of data is its own address on the device. `Frag_Read` is the
code's loop over fragments, partial sectors and tail; `Image` is what the list
means. `Reads` lie below the end of `frag_idx` (behind it nothing is defined). `damaged` are the sectors
whose read the client library reports as failed. The USB
library reports them all; the DIP plugin's SD client reports none, because the server
answers a failed read with 1 and `sdhc_Read` tests for negative numbers only.

**Wbfs.** `volume` is the partitions of the USB disk and of the card with their tables, `hdd`
and `disc` the two statics of `wbfs.c` and of `sdhc_server.c`, `hd_sec_sz_ratio` the library's
one variable, which both change, and `devFd` the server the plugin has open. `wbfs_disc_read` has the code's three parts: the rest of a sector,
whole sectors (a function of the turns of the loop), the tail. A sector that cannot be read
fails the read and is left out.

**SdCard.** Every ioctl to IOS is an action: reset, select, command, deselect. `sd` holds
the driver's statics of each of the two modules, `card` and `slot` the hardware, `handles` the
descriptors really open. The DIP plugin's calls (`sdhc_Init`, `sdhc_Read`,
`sdhc_Shutdown`) go through the server.

**UsbModule.** The thread takes one message at a time; `hub` is what is attached,
`attached_devices` what the module was told. A client's read is cut into pieces
(`USB_MAX_SECTORS`) by the library, a piece into parts by the module; each transfer
works, fails, or comes short.

**FfsPlugin.** The system-call half (`iop.c`, the caller's thread) and the
file-system thread are separate actions with the queue and the global flag between
them. Emulation is switched with no request queued and no file open, and no `#` path
is asked for until the switch is answered (`ModeSettled`).

**FatFs, NandEmu.** A call of the FAT module is an operator (`CreateDirCall` ... `CloseCall`)
that gives the set of what may come of it. A function of `ff.c` is an operator on a record of the volume, its
one-sector window, the result so far, and `io`, the disk accesses that still succeed.
A request is one action, because both threads handle one at a time, but it is tried for
*every* number of accesses after which the device stops, so the states after it are all
the states a power loss or a pulled device can leave. After a stop the device comes back
by being mounted. `tree` and `durable` are history: what files hold for their users, and
which were closed since they were written. A sector holds one entry or two units of data,
and a cluster is one sector, so updates that may be in different sectors are. There is one
copy of the allocation table; a long name is one entry; a disk access either works or is
the last.

**DipDrive, IosReload.** `config` is the plugin's configuration, `dipCfgState` what
a reload will save. Addresses are cut to layers. A launch is `ES_LAUNCH`, `SaveFfs`,
`SaveDip`, `SaveEs`, `__ES_CustomLaunch`, then `BootEs` and
`__DI_InitDriveEmulation`; every write, open and switch may fail, the launch may
fail, and `PowerOff` may come between any two. A title is identified with its
image; deleting a configuration file is taken to succeed. That `Dvd5Length` is at
most `LayerProbe` holds for the code's numbers (0x46090000 < 0x47000000).

**UmsDisk, EhciLoop.** `pc` and `job` are where the EHCI thread is inside a request:
`try` is a turn of the loop of `USBStorage_Read_Sectors`, `cycle` an attempt of
`__cycle`, `reset` its `__usbstorage_reset`. `handshake_mode` decides whether a
timeout ends the command at once. A mount is one command with its retries. A swap of
disks is assumed to take longer than the pauses inside a mount, so nothing is
plugged in while a mount is at work. The descriptor check cannot tell two disks of the same
model apart, so members of `Disks` have different descriptors. A port reset is one
step that ends; how it ends is `EhciHost`'s.

**EhciHost.** `urb` is the transfer of the current call, `qh_urb_transaction` its chain of
qTDs; `hpc` is where `ehci_do_urb` is (`wait`, `unlink`, `stop`, `end`), `ctl` the controller
(schedule, transfer, interrupt bit), `dev` the driver's idea of address and toggle, `drive` the
drive's own. `bringup` is where `ehci_init_port` is: descriptor by three ways, SET_ADDRESS,
its check. A transfer that fails may have reached the drive or not. `fresh` (a ghost) holds
as long as every transfer since the drive was addressed succeeded.

## 3. The runs

All runs finish in under three minutes on two cores. Deadlock is checked except where said.

| run | instance | states | what it shows |
|---|---|---|---|
| `usb_link` | `TokMod = 2`, two old replies owed at most, timers, OUT and IN may fail, the adapter may be unplugged | 319 k | reply attribution, no orphan completions, the posted slot, the bound of the queue, only the own timer ends a wait, `RequestReply` is implemented; every call returns and every post is reaped |
| `watch_sync` | 3 addresses, capacity 2, one round, 3 attempts, sequence numbers modulo 4, 4 scenarios | 1.07 M | `VerifiedMeansAligned`, `AnswerMatchesQuery`, `SyncRecurs` |
| `watch_sync_wedge` | 1 address, 2 rounds, timeouts only | | finding: `FailedResyncRetriggers` fails |
| `ra_thread` | 4 watch lists, 4 chain tables (short, long, out of order, empty), 2 attempts, 4 frames, 3 pulses | 114 k | `SilentWithoutGame`, `CelebrationIsWhole`, `ListsAreAdapters`, `KeepsFiring` |
| `chain_walk` | 2-bit bytes (256 words), 3 tables, 3 walks, room for part of the nodes | 13 k | `WalkIsMeant`, `WindowRotates`, `DeltaIsEvaluators`, `OperatorsAreExact` |
| `disc_storage` | fragments: all well-formed lists of up to 3 in 5 sectors, all offsets and lengths, with and without a bad sector; WBFS: a USB disk and a card, discs of 3 blocks of 2 sectors, 3 sector ratios, every read; SD: 2 modules, a card of either kind, one exchange, 2 attempts; USB: 2 models, 2 attachments, a client, 2 pieces of 2 parts | 523 k | `ReadsTheImage`, `ReadsTheDisc`, `SectorIsRight`, `HandlesBalanced`, `PiecesAreWhole`, `ListCatchesUp`, `CallsEnd` |
| `nand_volume` | 4 clusters, a directory and 2 files, 2 handles, 3 changing requests, an empty and a filled volume, the device stopping at every access | 186 k | `VolumeIsSound`, `FilesAreKept`, `RequestsReachTheirFile` |
| `ffs_hash_race` | a game and ES, 3 handles, no `#` open while a change of the mode is queued | | finding: `HashIsReal` fails |
| `dip_drive` | 3 images (single layer, dual layer, GameCube), offsets 0 and 1 | 567 k | `ModeHasImage`, `DiscIsReachable`, `TitleKeepsDrive` |
| `ios_reload` | 3 images, one folder | 3.5 M | `GameKeepsSetup`, `NeverAnotherImage` |
| `ehci_disk` | 2 disks, 2 attempts, 2 chunks, one client and the watchdog; transfers of 5 lengths at 3 alignments, 2 mishaps | 151 k | `OnlyHomeDisk`, `RequestIsWhole`, `WatchdogAlive`, `RequestEnds`; `ChainIsTransfer`, `TransferIsOwn`, `PortInitEnds` |
| `ehci_replug_wedge` | 2 disks, one client | | finding: `ReplugResumes` fails |

Every property of a passing run has a mutant in `PROJECT.json` that violates it.

**Why the bounds are enough.** `TokMod = 2` is the smallest modulus the code's
argument allows (two consecutive waits differ) and the hardest: every second token
repeats; the proofs cover every modulus. `MaxOwed = 2` lets two lost replies pile up
before a third exchange. In `watch_sync` three addresses over a capacity of two reach
the limit; sequence numbers modulo 4 wrap within a run; one round makes the
rounds run out; three attempts are the code's. In `chain_walk` a 2-bit byte keeps
four bytes per word, and 256 addresses hold both banks, the hole and the wrap (an operand of `Word - 3` is an offset
of -3); three
walks are what "the value of the walk before" and "the last different value" need; the
budget has room for fewer slots than are shipped, so the window has to rotate (in the code
8191-20-6144-528 bytes are left: 1499, always at least the five the model keeps free).
In `disc_storage` fragments cross an index chunk and requests cross all of them; the blocks
of a WBFS disc lie next to each other, apart, in another order, or are missing, and its sectors
are the device's, larger or smaller; two attempts
have a first and a repeated one; two pieces of two parts have every boundary there is.
In `nand_volume` four clusters are too few for all files, two entries fill a sector of
the allocation table and the root, so that chains, the directory's stretch and the full
volume all happen; three changing requests write a file, remove another and use its clusters.
In `ehci_disk` two attempts have a first and a last, and two chunks a boundary; a page of
four bytes with two-byte packets has transfers that fill a qTD, begin inside a page, end in a
short packet, or need several qTDs. With two clients (952 k states) the safety
properties of the loop hold as well.

**CHECK_DEADLOCK FALSE** in `RaThread.cfg`: without a game the thread waits for
ever, by design; in `ChainWalk.cfg`: the walks are bounded by `MaxWalks`; in
`NandEmu.cfg`: the changing requests are bounded by `MaxChanges`.

**Fairness.** `UsbLink`: the thread runs, an armed timer fires, a plugged adapter
takes and answers requests (weak); the poll loop reaps on every frame whatever it does
between (strong). Nothing forces a transfer to fail or a cable to move, and
the reaping of posts is asked only once these have stopped (`Healthy`). `WatchSync`: the thread's
next step and the adapter's (weak), and what can succeed again and again does so
sometimes (strong), for a link that is slow now and then, not always. `RaThread`: time
passes and the thread runs. `EhciLoop`: the thread runs (weak); a disk that stays in
its socket is opened, and each of its chunks read, in the end (strong). `EhciHost`: driver and
controller run (weak), mishaps are bounded. `UsbModule`: its thread runs and IOS answers
its requests (weak).

## 4. What is proved

Each proof module takes one component or two, and for every value of the constants that their
`ASSUME`s allow, not for the small instances of the runs. The named assumptions are what the
proofs rest on besides the model; TLC evaluates them in the runs.

| theorem | states that in every reachable state (or step) |
|---|---|
| **`UsbLinkProofs`** (`TokAssumption`: two consecutive waits have different tokens; `EnvAssumption`: types) | |
| `TypeCorrect` | the link is well typed |
| `ReplyAttribution` | `ReplyAnswersRequest`: an OK comes with the reply to its own request, unless some read failed before |
| `NoOrphans` | `NoOrphanCompletion` |
| `PostKept` | `PostNotLost` |
| `QueueBound` | `QueueNeverFull` |
| `TimeoutIsOwn` | `TimesOutOnOwnTimer`, an action property |
| `LinkRefinesRequestReply` | `AlternatesRequestReply`, the refinement of `RequestReply` |
| **`WatchSyncProofs`** (`SessionAssumption`: at least three sequence numbers) | |
| `SessionInvariant` | the invariant below: the replicas differ by the last mutation at most |
| `VerifiedSnapshotsAlign` | `VerifiedMeansAligned` |
| `AnswersMatch` | `AnswerMatchesQuery` |
| **`RaThreadProofs`** (`PollAssumption`, `ChunkAssumption`) | |
| `LinkIsLeftAlone` | `SilentWithoutGame` |
| `CelebrationsAreWhole` | `CelebrationIsWhole` |
| `ListsAreKept` | `ListsAreAdapters` |
| **`ChainWalkProofs`** (`OpsAssumption`, `PowerAssumption`, `ChainAssumption`: parents come first, a slot fits in the room left) | |
| `GuardExact`, `ArithmeticExact` | `GuardIsExact`, `ArithmeticIsExact`: the guard and the arithmetic, for every word, width of a byte and memory map |
| `OperatorsExact` | `OperatorsAreExact`, the two together |
| `WalksAreMeant` | `WalkIsMeant` |
| `WindowComesRound` | `WindowRotates` |
| `DeltasAreEvaluators` | `DeltaIsEvaluators` |
| **`StorageProofs`** (`SdAssumption`, `UsbAssumption`, `FatFsAssumption`, `NandAssumption`; `FragAssumption`, `ReadAssumption`: lists are well formed, reads end before the index table does; `WbfsAssumption`: a partition's sector is whole sectors of its device, or refused) | |
| `DescriptorsAreBalanced`, `SectorsAreRight` | `HandlesBalanced`, `SectorIsRight` |
| `PiecesStayWhole` | `PiecesAreWhole` |
| `RequestsReachTheirFiles` | `RequestsReachTheirFile`, for as many descriptors as `MAX_FAT_FD` (see section 5 for one more) |
| `ReadsAreImage` | `ReadsTheImage`, for every list, read and geometry |
| `ReadsAreTheDisc` | `ReadsTheDisc`, for every partition, table of blocks, ratio and geometry |
| **`IosReloadProofs`** (`DipAssumption`, `ReloadAssumption`) | |
| `ModesAreBacked`, `DiscsAreReachable` | `ModeHasImage`, `DiscIsReachable` |
| `TitlesKeepTheirDrive` | `TitleKeepsDrive`, an action property |
| `NeverAnother`, `GamesKeepTheirSetup` | `NeverAnotherImage`, `GameKeepsSetup` |
| **`EhciProofs`** (`UmsAssumption`; `HostAssumption`: a packet fits one qTD) | |
| `WritesStayHome`, `RequestsAreWhole`, `WatchdogStaysAlive` | `OnlyHomeDisk`, `RequestIsWhole`, `WatchdogAlive` |
| `TransfersAreOwn`, `TransfersAreWhole` | `TransferIsOwn`, `ChainIsTransfer` |

None of these properties is inductive alone. What makes them so:

- **UsbLink** (`IInv`). That no completion is an orphan needs `WireInv` (each half of the exchange is
  in exactly one place: with the kernel, in the queue, or recorded in `xs`), which needs `ClientInv`
  (a waiting thread has an exchange on the wire; a posted exchange keeps its slot). The bound of the
  queue needs `UniqueInv` (one OUT, one IN, one current and one old token at most), which needs
  `TokenInv`: an old token can only be the *first* message, because a wait ends with either its
  token read or its timer destroyed, so two old tokens never meet, and the current wait never shares
  its number. Reply attribution needs `OwedInv`: until a read fails, the adapter owes at most the
  reply to the exchange on the wire, and a read is posted for it. `PutStep`, `FinishStep`,
  `LoseStep` and `FailedPostStep` map the link's steps to `RequestReply`'s.
- **WatchSync** (`IInv`). `SeqInv`: the console has taken every mutation or all but the last, so two
  equal numbers never mean different lists while the modulus is at least 3. `QueueOK`: mutations in
  the receive buffer are the last one or were taken already. `ListInv` gives the lists in each of
  these cases, and what the console's list becomes once queried addresses have joined it;
  `LosslessInv` and `SilentInv` are what a link that loses nothing, or an adapter that asks nothing,
  adds.
- **RaThread.** `GameInv` relates the counted changes to the frames since the loader cleared the
  counter; `ShowInv` makes LED, flag and pulses functions of the countdown; `ListInv` says that the
  lists being filled are the chunks fetched so far, in order (`Prefix`), whatever came between.
- **ChainWalk** (`IInv`). The window: `age + Ahead < Len(ship)`, for every slot the fires since it was
  sent and those until it is sent again; a cursor that advances by at least one slot lowers one as
  it raises the other. The deltas: `DeltaInv`, the values of the last two walks are still in
  the nodes. The meaning: `HistoryInv` says that *some* assignment of values to the nodes of the
  history `Obeys` the evaluator's rules and that the arrays `Hold` its last walk. One more walk
  extends that assignment by one row (`Obeys` looks backwards only), and any two assignments that
  obey the rules are equal, `Meaning` being one, so the arrays hold `Meaning`. The arithmetic: a word
  is the sum of its bits (`SumOfBits`) and bit `j` of a sum of bits is the `j`-th of them
  (`BitOfSum`), because the bits below add up to less than `2^j` (`BitSumBound`) and those above to a
  multiple of `2^(j+1)` (`Above`); sums over four bytes do not depend on their order (`SumMirrored`).
- **SdCard** (`SdInv`), per module: `DescriptorOK` (a descriptor is held exactly if the driver is started,
  with the exceptions inside a start), `HomeOK` (a started driver knows the card in the slot and its
  kind), `CallOK` (what a call in progress has sent and moved). **UsbModule** (`UsbInv`): `ClientOK`, `AskedOK`
  and `WorkOK` say which parts are in place while a piece is with the client, in the queue, or in the thread's hands.
- **NandEmu** (`NandInv`). `TableInv`: the plugin's table is exactly the open emulated files, and there
  are none without emulation. `DeviceInv`: while the FATFS object is another device's, no path
  leads to it and no FIL object is valid, so every request is `Untouched`: refused without a disk access.
- **FragRead**. The state does nothing; the work is in the operators. Of one turn of the loop (`GetFinds`,
  `RunIs`): sparse sectors up to the run found, then the run, provided no fragment before the one the search
  starts at reaches the offset (`Reached`), which is what the index table guarantees (`IndexReaches`).
  `ReadSectIs` is the induction over what is left of the loop; `Progress` relates a read under way to
  the first bytes of the answer across the leading part, the whole sectors and the tail.
- **Wbfs** (`WbfsInv`). `ServedOK`: what the plugin has open is an entry of the partition open at that
  server, and the shared ratio is that partition's, since whoever opened last set it. Then, for a read
  in progress, `Reading`: the first bytes of the answer are there, and the current sector of the
  current block is where the next byte is, or the block has no data. `GetStep` extends it by any
  sectors of one block; start, whole sectors and tail are each one such step (`OneTurn`: the loop
  takes one turn at most).
- **DipDrive** (`DipInv`): besides types and `ModeHasImage`, that a type once found is that of
  the disc identified (`TypeIsKnown`). **IosReload** (`IInv`): at each step of a reload what each of the three
  files may hold, and of whom: `UserInv` (who is up, and that files belong to the reload under way),
  `EmulationInv` (a saved mode has its list and device), `OwnInv` (a list in use or on the flash is
  the home image's or none), `KeptInv` (without a fault, what was set up is what was saved).
- **EhciLoop** (`IInv`): `DiskInv`: while a disk is in use, `old_udd` is the home disk and
  `handshake_mode` is 0 outside a probe; if the addressed port holds another disk the thread is on
  its way to the unplug procedure. `ChunksInv`: the chunks before the current one were exchanged with home. `QueueInv`: nothing
  is asked of a disk before the first open. **EhciHost** (`HostInv`): `OwnInv` ties the interrupt bit to the
  transfer on the schedule, `IdleInv` and `BusyInv` say in which of drive, driver and queue head
  the current toggle is.

The proof of each invariant has one lemma per action or group of actions, and one step per part
that the action can disturb. `InductionLemmas` has what the proofs need of recursive functions
and folds. The library's induction theorems take an operator, which these provers cannot instantiate;
here the numbers with the property are a *set*, and induction over it (`SetInduction`)
follows from the least element of its complement.

**Only model-checked**:

- all liveness (`EveryCallReturns`, `SyncRecurs`, `KeepsFiring`, `ListCatchesUp`, `CallsEnd`,
  `RequestEnds`, `PortInitEnds`): the prover handles neither fairness nor ENABLED;
- `VolumeIsSound` and `FilesAreKept`: about the folds of FatFs over chains and directories, cut
  short at any access;
- the runs that expect a violation.

## 5. Findings

1. `watch_sync_wedge`: main.c:1761 says that after a failed fetch the adapter sees
   the old number and asks again. If the diagnostic message at main.c:868 times out,
   it keeps the wire busy; nothing later in a fire drains it, and every snapshot is
   refused.
2. `ffs_hash_race`: iop.c:77 says that `#` paths always go to the real flash. The flag
   that says so is taken by whichever open the file-system thread handles next: with
   emulation on, a game's open is queued, ES's `#` open raises the flag, the game's open is
   served on the real flash and clears it, and ES's is then emulated.
3. `ehci_replug_wedge`: a request whose disk was lost waits for it in a loop, and
   the disk is mounted again when it is back. If one transfer of that mount fails,
   `__usbfd` is cleared and `unplug_procedure` has nothing left to try, for ever; with
   the request, the thread that serves every client.

Other places where code and comment, or code and expectation, part; they appear in the
models as they are and the properties are stated around them:

- `g_dead` is never cleared: a link that died stays dead after a replug (usb_link.c:272-276).
- A late answer to an earlier ADDR_RESPONSE may be taken for the next query's (main.c:1741);
  `AnswerMatchesQuery` therefore excludes timeouts.
- After overlapping unlocks trophy and LED are no longer in step (main.c:2086).
- The walk of a snapshot that the link then refuses is never evaluated, and the next
  delta is relative to it (main.c:1652); a skipped comparison is not sent as zero (main.c:1630).
- `idx_off > MAX_IDX` lets index `MAX_IDX` through (frag.c:92); the model stays below it.
- The FAT module keeps the folder it was told first (ffs-plugin fat.c:101).
- The `#` flag is computed from the mode at the time of the call (iop.c:96): a `#` open sent
  while a switch to emulation is still queued is emulated after it. `ModeSettled` leaves
  this out, so that `ffs_hash_race` shows the flag being taken.
- Emulated files that are open when emulation is switched lose their server: switching on
  empties the table (plugin.c:166), switching off ignores it.
- A dual-layer image selected without a reset of the drive may be taken for a
  single-layer one (dip-plugin plugin.c:141); `DiscIsReachable` says after which sequences it is not.
- A fragment list is not saved when the CRYPT or DVDROM bits are set (config.c:141),
  and WBFS mixed with a list is lost on a reload (plugin.c:502): `home.plain`.
- After a power loss a stale `esp.cfg` is read by the next boot (es-plugin plugin.c:235).
- EHCI: a failed status of a read or write is never looked at
  (`retval > 0 && status != 0` in `__USBStorage_Read`); a sector that always fails makes
  its request loop for ever; a missing disk blocks SD requests of the same thread;
  the watchdog is not restarted when memory is short (loop.c:297); the loop over
  addresses in `ehci_init_port` never counts (ehci.c:980), so a disk pulled out inside it
  keeps the thread there; `qh_end_transfer` follows a null pointer on an error (ehci.c:375);
  after a wait that failed, the next call may take the late interrupt bit for its own
  (ehci.c:633).
- WBFS: the limit that should keep a read inside a block ("dont cross wbfs sectors..",
  libwbfs.c:271) compares sectors with bytes and never takes effect; `ReadsTheDisc` leaves out
  reads whose whole sectors are of two blocks. When a partition is not found again, `disc` stays
  behind, closed; the next open closes it twice (ehci-module wbfs.c:77).
- SD: the sector is multiplied by 512 inside the retry loop (sdio.c:639, 672): a repeated command
  on a card that is not SDHC goes elsewhere. A started driver never looks at a card again
  (sdio.c:584); a failed read counts as a success for the DIP plugin (sdhc.c:77).
- USB module: a capacity that cannot be read is answered by 1, which `usbstorage_Init` takes for a
  disk (main.c:101, cios-lib usbstorage.c:142); a command that failed between two parts of its
  data is sent again whole for the rest of the buffer (usbstorage.c:232); after an unmount the
  remembered disk is taken for mounted with a closed handle (usbglue.c:91).
- NAND emulation: FS_Rename deletes the destination before it knows that the source exists
  (ffs-plugin plugin.c:568); the 21st open emulated file is not entered in the table
  (plugin.c:262). FatFs: a directory's new cluster is linked before it is cleared
  (ff.c:1118), renaming has a critical section (ff.c:3435), and a failed sync has already
  cleared FA__WRITTEN (ff.c:2597).

## 6. Properties, by component

- **link**: a reply reaches the call it answers; nothing is left over in the queue; a
  timeout is one's own; a posted result survives other calls; every call returns.
- **session**: a verified snapshot is aligned, position by position; answers match queries;
  replicas differ by one mutation at most; verified snapshots recur.
- **thread, fetches**: silence without a game; accepted lists are the adapter's; the thread reaches
  its loop and keeps firing; celebrations end dark and complete.
- **walker**: in-place arrays mean what the evaluator's history means; guard and arithmetic are
  exact; snapshots fit and the window comes round.
- **drive, reload**: a mode has its image; a title keeps its drive; over reloads a game keeps image,
  folder and block; it never sees another game's image, whatever fails.
- **NAND emulation**: wherever the device stops, the volume is sound and closed files keep their
  contents; users read what they wrote; no cluster is lost while nothing is cut short; requests
  reach the file, and the device, they were made for.
- **disc images**: a read is the image's bytes or fails, over fragments, WBFS blocks, SD sectors and
  the pieces of a USB transfer; descriptors balance; the list of disks catches up; calls end.
- **USB disk**: no other disk is written; a request is whole; the watchdog lives; requests end; a
  chain of qTDs is its transfer; a success is about one's own transfer; a port's bring-up ends.

## 7. Plan

1. *Proofs*: lemmas of `FatFs` (a chain that is freed leaves the others alone) towards `VolumeIsSound`.
2. *Composition*: `DipDrive`'s reads over `FragRead` and `Wbfs`; `EhciHost` below `UmsDisk`, as a
   refinement of its one-step transfers.
3. *More code*: plain USB requests of the EHCI loop (loop.c:93-146); `DI_ReadDvd`'s loop.

## 8. Not modelled

- `mload-module`: loads modules and patches system calls; it is register and memory writes, and its
  flags appear where plugins test them.
- The EXI link and the old LED diagnostics are compiled out of the default build; `usbprobe.c` is a
  measurement build that replaces the poll thread.
- The patches of IOS binaries are data; `cios-lib`'s runtime is thin calls; `stripios` is a build tool.
- `libwbfs.c` beyond opening and reading, `wiidisc.c` and `rijndael.c` are called by no module.
- FatFs: functions the build leaves out, FAT32's information sector, time stamps, the second copy of the
  allocation table, a disk that fails once and then works, renames of directories.
- EHCI: several hubs and interfaces, the toggles of control messages, and `USB_ClearHalt` on bulk
  endpoints, which does not reset the driver's toggles (usbstorage.c:607, 616).
- USB module: a second unit of a disk, exhausted memory, and an IOS of the wrong version (`USB_Init`
  then goes on with a null host).
- Wording, logging and path escaping are left out throughout.
