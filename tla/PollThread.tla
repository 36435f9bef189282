----------------------------- MODULE PollThread -----------------------------
(***************************************************************************)
(* ra_poll_thread (source/ra-module/main.c): the life of the poll thread   *)
(* from the wait for a game to the fires of the main loop, the frame       *)
(* counter it is paced by, and the celebration of an unlock on the         *)
(* disc-slot LED and on the trophy flag the game's overlay hook reads.     *)
(* What a fire does to the link is the business of WatchSync; here a fire  *)
(* may bring an unlock.                                                    *)
(*                                                                         *)
(* The game is external: the loader clears the counter once before the     *)
(* game runs, and the hook of a running game counts its frames.            *)
(***************************************************************************)
EXTENDS Naturals

CONSTANTS
    MaxFrames,     \* bound: game frames counted
    Residue,       \* what the counter may hold before the loader clears it
    AliveChanges,  \* changes of the counter that prove a game (4)
    InitTries,     \* attempts to find the adapter (30)
    IdentifyTries, \* IDENTIFY attempts (10)
    Phase,         \* fires per LED phase (9)
    Pulses,        \* LED pulses of a celebration (3)
    Fallback       \* frame times without a frame before a fire (2)

ASSUME PollAssumption ==
    /\ MaxFrames \in Nat
    /\ Residue \in SUBSET Nat
    /\ AliveChanges \in Nat \ {0, 1}
    /\ InitTries \in Nat \ {0}
    /\ IdentifyTries \in Nat \ {0}
    /\ Phase \in Nat \ {0}
    /\ Pulses \in Nat \ {0}
    /\ Fallback \in Nat

VARIABLES
    counter,   \* the word at RA_VBI_COUNTER_PHYS
    cleared,   \* has the loader cleared it?
    frames,    \* frames the game's hook has counted
    pc,        \* where the poll thread is
    last,      \* the counter value it saw last (prev, then last_ctr)
    changes,   \* changes it has seen while waiting for a game
    tries,     \* attempts of the step it is in
    up,        \* has ra_usb_init succeeded?
    present,   \* esp_present
    list,      \* has the watchlist come?
    traffic,   \* has the thread used the link?
    elapsed,   \* frame times since the last fire
    cel,       \* ra_led_celebrate
    led,       \* the disc-slot LED
    flag,      \* the word at RA_TROPHY_FLAG_PHYS
    blinks     \* trophy pulses begun since the last unlock

game == <<counter, cleared, frames>>
boot == <<changes, tries, up, present, list, traffic>>
show == <<cel, led, flag, blinks>>
pollVars == <<counter, cleared, frames, pc, last, changes, tries, up, present,
              list, traffic, elapsed, cel, led, flag, blinks>>

(* mutant: an unlock during a celebration does not restart it *)
StartIfIdle == IF cel > 0 THEN cel ELSE 2 * Phase * Pulses

Start == 2 * Phase * Pulses  \* 54

PollInit ==
    /\ counter \in Residue
    /\ cleared = FALSE /\ frames = 0
    /\ pc = "main" /\ last = counter
    /\ changes = 0 /\ tries = 0
    /\ up = FALSE /\ present = FALSE /\ list = FALSE
    /\ traffic = FALSE
    /\ elapsed = 0
    /\ cel = 0 /\ led = FALSE /\ flag = 0
    /\ blinks = Pulses

-----------------------------------------------------------------------------
(* The loader clears the counter, the running game counts frames. *)
LoaderClears ==
    /\ ~cleared
    /\ cleared' = TRUE
    /\ counter' = 0
    /\ UNCHANGED <<frames, pc, last, boot, elapsed, show>>

GameFrame ==
    /\ cleared
    /\ frames < MaxFrames
    /\ frames' = frames + 1
    /\ counter' = counter + 1
    /\ UNCHANGED <<cleared, pc, last, boot, elapsed, show>>

TimePasses ==
    /\ elapsed <= Fallback
    /\ elapsed' = elapsed + 1
    /\ UNCHANGED <<game, pc, last, boot, show>>

-----------------------------------------------------------------------------
(* The module's main creates the thread, which may fail (it then only      *)
(* answers IPC), whether or not its own set-up succeeded.                  *)
main ==
    /\ pc = "main"
    /\ pc' \in {"alive", "ipc only"}
    /\ last' = counter
    /\ UNCHANGED <<game, boot, elapsed, show>>

(***************************************************************************)
(* The wait for a game: the counter is sampled every 50 ms, for ever.      *)
(***************************************************************************)
(* mutant: one change is taken for a game *)
SampleOnce ==
    /\ pc = "alive"
    /\ counter # last
    /\ last' = counter
    /\ pc' = "init"
    /\ UNCHANGED <<game, boot, elapsed, show>>

Sample ==
    /\ pc = "alive"
    /\ counter # last
    /\ last' = counter
    /\ changes' = changes + 1
    /\ pc' = IF changes' < AliveChanges THEN "alive" ELSE "init"
    /\ UNCHANGED <<game, tries, up, present, list, traffic, elapsed, show>>

(***************************************************************************)
(* The adapter is looked for, then IDENTIFY is sent until it answers; both *)
(* give up and go on.                                                      *)
(***************************************************************************)
Try(step, limit, next, done) ==
    /\ pc = step
    /\ traffic' = TRUE
    /\ tries' = IF done \/ tries + 1 = limit THEN 0 ELSE tries + 1
    /\ pc' = IF tries' = 0 THEN next ELSE step

FindAdapter ==
    \E ok \in BOOLEAN :
        /\ Try("init", InitTries, "identify", ok)
        /\ up' = ok
        /\ UNCHANGED <<game, last, changes, present, list, elapsed, show>>

(* What IDENTIFY is answered by: nothing, another magic, another device.   *)
Answers == IF up THEN {"none", "garbled", "stranger", "adapter"} ELSE {"none"}

(* Only the adapter's own device number makes it present. *)
ra_identify(reply) == reply = "adapter"

Identify ==
    \E reply \in Answers :
        /\ Try("identify", IdentifyTries, "fetch", ra_identify(reply))
        /\ present' = ra_identify(reply)
        /\ UNCHANGED <<game, last, changes, up, list, elapsed, show>>

(* The watchlist (and, if it came, the chain table) has been fetched; the *)
(* main loop starts from the counter as it is then.                       *)
Fetched(ok) ==
    /\ pc = "fetch"
    /\ traffic' = TRUE
    /\ list' = ok
    /\ pc' = "loop"
    /\ last' = counter
    /\ elapsed' = 0
    /\ UNCHANGED <<game, changes, tries, up, present, show>>

-----------------------------------------------------------------------------
(***************************************************************************)
(* The main loop fires on a new frame, or on time when no frame comes.  A  *)
(* reply may announce an unlock; the celebration is stepped once per fire, *)
(* after the exchanges.                                                    *)
(***************************************************************************)
LedPhase(c) == IF c % Phase = 0 THEN (c \div Phase) % 2 = 1 ELSE led

TrophyPhase(c) == ((c + Phase - 1) \div Phase) % 2

Celebrate(c) ==
    IF c = 0 THEN UNCHANGED <<cel, led, flag>>
    ELSE /\ cel' = c - 1
         /\ led' = LedPhase(c - 1)
         /\ flag' = TrophyPhase(c - 1)

(* mutant: no fallback *)
DueOnFramesOnly == counter # last

Due == counter # last \/ elapsed > Fallback

Fire ==
    /\ pc = "loop"
    /\ Due
    /\ last' = counter
    /\ elapsed' = 0
    /\ \E unlocked \in IF up THEN BOOLEAN ELSE {FALSE} :
         /\ Celebrate(IF unlocked THEN Start ELSE cel)
         /\ blinks' = (IF unlocked THEN 0 ELSE blinks)
                      + (IF flag' > (IF unlocked THEN 0 ELSE flag) THEN 1 ELSE 0)
    /\ UNCHANGED <<game, pc, boot>>

(* Everything but the fetch of the lists, whose chunks are ChunkFetch's. *)
BringUp == main \/ Sample \/ FindAdapter \/ Identify

-----------------------------------------------------------------------------
(* The link is not touched before a game runs: clearing a stale counter    *)
(* alone, on a console that hosts no game, never starts the thread's       *)
(* traffic (ra_poll_thread: "the module must stay SILENT FOREVER").        *)
SilentWithoutGame == traffic => frames >= AliveChanges - 1

(* An unlock shows its full row of trophy pulses, also when it interrupts  *)
(* the celebration of another, and leaves nothing behind: once the         *)
(* countdown is over the LED is off and the overlay flag clear.            *)
CelebrationIsWhole == cel = 0 => blinks = Pulses /\ ~led /\ flag = 0

(* Once a game runs the thread reaches its main loop, whatever is missing  *)
(* (the retries of the bring-up are bounded), and the loop never stops     *)
(* firing (a fire restarts the clock), also while the game counts no       *)
(* frames: loading screens, a hook that is gone.                           *)
KeepsFiring ==
    /\ pc = "init" ~> pc = "loop"
    /\ (pc = "loop" /\ elapsed > 0) ~> elapsed = 0
=============================================================================
