--------------------------- MODULE RaThreadProofs ---------------------------
(***************************************************************************)
(* Proofs about RaThread, PollThread and ChunkFetch, for any number of     *)
(* frames, attempts, LED phases and pulses, and any lists of the adapter.  *)
(***************************************************************************)
EXTENDS RaThread, InductionLemmas

Spec == Init /\ [][Next]_vars

-----------------------------------------------------------------------------
(* The wait for a game. *)

Waiting == {"main", "alive", "ipc only"}
Places == Waiting \cup {"init", "identify", "fetch", "loop"}

GameTypeOK ==
    /\ counter \in Nat /\ frames \in Nat /\ last \in Nat /\ changes \in Nat
    /\ cleared \in BOOLEAN /\ traffic \in BOOLEAN
    /\ pc \in Places

(* Before the loader clears the counter nothing changes.  After that, each *)
(* change but the first was a frame.                                       *)
GameInv ==
    /\ ~cleared => frames = 0 /\ pc \in Waiting /\ changes = 0 /\ last = counter
    /\ cleared => counter = frames
    /\ cleared /\ changes > 0 => last <= frames /\ changes <= last + 1
    /\ pc \notin Waiting => changes >= AliveChanges \/ frames >= AliveChanges - 1
    /\ traffic => pc \notin Waiting

(* What a step of the thread and its game is, whatever the lists do. *)
PollStep ==
    \/ LoaderClears \/ GameFrame \/ TimePasses \/ main \/ Sample
    \/ FindAdapter \/ Identify
    \/ \E ok \in BOOLEAN : Fetched(ok)
    \/ Fire

LEMMA StepOfPoll == [Next]_vars => PollStep \/ UNCHANGED pollVars
<1>1. (outcome = "ok") \in BOOLEAN
  OBVIOUS
<1>2. FetchEnds => \E ok \in BOOLEAN : Fetched(ok)
  BY <1>1, Zenon DEF FetchEnds
<1>3. QED
  BY <1>2, Zenon DEF Next, vars, Environment, BringUp, Chunk, FireAlone, FireResyncs, PollStep

LEMMA GameNumbers ==
    /\ AliveChanges \in Nat /\ AliveChanges >= 2
    /\ Phase \in Nat /\ Phase >= 1
    /\ Pulses \in Nat /\ Pulses >= 1
<1>1. AliveChanges \in Nat \ {0, 1} /\ Phase \in Nat \ {0} /\ Pulses \in Nat \ {0}
  BY PollAssumption
<1>2. QED
  BY <1>1

LEMMA GameStart == Init => GameTypeOK /\ GameInv
<1>1. SUFFICES ASSUME Init PROVE GameTypeOK /\ GameInv
  OBVIOUS
<1>2. counter \in Residue /\ Residue \in SUBSET Nat
  BY <1>1, PollAssumption DEF Init, PollInit
<1>3. counter \in Nat
  BY <1>2
<1>4. /\ ~cleared /\ cleared \in BOOLEAN /\ ~traffic /\ traffic \in BOOLEAN
      /\ frames = 0 /\ changes = 0 /\ last = counter /\ pc = "main"
  BY <1>1 DEF Init, PollInit
<1>5. QED
  BY <1>3, <1>4 DEF GameTypeOK, GameInv, Places, Waiting

LEMMA GameStep == GameTypeOK /\ GameInv /\ [Next]_vars => GameTypeOK' /\ GameInv'
<1> SUFFICES ASSUME GameTypeOK, GameInv, [Next]_vars PROVE GameTypeOK' /\ GameInv'
  OBVIOUS
<1> USE DEF game, boot, show
<1>0. /\ counter \in Nat /\ frames \in Nat /\ last \in Nat /\ changes \in Nat
      /\ AliveChanges \in Nat /\ AliveChanges >= 2
  BY GameNumbers DEF GameTypeOK
<1>1. CASE LoaderClears
  <2>1. GameTypeOK'
    BY <1>1 DEF LoaderClears, GameTypeOK
  <2>2. /\ ~cleared /\ cleared' /\ counter' = 0
        /\ UNCHANGED <<frames, pc, last, changes, traffic>>
    BY <1>1 DEF LoaderClears
  <2>3. frames = 0 /\ changes = 0
    BY <2>2 DEF GameInv
  <2>4. GameInv!1' /\ GameInv!2' /\ GameInv!3'
    BY <2>2, <2>3 DEF GameInv
  <2>5. GameInv!4' /\ GameInv!5'
    BY <2>2 DEF GameInv
  <2>6. QED
    BY <2>1, <2>4, <2>5 DEF GameInv
<1>2. CASE GameFrame
  <2>1. GameTypeOK'
    BY <1>2 DEF GameFrame, GameTypeOK
  <2>2. /\ cleared /\ cleared' /\ frames' = frames + 1 /\ counter' = counter + 1
        /\ UNCHANGED <<pc, last, changes, traffic>>
    BY <1>2 DEF GameFrame
  <2>3. GameInv!1' /\ GameInv!2' /\ GameInv!3'
    BY <1>0, <2>2 DEF GameInv
  <2>4. GameInv!4' /\ GameInv!5'
    BY <1>0, <2>2 DEF GameInv
  <2>5. QED
    BY <2>1, <2>3, <2>4 DEF GameInv
<1>3. CASE TimePasses
  BY <1>3 DEF TimePasses, GameTypeOK, GameInv
<1>4. CASE main
  <2>1. /\ pc = "main" /\ pc' \in Waiting /\ last' = counter
        /\ UNCHANGED <<counter, cleared, frames, changes, traffic>>
    BY <1>4 DEF main, Waiting
  <2>2. GameTypeOK'
    BY <1>0, <2>1 DEF GameTypeOK, Places
  <2>3. pc \in Waiting
    BY <2>1 DEF Waiting
  <2>4. GameInv!1' /\ GameInv!2' /\ GameInv!3'
    BY <1>0, <2>1 DEF GameInv
  <2>5. GameInv!4' /\ GameInv!5'
    BY <2>1, <2>3 DEF GameInv
  <2>6. QED
    BY <2>2, <2>4, <2>5 DEF GameInv
<1>5. CASE Sample
  <2>1. /\ pc = "alive" /\ counter # last /\ last' = counter /\ changes' = changes + 1
        /\ UNCHANGED <<counter, cleared, frames, traffic>>
        /\ pc' = IF changes' < AliveChanges THEN "alive" ELSE "init"
    BY <1>5 DEF Sample
  <2>2. cleared /\ counter = frames /\ ~traffic
    BY <2>1 DEF GameInv, Waiting
  <2>3. GameTypeOK'
    BY <1>0, <2>1 DEF GameTypeOK, Places, Waiting
  <2>4. changes' <= frames + 1
    <3>1. CASE changes = 0
      BY <1>0, <2>1, <3>1
    <3>2. CASE changes # 0
      <4>1. last <= frames /\ changes <= last + 1
        BY <1>0, <2>2, <3>2 DEF GameInv
      <4>2. QED
        BY <1>0, <2>1, <2>2, <4>1
    <3>3. QED
      BY <3>1, <3>2
  <2>5. GameInv!1' /\ GameInv!2' /\ GameInv!3'
    BY <1>0, <2>1, <2>2, <2>4
  <2>6. GameInv!4' /\ GameInv!5'
    <3>1. pc' \notin Waiting => changes' >= AliveChanges
      BY <1>0, <2>1 DEF Waiting
    <3>2. QED
      BY <2>1, <2>2, <3>1
  <2>7. QED
    BY <2>3, <2>5, <2>6 DEF GameInv
<1>6. ASSUME pc \notin Waiting, pc' \in Places \ Waiting, traffic' \in BOOLEAN,
             last' \in {last, counter}, UNCHANGED <<counter, cleared, frames, changes>>
      PROVE  GameTypeOK' /\ GameInv'
  <2>1. GameTypeOK'
    BY <1>0, <1>6 DEF GameTypeOK
  <2>2. cleared
    BY <1>6 DEF GameInv
  <2>3. GameInv!1' /\ GameInv!2'
    BY <1>6, <2>2 DEF GameInv
  <2>6. GameInv!3'
    <3>1. SUFFICES ASSUME changes > 0 PROVE last' <= frames /\ changes <= last' + 1
      BY <1>6
    <3>2. counter = frames /\ last <= frames /\ changes <= last + 1
      BY <2>2, <3>1 DEF GameInv
    <3>3. last' = last \/ last' = counter
      BY <1>6
    <3>4. QED
      BY <1>0, <3>2, <3>3
  <2>4. GameInv!4' /\ GameInv!5'
    BY <1>6 DEF GameInv
  <2>5. QED
    BY <2>1, <2>3, <2>4, <2>6 DEF GameInv
<1>7. CASE FindAdapter
  <2>1. /\ pc = "init" /\ pc' \in {"init", "identify"} /\ traffic'
        /\ UNCHANGED <<counter, cleared, frames, last, changes>>
    BY <1>7 DEF FindAdapter, Try
  <2>2. QED
    BY <1>6, <2>1 DEF Places, Waiting
<1>8. CASE Identify
  <2>1. /\ pc = "identify" /\ pc' \in {"identify", "fetch"} /\ traffic'
        /\ UNCHANGED <<counter, cleared, frames, last, changes>>
    BY <1>8 DEF Identify, Try
  <2>2. QED
    BY <1>6, <2>1 DEF Places, Waiting
<1>9. ASSUME NEW ok \in BOOLEAN, Fetched(ok) PROVE GameTypeOK' /\ GameInv'
  <2>1. /\ pc = "fetch" /\ pc' = "loop" /\ traffic' /\ last' = counter
        /\ UNCHANGED <<counter, cleared, frames, changes>>
    BY <1>9 DEF Fetched
  <2>2. QED
    BY <1>6, <2>1 DEF Places, Waiting
<1>10. CASE Fire
  <2>1. /\ pc = "loop" /\ pc' = "loop" /\ last' = counter
        /\ UNCHANGED <<counter, cleared, frames, changes, traffic>>
    BY <1>10 DEF Fire
  <2>2. traffic \in BOOLEAN
    BY DEF GameTypeOK
  <2>3. QED
    BY <1>6, <2>1, <2>2 DEF Places, Waiting
<1>11. CASE UNCHANGED pollVars
  BY <1>11 DEF pollVars, GameTypeOK, GameInv
<1>12. QED
  BY <1>1, <1>2, <1>3, <1>4, <1>5, <1>7, <1>8, <1>9, <1>10, <1>11, StepOfPoll DEF PollStep

(* The wait for a game: what the thread knows of the counter. *)
THEOREM GameIsWaitedFor == Spec => [](GameTypeOK /\ GameInv)
<1>1. QED
  BY GameStart, GameStep, PTL DEF Spec

(* The thread uses the link only once enough frames of a game were counted *)
(* (ra_poll_thread's aliveness check).                                     *)
THEOREM LinkIsLeftAlone == Spec => []SilentWithoutGame
<1>1. ASSUME GameTypeOK, GameInv PROVE SilentWithoutGame
  <2>1. /\ AliveChanges \in Nat /\ AliveChanges >= 2
        /\ frames \in Nat /\ last \in Nat /\ changes \in Nat
    BY <1>1, GameNumbers DEF GameTypeOK
  <2>2. SUFFICES ASSUME traffic PROVE frames >= AliveChanges - 1
    BY DEF SilentWithoutGame
  <2>3. cleared /\ (changes >= AliveChanges \/ frames >= AliveChanges - 1)
    BY <1>1, <2>2 DEF GameInv
  <2>4. CASE changes >= AliveChanges
    <3>1. last <= frames /\ changes <= last + 1
      BY <1>1, <2>1, <2>3, <2>4 DEF GameInv
    <3>2. QED
      BY <2>1, <2>4, <3>1
  <2>5. QED
    BY <2>3, <2>4
<1>2. QED
  BY <1>1, GameIsWaitedFor, PTL

-----------------------------------------------------------------------------
(* Celebrations. *)

ShowTypeOK == cel \in Nat /\ led \in BOOLEAN /\ flag \in {0, 1} /\ blinks \in Nat

(* The phase of the trophy: phases count down from 2 * Pulses, odd ones    *)
(* are lit.                                                                *)
PhaseOf(c) == (c + Phase - 1) \div Phase

(* The pulses of the phases that are over have begun, and the LED follows  *)
(* once the first phase is over.                                           *)
ShowInv ==
    /\ cel <= Start
    /\ flag = PhaseOf(cel) % 2
    /\ blinks + PhaseOf(cel) \div 2 = Pulses
    /\ cel <= Start - Phase => (led <=> PhaseOf(cel) % 2 = 1)

(* One fire further on, the phase is the same one or, at a boundary, the   *)
(* next.                                                                   *)
LEMMA Phases ==
    ASSUME NEW m \in Nat
    PROVE  /\ PhaseOf(m) \in Nat
           /\ PhaseOf(m + 1) = (m \div Phase) + 1
           /\ m % Phase = 0 => PhaseOf(m) = m \div Phase
           /\ m % Phase # 0 => PhaseOf(m) = (m \div Phase) + 1
<1>0. Phase \in Nat \ {0}
  BY GameNumbers
<1>7. PICK q \in Nat, r \in Nat : /\ q = m \div Phase /\ r = m % Phase
                                 /\ m = q * Phase + r /\ r < Phase
  BY <1>0, Remainder
<1>1. r < Phase /\ m = q * Phase + r /\ Phase \in Nat \ {0}
  BY <1>0, <1>7
<1>2. (q + 1) * Phase = q * Phase + Phase /\ q * Phase \in Nat
  BY <1>1
<1>3. PhaseOf(m + 1) = q + 1
  <2>1. m + 1 + Phase - 1 = (q + 1) * Phase + r
    BY <1>1, <1>2
  <2>2. q + 1 \in Nat /\ m + 1 + Phase - 1 \in Nat
    BY <1>1
  <2>3. QED
    BY <1>1, <2>1, <2>2, Division DEF PhaseOf
<1>4. CASE r = 0
  <2>1. m + Phase - 1 = q * Phase + (Phase - 1) /\ m + Phase - 1 \in Nat /\ Phase - 1 \in Nat
    BY <1>1, <1>2, <1>4
  <2>2. PhaseOf(m) = q
    BY <1>1, <2>1, Division DEF PhaseOf
  <2>3. QED
    BY <1>1, <1>3, <1>4, <1>7, <2>2
<1>5. CASE r # 0
  <2>1. m + Phase - 1 = (q + 1) * Phase + (r - 1) /\ m + Phase - 1 \in Nat /\ r - 1 \in Nat
    BY <1>1, <1>2, <1>5
  <2>2. q + 1 \in Nat /\ r - 1 < Phase
    BY <1>1, <1>5
  <2>3. PhaseOf(m) = q + 1
    BY <1>1, <2>1, <2>2, Division DEF PhaseOf
  <2>4. QED
    BY <1>1, <1>3, <1>5, <1>7, <2>3
<1>6. QED
  BY <1>4, <1>5

(* A countdown ends its phases at multiples of their length. *)
LEMMA Boundaries ==
    /\ Start \in Nat /\ Start >= 1 /\ Start - Phase \in Nat /\ Start - Phase < Start
    /\ Start % Phase = 0 /\ PhaseOf(Start) = 2 * Pulses
    /\ (Start - Phase) % Phase = 0
    /\ PhaseOf(0) = 0
<1>1. /\ Phase \in Nat \ {0} /\ Pulses \in Nat \ {0}
      /\ 2 * Pulses \in Nat /\ 2 * Pulses - 1 \in Nat
  BY GameNumbers
<1>2. /\ Start = (2 * Pulses) * Phase + 0
      /\ Start - Phase = (2 * Pulses - 1) * Phase + 0
      /\ Start \in Nat /\ Start - Phase \in Nat
  BY <1>1 DEF Start
<1>3. Start \div Phase = 2 * Pulses /\ Start % Phase = 0
  BY <1>1, <1>2, Division
<1>4. (Start - Phase) % Phase = 0
  BY <1>1, <1>2, Division
<1>5. 0 = 0 * Phase + 0 /\ 0 \div Phase = 0 /\ 0 % Phase = 0
  BY <1>1, Division
<1>6. PhaseOf(Start) = 2 * Pulses /\ PhaseOf(0) = 0
  BY <1>2, <1>3, <1>5, Phases
<1>7. Start >= 1 /\ Start - Phase < Start
  BY <1>1, <1>2
<1>8. QED
  BY <1>2, <1>3, <1>4, <1>6, <1>7

(* A countdown at c with the flag lit or not, and so many pulses begun. *)
ShowAt(c, lit, was) ==
    /\ c <= Start
    /\ lit = PhaseOf(c) % 2
    /\ was + PhaseOf(c) \div 2 = Pulses
    /\ c <= Start - Phase => (led <=> PhaseOf(c) % 2 = 1)

LEMMA Halves ==
    ASSUME NEW q \in Nat
    PROVE  /\ q % 2 \in {0, 1} /\ q \div 2 \in Nat
           /\ q % 2 = 1 => (q + 1) % 2 = 0 /\ (q + 1) \div 2 = q \div 2 + 1
           /\ q % 2 = 0 => (q + 1) % 2 = 1 /\ (q + 1) \div 2 = q \div 2
OBVIOUS

(* A fire counts down from where it is, or from the start. *)
LEMMA ShowOfFire ==
    ASSUME Fire, ShowTypeOK, ShowInv
    PROVE  \E c \in Nat, was \in Nat, lit \in {0, 1} :
               /\ ShowAt(c, lit, was)
               /\ c = 0 => cel = 0 /\ lit = flag /\ was = blinks
               /\ Celebrate(c)
               /\ blinks' = was + (IF flag' > lit THEN 1 ELSE 0)
<1>1. PICK unlocked \in BOOLEAN :
          /\ Celebrate(IF unlocked THEN Start ELSE cel)
          /\ blinks' = (IF unlocked THEN 0 ELSE blinks)
                       + (IF flag' > (IF unlocked THEN 0 ELSE flag) THEN 1 ELSE 0)
  BY Zenon DEF Fire
<1>2. CASE unlocked
  <2>1. Celebrate(Start) /\ blinks' = 0 + (IF flag' > 0 THEN 1 ELSE 0)
    BY <1>1, <1>2
  <2>2. ShowAt(Start, 0, 0)
    <3>1. (2 * Pulses) % 2 = 0 /\ (2 * Pulses) \div 2 = Pulses
      BY GameNumbers
    <3>2. Start <= Start /\ ~ (Start <= Start - Phase)
      BY Boundaries
    <3>3. QED
      BY <3>1, <3>2, Boundaries, GameNumbers DEF ShowAt
  <2>3. Start \in Nat /\ Start # 0
    BY Boundaries
  <2>4. QED
    BY <2>1, <2>2, <2>3
<1>3. CASE ~unlocked
  <2>1. Celebrate(cel) /\ blinks' = blinks + (IF flag' > flag THEN 1 ELSE 0)
    BY <1>1, <1>3
  <2>2. ShowAt(cel, flag, blinks)
    BY DEF ShowInv, ShowAt
  <2>3. QED
    BY <2>1, <2>2 DEF ShowTypeOK
<1>4. QED
  BY <1>2, <1>3

LEMMA ShowFires ==
    ASSUME Fire, ShowTypeOK, ShowInv
    PROVE  ShowTypeOK' /\ ShowInv'
<1>1. PICK c \in Nat, was \in Nat, lit \in {0, 1} :
          /\ ShowAt(c, lit, was)
          /\ c = 0 => cel = 0 /\ lit = flag /\ was = blinks
          /\ Celebrate(c)
          /\ blinks' = was + (IF flag' > lit THEN 1 ELSE 0)
  BY ShowOfFire
<1>2. led \in BOOLEAN /\ flag \in {0, 1} /\ blinks \in Nat
  BY DEF ShowTypeOK
<1>3. CASE c = 0
  <2>1. UNCHANGED <<cel, led, flag>> /\ cel = 0 /\ lit = flag /\ was = blinks
    BY <1>1, <1>3 DEF Celebrate
  <2>2. blinks' = blinks
    BY <1>1, <1>2, <2>1
  <2>3. QED
    BY <2>1, <2>2 DEF ShowTypeOK, ShowInv
<1>4. CASE c # 0
  <2>1. PICK m \in Nat : m = c - 1
    BY <1>4
  <2>2. m + 1 = c /\ m + 1 <= Start
    BY <1>1, <2>1 DEF ShowAt
  <2>3. cel' = m /\ led' = LedPhase(m) /\ flag' = TrophyPhase(m)
    BY <1>1, <1>4, <2>1 DEF Celebrate
  <2>4. flag' = PhaseOf(m) % 2
    BY <2>3 DEF TrophyPhase, PhaseOf
  <2>5. PICK q \in Nat, r \in Nat : q = m \div Phase /\ r = m % Phase
    <3>1. Phase \in Nat \ {0}
      BY GameNumbers
    <3>2. QED
      BY <3>1, Remainder
  <2>6. PhaseOf(m + 1) = q + 1 /\ PhaseOf(m) \in Nat
    BY <2>5, Phases
  <2>7. lit = (q + 1) % 2 /\ was + (q + 1) \div 2 = Pulses
    BY <1>1, <2>2, <2>6 DEF ShowAt
  <2>8. led' \in BOOLEAN
    BY <1>2, <2>3 DEF LedPhase
  <2>9. flag' \in {0, 1}
    BY <2>4, <2>6, Halves
  <2>10. blinks' \in Nat
    BY <1>1
  <2>11. m <= Start
    BY <2>2, Boundaries
  <2>12. CASE r = 0
    <3>1. PhaseOf(m) = q
      BY <2>5, <2>12, Phases
    <3>2. led' = (q % 2 = 1)
      BY <2>3, <2>5, <2>12 DEF LedPhase
    <3>3. blinks' + q \div 2 = Pulses
      <4>1. CASE q % 2 = 1
        BY <1>1, <2>4, <2>7, <3>1, <4>1, Halves, GameNumbers
      <4>2. CASE q % 2 = 0
        BY <1>1, <2>4, <2>7, <3>1, <4>2, Halves, GameNumbers
      <4>3. QED
        BY <4>1, <4>2, Halves
    <3>4. QED
      BY <2>3, <2>4, <2>8, <2>9, <2>10, <2>11, <3>1, <3>2, <3>3 DEF ShowTypeOK, ShowInv
  <2>13. CASE r # 0
    <3>1. PhaseOf(m) = q + 1
      BY <2>5, <2>13, Phases
    <3>2. led' = led
      BY <2>3, <2>5, <2>13 DEF LedPhase
    <3>3. blinks' = was
      <4>1. flag' = lit
        BY <2>4, <2>7, <3>1
      <4>2. QED
        BY <1>1, <2>9, <4>1
    <3>4. m <= Start - Phase => (led' <=> (q + 1) % 2 = 1)
      <4>1. SUFFICES ASSUME m <= Start - Phase PROVE led' <=> (q + 1) % 2 = 1
        OBVIOUS
      <4>2. m # Start - Phase
        BY <2>5, <2>13, Boundaries
      <4>3. c <= Start - Phase
        BY <2>2, <4>1, <4>2, Boundaries, GameNumbers
      <4>4. led <=> (q + 1) % 2 = 1
        BY <1>1, <2>2, <2>6, <4>3 DEF ShowAt
      <4>5. QED
        BY <3>2, <4>4
    <3>5. QED
      BY <2>3, <2>4, <2>7, <2>8, <2>9, <2>10, <2>11, <3>1, <3>3, <3>4 DEF ShowTypeOK, ShowInv
  <2>14. QED
    BY <2>12, <2>13
<1>5. QED
  BY <1>3, <1>4

LEMMA ShowStart == Init => ShowTypeOK /\ ShowInv
<1>1. SUFFICES ASSUME Init PROVE ShowTypeOK /\ ShowInv
  OBVIOUS
<1>2. cel = 0 /\ ~led /\ led \in BOOLEAN /\ flag = 0 /\ blinks = Pulses
  BY <1>1 DEF Init, PollInit
<1>3. 0 % 2 = 0 /\ 0 \div 2 = 0
  OBVIOUS
<1>4. QED
  BY <1>2, <1>3, GameNumbers, Boundaries DEF ShowTypeOK, ShowInv

(* The LED and the flag follow the countdown. *)
THEOREM ShowFollowsCountdown == Spec => [](ShowTypeOK /\ ShowInv)
<1>1. ASSUME ShowTypeOK, ShowInv, [Next]_vars PROVE ShowTypeOK' /\ ShowInv'
  <2>1. CASE Fire
    BY <1>1, <2>1, ShowFires
  <2>2. CASE UNCHANGED show
    BY <1>1, <2>2 DEF show, ShowTypeOK, ShowInv
  <2>3. PollStep => Fire \/ UNCHANGED show
    BY Zenon DEF PollStep, LoaderClears, GameFrame, TimePasses, main, Sample, FindAdapter,
                 Identify, Fetched
  <2>4. UNCHANGED pollVars => UNCHANGED show
    BY DEF pollVars, show
  <2>5. QED
    BY <1>1, <2>1, <2>2, <2>3, <2>4, StepOfPoll
<1>2. QED
  BY <1>1, ShowStart, PTL DEF Spec

(* Every unlock is shown by its whole row of pulses, and nothing is left   *)
(* lit (ra_led_celebrate in ra_poll_thread).                               *)
THEOREM CelebrationsAreWhole == Spec => []CelebrationIsWhole
<1>1. ASSUME ShowTypeOK, ShowInv PROVE CelebrationIsWhole
  <2>1. SUFFICES ASSUME cel = 0 PROVE blinks = Pulses /\ ~led /\ flag = 0
    BY DEF CelebrationIsWhole
  <2>2. PhaseOf(cel) = 0 /\ cel <= Start - Phase /\ 0 % 2 = 0 /\ 0 \div 2 = 0
    BY <2>1, Boundaries
  <2>3. flag = 0 /\ blinks + 0 = Pulses /\ (led <=> 0 = 1)
    BY <1>1, <2>2 DEF ShowInv
  <2>4. QED
    BY <1>1, <2>3 DEF ShowTypeOK
<1>2. QED
  BY <1>1, ShowFollowsCountdown, PTL

-----------------------------------------------------------------------------
(* The lists. *)

Prefix(chunks, n) == Entries(SubSeq(chunks, 1, n))

Chunks == Seq(Seq(Nat))

(* The entries of one more chunk follow those of the chunks before it. *)
LEMMA PrefixGrows ==
    ASSUME NEW chunks \in Chunks, NEW n \in 1 .. Len(chunks)
    PROVE  /\ Prefix(chunks, n - 1) \in Seq(Nat) /\ chunks[n] \in Seq(Nat)
           /\ Prefix(chunks, n) = Prefix(chunks, n - 1) \o chunks[n]
           /\ n = Len(chunks) => Prefix(chunks, n) = Entries(chunks)
           /\ Prefix(chunks, 0) = <<>>
<1> USE DEF Prefix, Entries, Chunks
<1>1. n - 1 \in 0 .. Len(chunks) /\ chunks[n] \in Seq(Nat)
  BY LenProperties, ElementOfSeq
<1>2. SubSeq(chunks, 1, n - 1) \in Chunks
  BY <1>1, PrefixType
<1>3. Prefix(chunks, n - 1) \in Seq(Nat)
  BY <1>2, FlattenType
<1>4. Prefix(chunks, n) = Prefix(chunks, n - 1) \o chunks[n]
  BY FlattenSnoc
<1>5. n = Len(chunks) => SubSeq(chunks, 1, n) = chunks
  BY SubSeqFull
<1>6. SubSeq(chunks, 1, 0) = <<>>
  BY SubSeqEmpty
<1>7. QED
  BY <1>1, <1>3, <1>4, <1>5, <1>6, FlattenEmpty

LEMMA FitsIs ==
    ASSUME NEW s \in Seq(Nat), NEW max \in Nat
    PROVE  /\ Fits(s, max) \in Seq(Nat)
           /\ Len(s) <= max => Fits(s, max) = s
           /\ Len(s) > max => /\ Len(Fits(s, max)) = max
                              /\ \A i \in 1 .. max : Fits(s, max)[i] = s[i]
<1>1. Len(s) \in Nat
  BY LenProperties
<1>2. CASE Len(s) <= max
  <2>1. Fits(s, max) = SubSeq(s, 1, Len(s))
    BY <1>1, <1>2 DEF Fits
  <2>2. QED
    BY <1>1, <1>2, <2>1, SubSeqFull
<1>3. CASE Len(s) > max
  <2>1. Fits(s, max) = SubSeq(s, 1, max) /\ max \in 0 .. Len(s)
    BY <1>1, <1>3 DEF Fits
  <2>2. QED
    BY <1>1, <1>3, <2>1, PrefixType
<1>4. QED
  BY <1>1, <1>2, <1>3

LEMMA ConcatFirst ==
    ASSUME NEW s \in Seq(Nat), NEW t \in Seq(Nat), NEW n \in Nat, n <= Len(s)
    PROVE  /\ s \o t \in Seq(Nat) /\ Len(s \o t) = Len(s) + Len(t)
           /\ \A i \in 1 .. n : (s \o t)[i] = s[i]
<1>1. /\ s \o t \in Seq(Nat) /\ Len(s \o t) = Len(s) + Len(t)
      /\ \A i \in 1 .. Len(s) + Len(t) :
             (s \o t)[i] = IF i <= Len(s) THEN s[i] ELSE t[i - Len(s)]
  BY ConcatProperties
<1>2. Len(s) \in Nat /\ Len(t) \in Nat
  BY LenProperties
<1>3. ASSUME NEW i \in 1 .. n PROVE (s \o t)[i] = s[i]
  <2>1. i \in 1 .. Len(s) + Len(t) /\ i <= Len(s)
    BY <1>2
  <2>2. QED
    BY <1>1, <2>1
<1>4. QED
  BY <1>1, <1>3

(* A list that is cut short may be cut before or after the next chunk. *)
LEMMA FitsGrows ==
    ASSUME NEW s \in Seq(Nat), NEW t \in Seq(Nat), NEW max \in Nat
    PROVE  Fits(Fits(s, max) \o t, max) = Fits(s \o t, max)
<1>1. Len(s) \in Nat /\ Len(t) \in Nat
  BY LenProperties
<1>2. CASE Len(s) <= max
  BY <1>2, FitsIs
<1>3. CASE Len(s) > max
  <2> DEFINE c == Fits(s, max)
  <2>1. c \in Seq(Nat) /\ Len(c) = max /\ \A i \in 1 .. max : c[i] = s[i]
    BY <1>3, FitsIs
  <2> HIDE DEF c
  <2>2. /\ c \o t \in Seq(Nat) /\ Len(c \o t) = max + Len(t)
        /\ \A i \in 1 .. max : (c \o t)[i] = c[i]
    <3>1. max <= Len(c)
      BY <2>1
    <3>2. /\ c \o t \in Seq(Nat) /\ Len(c \o t) = Len(c) + Len(t)
          /\ \A i \in 1 .. max : (c \o t)[i] = c[i]
      BY <2>1, <3>1, ConcatFirst
    <3>3. QED
      BY <2>1, <3>2
  <2>3. /\ s \o t \in Seq(Nat) /\ Len(s \o t) = Len(s) + Len(t) /\ Len(s \o t) > max
        /\ \A i \in 1 .. max : (s \o t)[i] = s[i]
    <3>1. max <= Len(s)
      BY <1>1, <1>3
    <3>2. /\ s \o t \in Seq(Nat) /\ Len(s \o t) = Len(s) + Len(t)
          /\ \A i \in 1 .. max : (s \o t)[i] = s[i]
      BY <3>1, ConcatFirst
    <3>3. Len(s \o t) > max
      BY <1>1, <1>3, <3>2
    <3>4. QED
      BY <3>2, <3>3
  <2>4. /\ Fits(c \o t, max) \in Seq(Nat) /\ Len(Fits(c \o t, max)) = max
        /\ \A i \in 1 .. max : Fits(c \o t, max)[i] = c[i]
    <3>1. CASE Len(t) = 0
      <4>1. Len(c \o t) = max
        BY <2>2, <3>1
      <4>2. Fits(c \o t, max) = c \o t
        <5>1. c \o t \in Seq(Nat) /\ Len(c \o t) <= max
          BY <2>2, <4>1
        <5>2. QED
          BY <5>1, FitsIs
      <4>3. QED
        BY <2>2, <4>1, <4>2
    <3>2. CASE Len(t) # 0
      <4>1. Len(c \o t) > max
        BY <1>1, <2>2, <3>2
      <4>2. QED
        BY <2>2, <4>1, FitsIs
    <3>3. QED
      BY <3>1, <3>2
  <2>5. /\ Fits(s \o t, max) \in Seq(Nat) /\ Len(Fits(s \o t, max)) = max
        /\ \A i \in 1 .. max : Fits(s \o t, max)[i] = s[i]
    BY <2>3, FitsIs
  <2>6. \A i \in 1 .. max : Fits(c \o t, max)[i] = Fits(s \o t, max)[i]
    BY <2>1, <2>4, <2>5
  <2>7. Fits(c \o t, max) = Fits(s \o t, max)
    BY <2>4, <2>5, <2>6, SeqEqual
  <2>8. QED
    BY <2>7 DEF c
<1>4. QED
  BY <1>1, <1>2, <1>3

ListTypeOK ==
    /\ watchChunks \in WatchLists /\ chainChunks \in ChainTables
    /\ step \in {"watch", "chain", "play"} /\ outcome \in {"none", "ok", "failed"}
    /\ chunk_idx \in Nat \ {0} /\ att \in Nat
    /\ ra_chain_node_count \in Nat

Ordered(nodes) == \A i \in 1 .. Len(nodes) : nodes[i] < i

WatchInv ==
    /\ step = "watch" => /\ chunk_idx <= Len(watchChunks)
                         /\ ra_watchlist = Fits(Prefix(watchChunks, chunk_idx - 1), MaxAddrs)
    /\ step # "watch" /\ outcome = "ok" => ra_watchlist = Fits(Entries(watchChunks), MaxAddrs)

ChainInv ==
    /\ outcome = "none" => step = "watch" /\ ra_chain_nodes = <<>> /\ ra_chain_node_count = 0
    /\ step = "chain" => /\ chunk_idx <= Len(chainChunks)
                         /\ ra_chain_nodes = Prefix(chainChunks, chunk_idx - 1)
                         /\ Ordered(ra_chain_nodes)
                         /\ ra_chain_node_count = 0
    /\ ra_chain_node_count # 0 => /\ ra_chain_nodes = Entries(chainChunks)
                                  /\ ra_chain_node_count = Len(ra_chain_nodes)
                                  /\ Ordered(ra_chain_nodes)

ListInv == ListTypeOK /\ WatchInv /\ ChainInv

LEMMA ListTypes ==
    ASSUME ListTypeOK
    PROVE  /\ watchChunks \in Chunks /\ Len(watchChunks) \in Nat \ {0}
           /\ chainChunks \in Chunks /\ Len(chainChunks) \in Nat \ {0}
           /\ Len(chainChunks) <= ChainCap
           /\ MaxAddrs \in Nat /\ ChainCap \in Nat /\ WatchCap \in Nat
           /\ Attempts \in Nat \ {0}
<1>1. watchChunks \in Chunks \ {<<>>} /\ chainChunks \in Chunks \ {<<>>}
  BY ChunkAssumption DEF ListTypeOK, Chunks
<1>2. Len(chainChunks) <= ChainCap
  BY ChunkAssumption DEF ListTypeOK
<1>3. {Attempts, WatchCap, ChainCap} \subseteq Nat \ {0} /\ {MaxAddrs, MaxNodes} \subseteq Nat
  BY ChunkAssumption
<1>4. QED
  BY <1>1, <1>2, <1>3, EmptySeq DEF Chunks

(* What an attempt at a chunk of the watch list may do. *)
LEMMA WatchAttempt ==
    ASSUME ListInv, ra_fetch_watchlist_chunk
    PROVE  /\ step = "watch" /\ att' \in Nat
           /\ UNCHANGED <<watchChunks, chainChunks, ra_chain_nodes, ra_chain_node_count>>
           /\ \/ /\ ra_watchlist' = Fits(ra_watchlist \o watchChunks[chunk_idx], MaxAddrs)
                 /\ \/ chunk_idx = Len(watchChunks) /\ WatchFetched
                    \/ WatchFailed
                    \/ /\ chunk_idx # Len(watchChunks) /\ chunk_idx' = chunk_idx + 1
                       /\ UNCHANGED <<step, outcome>>
              \/ ra_watchlist' = ra_watchlist /\ UNCHANGED <<step, chunk_idx, outcome>>
              \/ WatchFailed
<1>1. att \in Nat /\ Attempts \in Nat \ {0}
  BY ListTypes DEF ListInv, ListTypeOK
<1>2. PICK reply \in Reply(watchChunks, chunk_idx) :
         IF Accepts(reply, chunk_idx)
         THEN /\ ra_watchlist' = Fits(ra_watchlist \o watchChunks[reply.index], MaxAddrs)
              /\ att' = 0
              /\ IF IsLast(watchChunks, reply.index) THEN WatchFetched
                 ELSE IF chunk_idx = WatchCap THEN WatchFailed
                 ELSE chunk_idx' = chunk_idx + 1 /\ UNCHANGED <<step, outcome>>
         ELSE /\ ra_watchlist' = Untouched(reply)
              /\ att' = (att + 1) % Attempts
              /\ IF att + 1 < Attempts THEN UNCHANGED <<step, chunk_idx, outcome>> ELSE WatchFailed
  BY DEF ra_fetch_watchlist_chunk
<1>3. /\ step = "watch"
      /\ UNCHANGED <<watchChunks, chainChunks, ra_chain_nodes, ra_chain_node_count>>
  BY DEF ra_fetch_watchlist_chunk
<1>4. CASE Accepts(reply, chunk_idx)
  <2>1. reply.index = chunk_idx
    BY <1>4 DEF Accepts
  <2>2. /\ ra_watchlist' = Fits(ra_watchlist \o watchChunks[chunk_idx], MaxAddrs)
        /\ att' = 0
        /\ IF chunk_idx = Len(watchChunks) THEN WatchFetched
           ELSE IF chunk_idx = WatchCap THEN WatchFailed
           ELSE chunk_idx' = chunk_idx + 1 /\ UNCHANGED <<step, outcome>>
    BY <1>2, <1>4, <2>1, Zenon DEF IsLast
  <2>3. att' \in Nat
    BY <2>2
  <2>4. QED
    BY <1>3, <2>2, <2>3, Zenon
<1>5. CASE ~ Accepts(reply, chunk_idx)
  <2>1. /\ ra_watchlist' = ra_watchlist
        /\ att' = (att + 1) % Attempts
        /\ IF att + 1 < Attempts THEN UNCHANGED <<step, chunk_idx, outcome>> ELSE WatchFailed
    BY <1>2, <1>5, Zenon DEF Untouched
  <2>2. att' \in Nat
    BY <1>1, <2>1
  <2>3. QED
    BY <1>3, <2>1, <2>2, Zenon
<1>6. QED
  BY <1>4, <1>5

LEMMA WatchFetches ==
    ASSUME ListInv, ra_fetch_watchlist_chunk
    PROVE  ListInv'
<1> USE DEF ListInv
<1>1. /\ step = "watch" /\ att' \in Nat
      /\ UNCHANGED <<watchChunks, chainChunks, ra_chain_nodes, ra_chain_node_count>>
  BY WatchAttempt
<1>2. /\ chunk_idx \in 1 .. Len(watchChunks) /\ chunk_idx \in Nat
      /\ watchChunks \in Chunks /\ Len(watchChunks) \in Nat \ {0}
      /\ Len(chainChunks) \in Nat \ {0} /\ MaxAddrs \in Nat
      /\ ra_watchlist = Fits(Prefix(watchChunks, chunk_idx - 1), MaxAddrs)
  BY <1>1, ListTypes DEF ListTypeOK, WatchInv
<1>3. /\ Prefix(watchChunks, chunk_idx - 1) \in Seq(Nat) /\ watchChunks[chunk_idx] \in Seq(Nat)
      /\ Prefix(watchChunks, chunk_idx) = Prefix(watchChunks, chunk_idx - 1) \o watchChunks[chunk_idx]
      /\ chunk_idx = Len(watchChunks) => Prefix(watchChunks, chunk_idx) = Entries(watchChunks)
  BY <1>2, PrefixGrows
<1>4. Fits(ra_watchlist \o watchChunks[chunk_idx], MaxAddrs) = Fits(Prefix(watchChunks, chunk_idx), MaxAddrs)
  BY <1>2, <1>3, FitsGrows
<1>5. CASE WatchFailed
  <2>1. outcome' = "failed" /\ step' = "play" /\ chunk_idx' = 1
    BY <1>5 DEF WatchFailed
  <2>2. ListTypeOK' /\ WatchInv'
    BY <1>1, <2>1 DEF ListTypeOK, WatchInv
  <2>3. ChainInv'
    BY <1>1, <2>1 DEF ChainInv
  <2>4. QED
    BY <2>2, <2>3
<1>6. CASE /\ ra_watchlist' = Fits(ra_watchlist \o watchChunks[chunk_idx], MaxAddrs)
           /\ chunk_idx = Len(watchChunks) /\ WatchFetched
  <2>1. /\ outcome' = "ok" /\ chunk_idx' = 1
        /\ step' = IF outcome = "none" THEN "chain" ELSE "play"
    BY <1>6 DEF WatchFetched
  <2>2. step' \in {"chain", "play"} /\ (step' = "chain" => outcome = "none")
    BY <2>1
  <2>3. ListTypeOK'
    BY <1>1, <2>1, <2>2 DEF ListTypeOK
  <2>4. ra_watchlist' = Fits(Entries(watchChunks), MaxAddrs)
    BY <1>3, <1>4, <1>6
  <2>5. WatchInv'
    BY <1>1, <2>2, <2>4 DEF WatchInv
  <2>6. step' = "chain" => /\ chunk_idx' <= Len(chainChunks)
                           /\ ra_chain_nodes' = Prefix(chainChunks, chunk_idx' - 1)
                           /\ Ordered(ra_chain_nodes') /\ ra_chain_node_count' = 0
    <3>1. SUFFICES ASSUME step' = "chain"
                   PROVE  /\ 1 <= Len(chainChunks) /\ ra_chain_nodes = Prefix(chainChunks, 0)
                          /\ Ordered(ra_chain_nodes) /\ ra_chain_node_count = 0
      BY <1>1, <2>1
    <3>2. ra_chain_nodes = <<>> /\ ra_chain_node_count = 0
      BY <2>2, <3>1 DEF ChainInv
    <3>3. Ordered(<<>>)
      BY DEF Ordered
    <3>4. 1 \in 1 .. Len(chainChunks) /\ chainChunks \in Chunks
      BY <1>2, ListTypes
    <3>5. Prefix(chainChunks, 0) = <<>>
      BY <3>4, PrefixGrows
    <3>6. QED
      BY <3>2, <3>3, <3>4, <3>5
  <2>7. ChainInv'
    BY <1>1, <2>1, <2>6 DEF ChainInv
  <2>8. QED
    BY <2>3, <2>5, <2>7
<1>7. CASE /\ ra_watchlist' = Fits(ra_watchlist \o watchChunks[chunk_idx], MaxAddrs)
           /\ chunk_idx # Len(watchChunks) /\ chunk_idx' = chunk_idx + 1
           /\ UNCHANGED <<step, outcome>>
  <2>1. ListTypeOK'
    BY <1>1, <1>2, <1>7 DEF ListTypeOK
  <2>2. chunk_idx' - 1 = chunk_idx /\ chunk_idx' <= Len(watchChunks)
    BY <1>2, <1>7
  <2>3. ra_watchlist' = Fits(Prefix(watchChunks, chunk_idx' - 1), MaxAddrs)
    BY <1>4, <1>7, <2>2
  <2>4. WatchInv'
    BY <1>1, <1>7, <2>2, <2>3 DEF WatchInv
  <2>5. ChainInv'
    BY <1>1, <1>7 DEF ChainInv
  <2>6. QED
    BY <2>1, <2>4, <2>5
<1>8. CASE ra_watchlist' = ra_watchlist /\ UNCHANGED <<step, chunk_idx, outcome>>
  BY <1>1, <1>8 DEF ListTypeOK, WatchInv, ChainInv
<1>9. QED
  BY <1>5, <1>6, <1>7, <1>8, WatchAttempt

(* What an attempt at a chunk of the chain table may do. *)
LEMMA ChainAttempt ==
    ASSUME ListInv, ra_fetch_chain_chunk
    PROVE  /\ step = "chain" /\ att' \in Nat
           /\ UNCHANGED <<watchChunks, chainChunks, ra_watchlist, outcome>>
           /\ \/ /\ WellFormed(chainChunks[chunk_idx])
                 /\ ra_chain_nodes' = ra_chain_nodes \o chainChunks[chunk_idx]
                 /\ \/ /\ chunk_idx = Len(chainChunks) \/ chunk_idx = ChainCap
                       /\ ra_chain_node_count' = Len(ra_chain_nodes')
                       /\ step' = "play" /\ chunk_idx' = 1
                    \/ /\ chunk_idx # Len(chainChunks) /\ chunk_idx' = chunk_idx + 1
                       /\ UNCHANGED <<step, ra_chain_node_count>>
              \/ /\ ra_chain_nodes' = ra_chain_nodes
                 /\ \/ UNCHANGED <<step, chunk_idx, ra_chain_node_count>>
                    \/ step' = "play" /\ chunk_idx' = 1 /\ UNCHANGED ra_chain_node_count
<1>1. att \in Nat /\ Attempts \in Nat \ {0}
  BY ListTypes DEF ListInv, ListTypeOK
<1>2. PICK reply \in Reply(chainChunks, chunk_idx) :
         IF Accepts(reply, chunk_idx) /\ WellFormed(chainChunks[reply.index])
         THEN /\ ra_chain_nodes' = ra_chain_nodes \o chainChunks[reply.index]
              /\ att' = 0
              /\ IF IsLast(chainChunks, reply.index) \/ chunk_idx = ChainCap
                 THEN /\ ra_chain_node_count' = Len(ra_chain_nodes')
                      /\ step' = "play"
                      /\ chunk_idx' = 1
                 ELSE chunk_idx' = chunk_idx + 1 /\ UNCHANGED <<step, ra_chain_node_count>>
         ELSE /\ att' = (att + 1) % Attempts
              /\ UNCHANGED ra_chain_nodes
              /\ IF att + 1 < Attempts THEN UNCHANGED <<step, chunk_idx, ra_chain_node_count>>
                 ELSE step' = "play" /\ chunk_idx' = 1 /\ ChainGivenUp
  BY Zenon DEF ra_fetch_chain_chunk
<1>3. step = "chain" /\ UNCHANGED <<watchChunks, chainChunks, ra_watchlist, outcome>>
  BY DEF ra_fetch_chain_chunk
<1>4. CASE Accepts(reply, chunk_idx) /\ WellFormed(chainChunks[reply.index])
  <2>1. reply.index = chunk_idx
    BY <1>4 DEF Accepts
  <2>2. WellFormed(chainChunks[chunk_idx])
    BY <1>4, <2>1
  <2>3. /\ ra_chain_nodes' = ra_chain_nodes \o chainChunks[chunk_idx]
        /\ att' = 0
        /\ IF chunk_idx = Len(chainChunks) \/ chunk_idx = ChainCap
           THEN /\ ra_chain_node_count' = Len(ra_chain_nodes')
                /\ step' = "play"
                /\ chunk_idx' = 1
           ELSE chunk_idx' = chunk_idx + 1 /\ UNCHANGED <<step, ra_chain_node_count>>
    BY <1>2, <1>4, <2>1, Zenon DEF IsLast
  <2>4. att' \in Nat
    BY <2>3
  <2>5. QED
    BY <1>3, <2>2, <2>3, <2>4, Zenon
<1>5. CASE ~ (Accepts(reply, chunk_idx) /\ WellFormed(chainChunks[reply.index]))
  <2>1. /\ att' = (att + 1) % Attempts
        /\ ra_chain_nodes' = ra_chain_nodes
        /\ IF att + 1 < Attempts THEN UNCHANGED <<step, chunk_idx, ra_chain_node_count>>
           ELSE step' = "play" /\ chunk_idx' = 1 /\ UNCHANGED ra_chain_node_count
    BY <1>2, <1>5, Zenon DEF ChainGivenUp
  <2>2. att' \in Nat
    BY <1>1, <2>1
  <2>3. QED
    BY <1>3, <2>1, <2>2, Zenon
<1>6. QED
  BY <1>4, <1>5

(* Nodes with earlier parents may be followed by a well-formed chunk. *)
LEMMA OrderKept ==
    ASSUME NEW s \in Seq(Nat), NEW t \in Seq(Nat), Ordered(s),
           \A i \in 1 .. Len(t) : t[i] < Len(s) + i
    PROVE  Ordered(s \o t)
<1>1. Len(s) \in Nat /\ Len(t) \in Nat
  BY LenProperties
<1>2. /\ Len(s \o t) = Len(s) + Len(t)
      /\ \A i \in 1 .. Len(s) + Len(t) :
             (s \o t)[i] = IF i <= Len(s) THEN s[i] ELSE t[i - Len(s)]
  BY ConcatProperties
<1>3. ASSUME NEW i \in 1 .. Len(s) + Len(t) PROVE (s \o t)[i] < i
  <2>1. CASE i <= Len(s)
    <3>1. i \in 1 .. Len(s) /\ (s \o t)[i] = s[i]
      BY <1>1, <1>2, <2>1
    <3>2. QED
      BY <3>1 DEF Ordered
  <2>2. CASE ~ (i <= Len(s))
    <3>1. PICK j \in 1 .. Len(t) : i = Len(s) + j /\ j = i - Len(s)
      <4>1. i - Len(s) \in 1 .. Len(t) /\ i = Len(s) + (i - Len(s))
        BY <1>1, <2>2
      <4>2. QED
        BY <4>1
    <3>2. (s \o t)[i] = t[j]
      BY <1>2, <2>2, <3>1
    <3>3. QED
      BY <3>1, <3>2
  <2>3. QED
    BY <2>1, <2>2
<1>4. QED
  BY <1>2, <1>3 DEF Ordered

LEMMA ChainFetches ==
    ASSUME ListInv, ra_fetch_chain_chunk
    PROVE  ListInv'
<1> USE DEF ListInv
<1>1. /\ step = "chain" /\ att' \in Nat
      /\ UNCHANGED <<watchChunks, chainChunks, ra_watchlist, outcome>>
  BY ChainAttempt
<1>2. /\ chunk_idx \in 1 .. Len(chainChunks) /\ chunk_idx \in Nat \ {0}
      /\ chainChunks \in Chunks /\ Len(chainChunks) \in Nat /\ ChainCap \in Nat
      /\ Len(chainChunks) <= ChainCap
      /\ ra_chain_nodes = Prefix(chainChunks, chunk_idx - 1)
      /\ Ordered(ra_chain_nodes) /\ ra_chain_node_count = 0 /\ outcome # "none"
  BY <1>1, ListTypes DEF ListTypeOK, ChainInv
<1>3. /\ ra_chain_nodes \in Seq(Nat) /\ chainChunks[chunk_idx] \in Seq(Nat)
      /\ Prefix(chainChunks, chunk_idx) = ra_chain_nodes \o chainChunks[chunk_idx]
      /\ chunk_idx = Len(chainChunks) => Prefix(chainChunks, chunk_idx) = Entries(chainChunks)
  BY <1>2, PrefixGrows
<1>4. ASSUME WellFormed(chainChunks[chunk_idx]),
             ra_chain_nodes' = ra_chain_nodes \o chainChunks[chunk_idx]
      PROVE  Ordered(ra_chain_nodes') /\ Len(ra_chain_nodes') \in Nat
  <2>1. \A i \in 1 .. Len(chainChunks[chunk_idx]) :
            chainChunks[chunk_idx][i] < Len(ra_chain_nodes) + i
    BY <1>4 DEF WellFormed
  <2>2. Ordered(ra_chain_nodes \o chainChunks[chunk_idx])
    BY <1>2, <1>3, <2>1, OrderKept
  <2>3. ra_chain_nodes \o chainChunks[chunk_idx] \in Seq(Nat)
    BY <1>3, ConcatProperties
  <2>4. Len(ra_chain_nodes \o chainChunks[chunk_idx]) \in Nat
    BY <2>3, LenProperties
  <2>5. QED
    BY <1>4, <2>2, <2>4
<1>5. CASE /\ WellFormed(chainChunks[chunk_idx])
           /\ ra_chain_nodes' = ra_chain_nodes \o chainChunks[chunk_idx]
           /\ chunk_idx = Len(chainChunks) \/ chunk_idx = ChainCap
           /\ ra_chain_node_count' = Len(ra_chain_nodes')
           /\ step' = "play" /\ chunk_idx' = 1
  <2>1. chunk_idx = Len(chainChunks)
    BY <1>2, <1>5
  <2>2. ra_chain_nodes' = Entries(chainChunks)
    BY <1>3, <1>5, <2>1
  <2>3. Ordered(ra_chain_nodes') /\ ra_chain_node_count' \in Nat
    BY <1>4, <1>5
  <2>4. ListTypeOK'
    BY <1>1, <1>5, <2>3 DEF ListTypeOK
  <2>5. WatchInv'
    BY <1>1, <1>5 DEF WatchInv
  <2>6. ChainInv'
    BY <1>1, <1>2, <1>5, <2>2, <2>3 DEF ChainInv
  <2>7. QED
    BY <2>4, <2>5, <2>6
<1>6. CASE /\ WellFormed(chainChunks[chunk_idx])
           /\ ra_chain_nodes' = ra_chain_nodes \o chainChunks[chunk_idx]
           /\ chunk_idx # Len(chainChunks) /\ chunk_idx' = chunk_idx + 1
           /\ UNCHANGED <<step, ra_chain_node_count>>
  <2>1. chunk_idx' - 1 = chunk_idx /\ chunk_idx' <= Len(chainChunks) /\ chunk_idx' \in Nat \ {0}
    BY <1>2, <1>6
  <2>2. ra_chain_nodes' = Prefix(chainChunks, chunk_idx' - 1)
    BY <1>3, <1>6, <2>1
  <2>3. Ordered(ra_chain_nodes')
    BY <1>4, <1>6
  <2>4. ListTypeOK'
    BY <1>1, <1>6, <2>1 DEF ListTypeOK
  <2>5. WatchInv'
    BY <1>1, <1>6 DEF WatchInv
  <2>6. ChainInv'
    BY <1>1, <1>2, <1>6, <2>1, <2>2, <2>3 DEF ChainInv
  <2>7. QED
    BY <2>4, <2>5, <2>6
<1>7. CASE ra_chain_nodes' = ra_chain_nodes /\ UNCHANGED <<step, chunk_idx, ra_chain_node_count>>
  BY <1>1, <1>7 DEF ListTypeOK, WatchInv, ChainInv
<1>8. CASE /\ ra_chain_nodes' = ra_chain_nodes
           /\ step' = "play" /\ chunk_idx' = 1 /\ UNCHANGED ra_chain_node_count
  <2>1. ListTypeOK'
    BY <1>1, <1>8 DEF ListTypeOK
  <2>2. WatchInv'
    BY <1>1, <1>8 DEF WatchInv
  <2>3. ChainInv'
    BY <1>1, <1>2, <1>8 DEF ChainInv
  <2>4. QED
    BY <2>1, <2>2, <2>3
<1>9. QED
  BY <1>5, <1>6, <1>7, <1>8, ChainAttempt

LEMMA WatchRestarts ==
    ASSUME ListInv, ra_do_resync
    PROVE  ListInv'
<1> USE DEF ListInv
<1>1. /\ step = "play" /\ step' = "watch" /\ chunk_idx' = 1 /\ att' = 0 /\ ra_watchlist' = <<>>
      /\ UNCHANGED <<watchChunks, chainChunks, ra_chain_nodes, ra_chain_node_count, outcome>>
  BY DEF ra_do_resync
<1>2. ListTypeOK'
  BY <1>1 DEF ListTypeOK
<1>3. /\ 1 \in 1 .. Len(watchChunks) /\ watchChunks \in Chunks
      /\ 1 <= Len(watchChunks) /\ MaxAddrs \in Nat
  BY ListTypes
<1>4. Fits(Prefix(watchChunks, 0), MaxAddrs) = <<>>
  <2>1. Prefix(watchChunks, 0) = <<>>
    BY <1>3, PrefixGrows
  <2>2. <<>> \in Seq(Nat) /\ Len(<<>>) <= MaxAddrs
    BY <1>3, EmptySeq
  <2>3. Fits(<<>>, MaxAddrs) = <<>>
    BY <1>3, <2>2, FitsIs
  <2>4. QED
    BY <2>1, <2>3
<1>5. WatchInv'
  BY <1>1, <1>3, <1>4 DEF WatchInv
<1>6. ChainInv'
  BY <1>1 DEF ChainInv
<1>7. QED
  BY <1>2, <1>5, <1>6

LEMMA ListStart == Init => ListInv
<1>1. SUFFICES ASSUME Init PROVE ListInv
  OBVIOUS
<1>2. /\ watchChunks \in WatchLists /\ chainChunks \in ChainTables
      /\ step = "watch" /\ chunk_idx = 1 /\ att = 0 /\ ra_watchlist = <<>>
      /\ ra_chain_nodes = <<>> /\ ra_chain_node_count = 0 /\ outcome = "none"
  BY <1>1 DEF Init, ChunkInit
<1>3. ListTypeOK
  BY <1>2 DEF ListTypeOK
<1>4. 1 \in 1 .. Len(watchChunks) /\ watchChunks \in Chunks /\ MaxAddrs \in Nat
  BY <1>3, ListTypes
<1>5. Fits(Prefix(watchChunks, 0), MaxAddrs) = <<>>
  <2>1. Prefix(watchChunks, 0) = <<>>
    BY <1>4, PrefixGrows
  <2>2. <<>> \in Seq(Nat) /\ Len(<<>>) <= MaxAddrs
    BY <1>4, EmptySeq
  <2>3. Fits(<<>>, MaxAddrs) = <<>>
    BY <1>4, <2>2, FitsIs
  <2>4. QED
    BY <2>1, <2>3
<1>6. WatchInv /\ ChainInv
  BY <1>2, <1>4, <1>5 DEF WatchInv, ChainInv
<1>7. QED
  BY <1>3, <1>6 DEF ListInv

(* What is fetched so far is a prefix of the adapter's list. *)
THEOREM FetchesAppend == Spec => []ListInv
<1>1. ASSUME ListInv, [Next]_vars PROVE ListInv'
  <2>1. CASE UNCHANGED chunkVars
    BY <1>1, <2>1 DEF chunkVars, ListInv, ListTypeOK, WatchInv, ChainInv
  <2>2. [Next]_vars => ChunkStep \/ ra_do_resync \/ UNCHANGED chunkVars
    BY Zenon DEF Next, vars, Environment, BringUp, Chunk, FetchEnds, FireAlone, FireResyncs
  <2>3. QED
    BY <1>1, <2>1, <2>2, WatchFetches, ChainFetches, WatchRestarts DEF ChunkStep
<1>2. QED
  BY <1>1, ListStart, PTL DEF Spec

(* Whatever replies come, the lists in use are the adapter's               *)
(* (ra_fetch_watchlist, ra_fetch_chain_table).                             *)
THEOREM ListsAreKept == Spec => []ListsAreAdapters
<1>1. ListInv => ListsAreAdapters
  BY DEF ListInv, WatchInv, ChainInv, Ordered, Prefix, ListsAreAdapters
<1>2. QED
  BY <1>1, FetchesAppend, PTL
=============================================================================
