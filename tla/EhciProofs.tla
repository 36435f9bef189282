----------------------------- MODULE EhciProofs -----------------------------
(***************************************************************************)
(* Proofs about the EHCI module.  First its loop (EhciLoop and UmsDisk),   *)
(* for every set of disks and clients, every number of attempts and every  *)
(* length of a request; then the driver of the host controller (EhciHost), *)
(* for every number of mishaps, every size of pages and packets and every  *)
(* length and alignment of a transfer.                                     *)
(***************************************************************************)
EXTENDS EhciLoop, EhciHost, InductionLemmas

Jobs ==
    [op : Ops \cup {"none"}, probing : BOOLEAN, again : BOOLEAN, tries : Nat, chunk : 1..Chunks,
     retval : {"ok", "timeout", "nodev", "bad", "sense"},
     moved : [1..Chunks -> Disks \cup {NoDisk}], refused : BOOLEAN, result : BOOLEAN]

UmsStates ==
    [init_done : BOOLEAN, mounted : BOOLEAN, usb_fd : BOOLEAN, old_udd : Disks \cup {NoDisk}]

DiskTypeOK ==
    /\ port \in Disks \cup {NoDisk}
    /\ addressed \in BOOLEAN /\ id \in BOOLEAN
    /\ handshake_mode \in {0, 1} /\ unplug_device \in BOOLEAN
    /\ ums \in UmsStates
    /\ pc \in {"idle", "start", "nextport", "try", "cycle", "reset", "done"}
    /\ job \in Jobs
    /\ home \in Disks \cup {NoDisk}

Messages ==
    [op : Ops \cup {"open", "close", "umount", "tick"}, from : Clients \cup {Nobody}]

LoopTypeOK ==
    /\ queue \in Seq(Messages)
    /\ discovered \in BOOLEAN

(* What the thread does at each place. *)
ControlInv ==
    /\ pc = "idle" => job = NoJob
    /\ pc = "start" => job.op \in Ops /\ job = [NoJob EXCEPT !.op = job.op]
    /\ pc = "nextport" => job.op = "init" /\ ~ums.init_done
    /\ pc = "try" => job.op \in {"read", "write"} /\ ~job.probing /\ ums.init_done
    /\ pc \in {"cycle", "reset"} =>
         \/ job.op = "init" /\ job.probing /\ ~ums.init_done
         \/ job.op \in {"read", "write"} /\ ums.init_done
         \/ job.op = "stress" /\ ~job.probing /\ ums.init_done
    /\ job.probing => pc \in {"cycle", "reset", "nextport"}
    /\ job.op = "init" => job.chunk = 1
    /\ job.result => pc = "done"

(* The disk that has the address is the one that was mounted, but for the  *)
(* moments in which unplug_procedure looks at another one; and except in a *)
(* mount, a lost transfer counts as an unplug.                             *)
DiskInv ==
    /\ ums.mounted => ums.init_done
    /\ ums.init_done => ums.old_udd = home
    /\ ums.init_done /\ ~job.probing => handshake_mode = 0
    /\ addressed => port # NoDisk
    /\ Mounting => port \in {ums.old_udd, NoDisk}
    /\ ums.init_done /\ addressed /\ port # ums.old_udd => pc = "try" /\ unplug_device

(* The chunks before the current one are exchanged. *)
ChunksInv == ~job.refused => \A c \in 1..Chunks : c < job.chunk => job.moved[c] = home

(* Nothing is asked of a disk before the first open. *)
QueueInv ==
    ~discovered => /\ ~ums.init_done /\ pc = "idle" /\ opened = {}
                   /\ \A i \in DOMAIN queue : queue[i].op \in {"open", "tick"}

(* What the disk's part of the module keeps up. *)
UmsInv ==
    DiskTypeOK /\ ControlInv /\ DiskInv /\ ChunksInv /\ OnlyHomeDisk /\ RequestIsWhole

IInv == UmsInv /\ LoopTypeOK /\ QueueInv /\ WatchdogAlive

-----------------------------------------------------------------------------
(* What the operators on a job return. *)
LEMMA NoJobFacts ==
    /\ NoJob \in Jobs
    /\ NoJob.op = "none" /\ ~NoJob.probing /\ NoJob.chunk = 1 /\ ~NoJob.refused /\ ~NoJob.result
  BY UmsAssumption DEF NoJob, Jobs

LEMMA NewCycleFacts ==
    ASSUME NEW j \in Jobs
    PROVE  /\ NewCycle(j) \in Jobs
           /\ NewCycle(j).op = j.op /\ NewCycle(j).probing = j.probing
           /\ NewCycle(j).chunk = j.chunk /\ NewCycle(j).moved = j.moved
           /\ NewCycle(j).refused = j.refused /\ NewCycle(j).result = j.result
           /\ NewCycle(j).retval = j.retval
  BY UmsAssumption DEF NewCycle, Jobs

LEMMA OpFacts ==
    ASSUME NEW op \in Ops
    PROVE  LET j == [NoJob EXCEPT !.op = op]
           IN  /\ j \in Jobs
               /\ j.op = op /\ ~j.probing /\ j.chunk = 1 /\ ~j.refused /\ ~j.result
  BY NoJobFacts DEF Jobs

LEMMA StartOverFacts ==
    ASSUME job.op \in Ops
    PROVE  /\ StartOver \in Jobs
           /\ StartOver.op = job.op /\ ~StartOver.probing /\ StartOver.chunk = 1
           /\ ~StartOver.refused /\ ~StartOver.result
<1>1. PICK j : j = [NoJob EXCEPT !.op = job.op]
  OBVIOUS
<1>2. j \in Jobs /\ j.op = job.op /\ ~j.probing /\ j.chunk = 1 /\ ~j.refused /\ ~j.result
  BY <1>1, OpFacts
<1>. QED  BY <1>1, <1>2, NewCycleFacts DEF StartOver

LEMMA FinishFacts ==
    ASSUME job \in Jobs, NEW result \in BOOLEAN, Finish(result)
    PROVE  /\ pc' = "done" /\ job' \in Jobs /\ ~job'.probing
           /\ job'.op = job.op /\ job'.chunk = job.chunk /\ job'.moved = job.moved
           /\ job'.refused = job.refused /\ job'.result = result
  BY DEF Finish, Jobs

(* A step that leaves the hardware, the driver's state and the ghosts. *)
LEMMA UmsStutter ==
    ASSUME UmsInv, UNCHANGED umsVars
    PROVE  UmsInv'
<1> USE DEF umsVars, hardware, driver, ghosts
<1>1. DiskTypeOK'
  BY DEF UmsInv, DiskTypeOK
<1>2. ControlInv'
  BY DEF UmsInv, ControlInv
<1>3. DiskInv'
  BY DEF UmsInv, DiskInv, Mounting
<1>4. ChunksInv'
  BY DEF UmsInv, ChunksInv
<1>5. OnlyHomeDisk' /\ RequestIsWhole'
  BY DEF UmsInv, OnlyHomeDisk, RequestIsWhole
<1>. QED  BY <1>1, <1>2, <1>3, <1>4, <1>5 DEF UmsInv

LEMMA UnplugInv == ASSUME UmsInv, Unplug PROVE UmsInv'
<1> USE DEF Unplug, driver, ghosts
<1>1. DiskTypeOK'
  BY DEF UmsInv, DiskTypeOK
<1>2. ControlInv'
  BY DEF UmsInv, ControlInv
<1>3. DiskInv'
  BY DEF UmsInv, DiskInv, Mounting
<1>4. ChunksInv'
  BY DEF UmsInv, ChunksInv
<1>5. OnlyHomeDisk' /\ RequestIsWhole'
  BY DEF UmsInv, OnlyHomeDisk, RequestIsWhole
<1>. QED  BY <1>1, <1>2, <1>3, <1>4, <1>5 DEF UmsInv

LEMMA PlugInv == ASSUME UmsInv, Plug PROVE UmsInv'
<1> USE DEF Plug, driver, ghosts
<1>1. DiskTypeOK'
  BY DEF UmsInv, DiskTypeOK
<1>2. ControlInv'
  BY DEF UmsInv, ControlInv
<1>3. DiskInv'
  BY UmsAssumption DEF UmsInv, DiskInv, Mounting
<1>4. ChunksInv'
  BY DEF UmsInv, ChunksInv
<1>5. OnlyHomeDisk' /\ RequestIsWhole'
  BY DEF UmsInv, OnlyHomeDisk, RequestIsWhole
<1>. QED  BY <1>1, <1>2, <1>3, <1>4, <1>5 DEF UmsInv

(* A request that ends without having moved anything more. *)
LEMMA FinishInv ==
    ASSUME UmsInv, NEW result \in BOOLEAN, Finish(result), job.op \in Ops,
           result => job.op = "init",
           DiskTypeOK', OnlyHomeDisk', home' = home,
           ums'.mounted => ums'.init_done,
           ums'.init_done => ums'.old_udd = home /\ handshake_mode' = 0,
           addressed' => port' # NoDisk,
           ~(ums'.init_done /\ addressed' /\ port' # ums'.old_udd)
    PROVE  UmsInv'
<1>1. /\ pc' = "done" /\ job' \in Jobs /\ ~job'.probing
      /\ job'.op = job.op /\ job'.chunk = job.chunk /\ job'.moved = job.moved
      /\ job'.refused = job.refused /\ job'.result = result
  BY FinishFacts DEF UmsInv, DiskTypeOK
<1>2. ControlInv'
  BY <1>1 DEF UmsInv, ControlInv
<1>3. DiskInv'
  BY <1>1 DEF DiskInv, Mounting
<1>4. ChunksInv'
  BY <1>1 DEF UmsInv, ChunksInv
<1>5. RequestIsWhole'
  BY <1>1 DEF RequestIsWhole
<1>. QED  BY <1>2, <1>3, <1>4, <1>5 DEF UmsInv

LEMMA InitAgainInv == ASSUME UmsInv, InitAgain PROVE UmsInv'
<1>1. DiskTypeOK' /\ OnlyHomeDisk'
  BY FinishFacts DEF UmsInv, DiskTypeOK, OnlyHomeDisk, InitAgain, hardware, driver, ghosts
<1>. QED  BY <1>1, FinishInv
          DEF InitAgain, UmsInv, ControlInv, DiskInv, hardware, driver, ghosts, Ops

(* A command is started: for a mount, or for the current chunk. *)
LEMMA PortResetFacts ==
    ASSUME DiskTypeOK, NEW ok \in BOOLEAN, PortReset(ok)
    PROVE  addressed' = ok /\ id' \in BOOLEAN /\ (ok => port # NoDisk)
  BY DEF DiskTypeOK, PortReset

LEMMA NextPortInv == ASSUME UmsInv, NextPort PROVE UmsInv'
<1>1. /\ ~ums.init_done /\ job.op = "init"
      /\ Finish(FALSE) /\ handshake_mode' = 1
      /\ UNCHANGED <<port, unplug_device, ums, ghosts>>
  BY DEF NextPort, UmsInv, ControlInv
<1>2. addressed' \in BOOLEAN /\ id' \in BOOLEAN /\ (addressed' => port # NoDisk)
  BY PortResetFacts DEF NextPort, UmsInv, DiskTypeOK, DiskInv
<1>3. DiskTypeOK'
  BY <1>1, <1>2, FinishFacts DEF UmsInv, DiskTypeOK, ghosts
<1>4. OnlyHomeDisk'
  BY <1>1 DEF OnlyHomeDisk
<1>. QED  BY <1>1, <1>2, <1>3, <1>4, FinishInv DEF UmsInv, DiskInv, ghosts, Ops

LEMMA ProbeFacts ==
    ASSUME job \in Jobs, Probe
    PROVE  /\ pc' = "cycle" /\ job' \in Jobs /\ job'.probing
           /\ job'.op = job.op /\ job'.chunk = job.chunk /\ job'.moved = job.moved
           /\ job'.refused = job.refused /\ job'.result = job.result
<1>1. PICK j : j = [job EXCEPT !.probing = TRUE, !.again = TRUE]
  OBVIOUS
<1>2. /\ j \in Jobs /\ j.probing
      /\ j.op = job.op /\ j.chunk = job.chunk /\ j.moved = job.moved
      /\ j.refused = job.refused /\ j.result = job.result
  BY <1>1 DEF Jobs
<1>. QED  BY <1>1, <1>2, NewCycleFacts DEF Probe

(* A disk is opened and its mount begins: it is in the socket, and it is   *)
(* the one that was mounted, if one was.                                   *)
LEMMA OpenedInv ==
    ASSUME UmsInv, pc \in {"start", "try"}, job.op \in {"init", "read", "write"},
           job.op = "init" <=> ~ums.init_done,
           PortReset(TRUE), Opened, Probe, handshake_mode' = 1,
           UNCHANGED <<port, unplug_device, ghosts>>
    PROVE  UmsInv'
<1>1. /\ pc' = "cycle" /\ job' \in Jobs /\ job'.probing
      /\ job'.op = job.op /\ job'.chunk = job.chunk /\ job'.moved = job.moved
      /\ job'.refused = job.refused /\ job'.result = job.result
  BY ProbeFacts DEF UmsInv, DiskTypeOK
<1>2. addressed' /\ addressed' \in BOOLEAN /\ id' \in BOOLEAN /\ port # NoDisk
  BY PortResetFacts DEF UmsInv
<1>3. /\ ums' \in UmsStates /\ ums'.init_done = ums.init_done /\ ums'.mounted = ums.mounted
      /\ ums'.old_udd = port /\ (ums.init_done => port = ums.old_udd)
  BY DEF UmsInv, DiskTypeOK, UmsStates, Opened, SameDisk
<1>4. DiskTypeOK'
  BY <1>1, <1>2, <1>3 DEF UmsInv, DiskTypeOK, ghosts
<1>5. ControlInv'
  BY <1>1, <1>3 DEF UmsInv, ControlInv
<1>6. DiskInv'
  BY <1>1, <1>2, <1>3 DEF UmsInv, DiskInv, Mounting, ghosts
<1>7. ChunksInv' /\ OnlyHomeDisk' /\ RequestIsWhole'
  BY <1>1, <1>3 DEF UmsInv, ChunksInv, OnlyHomeDisk, RequestIsWhole, ghosts
<1>. QED  BY <1>4, <1>5, <1>6, <1>7 DEF UmsInv

LEMMA InitTriesInv == ASSUME UmsInv, InitTries PROVE UmsInv'
<1>1. /\ pc = "start" /\ job.op = "init" /\ ~ums.init_done
      /\ handshake_mode' = 1 /\ UNCHANGED <<port, unplug_device, ghosts>>
  BY DEF InitTries
<1>2. CASE PortReset(TRUE) /\ Opened /\ Probe
  BY <1>1, <1>2, OpenedInv
<1>3. CASE /\ pc' = "nextport" /\ UNCHANGED job
           /\ \/ PortReset(TRUE) /\ OpenFails
              \/ PortReset(FALSE) /\ UNCHANGED ums
  <2>1. addressed' \in BOOLEAN /\ id' \in BOOLEAN /\ (addressed' => port # NoDisk)
    BY <1>3, PortResetFacts DEF UmsInv
  <2>2. ums' \in UmsStates /\ ~ums'.init_done /\ ums'.mounted = ums.mounted
    BY <1>1, <1>3 DEF UmsInv, DiskTypeOK, UmsStates, OpenFails
  <2>3. DiskTypeOK'
    BY <1>1, <1>3, <2>1, <2>2 DEF UmsInv, DiskTypeOK, ghosts
  <2>4. ControlInv'
    BY <1>1, <1>3, <2>2 DEF UmsInv, ControlInv
  <2>5. DiskInv'
    BY <1>1, <1>3, <2>1, <2>2 DEF UmsInv, DiskInv, Mounting
  <2>6. ChunksInv' /\ OnlyHomeDisk' /\ RequestIsWhole'
    BY <1>1, <1>3, <2>2 DEF UmsInv, ChunksInv, OnlyHomeDisk, RequestIsWhole, ghosts
  <2>. QED  BY <2>3, <2>4, <2>5, <2>6 DEF UmsInv
<1>. QED  BY <1>2, <1>3 DEF InitTries

(* A request goes on, or starts over, with a command for its current       *)
(* chunk, or with a turn of its loop.                                      *)
LEMMA GoesOnInv ==
    ASSUME UmsInv, pc' \in {"try", "cycle"}, job' \in Jobs, ~job'.probing, ~job'.result,
           job'.op = job.op, job.op \in {"read", "write", "stress"},
           pc' = "try" => job.op # "stress",
           DiskTypeOK', ChunksInv', OnlyHomeDisk', home' = home,
           ums'.mounted => ums'.init_done,
           ums'.init_done, ums'.old_udd = home, handshake_mode' = 0,
           addressed' => port' # NoDisk,
           addressed' /\ port' # ums'.old_udd => pc' = "try" /\ unplug_device'
    PROVE  UmsInv'
<1>1. ControlInv'
  BY DEF ControlInv
<1>2. DiskInv'
  BY DEF DiskInv, Mounting
<1>3. RequestIsWhole'
  BY DEF RequestIsWhole
<1>. QED  BY <1>1, <1>2, <1>3 DEF UmsInv

LEMMA SectorsInv == ASSUME UmsInv, Sectors PROVE UmsInv'
<1>1. pc = "start" /\ job.op \in {"read", "write", "stress"}
  BY DEF Sectors, UmsInv, ControlInv, Ops
<1>2. UNCHANGED <<port, addressed, id, handshake_mode, unplug_device, ums, home, touched>>
  BY DEF Sectors, hardware, driver, ghosts
<1>3. ~job.probing /\ job.chunk = 1 /\ ~job.result
  BY <1>1, OpFacts DEF UmsInv, ControlInv
<1>4. CASE ums.mounted
  <2>1. pc' = (IF job.op = "stress" THEN "cycle" ELSE "try") /\ job' = NewCycle(job)
    BY <1>4 DEF Sectors
  <2>2. /\ job' \in Jobs /\ job'.op = job.op /\ ~job'.probing /\ job'.chunk = 1 /\ ~job'.result
        /\ job'.moved = job.moved /\ job'.refused = job.refused
    BY <1>3, <2>1, NewCycleFacts DEF UmsInv, DiskTypeOK
  <2>3. DiskTypeOK'
    BY <1>2, <2>1, <2>2 DEF UmsInv, DiskTypeOK
  <2>4. ChunksInv' /\ OnlyHomeDisk'
    BY <1>2, <2>2 DEF UmsInv, ChunksInv, OnlyHomeDisk
  <2>. QED  BY <1>1, <1>2, <1>3, <1>4, <2>1, <2>2, <2>3, <2>4, GoesOnInv DEF UmsInv, DiskInv
<1>5. CASE ~ums.mounted
  <2>1. Finish(FALSE)
    BY <1>5 DEF Sectors
  <2>2. DiskTypeOK' /\ OnlyHomeDisk'
    BY <1>2, <2>1, FinishFacts DEF UmsInv, DiskTypeOK, OnlyHomeDisk
  <2>. QED  BY <1>1, <1>2, <1>3, <2>1, <2>2, FinishInv DEF UmsInv, DiskInv, Ops
<1>. QED  BY <1>4, <1>5

LEMMA TurnInv == ASSUME UmsInv, Turn PROVE UmsInv'
<1>1. /\ pc = "try" /\ ~unplug_device
      /\ UNCHANGED <<port, addressed, id, handshake_mode, ums, home, touched>>
  BY DEF Turn, hardware, ghosts
<1>2. job.op \in {"read", "write"} /\ ~job.probing /\ ums.init_done /\ ~job.result
  BY <1>1 DEF UmsInv, ControlInv
<1>3. /\ unplug_device' \in BOOLEAN
      /\ \/ pc' = "try" /\ UNCHANGED job
         \/ pc' = "cycle" /\ job' = StartOver
  BY <1>1 DEF Turn, UmsInv, DiskTypeOK
<1>4. /\ job' \in Jobs /\ job'.op = job.op /\ ~job'.probing /\ ~job'.result /\ ChunksInv'
  BY <1>1, <1>2, <1>3, StartOverFacts DEF UmsInv, DiskTypeOK, ChunksInv, Ops
<1>5. DiskTypeOK' /\ OnlyHomeDisk'
  BY <1>1, <1>3, <1>4 DEF UmsInv, DiskTypeOK, OnlyHomeDisk
<1>. QED  BY <1>1, <1>2, <1>3, <1>4, <1>5, GoesOnInv DEF UmsInv, DiskInv

(* The three ways unplug_procedure ends without a mount. *)
LEMMA UnplugTurnInv ==
    ASSUME UmsInv, pc = "try", unplug_device, NEW ok \in BOOLEAN, PortReset(ok),
           \/ UNCHANGED ums
           \/ OpenFails,
           handshake_mode' = 0,
           UNCHANGED <<port, unplug_device, pc, job, ghosts>>
    PROVE  UmsInv'
<1>1. job.op \in {"read", "write"} /\ ~job.probing /\ ums.init_done /\ ~job.result
  BY DEF UmsInv, ControlInv
<1>2. addressed' \in BOOLEAN /\ id' \in BOOLEAN /\ (addressed' => port # NoDisk)
  BY PortResetFacts DEF UmsInv
<1>3. /\ ums' \in UmsStates /\ ums'.init_done /\ ums'.mounted = ums.mounted
      /\ ums'.old_udd = ums.old_udd
  BY <1>1 DEF UmsInv, DiskTypeOK, UmsStates, OpenFails, SameDisk
<1>4. DiskTypeOK'
  BY <1>2, <1>3 DEF UmsInv, DiskTypeOK, ghosts
<1>5. ChunksInv' /\ OnlyHomeDisk'
  BY <1>1, <1>3 DEF UmsInv, ChunksInv, OnlyHomeDisk, ghosts
<1>. QED  BY <1>1, <1>2, <1>3, <1>4, <1>5, GoesOnInv DEF UmsInv, DiskInv, DiskTypeOK, ghosts

LEMMA UnplugProcedureInv ==
    ASSUME UmsInv, UnplugResetFails \/ UnplugChanged \/ UnplugOpens \/ UnplugOpenFails
    PROVE  UmsInv'
<1>1. CASE UnplugResetFails
  BY <1>1, UnplugTurnInv DEF UnplugResetFails, UmsInv, ControlInv, DiskInv, driver
<1>2. CASE UnplugChanged
  BY <1>2, UnplugTurnInv DEF UnplugChanged
<1>3. CASE UnplugOpens
  BY <1>3, OpenedInv DEF UnplugOpens, UmsInv, ControlInv
<1>4. CASE UnplugOpenFails
  BY <1>4, UnplugTurnInv DEF UnplugOpenFails
<1>. QED  BY <1>1, <1>2, <1>3, <1>4

-----------------------------------------------------------------------------
(* Where the thread is in a command, and which disk it can reach. *)
LEMMA CycleFacts ==
    ASSUME UmsInv, pc \in {"cycle", "reset"}
    PROVE  /\ job \in Jobs /\ ~job.result /\ job.op \in Ops
           /\ \/ job.op = "init" /\ job.probing /\ ~ums.init_done
              \/ job.op \in {"read", "write"} /\ ums.init_done
              \/ job.op = "stress" /\ ~job.probing /\ ums.init_done
           /\ addressed => port = ums.old_udd /\ port # NoDisk
           /\ ~job.probing => handshake_mode = 0 /\ ums.old_udd = home
<1>1. job \in Jobs /\ ~job.result
  BY DEF UmsInv, DiskTypeOK, ControlInv
<1>2. \/ job.op = "init" /\ job.probing /\ ~ums.init_done
      \/ job.op \in {"read", "write"} /\ ums.init_done
      \/ job.op = "stress" /\ ~job.probing /\ ums.init_done
  BY DEF UmsInv, ControlInv
<1>3. addressed => port = ums.old_udd /\ port # NoDisk
  BY <1>2 DEF UmsInv, DiskInv, Mounting
<1>4. ~job.probing => handshake_mode = 0 /\ ums.old_udd = home
  BY <1>2 DEF UmsInv, DiskInv
<1>. QED  BY <1>1, <1>2, <1>3, <1>4 DEF Ops

(* A mount that fails. *)
LEMMA MountFailsInv ==
    ASSUME UmsInv, pc \in {"cycle", "reset"}, job.probing, NEW r, MountFails(r),
           UNCHANGED <<port, addressed, id, home, touched>>, unplug_device' \in BOOLEAN
    PROVE  UmsInv'
<1>1. CASE r # "timeout" /\ job.again
  <2>1. PICK j : j = [job EXCEPT !.again = FALSE]
    OBVIOUS
  <2>2. /\ j \in Jobs /\ j.probing = job.probing /\ j.op = job.op /\ j.chunk = job.chunk
        /\ j.moved = job.moved /\ j.refused = job.refused /\ j.result = job.result
    BY <2>1, CycleFacts DEF Jobs
  <2>3. pc' = "cycle" /\ job' = NewCycle(j) /\ UNCHANGED <<handshake_mode, ums>>
    BY <1>1, <2>1 DEF MountFails
  <2>4. /\ job' \in Jobs /\ job'.probing = job.probing /\ job'.op = job.op
        /\ job'.chunk = job.chunk /\ job'.moved = job.moved /\ job'.refused = job.refused
        /\ job'.result = job.result
    BY <2>2, <2>3, NewCycleFacts
  <2>5. DiskTypeOK'
    BY <2>3, <2>4 DEF UmsInv, DiskTypeOK
  <2>6. ControlInv'
    BY <2>3, <2>4, CycleFacts DEF UmsInv, ControlInv
  <2>7. DiskInv'
    BY <2>3, <2>4, CycleFacts DEF UmsInv, DiskInv, Mounting
  <2>8. ChunksInv' /\ OnlyHomeDisk' /\ RequestIsWhole'
    BY <2>3, <2>4 DEF UmsInv, ChunksInv, OnlyHomeDisk, RequestIsWhole
  <2>. QED  BY <2>5, <2>6, <2>7, <2>8 DEF UmsInv
<1>2. CASE ~(r # "timeout" /\ job.again)
  <2>1. /\ ums' = [ums EXCEPT !.mounted = FALSE, !.usb_fd = FALSE]
        /\ IF job.op = "init"
           THEN pc' = "nextport" /\ UNCHANGED <<job, handshake_mode>>
           ELSE /\ pc' = "try"
                /\ job' = [job EXCEPT !.probing = FALSE]
                /\ handshake_mode' = 0
    BY <1>2 DEF MountFails
  <2>2. /\ ums' \in UmsStates /\ ums'.init_done = ums.init_done /\ ~ums'.mounted
        /\ ums'.old_udd = ums.old_udd
    BY <2>1 DEF UmsInv, DiskTypeOK, UmsStates
  <2>3. CASE job.op = "init"
    <3>1. DiskTypeOK'
      BY <2>1, <2>2, <2>3 DEF UmsInv, DiskTypeOK
    <3>2. ControlInv'
      BY <2>1, <2>2, <2>3, CycleFacts DEF UmsInv, ControlInv
    <3>3. DiskInv'
      BY <2>1, <2>2, <2>3, CycleFacts DEF UmsInv, DiskInv, Mounting
    <3>4. ChunksInv' /\ OnlyHomeDisk' /\ RequestIsWhole'
      BY <2>1, <2>2, <2>3 DEF UmsInv, ChunksInv, OnlyHomeDisk, RequestIsWhole
    <3>. QED  BY <3>1, <3>2, <3>3, <3>4 DEF UmsInv
  <2>4. CASE job.op # "init"
    <3>1. /\ job' \in Jobs /\ ~job'.probing /\ job'.op = job.op /\ job'.chunk = job.chunk
          /\ job'.moved = job.moved /\ job'.refused = job.refused /\ ~job'.result
      BY <2>1, <2>4, CycleFacts DEF Jobs
    <3>2. DiskTypeOK'
      BY <2>1, <2>2, <2>4, <3>1 DEF UmsInv, DiskTypeOK
    <3>3. ChunksInv' /\ OnlyHomeDisk'
      BY <2>2, <3>1 DEF UmsInv, ChunksInv, OnlyHomeDisk
    <3>4. ums.init_done /\ ums.old_udd = home /\ job.op \in {"read", "write"}
      BY <2>4, CycleFacts DEF UmsInv, DiskInv
    <3>. QED  BY <2>1, <2>2, <2>4, <3>1, <3>2, <3>3, <3>4, CycleFacts, GoesOnInv
  <2>. QED  BY <2>3, <2>4
<1>. QED  BY <1>1, <1>2

(* A command that failed for good. *)
LEMMA CycleReturnsInv ==
    ASSUME UmsInv, pc \in {"cycle", "reset"},
           NEW r \in {"ok", "timeout", "nodev", "bad", "sense"}, CycleReturns(r),
           UNCHANGED <<port, addressed, id, home>>, unplug_device' \in BOOLEAN,
           job.probing => UNCHANGED touched, ums.init_done => touched' \subseteq {home}
    PROVE  UmsInv'
<1>1. CASE job.probing
  BY <1>1, MountFailsInv DEF CycleReturns
<1>2. CASE ~job.probing
  <2>1. UNCHANGED <<handshake_mode, ums>>
    BY <1>2 DEF CycleReturns
  <2>2. OnlyHomeDisk'
    BY <2>1 DEF OnlyHomeDisk
  <2>3. CASE job.op = "stress"
    <3>1. Finish(FALSE)
      BY <1>2, <2>3 DEF CycleReturns
    <3>2. DiskTypeOK'
      BY <2>1, <3>1, FinishFacts DEF UmsInv, DiskTypeOK
    <3>. QED  BY <1>2, <2>1, <2>2, <3>1, <3>2, CycleFacts, FinishInv DEF UmsInv, DiskInv
  <2>4. CASE job.op # "stress"
    <3>1. pc' = "try" /\ job' = [job EXCEPT !.retval = r]
      BY <1>2, <2>4 DEF CycleReturns
    <3>2. /\ job' \in Jobs /\ ~job'.probing /\ job'.op = job.op /\ job'.chunk = job.chunk
          /\ job'.moved = job.moved /\ job'.refused = job.refused /\ ~job'.result
      BY <1>2, <3>1, CycleFacts DEF Jobs
    <3>3. DiskTypeOK' /\ ChunksInv'
      BY <2>1, <3>1, <3>2 DEF UmsInv, DiskTypeOK, ChunksInv
    <3>. QED  BY <1>2, <2>1, <2>2, <2>4, <3>1, <3>2, <3>3, CycleFacts, GoesOnInv
              DEF UmsInv, DiskInv
  <2>. QED  BY <2>3, <2>4
<1>. QED  BY <1>1, <1>2

(* What a command writes reaches the disk of the mount. *)
LEMMA WrittenFacts ==
    ASSUME UmsInv, pc = "cycle", \/ UNCHANGED touched
                                 \/ Answers /\ touched' = Written(port)
    PROVE  /\ job.probing => UNCHANGED touched
           /\ ums.init_done => touched' \subseteq {home}
<1>1. ums.init_done => touched \subseteq {home}
  BY DEF UmsInv, OnlyHomeDisk
<1>2. ~job.probing /\ Answers => port = home
  BY CycleFacts DEF Answers
<1>. QED  BY <1>1, <1>2 DEF Written

LEMMA MountCompletesInv == ASSUME UmsInv, MountCompletes PROVE UmsInv'
<1>1. /\ pc = "cycle" /\ job.probing /\ Answers
      /\ ums' = [ums EXCEPT !.mounted = TRUE, !.init_done = TRUE]
      /\ handshake_mode' = 0 /\ unplug_device' = FALSE
      /\ UNCHANGED <<port, addressed, id>>
  BY DEF MountCompletes, Mounted, hardware
<1>2. ums' \in UmsStates /\ ums'.init_done /\ ums'.mounted /\ ums'.old_udd = ums.old_udd
  BY <1>1 DEF UmsInv, DiskTypeOK, UmsStates
<1>3. port = ums.old_udd /\ port # NoDisk
  BY <1>1, CycleFacts DEF Answers
<1>4. CASE job.op = "init"
  <2>1. Finish(TRUE) /\ home' = port /\ touched' = {}
    BY <1>4 DEF MountCompletes
  <2>2. /\ pc' = "done" /\ job' \in Jobs /\ ~job'.probing
        /\ job'.op = job.op /\ job'.chunk = job.chunk
    <3>1. job \in Jobs
      BY DEF UmsInv, DiskTypeOK
    <3>. QED  BY <2>1, <3>1, FinishFacts
  <2>3. DiskTypeOK'
    BY <1>1, <1>2, <2>1, <2>2 DEF UmsInv, DiskTypeOK
  <2>4. ControlInv'
    BY <1>1, <1>2, <1>4, <2>2 DEF UmsInv, ControlInv
  <2>5. DiskInv'
    BY <1>1, <1>2, <1>3, <2>1, <2>2 DEF DiskInv, Mounting
  <2>6. job'.chunk = 1
    BY <1>4, <2>2 DEF UmsInv, ControlInv
  <2>7. ChunksInv' /\ OnlyHomeDisk' /\ RequestIsWhole'
    BY <1>4, <2>1, <2>2, <2>6 DEF ChunksInv, OnlyHomeDisk, RequestIsWhole
  <2>. QED  BY <2>3, <2>4, <2>5, <2>7 DEF UmsInv
<1>5. CASE job.op # "init"
  <2>1. pc' = "cycle" /\ job' = StartOver /\ UNCHANGED <<home, touched>>
    BY <1>5 DEF MountCompletes, ghosts
  <2>2. job.op \in {"read", "write"} /\ ums.init_done /\ ums.old_udd = home
    BY <1>1, <1>5, CycleFacts DEF UmsInv, DiskInv
  <2>3. /\ job' \in Jobs /\ job'.op = job.op /\ ~job'.probing /\ job'.chunk = 1
        /\ ~job'.refused /\ ~job'.result
    BY <2>1, <2>2, StartOverFacts DEF Ops
  <2>4. DiskTypeOK'
    BY <1>1, <1>2, <2>1, <2>3 DEF UmsInv, DiskTypeOK
  <2>5. ChunksInv'
    BY <2>3 DEF ChunksInv
  <2>6. OnlyHomeDisk'
    BY <2>1, <2>2 DEF UmsInv, OnlyHomeDisk
  <2>. QED  BY <1>1, <1>2, <1>3, <2>1, <2>2, <2>3, <2>4, <2>5, <2>6, GoesOnInv
<1>. QED  BY <1>4, <1>5

LEMMA MovedFacts ==
    ASSUME job \in Jobs, NEW refused \in BOOLEAN, port \in Disks
    PROVE  /\ Moved(refused) \in Jobs
           /\ Moved(refused).op = job.op /\ Moved(refused).probing = job.probing
           /\ Moved(refused).chunk = job.chunk /\ Moved(refused).result = job.result
           /\ Moved(refused).refused = (job.refused \/ refused)
           /\ ~refused => Moved(refused).moved[job.chunk] = port
           /\ \A c \in 1..Chunks : c # job.chunk => Moved(refused).moved[c] = job.moved[c]
  BY DEF Moved, Jobs

LEMMA ChunkCompletesInv == ASSUME UmsInv, ChunkCompletes PROVE UmsInv'
<1>1. /\ pc = "cycle" /\ ~job.probing /\ Answers /\ touched' = Written(port)
      /\ UNCHANGED <<port, addressed, id, handshake_mode, unplug_device, ums, home>>
  BY DEF ChunkCompletes, hardware, driver
<1>2. PICK refused \in BOOLEAN :
         IF job.chunk < Chunks
         THEN pc' = "cycle" /\ job' = NewCycle([Moved(refused) EXCEPT !.chunk = @ + 1])
         ELSE pc' = "done" /\ job' = [Moved(refused) EXCEPT !.result = TRUE]
  BY DEF ChunkCompletes
<1>3. /\ job \in Jobs /\ ~job.result /\ job.op \in {"read", "write", "stress"}
      /\ ums.init_done /\ ums.old_udd = home /\ handshake_mode = 0
      /\ port = home /\ port # NoDisk
  BY <1>1, CycleFacts DEF Answers
<1>4. port \in Disks
  BY <1>3 DEF UmsInv, DiskTypeOK
<1>5. PICK m : m = Moved(refused)
  OBVIOUS
<1>6. /\ m \in Jobs /\ m.op = job.op /\ ~m.probing /\ m.chunk = job.chunk /\ ~m.result
      /\ ~m.refused => ~job.refused /\ m.moved[job.chunk] = home
      /\ \A c \in 1..Chunks : c # job.chunk => m.moved[c] = job.moved[c]
  BY <1>1, <1>3, <1>4, <1>5, MovedFacts
<1>7. OnlyHomeDisk'
  BY <1>1, <1>3, WrittenFacts DEF OnlyHomeDisk
<1>8. job.chunk \in 1..Chunks /\ Chunks \in Nat
  BY <1>3, UmsAssumption DEF Jobs
<1>9. ~m.refused => \A c \in 1..Chunks : c <= job.chunk => m.moved[c] = home
  BY <1>6, <1>8 DEF UmsInv, ChunksInv
<1>10. CASE job.chunk < Chunks
  <2>1. PICK j : j = [m EXCEPT !.chunk = job.chunk + 1]
    OBVIOUS
  <2>2. /\ j \in Jobs /\ j.op = job.op /\ ~j.probing /\ j.chunk = job.chunk + 1 /\ ~j.result
        /\ j.moved = m.moved /\ j.refused = m.refused
    BY <1>6, <1>8, <1>10, <2>1 DEF Jobs
  <2>3. pc' = "cycle" /\ job' = NewCycle(j)
    BY <1>2, <1>5, <1>6, <1>10, <2>1
  <2>4. /\ job' \in Jobs /\ job'.op = job.op /\ ~job'.probing /\ job'.chunk = job.chunk + 1
        /\ ~job'.result /\ job'.moved = m.moved /\ job'.refused = m.refused
    BY <2>2, <2>3, NewCycleFacts
  <2>5. DiskTypeOK'
    BY <1>1, <2>3, <2>4 DEF UmsInv, DiskTypeOK
  <2>6. ChunksInv'
    BY <1>1, <1>8, <1>9, <2>4 DEF ChunksInv
  <2>. QED  BY <1>1, <1>3, <1>7, <2>3, <2>4, <2>5, <2>6, GoesOnInv DEF UmsInv, DiskInv
<1>11. CASE ~(job.chunk < Chunks)
  <2>1. pc' = "done" /\ job' = [m EXCEPT !.result = TRUE]
    BY <1>2, <1>5, <1>11
  <2>2. /\ job' \in Jobs /\ job'.op = job.op /\ ~job'.probing /\ job'.chunk = job.chunk
        /\ job'.moved = m.moved /\ job'.refused = m.refused
    BY <1>6, <2>1 DEF Jobs
  <2>3. DiskTypeOK'
    BY <1>1, <2>1, <2>2 DEF UmsInv, DiskTypeOK
  <2>4. ControlInv'
    BY <1>3, <2>1, <2>2 DEF ControlInv
  <2>5. DiskInv'
    BY <1>1, <1>3, <2>1, <2>2 DEF UmsInv, DiskInv, Mounting
  <2>6. ChunksInv' /\ RequestIsWhole'
    BY <1>1, <1>8, <1>9, <1>11, <2>2 DEF ChunksInv, RequestIsWhole
  <2>. QED  BY <1>7, <2>3, <2>4, <2>5, <2>6 DEF UmsInv
<1>. QED  BY <1>10, <1>11

(* A command that is tried again, or whose disk is reset. *)
LEMMA RetryInv ==
    ASSUME UmsInv, pc \in {"cycle", "reset"}, pc' \in {"cycle", "reset"},
           job' \in Jobs, job'.probing = job.probing, job'.op = job.op,
           job'.chunk = job.chunk, job'.moved = job.moved,
           job'.refused = job.refused, job'.result = job.result,
           UNCHANGED <<port, handshake_mode, unplug_device, ums, home>>,
           id' \in BOOLEAN, addressed' \in BOOLEAN,
           addressed' => port = ums.old_udd /\ port # NoDisk,
           ums.init_done => touched' \subseteq {home}
    PROVE  UmsInv'
<1>1. DiskTypeOK'
  BY DEF UmsInv, DiskTypeOK
<1>2. ControlInv'
  BY CycleFacts DEF UmsInv, ControlInv
<1>3. DiskInv'
  BY DEF UmsInv, DiskInv, Mounting
<1>4. ChunksInv' /\ OnlyHomeDisk' /\ RequestIsWhole'
  BY DEF UmsInv, ChunksInv, OnlyHomeDisk, RequestIsWhole
<1>. QED  BY <1>1, <1>2, <1>3, <1>4 DEF UmsInv

LEMMA NotReadyInv == ASSUME UmsInv, NotReady PROVE UmsInv'
  BY MountFailsInv DEF NotReady, hardware, ghosts, UmsInv, DiskTypeOK

LEMMA TransferFailsInv == ASSUME UmsInv, TransferFails PROVE UmsInv'
<1>1. /\ pc = "cycle" /\ UNCHANGED <<port, addressed, id, home>>
      /\ \/ UNCHANGED touched
         \/ Answers /\ touched' = Written(port)
  BY DEF TransferFails, hardware
<1>2. CASE Failure = "nodev"
  BY <1>1, <1>2, WrittenFacts, CycleReturnsInv DEF TransferFails
<1>3. CASE Failure # "nodev"
  <2>1. /\ pc' = "reset" /\ job' = [job EXCEPT !.retval = "timeout"]
        /\ UNCHANGED <<handshake_mode, unplug_device, ums>>
    BY <1>3 DEF TransferFails, driver
  <2>2. /\ job' \in Jobs /\ job'.probing = job.probing /\ job'.op = job.op
        /\ job'.chunk = job.chunk /\ job'.moved = job.moved
        /\ job'.refused = job.refused /\ job'.result = job.result
    BY <1>1, <2>1, CycleFacts DEF Jobs
  <2>. QED  BY <1>1, <2>1, <2>2, WrittenFacts, CycleFacts, RetryInv DEF UmsInv, DiskTypeOK
<1>. QED  BY <1>2, <1>3

LEMMA StatusIsBadInv == ASSUME UmsInv, StatusIsBad PROVE UmsInv'
<1>1. /\ pc = "cycle" /\ pc' = "reset" /\ Answers /\ touched' = Written(port)
      /\ job' = [job EXCEPT !.retval = "bad"]
      /\ UNCHANGED <<port, addressed, id, home, handshake_mode, unplug_device, ums>>
  BY DEF StatusIsBad, hardware, driver
<1>2. /\ job' \in Jobs /\ job'.probing = job.probing /\ job'.op = job.op
      /\ job'.chunk = job.chunk /\ job'.moved = job.moved
      /\ job'.refused = job.refused /\ job'.result = job.result
  BY <1>1, CycleFacts DEF Jobs
<1>. QED  BY <1>1, <1>2, WrittenFacts, CycleFacts, RetryInv DEF UmsInv, DiskTypeOK

LEMMA LastTryInv == ASSUME UmsInv, LastTry PROVE UmsInv'
<1>1. /\ pc = "reset" /\ UNCHANGED <<port, addressed, id, home, touched>>
      /\ ums.init_done => touched' \subseteq {home}
  BY DEF LastTry, hardware, ghosts, UmsInv, OnlyHomeDisk
<1>2. PICK r \in {"ok", "timeout", "nodev", "bad", "sense"} :
         CycleReturns(r) /\ unplug_device' \in BOOLEAN
  BY <1>1, CycleFacts DEF LastTry, Jobs, UmsInv, DiskTypeOK
<1>. QED  BY <1>1, <1>2, CycleReturnsInv

LEMMA SoftResetInv == ASSUME UmsInv, SoftReset PROVE UmsInv'
<1>1. /\ pc = "reset" /\ pc' = "cycle" /\ job.tries > 1
      /\ job' = [job EXCEPT !.tries = job.tries - 1]
      /\ UNCHANGED <<port, addressed, id, home, touched, handshake_mode, unplug_device, ums>>
  BY DEF SoftReset, Retry, hardware, driver, ghosts
<1>2. /\ job' \in Jobs /\ job'.probing = job.probing /\ job'.op = job.op
      /\ job'.chunk = job.chunk /\ job'.moved = job.moved
      /\ job'.refused = job.refused /\ job'.result = job.result
  BY <1>1, CycleFacts DEF Jobs
<1>. QED  BY <1>1, <1>2, CycleFacts, RetryInv DEF UmsInv, DiskTypeOK, OnlyHomeDisk

(* Only a mount resets the port, and the disk it mounts is in it. *)
LEMMA HardResetInv == ASSUME UmsInv, HardReset PROVE UmsInv'
<1>1. /\ pc = "reset" /\ pc' \in {"cycle", "reset"} /\ job.tries > 1 /\ Failure = "timeout"
      /\ job' \in {[job EXCEPT !.tries = job.tries - 1],
                   [job EXCEPT !.tries = job.tries - 1, !.retval = "timeout"]}
      /\ UNCHANGED <<port, home, touched, handshake_mode, unplug_device, ums>>
  BY DEF HardReset, Retry, driver, ghosts
<1>2. PICK ok \in BOOLEAN : PortReset(ok)
  BY DEF HardReset
<1>3. addressed' \in BOOLEAN /\ id' \in BOOLEAN /\ (addressed' => port # NoDisk)
  BY <1>2, PortResetFacts DEF UmsInv
<1>4. job.probing
  BY <1>1, CycleFacts DEF Failure
<1>5. port \in {ums.old_udd, NoDisk}
  BY <1>1, <1>4 DEF UmsInv, DiskInv, Mounting
<1>6. /\ job' \in Jobs /\ job'.probing = job.probing /\ job'.op = job.op
      /\ job'.chunk = job.chunk /\ job'.moved = job.moved
      /\ job'.refused = job.refused /\ job'.result = job.result
  <2>1. job \in Jobs
    BY <1>1, CycleFacts
  <2>2. PICK n \in Nat : n = job.tries - 1
    BY <1>1, <2>1 DEF Jobs
  <2>3. CASE job' = [job EXCEPT !.tries = n]
    BY <2>1, <2>3 DEF Jobs
  <2>4. CASE job' = [job EXCEPT !.tries = n, !.retval = "timeout"]
    BY <2>1, <2>4 DEF Jobs
  <2>. QED  BY <1>1, <2>2, <2>3, <2>4
<1>. QED  BY <1>1, <1>3, <1>5, <1>6, RetryInv DEF UmsInv, OnlyHomeDisk

LEMMA ResetFailsInv == ASSUME UmsInv, ResetFails PROVE UmsInv'
<1>1. /\ pc = "reset" /\ UNCHANGED <<port, addressed, id, home, touched>>
      /\ ums.init_done => touched' \subseteq {home}
      /\ unplug_device' \in BOOLEAN /\ CycleReturns("nodev")
  BY DEF ResetFails, hardware, ghosts, UmsInv, OnlyHomeDisk
<1>. QED  BY <1>1, CycleReturnsInv

LEMMA CommandInv == ASSUME UmsInv, Command PROVE UmsInv'
  BY InitAgainInv, InitTriesInv, NextPortInv, SectorsInv, TurnInv, UnplugProcedureInv,
     MountCompletesInv, NotReadyInv, ChunkCompletesInv, TransferFailsInv, StatusIsBadInv,
     LastTryInv, SoftResetInv, HardResetInv, ResetFailsInv
  DEF Command

(* A command leaves the loop's messages alone and never ends a request:    *)
(* that is left to Done.                                                   *)
LEMMA CommandIsBusy == ASSUME DiskTypeOK, Command PROVE pc # "idle" /\ pc' # "idle"
<1>1. pc # "idle"
  BY DEF Command, InitAgain, InitTries, NextPort, Sectors, Turn, UnplugResetFails, UnplugChanged,
         UnplugOpens, UnplugOpenFails, MountCompletes, NotReady, ChunkCompletes, TransferFails,
         StatusIsBad, LastTry, SoftReset, HardReset, ResetFails
<1>2. ASSUME NEW r, CycleReturns(r) \/ MountFails(r) PROVE pc' # "idle"
  BY <1>2 DEF CycleReturns, MountFails, Finish
<1>3. CASE InitAgain \/ InitTries \/ NextPort \/ Sectors
  BY <1>3 DEF InitAgain, InitTries, NextPort, Sectors, Finish, Probe
<1>4. CASE Turn \/ UnplugResetFails \/ UnplugChanged \/ UnplugOpens \/ UnplugOpenFails
  BY <1>4 DEF Turn, UnplugResetFails, UnplugChanged, UnplugOpens, UnplugOpenFails, Probe
<1>5. CASE MountCompletes \/ ChunkCompletes \/ StatusIsBad \/ SoftReset \/ HardReset
  BY <1>5 DEF MountCompletes, ChunkCompletes, StatusIsBad, SoftReset, HardReset, Retry, Finish
<1>6. CASE NotReady \/ TransferFails \/ LastTry \/ ResetFails
  BY <1>2, <1>6 DEF NotReady, TransferFails, LastTry, ResetFails
<1>. QED  BY <1>1, <1>3, <1>4, <1>5, <1>6 DEF Command

-----------------------------------------------------------------------------
(* What receiving a message leaves. *)
LEMMA ReceiveFacts ==
    ASSUME IInv, NEW ops, Receive(ops)
    PROVE  /\ pc = "idle" /\ Head(queue) \in Messages /\ Head(queue).op \in ops
           /\ queue' \in Seq(Messages)
           /\ ~discovered => /\ Head(queue).op \in {"open", "tick"}
                             /\ \A i \in DOMAIN queue' : queue'[i].op \in {"open", "tick"}
<1>1. queue \in Seq(Messages) /\ queue # <<>> /\ queue' = Tail(queue)
  BY DEF IInv, LoopTypeOK, Receive
<1>2. /\ Head(queue) = queue[1] /\ 1 \in DOMAIN queue /\ queue[1] \in Messages
      /\ Tail(queue) \in Seq(Messages)
      /\ \A i \in DOMAIN Tail(queue) : i + 1 \in DOMAIN queue /\ Tail(queue)[i] = queue[i + 1]
  BY <1>1
<1>. QED  BY <1>1, <1>2 DEF Receive, IInv, QueueInv

LEMMA LoopInitInv == Init => IInv
<1> SUFFICES ASSUME Init PROVE IInv
  OBVIOUS
<1>1. DiskTypeOK
  BY NoJobFacts DEF Init, UmsInit, DiskTypeOK, UmsStates
<1>2. ControlInv /\ DiskInv
  BY NoJobFacts DEF Init, UmsInit, ControlInv, DiskInv, Mounting
<1>3. ChunksInv /\ OnlyHomeDisk /\ RequestIsWhole
  BY NoJobFacts DEF Init, UmsInit, ChunksInv, OnlyHomeDisk, RequestIsWhole
<1>4. LoopTypeOK
  BY EmptySeq DEF Init, LoopTypeOK
<1>5. QueueInv
  BY DEF Init, UmsInit, QueueInv
<1>6. WatchdogAlive
  BY DEF Init, WatchdogAlive
<1>. QED  BY <1>1, <1>2, <1>3, <1>4, <1>5, <1>6 DEF IInv, UmsInv

LEMMA SendInv == ASSUME IInv, NEW c \in Clients, Send(c) PROVE IInv'
<1>1. UmsInv'
  BY UmsStutter DEF IInv, Send
<1>2. PICK op \in Requests(c) : queue' = Append(queue, [op |-> op, from |-> c])
  BY DEF Send
<1>3. /\ op \in Ops \cup {"open", "close", "umount", "tick"}
      /\ opened = {} => op = "open"
  BY DEF Requests
<1>4. PICK m : m = [op |-> op, from |-> c]
  OBVIOUS
<1>m. m \in Messages /\ m.op = op
  BY <1>3, <1>4 DEF Messages
<1>5. /\ queue \in Seq(Messages) /\ queue' \in Seq(Messages) /\ queue' # <<>>
      /\ \A i \in DOMAIN queue' : (i \in DOMAIN queue /\ queue'[i] = queue[i]) \/ queue'[i] = m
  <2>1. queue \in Seq(Messages)
    BY DEF IInv, LoopTypeOK
  <2>. QED  BY <1>2, <1>4, <1>m, <2>1
<1>6. LoopTypeOK'
  BY <1>5 DEF Send, IInv, LoopTypeOK
<1>7. QueueInv'
  BY <1>3, <1>m, <1>5 DEF Send, IInv, QueueInv, umsVars, driver
<1>8. WatchdogAlive'
  BY <1>5 DEF WatchdogAlive
<1>. QED  BY <1>1, <1>6, <1>7, <1>8 DEF IInv

LEMMA TimerFiresInv == ASSUME IInv, TimerFires PROVE IInv'
<1>1. UmsInv'
  BY UmsStutter DEF IInv, TimerFires
<1>2. PICK m : m = [op |-> "tick", from |-> Nobody]
  OBVIOUS
<1>m. m \in Messages /\ m.op = "tick"
  BY <1>2 DEF Messages
<1>3. /\ queue' \in Seq(Messages) /\ queue' # <<>>
      /\ \A i \in DOMAIN queue' : queue'[i] = m
  BY <1>2, <1>m DEF TimerFires
<1>4. LoopTypeOK'
  BY <1>3 DEF TimerFires, IInv, LoopTypeOK
<1>5. QueueInv'
  BY <1>m, <1>3 DEF TimerFires, IInv, QueueInv, umsVars, driver
<1>6. WatchdogAlive'
  BY <1>3 DEF WatchdogAlive
<1>. QED  BY <1>1, <1>4, <1>5, <1>6 DEF IInv

(* The thread turns to a request of the sector interface. *)
LEMMA StartInv ==
    ASSUME IInv, NEW op \in Ops, pc = "idle", discovered,
           pc' = "start", job' = [NoJob EXCEPT !.op = op],
           queue' \in Seq(Messages), UNCHANGED <<hardware, driver, ghosts, discovered>>
    PROVE  IInv'
<1> USE DEF hardware, driver, ghosts
<1>1. job' \in Jobs /\ job'.op = op /\ ~job'.probing /\ job'.chunk = 1 /\ ~job'.refused /\ ~job'.result
  BY OpFacts
<1>2. DiskTypeOK'
  BY <1>1 DEF IInv, UmsInv, DiskTypeOK
<1>3. job = NoJob
  BY DEF IInv, UmsInv, ControlInv
<1>4. ControlInv'
  BY <1>1 DEF ControlInv
<1>5. DiskInv'
  BY <1>1, <1>3, NoJobFacts DEF IInv, UmsInv, DiskInv, Mounting
<1>6. ChunksInv' /\ OnlyHomeDisk' /\ RequestIsWhole'
  BY <1>1 DEF IInv, UmsInv, ChunksInv, OnlyHomeDisk, RequestIsWhole
<1>7. LoopTypeOK' /\ QueueInv' /\ WatchdogAlive'
  BY DEF IInv, LoopTypeOK, QueueInv, WatchdogAlive
<1>. QED  BY <1>2, <1>4, <1>5, <1>6, <1>7 DEF IInv, UmsInv

LEMMA UmsRequestInv == ASSUME IInv, UmsRequest PROVE IInv'
<1>1. /\ Receive(Ops) /\ pc' = "start" /\ job' = [NoJob EXCEPT !.op = Head(queue).op]
      /\ UNCHANGED <<hardware, driver, ghosts, discovered>>
  BY DEF UmsRequest, Start
<1>2. discovered
  BY <1>1, ReceiveFacts DEF Ops
<1>. QED  BY <1>1, <1>2, ReceiveFacts, StartInv

(* A client has its answer: the timer runs. *)
LEMMA AnsweredInv ==
    ASSUME UmsInv', queue' \in Seq(Messages), discovered' \in BOOLEAN, timer' = TRUE, QueueInv'
    PROVE  IInv'
  BY DEF IInv, LoopTypeOK, WatchdogAlive

(* The port is reset by the first open, when nothing is mounted yet. *)
LEMMA OpenInv == ASSUME IInv, Open PROVE IInv'
<1>1. /\ Receive({"open"}) /\ discovered' = TRUE /\ timer' = TRUE
      /\ UNCHANGED <<port, handshake_mode, unplug_device, ums, pc, job, home, touched>>
  BY DEF Open, Answer, driver, ghosts
<1>2. UmsInv'
  <2>1. CASE discovered \/ port = NoDisk
    BY <1>1, <2>1, UmsStutter DEF Open, IInv, umsVars, hardware, driver, ghosts
  <2>2. CASE ~(discovered \/ port = NoDisk)
    <3>1. PICK ok \in BOOLEAN : PortReset(ok)
      BY <2>2 DEF Open
    <3>2. addressed' \in BOOLEAN /\ id' \in BOOLEAN /\ (addressed' => port # NoDisk)
      BY <3>1, PortResetFacts DEF IInv, UmsInv
    <3>3. ~ums.init_done
      BY <2>2 DEF IInv, QueueInv
    <3>4. DiskTypeOK'
      BY <1>1, <3>2 DEF IInv, UmsInv, DiskTypeOK
    <3>5. ControlInv' /\ ChunksInv'
      BY <1>1 DEF IInv, UmsInv, ControlInv, ChunksInv
    <3>6. DiskInv'
      BY <1>1, <3>2, <3>3 DEF IInv, UmsInv, DiskInv, Mounting
    <3>7. OnlyHomeDisk' /\ RequestIsWhole'
      BY <1>1 DEF IInv, UmsInv, OnlyHomeDisk, RequestIsWhole
    <3>. QED  BY <3>4, <3>5, <3>6, <3>7 DEF UmsInv
  <2>. QED  BY <2>1, <2>2
<1>3. QueueInv'
  BY <1>1 DEF QueueInv
<1>. QED  BY <1>1, <1>2, <1>3, ReceiveFacts, AnsweredInv

LEMMA CloseInv == ASSUME IInv, Close PROVE IInv'
<1>1. Receive({"close"}) /\ timer' = TRUE /\ UNCHANGED <<umsVars, discovered>>
  BY DEF Close, Answer
<1>2. UmsInv'
  BY <1>1, UmsStutter DEF IInv
<1>3. discovered
  BY <1>1, ReceiveFacts
<1>4. QueueInv'
  BY <1>1, <1>3 DEF QueueInv
<1>. QED  BY <1>1, <1>2, <1>3, <1>4, ReceiveFacts, AnsweredInv

LEMMA UmountInv == ASSUME IInv, UmsUmount PROVE IInv'
<1>1. /\ Receive({"umount"}) /\ timer' = TRUE /\ Umount
      /\ home' = IF ums.init_done THEN NoDisk ELSE home
      /\ UNCHANGED <<port, addressed, id, handshake_mode, pc, job, touched, discovered>>
  BY DEF UmsUmount, Answer, hardware
<1>2. discovered /\ pc = "idle"
  BY <1>1, ReceiveFacts
<1>3. job = NoJob
  BY <1>2 DEF IInv, UmsInv, ControlInv
<1>4. ums' \in UmsStates /\ ~ums'.init_done /\ ~ums'.mounted /\ unplug_device' \in BOOLEAN
  BY <1>1 DEF Umount, IInv, UmsInv, DiskTypeOK, UmsStates, DiskInv
<1>5. UmsInv'
  <2>1. DiskTypeOK'
    BY <1>1, <1>4 DEF IInv, UmsInv, DiskTypeOK
  <2>2. ControlInv' /\ ChunksInv'
    BY <1>1, <1>2, <1>3, NoJobFacts DEF ControlInv, ChunksInv
  <2>3. DiskInv'
    BY <1>1, <1>2, <1>4 DEF IInv, UmsInv, DiskInv, Mounting
  <2>4. OnlyHomeDisk' /\ RequestIsWhole'
    BY <1>1, <1>2, <1>4 DEF OnlyHomeDisk, RequestIsWhole
  <2>. QED  BY <2>1, <2>2, <2>3, <2>4 DEF UmsInv
<1>6. QueueInv'
  BY <1>1, <1>2 DEF QueueInv
<1>. QED  BY <1>1, <1>2, <1>5, <1>6, ReceiveFacts, AnsweredInv

LEMMA DoneInv == ASSUME IInv, Done PROVE IInv'
<1>1. /\ pc = "done" /\ pc' = "idle" /\ job' = NoJob /\ timer' = TRUE
      /\ UNCHANGED <<port, addressed, id, handshake_mode, unplug_device, ums, home, touched,
                     queue, discovered>>
  BY DEF Done, Answer, hardware, driver, ghosts
<1>2. ~job.probing /\ discovered
  BY <1>1 DEF IInv, UmsInv, ControlInv, QueueInv
<1>3. UmsInv'
  <2>1. DiskTypeOK'
    BY <1>1, NoJobFacts DEF IInv, UmsInv, DiskTypeOK
  <2>2. ControlInv' /\ ChunksInv'
    BY <1>1, NoJobFacts DEF ControlInv, ChunksInv
  <2>3. DiskInv'
    BY <1>1, <1>2, NoJobFacts DEF IInv, UmsInv, DiskInv, Mounting
  <2>4. OnlyHomeDisk' /\ RequestIsWhole'
    BY <1>1 DEF IInv, UmsInv, OnlyHomeDisk, RequestIsWhole
  <2>. QED  BY <2>1, <2>2, <2>3, <2>4 DEF UmsInv
<1>4. QueueInv'
  BY <1>1, <1>2 DEF QueueInv
<1>. QED  BY <1>1, <1>3, <1>4, AnsweredInv DEF IInv, LoopTypeOK

LEMMA WatchdogInv == ASSUME IInv, __EHCI_Watchdog PROVE IInv'
<1>1. Receive({"tick"}) /\ UNCHANGED <<opened, discovered, ums_mode>>
  BY DEF __EHCI_Watchdog
<1>2. CASE /\ ums_mode # Nobody /\ ums.mounted
           /\ Start("read")
           /\ UNCHANGED <<hardware, driver, ghosts, starved>>
  <2>1. discovered
    BY <1>2 DEF IInv, UmsInv, DiskInv, QueueInv
  <2>. QED  BY <1>1, <1>2, <2>1, ReceiveFacts, StartInv DEF Start, Ops
<1>3. CASE /\ timer' = FALSE
           /\ starved' = (ums_mode # Nobody /\ ums.mounted)
           /\ UNCHANGED <<umsVars, sender>>
  <2>1. UmsInv'
    BY <1>3, UmsStutter DEF IInv
  <2>2. LoopTypeOK'
    BY <1>1, ReceiveFacts DEF IInv, LoopTypeOK
  <2>3. QueueInv'
    BY <1>1, <1>3, ReceiveFacts DEF IInv, QueueInv, umsVars, driver
  <2>4. WatchdogAlive'
    BY <1>1, <1>3 DEF WatchdogAlive, umsVars, driver
  <2>. QED  BY <2>1, <2>2, <2>3, <2>4 DEF IInv
<1>. QED  BY <1>2, <1>3 DEF __EHCI_Watchdog

LEMMA LoopNextInv == ASSUME IInv, [Next]_vars PROVE IInv'
<1>1. CASE Command /\ UNCHANGED loopVars
  <2>1. UmsInv'
    BY <1>1, CommandInv DEF IInv
  <2>2. pc # "idle" /\ pc' # "idle"
    BY <1>1, CommandIsBusy DEF IInv, UmsInv
  <2>3. LoopTypeOK' /\ QueueInv' /\ WatchdogAlive'
    BY <1>1, <2>2 DEF IInv, LoopTypeOK, QueueInv, WatchdogAlive, loopVars
  <2>. QED  BY <2>1, <2>3 DEF IInv
<1>2. CASE User \/ UNCHANGED vars
  <2>1. UmsInv'
    BY <1>2, UnplugInv, PlugInv, UmsStutter DEF IInv, User, vars
  <2>2. UNCHANGED <<ums, pc, loopVars>>
    BY <1>2 DEF User, Unplug, Plug, vars, umsVars, driver
  <2>3. LoopTypeOK' /\ QueueInv' /\ WatchdogAlive'
    BY <2>2 DEF IInv, LoopTypeOK, QueueInv, WatchdogAlive, loopVars
  <2>. QED  BY <2>1, <2>3 DEF IInv
<1>. QED  BY <1>1, <1>2, SendInv, TimerFiresInv, UmsRequestInv, OpenInv, CloseInv, UmountInv,
             WatchdogInv, DoneInv
          DEF Next, Thread

(***************************************************************************)
(* The inductive invariant of the EHCI module's thread and its disk.       *)
(***************************************************************************)
THEOREM LoopInvariant == Spec => []IInv
<1>1. IInv /\ [Next]_vars => IInv'
  BY LoopNextInv
<1>. QED  BY LoopInitInv, <1>1, PTL DEF Spec

(***************************************************************************)
(* Between UMS_INIT and UMS_UMOUNT nothing is written to another disk than *)
(* the one UMS_INIT mounted, whenever disks are pulled out and plugged in  *)
(* and whatever fails.                                                     *)
(***************************************************************************)
THEOREM WritesStayHome == Spec => []OnlyHomeDisk
<1>1. IInv => OnlyHomeDisk
  BY DEF IInv, UmsInv
<1>. QED  BY <1>1, LoopInvariant, PTL

(***************************************************************************)
(* A read, write or stress request that succeeds, and that the disk did    *)
(* not refuse, has exchanged all its chunks with that disk, however often  *)
(* USBStorage_Read_Sectors started it over.                                *)
(***************************************************************************)
THEOREM RequestsAreWhole == Spec => []RequestIsWhole
<1>1. IInv => RequestIsWhole
  BY DEF IInv, UmsInv
<1>. QED  BY <1>1, LoopInvariant, PTL

(***************************************************************************)
(* While a disk is mounted and in use the watchdog's timer is armed, or a  *)
(* message is there after which it will be.                                *)
(***************************************************************************)
THEOREM WatchdogStaysAlive == Spec => []WatchdogAlive
<1>1. IInv => WatchdogAlive
  BY DEF IInv
<1>. QED  BY <1>1, LoopInvariant, PTL

-----------------------------------------------------------------------------
(* The host controller. *)

HostSpec(bound) == HostInit /\ [][HostNext(bound)]_hostVars

Controls == {"desc", "address", "halt", "check"}
Toggles == {0, 1}

PortStates == [there : BOOLEAN, ours : BOOLEAN, enabled : BOOLEAN]
DriveStates == [address : Nat, toggle : Toggles]
DevStates == [id : Nat, toggle : Toggles]
CtlStates ==
    [linked : BOOLEAN, at : {"head", "qh"}, transfer : {"none", "active", "done", "halted"},
     toggle : Toggles, int : BOOLEAN, err : BOOLEAN]
UrbStates ==
    [for : Controls \cup {"bulk", "none"}, ctrl : BOOLEAN, input : BOOLEAN, dma : Nat,
     length : Nat, to : Nat, clean : BOOLEAN, ok : BOOLEAN]
InitStates == [stage : Controls \cup {"none", "reset", "acquire"}, i : Nat]

HostTypeOK ==
    /\ usbport \in PortStates /\ drive \in DriveStates /\ dev \in DevStates
    /\ ctl \in CtlStates /\ urb \in UrbStates
    /\ hpc \in {"idle", "wait", "unlink", "stop", "end"}
    /\ bringup \in InitStates
    /\ mishaps \in Nat /\ fresh \in BOOLEAN

(* What is sent in a stage of ehci_init_port, or outside it. *)
StageOf(stage) ==
    IF stage \in {"reset", "acquire"} THEN "desc" ELSE IF stage = "none" THEN "bulk" ELSE stage

(* What the driver's place says of the controller and of the transfer. *)
PlaceInv ==
    /\ hpc # "idle" => urb.for = StageOf(bringup.stage) /\ urb.to = dev.id
    /\ urb.ctrl <=> urb.for # "bulk"
    /\ urb.for = "bulk" => urb.to # 0
    /\ bringup.stage = "none" => bringup = NoInit
    /\ hpc \notin {"wait", "unlink"} => ~ctl.linked
    /\ hpc \in {"wait", "stop"} => urb.ok
    /\ hpc = "wait" => FitsPool(urb)

(* A successful transfer that found nothing of an earlier one is its own. *)
OwnInv ==
    /\ hpc = "wait" /\ urb.clean /\ ctl.int => ctl.transfer = "done"
    /\ hpc \in {"unlink", "stop", "end"} /\ urb.ok /\ urb.clean => ctl.transfer = "done"
    /\ hpc = "end" /\ urb.ok => Clean(ctl)
    /\ hpc # "idle" /\ urb.ok /\ ctl.transfer = "done" /\ usbport.enabled /\ urb.for # "address" =>
         drive.address = urb.to

(* What is known of the drive while a port is brought up, and after. *)
BringInv ==
    bringup.stage # "none" =>
        /\ ~fresh
        /\ usbport.enabled => /\ drive.toggle = 0
                              /\ urb.for = "bulk" => drive.address = 0
        /\ bringup.stage \in {"halt", "check"} => dev.toggle = 0

IdleInv ==
    fresh /\ hpc = "idle" =>
        /\ Clean(ctl)
        /\ usbport.enabled => dev.id = drive.address /\ dev.toggle = drive.toggle

BusyInv ==
    fresh /\ hpc # "idle" =>
        /\ urb.clean
        /\ usbport.enabled => drive.address = urb.to
        /\ usbport.enabled /\ urb.ok /\ ctl.transfer # "halted" => ctl.toggle = drive.toggle
        /\ hpc \in {"stop", "end"} /\ urb.ok => dev.toggle = ctl.toggle

RestInv == PlaceInv /\ OwnInv /\ BringInv /\ IdleInv /\ BusyInv

HostInv == HostTypeOK /\ RestInv

-----------------------------------------------------------------------------
(* How a transfer is cut. *)

Qtds == [stage : {"setup", "data", "status"}, buf : Nat, len : Nat, input : BOOLEAN]
Packets == 1 .. (QtdPages - 1) * PageBytes

LEMMA PacketSizes == MaxPacket \in Packets /\ CtrlPacket \in Packets
<1>1. /\ MaxPacket \in Nat \ {0} /\ CtrlPacket \in Nat \ {0}
      /\ MaxPacket <= (QtdPages - 1) * PageBytes /\ CtrlPacket <= (QtdPages - 1) * PageBytes
  BY HostAssumption
<1>2. (QtdPages - 1) * PageBytes \in Int
  BY HostAssumption
<1>3. QED
  BY <1>1, <1>2 DEF Packets

(* A qTD takes something if anything is left, in its pages, and whole      *)
(* packets unless it is the last.                                          *)
LEMMA Filled ==
    ASSUME NEW buf \in Nat, NEW left \in Nat, NEW m \in Packets
    PROVE  /\ qtd_fill(buf, left, m) \in 0 .. left
           /\ left > 0 => qtd_fill(buf, left, m) > 0
           /\ (buf % PageBytes) + qtd_fill(buf, left, m) <= QtdPages * PageBytes
           /\ qtd_fill(buf, left, m) # left => qtd_fill(buf, left, m) % m = 0
<1>0. PageBytes \in Nat \ {0} /\ QtdPages \in Nat \ {0}
  BY HostAssumption
<1>1. PICK o \in Nat : o = buf % PageBytes /\ o < PageBytes
  BY <1>0, Remainder
<1>2. PICK t \in Nat : t = QtdPages * PageBytes
  BY <1>0
<1>3. m \in Nat \ {0} /\ m <= t - PageBytes
  <2>1. (QtdPages - 1) * PageBytes = t - PageBytes
    BY <1>0, <1>2
  <2>2. QED
    BY <1>0, <1>2, <2>1 DEF Packets
<1>4. PICK room \in Nat : room = t - o /\ m < room /\ o + room = t
  BY <1>0, <1>1, <1>2, <1>3
<1>5. PICK q \in Nat, r \in Nat : r = room % m /\ room = q * m + r /\ r < m
  BY <1>3, Remainder
<1>6. room - r \in Nat /\ (room - r) % m = 0
  <2>1. room - r = q * m + 0 /\ room - r \in Nat
    BY <1>3, <1>5
  <2>2. QED
    BY <1>3, <2>1, Division
<1>7. PICK k : k = qtd_fill(buf, left, m)
  OBVIOUS
<1>8. k = IF left <= room THEN left ELSE room - r
  BY <1>1, <1>2, <1>4, <1>5, <1>7 DEF qtd_fill
<1>9. CASE left <= room
  <2>1. k = left
    BY <1>8, <1>9
  <2>2. o + k <= t
    BY <1>1, <1>2, <1>4, <1>9, <2>1
  <2>3. QED
    BY <1>1, <1>2, <1>7, <2>1, <2>2
<1>10. CASE ~ (left <= room)
  <2>1. k = room - r
    BY <1>8, <1>10
  <2>2. k \in 0 .. left /\ k > 0 /\ o + k <= t
    <3>1. r < m /\ m < room /\ room < left /\ o + room = t /\ m \in Nat
      BY <1>3, <1>4, <1>5, <1>10
    <3>2. QED
      BY <2>1, <3>1
  <2>3. QED
    BY <1>1, <1>2, <1>6, <1>7, <2>1, <2>2
<1>11. QED
  BY <1>9, <1>10

(* The qTDs of c move the bytes from one address up to another, in order;  *)
(* all but the last in packets of m bytes.                                 *)
FitsPages(q) == (q.buf % PageBytes) + q.len <= QtdPages * PageBytes

GoodCut(c, first, end, input, m) ==
    /\ c \in Seq(Qtds) /\ Len(c) > 0
    /\ c[1].buf = first /\ c[Len(c)].buf + c[Len(c)].len = end
    /\ \A k \in 1 .. Len(c) :
         /\ c[k].stage = "data" /\ FitsPages(c[k]) /\ c[k].input = input
         /\ k < Len(c) => /\ c[k].len > 0 /\ c[k].len % m = 0
                          /\ c[k + 1].buf = c[k].buf + c[k].len

LEMMA DataFields ==
    ASSUME NEW buf \in Nat, NEW len \in Nat, NEW input \in BOOLEAN
    PROVE  /\ Data(buf, len, input) \in Qtds
           /\ Data(buf, len, input).stage = "data" /\ Data(buf, len, input).buf = buf
           /\ Data(buf, len, input).len = len /\ Data(buf, len, input).input = input
BY DEF Data, Qtds

LEMMA GoodOne ==
    ASSUME NEW q \in Qtds, q.stage = "data", FitsPages(q), NEW input, q.input = input, NEW m,
           NEW end, end = q.buf + q.len
    PROVE  GoodCut(<<q>> \o <<>>, q.buf, end, input, m)
<1>1. <<q>> \in Seq(Qtds) /\ <<q>> \o <<>> = <<q>> /\ Len(<<q>>) = 1 /\ <<q>>[1] = q
  BY ConcatEmptySeq
<1>2. QED
  BY <1>1 DEF GoodCut

LEMMA GoodCons ==
    ASSUME NEW q \in Qtds, q.stage = "data", FitsPages(q), NEW input, q.input = input, NEW m,
           q.len > 0, q.len % m = 0,
           NEW c, NEW next, next = q.buf + q.len, NEW end, GoodCut(c, next, end, input, m)
    PROVE  GoodCut(<<q>> \o c, q.buf, end, input, m)
<1>1. PICK d : d = <<q>> \o c
  OBVIOUS
<1>2. PICK n \in Nat \ {0} : n = Len(c)
  BY LenProperties DEF GoodCut
<1>3. c \in Seq(Qtds) /\ <<q>> \in Seq(Qtds) /\ Len(<<q>>) = 1
  BY DEF GoodCut
<1>4. /\ d \in Seq(Qtds) /\ Len(d) = n + 1 /\ d[1] = q
      /\ \A k \in 1 .. n : d[k + 1] = c[k]
  <2>1. /\ d \in Seq(Qtds) /\ Len(d) = 1 + n
        /\ \A k \in 1 .. 1 + n : d[k] = IF k <= 1 THEN <<q>>[k] ELSE c[k - 1]
    BY <1>1, <1>2, <1>3, ConcatProperties
  <2>2. ASSUME NEW k \in 1 .. n PROVE d[k + 1] = c[k]
    <3>1. k + 1 \in 1 .. 1 + n /\ ~ (k + 1 <= 1) /\ (k + 1) - 1 = k
      OBVIOUS
    <3>2. QED
      BY <2>1, <3>1
  <2>3. QED
    BY <2>1, <2>2
<1>5. \A k \in 1 .. n :
        /\ c[k].stage = "data" /\ FitsPages(c[k]) /\ c[k].input = input
        /\ k < n => c[k].len > 0 /\ c[k].len % m = 0 /\ c[k + 1].buf = c[k].buf + c[k].len
  BY <1>2 DEF GoodCut
<1>6. c[1].buf = next /\ c[n].buf + c[n].len = end
  BY <1>2 DEF GoodCut
<1>7. ASSUME NEW k \in 1 .. n + 1
      PROVE  /\ d[k].stage = "data" /\ FitsPages(d[k]) /\ d[k].input = input
             /\ k < n + 1 => /\ d[k].len > 0 /\ d[k].len % m = 0
                             /\ d[k + 1].buf = d[k].buf + d[k].len
  <2>1. CASE k = 1
    BY <1>4, <1>6, <2>1
  <2>2. CASE k # 1
    <3>1. PICK j \in 1 .. n : k = j + 1
      BY <2>2
    <3>2. d[k] = c[j] /\ (j < n => d[k + 1] = c[j + 1])
      BY <1>4, <3>1
    <3>3. QED
      BY <1>5, <3>1, <3>2
  <2>3. QED
    BY <2>1, <2>2
<1>8. d[n + 1] = c[n]
  BY <1>4
<1>9. GoodCut(d, q.buf, end, input, m)
  BY <1>4, <1>6, <1>7, <1>8 DEF GoodCut
<1>10. QED
  BY <1>1, <1>9

(* What a cut of [dma, dma + length) is, whatever function gives it. *)
CutFrom(dma, length, input, m, f) ==
    \A left \in 0 .. length :
        f[left] = <<Data(dma + length - left, qtd_fill(dma + length - left, left, m), input)>> \o
                  IF left = qtd_fill(dma + length - left, left, m) THEN <<>>
                  ELSE f[left - qtd_fill(dma + length - left, left, m)]

LEMMA CutIsGood ==
    ASSUME NEW dma \in Nat, NEW length \in Nat, NEW input \in BOOLEAN, NEW m \in Packets,
           NEW f, CutFrom(dma, length, input, m, f)
    PROVE  GoodCut(f[length], dma, dma + length, input, m)
<1> DEFINE end == dma + length
           S == {n \in Nat : \A left \in 0 .. length :
                                left <= n => GoodCut(f[left], end - left, end, input, m)}
<1>1. ASSUME NEW left \in 0 .. length,
             \A before \in 0 .. length :
                before < left => GoodCut(f[before], end - before, end, input, m)
      PROVE  GoodCut(f[left], end - left, end, input, m)
  <2>1. PICK buf \in Nat : buf = dma + length - left
    OBVIOUS
  <2>2. PICK k : k = qtd_fill(buf, left, m)
    OBVIOUS
  <2>3. /\ k \in 0 .. left /\ (left > 0 => k > 0)
        /\ (buf % PageBytes) + k <= QtdPages * PageBytes
        /\ k # left => k % m = 0
    <3>1. left \in Nat
      OBVIOUS
    <3>2. /\ qtd_fill(buf, left, m) \in 0 .. left
          /\ left > 0 => qtd_fill(buf, left, m) > 0
          /\ (buf % PageBytes) + qtd_fill(buf, left, m) <= QtdPages * PageBytes
          /\ qtd_fill(buf, left, m) # left => qtd_fill(buf, left, m) % m = 0
      BY <3>1, Filled, Zenon
    <3>3. QED
      BY <2>2, <3>2, Zenon
  <2>4. PICK q : q = Data(buf, k, input)
    OBVIOUS
  <2>5. q \in Qtds /\ q.stage = "data" /\ q.buf = buf /\ q.len = k /\ q.input = input
    BY <2>3, <2>4, DataFields
  <2>6. FitsPages(q)
    BY <2>3, <2>5 DEF FitsPages
  <2>7. f[left] = <<q>> \o IF left = k THEN <<>> ELSE f[left - k]
    BY <2>1, <2>2, <2>4 DEF CutFrom
  <2>8. CASE left = k
    <3>1. end = q.buf + q.len /\ q.buf = end - left
      BY <2>1, <2>5, <2>8
    <3>2. f[left] = <<q>> \o <<>>
      BY <2>7, <2>8
    <3>3. GoodCut(<<q>> \o <<>>, q.buf, end, input, m)
      BY <2>5, <2>6, <3>1, GoodOne
    <3>4. QED
      BY <3>1, <3>2, <3>3
  <2>9. CASE left # k
    <3>1. PICK before \in 0 .. length : before = left - k /\ before < left
      BY <2>3, <2>9
    <3>2. PICK next : next = end - before
      OBVIOUS
    <3>3. next = q.buf + q.len /\ q.buf = end - left /\ q.len > 0 /\ q.len % m = 0
      BY <2>1, <2>3, <2>5, <2>9, <3>1, <3>2
    <3>4. GoodCut(f[before], next, end, input, m)
      BY <1>1, <3>1, <3>2
    <3>5. GoodCut(<<q>> \o f[before], q.buf, end, input, m)
      BY <2>5, <2>6, <3>3, <3>4, GoodCons
    <3>6. f[left] = <<q>> \o f[before]
      BY <2>7, <2>9, <3>1
    <3>7. QED
      BY <3>3, <3>5, <3>6
  <2>10. QED
    BY <2>8, <2>9
<1>2. 0 \in S
  <2>1. ASSUME NEW left \in 0 .. length, left <= 0 PROVE GoodCut(f[left], end - left, end, input, m)
    <3>1. \A before \in 0 .. length : ~ (before < left)
      BY <2>1
    <3>2. QED
      BY <1>1, <3>1
  <2>2. QED
    BY <2>1
<1>3. ASSUME NEW n \in S PROVE n + 1 \in S
  <2>1. ASSUME NEW left \in 0 .. length, left <= n + 1
        PROVE  GoodCut(f[left], end - left, end, input, m)
    <3>1. \A before \in 0 .. length : before < left => before <= n
      BY <2>1
    <3>2. QED
      BY <1>1, <3>1
  <2>2. QED
    BY <2>1
<1>4. S = Nat
  <2> HIDE DEF S
  <2>1. S \in SUBSET Nat
    BY DEF S
  <2>2. QED
    BY <1>2, <1>3, <2>1, SetInduction
<1>5. length \in S /\ length \in 0 .. length /\ length <= length
  BY <1>4
<1>6. GoodCut(f[length], end - length, end, input, m)
  BY <1>5
<1>7. end - length = dma
  OBVIOUS
<1>8. QED
  BY <1>6, <1>7

(* DataQtds is such a cut. *)
LEMMA DataIsGood ==
    ASSUME NEW dma \in Nat, NEW length \in Nat, NEW input \in BOOLEAN, NEW m \in Packets
    PROVE  GoodCut(DataQtds(dma, length, input, m), dma, dma + length, input, m)
<1> DEFINE P(f) == f = [left \in 0 .. length |->
                          <<Data(dma + length - left,
                                 qtd_fill(dma + length - left, left, m), input)>> \o
                          IF left = qtd_fill(dma + length - left, left, m) THEN <<>>
                          ELSE f[left - qtd_fill(dma + length - left, left, m)]]
           from == CHOOSE f : P(f)
           take == [left \in 0 .. length |-> qtd_fill(dma + length - left, left, m)]
           piece == [left \in 0 .. length |->
                       Data(dma + length - left, qtd_fill(dma + length - left, left, m), input)]
<1>1. Takes(length, take)
  <2>1. ASSUME NEW left \in 0 .. length
        PROVE  take[left] \in 0 .. left /\ (left > 0 => take[left] > 0)
    <3>1. PICK buf \in Nat : buf = dma + length - left
      OBVIOUS
    <3>2. take[left] = qtd_fill(buf, left, m)
      BY <3>1
    <3>3. QED
      BY <3>2, Filled
  <2>2. QED
    BY <2>1 DEF Takes
<1>2. PICK f : IsCut(length, take, piece, f)
  <2> HIDE DEF take, piece
  <2>1. QED
    BY <1>1, CutExists
<1>3. P(f)
  BY <1>2 DEF IsCut
<1>4. P(from)
  BY <1>3
<1>5. DataQtds(dma, length, input, m) = from[length]
  BY DEF DataQtds
<1>6. CutFrom(dma, length, input, m, from)
  <2> HIDE DEF from
  <2>1. QED
    BY <1>4 DEF CutFrom
<1>7. QED
  <2> HIDE DEF from
  <2>1. QED
    BY <1>5, <1>6, CutIsGood

-----------------------------------------------------------------------------
(* What the parts of a step do. *)

LEMMA Fields ==
    ASSUME HostTypeOK
    PROVE  /\ usbport.there \in BOOLEAN /\ usbport.ours \in BOOLEAN /\ usbport.enabled \in BOOLEAN
           /\ drive.address \in Nat /\ drive.toggle \in Toggles
           /\ dev.id \in Nat /\ dev.toggle \in Toggles
           /\ ctl.linked \in BOOLEAN /\ ctl.at \in {"head", "qh"}
           /\ ctl.transfer \in {"none", "active", "done", "halted"} /\ ctl.toggle \in Toggles
           /\ ctl.int \in BOOLEAN /\ ctl.err \in BOOLEAN
           /\ urb.for \in Controls \cup {"bulk", "none"} /\ urb.ctrl \in BOOLEAN
           /\ urb.input \in BOOLEAN /\ urb.dma \in Nat /\ urb.length \in Nat /\ urb.to \in Nat
           /\ urb.clean \in BOOLEAN /\ urb.ok \in BOOLEAN
           /\ bringup.stage \in Controls \cup {"none", "reset", "acquire"} /\ bringup.i \in Nat
<1>1. /\ usbport \in PortStates /\ drive \in DriveStates /\ dev \in DevStates
      /\ ctl \in CtlStates /\ urb \in UrbStates /\ bringup \in InitStates
  BY DEF HostTypeOK
<1>2. /\ usbport.there \in BOOLEAN /\ usbport.ours \in BOOLEAN /\ usbport.enabled \in BOOLEAN
      /\ drive.address \in Nat /\ drive.toggle \in Toggles
      /\ dev.id \in Nat /\ dev.toggle \in Toggles
  BY <1>1 DEF PortStates, DriveStates, DevStates
<1>3. /\ ctl.linked \in BOOLEAN /\ ctl.at \in {"head", "qh"}
      /\ ctl.transfer \in {"none", "active", "done", "halted"} /\ ctl.toggle \in Toggles
      /\ ctl.int \in BOOLEAN /\ ctl.err \in BOOLEAN
  BY <1>1 DEF CtlStates
<1>4. /\ urb.for \in Controls \cup {"bulk", "none"} /\ urb.ctrl \in BOOLEAN
      /\ urb.input \in BOOLEAN /\ urb.dma \in Nat /\ urb.length \in Nat /\ urb.to \in Nat
      /\ urb.clean \in BOOLEAN /\ urb.ok \in BOOLEAN
  BY <1>1 DEF UrbStates
<1>5. bringup.stage \in Controls \cup {"none", "reset", "acquire"} /\ bringup.i \in Nat
  BY <1>1 DEF InitStates
<1>6. QED
  BY <1>2, <1>3, <1>4, <1>5

LEMMA OkIsSet ==
    ASSUME NEW w \in UrbStates, NEW v, NEW b, b \in BOOLEAN, v = [w EXCEPT !.ok = b]
    PROVE  /\ v \in UrbStates /\ v.ok = b /\ v.for = w.for /\ v.ctrl = w.ctrl /\ v.to = w.to
           /\ v.clean = w.clean
           /\ v.dma = w.dma /\ v.length = w.length /\ v.input = w.input
BY DEF UrbStates

LEMMA SameQtds ==
    ASSUME NEW v, NEW w, v.ctrl = w.ctrl, v.dma = w.dma, v.length = w.length, v.input = w.input
    PROVE  FitsPool(v) <=> FitsPool(w)
<1>1. qh_urb_transaction(v) = qh_urb_transaction(w)
  BY Zenon DEF qh_urb_transaction
<1>2. QED
  BY <1>1, Zenon DEF FitsPool

(* A transfer is started, or there are too few qTDs for it. *)
LEMMA Started ==
    ASSUME HostTypeOK, NEW c \in CtlStates, NEW for \in Controls \cup {"bulk"},
           NEW ctrl \in BOOLEAN, NEW input \in BOOLEAN, NEW dma \in Nat, NEW length \in Nat,
           ehci_do_urb(c, for, ctrl, input, dma, length)
    PROVE  /\ urb' \in UrbStates /\ ctl' \in CtlStates
           /\ urb'.for = for /\ (urb'.ctrl <=> ctrl) /\ urb'.to = dev.id
           /\ urb'.clean <=> Clean(c)
           /\ ctl'.int <=> c.int
           /\ urb'.ok => /\ hpc' = "wait" /\ ctl'.transfer = "active" /\ FitsPool(urb')
                         /\ ~ctrl => ctl'.toggle = dev.toggle
           /\ ~urb'.ok => hpc' = "end" /\ ctl' = c
<1> DEFINE u == [for |-> for, ctrl |-> ctrl, input |-> input, dma |-> dma, length |-> length,
                 to |-> dev.id, clean |-> Clean(c), ok |-> TRUE]
<1>1. PICK clean \in BOOLEAN : clean = Clean(c)
  BY DEF Clean
<1>2. urb' = [u EXCEPT !.ok = FitsPool(u)]
  BY Zenon DEF ehci_do_urb
<1>3. PICK w : w = u
  OBVIOUS
<1>5. dev.id \in Nat /\ dev.toggle \in Toggles
  BY Fields
<1>6. /\ w \in UrbStates /\ w.for = for /\ w.ctrl = ctrl /\ w.to = dev.id /\ w.clean = clean
  BY <1>1, <1>3, <1>5 DEF UrbStates
<1> HIDE DEF u
<1>14. urb' = [w EXCEPT !.ok = FitsPool(w)]
  BY <1>2, <1>3, Zenon
<1>15. FitsPool(w) \in BOOLEAN
  BY DEF FitsPool
<1>4. PICK fits \in BOOLEAN : fits = FitsPool(w)
  BY <1>15
<1>16. /\ urb' \in UrbStates /\ urb'.for = w.for /\ urb'.ctrl = w.ctrl /\ urb'.to = w.to
      /\ urb'.clean = w.clean /\ urb'.ok = FitsPool(w)
      /\ urb'.dma = w.dma /\ urb'.length = w.length /\ urb'.input = w.input
  <2>1. PICK v : v = urb'
    OBVIOUS
  <2>2. v = [w EXCEPT !.ok = fits]
    BY <1>4, <1>14, <2>1, Zenon
  <2>3. /\ v \in UrbStates /\ v.ok = fits /\ v.for = w.for /\ v.ctrl = w.ctrl /\ v.to = w.to
        /\ v.clean = w.clean
        /\ v.dma = w.dma /\ v.length = w.length /\ v.input = w.input
    BY <1>6, <2>2, OkIsSet
  <2>4. QED
    BY <1>4, <2>1, <2>3, Zenon
<1>17. FitsPool(urb') <=> FitsPool(w)
  BY <1>16, SameQtds, Zenon
<1>8. /\ urb' \in UrbStates /\ urb'.for = for /\ urb'.ctrl = ctrl /\ urb'.to = dev.id
      /\ urb'.clean = clean /\ urb'.ok = fits
  BY <1>4, <1>6, <1>16
<1>9. /\ hpc' = IF urb'.ok THEN "wait" ELSE "end"
      /\ ctl' = IF urb'.ok
                THEN [c EXCEPT !.linked = TRUE, !.transfer = "active",
                               !.toggle = IF ctrl THEN 0 ELSE dev.toggle]
                ELSE c
  BY DEF ehci_do_urb
<1>10. PICK t \in Toggles : t = IF ctrl THEN 0 ELSE dev.toggle
  BY <1>5 DEF Toggles
<1>11. CASE fits
  <2>1. /\ hpc' = "wait"
        /\ ctl' = [c EXCEPT !.linked = TRUE, !.transfer = "active", !.toggle = t]
    BY <1>8, <1>9, <1>10, <1>11, Zenon
  <2>2. ctl' \in CtlStates /\ (ctl'.int <=> c.int) /\ ctl'.transfer = "active" /\ ctl'.toggle = t
    BY <2>1 DEF CtlStates
  <2>3. FitsPool(urb')
    BY <1>4, <1>11, <1>17, Zenon
  <2>4. QED
    BY <1>1, <1>8, <1>10, <1>11, <2>1, <2>2, <2>3
<1>12. CASE ~fits
  <2>1. hpc' = "end" /\ ctl' = c
    BY <1>8, <1>9, <1>12
  <2>2. QED
    BY <1>1, <1>8, <1>12, <2>1
<1>13. QED
  BY <1>11, <1>12

(* A wait acknowledges what it saw, and ends well only by what it is for. *)
LEMMA Waited ==
    ASSUME HostTypeOK, NEW ok \in BOOLEAN, NEW done, NEW bound \in Nat, handshake(done, ok, bound)
    PROVE  /\ ctl' \in CtlStates /\ mishaps' \in Nat
           /\ (ctl'.linked <=> ctl.linked) /\ ctl'.at = ctl.at
           /\ ctl'.transfer = ctl.transfer /\ ctl'.toggle = ctl.toggle
           /\ ok => done /\ ~ctl'.int /\ ~ctl'.err
<1>1. ctl \in CtlStates /\ mishaps \in Nat
  BY DEF HostTypeOK
<1>2. PICK c : c = Acknowledge(ctl)
  OBVIOUS
<1>3. /\ c \in CtlStates /\ (c.linked <=> ctl.linked) /\ c.at = ctl.at
      /\ c.transfer = ctl.transfer /\ c.toggle = ctl.toggle /\ ~c.int /\ ~c.err
  BY <1>1, <1>2 DEF Acknowledge, CtlStates
<1>4. /\ ctl' = ctl \/ ctl' = c
      /\ mishaps' = mishaps \/ mishaps' = mishaps + 1
      /\ ok => done /\ ctl' = c
  BY <1>2, Zenon DEF handshake
<1>5. ctl' = ctl \/ ctl' = c
  BY <1>4
<1>6. mishaps' \in Nat
  BY <1>1, <1>4
<1>7. CASE ctl' = c
  BY <1>3, <1>4, <1>6, <1>7
<1>8. CASE ctl' # c
  <2>1. ctl' = ctl /\ ~ok
    BY <1>4, <1>5, <1>8
  <2>2. QED
    BY <1>1, <1>6, <2>1
<1>9. QED
  BY <1>7, <1>8

(* The qTDs are free, and the driver goes on. *)
LEMMA Ended ==
    ASSUME HostTypeOK, NEW where \in InitStates, EndsWith(where)
    PROVE  /\ hpc = "end" /\ hpc' = "idle" /\ bringup' = where
           /\ urb' \in UrbStates /\ urb'.for = urb.for /\ urb'.to = urb.to
           /\ urb'.ctrl <=> urb.ctrl
           /\ UNCHANGED <<ctl, mishaps>>
<1>1. urb \in UrbStates
  BY DEF HostTypeOK
<1>2. /\ hpc = "end" /\ hpc' = "idle" /\ bringup' = where /\ UNCHANGED <<ctl, mishaps>>
      /\ urb' = [urb EXCEPT !.input = FALSE, !.dma = 0, !.length = 0, !.clean = TRUE, !.ok = TRUE]
  BY DEF EndsWith
<1>3. /\ urb' \in UrbStates /\ urb'.for = urb.for /\ urb'.to = urb.to /\ (urb'.ctrl <=> urb.ctrl)
  BY <1>1, <1>2 DEF UrbStates
<1>4. QED
  BY <1>2, <1>3

Zero == [address |-> 0, toggle |-> 0]

(* A port that is enabled has a drive that was reset. *)
LEMMA Reset ==
    ASSUME HostTypeOK, NEW p \in PortStates, NEW r \in ehci_reset_usb_port(p)
    PROVE  /\ r.ok \in BOOLEAN /\ r.port \in PortStates /\ r.drive \in DriveStates
           /\ r.ctl \in CtlStates
           /\ r.port.enabled => r.drive.address = 0 /\ r.drive.toggle = 0
           /\ r.ctl.linked <=> ctl.linked
<1>1. ctl \in CtlStates /\ drive \in DriveStates
  BY DEF HostTypeOK
<1>2. PICK c : c = Acknowledge(ctl)
  OBVIOUS
<1>3. c \in CtlStates /\ (c.linked <=> ctl.linked)
  BY <1>1, <1>2 DEF Acknowledge, CtlStates
<1>4. Zero \in DriveStates /\ Zero.address = 0 /\ Zero.toggle = 0
  BY DEF Zero, DriveStates, Toggles
<1>5. CASE ~p.there \/ ~p.ours
  <2>1. PICK q : q = [p EXCEPT !.ours = FALSE, !.enabled = FALSE]
    OBVIOUS
  <2>2. q \in PortStates /\ ~q.enabled
    BY <2>1 DEF PortStates
  <2>3. r = PortLeft(p)
    BY <1>5 DEF ehci_reset_usb_port
  <2>4. r = [ok |-> FALSE, port |-> q, drive |-> drive, ctl |-> ctl]
    BY <2>1, <2>3, Zenon DEF PortLeft
  <2>5. r.ok \in BOOLEAN /\ r.port = q /\ r.drive = drive /\ r.ctl = ctl
    BY <2>4
  <2>6. QED
    BY <1>1, <2>2, <2>5
<1>6. CASE ~ (~p.there \/ ~p.ours)
  <2>1. PICK ok \in BOOLEAN, e \in BOOLEAN : r = ResetPort(p, ok, e)
    BY <1>6 DEF ehci_reset_usb_port
  <2>2. PICK o \in BOOLEAN : o = (e \/ ~ok)
    OBVIOUS
  <2>3. PICK q : q = [p EXCEPT !.ours = o, !.enabled = e]
    OBVIOUS
  <2>4. q \in PortStates
    BY <2>3 DEF PortStates
  <2>5. r = [ok |-> ok, port |-> q, drive |-> Zero, ctl |-> c]
    BY <1>2, <2>1, <2>2, <2>3, Zenon DEF Zero, ResetPort
  <2>6. r.ok = ok /\ r.port = q /\ r.drive = Zero /\ r.ctl = c
    BY <2>5
  <2>7. QED
    BY <1>3, <1>4, <2>4, <2>6
<1>7. QED
  BY <1>5, <1>6

(* The drive does what it is told. *)
LEMMA DriveDoes ==
    ASSUME HostTypeOK, NEW flips \in BOOLEAN, Does(flips)
    PROVE  /\ drive' \in DriveStates
           /\ drive'.address = IF urb.for = "address" THEN Address ELSE drive.address
           /\ drive'.toggle = IF urb.ctrl \/ ~flips THEN drive.toggle ELSE 1 - drive.toggle
<1>1. drive.address \in Nat /\ drive.toggle \in Toggles /\ Address \in Nat
  BY Fields DEF Address
<1>2. PICK a \in Nat : a = IF urb.for = "address" THEN Address ELSE drive.address
  BY <1>1
<1>3. PICK t \in Toggles : t = IF urb.ctrl \/ ~flips THEN drive.toggle ELSE 1 - drive.toggle
  BY <1>1 DEF Toggles
<1>4. drive' = [address |-> a, toggle |-> t]
  BY <1>2, <1>3, Zenon DEF Does
<1>5. QED
  BY <1>2, <1>3, <1>4 DEF DriveStates

-----------------------------------------------------------------------------
(* The steps. *)

LEMMA UserSteps ==
    ASSUME HostInv, PlugIn \/ PullOut
    PROVE  HostInv'
<1> USE DEF HostInv
<1>1. HostTypeOK
  OBVIOUS
<1>2. PICK u \in PortStates : ~u.enabled /\ usbport' = u
  <2>1. CASE PlugIn
    BY <2>1 DEF PlugIn, PortStates
  <2>2. CASE PullOut
    <3>1. PICK u : u = [usbport EXCEPT !.there = FALSE, !.enabled = FALSE]
      OBVIOUS
    <3>2. u \in PortStates /\ ~u.enabled
      BY <1>1, <3>1 DEF HostTypeOK, PortStates
    <3>3. QED
      BY <2>2, <3>1, <3>2 DEF PullOut
  <2>3. QED
    BY <2>1, <2>2
<1>3. drive' \in DriveStates
  BY <1>1 DEF PlugIn, PullOut, HostTypeOK, DriveStates, Toggles
<1>4. UNCHANGED <<dev, ctl, urb, hpc, bringup, mishaps, fresh>>
  BY DEF PlugIn, PullOut
<1>5. HostTypeOK'
  BY <1>2, <1>3, <1>4 DEF HostTypeOK
<1>6. RestInv'
  BY <1>2, <1>4 DEF RestInv, PlaceInv, OwnInv, BringInv, IdleInv, BusyInv, Clean
<1>7. QED
  BY <1>5, <1>6

LEMMA ControllerMoves ==
    ASSUME HostInv, HcEnters \/ HcLeaves
    PROVE  HostInv'
<1> USE DEF HostInv
<1>1. ctl \in CtlStates
  BY DEF HostTypeOK
<1>2. /\ UNCHANGED <<usbport, drive, dev, urb, hpc, bringup, mishaps, fresh>>
      /\ \/ ctl.linked /\ ctl' = [ctl EXCEPT !.at = "qh"]
         \/ ctl' = [ctl EXCEPT !.at = "head"]
  BY DEF HcEnters, HcLeaves
<1>3. /\ ctl' \in CtlStates /\ (ctl'.linked <=> ctl.linked) /\ ctl'.transfer = ctl.transfer
      /\ ctl'.toggle = ctl.toggle /\ (ctl'.int <=> ctl.int) /\ (ctl'.err <=> ctl.err)
      /\ ctl.linked \/ ctl'.at = "head"
  BY <1>1, <1>2 DEF CtlStates
<1>4. HostTypeOK'
  BY <1>2, <1>3 DEF HostTypeOK
<1>5. PlaceInv'
  BY <1>2, <1>3 DEF RestInv, PlaceInv
<1>6. OwnInv' /\ IdleInv'
  BY <1>2, <1>3 DEF RestInv, PlaceInv, OwnInv, IdleInv, Clean
<1>7. BringInv' /\ BusyInv'
  BY <1>2, <1>3 DEF RestInv, BringInv, BusyInv
<1>8. QED
  BY <1>4, <1>5, <1>6, <1>7 DEF RestInv

(* What may be active while the driver's last transfer was good. *)
LEMMA ActiveIsOurs ==
    ASSUME HostInv, ctl.transfer = "active", ctl.at = "qh"
    PROVE  /\ hpc \in {"unlink", "stop", "end"} => ~ (urb.ok /\ urb.clean)
           /\ hpc = "end" => ~urb.ok
           /\ fresh => hpc # "idle"
BY DEF HostInv, RestInv, OwnInv, IdleInv, Clean

(* A fresh drive is sent bulk transfers; while a port is brought up, a     *)
(* drive that hears a transfer is told by a control message.               *)
LEMMA Kinds ==
    ASSUME HostInv
    PROVE  /\ fresh /\ hpc # "idle" => urb.for = "bulk" /\ ~urb.ctrl
           /\ bringup.stage # "none" /\ usbport.enabled /\ drive.address = urb.to => urb.ctrl
<1>1. fresh => bringup.stage = "none"
  BY DEF HostInv, RestInv, BringInv
<1>2. ASSUME fresh, hpc # "idle" PROVE urb.for = "bulk" /\ ~urb.ctrl
  BY <1>1, <1>2 DEF HostInv, RestInv, PlaceInv, StageOf
<1>3. ASSUME bringup.stage # "none", usbport.enabled, drive.address = urb.to PROVE urb.ctrl
  BY <1>3 DEF HostInv, RestInv, PlaceInv, BringInv
<1>4. QED
  BY <1>2, <1>3

LEMMA Completes ==
    ASSUME HostInv, HcCompletes
    PROVE  HostInv'
<1>0. HostTypeOK /\ RestInv
  BY DEF HostInv
<1>1. PICK flips \in BOOLEAN :
         /\ Does(flips)
         /\ ctl' = [ctl EXCEPT !.transfer = "done", !.int = TRUE,
                               !.toggle = IF urb.ctrl THEN 0
                                          ELSE IF flips THEN 1 - ctl.toggle ELSE ctl.toggle]
  BY DEF HcCompletes
<1>2. /\ ctl.at = "qh" /\ ctl.transfer = "active" /\ usbport.enabled /\ drive.address = urb.to
      /\ UNCHANGED <<usbport, dev, urb, hpc, bringup, mishaps, fresh>>
  BY DEF HcCompletes, Hears
<1>3. /\ drive' \in DriveStates
      /\ drive'.address = IF urb.for = "address" THEN Address ELSE drive.address
      /\ drive'.toggle = IF urb.ctrl \/ ~flips THEN drive.toggle ELSE 1 - drive.toggle
  BY <1>0, <1>1, DriveDoes
<1>4. PICK t \in Toggles : t = IF urb.ctrl THEN 0
                                ELSE IF flips THEN 1 - ctl.toggle ELSE ctl.toggle
  BY <1>0, Fields DEF Toggles
<1>5. ctl' = [ctl EXCEPT !.transfer = "done", !.int = TRUE, !.toggle = t]
  BY <1>1, <1>4, Zenon
<1>6. /\ ctl' \in CtlStates /\ (ctl'.linked <=> ctl.linked) /\ ctl'.at = "qh"
      /\ ctl'.transfer = "done" /\ ctl'.toggle = t
  BY <1>0, <1>2, <1>5 DEF HostTypeOK, CtlStates
<1>7. /\ hpc \in {"unlink", "stop", "end"} => ~ (urb.ok /\ urb.clean)
      /\ hpc = "end" => ~urb.ok
      /\ fresh => hpc # "idle"
      /\ fresh /\ hpc # "idle" => urb.for = "bulk" /\ ~urb.ctrl
      /\ bringup.stage # "none" => urb.ctrl
  BY <1>2, ActiveIsOurs, Kinds
<1>8. HostTypeOK'
  BY <1>0, <1>2, <1>3, <1>6 DEF HostTypeOK
<1>9. PlaceInv'
  BY <1>0, <1>2, <1>6 DEF RestInv, PlaceInv
<1>10. OwnInv'
  BY <1>0, <1>2, <1>3, <1>6, <1>7 DEF RestInv, OwnInv
<1>11. BringInv'
  BY <1>0, <1>2, <1>3, <1>7 DEF RestInv, PlaceInv, BringInv
<1>12. IdleInv'
  BY <1>2, <1>7 DEF IdleInv
<1>13. BusyInv'
  <2>1. SUFFICES ASSUME fresh, hpc # "idle" PROVE BusyInv'
    BY <1>2 DEF BusyInv
  <2>2. /\ urb.clean /\ urb.for = "bulk" /\ ~urb.ctrl
        /\ urb.ok => ctl.toggle = drive.toggle
    BY <1>0, <1>2, <1>7, <2>1 DEF RestInv, BusyInv
  <2>3. drive'.address = urb.to
    BY <1>2, <1>3, <2>2
  <2>4. urb.ok => ctl'.toggle = drive'.toggle
    BY <1>3, <1>4, <1>6, <2>2
  <2>5. hpc \in {"stop", "end"} => ~urb.ok
    BY <1>7, <2>2
  <2>6. QED
    BY <1>2, <2>2, <2>3, <2>4, <2>5 DEF BusyInv
<1>14. QED
  BY <1>8, <1>9, <1>10, <1>11, <1>12, <1>13 DEF HostInv, RestInv

LEMMA Halts ==
    ASSUME HostInv, NEW bound \in Nat, HcHalts(bound)
    PROVE  HostInv'
<1>0. HostTypeOK /\ RestInv
  BY DEF HostInv
<1>1. /\ ctl.at = "qh" /\ ctl.transfer = "active"
      /\ UNCHANGED drive \/ (usbport.enabled /\ drive.address = urb.to /\ Does(TRUE))
      /\ UNCHANGED <<usbport, dev, urb, hpc, bringup, fresh>>
  BY DEF HcHalts, Hears
<1>2. mishaps' \in Nat
  BY <1>0 DEF HcHalts, HostTypeOK
<1>3. ctl' = [ctl EXCEPT !.transfer = "halted", !.err = TRUE]
  BY DEF HcHalts
<1>4. /\ ctl' \in CtlStates /\ (ctl'.linked <=> ctl.linked) /\ ctl'.at = "qh"
      /\ ctl'.transfer = "halted" /\ ctl'.toggle = ctl.toggle /\ (ctl'.int <=> ctl.int)
  BY <1>0, <1>1, <1>3 DEF HostTypeOK, CtlStates
<1>5. PICK flips \in BOOLEAN : flips = TRUE
  OBVIOUS
<1>6. /\ drive' \in DriveStates
      /\ \/ drive' = drive
         \/ /\ usbport.enabled /\ drive.address = urb.to
            /\ drive'.address = IF urb.for = "address" THEN Address ELSE drive.address
            /\ drive'.toggle = IF urb.ctrl \/ ~flips THEN drive.toggle ELSE 1 - drive.toggle
  <2>1. CASE UNCHANGED drive
    BY <1>0, <2>1 DEF HostTypeOK
  <2>2. CASE usbport.enabled /\ drive.address = urb.to /\ Does(TRUE)
    <3>1. Does(flips)
      BY <1>5, <2>2, Zenon
    <3>2. QED
      BY <1>0, <2>2, <3>1, DriveDoes
  <2>3. QED
    BY <1>1, <2>1, <2>2
<1>7. /\ hpc \in {"unlink", "stop", "end"} => ~ (urb.ok /\ urb.clean)
      /\ hpc = "end" => ~urb.ok
      /\ fresh => hpc # "idle"
      /\ fresh /\ hpc # "idle" => urb.for = "bulk" /\ ~urb.ctrl
      /\ bringup.stage # "none" /\ usbport.enabled /\ drive.address = urb.to => urb.ctrl
  BY <1>1, ActiveIsOurs, Kinds
<1>8. HostTypeOK'
  BY <1>0, <1>1, <1>2, <1>4, <1>6 DEF HostTypeOK
<1>9. PlaceInv'
  BY <1>0, <1>1, <1>4 DEF RestInv, PlaceInv
<1>10. OwnInv'
  BY <1>0, <1>1, <1>4, <1>7 DEF RestInv, OwnInv
<1>11. BringInv'
  BY <1>0, <1>1, <1>6, <1>7 DEF RestInv, PlaceInv, BringInv
<1>12. IdleInv'
  BY <1>1, <1>7 DEF IdleInv
<1>13. BusyInv'
  BY <1>0, <1>1, <1>4, <1>6, <1>7 DEF RestInv, BusyInv
<1>14. QED
  BY <1>8, <1>9, <1>10, <1>11, <1>12, <1>13 DEF HostInv, RestInv

LEMMA Waits ==
    ASSUME HostInv, NEW bound \in Nat, WaitDone(bound) \/ WaitStopped(bound)
    PROVE  HostInv'
<1>0. HostTypeOK /\ RestInv
  BY DEF HostInv
<1>1. PICK done, ok \in BOOLEAN :
         /\ handshake(done, ok, bound) /\ urb' = [urb EXCEPT !.ok = ok]
         /\ \/ hpc = "wait" /\ hpc' = "unlink" /\ done = ctl.int
            \/ hpc = "stop" /\ hpc' = "end" /\ done = (ctl.at = "head")
         /\ UNCHANGED <<usbport, drive, dev, bringup, fresh>>
  <2>1. CASE WaitDone(bound)
    <3>1. ctl.int \in BOOLEAN
      BY <1>0, Fields
    <3>2. QED
      BY <2>1, <3>1 DEF WaitDone
  <2>2. CASE WaitStopped(bound)
    <3>1. PICK done \in BOOLEAN : done = (ctl.at = "head")
      OBVIOUS
    <3>2. PICK ok \in BOOLEAN :
            handshake(ctl.at = "head", ok, bound) /\ urb' = [urb EXCEPT !.ok = ok]
      BY <2>2 DEF WaitStopped
    <3>3. handshake(done, ok, bound)
      BY <3>1, <3>2, Zenon
    <3>4. QED
      BY <2>2, <3>1, <3>2, <3>3 DEF WaitStopped
  <2>3. QED
    BY <2>1, <2>2
<1>2. /\ ctl' \in CtlStates /\ mishaps' \in Nat
      /\ (ctl'.linked <=> ctl.linked) /\ ctl'.at = ctl.at
      /\ ctl'.transfer = ctl.transfer /\ ctl'.toggle = ctl.toggle
      /\ ok => done /\ ~ctl'.int /\ ~ctl'.err
  BY <1>0, <1>1, Waited
<1>3. urb \in UrbStates
  BY <1>0 DEF HostTypeOK
<1>4. /\ urb' \in UrbStates /\ urb'.ok = ok /\ urb'.for = urb.for /\ urb'.ctrl = urb.ctrl
      /\ urb'.to = urb.to /\ urb'.clean = urb.clean
  BY <1>1, <1>3, OkIsSet, Zenon
<1>5. urb.ok
  BY <1>0, <1>1 DEF RestInv, PlaceInv
<1>6. HostTypeOK'
  BY <1>0, <1>1, <1>2, <1>4 DEF HostTypeOK
<1>7. PlaceInv'
  BY <1>0, <1>1, <1>2, <1>4 DEF RestInv, PlaceInv
<1>8. OwnInv'
  <2>1. CASE hpc = "wait"
    BY <1>0, <1>1, <1>2, <1>4, <1>5, <2>1 DEF RestInv, OwnInv
  <2>2. CASE hpc = "stop"
    BY <1>0, <1>1, <1>2, <1>4, <1>5, <2>2 DEF RestInv, OwnInv, Clean
  <2>3. QED
    BY <1>1, <2>1, <2>2
<1>9. BringInv' /\ IdleInv'
  BY <1>0, <1>1, <1>4 DEF RestInv, BringInv, IdleInv
<1>10. BusyInv'
  BY <1>0, <1>1, <1>2, <1>4, <1>5 DEF RestInv, BusyInv
<1>11. QED
  BY <1>6, <1>7, <1>8, <1>9, <1>10 DEF HostInv, RestInv

LEMMA Unlinks ==
    ASSUME HostInv, Unlink
    PROVE  HostInv'
<1>0. HostTypeOK /\ RestInv
  BY DEF HostInv
<1>1. /\ hpc = "unlink"
      /\ dev' = IF urb.ctrl THEN dev ELSE [dev EXCEPT !.toggle = ctl.toggle]
      /\ hpc' = IF urb.ok THEN "stop" ELSE "end"
      /\ UNCHANGED <<usbport, drive, urb, bringup, mishaps, fresh>>
  BY DEF Unlink
<1>2. ctl' = [ctl EXCEPT !.linked = FALSE]
  BY DEF Unlink
<1>3. /\ ctl' \in CtlStates /\ ~ctl'.linked /\ ctl'.at = ctl.at
      /\ ctl'.transfer = ctl.transfer /\ ctl'.toggle = ctl.toggle
      /\ (ctl'.int <=> ctl.int) /\ (ctl'.err <=> ctl.err)
  BY <1>0, <1>2 DEF HostTypeOK, CtlStates
<1>4. /\ dev' \in DevStates /\ dev'.id = dev.id
      /\ dev'.toggle = IF urb.ctrl THEN dev.toggle ELSE ctl.toggle
  <2>1. dev \in DevStates /\ ctl.toggle \in Toggles
    BY <1>0, Fields DEF HostTypeOK
  <2>2. QED
    BY <1>1, <2>1 DEF DevStates
<1>5. HostTypeOK'
  BY <1>0, <1>1, <1>3, <1>4 DEF HostTypeOK
<1>6. PlaceInv'
  BY <1>0, <1>1, <1>3, <1>4 DEF RestInv, PlaceInv
<1>7. OwnInv'
  BY <1>0, <1>1, <1>3 DEF RestInv, OwnInv
<1>8. BringInv'
  <2>1. bringup.stage \in {"halt", "check"} => urb.ctrl
    BY <1>0, <1>1 DEF RestInv, PlaceInv, StageOf
  <2>2. QED
    BY <1>0, <1>1, <1>4, <2>1 DEF RestInv, BringInv
<1>9. fresh => ~urb.ctrl
  BY <1>1, Kinds
<1>10. IdleInv' /\ BusyInv'
  BY <1>0, <1>1, <1>3, <1>4, <1>9 DEF RestInv, IdleInv, BusyInv
<1>11. QED
  BY <1>5, <1>6, <1>7, <1>8, <1>10 DEF HostInv, RestInv

(* What the end of every transfer keeps. *)
LEMMA Ends ==
    ASSUME HostInv, NEW where \in InitStates, where.stage = "none" => where = NoInit,
           EndsWith(where), UNCHANGED <<usbport, drive>>, dev' \in DevStates, fresh' \in BOOLEAN,
           where.stage # "none" =>
               /\ ~fresh' /\ urb.for # "bulk" /\ bringup.stage # "none"
               /\ where.stage \in {"halt", "check"} => dev'.toggle = 0,
           fresh' =>
               /\ Clean(ctl)
               /\ usbport.enabled => dev'.id = drive.address /\ dev'.toggle = drive.toggle
    PROVE  HostInv'
<1>0. HostTypeOK /\ RestInv
  BY DEF HostInv
<1>1. /\ hpc = "end" /\ hpc' = "idle" /\ bringup' = where
      /\ urb' \in UrbStates /\ urb'.for = urb.for /\ urb'.to = urb.to
      /\ urb'.ctrl <=> urb.ctrl
      /\ UNCHANGED <<ctl, mishaps>>
  BY <1>0, Ended
<1>2. HostTypeOK'
  BY <1>0, <1>1 DEF HostTypeOK
<1>3. PlaceInv'
  BY <1>0, <1>1 DEF RestInv, PlaceInv
<1>4. OwnInv' /\ BusyInv'
  BY <1>1 DEF OwnInv, BusyInv
<1>5. BringInv'
  BY <1>0, <1>1 DEF RestInv, BringInv
<1>6. IdleInv'
  BY <1>1 DEF IdleInv, Clean
<1>7. QED
  BY <1>2, <1>3, <1>4, <1>5, <1>6 DEF HostInv, RestInv

(* A message is sent in its own stages; while a port is brought up, no     *)
(* drive is taken for a known one.                                         *)
LEMMA Sent ==
    ASSUME HostInv, hpc = "end"
    PROVE  /\ urb.for = StageOf(bringup.stage) /\ urb.to = dev.id
           /\ urb.for \in Controls =>
                 /\ bringup.stage # "none" /\ ~fresh
                 /\ usbport.enabled => drive.toggle = 0
           /\ urb.for \in {"halt", "check"} => dev.toggle = 0
<1>1. urb.for = StageOf(bringup.stage) /\ urb.to = dev.id
  BY DEF HostInv, RestInv, PlaceInv
<1>2. urb.for \in Controls => bringup.stage # "none"
  BY <1>1 DEF StageOf, Controls
<1>3. urb.for \in {"halt", "check"} => bringup.stage \in {"halt", "check"}
  BY <1>1 DEF StageOf
<1>4. QED
  BY <1>1, <1>2, <1>3 DEF HostInv, RestInv, BringInv

LEMMA DescriptorEnds ==
    ASSUME HostInv, DescriptorRead
    PROVE  HostInv'
<1>1. hpc = "end" /\ urb.for = "desc" /\ UNCHANGED <<usbport, drive, dev, fresh>>
  BY DEF DescriptorRead, EndsWith
<1>2. PICK where : where = IF urb.ok THEN [stage |-> "address", i |-> 0]
                           ELSE IF bringup.i + 1 < DescTries THEN [bringup EXCEPT !.i = @ + 1]
                           ELSE NextWay[bringup.stage]
  OBVIOUS
<1>3. EndsWith(where)
  BY <1>2, Zenon DEF DescriptorRead
<1>4. bringup.stage \in {"desc", "reset", "acquire"} /\ ~fresh
  BY <1>1, Sent DEF StageOf, Controls
<1>5. bringup \in InitStates /\ dev \in DevStates /\ fresh \in BOOLEAN
  BY DEF HostInv, HostTypeOK
<1>6. PICK again : again = [bringup EXCEPT !.i = @ + 1]
  OBVIOUS
<1>7. again \in InitStates /\ again.stage = bringup.stage
  BY <1>5, <1>6 DEF InitStates
<1>8. /\ NextWay["desc"] = [stage |-> "reset", i |-> 0]
      /\ NextWay["reset"] = [stage |-> "acquire", i |-> 0]
      /\ NextWay["acquire"] = NoInit
  BY DEF NextWay
<1>9. /\ NextWay[bringup.stage] \in InitStates
      /\ NextWay[bringup.stage].stage \in {"none", "reset", "acquire"}
      /\ NextWay[bringup.stage].stage = "none" => NextWay[bringup.stage] = NoInit
  BY <1>4, <1>8 DEF InitStates, NoInit
<1>10. /\ where \in InitStates /\ where.stage \notin {"halt", "check"}
       /\ where.stage = "none" => where = NoInit
  <2>1. CASE urb.ok
    <3>1. where = [stage |-> "address", i |-> 0]
      BY <1>2, <2>1
    <3>2. QED
      BY <3>1 DEF InitStates, Controls
  <2>2. CASE ~urb.ok /\ where = again
    BY <1>4, <1>7, <2>2
  <2>3. CASE where = NextWay[bringup.stage]
    BY <1>9, <2>3
  <2>4. QED
    BY <1>2, <1>6, <2>1, <2>2, <2>3
<1>11. QED
  BY <1>1, <1>3, <1>4, <1>5, <1>10, Ends

LEMMA AddressEnds ==
    ASSUME HostInv, AddressSent
    PROVE  HostInv'
<1>1. hpc = "end" /\ urb.for = "address" /\ UNCHANGED <<usbport, drive, fresh>>
  BY DEF AddressSent, EndsWith
<1>2. dev' \in DevStates /\ dev'.toggle = 0
  BY DEF AddressSent, AddressTaken, DevStates, Toggles, Address
<1>3. PICK where : where = [stage |-> "halt", i |-> 0]
  OBVIOUS
<1>4. EndsWith(where)
  BY <1>3, Zenon DEF AddressSent
<1>5. where \in InitStates /\ where.stage = "halt"
  BY <1>3 DEF InitStates, Controls
<1>6. bringup.stage # "none" /\ ~fresh /\ fresh \in BOOLEAN
  BY <1>1, Sent DEF Controls, HostInv, HostTypeOK
<1>7. QED
  BY <1>1, <1>2, <1>4, <1>5, <1>6, Ends

LEMMA HaltEnds ==
    ASSUME HostInv, HaltCleared
    PROVE  HostInv'
<1>1. hpc = "end" /\ urb.for = "halt" /\ UNCHANGED <<usbport, drive, dev, fresh>>
  BY DEF HaltCleared, EndsWith
<1>2. PICK where : where = [stage |-> "check", i |-> 0]
  OBVIOUS
<1>3. EndsWith(where)
  BY <1>2, Zenon DEF HaltCleared
<1>4. where \in InitStates /\ where.stage = "check"
  BY <1>2 DEF InitStates, Controls
<1>5. bringup.stage # "none" /\ ~fresh /\ dev.toggle = 0
  BY <1>1, Sent DEF Controls
<1>6. dev \in DevStates /\ fresh \in BOOLEAN
  BY DEF HostInv, HostTypeOK
<1>7. QED
  BY <1>1, <1>3, <1>4, <1>5, <1>6, Ends

LEMMA CheckEnds ==
    ASSUME HostInv, AddressChecked
    PROVE  HostInv'
<1>1. /\ hpc = "end" /\ urb.for = "check" /\ UNCHANGED <<usbport, drive>>
      /\ fresh' = (urb.ok /\ urb.clean)
      /\ dev' = IF urb.ok THEN dev ELSE [dev EXCEPT !.id = 0]
  BY DEF AddressChecked, EndsWith
<1>2. PICK where : where = IF urb.ok THEN NoInit ELSE [stage |-> "address", i |-> 0]
  OBVIOUS
<1>3. EndsWith(where)
  BY <1>2, Zenon DEF AddressChecked
<1>4. /\ where \in InitStates /\ where.stage \in {"none", "address"}
      /\ where.stage = "none" => where = NoInit
      /\ where.stage # "none" => ~urb.ok
  BY <1>2 DEF InitStates, Controls, NoInit
<1>5. /\ bringup.stage # "none" /\ dev.toggle = 0 /\ urb.to = dev.id
      /\ usbport.enabled => drive.toggle = 0
  BY <1>1, Sent DEF Controls
<1>6. dev \in DevStates /\ urb.ok \in BOOLEAN /\ urb.clean \in BOOLEAN
  BY Fields DEF HostInv, HostTypeOK
<1>7. dev' \in DevStates /\ dev'.toggle = 0 /\ (urb.ok => dev' = dev)
  BY <1>1, <1>5, <1>6 DEF DevStates
<1>8. fresh' \in BOOLEAN
  BY <1>1, <1>6
<1>9. urb.ok /\ urb.clean =>
        Clean(ctl) /\ (usbport.enabled => drive.address = urb.to)
  BY <1>1 DEF HostInv, RestInv, OwnInv
<1>10. QED
  BY <1>1, <1>3, <1>4, <1>5, <1>7, <1>8, <1>9, Ends

LEMMA BulkEnds ==
    ASSUME HostInv, BulkDone
    PROVE  HostInv'
<1>1. /\ hpc = "end" /\ urb.for = "bulk" /\ UNCHANGED <<usbport, drive, dev>>
      /\ fresh' = (fresh /\ urb.ok) /\ EndsWith(NoInit)
  BY DEF BulkDone, EndsWith
<1>2. NoInit \in InitStates /\ NoInit.stage = "none"
  BY DEF InitStates, NoInit
<1>3. dev \in DevStates /\ urb.ok \in BOOLEAN /\ fresh \in BOOLEAN
  BY Fields DEF HostInv, HostTypeOK
<1>4. fresh' \in BOOLEAN
  BY <1>1, <1>3
<1>5. urb.to = dev.id
  BY <1>1, Sent
<1>6. fresh /\ urb.ok =>
        /\ Clean(ctl)
        /\ usbport.enabled => drive.address = urb.to /\ dev.toggle = drive.toggle
  BY <1>1 DEF HostInv, RestInv, OwnInv, BusyInv
<1>7. QED
  BY <1>1, <1>2, <1>3, <1>4, <1>5, <1>6, Ends

(* What the start of every transfer keeps. *)
LEMMA Starts ==
    ASSUME HostInv, hpc = "idle", NEW c \in CtlStates, ~c.linked,
           NEW for \in Controls \cup {"bulk"}, NEW ctrl \in BOOLEAN, NEW input \in BOOLEAN,
           NEW dma \in Nat, NEW length \in Nat,
           ehci_do_urb(c, for, ctrl, input, dma, length),
           for = StageOf(bringup.stage), ctrl <=> for # "bulk", for = "bulk" => dev.id # 0,
           UNCHANGED <<dev, bringup, mishaps, fresh>>,
           usbport' \in PortStates, drive' \in DriveStates,
           for = "bulk" => c = ctl /\ UNCHANGED <<usbport, drive>>,
           for # "bulk" => bringup.stage # "none" /\ (usbport'.enabled => drive'.toggle = 0)
    PROVE  HostInv'
<1>0. HostTypeOK /\ RestInv
  BY DEF HostInv
<1>1. /\ urb' \in UrbStates /\ ctl' \in CtlStates
      /\ urb'.for = for /\ (urb'.ctrl <=> ctrl) /\ urb'.to = dev.id
      /\ urb'.clean <=> Clean(c)
      /\ ctl'.int <=> c.int
      /\ urb'.ok => /\ hpc' = "wait" /\ ctl'.transfer = "active" /\ FitsPool(urb')
                    /\ ~ctrl => ctl'.toggle = dev.toggle
      /\ ~urb'.ok => hpc' = "end" /\ ctl' = c
  BY <1>0, Started
<1>2. for = "bulk" => bringup.stage = "none"
  BY <1>0, Fields DEF StageOf, Controls
<1>3. HostTypeOK'
  BY <1>0, <1>1 DEF HostTypeOK
<1>4. PlaceInv'
  BY <1>0, <1>1 DEF RestInv, PlaceInv
<1>5. OwnInv'
  BY <1>1 DEF OwnInv, Clean
<1>6. BringInv'
  BY <1>0, <1>1, <1>2 DEF RestInv, BringInv
<1>7. IdleInv'
  BY <1>1 DEF IdleInv
<1>8. fresh => for = "bulk"
  BY <1>0 DEF RestInv, BringInv
<1>9. BusyInv'
  BY <1>0, <1>1, <1>8 DEF RestInv, IdleInv, BusyInv
<1>10. QED
  BY <1>3, <1>4, <1>5, <1>6, <1>7, <1>9 DEF HostInv, RestInv

LEMMA NotLinked ==
    ASSUME HostInv, hpc = "idle"
    PROVE  ctl \in CtlStates /\ ~ctl.linked
BY DEF HostInv, HostTypeOK, RestInv, PlaceInv

LEMMA MessageStarts ==
    ASSUME HostInv, SendDescriptor \/ SendAddress \/ USB_ClearHalt \/ SendCheck
    PROVE  HostInv'
<1>1. PICK for \in Controls, input \in BOOLEAN, length \in Nat :
         bringup.stage = for /\ ehci_control_message(ctl, for, input, length)
  <2>1. PICK yes \in BOOLEAN, no \in BOOLEAN : yes = TRUE /\ no = FALSE
    OBVIOUS
  <2>2. DescLength \in Nat
    BY HostAssumption
  <2>3. CASE SendDescriptor
    <3>1. bringup.stage = "desc" /\ ehci_control_message(ctl, "desc", yes, DescLength)
      BY <2>1, <2>3, Zenon DEF SendDescriptor
    <3>2. QED
      BY <2>2, <3>1 DEF Controls
  <2>4. CASE SendAddress
    <3>1. bringup.stage = "address" /\ ehci_control_message(ctl, "address", no, 0)
      BY <2>1, <2>4, Zenon DEF SendAddress
    <3>2. QED
      BY <3>1 DEF Controls
  <2>5. CASE USB_ClearHalt
    <3>1. bringup.stage = "halt" /\ ehci_control_message(ctl, "halt", no, 0)
      BY <2>1, <2>5, Zenon DEF USB_ClearHalt
    <3>2. QED
      BY <3>1 DEF Controls
  <2>6. CASE SendCheck
    <3>1. bringup.stage = "check" /\ ehci_control_message(ctl, "check", yes, DescLength)
      BY <2>1, <2>6, Zenon DEF SendCheck
    <3>2. QED
      BY <2>2, <3>1 DEF Controls
  <2>7. QED
    BY <2>3, <2>4, <2>5, <2>6
<1>2. PICK yes \in BOOLEAN : yes = TRUE
  OBVIOUS
<1>3. ehci_do_urb(ctl, for, yes, input, 0, length)
  BY <1>1, <1>2, Zenon DEF ehci_control_message
<1>4. hpc = "idle" /\ UNCHANGED <<usbport, drive, dev, bringup, mishaps, fresh>>
  BY DEF SendDescriptor, SendAddress, USB_ClearHalt, SendCheck
<1>5. for \in Controls \cup {"bulk"} /\ for # "bulk" /\ for = StageOf(bringup.stage)
  BY <1>1 DEF Controls, StageOf
<1>6. /\ usbport' \in PortStates /\ drive' \in DriveStates /\ bringup.stage # "none"
      /\ usbport'.enabled => drive'.toggle = 0
  BY <1>1, <1>4 DEF HostInv, HostTypeOK, RestInv, BringInv, Controls
<1>7. yes <=> for # "bulk"
  BY <1>2, <1>5
<1>8. QED
  BY <1>3, <1>4, <1>5, <1>6, <1>7, NotLinked, Starts

LEMMA BulkStarts ==
    ASSUME HostInv, ehci_bulk_message
    PROVE  HostInv'
<1>1. /\ hpc = "idle" /\ bringup = NoInit /\ dev.id # 0
      /\ UNCHANGED <<usbport, drive, dev, bringup, mishaps, fresh>>
  BY DEF ehci_bulk_message
<1>2. PICK no \in BOOLEAN : no = FALSE
  OBVIOUS
<1>3. PICK input \in BOOLEAN, dma \in Alignments, length \in BulkLengths :
         ehci_do_urb(ctl, "bulk", FALSE, input, dma, length)
  BY Zenon DEF ehci_bulk_message
<1>4. ehci_do_urb(ctl, "bulk", no, input, dma, length)
  BY <1>2, <1>3, Zenon
<1>5. dma \in Nat /\ length \in Nat
  BY HostAssumption
<1>6. "bulk" = StageOf(bringup.stage)
  BY <1>1 DEF NoInit, StageOf
<1>7. usbport' \in PortStates /\ drive' \in DriveStates
  BY <1>1 DEF HostInv, HostTypeOK
<1>8. no <=> "bulk" # "bulk"
  BY <1>2
<1>9. QED
  BY <1>1, <1>4, <1>5, <1>6, <1>7, <1>8, NotLinked, Starts

LEMMA ResetStarts ==
    ASSUME HostInv, ResetAndSend \/ AcquireAndSend
    PROVE  HostInv'
<1>0. HostTypeOK
  BY DEF HostInv
<1>1. /\ hpc = "idle" /\ bringup.stage \in {"reset", "acquire"}
      /\ UNCHANGED <<dev, bringup, mishaps, fresh>>
  BY DEF ResetAndSend, AcquireAndSend
<1>2. PICK p \in PortStates : \E r \in ehci_reset_usb_port(p) :
         /\ usbport' = r.port /\ drive' = r.drive
         /\ ehci_control_message(r.ctl, "desc", TRUE, DescLength)
  <2>1. CASE ResetAndSend
    <3>1. usbport \in PortStates
      BY <1>0 DEF HostTypeOK
    <3>2. QED
      BY <2>1, <3>1, Zenon DEF ResetAndSend
  <2>2. CASE AcquireAndSend
    <3>1. PICK p : p = ehci_adquire_port(usbport)
      OBVIOUS
    <3>2. p \in PortStates
      BY <1>0, <3>1 DEF HostTypeOK, PortStates, ehci_adquire_port
    <3>3. QED
      BY <2>2, <3>1, <3>2, Zenon DEF AcquireAndSend
  <2>3. QED
    BY <2>1, <2>2
<1>3. PICK r \in ehci_reset_usb_port(p) :
         /\ usbport' = r.port /\ drive' = r.drive
         /\ ehci_control_message(r.ctl, "desc", TRUE, DescLength)
  BY <1>2
<1>4. /\ r.port \in PortStates /\ r.drive \in DriveStates /\ r.ctl \in CtlStates
      /\ r.port.enabled => r.drive.toggle = 0
      /\ r.ctl.linked <=> ctl.linked
  BY <1>0, Reset
<1>5. PICK c : c = r.ctl
  OBVIOUS
<1>6. c \in CtlStates /\ ~c.linked
  BY <1>1, <1>4, <1>5, NotLinked
<1>7. PICK yes \in BOOLEAN : yes = TRUE
  OBVIOUS
<1>8. ehci_do_urb(c, "desc", yes, yes, 0, DescLength)
  BY <1>3, <1>5, <1>7, Zenon DEF ehci_control_message
<1>9. /\ "desc" \in Controls \cup {"bulk"} /\ "desc" # "bulk"
      /\ "desc" = StageOf(bringup.stage) /\ bringup.stage # "none"
      /\ 0 \in Nat /\ DescLength \in Nat
      /\ yes <=> "desc" # "bulk"
  BY <1>1, <1>7, HostAssumption DEF Controls, StageOf
<1>10. /\ usbport' \in PortStates /\ drive' \in DriveStates
       /\ usbport'.enabled => drive'.toggle = 0
  BY <1>3, <1>4
<1>11. QED
  BY <1>1, <1>6, <1>8, <1>9, <1>10, Starts

LEMMA PortResets ==
    ASSUME HostInv, ehci_reset_port
    PROVE  HostInv'
<1>0. HostTypeOK /\ RestInv
  BY DEF HostInv
<1>1. PICK r \in ehci_reset_usb_port(usbport) :
         /\ usbport' = r.port /\ drive' = r.drive /\ ctl' = r.ctl
         /\ bringup' = IF r.ok THEN [stage |-> "desc", i |-> 0] ELSE NoInit
         /\ dev' = IF r.ok THEN [dev EXCEPT !.id = 0] ELSE dev
  BY DEF ehci_reset_port
<1>2. /\ hpc = "idle" /\ bringup = NoInit /\ fresh' = FALSE
      /\ UNCHANGED <<urb, hpc, mishaps>>
  BY DEF ehci_reset_port
<1>3. usbport \in PortStates /\ dev \in DevStates
  BY <1>0 DEF HostTypeOK
<1>4. /\ r.ok \in BOOLEAN /\ r.port \in PortStates /\ r.drive \in DriveStates
      /\ r.ctl \in CtlStates
      /\ r.port.enabled => r.drive.address = 0 /\ r.drive.toggle = 0
      /\ r.ctl.linked <=> ctl.linked
  BY <1>0, <1>3, Reset
<1>5. /\ usbport' \in PortStates /\ drive' \in DriveStates /\ ctl' \in CtlStates
      /\ usbport'.enabled => drive'.address = 0 /\ drive'.toggle = 0
      /\ ctl'.linked <=> ctl.linked
  BY <1>1, <1>4
<1>6. dev' \in DevStates
  BY <1>1, <1>3, <1>4 DEF DevStates
<1>7. /\ bringup' \in InitStates /\ bringup'.stage \in {"none", "desc"}
      /\ bringup'.stage = "none" => bringup' = NoInit
  BY <1>1 DEF InitStates, NoInit, Controls
<1>8. HostTypeOK'
  BY <1>0, <1>2, <1>5, <1>6, <1>7 DEF HostTypeOK
<1>9. PlaceInv'
  BY <1>0, <1>2, <1>5, <1>7 DEF RestInv, PlaceInv
<1>10. OwnInv' /\ IdleInv' /\ BusyInv'
  BY <1>2 DEF OwnInv, IdleInv, BusyInv
<1>11. BringInv'
  BY <1>2, <1>5, <1>7 DEF BringInv
<1>12. QED
  BY <1>8, <1>9, <1>10, <1>11 DEF HostInv, RestInv

-----------------------------------------------------------------------------
(* The theorems. *)

LEMMA HostStarts == HostInit => HostInv
<1> SUFFICES ASSUME HostInit PROVE HostInv
  OBVIOUS
<1>1. usbport \in PortStates
  BY DEF HostInit, PortStates
<1>2. drive \in DriveStates /\ dev \in DevStates
  BY DEF HostInit, DriveStates, DevStates, Toggles
<1>3. ctl \in CtlStates /\ ~ctl.linked
  BY DEF HostInit, CtlStates, Toggles
<1>4. urb \in UrbStates /\ urb.for = "none" /\ urb.ctrl
  BY DEF HostInit, NoUrb, UrbStates
<1>5. bringup \in InitStates /\ bringup = NoInit /\ bringup.stage = "none"
  BY DEF HostInit, NoInit, InitStates
<1>6. hpc = "idle" /\ mishaps = 0 /\ fresh = FALSE
  BY DEF HostInit
<1>7. HostTypeOK
  BY <1>1, <1>2, <1>3, <1>4, <1>5, <1>6 DEF HostTypeOK
<1>8. RestInv
  BY <1>3, <1>4, <1>5, <1>6 DEF RestInv, PlaceInv, OwnInv, BringInv, IdleInv, BusyInv
<1>9. QED
  BY <1>7, <1>8 DEF HostInv

(* A control message puts its data between a setup and a status stage. *)
LEMMA Between ==
    ASSUME NEW T, NEW a \in T, NEW b \in T, NEW d \in Seq(T), NEW c, c = <<a>> \o (d \o <<b>>)
    PROVE  /\ Len(c) = Len(d) + 2 /\ c[1] = a /\ c[Len(c)] = b
           /\ SubSeq(c, 2, Len(c) - 1) = d
<1>1. PICK n \in Nat : n = Len(d)
  BY LenProperties
<1>2. PICK e : e = d \o <<b>>
  OBVIOUS
<1>3. <<a>> \in Seq(T) /\ Len(<<a>>) = 1 /\ <<b>> \in Seq(T) /\ Len(<<b>>) = 1
  OBVIOUS
<1>4. /\ e \in Seq(T) /\ Len(e) = n + 1
      /\ \A k \in 1 .. n + 1 : e[k] = IF k <= n THEN d[k] ELSE <<b>>[k - n]
  BY <1>1, <1>2, <1>3, ConcatProperties
<1>5. /\ c \in Seq(T) /\ Len(c) = 1 + (n + 1)
      /\ \A k \in 1 .. 1 + (n + 1) : c[k] = IF k <= 1 THEN <<a>>[k] ELSE e[k - 1]
  BY <1>2, <1>3, <1>4, ConcatProperties
<1>6. c[1] = a
  BY <1>5
<1>7. e[n + 1] = b
  <2>1. n + 1 \in 1 .. n + 1 /\ ~ (n + 1 <= n) /\ (n + 1) - n = 1
    OBVIOUS
  <2>2. QED
    BY <1>4, <2>1
<1>8. c[n + 2] = b
  <2>1. n + 2 \in 1 .. 1 + (n + 1) /\ ~ (n + 2 <= 1) /\ (n + 2) - 1 = n + 1
    OBVIOUS
  <2>2. QED
    BY <1>5, <1>7, <2>1
<1>9. ASSUME NEW k \in 1 .. n PROVE c[k + 1] = d[k]
  <2>1. k + 1 \in 1 .. 1 + (n + 1) /\ ~ (k + 1 <= 1) /\ (k + 1) - 1 = k /\ k \in 1 .. n + 1 /\ k <= n
    OBVIOUS
  <2>2. QED
    BY <1>4, <1>5, <2>1
<1>10. PICK s : s = SubSeq(c, 2, n + 1)
  OBVIOUS
<1>11. s \in Seq(T) /\ Len(s) = n /\ \A k \in 1 .. n : s[k] = d[k]
  <2>1. s = [k \in 1 .. n |-> c[k + 1]]
    BY <1>10, <1>5
  <2>2. QED
    BY <1>1, <1>9, <2>1
<1>12. s = d
  BY <1>1, <1>11, SeqEqual
<1>13. Len(c) - 1 = n + 1 /\ Len(c) = n + 2
  BY <1>5
<1>14. QED
  BY <1>1, <1>6, <1>8, <1>10, <1>12, <1>13

Stage(stage, len, input) == [stage |-> stage, buf |-> 0, len |-> len, input |-> input]

(* What is handed to the controller for a bulk transfer, and for a control *)
(* message with and without data.                                          *)
LEMMA Handed ==
    ASSUME NEW u \in UrbStates, NEW chain, chain = qh_urb_transaction(u),
           NEW data, data = DataOf(u.ctrl, chain)
    PROVE  /\ u.ctrl => /\ chain[1].stage = "setup"
                        /\ chain[Len(chain)] = Stage("status", 0, u.length > 0 => ~u.input)
           /\ u.ctrl /\ u.length = 0 => data = <<>>
           /\ u.ctrl /\ u.length > 0 => GoodCut(data, u.dma, u.dma + u.length, u.input, CtrlPacket)
           /\ ~u.ctrl => GoodCut(data, u.dma, u.dma + u.length, u.input, MaxPacket)
<1>1. /\ u.ctrl \in BOOLEAN /\ u.dma \in Nat /\ u.length \in Nat /\ u.input \in BOOLEAN
      /\ MaxPacket \in Packets /\ CtrlPacket \in Packets
  BY PacketSizes DEF UrbStates
<1>2. PICK inward \in BOOLEAN : inward = (u.length > 0 => ~u.input)
  OBVIOUS
<1>3. PICK a : a = Stage("setup", 8, FALSE)
  OBVIOUS
<1>4. PICK b : b = Stage("status", 0, inward)
  OBVIOUS
<1>5. a \in Qtds /\ a.stage = "setup" /\ b \in Qtds
  BY <1>3, <1>4 DEF Stage, Qtds
<1>6. b = Stage("status", 0, u.length > 0 => ~u.input)
  BY <1>2, <1>4, Zenon
<1>7. CASE ~u.ctrl
  <2>1. data = DataQtds(u.dma, u.length, u.input, MaxPacket)
    BY <1>7 DEF DataOf, qh_urb_transaction
  <2>2. QED
    BY <1>1, <1>7, <2>1, DataIsGood
<1>8. CASE u.ctrl
  <2>1. PICK d : d = IF u.length = 0 THEN <<>> ELSE DataQtds(u.dma, u.length, u.input, CtrlPacket)
    OBVIOUS
  <2>2. u.length # 0 => GoodCut(d, u.dma, u.dma + u.length, u.input, CtrlPacket)
    BY <1>1, <2>1, DataIsGood
  <2>3. d \in Seq(Qtds)
    BY <2>1, <2>2, EmptySeq DEF GoodCut
  <2>4. chain = <<a>> \o (d \o <<b>>)
    <3>1. CASE u.length = 0
      <4>1. PICK yes \in BOOLEAN : yes = TRUE
        OBVIOUS
      <4>2. inward = yes
        <5>1. ~ (u.length > 0)
          BY <1>1, <3>1
        <5>2. inward
          BY <1>2, <5>1
        <5>3. QED
          BY <4>1, <5>2
      <4>3. b = Stage("status", 0, TRUE)
        BY <1>4, <4>1, <4>2, Zenon
      <4>4. chain = <<a>> \o <<b>>
        BY <1>3, <1>8, <3>1, <4>3, Zenon DEF qh_urb_transaction, Control, Stage
      <4>5. d \o <<b>> = <<b>>
        BY <1>5, <2>1, <3>1, ConcatEmptySeq
      <4>6. QED
        BY <4>4, <4>5
    <3>2. CASE u.length # 0
      <4>1. PICK other \in BOOLEAN : other = ~u.input
        OBVIOUS
      <4>2. inward = other
        BY <1>1, <1>2, <3>2, <4>1
      <4>3. b = Stage("status", 0, ~u.input)
        BY <1>4, <4>1, <4>2, Zenon
      <4>4. QED
        BY <1>3, <1>8, <2>1, <3>2, <4>3, Zenon DEF qh_urb_transaction, Control, Stage
    <3>3. QED
      BY <3>1, <3>2
  <2>5. /\ chain[1] = a /\ chain[Len(chain)] = b
        /\ SubSeq(chain, 2, Len(chain) - 1) = d
    BY <1>5, <2>3, <2>4, Between
  <2>6. data = d
    BY <1>8, <2>5 DEF DataOf
  <2>7. chain[Len(chain)] = Stage("status", 0, u.length > 0 => ~u.input)
    BY <1>6, <2>5, Zenon
  <2>8. chain[1].stage = "setup"
    BY <1>5, <2>5
  <2>9. u.length = 0 => data = <<>>
    BY <2>1, <2>6
  <2>10. u.length > 0 => GoodCut(data, u.dma, u.dma + u.length, u.input, CtrlPacket)
    BY <1>1, <2>2, <2>6
  <2>11. QED
    BY <1>8, <2>7, <2>8, <2>9, <2>10, Zenon
<1>9. QED
  BY <1>1, <1>7, <1>8

(* Whatever the drive, the user and the controller do, in any order and at *)
(* any pace, what the driver and the controller each hold of a transfer    *)
(* and of the drive agrees (ehci_do_urb, ehci_init_port, ehci_reset_port). *)
THEOREM HostInvariant ==
    ASSUME NEW bound \in Nat
    PROVE  HostSpec(bound) => []HostInv
<1>1. HostInv /\ [HostNext(bound)]_hostVars => HostInv'
  <2> SUFFICES ASSUME HostInv, [HostNext(bound)]_hostVars PROVE HostInv'
    OBVIOUS
  <2>1. CASE WaitDone(bound) \/ WaitStopped(bound)
    BY <2>1, Waits
  <2>2. CASE Unlink
    BY <2>2, Unlinks
  <2>3. CASE DescriptorRead \/ AddressSent \/ HaltCleared \/ AddressChecked \/ BulkDone
    BY <2>3, DescriptorEnds, AddressEnds, HaltEnds, CheckEnds, BulkEnds
  <2>4. CASE SendDescriptor \/ SendAddress \/ USB_ClearHalt \/ SendCheck
    BY <2>4, MessageStarts
  <2>5. CASE ResetAndSend \/ AcquireAndSend
    BY <2>5, ResetStarts
  <2>6. CASE HcEnters \/ HcLeaves
    BY <2>6, ControllerMoves
  <2>7. CASE HcCompletes
    BY <2>7, Completes
  <2>8. CASE HcHalts(bound)
    BY <2>8, Halts
  <2>9. CASE ehci_reset_port
    BY <2>9, PortResets
  <2>10. CASE ehci_bulk_message
    BY <2>10, BulkStarts
  <2>11. CASE PlugIn \/ PullOut
    BY <2>11, UserSteps
  <2>12. CASE UNCHANGED hostVars
    BY <2>12 DEF hostVars, HostInv, HostTypeOK, RestInv, PlaceInv, OwnInv, BringInv, IdleInv,
                 BusyInv, Clean
  <2>13. QED
    BY <2>1, <2>2, <2>3, <2>4, <2>5, <2>6, <2>7, <2>8, <2>9, <2>10, <2>11, <2>12
    DEF HostNext, HostDriver, HostController
<1>2. QED
  BY <1>1, HostStarts, PTL DEF HostSpec

(* A call that succeeds was about its own transfer, and as long as calls   *)
(* succeed the driver has the drive's address and its toggle               *)
(* (handshake, ehci_do_urb, set_toggle).                                   *)
THEOREM TransfersAreOwn ==
    ASSUME NEW bound \in Nat
    PROVE  HostSpec(bound) => []TransferIsOwn
<1>1. HostInv => TransferIsOwn
  <2> SUFFICES ASSUME HostInv PROVE TransferIsOwn
    OBVIOUS
  <2>1. hpc = "end" /\ urb.ok => Clean(ctl) /\ (urb.clean => ctl.transfer = "done")
    BY DEF HostInv, RestInv, OwnInv
  <2>2. ASSUME hpc = "idle", fresh, usbport.enabled
        PROVE  dev = [id |-> drive.address, toggle |-> drive.toggle]
    <3>1. dev \in DevStates /\ dev.id = drive.address /\ dev.toggle = drive.toggle
      BY <2>2 DEF HostInv, HostTypeOK, RestInv, IdleInv
    <3>2. QED
      BY <3>1 DEF DevStates
  <2>3. QED
    BY <2>1, <2>2 DEF TransferIsOwn
<1>2. QED
  BY <1>1, HostInvariant, PTL

(* Whatever the sizes of pages, packets and transfers and wherever the     *)
(* buffer is, what is handed to the controller is the transfer: every byte *)
(* once, in order, in pages a qTD can name and without a short packet      *)
(* before the end (qh_urb_transaction, qtd_fill).                          *)
THEOREM TransfersAreWhole ==
    ASSUME NEW bound \in Nat
    PROVE  HostSpec(bound) => []ChainIsTransfer
<1>1. HostInv => ChainIsTransfer
  <2> SUFFICES ASSUME HostInv, hpc = "wait" PROVE ChainIsTransfer
    BY DEF ChainIsTransfer
  <2>1. urb \in UrbStates /\ FitsPool(urb)
    BY DEF HostInv, HostTypeOK, RestInv, PlaceInv
  <2>2. PICK chain : chain = qh_urb_transaction(urb)
    OBVIOUS
  <2>3. PICK data : data = DataOf(urb.ctrl, chain)
    OBVIOUS
  <2>4. PICK packet : packet = IF urb.ctrl THEN CtrlPacket ELSE MaxPacket
    OBVIOUS
  <2>5. /\ urb.ctrl => /\ chain[1].stage = "setup"
                       /\ chain[Len(chain)] = Stage("status", 0, urb.length > 0 => ~urb.input)
        /\ urb.ctrl /\ urb.length = 0 => data = <<>>
        /\ urb.ctrl /\ urb.length > 0 =>
             GoodCut(data, urb.dma, urb.dma + urb.length, urb.input, CtrlPacket)
        /\ ~urb.ctrl => GoodCut(data, urb.dma, urb.dma + urb.length, urb.input, MaxPacket)
    BY <2>1, <2>2, <2>3, Handed
  <2>6. urb.ctrl \in BOOLEAN /\ urb.length \in Nat
    BY <2>1 DEF UrbStates
  <2>7. /\ data = <<>> /\ urb.length = 0
        \/ GoodCut(data, urb.dma, urb.dma + urb.length, urb.input, packet)
    BY <2>4, <2>5, <2>6
  <2>8. urb.length > 0 =>
          /\ data[1].buf = urb.dma
          /\ data[Len(data)].buf + data[Len(data)].len = urb.dma + urb.length
    BY <2>6, <2>7 DEF GoodCut
  <2>9. \A k \in DOMAIN data :
          /\ data[k].stage = "data"
          /\ (data[k].buf % PageBytes) + data[k].len <= QtdPages * PageBytes
          /\ data[k].input = urb.input
          /\ k < Len(data) => /\ data[k].len > 0 /\ data[k].len % packet = 0
                              /\ data[k + 1].buf = data[k].buf + data[k].len
    <3>1. CASE data = <<>>
      BY <3>1
    <3>2. CASE GoodCut(data, urb.dma, urb.dma + urb.length, urb.input, packet)
      <4>1. DOMAIN data = 1 .. Len(data)
        BY <3>2 DEF GoodCut
      <4>2. QED
        BY <3>2, <4>1 DEF GoodCut, FitsPages
    <3>3. QED
      BY <2>7, <3>1, <3>2
  <2>10. urb.ctrl => /\ chain[1].stage = "setup"
                     /\ chain[Len(chain)] = Control("status", 0, urb.length > 0 => ~urb.input)[1]
    <3>1. PICK inward \in BOOLEAN : inward = (urb.length > 0 => ~urb.input)
      OBVIOUS
    <3>2. Control("status", 0, inward)[1] = Stage("status", 0, inward)
      BY DEF Control, Stage
    <3>3. QED
      BY <2>5, <3>1, <3>2, Zenon
  <2>11. QED
    BY <2>1, <2>2, <2>3, <2>4, <2>8, <2>9, <2>10, Zenon DEF ChainIsTransfer
<1>2. QED
  BY <1>1, HostInvariant, PTL
=============================================================================
