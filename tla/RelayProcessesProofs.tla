------------------------- MODULE RelayProcessesProofs -------------------------
(***************************************************************************)
(* Theorems about RelayProcesses, for any processes, command lines,        *)
(* attempts, faults, agents, lanes and files: board.lock excludes, and     *)
(* under it the steps of the processes implement the atomic board of       *)
(* RelayBoard.                                                             *)
(***************************************************************************)
EXTENDS RelayProcesses, RelayLanesProofs

-----------------------------------------------------------------------------
(***************************************************************************)
(* Command lines.                                                          *)
(***************************************************************************)
\* What the arguments of a command line are, by its operation.
LEMMA CommandType ==
  ASSUME NEW c \in Commands
  PROVE  /\ c.op \in {"status", "acquire", "release", "force-release", "claim-files"}
         /\ c.op # "status" => c.lane \in LaneIds
         /\ c.op = "acquire" => c.agent \in Agents /\ c.task \in Tasks
         /\ c.op = "release" => /\ c.agent \in Agents /\ c.next \in Agents \cup {None}
                                /\ c.message \in BOOLEAN
                                /\ c.contract \in Contracts \cup {None}
         /\ c.op = "claim-files" => c.files \in SUBSET Files
  <1>1. c \in AllCommands
    BY ProcessAssumption
  <1> QED
    BY <1>1 DEF AllCommands

\* The closure of a command that succeeds leaves a board.
LEMMA EffectType ==
  ASSUME NEW c \in Commands, c.op # "status", NEW b \in Board, NEW t \in Nat,
         Succeeds(c, b, t)
  PROVE  Effect(c, b, t) \in Board
  <1>1. CASE c.op = "acquire"
    BY <1>1, CommandType, AcquiredType DEF Effect
  <1>2. CASE c.op = "release"
    BY <1>2, CommandType, ReleasedType DEF Effect, Succeeds, ReleaseOK
  <1>3. CASE c.op = "force-release"
    BY <1>3, CommandType, ForceReleasedType DEF Effect, Succeeds
  <1>4. CASE c.op = "claim-files"
    BY <1>4, CommandType, ClaimedType DEF Effect
  <1> QED
    BY <1>1, <1>2, <1>3, <1>4, CommandType

-----------------------------------------------------------------------------
(***************************************************************************)
(* Types, and exclusion.                                                   *)
(***************************************************************************)
\* A process that runs has its command line and, from the reading on, a board.
Equipped ==
  \A p \in Procs :
    /\ pc[p] \notin {"idle", "dead"} => cmd[p] \in Commands
    /\ pc[p] \in {"loaded", "writing", "unlocking"} => copy[p] \in Board

Sound == TypeOK /\ Equipped /\ MutualExclusion

LEMMA SoundInit == Init => Sound
  BY ProcessAssumption
  DEF Init, Sound, TypeOK, PCs, Equipped, MutualExclusion, InTransaction

\* Every step keeps the types; a process enters the transaction with the lock it has just
\* created, and only the process inside it removes the lock.
LEMMA SoundStep == Sound /\ [Next]_vars => Sound'
  <1> SUFFICES ASSUME Sound, [Next]_vars
               PROVE  Sound'
    OBVIOUS
  <1> USE ProcessAssumption
          DEF Sound, TypeOK, PCs, Equipped, MutualExclusion, InTransaction, Goto
  <1>1. ASSUME NEW p \in Procs, CreateLock(p) \/ LockExists(p)
        PROVE  Sound'
    BY <1>1 DEF CreateLock, LockExists
  <1>2. ASSUME NEW p \in Procs, GiveUp(p)
        PROVE  Sound'
    BY <1>2 DEF GiveUp, Exit, Forget
  <1>3. ASSUME NEW p \in Procs, ReadBoard(p)
        PROVE  Sound'
    <2>1. copy'[p] \in Board
      BY <1>3, DefaultBoardType DEF ReadBoard
    <2> QED
      BY <1>3, <2>1 DEF ReadBoard
  <1>4. ASSUME NEW p \in Procs, RunWithoutWrite(p)
        PROVE  Sound'
    BY <1>4 DEF RunWithoutWrite
  <1>5. ASSUME NEW p \in Procs, RunAndTruncate(p)
        PROVE  Sound'
    <2>1. copy'[p] \in Board
      BY <1>5, EffectType DEF RunAndTruncate
    <2> QED
      BY <1>5, <2>1 DEF RunAndTruncate
  <1>6. ASSUME NEW p \in Procs, WriteBoard(p) \/ WriteFails(p)
        PROVE  Sound'
    BY <1>6 DEF WriteBoard, WriteFails
  <1>7. ASSUME NEW p \in Procs, RemoveLock(p)
        PROVE  Sound'
    BY <1>7 DEF RemoveLock, Exit, Forget
  <1>8. ASSUME NEW p \in Procs, Kill(p)
        PROVE  Sound'
    BY <1>8 DEF Kill, Forget
  <1>9. ASSUME NEW p \in Procs, NEW c \in Commands, Start(p, c)
        PROVE  Sound'
    BY <1>9 DEF Start
  <1>10. CASE Tick
    BY <1>10 DEF Tick
  <1>11. CASE UNCHANGED vars
    BY <1>11 DEF vars
  <1> QED
    BY <1>1, <1>2, <1>3, <1>4, <1>5, <1>6, <1>7, <1>8, <1>9, <1>10, <1>11 DEF Next, Step

LEMMA AlwaysSound == Spec => []Sound
  BY SoundInit, SoundStep, PTL DEF Spec

\* Every reachable state is well formed, whatever is killed and whichever write fails.
THEOREM ProcessTypes == Spec => []TypeOK
  <1>1. Sound => TypeOK
    BY DEF Sound
  <1> QED
    BY <1>1, AlwaysSound, PTL

\* Two commands are never inside a transaction together: FileLock excludes.
THEOREM LockExcludes == Spec => []MutualExclusion
  <1>1. Sound => MutualExclusion
    BY DEF Sound
  <1> QED
    BY <1>1, AlwaysSound, PTL

\* A board.lock whose owner was killed freezes the board: nobody else can be, or get, inside
\* a transaction, and only there are board.json and board.lock changed.
THEOREM OrphanLockFreezes == Spec => OrphanLockFreezesBoard
  <1>1. Sound /\ [Next]_vars
        => [\A p \in Procs : lock = p /\ pc[p] = "dead" => UNCHANGED <<file, lock>>]_vars
    <2> SUFFICES ASSUME Sound, Next, NEW p \in Procs, lock = p, pc[p] = "dead"
                 PROVE  UNCHANGED <<file, lock>>
      OBVIOUS
    <2>1. \A q \in Procs : ~ InTransaction(q)
      BY DEF Sound, MutualExclusion, InTransaction
    <2>2. lock # None
      BY ProcessAssumption
    <2> QED
      BY <2>1, <2>2
      DEF Next, Step, InTransaction, Goto, Exit, CreateLock, LockExists, GiveUp, ReadBoard,
          RunWithoutWrite, RunAndTruncate, WriteBoard, RemoveLock, WriteFails, Kill, Start, Tick
  <1> QED
    BY <1>1, AlwaysSound, PTL DEF Spec, OrphanLockFreezesBoard

-----------------------------------------------------------------------------
(***************************************************************************)
(* What is on disk while a process is in its transaction.                  *)
(***************************************************************************)
\* What p has read is what is there: the file, or a fresh board made some time ago.
ReadIsCurrent(p) ==
  pc[p] = "loaded" =>
    IF file = NoBoard THEN \E t \in Nat : copy[p] = default_board(t) ELSE copy[p] = file

Current == \A p \in Procs : ReadIsCurrent(p) /\ (pc[p] = "writing" => file = NoBoard)

OnDisk == Current /\ SuccessIsOnDisk

\* The process inside its transaction is alone with the file.
LEMMA AloneInside ==
  ASSUME Sound, NEW p \in Procs, InTransaction(p)
  PROVE  \A q \in Procs \ {p} : ~ InTransaction(q)
  BY DEF Sound, MutualExclusion

LEMMA OnDiskStep == Sound /\ OnDisk /\ [Next]_vars => OnDisk'
  <1> SUFFICES ASSUME Sound, OnDisk, [Next]_vars
               PROVE  OnDisk'
    OBVIOUS
  <1> USE DEF OnDisk, Current, ReadIsCurrent, SuccessIsOnDisk, Goto, Sound, TypeOK, PCs
  <1>1. ASSUME NEW p \in Procs, CreateLock(p) \/ LockExists(p)
        PROVE  OnDisk'
    BY <1>1 DEF CreateLock, LockExists
  <1>2. ASSUME NEW p \in Procs, GiveUp(p) \/ RemoveLock(p)
        PROVE  OnDisk'
    BY <1>2 DEF GiveUp, RemoveLock, Exit, Forget
  <1>3. ASSUME NEW p \in Procs, ReadBoard(p)
        PROVE  OnDisk'
    BY <1>3 DEF ReadBoard
  <1>4. ASSUME NEW p \in Procs, RunWithoutWrite(p)
        PROVE  OnDisk'
    BY <1>4 DEF RunWithoutWrite
  <1>5. ASSUME NEW p \in Procs, RunAndTruncate(p)
        PROVE  OnDisk'
    <2>1. \A q \in Procs \ {p} : pc[q] \notin {"loaded", "writing", "unlocking"}
      BY <1>5, AloneInside DEF RunAndTruncate, InTransaction
    <2> QED
      BY <1>5, <2>1 DEF RunAndTruncate
  <1>6. ASSUME NEW p \in Procs, WriteBoard(p) \/ WriteFails(p)
        PROVE  OnDisk'
    <2>1. \A q \in Procs \ {p} : pc[q] \notin {"loaded", "writing", "unlocking"}
      BY <1>6, AloneInside DEF WriteBoard, WriteFails, InTransaction
    <2> QED
      BY <1>6, <2>1 DEF WriteBoard, WriteFails
  <1>7. ASSUME NEW p \in Procs, Kill(p)
        PROVE  OnDisk'
    BY <1>7 DEF Kill, Forget
  <1>8. ASSUME NEW p \in Procs, NEW c \in Commands, Start(p, c)
        PROVE  OnDisk'
    BY <1>8 DEF Start
  <1>9. CASE Tick
    BY <1>9 DEF Tick
  <1>10. CASE UNCHANGED vars
    BY <1>10 DEF vars
  <1> QED
    BY <1>1, <1>2, <1>3, <1>4, <1>5, <1>6, <1>7, <1>8, <1>9, <1>10 DEF Next, Step

LEMMA AlwaysOnDisk == Spec => []OnDisk
  <1>1. Init => OnDisk
    BY DEF Init, OnDisk, Current, ReadIsCurrent, SuccessIsOnDisk
  <1> QED
    BY <1>1, OnDiskStep, AlwaysSound, PTL DEF Spec

\* A command that reports success has its board on disk when it removes the lock.
THEOREM SuccessWritten == Spec => []SuccessIsOnDisk
  <1>1. OnDisk => SuccessIsOnDisk
    BY DEF OnDisk
  <1> QED
    BY <1>1, AlwaysOnDisk, PTL

-----------------------------------------------------------------------------
(***************************************************************************)
(* The processes implement the atomic board.                               *)
(***************************************************************************)
\* The commands of the atomic board are those of the processes.
LEMMA SameCommands ==
  ASSUME NEW b, NEW l, NEW t
  PROVE  /\ Atomic!default_board(t) = default_board(t)
         /\ Atomic!HasLane(b, l) = HasLane(b, l)
         /\ \A a : Atomic!AcquireOK(b, a, l, t) = AcquireOK(b, a, l, t)
         /\ \A a, task : Atomic!Acquired(b, a, task, l, t) = Acquired(b, a, task, l, t)
         /\ \A a : Atomic!ReleaseOK(b, a, l) = ReleaseOK(b, a, l)
         /\ \A next, message, contract :
              Atomic!Released(b, l, next, message, contract, t)
                = Released(b, l, next, message, contract, t)
         /\ Atomic!ForceReleased(b, l, t) = ForceReleased(b, l, t)
         /\ \A files :
              /\ Atomic!find_file_claim_conflicts(b, l, files)
                   = find_file_claim_conflicts(b, l, files)
              /\ Atomic!Claimed(b, l, files, t) = Claimed(b, l, files, t)
  <1> USE DEF Atomic!HasLane, HasLane, Atomic!default_lane, default_lane,
              Atomic!LaneOrDefault, LaneOrDefault, Atomic!Written, Written
  <1>1. Atomic!default_board(t) = default_board(t)
    BY DEF Atomic!default_board, default_board
  <1>2. \A a : Atomic!AcquireOK(b, a, l, t) = AcquireOK(b, a, l, t)
    BY DEF Atomic!AcquireOK, AcquireOK, Atomic!is_zombie, is_zombie
  <1>3. \A a, task : Atomic!Acquired(b, a, task, l, t) = Acquired(b, a, task, l, t)
    BY DEF Atomic!Acquired, Acquired, Atomic!Vacated, Vacated, Atomic!evict_zombie, evict_zombie
  <1>4. \A a : Atomic!ReleaseOK(b, a, l) = ReleaseOK(b, a, l)
    BY DEF Atomic!ReleaseOK, ReleaseOK
  <1>5. \A next, message, contract :
          Atomic!Released(b, l, next, message, contract, t)
            = Released(b, l, next, message, contract, t)
    BY DEF Atomic!Released, Released
  <1>6. Atomic!ForceReleased(b, l, t) = ForceReleased(b, l, t)
    BY DEF Atomic!ForceReleased, ForceReleased
  <1>7. \A files :
          /\ Atomic!find_file_claim_conflicts(b, l, files) = find_file_claim_conflicts(b, l, files)
          /\ Atomic!Claimed(b, l, files, t) = Claimed(b, l, files, t)
    BY DEF Atomic!find_file_claim_conflicts, find_file_claim_conflicts, Atomic!Claimed, Claimed
  <1> QED
    BY <1>1, <1>2, <1>3, <1>4, <1>5, <1>6, <1>7

\* A fresh board is the same to every command, whenever it was made: its time is looked at
\* for BUSY lanes only, of which it has none.
LEMMA FreshBoardsAlike ==
  ASSUME NEW c \in Commands, c.op # "status", NEW t \in Nat, NEW u \in Nat
  PROVE  /\ Succeeds(c, default_board(t), u) = Succeeds(c, default_board(u), u)
         /\ Effect(c, default_board(t), u) = Effect(c, default_board(u), u)
  <1> DEFINE b == default_board(t)
             d == default_board(u)
  <1>1. b.lanes = d.lanes /\ \A l \in LaneIds : LaneOrDefault(d, l).status = "IDLE"
    BY DEF default_board, LaneOrDefault, HasLane, default_lane
  <1> HIDE DEF b, d
  <1>2. \A l : HasLane(b, l) = HasLane(d, l) /\ LaneOrDefault(b, l) = LaneOrDefault(d, l)
    BY <1>1 DEF HasLane, LaneOrDefault
  <1>3. c.lane \in LaneIds
    BY CommandType
  <1>4. Succeeds(c, b, u) = Succeeds(c, d, u)
    BY <1>1, <1>2, <1>3
    DEF Succeeds, AcquireOK, is_zombie, ReleaseOK, find_file_claim_conflicts
  <1>5. Effect(c, b, u) = Effect(c, d, u)
    BY <1>1, <1>2, <1>3
    DEF Effect, Acquired, Released, ForceReleased, Claimed, Written
  <1> QED
    BY <1>4, <1>5 DEF b, d

\* What commands see is the file, except while a process writes: then it is that process's.
LEMMA VisibleFile ==
  ASSUME \A p \in Procs : pc[p] # "writing"
  PROVE  Visible = file
  BY DEF Visible

LEMMA VisibleCopy ==
  ASSUME Sound, NEW p \in Procs, pc[p] = "writing"
  PROVE  Visible = copy[p]
  <1>1. \A q \in Procs : pc[q] = "writing" => q = p
    BY AloneInside DEF InTransaction
  <1>2. (CHOOSE q \in Procs : pc[q] = "writing") = p
    BY <1>1
  <1> QED
    BY <1>2 DEF Visible

\* A step that moves no process into or out of the writing, and changes neither the file nor
\* a copy being written, shows nothing.
LEMMA NothingShown ==
  ASSUME file' = file,
         \A p \in Procs : /\ (pc[p] = "writing") = (pc'[p] = "writing")
                          /\ pc[p] = "writing" => copy'[p] = copy[p]
  PROVE  Visible' = Visible
  <1>1. CASE \A p \in Procs : pc[p] # "writing"
    BY <1>1 DEF Visible
  <1>2. CASE \E p \in Procs : pc[p] = "writing"
    <2> DEFINE P(r) == r \in Procs /\ pc[r] = "writing"
               Q(r) == r \in Procs /\ pc'[r] = "writing"
    <2>1. (CHOOSE r : P(r)) = (CHOOSE r : Q(r))
      BY Zenon
    <2>2. PICK q : q = (CHOOSE r : P(r)) /\ P(q)
      BY <1>2
    <2> QED
      BY <1>2, <2>1, <2>2 DEF Visible
  <1> QED
    BY <1>1, <1>2

\* The truncation, from which on the new board is shown, is the atomic command.
LEMMA RunIsCommand ==
  ASSUME Sound, Sound', OnDisk, NEW p \in Procs, RunAndTruncate(p)
  PROVE  Atomic!Next
  <1> DEFINE c == cmd[p]
             b == Atomic!Loaded
  <1>1. c \in Commands /\ c.op # "status" /\ now' = now /\ now \in Nat
    BY ProcessAssumption DEF RunAndTruncate, Goto, Sound, TypeOK, Equipped
  <1>2. Visible = file
    <2>1. \A q \in Procs : pc[q] # "writing"
      BY AloneInside DEF RunAndTruncate, Goto, InTransaction
    <2> QED
      BY <2>1, VisibleFile
  <1>3. Visible' = Effect(c, copy[p], now)
    <2>1. pc'[p] = "writing" /\ copy'[p] = Effect(c, copy[p], now)
      BY DEF RunAndTruncate, Goto, Sound, TypeOK
    <2>2. \A q \in Procs : pc'[q] = "writing" => q = p
      BY AloneInside DEF RunAndTruncate, Goto, InTransaction, Sound, TypeOK
    <2>3. (CHOOSE q \in Procs : pc'[q] = "writing") = p
      BY <2>1, <2>2
    <2> QED
      BY <2>1, <2>3 DEF Visible
  <1>4. Succeeds(c, b, now) /\ Visible' = Effect(c, b, now)
    <2>1. Succeeds(c, copy[p], now)
      BY DEF RunAndTruncate
    <2>2. CASE file = NoBoard
      <3>1. PICK t \in Nat : copy[p] = default_board(t)
        BY <2>2 DEF OnDisk, Current, ReadIsCurrent, RunAndTruncate, Goto
      <3>2. b = default_board(now)
        BY <1>2, <2>2, SameCommands DEF Atomic!Loaded
      <3> QED
        BY <1>1, <1>3, <2>1, <3>1, <3>2, FreshBoardsAlike
    <2>3. CASE file # NoBoard
      BY <1>2, <1>3, <2>1, <2>3
      DEF Atomic!Loaded, OnDisk, Current, ReadIsCurrent, RunAndTruncate, Goto
    <2> QED
      BY <2>2, <2>3
  <1> HIDE DEF b
  <1>5. CASE c.op = "acquire"
    <2>1. Atomic!Acquire(c.agent, c.task, c.lane)
      BY <1>1, <1>4, <1>5, SameCommands DEF Atomic!Acquire, Succeeds, Effect, b
    <2> QED
      BY <1>1, <1>5, <2>1, CommandType DEF Atomic!Next, Atomic!NoClaim
  <1>6. CASE c.op = "release"
    <2>1. Atomic!Release(c.agent, c.lane, c.next, c.message, c.contract)
      BY <1>1, <1>4, <1>6, SameCommands DEF Atomic!Release, Succeeds, Effect, b
    <2> QED
      BY <1>1, <1>6, <2>1, CommandType DEF Atomic!Next, Atomic!NoClaim
  <1>7. CASE c.op = "force-release"
    <2>1. Atomic!ForceRelease(c.lane)
      BY <1>1, <1>4, <1>7, SameCommands DEF Atomic!ForceRelease, Succeeds, Effect, b
    <2> QED
      BY <1>1, <1>7, <2>1, CommandType DEF Atomic!Next, Atomic!NoClaim
  <1>8. CASE c.op = "claim-files"
    <2>1. Atomic!ClaimFiles(c.lane, c.files)
      BY <1>1, <1>4, <1>8, SameCommands DEF Atomic!ClaimFiles, Succeeds, Effect, b
    <2> QED
      BY <1>1, <1>8, <2>1, CommandType DEF Atomic!Next
  <1> QED
    BY <1>1, <1>5, <1>6, <1>7, <1>8, CommandType

\* A process that dies while it writes, or whose write fails, loses the board.
LEMMA WriterGone ==
  ASSUME Sound, OnDisk, NEW p \in Procs, pc[p] = "writing", file' = file, now' = now,
         pc' = [pc EXCEPT ![p] = pc'[p]], pc'[p] # "writing"
  PROVE  Atomic!LoseBoard /\ Atomic!Next
  <1>1. Visible = copy[p] /\ copy[p] \in Board
    BY VisibleCopy DEF Sound, Equipped
  <1>2. \A q \in Procs : pc'[q] # "writing"
    BY AloneInside DEF InTransaction, Sound, TypeOK
  <1>3. Visible' = NoBoard
    BY <1>2 DEF Visible, OnDisk, Current
  <1> QED
    BY <1>1, <1>3, ProcessAssumption DEF Atomic!LoseBoard, Atomic!Next, Atomic!NoClaim

\* Every step is a command, the loss of the board, a tick, or shows nothing; only a fault
\* loses the board.
LEMMA StepIsAtomic ==
  ASSUME Sound, Sound', OnDisk, [Next]_vars
  PROVE  /\ [Atomic!Next]_(Atomic!vars)
         /\ Visible # NoBoard /\ Visible' = NoBoard => faults' = faults + 1
  <1> DEFINE Goal == /\ [Atomic!Next]_(Atomic!vars)
                     /\ Visible # NoBoard /\ Visible' = NoBoard => faults' = faults + 1
  <1>1. ASSUME file' = file, now' = now, copy' = copy,
               \A p \in Procs : (pc[p] = "writing") = (pc'[p] = "writing")
        PROVE  Goal
    BY <1>1, NothingShown DEF Atomic!vars
  <1>2. ASSUME NEW p \in Procs, CreateLock(p) \/ LockExists(p) \/ RunWithoutWrite(p)
        PROVE  Goal
    BY <1>1, <1>2 DEF CreateLock, LockExists, RunWithoutWrite, Goto, Sound, TypeOK
  <1>3. ASSUME NEW p \in Procs, GiveUp(p) \/ ReadBoard(p) \/ RemoveLock(p)
        PROVE  Goal
    <2>1. Visible' = Visible
      BY <1>3, NothingShown
      DEF GiveUp, ReadBoard, RemoveLock, Exit, Forget, Goto, Sound, TypeOK
    <2> QED
      BY <1>3, <2>1 DEF GiveUp, ReadBoard, RemoveLock, Atomic!vars
  <1>4. ASSUME NEW p \in Procs, RunAndTruncate(p)
        PROVE  Goal
    <2>1. Visible' # NoBoard
      <3>1. pc'[p] = "writing"
        BY <1>4 DEF RunAndTruncate, Goto, Sound, TypeOK
      <3>2. (\E q \in Procs : pc'[q] = "writing") /\ \A q \in Procs : pc'[q] = "writing" => copy'[q] \in Board
        BY <3>1 DEF Sound, Equipped
      <3> QED
        BY <3>2, ProcessAssumption DEF Visible
    <2> QED
      BY <1>4, <2>1, RunIsCommand
  <1>5. ASSUME NEW p \in Procs, WriteBoard(p)
        PROVE  Goal
    <2>1. \A q \in Procs : pc'[q] # "writing"
      BY <1>5, AloneInside DEF WriteBoard, Goto, InTransaction, Sound, TypeOK
    <2>2. Visible' = file'
      BY <2>1 DEF Visible
    <2>3. Visible = copy[p]
      BY <1>5, VisibleCopy DEF WriteBoard, Goto
    <2> QED
      BY <1>5, <2>2, <2>3 DEF WriteBoard, Atomic!vars
  <1>6. ASSUME NEW p \in Procs, WriteFails(p)
        PROVE  Goal
    BY <1>6, WriterGone DEF WriteFails, Goto, Sound, TypeOK
  <1>7. ASSUME NEW p \in Procs, Kill(p)
        PROVE  Goal
    <2>1. CASE pc[p] = "writing"
      BY <1>7, <2>1, WriterGone DEF Kill, Sound, TypeOK
    <2>2. CASE pc[p] # "writing"
      <3>1. Visible' = Visible
        BY <1>7, <2>2, NothingShown DEF Kill, Forget, Sound, TypeOK
      <3> QED
        BY <1>7, <3>1 DEF Kill, Atomic!vars
    <2> QED
      BY <2>1, <2>2
  <1>8. ASSUME NEW p \in Procs, NEW c \in Commands, Start(p, c)
        PROVE  Goal
    BY <1>1, <1>8 DEF Start, Goto, Sound, TypeOK
  <1>9. CASE Tick
    <2>1. Visible' = Visible
      BY <1>9, NothingShown DEF Tick
    <2> QED
      BY <1>9, <2>1 DEF Tick, Atomic!Next, Atomic!NoClaim, Atomic!Tick
  <1>10. CASE UNCHANGED vars
    BY <1>1, <1>10 DEF vars
  <1> QED
    BY <1>2, <1>3, <1>4, <1>5, <1>6, <1>7, <1>8, <1>9, <1>10 DEF Next, Step

\* Every interleaving of the processes, with kills and failed writes, is a run of whole
\* commands and lost boards: the lock file implements the atomic board.
THEOREM Atomicity == Spec => AtomicBoard
  <1>1. Init => Atomic!Init
    BY DEF Init, Atomic!Init, Visible
  <1>2. Sound /\ Sound' /\ OnDisk /\ [Next]_vars => [Atomic!Next]_(Atomic!vars)
    BY StepIsAtomic
  <1> QED
    BY <1>1, <1>2, AlwaysSound, AlwaysOnDisk, PTL DEF Spec, AtomicBoard, Atomic!Spec

\* The board is lost only by a kill or a failed write.
THEOREM LostOnlyByFault == Spec => BoardLostOnlyByFault
  <1>1. Sound /\ Sound' /\ OnDisk /\ [Next]_vars
        => [Visible # NoBoard /\ Visible' = NoBoard => faults' = faults + 1]_vars
    BY StepIsAtomic
  <1> QED
    BY <1>1, AlwaysSound, AlwaysOnDisk, PTL DEF Spec, BoardLostOnlyByFault

-----------------------------------------------------------------------------
(***************************************************************************)
(* What holds of the atomic board therefore holds of the board the         *)
(* processes show, whatever they race for and wherever they die.           *)
(***************************************************************************)
BoardProofs == INSTANCE RelayBoardProofs WITH board <- Visible

LEMMA SameTypes ==
  BoardProofs!RelayAssumption /\ BoardProofs!BoardAssumption
  BY RelayAssumption, ProcessAssumption
  DEF BoardProofs!RelayAssumption, BoardProofs!BoardAssumption, BoardProofs!Board, Board,
      BoardProofs!Lane, Lane, BoardProofs!Status, Status, BoardProofs!Phase, Phase

LEMMA SameSpecification == AtomicBoard => BoardProofs!Spec
  <1> USE DEF Atomic!Loaded, BoardProofs!Loaded,
        Atomic!default_board, BoardProofs!default_board,
        Atomic!default_lane, BoardProofs!default_lane,
        Atomic!HasLane, BoardProofs!HasLane,
        Atomic!LaneOrDefault, BoardProofs!LaneOrDefault,
        Atomic!Written, BoardProofs!Written
  <1>1. Atomic!Init => BoardProofs!Init
    BY DEF Atomic!Init, BoardProofs!Init
  <1>2. ASSUME NEW a, NEW task, NEW l
        PROVE  Atomic!Acquire(a, task, l) => BoardProofs!Acquire(a, task, l)
    BY DEF Atomic!Acquire, BoardProofs!Acquire, Atomic!AcquireOK, BoardProofs!AcquireOK,
           Atomic!Acquired, BoardProofs!Acquired, Atomic!is_zombie, BoardProofs!is_zombie,
           Atomic!Vacated, BoardProofs!Vacated, Atomic!evict_zombie, BoardProofs!evict_zombie
  <1>3. ASSUME NEW a, NEW l, NEW next, NEW message, NEW contract
        PROVE  Atomic!Release(a, l, next, message, contract)
                 => BoardProofs!Release(a, l, next, message, contract)
    BY DEF Atomic!Release, BoardProofs!Release, Atomic!ReleaseOK, BoardProofs!ReleaseOK,
           Atomic!Released, BoardProofs!Released
  <1>4. ASSUME NEW l
        PROVE  Atomic!ForceRelease(l) => BoardProofs!ForceRelease(l)
    BY DEF Atomic!ForceRelease, BoardProofs!ForceRelease,
           Atomic!ForceReleased, BoardProofs!ForceReleased
  <1>5. ASSUME NEW l, NEW files
        PROVE  Atomic!ClaimFiles(l, files) => BoardProofs!ClaimFiles(l, files)
    BY DEF Atomic!ClaimFiles, BoardProofs!ClaimFiles, Atomic!Claimed, BoardProofs!Claimed,
           Atomic!find_file_claim_conflicts, BoardProofs!find_file_claim_conflicts
  <1>6. [Atomic!Next]_(Atomic!vars) => [BoardProofs!Next]_(BoardProofs!vars)
    BY <1>2, <1>3, <1>4, <1>5
    DEF Atomic!Next, BoardProofs!Next, Atomic!NoClaim, BoardProofs!NoClaim,
        Atomic!LoseBoard, BoardProofs!LoseBoard, Atomic!Tick, BoardProofs!Tick,
        Atomic!vars, BoardProofs!vars
  <1> QED
    BY <1>1, <1>6, PTL DEF AtomicBoard, Atomic!Spec, BoardProofs!Spec

\* The fields of a lane tell one story on the board that any number of processes work on.
THEOREM ProcessesKeepLanesCoherent == Spec => []Atomic!LaneCoherent
  <1>1. BoardProofs!LaneCoherent => Atomic!LaneCoherent
    BY DEF BoardProofs!LaneCoherent, Atomic!LaneCoherent,
           BoardProofs!OnBoard, Atomic!OnBoard, BoardProofs!HasLane, Atomic!HasLane,
           BoardProofs!BusyIsHeld, Atomic!BusyIsHeld,
           BoardProofs!HandoffIsAddressed, Atomic!HandoffIsAddressed,
           BoardProofs!IdleIsFree, Atomic!IdleIsFree
  <1>2. BoardProofs!Spec => []BoardProofs!LaneCoherent
    BY BoardProofs!LanesCoherent, SameTypes
  <1> QED
    BY <1>1, <1>2, Atomicity, SameSpecification, PTL

\* No process takes a BUSY lane from its holder, except by a release that only the holder
\* can have given, by force, past the threshold, or with the whole board.
THEOREM ProcessesKeepHolders == Spec => Atomic!HoldersKeepLanes
  <1> USE DEF Atomic!Loaded, BoardProofs!Loaded,
        Atomic!default_board, BoardProofs!default_board,
        Atomic!default_lane, BoardProofs!default_lane,
        Atomic!HasLane, BoardProofs!HasLane,
        Atomic!LaneOrDefault, BoardProofs!LaneOrDefault,
        Atomic!Written, BoardProofs!Written
  <1>1. ASSUME NEW a, NEW l, NEW next, NEW message, NEW contract
        PROVE  BoardProofs!Release(a, l, next, message, contract)
                 <=> Atomic!Release(a, l, next, message, contract)
    BY DEF Atomic!Release, BoardProofs!Release, Atomic!ReleaseOK, BoardProofs!ReleaseOK,
           Atomic!Released, BoardProofs!Released
  <1>2. ASSUME NEW l
        PROVE  {a \in Agents : BoardProofs!Releases(a, l)} = {a \in Agents : Atomic!Releases(a, l)}
    <2>1. \A a : BoardProofs!Releases(a, l) <=> Atomic!Releases(a, l)
      BY <1>1, ZenonT(60) DEF Atomic!Releases, BoardProofs!Releases
    <2> QED BY <2>1
  <1>3. ASSUME NEW l
        PROVE  BoardProofs!ForceRelease(l) <=> Atomic!ForceRelease(l)
    BY DEF Atomic!ForceRelease, BoardProofs!ForceRelease,
           Atomic!ForceReleased, BoardProofs!ForceReleased
  <1>4. ASSUME NEW l, BoardProofs!HolderKeepsLane(l)
        PROVE  Atomic!HolderKeepsLane(l)
    BY <1>2, <1>3, <1>4, ZenonT(60)
    DEF BoardProofs!HolderKeepsLane, Atomic!HolderKeepsLane, BoardProofs!OnBoard, Atomic!OnBoard
  <1>5. [\A l \in LaneIds : BoardProofs!HolderKeepsLane(l)]_(BoardProofs!vars)
        => [\A l \in LaneIds : Atomic!HolderKeepsLane(l)]_(Atomic!vars)
    BY <1>4 DEF BoardProofs!vars, Atomic!vars
  <1>6. BoardProofs!Spec => BoardProofs!HoldersKeepLanes
    BY BoardProofs!HoldersSafe, SameTypes
  <1> QED
    BY <1>5, <1>6, Atomicity, SameSpecification, PTL
    DEF BoardProofs!HoldersKeepLanes, Atomic!HoldersKeepLanes

\* A lane handed over waits for its addressee, whatever processes race for it meanwhile.
THEOREM ProcessesKeepHandoffs == Spec => Atomic!HandoffsReachAddressees
  <1>1. [\A l \in LaneIds : BoardProofs!HandoffReachesAddressee(l)]_(BoardProofs!vars)
        => [\A l \in LaneIds : Atomic!HandoffReachesAddressee(l)]_(Atomic!vars)
    BY DEF BoardProofs!HandoffReachesAddressee, Atomic!HandoffReachesAddressee,
           BoardProofs!OnBoard, Atomic!OnBoard, BoardProofs!HasLane, Atomic!HasLane,
           BoardProofs!vars, Atomic!vars
  <1>2. BoardProofs!Spec => BoardProofs!HandoffsReachAddressees
    BY BoardProofs!HandoffsSafe, SameTypes
  <1> QED
    BY <1>1, <1>2, Atomicity, SameSpecification, PTL
    DEF BoardProofs!HandoffsReachAddressees, Atomic!HandoffsReachAddressees

\* No process gives a lane a file that another lane holds while BUSY.
THEOREM ProcessesDefendFiles == Spec => Atomic!BusyLanesDefendFiles
  <1>1. [\A m \in LaneIds : BoardProofs!BusyLaneDefendsFiles(m)]_(BoardProofs!vars)
        => [\A m \in LaneIds : Atomic!BusyLaneDefendsFiles(m)]_(Atomic!vars)
    BY DEF BoardProofs!BusyLaneDefendsFiles, Atomic!BusyLaneDefendsFiles,
           BoardProofs!LaneOrDefault, Atomic!LaneOrDefault,
           BoardProofs!default_lane, Atomic!default_lane,
           BoardProofs!OnBoard, Atomic!OnBoard, BoardProofs!HasLane, Atomic!HasLane,
           BoardProofs!vars, Atomic!vars
  <1>2. BoardProofs!Spec => BoardProofs!BusyLanesDefendFiles
    BY BoardProofs!BusyFilesDefended, SameTypes
  <1> QED
    BY <1>1, <1>2, Atomicity, SameSpecification, PTL
    DEF BoardProofs!BusyLanesDefendFiles, Atomic!BusyLanesDefendFiles

=============================================================================
