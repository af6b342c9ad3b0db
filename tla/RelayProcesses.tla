--------------------------- MODULE RelayProcesses ---------------------------
(***************************************************************************)
(* `cortex relay' commands as processes that run at the same time.  Each   *)
(* takes board.lock by creating it, reads board.json, runs its command on  *)
(* the copy in memory, writes the file back and removes the lock           *)
(* (transaction and FileLock in rust/crates/ctl/src/relay.rs).  A process  *)
(* may be killed anywhere and a write may fail: the file is truncated      *)
(* before it is written, so both leave a board that does not parse, and a  *)
(* killed holder leaves board.lock behind for ever.                        *)
(***************************************************************************)
EXTENDS RelayLanes

CONSTANTS
  Procs,      \* process slots; a slot that is not dead runs one command after another
  Commands,   \* the command lines given, a subset of AllCommands
  Tries,      \* attempts to create board.lock: 200
  MaxFaults,  \* bound on kills and failed writes
  NoBoard, MaxTime

VARIABLES
  file,     \* board.json: a board, or NoBoard when missing or truncated
  lock,     \* None, or the process whose board.lock exists
  pc, cmd,  \* per process: where it is, and its command line
  tries,    \* failed attempts to create the lock
  copy,     \* the Board in the memory of `transaction'
  outcome,  \* the Result the process will report
  faults,   \* kills and failed writes so far
  now

vars == <<file, lock, pc, cmd, tries, copy, outcome, faults, now>>

-----------------------------------------------------------------------------
(***************************************************************************)
(* Command lines and what their closures do to the board.                  *)
(***************************************************************************)
AllCommands ==
  [op : {"status"}]
  \cup [op : {"acquire"}, agent : Agents, task : Tasks, lane : LaneIds]
  \cup [op : {"release"}, agent : Agents, lane : LaneIds, next : Agents \cup {None},
        message : BOOLEAN, contract : Contracts \cup {None}]
  \cup [op : {"force-release"}, lane : LaneIds]
  \cup [op : {"claim-files"}, lane : LaneIds, files : SUBSET Files]

\* The closure does not return Err.
Succeeds(c, b, t) ==
  CASE c.op = "status"        -> TRUE
    [] c.op = "acquire"       -> AcquireOK(b, c.agent, c.lane, t)
    [] c.op = "release"       -> ReleaseOK(b, c.agent, c.lane)
    [] c.op = "force-release" -> HasLane(b, c.lane)
    [] c.op = "claim-files"   -> find_file_claim_conflicts(b, c.lane, c.files) = {}

\* The board the closure leaves, when it returns Ok(true).
Effect(c, b, t) ==
  CASE c.op = "acquire"       -> Acquired(b, c.agent, c.task, c.lane, t)
    [] c.op = "release"       -> Released(b, c.lane, c.next, c.message, c.contract, t)
    [] c.op = "force-release" -> ForceReleased(b, c.lane, t)
    [] c.op = "claim-files"   -> Claimed(b, c.lane, c.files, t)

ASSUME ProcessAssumption ==
  /\ None \notin Procs
  /\ Commands \subseteq AllCommands
  /\ Tries \in Nat \ {0}
  /\ MaxFaults \in Nat
  /\ MaxTime \in Nat
  /\ NoBoard \notin Board

-----------------------------------------------------------------------------
Init ==
  /\ file = NoBoard
  /\ lock = None
  /\ pc = [p \in Procs |-> "idle"]
  /\ cmd = [p \in Procs |-> None]
  /\ tries = [p \in Procs |-> 0]
  /\ copy = [p \in Procs |-> NoBoard]
  /\ outcome = [p \in Procs |-> None]
  /\ faults = 0
  /\ now = 0

Goto(p, from, to) == pc[p] = from /\ pc' = [pc EXCEPT ![p] = to]

\* The memory of a process is gone.
Forget(p) ==
  /\ cmd' = [cmd EXCEPT ![p] = None]
  /\ copy' = [copy EXCEPT ![p] = NoBoard]
  /\ tries' = [tries EXCEPT ![p] = 0]

\* The process exits; the slot may run another command.
Exit(p, from) == Goto(p, from, "idle") /\ Forget(p)

Start(p, c) ==
  /\ Goto(p, "idle", "locking")
  /\ cmd' = [cmd EXCEPT ![p] = c]
  /\ outcome' = [outcome EXCEPT ![p] = None]
  /\ UNCHANGED <<file, lock, tries, copy, faults, now>>

\* Mutant: the file is opened whether it exists or not.
CreateLockAnyway(p) ==
  /\ tries[p] < Tries
  /\ Goto(p, "locking", "locked")
  /\ lock' = p
  /\ UNCHANGED <<file, cmd, tries, copy, outcome, faults, now>>

\* create_new succeeds.
CreateLock(p) ==
  /\ tries[p] < Tries
  /\ lock = None
  /\ Goto(p, "locking", "locked")
  /\ lock' = p
  /\ UNCHANGED <<file, cmd, tries, copy, outcome, faults, now>>

\* Mutant: attempts are not counted.
LockExistsUncounted(p) ==
  /\ pc[p] = "locking" /\ tries[p] < Tries
  /\ lock # None
  /\ UNCHANGED vars

\* Mutant: one attempt too many.
LockExistsOnceMore(p) ==
  /\ pc[p] = "locking" /\ tries[p] <= Tries
  /\ lock # None
  /\ tries' = [tries EXCEPT ![p] = @ + 1]
  /\ UNCHANGED <<file, lock, pc, cmd, copy, outcome, faults, now>>

\* create_new finds the file there; sleep and try again.
LockExists(p) ==
  /\ pc[p] = "locking" /\ tries[p] < Tries
  /\ lock # None
  /\ tries' = [tries EXCEPT ![p] = @ + 1]
  /\ UNCHANGED <<file, lock, pc, cmd, copy, outcome, faults, now>>

\* Mutant: the command goes on without the lock.
GiveUpWaiting(p) ==
  /\ tries[p] = Tries
  /\ Goto(p, "locking", "locked")
  /\ UNCHANGED <<file, lock, cmd, tries, copy, outcome, faults, now>>

\* Mutant: the guard of the lock that was never taken is dropped too.
GiveUpRemovesLock(p) ==
  /\ tries[p] = Tries
  /\ Exit(p, "locking")
  /\ lock' = None
  /\ outcome' = [outcome EXCEPT ![p] = "timeout"]
  /\ UNCHANGED <<file, faults, now>>

\* "Timed out waiting for relay board lock"
GiveUp(p) ==
  /\ tries[p] = Tries
  /\ Exit(p, "locking")
  /\ outcome' = [outcome EXCEPT ![p] = "timeout"]
  /\ UNCHANGED <<file, lock, faults, now>>

\* A file that cannot be read or parsed is silently taken for a fresh board.
ReadBoard(p) ==
  /\ Goto(p, "locked", "loaded")
  /\ copy' = [copy EXCEPT ![p] = IF file = NoBoard THEN default_board(now) ELSE file]
  /\ UNCHANGED <<file, lock, cmd, tries, outcome, faults, now>>

\* Mutant: the file is opened for writing before the command is known to succeed.
RunAfterTruncate(p) ==
  /\ Goto(p, "loaded", "unlocking")
  /\ cmd[p].op = "status" \/ ~Succeeds(cmd[p], copy[p], now)
  /\ outcome' = [outcome EXCEPT ![p] = "err"]
  /\ file' = NoBoard
  /\ UNCHANGED <<lock, cmd, tries, copy, faults, now>>

\* The closure returns Err, or Ok(false): nothing is written.
RunWithoutWrite(p) ==
  /\ Goto(p, "loaded", "unlocking")
  /\ \/ /\ ~Succeeds(cmd[p], copy[p], now)
        /\ outcome' = [outcome EXCEPT ![p] = "err"]
     \/ /\ cmd[p].op = "status"
        /\ outcome' = [outcome EXCEPT ![p] = "ok"]
  /\ UNCHANGED <<file, lock, cmd, tries, copy, faults, now>>

\* Mutant: the board is written whatever the closure returned.
RunUnchecked(p) ==
  /\ Goto(p, "loaded", "writing")
  /\ cmd[p].op \in {"acquire", "claim-files"}
  /\ copy' = [copy EXCEPT ![p] = Effect(cmd[p], copy[p], now)]
  /\ file' = NoBoard
  /\ UNCHANGED <<lock, cmd, tries, outcome, faults, now>>

\* The closure returns Ok(true); fs::write truncates board.json first.
RunAndTruncate(p) ==
  /\ Goto(p, "loaded", "writing")
  /\ cmd[p].op # "status"
  /\ Succeeds(cmd[p], copy[p], now)
  /\ copy' = [copy EXCEPT ![p] = Effect(cmd[p], copy[p], now)]
  /\ file' = NoBoard
  /\ UNCHANGED <<lock, cmd, tries, outcome, faults, now>>

WriteBoard(p) ==
  /\ Goto(p, "writing", "unlocking")
  /\ file' = copy[p]
  /\ outcome' = [outcome EXCEPT ![p] = "ok"]
  /\ UNCHANGED <<lock, cmd, tries, copy, faults, now>>

\* Drop for FileLock: remove_file by path.
RemoveLock(p) ==
  /\ Exit(p, "unlocking")
  /\ lock' = None
  /\ UNCHANGED <<file, outcome, faults, now>>

\* fs::write returns Err after the truncation (no space left, for one).
WriteFails(p) ==
  /\ faults < MaxFaults
  /\ Goto(p, "writing", "unlocking")
  /\ outcome' = [outcome EXCEPT ![p] = "err"]
  /\ faults' = faults + 1
  /\ UNCHANGED <<file, lock, cmd, tries, copy, now>>

\* The process is killed: no destructor runs, and it reports nothing.
Kill(p) ==
  /\ faults < MaxFaults
  /\ pc[p] \notin {"idle", "dead"}
  /\ pc' = [pc EXCEPT ![p] = "dead"]
  /\ Forget(p)
  /\ outcome' = [outcome EXCEPT ![p] = None]
  /\ faults' = faults + 1
  /\ UNCHANGED <<file, lock, now>>

Tick == now < MaxTime /\ now' = now + 1
        /\ UNCHANGED <<file, lock, pc, cmd, tries, copy, outcome, faults>>

Step(p) ==
  \/ CreateLock(p) \/ LockExists(p) \/ GiveUp(p)
  \/ ReadBoard(p) \/ RunWithoutWrite(p) \/ RunAndTruncate(p) \/ WriteBoard(p)
  \/ RemoveLock(p)

Next ==
  \/ \E p \in Procs : Step(p) \/ WriteFails(p) \/ Kill(p)
  \/ \E p \in Procs, c \in Commands : Start(p, c)
  \/ Tick

Spec == Init /\ [][Next]_vars

\* A started process runs until it exits or is killed: the scheduler runs it.
FairSpec == Spec /\ \A p \in Procs : WF_vars(Step(p))

-----------------------------------------------------------------------------
(***************************************************************************)
(* Properties.                                                             *)
(***************************************************************************)
PCs == {"idle", "locking", "locked", "loaded", "writing", "unlocking", "dead"}

\* The variables have their types.
TypeOK ==
  /\ file \in Board \cup {NoBoard}
  /\ lock \in Procs \cup {None}
  /\ pc \in [Procs -> PCs]
  /\ cmd \in [Procs -> Commands \cup {None}]
  /\ tries \in [Procs -> 0..Tries]
  /\ copy \in [Procs -> Board \cup {NoBoard}]
  /\ outcome \in [Procs -> {None, "ok", "err", "timeout"}]
  /\ faults \in 0..MaxFaults
  /\ now \in 0..MaxTime

InTransaction(p) == pc[p] \in {"locked", "loaded", "writing", "unlocking"}

\* Two commands are never inside a transaction together, and the one inside is the
\* one that created board.lock (FileLock::acquire, Drop).
MutualExclusion ==
  \A p \in Procs : InTransaction(p) => lock = p

\* A command that reports success has its board on disk when it removes the lock: no
\* other command's write came between (transaction).
SuccessIsOnDisk ==
  \A p \in Procs :
    pc[p] = "unlocking" /\ outcome[p] = "ok" /\ cmd[p].op # "status" => file = copy[p]

\* The board as commands see it: while a command writes, the board it is writing.
Visible ==
  IF \E p \in Procs : pc[p] = "writing"
  THEN copy[CHOOSE p \in Procs : pc[p] = "writing"]
  ELSE file

Atomic == INSTANCE RelayBoard WITH board <- Visible

\* Processes implement the atomic board: every interleaving of their steps, with
\* kills and failed writes, is a run of whole commands and lost boards.
AtomicBoard == Atomic!Spec

\* Lanes are lost only by a kill or a failed write (fs::write is not atomic).
BoardLostOnlyByFault ==
  [][Visible # NoBoard /\ Visible' = NoBoard => faults' = faults + 1]_vars

\* A command killed inside its transaction freezes the board: board.lock has no owner
\* to remove it and no age, so no later command ever changes or frees it.
OrphanLockFreezesBoard ==
  [][\A p \in Procs : lock = p /\ pc[p] = "dead" => UNCHANGED <<file, lock>>]_vars

\* A started command ends, with a result or a timeout, unless it is killed: waiting
\* for the lock is bounded even when the holder is gone (the loop of 200 attempts).
CommandEnds ==
  \A p \in Procs : pc[p] = "locking" ~> pc[p] \in {"idle", "dead"}

=============================================================================
