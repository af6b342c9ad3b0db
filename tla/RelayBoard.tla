----------------------------- MODULE RelayBoard -----------------------------
(***************************************************************************)
(* What the relay board promises: every `cortex relay' command is one      *)
(* atomic step on board.json.  A command that fails, and `status', leave   *)
(* the board as it is.  RelayProcesses shows that the lock file delivers   *)
(* this atomicity as long as no command dies inside fs::write; a command   *)
(* that does die there loses the whole board, which is the action          *)
(* LoseBoard here.                                                         *)
(***************************************************************************)
EXTENDS RelayLanes

CONSTANTS
  NoBoard,  \* board.json is missing or does not parse
  MaxTime   \* bound on the clock

ASSUME BoardAssumption ==
  /\ MaxTime \in Nat
  /\ NoBoard \notin Board

VARIABLES
  board,  \* what reading board.json returns
  now     \* now_unix()

vars == <<board, now>>

-----------------------------------------------------------------------------
Loaded == IF board = NoBoard THEN default_board(now) ELSE board

Init == board = NoBoard /\ now = 0

\* cortex relay acquire <agent> <task> [lane]
Acquire(a, task, l) ==
  /\ AcquireOK(Loaded, a, l, now)
  /\ board' = Acquired(Loaded, a, task, l, now)
  /\ UNCHANGED now

\* cortex relay release <agent> [lane] [handoff_to] [message] [contract]
Release(a, l, next, message, contract) ==
  /\ ReleaseOK(Loaded, a, l)
  /\ board' = Released(Loaded, l, next, message, contract, now)
  /\ UNCHANGED now

\* cortex relay force-release [lane]
ForceRelease(l) ==
  /\ HasLane(Loaded, l)
  /\ board' = ForceReleased(Loaded, l, now)
  /\ UNCHANGED now

\* cortex relay claim-files <lane> <files>...
ClaimFiles(l, files) ==
  /\ find_file_claim_conflicts(Loaded, l, files) = {}
  /\ board' = Claimed(Loaded, l, files, now)
  /\ UNCHANGED now

\* A command died between the truncation and the end of fs::write; the next
\* reader takes the default board.
LoseBoard ==
  /\ board # NoBoard
  /\ board' = NoBoard
  /\ UNCHANGED now

Tick == now < MaxTime /\ now' = now + 1 /\ UNCHANGED board

\* Every step but a claim of files.
NoClaim ==
  \/ \E a \in Agents, task \in Tasks, l \in LaneIds : Acquire(a, task, l)
  \/ \E a \in Agents, l \in LaneIds, next \in Agents \cup {None},
        message \in BOOLEAN, contract \in Contracts \cup {None} :
       Release(a, l, next, message, contract)
  \/ \E l \in LaneIds : ForceRelease(l)
  \/ LoseBoard
  \/ Tick

Next == NoClaim \/ \E l \in LaneIds, files \in SUBSET Files : ClaimFiles(l, files)

Spec == Init /\ [][Next]_vars

\* The protocol of rules/core/protocols/multi-agent-relay.md: a lane's files are
\* claimed once the lane is acquired.  claim_files does not ask for it.
ClaimOnceBusy(l, files) ==
  LaneOrDefault(Loaded, l).status = "BUSY" /\ ClaimFiles(l, files)

DisciplinedNext ==
  NoClaim \/ \E l \in LaneIds, files \in SUBSET Files : ClaimOnceBusy(l, files)

DisciplinedSpec == Init /\ [][DisciplinedNext]_vars

-----------------------------------------------------------------------------
(***************************************************************************)
(* Properties.                                                             *)
(***************************************************************************)
\* The variables have their types (struct Board, struct Lane).
TypeOK == board \in Board \cup {NoBoard} /\ now \in 0..MaxTime

OnBoard(l) == board # NoBoard /\ HasLane(board, l)

BusyIsHeld(lane) ==
  lane.status = "BUSY" => /\ lane.active_agent_id # None
                          /\ lane.locked_at # None
                          /\ lane.current_task # None
                          /\ lane.handoff_to = None

HandoffIsAddressed(lane) ==
  lane.status = "HANDOFF" => /\ lane.handoff_to # None
                             /\ lane.active_agent_id = None
                             /\ lane.locked_at = None
                             /\ lane.current_task # None

IdleIsFree(lane) ==
  lane.status = "IDLE" => /\ lane.active_agent_id = None
                          /\ lane.locked_at = None
                          /\ lane.current_task = None
                          /\ lane.handoff_to = None

\* Whatever sequence of commands ran, the fields of a lane tell one story: a BUSY
\* lane has a holder and a lock time (so is_zombie never falls back on updated_at),
\* a HANDOFF lane has an addressee, a task to hand over and no holder, and an IDLE
\* lane has no leftovers of its last holder (acquire, release, evict_zombie).
LaneCoherent ==
  \A l \in LaneIds : OnBoard(l) =>
    LET lane == board.lanes[l]
    IN  BusyIsHeld(lane) /\ HandoffIsAddressed(lane) /\ IdleIsFree(lane)

\* The step can be a release of lane l by agent a.
Releases(a, l) ==
  \E next \in Agents \cup {None}, message \in BOOLEAN, contract \in Contracts \cup {None} :
    Release(a, l, next, message, contract)

\* An agent loses a lane only by a release that is its own and that no other agent could
\* have given, by an operator's force-release, when the lock has really been held for
\* longer than the threshold, or with the whole board: no other command of any agent
\* takes a BUSY lane away (acquire, is_zombie, the ownership check of release).
HolderKeepsLane(l) ==
  OnBoard(l) /\ board.lanes[l].status = "BUSY" /\ board' # NoBoard =>
    LET lane == board.lanes[l]
        lane2 == board'.lanes[l]
    IN  \/ lane2.active_agent_id = lane.active_agent_id
        \/ {a \in Agents : Releases(a, l)} = {lane.active_agent_id}
        \/ ForceRelease(l)
        \/ /\ lane2.status = "BUSY" /\ lane2.phase = "ZOMBIE_EVICTED"
           /\ now > lane.locked_at + ZombieAge

HoldersKeepLanes == [][\A l \in LaneIds : HolderKeepsLane(l)]_vars

\* A lane handed to an agent stays reserved for it until it comes, unless an
\* operator force-releases the lane, and the handoff's contract is still on the lane
\* when it does (acquire's HANDOFF branch; force_release).
HandoffReachesAddressee(l) ==
  OnBoard(l) /\ board.lanes[l].status = "HANDOFF" /\ board' # NoBoard =>
    LET lane == board.lanes[l]
        lane2 == board'.lanes[l]
    IN  /\ lane2.contract_id = lane.contract_id
        /\ \/ lane2.handoff_to = lane.handoff_to /\ lane2.status = "HANDOFF"
           \/ lane2.active_agent_id = lane.handoff_to
           \/ lane2.phase = "FORCE_RELEASED"

HandoffsReachAddressees == [][\A l \in LaneIds : HandoffReachesAddressee(l)]_vars

\* A lane does not gain a file that another lane holds while BUSY, in any order of
\* commands (find_file_claim_conflicts).
BusyLaneDefendsFiles(m) ==
  OnBoard(m) /\ board.lanes[m].status = "BUSY" /\ board' # NoBoard =>
    \A l \in LaneIds \ {m} :
      board'.lanes[l] # NoLane =>
        board'.lanes[l].files_to_modify \cap board.lanes[m].files_to_modify
          \subseteq LaneOrDefault(board, l).files_to_modify

BusyLanesDefendFiles == [][\A m \in LaneIds : BusyLaneDefendsFiles(m)]_vars

\* Two BUSY lanes never hold the same file: the isolation of multi-agent-relay.md
\* section 4.
ZeroOverlap ==
  \A l, m \in LaneIds :
    /\ l # m
    /\ OnBoard(l) /\ board.lanes[l].status = "BUSY"
    /\ OnBoard(m) /\ board.lanes[m].status = "BUSY"
    => board.lanes[l].files_to_modify \cap board.lanes[m].files_to_modify = {}

=============================================================================
