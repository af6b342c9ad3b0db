----------------------------- MODULE RelayLanes -----------------------------
(***************************************************************************)
(* The data of the relay board (rust/crates/ctl/src/relay.rs) and what one *)
(* `cortex relay` command does to it, as constant operators: a guard       *)
(* `...OK' (the command's early returns) and the board it leaves behind.   *)
(* RelayBoard runs the commands one at a time; RelayProcesses runs them as *)
(* processes that race for the lock file.                                  *)
(*                                                                         *)
(* Abstracted: task names, handoff messages and contract ids are members   *)
(* of small sets (their wording never decides anything); the order of a    *)
(* lane's files (a Vec without duplicates) is dropped; seconds are ticks.  *)
(***************************************************************************)
EXTENDS Naturals

CONSTANTS
  Agents,       \* agent ids given on the command line
  LaneIds,      \* lane ids given on the command line
  DefaultLane,  \* "default", the lane of a fresh board
  Files,        \* files named by claim-files, after normalisation
  Tasks,        \* task names
  Contracts,    \* contract ids
  None,         \* Option::None
  NoLane,       \* the value of a key that BTreeMap `lanes' does not hold
  ZombieAge     \* ZOMBIE_LOCK_THRESHOLD_SECONDS, in ticks

-----------------------------------------------------------------------------
(***************************************************************************)
(* Types.                                                                  *)
(***************************************************************************)
Status == {"IDLE", "BUSY", "HANDOFF"}
Phase  == {"READY", "DONE", "FORCE_RELEASED", "ZOMBIE_EVICTED"}

\* struct Lane.  handoff_message is kept as whether there is one.
Lane == [status          : Status,
         active_agent_id : Agents \cup {None},
         current_task    : Tasks \cup {None},
         phase           : Phase,
         handoff_to      : Agents \cup {None},
         handoff_message : BOOLEAN,
         contract_id     : Contracts \cup {None},
         locked_at       : Nat \cup {None},
         files_to_modify : SUBSET Files]

\* struct Board: the time of the last write and the map of lanes.
Board == [updated_at : Nat, lanes : [LaneIds -> Lane \cup {NoLane}]]

ASSUME RelayAssumption ==
  /\ DefaultLane \in LaneIds
  /\ ZombieAge \in Nat
  /\ None \notin Agents \cup Tasks \cup Contracts \cup Nat
  /\ NoLane \notin Lane

HasLane(b, l) == b.lanes[l] # NoLane

-----------------------------------------------------------------------------
(***************************************************************************)
(* Reading the board.                                                      *)
(***************************************************************************)
default_lane ==
  [status |-> "IDLE", active_agent_id |-> None, current_task |-> None,
   phase |-> "READY", handoff_to |-> None, handoff_message |-> FALSE,
   contract_id |-> None, locked_at |-> None, files_to_modify |-> {}]

\* The board of a missing, truncated or unparseable board.json.  ensure_board_schema
\* adds nothing to it, nor to a written board, which always holds a lane.
default_board(now) ==
  [updated_at |-> now,
   lanes |-> [l \in LaneIds |-> IF l = DefaultLane THEN default_lane ELSE NoLane]]

\* entry(lane_id).or_insert_with(default_lane)
LaneOrDefault(b, l) == IF HasLane(b, l) THEN b.lanes[l] ELSE default_lane

\* The board as `transaction' writes it: `lane' under key l, stamped `now'.
Written(b, l, lane, now) ==
  [updated_at |-> now, lanes |-> [b.lanes EXCEPT ![l] = lane]]

-----------------------------------------------------------------------------
(***************************************************************************)
(* acquire                                                                 *)
(***************************************************************************)
\* Mutant: a lock is a zombie at the threshold already.
is_zombieAtThreshold(lane, updated_at, now) ==
  lane.status = "BUSY" /\ now >= lane.locked_at + ZombieAge

is_zombie(lane, updated_at, now) ==
  /\ lane.status = "BUSY"
  /\ LET ts == IF lane.locked_at # None THEN lane.locked_at ELSE updated_at
     IN  now > ts + ZombieAge

evict_zombie(lane) ==
  [lane EXCEPT !.status = "IDLE", !.active_agent_id = None,
               !.current_task = None, !.phase = "ZOMBIE_EVICTED",
               !.handoff_to = None, !.handoff_message = TRUE,
               !.locked_at = None, !.files_to_modify = {}]

\* Mutant: anyone may accept a handoff.
AcquireOKAnyAddressee(b, a, l, now) ==
  LET lane == LaneOrDefault(b, l)
  IN  \/ lane.status \in {"IDLE", "HANDOFF"} \/ lane.active_agent_id = a
      \/ is_zombie(lane, b.updated_at, now)

\* The agent may take the lane: nobody has it, it is handed to this agent, this
\* agent already has it, or its holder is a zombie.
AcquireOK(b, a, l, now) ==
  LET lane == LaneOrDefault(b, l)
  IN  CASE lane.status = "HANDOFF" -> lane.handoff_to \in {None, a}
        [] lane.status = "IDLE"    -> TRUE
        [] OTHER -> \/ lane.active_agent_id = a
                    \/ is_zombie(lane, b.updated_at, now)

\* Clearing the way for the agent: accept the handoff or evict the zombie.
Vacated(lane, a) ==
  CASE lane.status = "HANDOFF" -> [lane EXCEPT !.status = "IDLE", !.handoff_to = None]
    [] lane.status = "BUSY" /\ lane.active_agent_id # a -> evict_zombie(lane)
    [] OTHER -> lane

Acquired(b, a, task, l, now) ==
  Written(b, l, [Vacated(LaneOrDefault(b, l), a) EXCEPT
                   !.active_agent_id = a, !.current_task = task,
                   !.status = "BUSY", !.handoff_message = FALSE,
                   !.locked_at = now], now)

-----------------------------------------------------------------------------
(***************************************************************************)
(* release, force-release                                                  *)
(***************************************************************************)
\* Mutant: anyone may release a lane that somebody holds.
ReleaseOKByAnyone(b, a, l) == HasLane(b, l) /\ b.lanes[l].active_agent_id # None

ReleaseOK(b, a, l) == HasLane(b, l) /\ b.lanes[l].active_agent_id = a

\* Mutant: the releasing agent stays on the lane.
ReleasedKeepsAgent(b, l, next, message, contract, now) ==
  Written(b, l, [b.lanes[l] EXCEPT
                   !.status = IF next # None THEN "HANDOFF" ELSE "IDLE",
                   !.phase = "DONE", !.handoff_to = next,
                   !.handoff_message = message, !.contract_id = contract,
                   !.locked_at = None, !.files_to_modify = {},
                   !.current_task = IF next = None THEN None ELSE @], now)

\* Mutant: the files of a released lane stay claimed.
ReleasedKeepsFiles(b, l, next, message, contract, now) ==
  Written(b, l, [b.lanes[l] EXCEPT
                   !.status = IF next # None THEN "HANDOFF" ELSE "IDLE",
                   !.phase = "DONE", !.handoff_to = next,
                   !.handoff_message = message, !.contract_id = contract,
                   !.locked_at = None, !.active_agent_id = None,
                   !.current_task = IF next = None THEN None ELSE @], now)

Released(b, l, next, message, contract, now) ==
  Written(b, l, [b.lanes[l] EXCEPT
                   !.status = IF next # None THEN "HANDOFF" ELSE "IDLE",
                   !.phase = "DONE", !.handoff_to = next,
                   !.handoff_message = message, !.contract_id = contract,
                   !.locked_at = None, !.files_to_modify = {},
                   !.active_agent_id = None,
                   !.current_task = IF next = None THEN None ELSE @], now)

\* Mutant: a phase no one else knows.
ForceReleasedUnknownPhase(b, l, now) ==
  Written(b, l, [default_lane EXCEPT !.phase = "FORCED"], now)

ForceReleased(b, l, now) ==
  Written(b, l, [b.lanes[l] EXCEPT
                   !.status = "IDLE", !.active_agent_id = None,
                   !.current_task = None, !.phase = "FORCE_RELEASED",
                   !.handoff_to = None, !.handoff_message = TRUE,
                   !.locked_at = None, !.files_to_modify = {}], now)

-----------------------------------------------------------------------------
(***************************************************************************)
(* claim-files                                                             *)
(***************************************************************************)
\* Mutant: the lanes handed over, not the lanes at work, are asked.
ConflictsWithHandoffs(b, l, files) ==
  {m \in LaneIds \ {l} : /\ HasLane(b, m)
                         /\ b.lanes[m].status = "HANDOFF"
                         /\ b.lanes[m].files_to_modify \cap files # {}}

\* The lanes that hold a requested file; only lanes BUSY now defend theirs.
find_file_claim_conflicts(b, l, files) ==
  {m \in LaneIds \ {l} : /\ HasLane(b, m)
                         /\ b.lanes[m].status = "BUSY"
                         /\ b.lanes[m].files_to_modify \cap files # {}}

\* Nothing asks who claims, nor whether the claiming lane is BUSY.
Claimed(b, l, files, now) ==
  Written(b, l, [LaneOrDefault(b, l) EXCEPT !.files_to_modify = files], now)

=============================================================================
