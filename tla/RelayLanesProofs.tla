--------------------------- MODULE RelayLanesProofs ---------------------------
(***************************************************************************)
(* Lemmas about the operators of RelayLanes: what a command makes of a     *)
(* lane and of a board.  RelayBoardProofs and RelayProcessesProofs rest on *)
(* them.                                                                   *)
(***************************************************************************)
EXTENDS RelayLanes, TLAPS

-----------------------------------------------------------------------------
\* The default lane is a lane.
LEMMA DefaultLaneType == default_lane \in Lane
  BY DEF default_lane, Lane, Status, Phase

\* The default board is a board: `transaction' always works on a Board.
LEMMA DefaultBoardType ==
  ASSUME NEW t \in Nat
  PROVE  default_board(t) \in Board
  BY DefaultLaneType DEF default_board, Board

\* A lane that is read is a lane, whether the board has it or not.
LEMMA LaneOrDefaultType ==
  ASSUME NEW b \in Board, NEW l \in LaneIds
  PROVE  LaneOrDefault(b, l) \in Lane
  BY DefaultLaneType DEF LaneOrDefault, HasLane, Board

\* Putting a lane on a board gives a board.
LEMMA WrittenType ==
  ASSUME NEW b \in Board, NEW l \in LaneIds, NEW lane \in Lane, NEW t \in Nat
  PROVE  Written(b, l, lane, t) \in Board
  BY DEF Written, Board

\* Taking a lane over leaves a lane.
LEMMA VacatedType ==
  ASSUME NEW lane \in Lane, NEW a \in Agents
  PROVE  Vacated(lane, a) \in Lane
  BY DEF Vacated, evict_zombie, Lane, Status, Phase

\* Every command leaves a board.
LEMMA AcquiredType ==
  ASSUME NEW b \in Board, NEW a \in Agents, NEW task \in Tasks, NEW l \in LaneIds,
         NEW t \in Nat
  PROVE  Acquired(b, a, task, l, t) \in Board
  <1> DEFINE v == Vacated(LaneOrDefault(b, l), a)
  <1>1. v \in Lane
    BY LaneOrDefaultType, VacatedType
  <1>2. [v EXCEPT !.active_agent_id = a, !.current_task = task, !.status = "BUSY",
                  !.handoff_message = FALSE, !.locked_at = t] \in Lane
    BY <1>1 DEF Lane, Status
  <1> QED
    BY <1>2, WrittenType DEF Acquired

LEMMA ReleasedType ==
  ASSUME NEW b \in Board, NEW l \in LaneIds, HasLane(b, l),
         NEW next \in Agents \cup {None}, NEW message \in BOOLEAN,
         NEW contract \in Contracts \cup {None}, NEW t \in Nat
  PROVE  Released(b, l, next, message, contract, t) \in Board
  <1>1. b.lanes[l] \in Lane
    BY DEF Board, HasLane
  <1> DEFINE status == IF next # None THEN "HANDOFF" ELSE "IDLE"
             task == IF next = None THEN None ELSE b.lanes[l].current_task
  <1>2. status \in Status /\ task \in Tasks \cup {None}
    BY <1>1 DEF Lane, Status
  <1> HIDE DEF status, task
  <1>3. [b.lanes[l] EXCEPT
           !.status = status, !.phase = "DONE", !.handoff_to = next,
           !.handoff_message = message, !.contract_id = contract,
           !.locked_at = None, !.files_to_modify = {},
           !.active_agent_id = None, !.current_task = task] \in Lane
    BY <1>1, <1>2 DEF Lane, Phase
  <1> QED
    BY <1>3, WrittenType DEF Released, status, task

LEMMA ForceReleasedType ==
  ASSUME NEW b \in Board, NEW l \in LaneIds, HasLane(b, l), NEW t \in Nat
  PROVE  ForceReleased(b, l, t) \in Board
  <1>1. b.lanes[l] \in Lane
    BY DEF Board, HasLane
  <1>2. [b.lanes[l] EXCEPT
           !.status = "IDLE", !.active_agent_id = None, !.current_task = None,
           !.phase = "FORCE_RELEASED", !.handoff_to = None,
           !.handoff_message = TRUE, !.locked_at = None,
           !.files_to_modify = {}] \in Lane
    BY <1>1 DEF Lane, Status, Phase
  <1> QED
    BY <1>2, WrittenType DEF ForceReleased

LEMMA ClaimedType ==
  ASSUME NEW b \in Board, NEW l \in LaneIds, NEW files \in SUBSET Files, NEW t \in Nat
  PROVE  Claimed(b, l, files, t) \in Board
  <1>1. [LaneOrDefault(b, l) EXCEPT !.files_to_modify = files] \in Lane
    BY LaneOrDefaultType DEF Lane
  <1> QED
    BY <1>1, WrittenType DEF Claimed

=============================================================================
