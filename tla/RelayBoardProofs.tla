-------------------------- MODULE RelayBoardProofs --------------------------
(***************************************************************************)
(* Theorems about RelayBoard, for any sets of agents, lanes and files, any *)
(* zombie threshold and any bound on the clock.                            *)
(***************************************************************************)
EXTENDS RelayBoard, RelayLanesProofs

-----------------------------------------------------------------------------
(***************************************************************************)
(* Type correctness.                                                       *)
(***************************************************************************)
\* A command always works on a Board.
LEMMA LoadedType == TypeOK => Loaded \in Board
  <1> SUFFICES ASSUME TypeOK PROVE Loaded \in Board
    OBVIOUS
  <1>1. now \in Nat
    BY BoardAssumption DEF TypeOK
  <1>2. default_board(now) \in Board
    BY <1>1, DefaultBoardType
  <1> QED
    BY <1>2 DEF Loaded, TypeOK

\* Every step keeps the types.
LEMMA TypeStep == TypeOK /\ [Next]_vars => TypeOK'
  <1> SUFFICES ASSUME TypeOK, [Next]_vars PROVE TypeOK'
    OBVIOUS
  <1>1. Loaded \in Board /\ now \in Nat
    BY LoadedType, BoardAssumption DEF TypeOK
  <1>2. ASSUME NEW a \in Agents, NEW task \in Tasks, NEW l \in LaneIds,
               Acquire(a, task, l)
        PROVE  TypeOK'
    BY <1>1, <1>2, AcquiredType DEF Acquire, TypeOK
  <1>3. ASSUME NEW a \in Agents, NEW l \in LaneIds, NEW next \in Agents \cup {None},
               NEW message \in BOOLEAN, NEW contract \in Contracts \cup {None},
               Release(a, l, next, message, contract)
        PROVE  TypeOK'
    BY <1>1, <1>3, ReleasedType DEF Release, ReleaseOK, TypeOK
  <1>4. ASSUME NEW l \in LaneIds, ForceRelease(l)
        PROVE  TypeOK'
    BY <1>1, <1>4, ForceReleasedType DEF ForceRelease, TypeOK
  <1>5. ASSUME NEW l \in LaneIds, NEW files \in SUBSET Files, ClaimFiles(l, files)
        PROVE  TypeOK'
    BY <1>1, <1>5, ClaimedType DEF ClaimFiles, TypeOK
  <1>6. CASE LoseBoard
    BY <1>6 DEF LoseBoard, TypeOK
  <1>7. CASE Tick
    BY <1>7, BoardAssumption DEF Tick, TypeOK
  <1>8. CASE UNCHANGED vars
    BY <1>8 DEF vars, TypeOK
  <1> QED
    BY <1>2, <1>3, <1>4, <1>5, <1>6, <1>7, <1>8 DEF Next, NoClaim

\* Every reachable board is a well-formed Board (struct Board, struct Lane).
THEOREM TypeCorrect == Spec => []TypeOK
  <1>1. Init => TypeOK
    BY BoardAssumption DEF Init, TypeOK
  <1> QED
    BY <1>1, TypeStep, PTL DEF Spec

-----------------------------------------------------------------------------
(***************************************************************************)
(* The fields of a lane tell one story.                                    *)
(***************************************************************************)
Coherent(lane) == BusyIsHeld(lane) /\ HandoffIsAddressed(lane) /\ IdleIsFree(lane)

AllCoherent(b) == \A l \in LaneIds : HasLane(b, l) => Coherent(b.lanes[l])

\* LaneCoherent speaks of the loaded board as well as of the file.
LEMMA LoadedCoherent == LaneCoherent <=> AllCoherent(Loaded)
  <1>1. Coherent(default_lane)
    BY DEF Coherent, BusyIsHeld, HandoffIsAddressed, IdleIsFree, default_lane
  <1>2. CASE board = NoBoard
    <2>1. AllCoherent(default_board(now))
      BY <1>1 DEF AllCoherent, HasLane, default_board
    <2> QED
      BY <1>2, <2>1 DEF Loaded, LaneCoherent, OnBoard
  <1>3. CASE board # NoBoard
    BY <1>3 DEF Loaded, LaneCoherent, OnBoard, AllCoherent, Coherent
  <1> QED
    BY <1>2, <1>3

\* A coherent lane put on a coherent board leaves it coherent.
LEMMA WrittenCoherent ==
  ASSUME NEW b \in Board, AllCoherent(b), NEW l \in LaneIds, NEW lane,
         Coherent(lane), NEW t
  PROVE  AllCoherent(Written(b, l, lane, t))
  BY DEF AllCoherent, Written, Board, HasLane

LEMMA ReadCoherent ==
  ASSUME NEW b \in Board, AllCoherent(b), NEW l \in LaneIds
  PROVE  Coherent(LaneOrDefault(b, l))
  BY DEF AllCoherent, LaneOrDefault, Coherent, BusyIsHeld, HandoffIsAddressed,
         IdleIsFree, default_lane

LEMMA AcquiredCoherent ==
  ASSUME NEW b \in Board, AllCoherent(b), NEW a \in Agents, NEW task \in Tasks,
         NEW l \in LaneIds, NEW t \in Nat
  PROVE  AllCoherent(Acquired(b, a, task, l, t))
  <1> DEFINE v == Vacated(LaneOrDefault(b, l), a)
             taken == [v EXCEPT !.active_agent_id = a, !.current_task = task,
                                !.status = "BUSY", !.handoff_message = FALSE,
                                !.locked_at = t]
  <1>1. LaneOrDefault(b, l) \in Lane /\ Coherent(LaneOrDefault(b, l))
    BY LaneOrDefaultType, ReadCoherent
  <1>2. v \in Lane /\ v.handoff_to = None
    <2>1. v \in Lane
      BY <1>1, VacatedType
    <2>2. v.handoff_to = None
      BY <1>1 DEF Vacated, evict_zombie, Coherent, BusyIsHeld, IdleIsFree, Lane, Status
    <2> QED
      BY <2>1, <2>2
  <1>3. Coherent(taken)
    BY <1>2, RelayAssumption
      DEF Coherent, BusyIsHeld, HandoffIsAddressed, IdleIsFree, Lane
  <1> QED
    BY <1>3, WrittenCoherent DEF Acquired

LEMMA ReleasedCoherent ==
  ASSUME NEW b \in Board, AllCoherent(b), NEW a \in Agents, NEW l \in LaneIds,
         ReleaseOK(b, a, l),
         NEW next \in Agents \cup {None}, NEW message \in BOOLEAN,
         NEW contract \in Contracts \cup {None}, NEW t \in Nat
  PROVE  AllCoherent(Released(b, l, next, message, contract, t))
  <1>1. /\ b.lanes[l] \in Lane /\ Coherent(b.lanes[l])
        /\ b.lanes[l].active_agent_id = a /\ a # None
    BY RelayAssumption DEF AllCoherent, ReleaseOK, HasLane, Board
  <1>2. b.lanes[l].current_task # None
    BY <1>1 DEF Coherent, BusyIsHeld, HandoffIsAddressed, IdleIsFree, Lane, Status
  <1> DEFINE status == IF next # None THEN "HANDOFF" ELSE "IDLE"
             task == IF next = None THEN None ELSE b.lanes[l].current_task
             lane == [b.lanes[l] EXCEPT
                        !.status = status, !.phase = "DONE", !.handoff_to = next,
                        !.handoff_message = message, !.contract_id = contract,
                        !.locked_at = None, !.files_to_modify = {},
                        !.active_agent_id = None, !.current_task = task]
  <1>3. /\ lane.status = status /\ lane.handoff_to = next /\ lane.locked_at = None
        /\ lane.active_agent_id = None /\ lane.current_task = task
    BY <1>1 DEF Lane
  <1>4. Coherent(lane)
    BY <1>2, <1>3 DEF Coherent, BusyIsHeld, HandoffIsAddressed, IdleIsFree
  <1> QED
    BY <1>4, WrittenCoherent DEF Released

LEMMA ForceReleasedCoherent ==
  ASSUME NEW b \in Board, AllCoherent(b), NEW l \in LaneIds, HasLane(b, l), NEW t \in Nat
  PROVE  AllCoherent(ForceReleased(b, l, t))
  <1> DEFINE lane == [b.lanes[l] EXCEPT
                        !.status = "IDLE", !.active_agent_id = None,
                        !.current_task = None, !.phase = "FORCE_RELEASED",
                        !.handoff_to = None, !.handoff_message = TRUE,
                        !.locked_at = None, !.files_to_modify = {}]
  <1>1. b.lanes[l] \in Lane
    BY DEF HasLane, Board
  <1>2. Coherent(lane)
    BY <1>1 DEF Coherent, BusyIsHeld, HandoffIsAddressed, IdleIsFree, Lane
  <1> QED
    BY <1>2, WrittenCoherent DEF ForceReleased

LEMMA ClaimedCoherent ==
  ASSUME NEW b \in Board, AllCoherent(b), NEW l \in LaneIds,
         NEW files \in SUBSET Files, NEW t \in Nat
  PROVE  AllCoherent(Claimed(b, l, files, t))
  <1> DEFINE lane == [LaneOrDefault(b, l) EXCEPT !.files_to_modify = files]
  <1>1. LaneOrDefault(b, l) \in Lane /\ Coherent(LaneOrDefault(b, l))
    BY LaneOrDefaultType, ReadCoherent
  <1>2. Coherent(lane)
    BY <1>1 DEF Coherent, BusyIsHeld, HandoffIsAddressed, IdleIsFree, Lane
  <1> QED
    BY <1>2, WrittenCoherent DEF Claimed

\* No sequence of commands leaves a BUSY lane without holder, task or lock time, a
\* HANDOFF lane without addressee or task, or an IDLE lane with leftovers.
THEOREM LanesCoherent == Spec => []LaneCoherent
  <1>1. Init => LaneCoherent
    BY DEF Init, LaneCoherent, OnBoard
  <1>2. TypeOK /\ LaneCoherent /\ [Next]_vars => LaneCoherent'
    <2> SUFFICES ASSUME TypeOK, LaneCoherent, [Next]_vars PROVE LaneCoherent'
      OBVIOUS
    <2>1. Loaded \in Board /\ AllCoherent(Loaded) /\ now \in Nat
      BY LoadedType, LoadedCoherent, BoardAssumption DEF TypeOK
    <2>2. ASSUME AllCoherent(board') PROVE LaneCoherent'
      BY <2>2 DEF LaneCoherent, OnBoard, AllCoherent, Coherent
    <2>3. ASSUME NEW a \in Agents, NEW task \in Tasks, NEW l \in LaneIds,
                 Acquire(a, task, l)
          PROVE  LaneCoherent'
      BY <2>1, <2>2, <2>3, AcquiredCoherent DEF Acquire
    <2>4. ASSUME NEW a \in Agents, NEW l \in LaneIds, NEW next \in Agents \cup {None},
                 NEW message \in BOOLEAN, NEW contract \in Contracts \cup {None},
                 Release(a, l, next, message, contract)
          PROVE  LaneCoherent'
      BY <2>1, <2>2, <2>4, ReleasedCoherent DEF Release
    <2>5. ASSUME NEW l \in LaneIds, ForceRelease(l)
          PROVE  LaneCoherent'
      BY <2>1, <2>2, <2>5, ForceReleasedCoherent DEF ForceRelease
    <2>6. ASSUME NEW l \in LaneIds, NEW files \in SUBSET Files, ClaimFiles(l, files)
          PROVE  LaneCoherent'
      BY <2>1, <2>2, <2>6, ClaimedCoherent DEF ClaimFiles
    <2>7. CASE LoseBoard
      BY <2>7 DEF LoseBoard, LaneCoherent, OnBoard
    <2>8. CASE Tick \/ UNCHANGED vars
      BY <2>8 DEF Tick, vars, LaneCoherent, OnBoard
    <2> QED
      BY <2>3, <2>4, <2>5, <2>6, <2>7, <2>8 DEF Next, NoClaim
  <1> QED
    BY <1>1, <1>2, TypeCorrect, PTL DEF Spec

-----------------------------------------------------------------------------
(***************************************************************************)
(* What a step may do to a lane.                                           *)
(***************************************************************************)
\* A command rewrites one lane and leaves the others alone.
LEMMA WrittenLanes ==
  ASSUME NEW b \in Board, NEW k \in LaneIds, NEW lane, NEW t
  PROVE  /\ Written(b, k, lane, t).lanes[k] = lane
         /\ \A l \in LaneIds \ {k} : Written(b, k, lane, t).lanes[l] = b.lanes[l]
  BY DEF Written, Board

\* A lane on the file is the lane the commands work on.
LEMMA OnBoardLoaded ==
  ASSUME TypeOK, NEW l \in LaneIds, OnBoard(l)
  PROVE  /\ Loaded = board /\ board \in Board
         /\ board.lanes[l] \in Lane
         /\ LaneOrDefault(Loaded, l) = board.lanes[l]
  BY DEF TypeOK, OnBoard, Loaded, HasLane, Board, LaneOrDefault

\* A BUSY lane stays with its holder until the holder itself releases it, an operator
\* forces it, or the lock is older than the threshold.
THEOREM HoldersSafe == Spec => HoldersKeepLanes
  <1>1. TypeOK /\ LaneCoherent /\ [Next]_vars => [\A l \in LaneIds : HolderKeepsLane(l)]_vars
    <2> SUFFICES ASSUME TypeOK, LaneCoherent, Next, NEW l \in LaneIds,
                        OnBoard(l), board.lanes[l].status = "BUSY", board' # NoBoard
                 PROVE  HolderKeepsLane(l)
      BY DEF HolderKeepsLane
    <2> DEFINE lane == board.lanes[l]
               lane2 == board'.lanes[l]
    <2>1. /\ Loaded = board /\ board \in Board /\ lane \in Lane
          /\ LaneOrDefault(Loaded, l) = lane
      BY OnBoardLoaded
    <2>2. lane.active_agent_id # None /\ lane.locked_at # None
      BY DEF LaneCoherent, BusyIsHeld
    <2>3. ASSUME lane2 = lane PROVE HolderKeepsLane(l)
      BY <2>3 DEF HolderKeepsLane
    <2>4. ASSUME NEW a \in Agents, NEW task \in Tasks, NEW k \in LaneIds, Acquire(a, task, k)
          PROVE  HolderKeepsLane(l)
      <3>1. CASE k # l
        BY <2>1, <2>3, <2>4, <3>1, WrittenLanes DEF Acquire, Acquired
      <3>2. CASE k = l
        <4> DEFINE v == Vacated(lane, a)
        <4>1. v \in Lane
          BY <2>1, VacatedType
        <4>2. lane2 = [v EXCEPT !.active_agent_id = a, !.current_task = task,
                                !.status = "BUSY", !.handoff_message = FALSE,
                                !.locked_at = now]
          BY <2>1, <2>4, <3>2 DEF Acquire, Acquired, Written, Board
        <4>3. lane2.active_agent_id = a /\ lane2.phase = v.phase /\ lane2.status = "BUSY"
          BY <4>1, <4>2 DEF Lane
        <4>4. CASE lane.active_agent_id = a
          BY <4>3, <4>4 DEF HolderKeepsLane
        <4>5. CASE lane.active_agent_id # a
          <5>1. is_zombie(lane, board.updated_at, now)
            BY <2>1, <2>4, <3>2, <4>5 DEF Acquire, AcquireOK
          <5>2. v.phase = "ZOMBIE_EVICTED"
            BY <2>1, <4>5 DEF Vacated, evict_zombie, Lane
          <5> QED
            BY <2>2, <4>3, <5>1, <5>2 DEF is_zombie, HolderKeepsLane
        <4> QED
          BY <4>4, <4>5
      <3> QED
        BY <3>1, <3>2
    <2>5. ASSUME NEW a \in Agents, NEW k \in LaneIds, NEW next \in Agents \cup {None},
                 NEW message \in BOOLEAN, NEW contract \in Contracts \cup {None},
                 Release(a, k, next, message, contract)
          PROVE  HolderKeepsLane(l)
      <3>1. CASE k # l
        BY <2>1, <2>3, <2>5, <3>1, WrittenLanes DEF Release, Released
      <3>2. CASE k = l
        <4>1. ASSUME NEW b \in Agents, Releases(b, l)
              PROVE  b = lane.active_agent_id
          BY <2>1, <4>1 DEF Releases, Release, ReleaseOK
        <4>2. Releases(a, l)
          BY <2>5, <3>2 DEF Releases
        <4>3. {b \in Agents : Releases(b, l)} = {lane.active_agent_id}
          BY <4>1, <4>2
        <4> QED
          BY <4>3 DEF HolderKeepsLane
      <3> QED
        BY <3>1, <3>2
    <2>6. ASSUME NEW k \in LaneIds, ForceRelease(k)
          PROVE  HolderKeepsLane(l)
      <3>1. CASE k # l
        BY <2>1, <2>3, <2>6, <3>1, WrittenLanes DEF ForceRelease, ForceReleased
      <3>2. CASE k = l
        BY <2>6, <3>2 DEF HolderKeepsLane
      <3> QED
        BY <3>1, <3>2
    <2>7. ASSUME NEW k \in LaneIds, NEW files \in SUBSET Files, ClaimFiles(k, files)
          PROVE  HolderKeepsLane(l)
      <3>1. CASE k # l
        BY <2>1, <2>3, <2>7, <3>1, WrittenLanes DEF ClaimFiles, Claimed
      <3>2. CASE k = l
        <4>1. lane2.active_agent_id = lane.active_agent_id
          BY <2>1, <2>7, <3>2 DEF ClaimFiles, Claimed, Written, Board, Lane
        <4> QED
          BY <4>1 DEF HolderKeepsLane
      <3> QED
        BY <3>1, <3>2
    <2>8. CASE LoseBoard
      BY <2>8 DEF LoseBoard
    <2>9. CASE Tick
      BY <2>3, <2>9 DEF Tick
    <2> QED
      BY <2>4, <2>5, <2>6, <2>7, <2>8, <2>9 DEF Next, NoClaim
  <1> QED
    BY <1>1, TypeCorrect, LanesCoherent, PTL DEF Spec, HoldersKeepLanes

\* A handed lane waits for its addressee, contract in hand, or for force-release.
THEOREM HandoffsSafe == Spec => HandoffsReachAddressees
  <1>1. TypeOK /\ LaneCoherent /\ [Next]_vars
        => [\A l \in LaneIds : HandoffReachesAddressee(l)]_vars
    <2> SUFFICES ASSUME TypeOK, LaneCoherent, Next, NEW l \in LaneIds,
                        OnBoard(l), board.lanes[l].status = "HANDOFF", board' # NoBoard
                 PROVE  HandoffReachesAddressee(l)
      BY DEF HandoffReachesAddressee
    <2> DEFINE lane == board.lanes[l]
               lane2 == board'.lanes[l]
    <2>1. /\ Loaded = board /\ board \in Board /\ lane \in Lane
          /\ LaneOrDefault(Loaded, l) = lane
      BY OnBoardLoaded
    <2>2. lane.handoff_to # None /\ lane.active_agent_id = None
      BY DEF LaneCoherent, HandoffIsAddressed
    <2>3. ASSUME lane2 = lane PROVE HandoffReachesAddressee(l)
      BY <2>3 DEF HandoffReachesAddressee
    <2>4. ASSUME NEW a \in Agents, NEW task \in Tasks, NEW k \in LaneIds, Acquire(a, task, k)
          PROVE  HandoffReachesAddressee(l)
      <3>1. CASE k # l
        BY <2>1, <2>3, <2>4, <3>1, WrittenLanes DEF Acquire, Acquired
      <3>2. CASE k = l
        <4>1. lane.handoff_to = a
          BY <2>1, <2>2, <2>4, <3>2 DEF Acquire, AcquireOK
        <4>2. lane2 = [Vacated(lane, a) EXCEPT
                         !.active_agent_id = a, !.current_task = task,
                         !.status = "BUSY", !.handoff_message = FALSE,
                         !.locked_at = now]
          BY <2>1, <2>4, <3>2 DEF Acquire, Acquired, Written, Board
        <4>3. Vacated(lane, a) = [lane EXCEPT !.status = "IDLE", !.handoff_to = None]
          BY DEF Vacated
        <4>4. lane2.active_agent_id = a /\ lane2.contract_id = lane.contract_id
          BY <2>1, <4>2, <4>3 DEF Lane
        <4> QED
          BY <4>1, <4>4 DEF HandoffReachesAddressee
      <3> QED
        BY <3>1, <3>2
    <2>5. ASSUME NEW a \in Agents, NEW k \in LaneIds, NEW next \in Agents \cup {None},
                 NEW message \in BOOLEAN, NEW contract \in Contracts \cup {None},
                 Release(a, k, next, message, contract)
          PROVE  HandoffReachesAddressee(l)
      <3>1. k # l
        BY <2>1, <2>2, <2>5, RelayAssumption DEF Release, ReleaseOK
      <3> QED
        BY <2>1, <2>3, <2>5, <3>1, WrittenLanes DEF Release, Released
    <2>6. ASSUME NEW k \in LaneIds, ForceRelease(k)
          PROVE  HandoffReachesAddressee(l)
      <3>1. CASE k # l
        BY <2>1, <2>3, <2>6, <3>1, WrittenLanes DEF ForceRelease, ForceReleased
      <3>2. CASE k = l
        <4>1. lane2.phase = "FORCE_RELEASED" /\ lane2.contract_id = lane.contract_id
          BY <2>1, <2>6, <3>2 DEF ForceRelease, ForceReleased, Written, Board, Lane
        <4> QED
          BY <4>1 DEF HandoffReachesAddressee
      <3> QED
        BY <3>1, <3>2
    <2>7. ASSUME NEW k \in LaneIds, NEW files \in SUBSET Files, ClaimFiles(k, files)
          PROVE  HandoffReachesAddressee(l)
      <3>1. CASE k # l
        BY <2>1, <2>3, <2>7, <3>1, WrittenLanes DEF ClaimFiles, Claimed
      <3>2. CASE k = l
        <4>1. /\ lane2.handoff_to = lane.handoff_to /\ lane2.status = lane.status
              /\ lane2.contract_id = lane.contract_id
          BY <2>1, <2>7, <3>2 DEF ClaimFiles, Claimed, Written, Board, Lane
        <4> QED
          BY <4>1 DEF HandoffReachesAddressee
      <3> QED
        BY <3>1, <3>2
    <2>8. CASE LoseBoard
      BY <2>8 DEF LoseBoard
    <2>9. CASE Tick
      BY <2>3, <2>9 DEF Tick
    <2> QED
      BY <2>4, <2>5, <2>6, <2>7, <2>8, <2>9 DEF Next, NoClaim
  <1> QED
    BY <1>1, TypeCorrect, LanesCoherent, PTL DEF Spec, HandoffsReachAddressees

\* No command gives a lane a file that another lane holds while BUSY: claim-files asks
\* them all, and every other command leaves a lane its files or takes them.
THEOREM BusyFilesDefended == Spec => BusyLanesDefendFiles
  <1>1. TypeOK /\ [Next]_vars => [\A m \in LaneIds : BusyLaneDefendsFiles(m)]_vars
    <2> SUFFICES ASSUME TypeOK, Next, NEW m \in LaneIds, OnBoard(m),
                        board.lanes[m].status = "BUSY", board' # NoBoard,
                        NEW l \in LaneIds \ {m}, board'.lanes[l] # NoLane
                 PROVE  board'.lanes[l].files_to_modify \cap board.lanes[m].files_to_modify
                          \subseteq LaneOrDefault(board, l).files_to_modify
      BY DEF BusyLaneDefendsFiles
    <2> DEFINE lane == LaneOrDefault(board, l)
               lane2 == board'.lanes[l]
    <2>1. Loaded = board /\ board \in Board /\ lane \in Lane
      BY OnBoardLoaded, LaneOrDefaultType
    <2>2. board.lanes[l] # NoLane => lane = board.lanes[l]
      BY DEF LaneOrDefault, HasLane
    <2> HIDE DEF lane
    <2>3. SUFFICES lane2.files_to_modify \cap board.lanes[m].files_to_modify
                     \subseteq lane.files_to_modify
      BY DEF lane
    <2>4. CASE lane2 = board.lanes[l]
      BY <2>2, <2>4
    <2>5. ASSUME NEW a \in Agents, NEW task \in Tasks, NEW k \in LaneIds, Acquire(a, task, k)
          PROVE  lane2.files_to_modify \subseteq lane.files_to_modify
      <3>1. CASE k # l
        BY <2>1, <2>2, <2>5, <3>1, WrittenLanes DEF Acquire, Acquired
      <3>2. CASE k = l
        <4>1. lane2.files_to_modify = Vacated(lane, a).files_to_modify
          <5>1. Vacated(lane, a) \in Lane
            BY <2>1, VacatedType
          <5> QED
            BY <2>1, <2>5, <3>2, <5>1 DEF Acquire, Acquired, Written, Board, Lane, lane
        <4> QED
          BY <2>1, <4>1 DEF Vacated, evict_zombie, Lane
      <3> QED
        BY <3>1, <3>2
    <2>6. ASSUME NEW a \in Agents, NEW k \in LaneIds, NEW next \in Agents \cup {None},
                 NEW message \in BOOLEAN, NEW contract \in Contracts \cup {None},
                 Release(a, k, next, message, contract)
          PROVE  lane2.files_to_modify \subseteq lane.files_to_modify
      <3>1. CASE k # l
        BY <2>1, <2>2, <2>6, <3>1, WrittenLanes DEF Release, Released
      <3>2. CASE k = l
        BY <2>1, <2>6, <3>2 DEF Release, Released, ReleaseOK, HasLane, Written, Board, Lane
      <3> QED
        BY <3>1, <3>2
    <2>7. ASSUME NEW k \in LaneIds, ForceRelease(k)
          PROVE  lane2.files_to_modify \subseteq lane.files_to_modify
      <3>1. CASE k # l
        BY <2>1, <2>2, <2>7, <3>1, WrittenLanes DEF ForceRelease, ForceReleased
      <3>2. CASE k = l
        BY <2>1, <2>7, <3>2 DEF ForceRelease, ForceReleased, HasLane, Written, Board, Lane
      <3> QED
        BY <3>1, <3>2
    <2>8. ASSUME NEW k \in LaneIds, NEW files \in SUBSET Files, ClaimFiles(k, files)
          PROVE  lane2.files_to_modify \cap board.lanes[m].files_to_modify
                   \subseteq lane.files_to_modify
      <3>1. CASE k # l
        BY <2>1, <2>2, <2>8, <3>1, WrittenLanes DEF ClaimFiles, Claimed
      <3>2. CASE k = l
        <4>1. lane2.files_to_modify = files
          BY <2>1, <2>8, <3>2 DEF ClaimFiles, Claimed, Written, Board, Lane, lane
        <4>2. files \cap board.lanes[m].files_to_modify = {}
          BY <2>1, <2>8, <3>2 DEF ClaimFiles, find_file_claim_conflicts, OnBoard
        <4> QED
          BY <4>1, <4>2
      <3> QED
        BY <3>1, <3>2
    <2>9. CASE Tick
      BY <2>4, <2>9 DEF Tick
    <2> QED
      BY <2>5, <2>6, <2>7, <2>8, <2>9 DEF Next, NoClaim, LoseBoard
  <1> QED
    BY <1>1, TypeCorrect, PTL DEF Spec, BusyLanesDefendFiles

-----------------------------------------------------------------------------
(***************************************************************************)
(* Zero overlap, when lanes are acquired before files are claimed.         *)
(***************************************************************************)
\* The strengthening of ZeroOverlap: only BUSY lanes have files, and no two lanes of
\* whatever status share one.
FilesOnlyWhileBusy(b) ==
  \A l \in LaneIds :
    HasLane(b, l) /\ b.lanes[l].status # "BUSY" => b.lanes[l].files_to_modify = {}

Disjoint(b) ==
  \A l, m \in LaneIds :
    l # m /\ HasLane(b, l) /\ HasLane(b, m) =>
      b.lanes[l].files_to_modify \cap b.lanes[m].files_to_modify = {}

Isolated(b) == FilesOnlyWhileBusy(b) /\ Disjoint(b)

IsolationInv == board # NoBoard => Isolated(board)

LEMMA LoadedIsolated ==
  ASSUME IsolationInv
  PROVE  Isolated(Loaded)
  <1>1. Isolated(default_board(now))
    BY DEF Isolated, FilesOnlyWhileBusy, Disjoint, HasLane, default_board, default_lane
  <1> QED
    BY <1>1 DEF IsolationInv, Loaded

\* A lane without files, or BUSY with no more files than before, keeps a board isolated.
LEMMA NarrowedIsolated ==
  ASSUME NEW b \in Board, Isolated(b), NEW k \in LaneIds, NEW lane \in Lane, NEW t \in Nat,
         \/ lane.files_to_modify = {}
         \/ /\ lane.status = "BUSY"
            /\ lane.files_to_modify = LaneOrDefault(b, k).files_to_modify
  PROVE  Isolated(Written(b, k, lane, t))
  <1>1. lane.files_to_modify = {} \/ (HasLane(b, k) /\ lane.files_to_modify = b.lanes[k].files_to_modify)
    BY DEF LaneOrDefault, default_lane
  <1>2. /\ Written(b, k, lane, t).lanes[k] = lane
        /\ \A l \in LaneIds \ {k} : Written(b, k, lane, t).lanes[l] = b.lanes[l]
    BY WrittenLanes
  <1>3. FilesOnlyWhileBusy(Written(b, k, lane, t))
    BY <1>2 DEF Isolated, FilesOnlyWhileBusy, HasLane
  <1>4. Disjoint(Written(b, k, lane, t))
    BY <1>1, <1>2 DEF Isolated, Disjoint, HasLane
  <1> QED
    BY <1>3, <1>4 DEF Isolated

LEMMA AcquiredIsolated ==
  ASSUME NEW b \in Board, Isolated(b), NEW a \in Agents, NEW task \in Tasks,
         NEW k \in LaneIds, NEW t \in Nat
  PROVE  Isolated(Acquired(b, a, task, k, t))
  <1> DEFINE before == LaneOrDefault(b, k)
             v == Vacated(before, a)
             lane == [v EXCEPT !.active_agent_id = a, !.current_task = task,
                               !.status = "BUSY", !.handoff_message = FALSE,
                               !.locked_at = t]
  <1>1. before \in Lane /\ v \in Lane
    BY LaneOrDefaultType, VacatedType
  <1>2. v.files_to_modify = {} \/ v.files_to_modify = before.files_to_modify
    BY <1>1 DEF Vacated, evict_zombie, Lane
  <1>3. /\ lane \in Lane
        /\ lane.status = "BUSY" /\ lane.files_to_modify = v.files_to_modify
    BY <1>1 DEF Lane, Status
  <1> QED
    BY <1>2, <1>3, NarrowedIsolated DEF Acquired

LEMMA ReleasedIsolated ==
  ASSUME NEW b \in Board, Isolated(b), NEW k \in LaneIds, HasLane(b, k),
         NEW next \in Agents \cup {None}, NEW message \in BOOLEAN,
         NEW contract \in Contracts \cup {None}, NEW t \in Nat
  PROVE  /\ Isolated(Released(b, k, next, message, contract, t))
         /\ Isolated(ForceReleased(b, k, t))
  <1>1. /\ Released(b, k, next, message, contract, t) \in Board
        /\ ForceReleased(b, k, t) \in Board
    BY ReleasedType, ForceReleasedType
  <1>2. /\ Released(b, k, next, message, contract, t).lanes[k].files_to_modify = {}
        /\ ForceReleased(b, k, t).lanes[k].files_to_modify = {}
    BY DEF Released, ForceReleased, Written, Board, HasLane, Lane
  <1>3. \A l \in LaneIds \ {k} :
          /\ Released(b, k, next, message, contract, t).lanes[l] = b.lanes[l]
          /\ ForceReleased(b, k, t).lanes[l] = b.lanes[l]
    BY DEF Released, ForceReleased, Written, Board
  <1> QED
    BY <1>2, <1>3 DEF Isolated, FilesOnlyWhileBusy, Disjoint, HasLane

LEMMA ClaimedIsolated ==
  ASSUME NEW b \in Board, Isolated(b), NEW k \in LaneIds, NEW files \in SUBSET Files,
         LaneOrDefault(b, k).status = "BUSY",
         find_file_claim_conflicts(b, k, files) = {}, NEW t \in Nat
  PROVE  Isolated(Claimed(b, k, files, t))
  <1> DEFINE lane == [LaneOrDefault(b, k) EXCEPT !.files_to_modify = files]
  <1>1. lane \in Lane /\ lane.status = "BUSY" /\ lane.files_to_modify = files
    BY LaneOrDefaultType DEF Lane
  <1>2. /\ Claimed(b, k, files, t).lanes[k] = lane
        /\ \A l \in LaneIds \ {k} : Claimed(b, k, files, t).lanes[l] = b.lanes[l]
    BY DEF Claimed, Written, Board
  <1>3. ASSUME NEW m \in LaneIds \ {k}, HasLane(b, m)
        PROVE  b.lanes[m].files_to_modify \cap files = {}
    <2>1. CASE b.lanes[m].status = "BUSY"
      BY <1>3, <2>1 DEF find_file_claim_conflicts
    <2>2. CASE b.lanes[m].status # "BUSY"
      BY <1>3, <2>2 DEF Isolated, FilesOnlyWhileBusy
    <2> QED
      BY <2>1, <2>2
  <1>4. FilesOnlyWhileBusy(Claimed(b, k, files, t))
    BY <1>1, <1>2 DEF Isolated, FilesOnlyWhileBusy, HasLane
  <1>5. Disjoint(Claimed(b, k, files, t))
    BY <1>1, <1>2, <1>3 DEF Isolated, Disjoint, HasLane
  <1> QED
    BY <1>4, <1>5 DEF Isolated

\* If lanes are acquired before their files are claimed, no two BUSY lanes ever hold
\* the same file, whatever is released, handed over, evicted, forced or lost between.
THEOREM ZeroOverlapUnderDiscipline == DisciplinedSpec => []ZeroOverlap
  <1>1. Init => TypeOK /\ IsolationInv
    BY BoardAssumption DEF Init, TypeOK, IsolationInv
  <1>2. TypeOK /\ IsolationInv /\ [DisciplinedNext]_vars => (TypeOK /\ IsolationInv)'
    <2> SUFFICES ASSUME TypeOK, IsolationInv, [DisciplinedNext]_vars
                 PROVE  (TypeOK /\ IsolationInv)'
      OBVIOUS
    <2>1. TypeOK'
      BY TypeStep DEF DisciplinedNext, Next, ClaimOnceBusy
    <2>2. Loaded \in Board /\ Isolated(Loaded) /\ now \in Nat
      BY LoadedType, LoadedIsolated, BoardAssumption DEF TypeOK
    <2>3. ASSUME Isolated(board') PROVE IsolationInv'
      BY <2>3 DEF IsolationInv, Isolated, FilesOnlyWhileBusy, Disjoint
    <2>4. ASSUME NEW a \in Agents, NEW task \in Tasks, NEW l \in LaneIds,
                 Acquire(a, task, l)
          PROVE  IsolationInv'
      BY <2>2, <2>3, <2>4, AcquiredIsolated DEF Acquire
    <2>5. ASSUME NEW a \in Agents, NEW l \in LaneIds, NEW next \in Agents \cup {None},
                 NEW message \in BOOLEAN, NEW contract \in Contracts \cup {None},
                 Release(a, l, next, message, contract)
          PROVE  IsolationInv'
      BY <2>2, <2>3, <2>5, ReleasedIsolated DEF Release, ReleaseOK
    <2>6. ASSUME NEW l \in LaneIds, ForceRelease(l)
          PROVE  IsolationInv'
      <3>1. Isolated(ForceReleased(Loaded, l, now))
        BY <2>2, <2>6, ReleasedIsolated DEF ForceRelease
      <3> QED
        BY <2>3, <2>6, <3>1 DEF ForceRelease
    <2>7. ASSUME NEW l \in LaneIds, NEW files \in SUBSET Files, ClaimOnceBusy(l, files)
          PROVE  IsolationInv'
      BY <2>2, <2>3, <2>7, ClaimedIsolated DEF ClaimOnceBusy, ClaimFiles
    <2>8. CASE LoseBoard
      BY <2>1, <2>8 DEF LoseBoard, IsolationInv
    <2>9. CASE Tick \/ UNCHANGED vars
      BY <2>1, <2>9 DEF Tick, vars, IsolationInv, Isolated, FilesOnlyWhileBusy, Disjoint, HasLane
    <2> QED
      BY <2>1, <2>4, <2>5, <2>6, <2>7, <2>8, <2>9 DEF DisciplinedNext, NoClaim
  <1>3. IsolationInv => ZeroOverlap
    BY DEF IsolationInv, Isolated, Disjoint, ZeroOverlap, OnBoard
  <1> QED
    BY <1>1, <1>2, <1>3, PTL DEF DisciplinedSpec

=============================================================================
