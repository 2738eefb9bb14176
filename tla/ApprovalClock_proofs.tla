-------------------------- MODULE ApprovalClock_proofs --------------------------
(***************************************************************************)
(* Proofs about the approval plane while the wall clock is not set back: the    *)
(* kill switch, the expiry notices and the visibility of what is pending.      *)
(***************************************************************************)
EXTENDS ApprovalPlane_proofs

-----------------------------------------------------------------------------
(* The order of dispatching *)

\* The inputs that were dispatched are, from the token on, the first ones, so no
\* input is ever dispatched after a later one.
Base == IF listener.since = Null THEN horizon ELSE listener.since

SeenOK ==
  /\ \A i \in listener.seen : \A j \in Nat : Base < j /\ j <= i => j \in listener.seen
  /\ listener.pc \notin {"sync", "sweep"} =>
       /\ Base <= listener.pos
       /\ \A j \in Nat : Base < j /\ j <= listener.pos => j \in listener.seen

LEMMA SeenStep ==
  ASSUME Shape, SeenOK, [PlaneNext]_planeVars
  PROVE  SeenOK'
<1>1. /\ Base \in Nat /\ horizon \in Nat
      /\ listener \in Listener
      /\ listener.pos \in Nat /\ listener.upto \in Nat
      /\ listener.seen \in SUBSET Nat
      /\ listener.since = Null \/ listener.since \in Nat
  <2>1. horizon \in Nat /\ (listener.since = Null \/ listener.since \in Nat)
    BY ListenerIs DEF Shape, RoomOK
  <2> QED
    BY <2>1, ListenerIs DEF Base, Listener
<1>2. ASSUME listener'.seen = listener.seen, Base' \in Nat, Base <= Base',
             \/ listener'.pc \in {"sync", "sweep"}
             \/ listener'.pos = Base'
             \/ /\ listener.pc \notin {"sync", "sweep"}
                /\ listener'.pos = listener.pos /\ Base' = Base
      PROVE  SeenOK'
  BY <1>1, <1>2 DEF SeenOK
<1>3. CASE UNCHANGED <<listener, horizon>>
  BY <1>1, <1>2, <1>3 DEF SeenOK, Base
<1>4. CASE Sync
  <2>1. /\ horizon' \in Nat /\ horizon <= horizon'
        /\ listener.since # Null => horizon' = horizon
    BY <1>1, <1>4, ListenerIs DEF Sync
  <2>2. /\ listener'.seen = listener.seen /\ listener'.since = listener.since
        /\ listener'.pos = IF listener.since = Null THEN horizon' ELSE listener.since
    BY <1>1, <1>4 DEF Sync, Listener
  <2>3. Base' \in Nat /\ Base <= Base' /\ listener'.pos = Base'
    BY <1>1, <2>1, <2>2 DEF Base
  <2> QED
    BY <1>2, <2>2, <2>3
<1>5. CASE EndBatch
  <2>1. /\ listener'.seen = listener.seen /\ listener'.since = listener.upto
        /\ listener'.pc \in {"sync", "sweep"}
        /\ listener.pc = "dispatch" /\ listener.pos = listener.upto
    BY <1>1, <1>5 DEF EndBatch, SweepOn, Listener
  <2>2. listener.upto # Null
    BY <1>1, StoreAssumption
  <2>3. Base' = listener.pos /\ Base <= listener.pos
    BY <1>1, <2>1, <2>2 DEF Base, SeenOK
  <2> QED
    BY <1>1, <1>2, <2>1, <2>3
<1>6. CASE Notice
  <2>1. /\ listener'.seen = listener.seen /\ listener'.since = listener.since
        /\ listener'.pc \in {"sync", "sweep"} /\ UNCHANGED horizon
    BY <1>1, <1>6 DEF Notice, SweepOn, Listener, ListenerFrame, inputVars
  <2> QED
    BY <1>1, <1>2, <2>1 DEF Base
<1>7. CASE BackToSync /\ UNCHANGED horizon
  BY <1>1, <1>2, <1>7, BackMoves DEF Base
<1>8. CASE Handle
  <2>1. UNCHANGED horizon
    BY <1>8, HandleFrames
  <2>2. CASE AlreadySeen
    <3>1. /\ listener'.seen = listener.seen /\ listener'.since = listener.since
          /\ listener'.pos = Position /\ Position \in listener.seen
          /\ listener.pc = "dispatch" /\ Position = listener.pos + 1
      BY <1>1, <2>2 DEF AlreadySeen, Listener, Position
    <3>2. Base' = Base
      BY <2>1, <3>1 DEF Base
    <3> QED
      BY <1>1, <3>1, <3>2 DEF SeenOK
  <2>3. CASE HandlerMoves
    <3>1. /\ listener'.seen = listener.seen \cup {Position}
          /\ listener'.since = listener.since
          /\ listener'.pos = Position
          /\ listener.pc = "dispatch" /\ Position = listener.pos + 1
      BY <2>3 DEF HandlerMoves
    <3>2. Base' = Base
      BY <2>1, <3>1 DEF Base
    <3>3. Base <= listener.pos /\ \A j \in Nat : Base < j /\ j <= listener.pos => j \in listener.seen
      BY <3>1 DEF SeenOK
    <3>4. \A j \in Nat : Base < j /\ j <= Position => j \in listener'.seen
      BY <1>1, <3>1, <3>3
    <3>5. \A i \in listener'.seen : \A j \in Nat : Base < j /\ j <= i => j \in listener'.seen
      BY <3>1, <3>4 DEF SeenOK
    <3> QED
      BY <1>1, <3>1, <3>2, <3>3, <3>4, <3>5 DEF SeenOK
  <2> QED
    BY <1>8, <2>2, <2>3, HandleMoves
<1>9. CASE Await
  BY <1>1, <1>2, <1>7, <1>9, AwaitMoves, AwaitFrames DEF Base
<1>10. CASE Restart
  BY <1>10, FreshListenerIs DEF SeenOK, Restart
<1>11. NoticeFails => BackToSync /\ UNCHANGED horizon
  BY LoopFrames DEF NoticeFails, ListenerFrame, inputVars
<1> QED
  BY <1>3, <1>4, <1>5, <1>6, <1>7, <1>8, <1>9, <1>10, <1>11, Steps, RequestFrames, CallFrames,
     RoomFrames, ClockFrames, StutterFrames

\* The input that is dispatched is later than all that were.
LEMMA SeenIsPast ==
  ASSUME Shape, SeenOK, Dispatching
  PROVE  \A i \in listener.seen : i < Position
<1> SUFFICES ASSUME NEW i \in listener.seen, Position <= i PROVE FALSE
  BY ListenerIs DEF Listener, Position
<1>1. Base \in Nat /\ Base <= listener.pos /\ listener.pos \in Nat /\ i \in Nat
  BY ListenerIs DEF SeenOK, Dispatching, Base, Shape, RoomOK, Listener
<1>2. Base < Position /\ Position \in Nat
  BY <1>1 DEF Position
<1>3. Position \in listener.seen
  BY <1>2 DEF SeenOK
<1> QED
  BY <1>3 DEF Dispatching

-----------------------------------------------------------------------------
(* A clock that is not set back *)

\* Only the clock's own step could set it back.
LEMMA NowStep ==
  ASSUME MayStepBack = FALSE, Shape, [PlaneNext]_planeVars
  PROVE  now \in Nat /\ now' \in Nat /\ now <= now'
<1>1. now \in Nat /\ now' \in Nat
  BY StepGrows, StoreAssumption DEF Shape, RowsGrow, IInv
<1>2. CASE UNCHANGED now
  BY <1>1, <1>2
<1>3. CASE now' \in Readings
  BY <1>1, <1>3 DEF Readings
<1>4. CASE Tick
  BY <1>1, <1>4 DEF Tick
<1>5. ASSUME NEW c \in Clients, CallStep(c)
      PROVE  UNCHANGED now \/ now' \in Readings
  BY <1>5 DEF CallStep, Posted, Recorded, PostFails, Reject, RecordPosted, storeVars
<1>6. CASE Handle
  <2>1. CASE DecideApprove
    BY <1>3, <2>1 DEF DecideApprove, Approve
  <2>2. CASE DecideReject \/ DecideRevoke
    BY <1>2, <1>3, <2>2
    DEF DecideReject, DecideRevoke, Reject, Revoke, RevokePending, RevokeActive
  <2>3. CASE AlreadySeen \/ Ignore \/ UndoRefused
    BY <1>2, <2>3 DEF AlreadySeen, Ignore, UndoRefused, storeVars
  <2>4. CASE Report \/ Refuse
    <3>1. UNCHANGED now
      BY <2>4, Zenon DEF Report, Refuse, storeVars
    <3> QED
      BY <1>2, <3>1
  <2>5. CASE RevokeMany \/ UndoFiled
    BY <1>2, <2>5 DEF RevokeMany, UndoFiled, CreateRequest
  <2> QED
    BY <1>6, <2>1, <2>2, <2>3, <2>4, <2>5 DEF Handle
<1>7. ASSUME NEW c \in Clients, NEW i \in Instances, NEW batch \in Batches,
             RequestAccess(c, i, batch)
      PROVE  UNCHANGED now
  BY <1>7 DEF RequestAccess, CreateRequest
<1>8. Clock => Tick
  BY DEF Clock
<1> QED
  BY <1>2, <1>3, <1>4, <1>5, <1>6, <1>7, <1>8, Steps, LoopFrames, AwaitFrames, RoomFrames,
     RestartFrames, StutterFrames
  DEF storeVars

\* What is live now and was granted before was live before.
LEMMA LiveBefore ==
  ASSUME Shape, RowsGrow, now \in Nat, now' \in Nat, now <= now', NEW r \in Ids,
         grants[r].expires # Null, Effective(grants'[r], now') = Active
  PROVE  /\ r \in ActiveGrants /\ grants'[r] = grants[r]
<1>1. /\ RowOK(grants[r]) /\ RowMove(grants[r], grants'[r], now)
      /\ grants[r] \in Row
  BY ClockOK DEF Shape, RowsGrow, RowsMove, RowOK
<1>2. grants'[r].state = Active /\ ~(now' >= grants'[r].expires)
  BY DEF Effective, Lapsed, Active, Expired
<1>3. grants[r].state # Pending
  BY <1>1 DEF RowOK, RowCoherent
<1>4. RevokedRow(grants[r]).state # Active
  BY <1>1 DEF RevokedRow, Row, Revoked, Active
<1>5. grants'[r] = grants[r]
  BY <1>1, <1>2, <1>3, <1>4 DEF RowMove
<1>6. grants[r].expires \in Nat /\ grants[r].state = Active
  BY <1>1, <1>2, <1>5 DEF Row
<1>7. Effective(grants[r], now) = Active
  BY <1>2, <1>5, <1>6 DEF Effective, Lapsed, TimedOut, Active, Pending
<1> QED
  BY <1>5, <1>7 DEF ActiveGrants

-----------------------------------------------------------------------------
(* The kill switch *)

\* "revoke all" from the approver is mass revocation, and nothing else.
LEMMA KillIsKill ==
  ASSUME Shape, Handle, Dispatching, FromApprover, Current.act = "revoke_all"
  PROVE  RevokeMany
<1>1. Position \in 1..Len(timeline)
  BY DispatchedIs
<1>2. InputOK(Current) /\ Current.via # "reaction"
  BY <1>1 DEF Shape, RoomOK, Current, InputOK
<1>3. ~Ignore
  BY <1>2 DEF Ignore, Ignored
<1>4. ~AlreadySeen
  BY DEF AlreadySeen, Dispatching
<1>5. ~Report /\ ~Refuse
  BY DEF Report, Refuse, Ordered
<1>6. ~DecideApprove /\ ~DecideReject /\ ~DecideRevoke /\ ~UndoRefused /\ ~UndoFiled
  BY DEF DecideApprove, DecideReject, DecideRevoke, Ordered, UndoRefused, UndoFiled
<1> QED
  BY <1>3, <1>4, <1>5, <1>6 DEF Handle

\* After it nothing is live.
LEMMA KillKills ==
  ASSUME Shape, RevokeMany, Current.act = "revoke_all"
  PROVE  ActiveGrants' = {}
<1>1. /\ now' = now
      /\ grants' = [r \in Ids |-> IF r \in ActiveGrants THEN RevokedRow(grants[r]) ELSE grants[r]]
  BY DEF RevokeMany
<1>2. ASSUME NEW r \in Ids
      PROVE  Effective(grants'[r], now') # Active
  <2>1. grants[r] \in Row
    BY ClockOK DEF Shape, RowOK
  <2>2. CASE r \in ActiveGrants
    <3>1. grants'[r].state = Revoked
      BY <1>1, <2>1, <2>2 DEF RevokedRow, Row
    <3> QED
      BY <3>1 DEF Effective, Revoked, Active, Expired
  <2>3. CASE r \notin ActiveGrants
    BY <1>1, <2>3 DEF ActiveGrants
  <2> QED
    BY <2>2, <2>3
<1>3. Ids' = Ids
  BY MassRevokeRows
<1> QED
  BY <1>2, <1>3 DEF ActiveGrants

\* Nothing that was approved before survives, and what is approved afterwards is
\* approved by a later input.
LEMMA KillStep ==
  ASSUME MayStepBack = FALSE, Shape, SeenOK, KillSwitchHolds, [PlaneNext]_planeVars
  PROVE  KillSwitchHolds'
<1>1. RowsGrow /\ RoomGrows /\ now \in Nat /\ now' \in Nat /\ now <= now'
  BY StepGrows, NowStep
<1>2. SUFFICES ASSUME NEW i \in listener'.seen, timeline'[i].sender = Approver,
                      timeline'[i].act = "revoke_all", NEW r \in ActiveGrants'
               PROVE  approvedBy'[r] >= i
  BY DEF KillSwitchHolds
<1>3. \/ i \in listener.seen
      \/ Handle /\ HandlerMoves /\ i = Position /\ i \notin listener.seen
  <2>1. CASE listener'.seen \subseteq listener.seen
    BY <2>1
  <2>2. CASE Handle
    BY <2>1, <2>2, HandleMoves, ListenerIs DEF AlreadySeen, Listener, HandlerMoves
  <2>3. NoticeFails => BackToSync
    BY DEF NoticeFails
  <2> QED
    BY <2>1, <2>2, <2>3, Steps, RequestFrames, CallFrames, RoomFrames, ClockFrames, StutterFrames,
       LoopMoves, AwaitMoves, BackMoves, FreshListenerIs
    DEF Restart
<1>4. CASE i \in listener.seen
  <2>1. i \in Nat /\ timeline[i].sender = Approver /\ timeline[i].act = "revoke_all"
    BY <1>1, <1>2, <1>4, ListenerIs DEF RoomGrows, Listener
  <2>2. Effective(grants'[r], now') = Active /\ r \in Ids'
    BY DEF ActiveGrants
  <2>3. grants'[r].expires # Null
    <3>1. grants'[r].state = Active
      BY <2>2 DEF Effective, Active, Expired
    <3>2. grants'[r].expires \in Nat
      BY <1>1, <2>2, <3>1 DEF RowsGrow, IInv, RowOK, RowCoherent
    <3> QED
      BY <3>2, StoreAssumption
  <2>4. CASE r \in Ids /\ grants[r].expires # Null /\ approvedBy'[r] = approvedBy[r]
    BY <1>1, <1>4, <2>1, <2>2, <2>4, LiveBefore DEF KillSwitchHolds
  <2>5. CASE DecideApprove
    <3>1. /\ Dispatching /\ Addressed \in Numbers /\ Position \in Nat
          /\ Ids' = Ids /\ \A s \in Ids : s # Addressed => grants'[s] = grants[s]
          /\ approvedBy' = [approvedBy EXCEPT ![Addressed] = Position]
      <4>1. Ordered({"approve"}) /\ approvedBy' = [approvedBy EXCEPT ![Addressed] = Position]
        BY <2>5 DEF DecideApprove
      <4>2. Dispatching /\ Addressed \in Numbers /\ Position \in Nat
        <5>1. Addressed \in Ids /\ Position \in 1..Len(timeline)
          BY <4>1, AddressedIs
        <5>2. Dispatching
          BY <4>1 DEF Ordered
        <5> QED
          BY <5>1, <5>2, NumbersAre, TimelineIs DEF Shape
      <4>3. Ids' = Ids /\ \A s \in Ids : s # Addressed => grants'[s] = grants[s]
        BY <2>5, ApproveRows
      <4> QED
        BY <4>1, <4>2, <4>3
    <3>2. CASE r = Addressed
      <4>1. approvedBy'[r] = Position
        BY <3>1, <3>2 DEF Shape, HistoryOK
      <4> QED
        BY <1>4, <2>1, <3>1, <4>1, SeenIsPast
    <3>3. CASE r # Addressed
      <4>1. r \in Numbers /\ approvedBy'[r] = approvedBy[r]
        BY <2>2, <3>1, <3>3, NumbersAre DEF Shape, HistoryOK
      <4> QED
        BY <2>2, <2>3, <2>4, <3>1, <3>3, <4>1
    <3> QED
      BY <3>2, <3>3
  <2>6. CASE ~DecideApprove
    <3>1. UNCHANGED approvedBy
      BY <2>6, Steps, RequestFrames, CallFrames, LoopFrames, HandleFrames, AwaitFrames,
         RoomFrames, RestartFrames, ClockFrames, StutterFrames
    <3> QED
      BY <2>2, <2>3, <2>4, <2>6, <3>1, StepGrows DEF NoneGranted
  <2> QED
    BY <2>5, <2>6
<1>5. CASE Handle /\ HandlerMoves /\ i = Position /\ i \notin listener.seen
  <2>1. Dispatching
    BY <1>5, ListenerIs DEF HandlerMoves, Dispatching
  <2>2. FromApprover /\ Current.act = "revoke_all"
    BY <1>2, <1>5, HandleFrames DEF FromApprover, Current
  <2> QED
    BY <1>2, <1>5, <2>1, <2>2, KillIsKill, KillKills
<1> QED
  BY <1>3, <1>4, <1>5

\* Once "revoke all" was dispatched, no grant approved by an earlier input is
\* live: it was revoked, or its time had run out and, with this clock, for good.
THEOREM KillSwitch ==
  ASSUME MayStepBack = FALSE
  PROVE  PlaneSpec => []KillSwitchHolds
<1>1. PlaneInit => SeenOK /\ KillSwitchHolds
  BY FreshListenerIs DEF PlaneInit, SeenOK, KillSwitchHolds
<1>2. Shape /\ SeenOK /\ KillSwitchHolds /\ [PlaneNext]_planeVars => SeenOK' /\ KillSwitchHolds'
  BY SeenStep, KillStep
<1> QED
  BY <1>1, <1>2, ShapeInductive, PTL DEF PlaneSpec

-----------------------------------------------------------------------------
(* The expiry notices *)

\* Who was announced, or will be, cannot be approved any more.
Silent(row) == row.expires = Null /\ (row.state = Pending => TimedOut(row, now))

SilenceOK ==
  \A r \in Ids : r \in listener.queue \/ notices[r] > 0 => Silent(grants[r])

LEMMA SilentStays ==
  ASSUME MayStepBack = FALSE, Shape, [PlaneNext]_planeVars, NEW r \in Ids, Silent(grants[r])
  PROVE  Silent(grants[r])'
<1>1. /\ RowsGrow /\ now \in Nat /\ now' \in Nat /\ now <= now'
      /\ RowMove(grants[r], grants'[r], now) /\ r \in Ids'
      /\ grants[r] \in Row
  BY StepGrows, NowStep, ClockOK DEF RowsGrow, RowsMove, Shape, RowOK
<1>2. ~Undecided(r)
  BY DEF Silent, Undecided, Effective, Pending, Expired
<1>3. grants'[r].expires = Null
  BY <1>1, <1>2 DEF RowsGrow, Silent
<1>4. ASSUME grants'[r].state = Pending
      PROVE  TimedOut(grants'[r], now')
  <2>1. RevokedRow(grants[r]).state # Pending
    BY <1>1 DEF RevokedRow, Row, Revoked, Pending
  <2>2. grants[r].state = Pending
    BY <1>1, <1>4, <2>1 DEF RowMove
  <2>3. TimedOut(grants[r], now) /\ grants'[r].created = grants[r].created
    BY <1>1, <2>2 DEF Silent, RowMove
  <2> QED
    BY <1>1, <1>4, <2>3, StoreAssumption DEF TimedOut, Row
<1> QED
  BY <1>3, <1>4 DEF Silent, TimedOut

LEMMA SilenceStep ==
  ASSUME MayStepBack = FALSE, Shape, SilenceOK, [PlaneNext]_planeVars
  PROVE  SilenceOK'
<1>1. SUFFICES ASSUME NEW r \in Ids', r \in listener'.queue \/ notices'[r] > 0
               PROVE  Silent(grants[r])'
  BY DEF SilenceOK, Silent, TimedOut
<1>2. RowsGrow /\ Ids' \subseteq Numbers /\ listener.queue \subseteq Ids
  BY StepGrows, NumbersThen, ListenerIs
<1>3. CASE r \in listener.queue \/ (r \in Ids /\ notices[r] > 0)
  BY <1>2, <1>3, SilentStays DEF SilenceOK
<1>4. CASE EndBatch /\ r \in ToSweep
  <2>1. r \in Ids /\ TimedOut(grants[r], now) /\ RowOK(grants[r])
    BY <1>4, ClockOK DEF ToSweep, Shape
  <2>2. Silent(grants[r])
    BY <2>1 DEF Silent, TimedOut, RowOK, RowCoherent
  <2> QED
    BY <2>1, <2>2, SilentStays
<1>5. r \in listener'.queue => r \in listener.queue \/ (EndBatch /\ r \in ToSweep)
  BY QueueStep
<1>6. ASSUME notices'[r] > 0
      PROVE  r \in listener.queue \/ notices[r] > 0
  <2>1. CASE UNCHANGED notices
    BY <1>6, <2>1
  <2>2. CASE Notice \/ NoticeFails
    <3>1. NextNotice \in listener.queue
      BY <2>2, NextNoticeIs DEF Notice, NoticeFails
    <3>2. UNCHANGED notices \/ notices' = [notices EXCEPT ![NextNotice] = @ + 1]
      BY <2>2 DEF Notice, NoticeFails
    <3>3. r # NextNotice => notices'[r] = notices[r]
      BY <1>2, <3>2 DEF Shape, SweepOK
    <3> QED
      BY <1>6, <3>1, <3>3
  <2>3. CASE Restart
    <3>1. notices'[r] = 0
      BY <1>2, <2>3 DEF Restart
    <3> QED
      BY <1>6, <3>1
  <2> QED
    BY <2>1, <2>2, <2>3, Steps, RequestFrames, CallFrames, LoopFrames, HandleFrames, AwaitFrames,
       RoomFrames, ClockFrames, StutterFrames
<1>7. notices[r] > 0 => r \in Ids
  BY <1>2 DEF Shape, SweepOK
<1> QED
  BY <1>1, <1>3, <1>4, <1>5, <1>6, <1>7

\* "Silence grants nothing" is true when it is said and stays true, and a process
\* says it once, but for the sends that fail.
THEOREM NoticesAreTrue ==
  ASSUME MayStepBack = FALSE
  PROVE  PlaneSpec => []NoticesHold
<1>1. PlaneInit => SilenceOK
  BY DEF PlaneInit, StoreInit, SilenceOK, Ids
<1>2. Shape /\ SilenceOK => NoticesHold
  <2> SUFFICES ASSUME Shape, SilenceOK, NEW r \in Ids, notices[r] > 0
               PROVE  grants[r].expires = Null /\ notices[r] <= 1 + failures
    BY DEF NoticesHold
  <2>1. /\ r \in Numbers /\ failures \in Nat /\ notices[r] \in Nat
        /\ notices[r] <= failures + 1
    BY NumbersAre DEF Shape, SweepOK
  <2> QED
    BY <2>1 DEF SilenceOK, Silent
<1> QED
  BY <1>1, <1>2, ShapeInductive, SilenceStep, PTL DEF PlaneSpec

-----------------------------------------------------------------------------
(* Nothing pending is invisible *)

\* A pending request that undo did not file has timed out, is being posted, or
\* is visible.
Visible(r) ==
  \/ TimedOut(grants[r], now)
  \/ \E c \in Clients : calls[c].pc \in {"sending", "marking"} /\ calls[c].rid = r
  \/ \E e \in EventIds : posted[e] = r

VisibleOK ==
  \A r \in Ids : grants[r].state = Pending /\ undoOf[r] = NoRequest => Visible(r)

\* Rows appear in two steps only.
LEMMA NewRow ==
  ASSUME Shape, [PlaneNext]_planeVars, NEW r \in Ids', r \notin Ids
  PROVE  \/ UndoFiled /\ r = Len(grants) + 1
         \/ \E c \in Clients, i \in Instances, batch \in Batches :
              RequestAccess(c, i, batch) /\ r = Len(grants) + 1
<1>1. UNCHANGED grants => r \in Ids
  BY DEF Ids
<1>2. ASSUME NEW c \in Clients, NEW i \in Instances, NEW batch \in Batches,
             RequestAccess(c, i, batch)
      PROVE  r = Len(grants) + 1
  BY <1>2, RequestRows
<1>3. ASSUME NEW c \in Clients, CallStep(c)
      PROVE  FALSE
  <2>1. CASE Posted(c) \/ Recorded(c)
    BY <1>1, <2>1 DEF Posted, Recorded, RecordPosted, storeVars
  <2>2. CASE PostFails(c)
    BY <2>2, PostFailsRows
  <2> QED
    BY <1>3, <2>1, <2>2 DEF CallStep
<1>4. CASE Handle /\ ~UndoFiled
  <2>1. CASE AlreadySeen \/ Ignore \/ UndoRefused
    BY <1>1, <2>1 DEF AlreadySeen, Ignore, UndoRefused, storeVars
  <2>2. CASE Report \/ Refuse
    <3>1. UNCHANGED grants
      BY <2>2, Zenon DEF Report, Refuse, storeVars
    <3> QED
      BY <1>1, <3>1
  <2> QED
    BY <1>4, <2>1, <2>2, ApproveRows, RejectRows, RevokeRows, MassRevokeRows DEF Handle
<1>5. CASE UndoFiled
  BY <1>5, UndoRows
<1>6. CASE Restart
  BY <1>6, ReopenedRows DEF Restart
<1> QED
  BY <1>1, <1>2, <1>3, <1>4, <1>5, <1>6, Steps, LoopFrames, AwaitFrames, RoomFrames,
     ClockFrames, StutterFrames
  DEF storeVars

\* A mapped message stays mapped.
LEMMA MappedStays ==
  ASSUME Shape, [PlaneNext]_planeVars, NEW e \in EventIds, posted[e] # NoRequest
  PROVE  posted'[e] = posted[e]
<1>1. ASSUME NEW f \in EventIds \cup {Null}, NEW r, RecordPosted(f, r)
      PROVE  posted'[e] = posted[e]
  BY <1>1 DEF RecordPosted, Shape, IInv
<1>2. ASSUME NEW c \in Clients, Recorded(c)
      PROVE  posted'[e] = posted[e]
  <2>1. RecordPosted(calls[c].event, calls[c].rid) /\ calls[c].event \in EventIds
    BY <1>2 DEF Recorded, Shape, CallsOK
  <2> QED
    BY <1>1, <2>1
<1>3. CASE UndoRecorded
  <2>1. RecordPosted(listener.event, listener.rid) /\ listener.event \in EventIds
    BY <1>3 DEF UndoRecorded, Shape, ListenerOK
  <2> QED
    BY <1>1, <2>1
<1> QED
  BY <1>2, <1>3, Steps, RequestFrames, CallFrames, LoopFrames, HandleFrames, AwaitFrames,
     RoomFrames, RestartFrames, ClockFrames, StutterFrames
  DEF storeVars

\* A call goes on posting its request until the message is mapped, the request
\* is rolled back, or there is nothing left to roll back.
LEMMA PostingStays ==
  ASSUME Shape, [PlaneNext]_planeVars, NEW c \in Clients, calls[c].pc \in {"sending", "marking"}
  PROVE  \/ calls'[c].pc \in {"sending", "marking"} /\ calls'[c].rid = calls[c].rid
         \/ \E e \in EventIds : posted'[e] = calls[c].rid
         \/ grants'[calls[c].rid].state # Pending
         \/ ~Undecided(calls[c].rid)
<1>1. /\ calls \in [Clients -> [pc : CallState, rid : Nat, event : EventIds \cup {Null}]]
      /\ calls[c].rid \in Ids
      /\ calls[c].pc = "marking" => calls[c].event \in EventIds
  BY DEF Shape, CallsOK
<1>2. ASSUME NEW d \in Clients, NEW i \in Instances, NEW batch \in Batches,
             RequestAccess(d, i, batch)
      PROVE  calls'[c] = calls[c]
  BY <1>1, <1>2 DEF RequestAccess
<1>3. ASSUME NEW d \in Clients, d # c, CallStep(d)
      PROVE  calls'[c] = calls[c]
  BY <1>1, <1>3 DEF CallStep, Posted, Recorded, PostFails
<1>4. CASE Posted(c)
  BY <1>1, <1>4 DEF Posted
<1>5. CASE Recorded(c)
  <2>1. posted' = [posted EXCEPT ![calls[c].event] = calls[c].rid] /\ calls[c].event \in EventIds
    BY <1>1, <1>5 DEF Recorded, RecordPosted
  <2>2. posted'[calls[c].event] = calls[c].rid
    BY <2>1 DEF Shape, IInv
  <2> QED
    BY <2>1, <2>2
<1>6. CASE PostFails(c)
  <2>1. Reject(calls[c].rid) => grants'[calls[c].rid].state # Pending
    BY <1>1, RejectedRows DEF Rejected, Pending
  <2> QED
    BY <1>6, <2>1 DEF PostFails
<1>7. CASE Restart
  <2>1. grants'[calls[c].rid].state # Pending
    BY <1>1, <1>7, ReopenedRows DEF Restart
  <2> QED
    BY <2>1
<1> QED
  BY <1>2, <1>3, <1>4, <1>5, <1>6, <1>7, Steps, LoopFrames, HandleFrames, AwaitFrames,
     RoomFrames, ClockFrames, StutterFrames
  DEF CallStep

LEMMA VisibleStep ==
  ASSUME MayStepBack = FALSE, Shape, VisibleOK, [PlaneNext]_planeVars
  PROVE  VisibleOK'
<1>1. /\ RowsGrow /\ Ids' \subseteq Numbers
      /\ now \in Nat /\ now' \in Nat /\ now <= now'
  BY StepGrows, NowStep, NumbersThen
<1>2. SUFFICES ASSUME NEW r \in Ids', grants'[r].state = Pending, undoOf'[r] = NoRequest
               PROVE  Visible(r)'
  BY DEF VisibleOK, Visible, TimedOut
<1>3. CASE r \notin Ids
  <2>1. CASE UndoFiled /\ r = Len(grants) + 1
    <3>1. undoOf' = [undoOf EXCEPT ![r] = Current.target] /\ Current.target \in Ids
      BY <2>1, UndoRows DEF UndoFiled
    <3>2. undoOf'[r] = Current.target /\ Current.target # NoRequest
      BY <1>1, <3>1, IdsAre DEF Shape, HistoryOK
    <3> QED
      BY <1>2, <3>2
  <2>2. ASSUME NEW c \in Clients, NEW i \in Instances, NEW batch \in Batches,
               RequestAccess(c, i, batch), r = Len(grants) + 1
        PROVE  Visible(r)'
    <3>1. calls'[c].pc = "sending" /\ calls'[c].rid = r
      BY <2>2 DEF RequestAccess, Shape, CallsOK
    <3> QED
      BY <3>1 DEF Visible
  <2> QED
    BY <1>3, <2>1, <2>2, NewRow
<1>4. CASE r \in Ids
  <2>1. /\ grants[r] \in Row /\ grants'[r].created = grants[r].created
        /\ grants[r].state = Pending
        /\ r # NoRequest
    <3>1. RowMove(grants[r], grants'[r], now) /\ grants[r] \in Row /\ r # NoRequest
      BY <1>1, <1>4, ClockOK, IdsAre DEF RowsGrow, RowsMove, Shape, RowOK
    <3>2. RevokedRow(grants[r]).state # Pending
      BY <3>1 DEF RevokedRow, Row, Revoked, Pending
    <3> QED
      BY <1>2, <3>1, <3>2 DEF RowMove
  <2>2. TimedOut(grants[r], now) => TimedOut(grants'[r], now')
    BY <1>1, <1>2, <2>1, StoreAssumption DEF TimedOut, Row
  <2>3. undoOf[r] = NoRequest
    <3>1. CASE UndoFiled
      BY <1>2, <1>4, <3>1, UndoRows DEF UndoFiled, Shape, HistoryOK
    <3>2. CASE ~UndoFiled
      BY <1>2, <3>2, Steps, RequestFrames, CallFrames, LoopFrames, HandleFrames, AwaitFrames,
         RoomFrames, RestartFrames, ClockFrames, StutterFrames
    <3> QED
      BY <3>1, <3>2
  <2>4. Undecided(r) \/ TimedOut(grants[r], now)
    BY <1>4, <2>1 DEF Undecided, Effective, Lapsed, Pending, Active
  <2>5. CASE TimedOut(grants[r], now)
    BY <2>2, <2>5 DEF Visible
  <2>6. ASSUME NEW c \in Clients, calls[c].pc \in {"sending", "marking"}, calls[c].rid = r
        PROVE  Visible(r)'
    BY <1>2, <2>4, <2>5, <2>6, PostingStays DEF Visible
  <2>7. ASSUME NEW e \in EventIds, posted[e] = r
        PROVE  Visible(r)'
    BY <2>1, <2>7, MappedStays DEF Visible
  <2> QED
    BY <1>4, <2>1, <2>3, <2>5, <2>6, <2>7 DEF VisibleOK, Visible
<1> QED
  BY <1>3, <1>4

\* Once nobody is posting it any more, a request of the agent that can still be
\* approved is carried by a message that is mapped to it.
PendingIsVisible ==
  \A r \in Ids :
    Undecided(r) /\ ~InFlight(r) /\ undoOf[r] = NoRequest =>
      \E e \in EventIds : posted[e] = r /\ carried[e] = r

LEMMA VisiblePending ==
  ASSUME Shape, VisibleOK
  PROVE  PendingIsVisible
<1> SUFFICES ASSUME NEW r \in Ids, Undecided(r), ~InFlight(r), undoOf[r] = NoRequest
             PROVE  \E e \in EventIds : posted[e] = r /\ carried[e] = r
  BY DEF PendingIsVisible
<1>1. grants[r].state = Pending /\ ~TimedOut(grants[r], now)
  BY DEF Undecided, Effective, Pending, Expired
<1>2. PICK e \in EventIds : posted[e] = r
  BY <1>1 DEF VisibleOK, Visible, InFlight
<1> QED
  BY <1>2, IdsAre DEF Shape, RoomOK

THEOREM NothingPendingIsLost ==
  ASSUME MayStepBack = FALSE
  PROVE  PlaneSpec => []PendingIsVisible
<1>1. PlaneInit => VisibleOK
  BY DEF PlaneInit, StoreInit, VisibleOK, Ids
<1> QED
  BY <1>1, ShapeInductive, VisibleStep, VisiblePending, PTL DEF PlaneSpec

\* Without undo in the room nothing is re-filed.
NothingUndone == \A r \in Numbers : undoOf[r] = NoRequest

LEMMA NothingUndoneStep ==
  ASSUME \A via \in {"reaction", "reply"} : <<via, "undo">> \notin Vocabulary,
         Shape, NothingUndone, [PlaneNext]_planeVars
  PROVE  NothingUndone'
<1>1. ~UndoFiled
  <2> SUFFICES ASSUME UndoFiled PROVE FALSE
    OBVIOUS
  <2>1. Position \in 1..Len(timeline) /\ Current.act = "undo"
    BY DispatchedIs DEF UndoFiled
  <2>2. Current \in Input /\ <<Current.via, Current.act>> \in Vocabulary
    BY <2>1, TimelineIs DEF Current, Shape, RoomOK, InputOK
  <2> QED
    BY <2>1, <2>2 DEF Input
<1>2. UNCHANGED undoOf
  BY <1>1, Steps, RequestFrames, CallFrames, LoopFrames, HandleFrames, AwaitFrames,
     RoomFrames, RestartFrames, ClockFrames, StutterFrames
<1> QED
  BY <1>2 DEF NothingUndone

\* The plane keeps its shape, and while undo is not used no pending request at
\* all is invisible: a request undo files is not rolled back when posting it
\* fails.
THEOREM NothingInvisible ==
  ASSUME MayStepBack = FALSE,
         \A via \in {"reaction", "reply"} : <<via, "undo">> \notin Vocabulary
  PROVE  PlaneSpec => []NoInvisiblePending
<1>1. PlaneInit => NothingUndone
  BY DEF PlaneInit, NothingUndone
<1>2. Shape /\ PlaneTypeOK /\ NothingUndone /\ PendingIsVisible => NoInvisiblePending
  BY NumbersAre DEF NoInvisiblePending, PendingIsVisible, NothingUndone
<1> QED
  BY <1>1, <1>2, ShapeInductive, NothingUndoneStep, NothingPendingIsLost, PlaneTypes, PTL
  DEF PlaneSpec
=============================================================================
