-------------------------- MODULE ApprovalPlane_proofs --------------------------
(***************************************************************************)
(* Proofs about the approval plane, for any number of calls, people in the     *)
(* room, inputs, failing sends and restarts, and any clock.                    *)
(***************************************************************************)
EXTENDS ApprovalProperties, GrantStore_proofs

-----------------------------------------------------------------------------
(* The shape of the plane *)

\* Reactions are about messages and undo is about numbers; a message whose event
\* is mapped to a request is about that request.
InputOK(input) ==
  /\ <<input.via, input.act>> \in Vocabulary
  /\ input.via = "reaction" =>
       /\ input.target \in EventIds
       /\ input.act \in {"approve", "reject", "revoke", "status"}
  /\ input.act = "undo" => input.target \in Numbers

RoomOK ==
  /\ timeline \in Seq(Input)
  /\ \A i \in 1..Len(timeline) : InputOK(timeline[i])
  /\ horizon \in 0..Len(timeline)
  /\ carried \in [EventIds -> Nat]
  /\ \A e \in EventIds : posted[e] # NoRequest => carried[e] = posted[e]

\* A coroutine that posts request r holds the event of the message about it.
CallsOK ==
  /\ calls \in [Clients -> [pc : CallState, rid : Nat, event : EventIds \cup {Null}]]
  /\ \A c \in Clients :
       /\ calls[c].pc # "idle" => calls[c].rid \in Ids
       /\ calls[c].pc = "marking" => /\ calls[c].event \in EventIds
                                     /\ carried[calls[c].event] = calls[c].rid

Kind == {"none", "approved", "rejected", "revoked", "status", "unknown", "refused",
         "summary", "closed"}

Listener ==
  [pc : ListenerState, since : Nat \cup {Null}, pos : Nat, upto : Nat,
   seen : SUBSET Nat, saying : [kind : Kind, rid : Nat], queue : SUBSET Nat,
   rid : Nat, event : EventIds \cup {Null}]

ListenerOK ==
  /\ listener \in Listener
  /\ listener.pos <= listener.upto /\ listener.upto <= Len(timeline)
  /\ listener.since = Null \/ listener.since <= Len(timeline)
  /\ listener.seen \subseteq 1..Len(timeline)
  /\ listener.queue \subseteq Ids
  /\ listener.pc = "sweep" <=> listener.queue # {}
  /\ listener.pc \in {"undo_sending", "undo_marking"} => listener.rid \in Ids
  /\ listener.pc = "undo_marking" => /\ listener.event \in EventIds
                                     /\ carried[listener.event] = listener.rid

\* An undo window is open on a number that is dead and that nobody re-filed, and
\* remembers its instance and its items.
WindowOK(r) ==
  windows[r] # NoWindow =>
    /\ r \in Ids
    /\ grants[r].state \in {Rejected, Revoked}
    /\ windows[r].instance = grants[r].instance
    /\ windows[r].items = grants[r].items
    /\ grants[r].state = Rejected => windows[r].deadline = grants[r].decided + UndoGrace
    /\ \A s \in Ids : undoOf[s] # r

WindowsOK ==
  /\ windows = [r \in Numbers |-> windows[r]]
  /\ \A r \in Numbers : WindowOK(r)

HistoryOK ==
  /\ approvedBy = [r \in Numbers |-> approvedBy[r]]
  /\ undoOf \in [Numbers -> Nat]
  /\ \A r \in Numbers :
       undoOf[r] # NoRequest =>
         r \in Ids /\ undoOf[r] \in Ids /\ grants[undoOf[r]].state \in {Rejected, Revoked}

SweepOK ==
  /\ failures \in Nat /\ failures <= MaxFailures
  /\ swept \subseteq Ids
  /\ listener.queue \cap swept = {}
  /\ notices \in [Numbers -> Nat]
  /\ \A r \in Numbers : /\ notices[r] > 0 => r \in Ids
                        /\ notices[r] <= failures + 1
                        /\ r \notin swept => notices[r] <= failures

Shape ==
  /\ IInv
  /\ Len(grants) <= MaxRequests
  /\ RoomOK
  /\ CallsOK
  /\ ListenerOK
  /\ WindowsOK
  /\ HistoryOK
  /\ SweepOK

\* What the room is told about a number, and what the store then says.
Outcome(kind) ==
  CASE kind = "approved" -> {"approval", "revocation"}
    [] kind = "rejected" -> {"rejection"}
    [] kind = "revoked"  -> {"revocation", "pending_revoke"}

True(verdict) == verdict.rid \in Ids /\ grants[verdict.rid].source \in Outcome(verdict.kind)

\* What was said is true, and so is what is about to be said.
VerdictsOK ==
  /\ said \subseteq Verdict
  /\ \A v \in said : True(v)
  /\ listener.saying \in Verdict => True(listener.saying)

-----------------------------------------------------------------------------
(* What every step leaves behind *)

\* A number is approved in a step: the input that orders it names it.
Orders(i, r) ==
  /\ i \in 1..Len(timeline)
  /\ timeline[i].sender = Approver
  /\ timeline[i].act = "approve"
  /\ IF timeline[i].via = "reaction" THEN carried[timeline[i].target] = r
                                     ELSE timeline[i].target = r

\* Rows only move, and only a request that is still undecided is ever granted.
RowsGrow ==
  /\ IInv' /\ RowsMove /\ Len(grants') <= MaxRequests
  /\ \A r \in Ids' : grants'[r].expires # Null =>
       r \in Ids /\ (grants[r].expires # Null \/ Undecided(r))

NoneGranted ==
  \A r \in Ids' : grants'[r].expires # Null => r \in Ids /\ grants[r].expires # Null

\* Messages and inputs only accumulate.
RoomGrows ==
  /\ carried' \in [EventIds -> Nat]
  /\ \A e \in EventIds : carried[e] # NoRequest => carried'[e] = carried[e]
  /\ timeline' \in Seq(Input) /\ Len(timeline) <= Len(timeline')
  /\ \A i \in 1..Len(timeline) : timeline'[i] = timeline[i]
  /\ \A i \in 1..Len(timeline') : InputOK(timeline'[i])

LEMMA IdsAre ==
  ASSUME IInv
  PROVE  Ids = 1..Len(grants) /\ Len(grants) \in Nat /\ \A r \in Ids : r \in Nat /\ r # NoRequest
BY DEF IInv, Ids, NoRequest

LEMMA NumbersAre ==
  ASSUME Shape
  PROVE  Ids \subseteq Numbers /\ MaxRequests \in Nat
BY IdsAre, StoreAssumption DEF Shape, Numbers

LEMMA TimelineIs ==
  ASSUME RoomOK
  PROVE  /\ DOMAIN timeline = 1..Len(timeline) /\ Len(timeline) \in Nat
         /\ \A i \in 1..Len(timeline) : timeline[i] \in Input
BY DEF RoomOK

\* A step that leaves the expiries there are alone, and grants nothing.
LEMMA NothingGranted ==
  ASSUME IInv, IInv', RowsMove, Len(grants') <= MaxRequests,
         \A r \in Ids' : IF r \in Ids THEN grants'[r].expires = grants[r].expires
                                      ELSE grants'[r].expires = Null
  PROVE  RowsGrow /\ NoneGranted
BY DEF RowsGrow, NoneGranted

\* A step that does not touch the table.
LEMMA SameRows ==
  ASSUME Shape, UNCHANGED grants, now' \in Times, posted' \in [EventIds -> Nat]
  PROVE  RowsGrow /\ NoneGranted
<1>1. IInv' /\ RowsMove
  BY SameTable DEF Shape
<1>2. Ids' = Ids /\ Len(grants') <= MaxRequests
  BY DEF Shape, Ids
<1>3. \A r \in Ids' : r \in Ids /\ grants'[r].expires = grants[r].expires
  BY <1>2
<1> QED
  BY <1>1, <1>2, <1>3, NothingGranted DEF Shape

LEMMA SameStore ==
  ASSUME Shape, UNCHANGED storeVars
  PROVE  RowsGrow /\ NoneGranted
BY SameRows DEF Shape, IInv, storeVars

\* A new request grants nothing.
LEMMA FiledRows ==
  ASSUME Shape, NEW i \in Instances, NEW batch \in Seq(Items) \ {<<>>},
         CreateRequest(i, batch)
  PROVE  RowsGrow /\ NoneGranted /\ Ids' = Ids \cup {Len(grants) + 1} /\ Len(grants) + 1 \notin Ids
<1>1. /\ IInv /\ IInv' /\ RowsMove
      /\ Ids = 1..Len(grants) /\ Ids' = 1..(Len(grants) + 1) /\ Len(grants) \in Nat
      /\ \A r \in Ids : grants'[r] = grants[r]
      /\ grants'[Len(grants) + 1] = FreshRow(i, batch, now)
  BY CreateStep DEF Shape
<1>2. Len(grants') = Len(grants) + 1 /\ Len(grants) < MaxRequests
  BY <1>1 DEF CreateRequest, IInv
<1>3. FreshRow(i, batch, now).expires = Null
  BY DEF FreshRow
<1>4. \A r \in Ids' : IF r \in Ids THEN grants'[r].expires = grants[r].expires
                                   ELSE grants'[r].expires = Null
  BY <1>1, <1>3
<1>5. Len(grants') <= MaxRequests
  BY <1>1, <1>2, StoreAssumption
<1> QED
  BY <1>1, <1>4, <1>5, NothingGranted

\* The calls that decide one number.
LEMMA ClosedRows ==
  ASSUME Shape, NEW r \in Ids, NEW source \in {"rejection", "pending_revoke"},
         NEW t \in Readings, Undecided(r), now' = t, posted' = posted,
         grants' = [grants EXCEPT ![r] = ClosedRow(grants[r], source, t)]
  PROVE  /\ RowsGrow /\ NoneGranted /\ Ids' = Ids
         /\ grants'[r].source = source /\ grants'[r].state = Rejected
         /\ grants'[r].decided = now'
         /\ \A s \in Ids : s # r => grants'[s] = grants[s]
<1>1. /\ IInv /\ IInv' /\ RowsMove /\ Ids' = Ids
      /\ grants'[r] = ClosedRow(grants[r], source, t)
      /\ \A s \in Ids : s # r => grants'[s] = grants[s]
  BY CloseStep DEF Shape
<1>2. grants[r] \in Row
  BY <1>1, ClockOK DEF RowOK
<1>3. /\ grants'[r].expires = grants[r].expires /\ grants'[r].source = source
      /\ grants'[r].state = Rejected /\ grants'[r].decided = now'
  <2>1. LET new == ClosedRow(grants[r], source, t) IN
          /\ new.expires = grants[r].expires /\ new.source = source
          /\ new.state = Rejected /\ new.decided = t
    BY <1>2 DEF ClosedRow, Row
  <2> QED
    BY <1>1, <2>1
<1>4. Len(grants') = Len(grants)
  BY <1>1, IdsAre DEF IInv, Ids
<1> QED
  BY <1>1, <1>3, <1>4, NothingGranted DEF Shape

LEMMA RejectedRows ==
  ASSUME Shape, NEW r \in Ids, Reject(r)
  PROVE  /\ RowsGrow /\ NoneGranted /\ Ids' = Ids /\ grants'[r].source = "rejection"
         /\ grants'[r].state = Rejected /\ grants'[r].decided = now'
         /\ \A s \in Ids : s # r => grants'[s] = grants[s]
BY ClosedRows DEF Reject

LEMMA RevokedRows ==
  ASSUME Shape, NEW r \in Ids, Revoke(r)
  PROVE  /\ RowsGrow /\ NoneGranted /\ Ids' = Ids
         /\ grants'[r].source \in {"revocation", "pending_revoke"}
         /\ grants'[r].state \in {Rejected, Revoked}
         /\ grants'[r].state = Rejected => grants'[r].decided = now'
         /\ \A s \in Ids : s # r => grants'[s] = grants[s]
<1>1. CASE RevokePending(r)
  BY <1>1, ClosedRows DEF RevokePending
<1>2. CASE RevokeActive(r)
  <2>1. /\ IInv /\ IInv' /\ RowsMove /\ Ids' = Ids
        /\ grants'[r] = RevokedRow(grants[r])
        /\ \A s \in Ids : s # r => grants'[s] = grants[s]
    BY <1>2, RevokeActiveStep DEF Shape
  <2>2. grants[r] \in Row
    BY <2>1, ClockOK DEF RowOK
  <2>3. /\ grants'[r].expires = grants[r].expires /\ grants'[r].source = "revocation"
        /\ grants'[r].state = Revoked
    BY <2>1, <2>2 DEF RevokedRow, Row
  <2>4. Len(grants') = Len(grants)
    BY <2>1, IdsAre DEF IInv, Ids
  <2> QED
    BY <2>1, <2>3, <2>4, NothingGranted DEF Shape, Revoked, Rejected
<1> QED
  BY <1>1, <1>2 DEF Revoke

LEMMA ApprovedRows ==
  ASSUME Shape, NEW r \in Ids, NEW duration \in Durations,
         NEW sel \in Selections \cup {Everything(grants[r].items)},
         sel # <<>>, Approve(r, sel, duration)
  PROVE  /\ RowsGrow /\ Ids' = Ids /\ grants'[r].source = "approval"
         /\ \A s \in Ids : s # r => grants'[s] = grants[s]
<1>1. /\ IInv /\ IInv' /\ RowsMove /\ Ids' = Ids /\ grants'[r].source = "approval"
      /\ \A s \in Ids : s # r => grants'[s] = grants[s]
  BY ApproveStep DEF Shape
<1>2. Undecided(r)
  BY DEF Approve
<1>3. Len(grants') = Len(grants)
  BY <1>1, IdsAre DEF IInv, Ids
<1> QED
  BY <1>1, <1>2, <1>3 DEF RowsGrow, Shape

\* The calls that rewrite the whole table.
LEMMA MassRevokedRows ==
  ASSUME Shape, NEW scope \in SUBSET ActiveGrants, now' = now, posted' = posted,
         grants' = [r \in Ids |-> IF r \in scope THEN RevokedRow(grants[r]) ELSE grants[r]]
  PROVE  RowsGrow /\ NoneGranted /\ Ids' = Ids
<1> DEFINE new == [r \in Ids |-> IF r \in scope THEN RevokedRow(grants[r]) ELSE grants[r]]
<1>1. ASSUME NEW r \in Ids
      PROVE  /\ RowOK(new[r]) /\ RowMove(grants[r], new[r], now)
             /\ new[r].expires = grants[r].expires
  <2>1. RowOK(grants[r]) /\ grants[r] \in Row
    BY ClockOK DEF Shape, RowOK
  <2>2. CASE r \in scope
    <3>1. Effective(grants[r], now) = Active /\ new[r] = RevokedRow(grants[r])
      BY <2>2 DEF ActiveGrants
    <3>2. RevokedRow(grants[r]).expires = grants[r].expires
      BY <2>1 DEF RevokedRow, Row
    <3> HIDE DEF new
    <3> QED
      BY <2>1, <3>1, <3>2, RevokedRowOK
  <2>3. CASE r \notin scope
    BY <2>1, <2>3, SameRowMove
  <2> QED
    BY <2>2, <2>3
<1>2. new = [r \in Ids |-> new[r]]
  OBVIOUS
<1>3. IInv /\ grants' = new
  BY DEF Shape
<1> HIDE DEF new
<1>4. IInv' /\ RowsMove /\ Ids' = Ids
  BY <1>1, <1>2, <1>3, RewrittenTable
<1>5. Len(grants') = Len(grants)
  BY <1>3, <1>4, IdsAre DEF IInv, Ids
<1> QED
  BY <1>1, <1>3, <1>4, <1>5, NothingGranted DEF Shape

LEMMA ReopenedRows ==
  ASSUME Shape, Reopen
  PROVE  /\ RowsGrow /\ NoneGranted /\ Ids' = Ids
         /\ \A r \in Ids' : grants'[r].state # Pending
<1>1. /\ IInv /\ IInv' /\ RowsMove /\ Ids' = Ids
      /\ \A r \in Ids : grants'[r] = DiscardedRow(grants[r])
  BY ReopenStep DEF Shape
<1>2. ASSUME NEW r \in Ids
      PROVE  grants'[r].expires = grants[r].expires /\ grants'[r].state # Pending
  <2>1. grants[r] \in Row
    BY <1>1, ClockOK DEF RowOK
  <2> QED
    BY <1>1, <2>1 DEF DiscardedRow, Row, Pending, Rejected
<1>3. Len(grants') = Len(grants)
  BY <1>1, IdsAre DEF IInv, Ids
<1> QED
  BY <1>1, <1>2, <1>3, NothingGranted DEF Shape

\* The event of a new message is new, and nothing else is about anything else.
LEMMA PostedRoom ==
  ASSUME Shape, NEW r \in Ids, Post(r)
  PROVE  /\ FreshEvent \in EventIds /\ carried[FreshEvent] = NoRequest
         /\ carried' = [carried EXCEPT ![FreshEvent] = r]
         /\ carried' \in [EventIds -> Nat] /\ carried'[FreshEvent] = r
         /\ \A e \in EventIds : carried[e] # NoRequest => carried'[e] = carried[e]
<1>1. carried \in [EventIds -> Nat] /\ r \in Nat
  BY IdsAre DEF Shape, RoomOK
<1>2. FreshEvent \in EventIds /\ carried[FreshEvent] = NoRequest
  BY DEF Post, FreshEvent, Unused
<1>3. carried' = [carried EXCEPT ![FreshEvent] = r]
  BY DEF Post
<1> QED
  BY <1>1, <1>2, <1>3

LEMMA SameRoom ==
  ASSUME Shape, UNCHANGED <<carried, timeline>>
  PROVE  RoomGrows
BY TimelineIs DEF Shape, RoomOK, RoomGrows

LEMMA PostedRoomGrows ==
  ASSUME Shape, NEW r \in Ids, UNCHANGED carried \/ Post(r), UNCHANGED timeline
  PROVE  RoomGrows
BY PostedRoom, SameRoom, TimelineIs DEF Shape, RoomOK, RoomGrows

\* What is typed is an input of the vocabulary.
LEMMA TypedRoom ==
  ASSUME Shape, NEW sender \in {Approver} \cup Strangers, NEW via \in {"reaction", "reply"},
         NEW act \in {"approve", "reject", "revoke", "undo", "status", "revoke_all",
                      "revoke_instance"},
         NEW target \in EventIds \cup Numbers \cup Instances \cup {NoRequest},
         via = "reaction" => /\ target \in EventIds
                             /\ act \in {"approve", "reject", "revoke", "status"},
         act = "undo" => target \in Numbers,
         Type(sender, via, act, target)
  PROVE  RoomGrows
<1> DEFINE input == [sender |-> sender, via |-> via, act |-> act, target |-> target]
<1>1. input \in Input /\ InputOK(input)
  BY DEF Input, InputOK, Type
<1>2. timeline' = Append(timeline, input) /\ carried' = carried /\ timeline \in Seq(Input)
  BY DEF Type, Shape, RoomOK
<1> HIDE DEF input
<1>3. /\ timeline' \in Seq(Input) /\ Len(timeline') = Len(timeline) + 1 /\ Len(timeline) \in Nat
      /\ \A i \in 1..Len(timeline) : timeline'[i] = timeline[i]
      /\ timeline'[Len(timeline) + 1] = input
  BY <1>1, <1>2, AppendProperties
<1>4. \A i \in 1..Len(timeline') : InputOK(timeline'[i])
  BY <1>1, <1>3 DEF Shape, RoomOK
<1> QED
  BY <1>2, <1>3, <1>4 DEF RoomGrows, Shape, RoomOK

LEMMA RoomInputGrows ==
  ASSUME Shape, RoomInput
  PROVE  RoomGrows
<1>1. ASSUME NEW sender \in {Approver} \cup Strangers, NEW e \in EventIds,
             NEW act \in {"approve", "reject", "revoke", "status"},
             Type(sender, "reaction", act, e)
      PROVE  RoomGrows
  BY <1>1, TypedRoom
<1>2. ASSUME NEW sender \in {Approver} \cup Strangers,
             NEW act \in {"approve", "reject", "revoke", "undo", "status", "revoke_all",
                          "revoke_instance"},
             NEW target \in Targets(act), Type(sender, "reply", act, target)
      PROVE  RoomGrows
  <2>1. /\ target \in EventIds \cup Numbers \cup Instances \cup {NoRequest}
        /\ act = "undo" => target \in Numbers
    BY DEF Targets
  <2> QED
    BY <1>2, <2>1, TypedRoom
<1> QED
  BY <1>1, <1>2 DEF RoomInput

-----------------------------------------------------------------------------
(* The steps, by what they change *)

\* The requests of the agent's calls.
LEMMA RequestRows ==
  ASSUME Shape, NEW c \in Clients, NEW i \in Instances, NEW batch \in Batches,
         RequestAccess(c, i, batch)
  PROVE  RowsGrow /\ NoneGranted /\ Ids' = Ids \cup {Len(grants) + 1} /\ Len(grants) + 1 \notin Ids
BY FiledRows, StoreAssumption DEF RequestAccess

\* An undo files what was decided.
LEMMA UndoRows ==
  ASSUME Shape, UndoFiled
  PROVE  /\ RowsGrow /\ NoneGranted /\ Ids' = Ids \cup {Len(grants) + 1} /\ Len(grants) + 1 \notin Ids
         /\ Current.target \in Ids /\ grants[Current.target].state \in {Rejected, Revoked}
         /\ grants'[Len(grants) + 1] =
              FreshRow(grants[Current.target].instance, grants[Current.target].items, now)
         /\ grants[Current.target].state = Rejected =>
              now < grants[Current.target].decided + UndoGrace
         /\ \A s \in Ids : undoOf[s] # Current.target
<1> DEFINE old == grants[Current.target]
<1>1. Position \in 1..Len(timeline)
  BY TimelineIs DEF Position, UndoFiled, Dispatching, Shape, ListenerOK, Listener
<1>2. Current.target \in Numbers
  BY <1>1 DEF UndoFiled, Current, Shape, RoomOK, InputOK
<1>3. /\ WindowOK(Current.target) /\ windows[Current.target] # NoWindow
      /\ now < windows[Current.target].deadline
      /\ CreateRequest(windows[Current.target].instance, windows[Current.target].items)
  BY <1>2 DEF UndoFiled, Shape, WindowsOK
<1>4. /\ Current.target \in Ids /\ old.state \in {Rejected, Revoked}
      /\ CreateRequest(old.instance, old.items)
      /\ old.state = Rejected => now < old.decided + UndoGrace
      /\ \A s \in Ids : undoOf[s] # Current.target
  BY <1>3 DEF WindowOK
<1>5. old.instance \in Instances /\ old.items \in Seq(Items) \ {<<>>}
  BY <1>4, ClockOK DEF Shape, RowOK, Row, RowCoherent
<1>6. grants'[Len(grants) + 1] = FreshRow(old.instance, old.items, now)
  BY <1>4, <1>5, CreateStep DEF Shape
<1> QED
  BY <1>4, <1>5, <1>6, FiledRows

\* The commands the approver gives about one number.
LEMMA AddressedIs ==
  ASSUME Shape, NEW acts, Ordered(acts)
  PROVE  /\ Position \in 1..Len(timeline) /\ Addressed \in Ids /\ Addressed # NoRequest
         /\ Current \in Input /\ Current.sender = Approver /\ Current.act \in acts
         /\ IF Current.via = "reaction" THEN carried[Current.target] = Addressed
                                        ELSE Current.target = Addressed
<1>1. Position \in 1..Len(timeline)
  BY TimelineIs DEF Position, Ordered, Dispatching, Shape, ListenerOK, Listener
<1>2. InputOK(Current) /\ Current \in Input
  BY <1>1, TimelineIs DEF Current, Shape, RoomOK
<1>3. Addressed \in Ids /\ Addressed # NoRequest
  BY IdsAre DEF Shape, Ordered
<1> QED
  BY <1>1, <1>2, <1>3 DEF Ordered, FromApprover, Addressed, InputOK, Shape, RoomOK

LEMMA ApproveRows ==
  ASSUME Shape, DecideApprove
  PROVE  /\ RowsGrow /\ Ids' = Ids /\ grants'[Addressed].source = "approval"
         /\ \A s \in Ids : s # Addressed => grants'[s] = grants[s]
<1>1. Addressed \in Ids
  BY AddressedIs DEF DecideApprove
<1>2. PICK duration \in Durations,
           sel \in Selections \cup {Everything(grants[Addressed].items)} :
        sel # <<>> /\ Approve(Addressed, sel, duration)
  BY DEF DecideApprove
<1> QED
  BY <1>1, <1>2, ApprovedRows

LEMMA RejectRows ==
  ASSUME Shape, DecideReject
  PROVE  /\ RowsGrow /\ NoneGranted /\ Ids' = Ids /\ Addressed \in Ids /\ grants'[Addressed].source = "rejection"
         /\ grants'[Addressed].state = Rejected /\ grants'[Addressed].decided = now'
         /\ \A s \in Ids : s # Addressed => grants'[s] = grants[s]
<1>1. Addressed \in Ids
  BY AddressedIs DEF DecideReject
<1> QED
  BY <1>1, RejectedRows DEF DecideReject

LEMMA RevokeRows ==
  ASSUME Shape, DecideRevoke
  PROVE  /\ RowsGrow /\ NoneGranted /\ Ids' = Ids /\ Addressed \in Ids
         /\ grants'[Addressed].source \in {"revocation", "pending_revoke"}
         /\ grants'[Addressed].state \in {Rejected, Revoked}
         /\ grants'[Addressed].state = Rejected => grants'[Addressed].decided = now'
         /\ \A s \in Ids : s # Addressed => grants'[s] = grants[s]
<1>1. Addressed \in Ids
  BY AddressedIs DEF DecideRevoke
<1> QED
  BY <1>1, RevokedRows DEF DecideRevoke

LEMMA MassRevokeRows ==
  ASSUME Shape, RevokeMany
  PROVE  RowsGrow /\ NoneGranted /\ Ids' = Ids
BY MassRevokedRows DEF RevokeMany, ActiveGrants

LEMMA RecordRows ==
  ASSUME Shape, NEW e \in EventIds, NEW r \in Ids, RecordPosted(e, r)
  PROVE  RowsGrow /\ NoneGranted
<1>1. UNCHANGED grants /\ now' \in Times /\ posted' \in [EventIds -> Nat]
  BY RecordPostedStep DEF Shape, IInv, RecordPosted
<1> QED
  BY <1>1, SameRows

LEMMA PostFailsRows ==
  ASSUME Shape, NEW c \in Clients, PostFails(c)
  PROVE  RowsGrow /\ NoneGranted /\ Ids' = Ids
<1>1. calls[c].rid \in Ids
  BY DEF PostFails, Shape, CallsOK
<1>2. CASE Reject(calls[c].rid)
  BY <1>1, <1>2, RejectedRows
<1>3. CASE UNCHANGED storeVars
  BY <1>3, SameStore DEF storeVars, Ids
<1> QED
  BY <1>2, <1>3 DEF PostFails

\* Rows only move and the room only grows, whatever the step.
LEMMA StepGrows ==
  ASSUME Shape, [PlaneNext]_planeVars
  PROVE  RowsGrow /\ RoomGrows /\ (DecideApprove \/ NoneGranted)
<1>1. ASSUME UNCHANGED <<carried, timeline>> PROVE RoomGrows
  BY <1>1, SameRoom
<1>2. ASSUME UNCHANGED storeVars PROVE RowsGrow /\ NoneGranted
  BY <1>2, SameStore
<1>3. ASSUME NEW c \in Clients, NEW i \in Instances, NEW batch \in Batches,
             RequestAccess(c, i, batch)
      PROVE  RowsGrow /\ RoomGrows /\ (DecideApprove \/ NoneGranted)
  BY <1>1, <1>3, RequestRows DEF RequestAccess, CallFrame, inputVars
<1>4. ASSUME NEW c \in Clients, CallStep(c)
      PROVE  RowsGrow /\ RoomGrows /\ (DecideApprove \/ NoneGranted)
  <2>1. CASE Posted(c)
    <3>1. calls[c].rid \in Ids
      BY <2>1 DEF Posted, Shape, CallsOK
    <3> QED
      BY <1>2, <2>1, <3>1, PostedRoomGrows DEF Posted, CallFrame, inputVars
  <2>2. CASE Recorded(c)
    <3>1. calls[c].rid \in Ids /\ calls[c].event \in EventIds
      BY <2>2 DEF Recorded, Shape, CallsOK
    <3> QED
      BY <1>1, <2>2, <3>1, RecordRows DEF Recorded, CallFrame, inputVars
  <2>3. CASE PostFails(c)
    <3>1. calls[c].rid \in Ids
      BY <2>3 DEF PostFails, Shape, CallsOK
    <3> QED
      BY <2>3, <3>1, PostFailsRows, PostedRoomGrows DEF PostFails, CallFrame, inputVars
  <2> QED
    BY <1>4, <2>1, <2>2, <2>3 DEF CallStep
<1>5. CASE Sync \/ EndBatch \/ Notice \/ NoticeFails
  BY <1>1, <1>2, <1>5
  DEF Sync, EndBatch, Notice, NoticeFails, ListenerFrame, inputVars
<1>6. CASE Handle
  <2>1. UNCHANGED <<carried, timeline>>
    BY <1>6 DEF Handle, AlreadySeen, Ignore, Report, DecideApprove, DecideReject, DecideRevoke,
       Refuse, RevokeMany, UndoRefused, UndoFiled, HandlerFrame, ListenerFrame, inputVars
  <2>2. CASE AlreadySeen \/ Ignore \/ Report \/ Refuse \/ UndoRefused
    <3>1. (AlreadySeen => UNCHANGED storeVars) /\ (Ignore => UNCHANGED storeVars)
      BY DEF AlreadySeen, Ignore
    <3>2. (Report => UNCHANGED storeVars) /\ (Refuse => UNCHANGED storeVars)
      BY Zenon DEF Report, Refuse
    <3>3. UndoRefused => UNCHANGED storeVars
      BY DEF UndoRefused
    <3> QED
      BY <1>1, <1>2, <2>1, <2>2, <3>1, <3>2, <3>3
  <2> QED
    BY <1>1, <1>6, <2>1, <2>2, ApproveRows, RejectRows, RevokeRows, MassRevokeRows, UndoRows
    DEF Handle
<1>7. CASE Await
  <2>1. CASE Confirmed \/ ConfirmFails
    BY <1>1, <1>2, <2>1 DEF Confirmed, ConfirmFails, SendFrame, ListenerFrame, inputVars
  <2>2. CASE UndoPosted \/ UndoPostFails
    <3>1. listener.rid \in Ids
      BY <2>2 DEF UndoPosted, UndoPostFails, Shape, ListenerOK
    <3> QED
      BY <1>2, <2>2, <3>1, PostedRoomGrows
      DEF UndoPosted, UndoPostFails, SendFrame, ListenerFrame, inputVars
  <2>3. CASE UndoRecorded
    <3>1. listener.rid \in Ids /\ listener.event \in EventIds
      BY <2>3 DEF UndoRecorded, Shape, ListenerOK
    <3> QED
      BY <1>1, <2>3, <3>1, RecordRows DEF UndoRecorded, SendFrame, ListenerFrame, inputVars
  <2> QED
    BY <1>7, <2>1, <2>2, <2>3 DEF Await
<1>8. CASE RoomInput
  <2>1. UNCHANGED storeVars
    BY <1>8 DEF RoomInput, Type
  <2> QED
    BY <1>2, <1>8, <2>1, RoomInputGrows
<1>9. CASE Restart
  BY <1>1, <1>9, ReopenedRows DEF Restart, roomVars
<1>10. CASE Clock
  <2>1. now' \in Times /\ UNCHANGED grants /\ posted' \in [EventIds -> Nat]
    BY <1>10 DEF Clock, Tick, Shape, IInv
  <2> QED
    BY <1>1, <1>10, <2>1, SameRows DEF Clock, roomVars
<1>11. CASE UNCHANGED planeVars
  BY <1>1, <1>2, <1>11 DEF planeVars, roomVars
<1> QED
  BY <1>3, <1>4, <1>5, <1>6, <1>7, <1>8, <1>9, <1>10, <1>11 DEF PlaneNext, ListenerStep

\* What each step leaves alone.
LEMMA CallFrames ==
  ASSUME NEW c \in Clients, CallStep(c)
  PROVE  /\ UNCHANGED <<timeline, horizon, listener, windows, swept, said, notices,
                        approvedBy, undoOf>>
         /\ Recorded(c) \/ UNCHANGED posted
BY DEF CallStep, Posted, Recorded, PostFails, CallFrame, Reject, inputVars, outVars, historyVars,
       storeVars

LEMMA RequestFrames ==
  ASSUME NEW c \in Clients, NEW i \in Instances, NEW batch \in Batches, RequestAccess(c, i, batch)
  PROVE  UNCHANGED <<posted, timeline, horizon, carried, listener, windows, swept, said, notices,
                     failures, approvedBy, undoOf>>
BY DEF RequestAccess, CallFrame, CreateRequest, inputVars, outVars, historyVars

LEMMA LoopFrames ==
  ASSUME Sync \/ EndBatch \/ Notice \/ NoticeFails
  PROVE  /\ UNCHANGED <<storeVars, calls, timeline, carried, windows, said, approvedBy, undoOf>>
         /\ Sync \/ UNCHANGED horizon
         /\ Notice \/ NoticeFails \/ UNCHANGED <<swept, notices>>
         /\ NoticeFails \/ UNCHANGED failures
BY DEF Sync, EndBatch, Notice, NoticeFails, ListenerFrame, inputVars, outVars, historyVars,
       faultVars

LEMMA HandleFrames ==
  ASSUME Handle
  PROVE  /\ UNCHANGED <<posted, calls, carried, timeline, horizon, swept, said, notices, failures>>
         /\ DecideReject \/ DecideRevoke \/ UndoRefused \/ UndoFiled \/ UNCHANGED windows
         /\ DecideApprove \/ UNCHANGED approvedBy
         /\ UndoFiled \/ UNCHANGED undoOf
<1>1. CASE AlreadySeen \/ Ignore \/ UndoRefused
  BY <1>1 DEF AlreadySeen, Ignore, UndoRefused, HandlerFrame, ListenerFrame, inputVars,
     outVars, historyVars, storeVars
<1>2. CASE Report \/ Refuse
  BY <1>2, Zenon DEF Report, Refuse, HandlerFrame, ListenerFrame, inputVars, outVars,
     historyVars, storeVars
<1>3. CASE DecideApprove
  BY <1>3 DEF DecideApprove, Approve, HandlerFrame, ListenerFrame, inputVars, outVars
<1>4. CASE DecideReject \/ DecideRevoke
  BY <1>4 DEF DecideReject, DecideRevoke, Reject, Revoke, RevokePending, RevokeActive,
     HandlerFrame, ListenerFrame, inputVars, outVars, historyVars
<1>5. CASE RevokeMany \/ UndoFiled
  BY <1>5 DEF RevokeMany, UndoFiled, CreateRequest, HandlerFrame, ListenerFrame, inputVars,
     outVars, historyVars
<1> QED
  BY <1>1, <1>2, <1>3, <1>4, <1>5 DEF Handle

LEMMA AwaitFrames ==
  ASSUME Await
  PROVE  /\ UNCHANGED <<now, grants, calls, timeline, horizon, windows, swept, notices,
                        approvedBy, undoOf>>
         /\ Confirmed \/ ConfirmFails \/ UNCHANGED said
         /\ UndoRecorded \/ UNCHANGED posted
BY DEF Await, Confirmed, ConfirmFails, UndoPosted, UndoRecorded, UndoPostFails, SendFrame,
       ListenerFrame, RecordPosted, inputVars, historyVars, storeVars

LEMMA RoomFrames ==
  ASSUME RoomInput
  PROVE  UNCHANGED <<now, grants, posted, calls, carried, horizon, listener, windows, swept,
                     said, notices, failures, approvedBy, undoOf>>
BY DEF RoomInput, Type, storeVars, outVars, faultVars, historyVars

LEMMA RestartFrames ==
  ASSUME Restart
  PROVE  UNCHANGED <<now, posted, carried, timeline, horizon, said, failures, approvedBy, undoOf>>
BY DEF Restart, Reopen, roomVars, historyVars

LEMMA ClockFrames ==
  ASSUME Clock
  PROVE  UNCHANGED <<grants, posted, calls, carried, timeline, horizon, listener, windows, swept,
                     said, notices, failures, approvedBy, undoOf>>
BY DEF Clock, Tick, roomVars, outVars, faultVars, historyVars

LEMMA StutterFrames ==
  ASSUME UNCHANGED planeVars
  PROVE  UNCHANGED <<now, grants, posted, calls, carried, timeline, horizon, listener, windows,
                     swept, said, notices, failures, approvedBy, undoOf>>
BY DEF planeVars, storeVars, roomVars, outVars, faultVars, historyVars

-----------------------------------------------------------------------------
(* The shape is kept *)

\* Whatever step is taken, it is one of these.
LEMMA Steps ==
  ASSUME [PlaneNext]_planeVars
  PROVE  \/ \E c \in Clients, i \in Instances, batch \in Batches : RequestAccess(c, i, batch)
         \/ \E c \in Clients : CallStep(c)
         \/ Sync \/ EndBatch \/ Notice \/ NoticeFails
         \/ Handle \/ Await \/ RoomInput \/ Restart \/ Clock
         \/ UNCHANGED planeVars
BY DEF PlaneNext, ListenerStep

\* An event is only ever mapped to the request its message is about.
LEMMA PostedStep ==
  ASSUME Shape, [PlaneNext]_planeVars
  PROVE  \A e \in EventIds : posted'[e] # NoRequest => carried[e] = posted'[e]
<1>1. CASE UNCHANGED posted
  BY <1>1 DEF Shape, RoomOK
<1>2. ASSUME NEW c \in Clients, Recorded(c)
      PROVE  \A e \in EventIds : posted'[e] # NoRequest => carried[e] = posted'[e]
  BY <1>2 DEF Recorded, RecordPosted, Shape, RoomOK, CallsOK, IInv
<1>3. CASE UndoRecorded
  BY <1>3 DEF UndoRecorded, RecordPosted, Shape, RoomOK, ListenerOK, IInv
<1> QED
  BY <1>1, <1>2, <1>3, Steps, RequestFrames, CallFrames, LoopFrames, HandleFrames, AwaitFrames,
     RoomFrames, RestartFrames, ClockFrames, StutterFrames
  DEF storeVars

LEMMA RoomStep ==
  ASSUME Shape, [PlaneNext]_planeVars
  PROVE  RoomOK'
<1>1. RoomGrows
  BY StepGrows
<1>2. horizon' \in 0..Len(timeline')
  <2>1. Len(timeline') \in Nat /\ Len(timeline) \in Nat /\ horizon \in 0..Len(timeline)
        /\ Len(timeline) <= Len(timeline')
    BY <1>1 DEF RoomGrows, Shape, RoomOK
  <2>2. CASE Sync
    BY <2>1, <2>2 DEF Sync
  <2>3. CASE UNCHANGED horizon
    BY <2>1, <2>3
  <2> QED
    BY <2>2, <2>3, Steps, RequestFrames, CallFrames, LoopFrames, HandleFrames, AwaitFrames,
       RoomFrames, RestartFrames, ClockFrames, StutterFrames
<1>3. \A e \in EventIds : posted'[e] # NoRequest => carried'[e] = posted'[e]
  BY <1>1, PostedStep DEF RoomGrows
<1> QED
  BY <1>1, <1>2, <1>3 DEF RoomOK, RoomGrows, InputOK

\* A call that is left alone, or lost, is still about a request that exists.
LEMMA CallsStep ==
  ASSUME Shape, [PlaneNext]_planeVars
  PROVE  CallsOK'
<1>1. RoomGrows /\ \A r \in Ids : r \in Ids' /\ r \in Nat /\ r # NoRequest
  BY StepGrows, IdsAre DEF RowsGrow, RowsMove, Shape
<1>2. /\ calls \in [Clients -> [pc : CallState, rid : Nat, event : EventIds \cup {Null}]]
      /\ \A c \in Clients :
           /\ calls[c].pc # "idle" => calls[c].rid \in Ids'
           /\ calls[c].pc = "marking" => /\ calls[c].event \in EventIds
                                         /\ carried'[calls[c].event] = calls[c].rid
  BY <1>1 DEF Shape, CallsOK, RoomGrows
<1>3. CASE UNCHANGED calls
  BY <1>2, <1>3 DEF CallsOK
<1>4. ASSUME NEW c \in Clients, NEW new,
             new \in [pc : CallState, rid : Nat, event : EventIds \cup {Null}],
             new.rid \in Ids',
             new.pc = "marking" => new.event \in EventIds /\ carried'[new.event] = new.rid,
             calls' = [calls EXCEPT ![c] = new]
      PROVE  CallsOK'
  <2>1. \A d \in Clients : calls'[d] = IF d = c THEN new ELSE calls[d]
    BY <1>2, <1>4
  <2>2. calls' \in [Clients -> [pc : CallState, rid : Nat, event : EventIds \cup {Null}]]
    BY <1>2, <1>4
  <2> QED
    BY <1>2, <1>4, <2>1, <2>2 DEF CallsOK
<1>5. ASSUME NEW c \in Clients, NEW i \in Instances, NEW batch \in Batches,
             RequestAccess(c, i, batch)
      PROVE  CallsOK'
  <2>1. Len(grants) + 1 \in Ids' /\ Len(grants) + 1 \in Nat
    BY <1>5, RequestRows, IdsAre DEF Shape
  <2> QED
    BY <1>4, <1>5, <2>1 DEF RequestAccess, CallState
<1>6. ASSUME NEW c \in Clients, CallStep(c)
      PROVE  CallsOK'
  <2>1. CASE Posted(c)
    <3>1. calls[c].rid \in Ids
      BY <2>1 DEF Posted, Shape, CallsOK
    <3>2. FreshEvent \in EventIds /\ carried'[FreshEvent] = calls[c].rid
      BY <2>1, <3>1, PostedRoom DEF Posted
    <3>3. calls' = [calls EXCEPT ![c] = [calls[c] EXCEPT !.pc = "marking", !.event = FreshEvent]]
      BY <1>2, <2>1 DEF Posted
    <3> QED
      BY <1>1, <1>2, <1>4, <3>1, <3>2, <3>3 DEF CallState
  <2>2. ASSUME NEW pc \in {"pending", "error", "raised"}, calls[c].pc # "idle",
               calls' = [calls EXCEPT ![c].pc = pc]
        PROVE  CallsOK'
    <3> DEFINE new == [calls[c] EXCEPT !.pc = pc]
    <3>1. calls' = [calls EXCEPT ![c] = new]
      BY <1>2, <2>2
    <3>2. calls[c] \in [pc : CallState, rid : Nat, event : EventIds \cup {Null}]
      BY <1>2
    <3>3. /\ new \in [pc : CallState, rid : Nat, event : EventIds \cup {Null}]
          /\ new.pc # "marking" /\ new.rid = calls[c].rid
      BY <3>2 DEF CallState
    <3> HIDE DEF new
    <3> QED
      BY <1>2, <1>4, <2>2, <3>1, <3>3
  <2>3. CASE Recorded(c)
    BY <2>2, <2>3 DEF Recorded
  <2>4. CASE PostFails(c)
    BY <2>2, <2>4 DEF PostFails
  <2> QED
    BY <1>6, <2>1, <2>3, <2>4 DEF CallStep
<1>7. CASE Restart
  <2>1. ASSUME NEW c \in Clients
        PROVE  /\ calls'[c] \in [pc : CallState, rid : Nat, event : EventIds \cup {Null}]
               /\ calls'[c].rid = calls[c].rid
               /\ calls[c].pc = "idle" => calls'[c].pc = "idle"
               /\ calls'[c].pc # "marking"
    BY <1>2, <1>7 DEF Restart, CallState
  <2>2. calls' \in [Clients -> [pc : CallState, rid : Nat, event : EventIds \cup {Null}]]
    BY <1>7, <2>1 DEF Restart
  <2>3. \A c \in Clients : calls'[c].pc # "idle" => calls[c].pc # "idle"
    BY <2>1
  <2> QED
    BY <1>2, <2>1, <2>2, <2>3 DEF CallsOK
<1> QED
  BY <1>3, <1>5, <1>6, <1>7, Steps, LoopFrames, HandleFrames, AwaitFrames, RoomFrames,
     ClockFrames, StutterFrames

\* The next notice is one of the queue.
LEMMA NextNoticeIs ==
  ASSUME Shape, listener.pc = "sweep"
  PROVE  NextNotice \in listener.queue /\ NextNotice \in Ids
<1>1. listener.queue \in SUBSET Nat /\ listener.queue # {} /\ listener.queue \subseteq Ids
  BY DEF Shape, ListenerOK, Listener
<1> QED
  BY <1>1, Smallest DEF NextNotice

\* Where the listener may be after a step.
LEMMA ListenerMoved ==
  ASSUME Shape, [PlaneNext]_planeVars, listener' \in Listener,
         listener'.pos <= listener'.upto, listener'.upto <= Len(timeline),
         listener'.since = Null \/ listener'.since <= Len(timeline),
         listener'.seen \subseteq 1..Len(timeline),
         listener'.queue \subseteq Ids,
         listener'.pc = "sweep" <=> listener'.queue # {},
         listener'.pc \in {"undo_sending", "undo_marking"} => listener'.rid \in Ids',
         listener'.pc = "undo_marking" => /\ listener'.event \in EventIds
                                          /\ carried'[listener'.event] = listener'.rid
  PROVE  ListenerOK'
<1>1. RoomGrows /\ \A r \in Ids : r \in Ids'
  BY StepGrows DEF RowsGrow, RowsMove
<1>2. /\ Len(timeline) \in Nat /\ Len(timeline') \in Nat /\ Len(timeline) <= Len(timeline')
      /\ 1..Len(timeline) \subseteq 1..Len(timeline')
  BY <1>1 DEF RoomGrows, Shape, RoomOK
<1>3. listener'.upto \in Nat /\ (listener'.since = Null \/ listener'.since \in Nat)
  BY DEF Listener
<1> QED
  BY <1>1, <1>2, <1>3 DEF ListenerOK

LEMMA ListenerIs ==
  ASSUME Shape
  PROVE  /\ listener \in Listener
         /\ listener.pos \in Nat /\ listener.upto \in Nat /\ Len(timeline) \in Nat
         /\ listener.pos <= listener.upto /\ listener.upto <= Len(timeline)
         /\ listener.since = Null \/ (listener.since \in Nat /\ listener.since <= Len(timeline))
         /\ listener.seen \subseteq 1..Len(timeline)
         /\ listener.queue \subseteq Ids
         /\ listener.pc = "sweep" <=> listener.queue # {}
<1>1. listener \in Listener
  BY DEF Shape, ListenerOK
<1>2. listener.pos \in Nat /\ listener.upto \in Nat /\ listener.since \in Nat \cup {Null}
  BY <1>1 DEF Listener
<1>3. Len(timeline) \in Nat
  BY DEF Shape, RoomOK
<1>4. ListenerOK
  BY DEF Shape
<1>5. listener.pos <= listener.upto /\ listener.upto <= Len(timeline)
  BY <1>4 DEF ListenerOK
<1>6. listener.since = Null \/ (listener.since \in Nat /\ listener.since <= Len(timeline))
  <2>1. listener.since = Null \/ listener.since <= Len(timeline)
    BY <1>4, Zenon DEF ListenerOK
  <2> QED
    BY <1>2, <2>1
<1>7. /\ listener.seen \subseteq 1..Len(timeline) /\ listener.queue \subseteq Ids
      /\ listener.pc = "sweep" <=> listener.queue # {}
  BY <1>4 DEF ListenerOK
<1> QED
  BY <1>1, <1>2, <1>3, <1>5, <1>6, <1>7

LEMMA ListenerKept ==
  ASSUME Shape, [PlaneNext]_planeVars, UNCHANGED listener
  PROVE  ListenerOK'
<1>1. RoomGrows /\ \A r \in Ids : r \in Ids' /\ r # NoRequest
  BY StepGrows, IdsAre DEF RowsGrow, RowsMove, Shape
<1> QED
  BY <1>1, ListenerIs, ListenerMoved DEF Shape, ListenerOK, RoomGrows

\* The input being dispatched, and the listener after it.
LEMMA DispatchedIs ==
  ASSUME Shape, Dispatching
  PROVE  /\ Position \in 1..Len(timeline) /\ Position <= listener.upto
         /\ Position = listener.pos + 1 /\ Position \notin listener.seen
         /\ Dispatched \in Listener
         /\ Dispatched.pc = "dispatch" /\ Dispatched.pos = Position
         /\ Dispatched.seen = listener.seen \cup {Position}
         /\ Dispatched.upto = listener.upto /\ Dispatched.since = listener.since
         /\ Dispatched.queue = {} /\ Dispatched.saying = listener.saying
         /\ Dispatched.rid = listener.rid /\ Dispatched.event = listener.event
<1>1. Position \in Nat /\ Position \in 1..Len(timeline) /\ Position <= listener.upto
  BY ListenerIs DEF Position, Dispatching
<1>2. listener.pc = "dispatch" /\ listener.queue = {}
  BY ListenerIs DEF Dispatching
<1> QED
  BY <1>1, <1>2, ListenerIs DEF Dispatched, Listener, Dispatching, Position

LEMMA SayIs ==
  ASSUME Shape, Dispatching, NEW kind \in Kind, NEW r \in Nat, Say(kind, r)
  PROVE  /\ listener' \in Listener
         /\ listener'.pc = "confirm" /\ listener'.saying = [kind |-> kind, rid |-> r]
         /\ listener'.pos = Position /\ listener'.seen = listener.seen \cup {Position}
         /\ listener'.upto = listener.upto /\ listener'.since = listener.since
         /\ listener'.queue = {}
BY DispatchedIs DEF Say, Listener, ListenerState

\* What a handler does to the listener: the input is behind it, and at most one
\* message is under way.
HandlerMoves ==
  /\ listener' \in Listener
  /\ listener'.pos = Position /\ Position \in 1..Len(timeline) /\ Position <= listener.upto
  /\ Position = listener.pos + 1
  /\ listener'.seen = listener.seen \cup {Position}
  /\ listener'.upto = listener.upto /\ listener'.since = listener.since
  /\ listener'.queue = {} /\ listener.queue = {} /\ listener.pc = "dispatch"
  /\ listener'.pc \in {"dispatch", "confirm", "undo_sending"}

LEMMA SayMoves ==
  ASSUME Shape, Dispatching, NEW kind \in Kind, NEW r \in Nat, Say(kind, r)
  PROVE  HandlerMoves /\ listener'.pc = "confirm"
BY DispatchedIs, SayIs, ListenerIs DEF HandlerMoves, Dispatching

LEMMA IgnoreMoves ==
  ASSUME Shape, Dispatching, listener' = Dispatched
  PROVE  HandlerMoves /\ listener'.pc = "dispatch"
BY DispatchedIs, ListenerIs DEF HandlerMoves, Dispatching

LEMMA HandleMoves ==
  ASSUME Shape, Handle
  PROVE  \/ AlreadySeen
         \/ HandlerMoves /\ (listener'.pc = "undo_sending" => listener'.rid \in Ids')
<1>1. CASE AlreadySeen
  BY <1>1
<1>2. CASE Ignore
  BY <1>2, IgnoreMoves DEF Ignore
<1>3. CASE Report
  BY <1>3, SayMoves DEF Report, Kind, NoRequest
<1>4. CASE DecideApprove \/ DecideReject \/ DecideRevoke
  <2>1. Addressed \in Nat /\ Dispatching
    BY <1>4, AddressedIs, IdsAre
    DEF DecideApprove, DecideReject, DecideRevoke, Ordered, Shape
  <2> QED
    BY <1>4, <2>1, SayMoves DEF DecideApprove, DecideReject, DecideRevoke, Kind
<1>5. CASE Refuse
  BY <1>5, SayMoves DEF Refuse, Ordered, Kind, NoRequest
<1>6. CASE RevokeMany \/ UndoRefused
  BY <1>6, SayMoves DEF RevokeMany, UndoRefused, Kind, NoRequest
<1>7. CASE UndoFiled
  <2>1. Len(grants) + 1 \in Ids' /\ Len(grants) + 1 \in Nat
    BY <1>7, UndoRows, IdsAre DEF Shape
  <2>2. Dispatching /\ listener' = [Dispatched EXCEPT !.pc = "undo_sending", !.rid = Len(grants) + 1]
    BY <1>7 DEF UndoFiled
  <2>3. listener' \in Listener /\ listener'.rid = Len(grants) + 1
    BY <2>1, <2>2, DispatchedIs DEF Listener, ListenerState
  <2> QED
    BY <2>1, <2>2, <2>3, DispatchedIs, ListenerIs DEF HandlerMoves, Dispatching, Listener
<1> QED
  BY <1>1, <1>2, <1>3, <1>4, <1>5, <1>6, <1>7 DEF Handle

\* The loop resumes from its token.
LEMMA BackMoves ==
  ASSUME Shape, BackToSync
  PROVE  /\ listener' \in Listener /\ listener'.pc = "sync"
         /\ listener'.pos = 0 /\ listener'.upto = 0 /\ listener'.queue = {}
         /\ listener'.seen = listener.seen /\ listener'.since = listener.since
         /\ listener'.saying = Silence
<1>1. listener \in Listener
  BY ListenerIs
<1> QED
  BY <1>1 DEF BackToSync, Listener, ListenerState, Silence, Kind, NoRequest

LEMMA LoopMoves ==
  ASSUME Shape, Sync \/ EndBatch \/ Notice
  PROVE  /\ listener' \in Listener
         /\ listener'.pos <= listener'.upto /\ listener'.upto <= Len(timeline)
         /\ listener'.since = Null \/ listener'.since <= Len(timeline)
         /\ listener'.seen = listener.seen /\ listener'.saying = listener.saying
         /\ listener'.pc \in {"sync", "dispatch", "sweep"}
         /\ listener'.pc = "sweep" <=> listener'.queue # {}
         /\ listener'.queue \subseteq Ids
<1>0. /\ horizon \in Nat /\ horizon <= Len(timeline)
      /\ \A r \in Ids : r \in Nat
  BY IdsAre DEF Shape, RoomOK
<1>1. CASE Sync
  <2>1. /\ horizon' \in Nat /\ horizon' <= Len(timeline)
        /\ listener.pc = "sync" /\ listener.queue = {}
    BY <1>0, <1>1, ListenerIs DEF Sync
  <2>2. PICK pos \in Nat :
          /\ pos <= Len(timeline)
          /\ listener' = [listener EXCEPT !.pc = "dispatch", !.pos = pos, !.upto = Len(timeline)]
    BY <1>1, <2>1, ListenerIs DEF Sync
  <2>3. /\ listener' \in Listener /\ listener'.pc = "dispatch"
        /\ listener'.pos = pos /\ listener'.upto = Len(timeline)
        /\ listener'.since = listener.since /\ listener'.seen = listener.seen
        /\ listener'.saying = listener.saying /\ listener'.queue = listener.queue
    BY <2>2, ListenerIs DEF Listener, ListenerState
  <2>4. listener.since = Null \/ listener.since <= Len(timeline)
    BY ListenerIs
  <2> QED
    BY <2>1, <2>2, <2>3, <2>4, ListenerIs
<1>2. CASE EndBatch
  <2>1. ToSweep \subseteq Ids /\ ToSweep \in SUBSET Nat
    BY <1>0 DEF ToSweep
  <2>2. /\ SweepOn(ToSweep) \in {"sync", "sweep"}
        /\ SweepOn(ToSweep) = "sweep" <=> ToSweep # {}
    BY DEF SweepOn
  <2>3. listener' = [listener EXCEPT !.pc = SweepOn(ToSweep), !.queue = ToSweep,
                                     !.since = listener.upto, !.pos = 0, !.upto = 0]
    BY <1>2 DEF EndBatch
  <2>4. /\ listener' \in Listener /\ listener'.pc = SweepOn(ToSweep)
        /\ listener'.pos = 0 /\ listener'.upto = 0 /\ listener'.since = listener.upto
        /\ listener'.seen = listener.seen /\ listener'.saying = listener.saying
        /\ listener'.queue = ToSweep
    BY <2>1, <2>2, <2>3, ListenerIs DEF Listener, ListenerState
  <2> QED
    BY <2>1, <2>2, <2>4, ListenerIs
<1>3. CASE Notice
  <2> DEFINE queue == listener.queue \ {NextNotice}
  <2>1. queue \subseteq Ids /\ queue \in SUBSET Nat
    BY <1>0, ListenerIs
  <2>2. /\ SweepOn(queue) \in {"sync", "sweep"}
        /\ SweepOn(queue) = "sweep" <=> queue # {}
    BY DEF SweepOn
  <2>3. listener' = [listener EXCEPT !.queue = queue, !.pc = SweepOn(queue)]
    BY <1>3 DEF Notice
  <2> HIDE DEF queue
  <2>4. /\ listener'.pc = SweepOn(queue) /\ listener'.queue = queue
        /\ listener'.pos = listener.pos /\ listener'.upto = listener.upto
        /\ listener'.since = listener.since /\ listener'.seen = listener.seen
        /\ listener'.saying = listener.saying
        /\ listener' \in Listener
    BY <2>1, <2>2, <2>3, ListenerIs DEF Listener, ListenerState
  <2>5. listener.since = Null \/ listener.since <= Len(timeline)
    BY ListenerIs
  <2> QED
    BY <2>1, <2>2, <2>4, <2>5, ListenerIs
<1> QED
  BY <1>1, <1>2, <1>3

LEMMA AwaitMoves ==
  ASSUME Shape, Await
  PROVE  \/ BackToSync
         \/ /\ listener' \in Listener
            /\ listener'.pos = listener.pos /\ listener'.upto = listener.upto
            /\ listener'.since = listener.since /\ listener'.seen = listener.seen
            /\ listener'.queue = {}
            /\ listener'.saying \in {listener.saying, Silence}
            /\ listener.pc \in {"confirm", "undo_sending", "undo_marking"}
            /\ \/ listener'.pc = "dispatch"
               \/ /\ listener'.pc = "undo_marking"
                  /\ listener'.rid = listener.rid /\ listener'.rid \in Ids
                  /\ listener'.event \in EventIds
                  /\ carried'[listener'.event] = listener'.rid
<1>1. CASE ConfirmFails \/ UndoPostFails
  BY <1>1 DEF ConfirmFails, UndoPostFails
<1>2. CASE Confirmed
  <2>1. listener.pc = "confirm" /\ listener.queue = {}
    BY <1>2, ListenerIs DEF Confirmed
  <2>2. listener' = [listener EXCEPT !.pc = "dispatch", !.saying = Silence]
    BY <1>2 DEF Confirmed
  <2> QED
    BY <2>1, <2>2, ListenerIs DEF Listener, ListenerState, Silence, Kind, NoRequest
<1>3. CASE UndoPosted
  <2>1. listener.pc = "undo_sending" /\ listener.queue = {} /\ listener.rid \in Ids
    BY <1>3, ListenerIs DEF UndoPosted, Shape, ListenerOK
  <2>2. FreshEvent \in EventIds /\ carried'[FreshEvent] = listener.rid
    BY <1>3, <2>1, PostedRoom DEF UndoPosted
  <2>3. listener' = [listener EXCEPT !.pc = "undo_marking", !.event = FreshEvent]
    BY <1>3 DEF UndoPosted
  <2> QED
    BY <2>1, <2>2, <2>3, ListenerIs DEF Listener, ListenerState
<1>4. CASE UndoRecorded
  <2>1. listener.pc = "undo_marking" /\ listener.queue = {}
    BY <1>4, ListenerIs DEF UndoRecorded
  <2>2. listener' = [listener EXCEPT !.pc = "dispatch", !.rid = NoRequest, !.event = Null]
    BY <1>4 DEF UndoRecorded
  <2> QED
    BY <2>1, <2>2, ListenerIs DEF Listener, ListenerState, NoRequest
<1> QED
  BY <1>1, <1>2, <1>3, <1>4 DEF Await

LEMMA FreshListenerIs ==
  /\ FreshListener \in Listener
  /\ FreshListener.pc = "sync" /\ FreshListener.pos = 0 /\ FreshListener.upto = 0
  /\ FreshListener.since = Null /\ FreshListener.seen = {} /\ FreshListener.queue = {}
  /\ FreshListener.saying = Silence
BY DEF FreshListener, Listener, ListenerState, Silence, Kind, NoRequest

LEMMA ListenerStays ==
  ASSUME Shape, [PlaneNext]_planeVars
  PROVE  ListenerOK'
<1>1. CASE UNCHANGED listener
  BY <1>1, ListenerKept
<1>2. CASE Sync \/ EndBatch \/ Notice
  BY <1>2, LoopMoves, ListenerIs, ListenerMoved
<1>3. CASE BackToSync
  BY <1>3, BackMoves, ListenerIs, ListenerMoved
<1>4. CASE Handle
  <2>1. CASE AlreadySeen
    <3>1. Position \in Nat /\ Position <= listener.upto /\ listener.pc = "dispatch"
      BY <2>1, ListenerIs DEF AlreadySeen, Position
    <3>2. /\ listener' \in Listener /\ listener'.pc = listener.pc
          /\ listener'.pos = Position /\ listener'.upto = listener.upto
          /\ listener'.since = listener.since /\ listener'.seen = listener.seen
          /\ listener'.queue = listener.queue
      BY <2>1, <3>1, ListenerIs DEF AlreadySeen, Listener
    <3> QED
      BY <3>1, <3>2, ListenerIs, ListenerMoved
  <2>2. CASE HandlerMoves /\ (listener'.pc = "undo_sending" => listener'.rid \in Ids')
    BY <2>2, ListenerIs, ListenerMoved DEF HandlerMoves
  <2> QED
    BY <1>4, <2>1, <2>2, HandleMoves
<1>5. CASE Await
  BY <1>3, <1>5, AwaitMoves, ListenerIs, ListenerMoved, StepGrows DEF RowsGrow, RowsMove
<1>6. CASE Restart
  BY <1>6, FreshListenerIs, ListenerIs, ListenerMoved DEF Restart
<1>7. NoticeFails => BackToSync
  BY DEF NoticeFails
<1> QED
  BY <1>1, <1>2, <1>3, <1>4, <1>5, <1>6, <1>7, Steps, RequestFrames, CallFrames, RoomFrames,
     ClockFrames, StutterFrames

\* A number that is dead stays as it is, and numbers stay in range.
LEMMA DeadStays ==
  ASSUME Shape, RowsGrow, NEW r \in Ids, grants[r].state \in {Rejected, Revoked}
  PROVE  grants'[r] = grants[r] /\ r \in Ids'
<1>1. RowMove(grants[r], grants'[r], now) /\ r \in Ids'
  BY DEF RowsGrow, RowsMove
<1>2. Effective(grants[r], now) # Active /\ grants[r].state # Pending
  BY DEF Effective, Active, Expired, Rejected, Revoked, Pending
<1> QED
  BY <1>1, <1>2 DEF RowMove

LEMMA NumbersThen ==
  ASSUME Shape, RowsGrow
  PROVE  Ids' \subseteq Numbers /\ Ids \subseteq Ids' /\ Ids' = 1..Len(grants')
<1>1. Len(grants') \in Nat /\ Ids' = 1..Len(grants') /\ Len(grants') <= MaxRequests
  BY DEF RowsGrow, IInv, Ids
<1> QED
  BY <1>1, StoreAssumption DEF Numbers, RowsGrow, RowsMove

LEMMA UndecidedIs ==
  ASSUME NEW row, Effective(row, now) \in {Pending, Active}
  PROVE  row.state \notin {Rejected, Revoked}
BY DEF Effective, Pending, Active, Expired, Rejected, Revoked

\* Nobody re-filed a number that is not dead.
LEMMA NotUndone ==
  ASSUME Shape, NEW r \in Ids, grants[r].state \notin {Rejected, Revoked}
  PROVE  \A s \in Numbers : undoOf[s] # r
BY IdsAre DEF Shape, HistoryOK

LEMMA DecidedIs ==
  ASSUME Shape, DecideReject \/ DecideRevoke
  PROVE  /\ Addressed \in Ids /\ grants[Addressed].state \notin {Rejected, Revoked}
         /\ UNCHANGED undoOf /\ Arm(Addressed)
<1>1. CASE DecideReject
  BY <1>1, UndecidedIs DEF DecideReject, Reject, Undecided, historyVars
<1>2. CASE DecideRevoke
  BY <1>2, UndecidedIs
  DEF DecideRevoke, Revoke, RevokePending, RevokeActive, ActiveGrants, Undecided, historyVars
<1> QED
  BY <1>1, <1>2

LEMMA HistoryStep ==
  ASSUME Shape, [PlaneNext]_planeVars
  PROVE  HistoryOK'
<1>1. RowsGrow /\ Ids' \subseteq Numbers /\ Ids \subseteq Ids'
  BY StepGrows, NumbersThen
<1>2. approvedBy' = [r \in Numbers |-> approvedBy'[r]]
  <2>1. CASE UNCHANGED approvedBy
    BY <2>1 DEF Shape, HistoryOK
  <2>2. CASE DecideApprove
    BY <2>2 DEF DecideApprove, Shape, HistoryOK
  <2> QED
    BY <2>1, <2>2, Steps, RequestFrames, CallFrames, LoopFrames, HandleFrames, AwaitFrames,
       RoomFrames, RestartFrames, ClockFrames, StutterFrames
<1>3. ASSUME NEW r \in Ids, grants[r].state \in {Rejected, Revoked}
      PROVE  r \in Ids' /\ grants'[r].state \in {Rejected, Revoked}
  BY <1>1, <1>3, DeadStays
<1>4. CASE UNCHANGED undoOf
  <2>1. ASSUME NEW r \in Numbers, undoOf[r] # NoRequest
        PROVE  /\ r \in Ids' /\ undoOf[r] \in Ids'
               /\ grants'[undoOf[r]].state \in {Rejected, Revoked}
    BY <1>1, <1>3, <2>1 DEF Shape, HistoryOK
  <2>2. undoOf \in [Numbers -> Nat]
    BY DEF Shape, HistoryOK
  <2> QED
    BY <1>2, <1>4, <2>1, <2>2 DEF HistoryOK
<1>5. CASE UndoFiled
  <2>1. /\ Len(grants) + 1 \in Ids'
        /\ Current.target \in Ids /\ grants[Current.target].state \in {Rejected, Revoked}
    BY <1>5, UndoRows
  <2>2. undoOf' = [undoOf EXCEPT ![Len(grants) + 1] = Current.target]
    BY <1>5 DEF UndoFiled
  <2>3. Current.target \in Nat /\ undoOf' \in [Numbers -> Nat]
    BY <2>1, <2>2, IdsAre DEF Shape, HistoryOK
  <2>4. \A r \in Numbers : undoOf'[r] =
          IF r = Len(grants) + 1 THEN Current.target ELSE undoOf[r]
    BY <2>2 DEF Shape, HistoryOK
  <2>5. ASSUME NEW r \in Numbers, undoOf'[r] # NoRequest
        PROVE  r \in Ids' /\ undoOf'[r] \in Ids /\ grants[undoOf'[r]].state \in {Rejected, Revoked}
    BY <1>1, <2>1, <2>4, <2>5 DEF Shape, HistoryOK
  <2>6. ASSUME NEW r \in Numbers, undoOf'[r] # NoRequest
        PROVE  /\ r \in Ids' /\ undoOf'[r] \in Ids'
               /\ grants'[undoOf'[r]].state \in {Rejected, Revoked}
    BY <1>3, <2>5, <2>6
  <2> QED
    BY <1>2, <2>3, <2>6 DEF HistoryOK
<1> QED
  BY <1>4, <1>5, Steps, RequestFrames, CallFrames, LoopFrames, HandleFrames, AwaitFrames,
     RoomFrames, RestartFrames, ClockFrames, StutterFrames

\* A window that stays open is about a number that nobody re-files now.
LEMMA WindowStays ==
  ASSUME Shape, [PlaneNext]_planeVars, NEW r \in Numbers, windows'[r] = windows[r],
         \A s \in Numbers : undoOf'[s] = r => undoOf[s] = r
  PROVE  WindowOK(r)'
<1>1. RowsGrow /\ Ids' \subseteq Numbers
  BY StepGrows, NumbersThen
<1>2. SUFFICES ASSUME windows'[r] # NoWindow
               PROVE  /\ r \in Ids'
                      /\ grants'[r].state \in {Rejected, Revoked}
                      /\ windows'[r].instance = grants'[r].instance
                      /\ windows'[r].items = grants'[r].items
                      /\ grants'[r].state = Rejected =>
                           windows'[r].deadline = grants'[r].decided + UndoGrace
                      /\ \A s \in Ids' : undoOf'[s] # r
  BY DEF WindowOK
<1>3. WindowOK(r) /\ windows[r] # NoWindow
  BY <1>2 DEF Shape, WindowsOK
<1>4. r \in Ids /\ grants'[r] = grants[r] /\ r \in Ids' /\ r # NoRequest
  BY <1>1, <1>3, DeadStays, IdsAre DEF WindowOK, Shape
<1>5. ASSUME NEW s \in Ids', undoOf'[s] = r
      PROVE  FALSE
  <2>1. s \in Numbers /\ undoOf[s] = r /\ r # NoRequest
    BY <1>1, <1>4, <1>5
  <2>2. s \in Ids
    BY <2>1 DEF Shape, HistoryOK
  <2> QED
    BY <1>3, <2>1, <2>2 DEF WindowOK
<1> QED
  BY <1>2, <1>3, <1>4, <1>5 DEF WindowOK

LEMMA WindowsStep ==
  ASSUME Shape, [PlaneNext]_planeVars
  PROVE  WindowsOK'
<1>1. windows = [r \in Numbers |-> windows[r]]
  BY DEF Shape, WindowsOK
<1>2. CASE UNCHANGED <<windows, undoOf>>
  BY <1>1, <1>2, WindowStays DEF WindowsOK
<1>3. CASE DecideReject \/ DecideRevoke
  <2>0. PICK r \in Ids : r = Addressed
    BY <1>3, DecidedIs
  <2> DEFINE new == [deadline |-> now' + UndoGrace, instance |-> grants'[r].instance,
                     items |-> grants'[r].items]
  <2>1. /\ r \in Numbers /\ UNCHANGED undoOf
        /\ windows' = [windows EXCEPT ![r] = new]
        /\ \A s \in Numbers : undoOf[s] # r
    BY <1>3, <2>0, DecidedIs, NotUndone, NumbersAre DEF Arm
  <2>2. /\ r \in Ids' /\ grants'[r].state \in {Rejected, Revoked}
        /\ grants'[r].state = Rejected => grants'[r].decided = now'
    BY <1>3, <2>0, RejectRows, RevokeRows
  <2>3. /\ windows' = [s \in Numbers |-> windows'[s]] /\ windows'[r] = new
        /\ \A s \in Numbers : s # r => windows'[s] = windows[s]
    BY <1>1, <2>1
  <2>4. RowsGrow /\ Ids' \subseteq Numbers
    BY StepGrows, NumbersThen
  <2>5. WindowOK(r)'
    BY <2>1, <2>2, <2>3, <2>4 DEF WindowOK
  <2>6. ASSUME NEW s \in Numbers, s # r
        PROVE  WindowOK(s)'
    BY <2>1, <2>3, <2>6, WindowStays
  <2> QED
    BY <2>3, <2>5, <2>6 DEF WindowsOK
<1>4. CASE UndoRefused \/ UndoFiled
  <2>1. windows' = [windows EXCEPT ![Current.target] = NoWindow]
    BY <1>4 DEF UndoRefused, UndoFiled
  <2>2. UNCHANGED undoOf
        \/ undoOf' = [undoOf EXCEPT ![Len(grants) + 1] = Current.target]
    BY <1>4 DEF UndoRefused, UndoFiled, historyVars
  <2>3. windows' = [s \in Numbers |-> windows'[s]]
    BY <1>1, <2>1
  <2>4. ASSUME NEW s \in Numbers
        PROVE  WindowOK(s)'
    <3>1. CASE s = Current.target
      <4>1. windows'[s] = NoWindow
        BY <1>1, <2>1, <3>1
      <4> QED
        BY <4>1 DEF WindowOK
    <3>2. CASE s # Current.target
      <4>1. windows'[s] = windows[s]
        BY <1>1, <2>1, <3>2
      <4>2. \A t \in Numbers : undoOf'[t] = s => undoOf[t] = s
        BY <2>2, <3>2 DEF Shape, HistoryOK
      <4> QED
        BY <4>1, <4>2, WindowStays
    <3> QED
      BY <3>1, <3>2
  <2> QED
    BY <2>3, <2>4 DEF WindowsOK
<1>5. CASE Restart
  <2>1. windows' = [r \in Numbers |-> NoWindow]
    BY <1>5 DEF Restart
  <2> QED
    BY <2>1 DEF WindowsOK, WindowOK
<1> QED
  BY <1>2, <1>3, <1>4, <1>5, Steps, RequestFrames, CallFrames, LoopFrames, HandleFrames,
     AwaitFrames, RoomFrames, ClockFrames, StutterFrames

\* A queue is what the sweep found, less what it has announced.
LEMMA QueueStep ==
  ASSUME Shape, [PlaneNext]_planeVars
  PROVE  \/ listener'.queue \subseteq listener.queue
         \/ EndBatch /\ listener'.queue = ToSweep
<1>1. CASE UNCHANGED listener
  BY <1>1
<1>2. CASE Sync \/ Notice
  BY <1>2, ListenerIs DEF Sync, Notice, Listener
<1>3. CASE EndBatch
  BY <1>3, ListenerIs DEF EndBatch, Listener
<1>4. CASE BackToSync
  BY <1>4, BackMoves
<1>5. CASE AlreadySeen
  BY <1>5, ListenerIs DEF AlreadySeen, Listener
<1>6. CASE Handle
  BY <1>5, <1>6, HandleMoves DEF HandlerMoves
<1>7. CASE Await
  BY <1>4, <1>7, AwaitMoves
<1>8. CASE Restart
  BY <1>8, FreshListenerIs DEF Restart
<1>9. NoticeFails => BackToSync
  BY DEF NoticeFails
<1> QED
  BY <1>1, <1>2, <1>3, <1>4, <1>6, <1>7, <1>8, <1>9, Steps, RequestFrames, CallFrames,
     RoomFrames, ClockFrames, StutterFrames

\* A send fails at most MaxFailures times.
LEMMA FailuresStep ==
  ASSUME Shape, [PlaneNext]_planeVars
  PROVE  failures' \in Nat /\ failures' <= MaxFailures /\ failures <= failures'
<1>1. failures \in Nat /\ failures <= MaxFailures /\ MaxFailures \in Nat
  BY PlaneAssumption DEF Shape, SweepOK
<1>2. CASE SendFails
  BY <1>1, <1>2 DEF SendFails
<1>3. CASE UNCHANGED failures
  BY <1>1, <1>3
<1>4. ASSUME NEW c \in Clients, CallStep(c)
      PROVE  SendFails \/ UNCHANGED failures
  BY <1>4 DEF CallStep, Posted, Recorded, PostFails
<1>5. CASE Await
  BY <1>2, <1>3, <1>5 DEF Await, Confirmed, ConfirmFails, UndoPosted, UndoRecorded, UndoPostFails
<1>6. NoticeFails => SendFails
  BY DEF NoticeFails
<1> QED
  BY <1>2, <1>3, <1>4, <1>5, <1>6, Steps, RequestFrames, LoopFrames, HandleFrames, RoomFrames,
     RestartFrames, ClockFrames, StutterFrames

LEMMA SweepStep ==
  ASSUME Shape, [PlaneNext]_planeVars
  PROVE  SweepOK'
<1>1. /\ failures \in Nat /\ failures' \in Nat /\ failures' <= MaxFailures
      /\ failures <= failures' /\ Ids \subseteq Ids'
  BY FailuresStep, StepGrows, NumbersThen DEF Shape, SweepOK
<1>2. CASE UNCHANGED <<swept, notices>>
  <2>1. listener'.queue \cap swept = {}
    BY QueueStep DEF ToSweep, Shape, SweepOK
  <2>2. ASSUME NEW r \in Numbers
        PROVE  /\ notices[r] > 0 => r \in Ids'
               /\ notices[r] <= failures' + 1 /\ (r \notin swept => notices[r] <= failures')
    BY <1>1 DEF Shape, SweepOK
  <2> QED
    BY <1>1, <1>2, <2>1, <2>2 DEF Shape, SweepOK
<1>3. CASE Notice
  <2>1. PICK n \in Ids : n = NextNotice /\ n \in listener.queue
    BY <1>3, NextNoticeIs DEF Notice
  <2>2. /\ swept' = swept \cup {n} /\ notices' = [notices EXCEPT ![n] = @ + 1]
        /\ listener'.queue = listener.queue \ {n}
        /\ n \notin swept /\ n \in Numbers
    BY <1>3, <2>1, ListenerIs, NumbersAre DEF Notice, Listener, Shape, SweepOK
  <2>3. ASSUME NEW r \in Numbers
        PROVE  /\ notices'[r] \in Nat
               /\ notices'[r] > 0 => r \in Ids
               /\ notices'[r] <= failures' + 1 /\ (r \notin swept' => notices'[r] <= failures')
    BY <1>1, <2>1, <2>2 DEF Shape, SweepOK
  <2>4. notices' \in [Numbers -> Nat]
    BY <2>2 DEF Shape, SweepOK
  <2>5. listener'.queue \cap swept' = {} /\ swept' \subseteq Ids
    BY <2>2 DEF Shape, SweepOK
  <2> QED
    BY <1>1, <2>3, <2>4, <2>5 DEF SweepOK
<1>4. CASE NoticeFails
  <2>1. PICK n \in Ids : n = NextNotice
    BY <1>4, NextNoticeIs DEF NoticeFails
  <2>2. /\ UNCHANGED swept /\ failures' = failures + 1
        /\ UNCHANGED notices \/ notices' = [notices EXCEPT ![n] = @ + 1]
        /\ listener'.queue = {}
        /\ n \in Numbers
    BY <1>4, <2>1, BackMoves, NumbersAre DEF NoticeFails, SendFails
  <2>3. ASSUME NEW r \in Numbers
        PROVE  /\ notices'[r] \in Nat
               /\ notices'[r] > 0 => r \in Ids
               /\ notices'[r] <= failures' + 1 /\ (r \notin swept => notices'[r] <= failures')
    BY <1>1, <2>1, <2>2 DEF Shape, SweepOK
  <2>4. notices' \in [Numbers -> Nat]
    BY <2>2 DEF Shape, SweepOK
  <2> QED
    BY <1>1, <2>2, <2>3, <2>4 DEF SweepOK, Shape
<1>5. CASE Restart
  <2>1. /\ swept' = {} /\ notices' = [r \in Numbers |-> 0] /\ listener'.queue = {}
    BY <1>5, FreshListenerIs DEF Restart
  <2>2. ASSUME NEW r \in Numbers
        PROVE  /\ notices'[r] > 0 => r \in Ids'
               /\ notices'[r] <= failures' + 1 /\ (r \notin swept' => notices'[r] <= failures')
    <3>1. notices'[r] = 0
      BY <2>1
    <3>2. notices'[r] > 0 => r \in Ids'
      BY <3>1
    <3>3. notices'[r] <= failures'
      BY <1>1, <3>1
    <3>4. failures' \in Nat /\ notices'[r] \in Nat
      BY <1>1, <3>1
    <3>5. notices'[r] <= failures' + 1
      BY <3>3, <3>4
    <3> QED
      BY <3>2, <3>3, <3>5
  <2>3. notices' \in [Numbers -> Nat]
    BY <2>1
  <2> QED
    BY <1>1, <2>1, <2>2, <2>3 DEF SweepOK
<1> QED
  BY <1>2, <1>3, <1>4, <1>5, Steps, RequestFrames, CallFrames, LoopFrames, HandleFrames,
     AwaitFrames, RoomFrames, ClockFrames, StutterFrames

LEMMA ShapeInit == PlaneInit => Shape
<1> SUFFICES ASSUME PlaneInit PROVE Shape
  OBVIOUS
<1>1. IInv /\ grants = <<>> /\ Ids = {} /\ Len(grants) <= MaxRequests
  <2>1. IInv /\ grants = <<>>
    BY InvInit DEF PlaneInit, StoreInit
  <2>2. Len(grants) = 0 /\ Ids = {}
    BY <2>1 DEF Ids
  <2> QED
    BY <2>1, <2>2, StoreAssumption
<1>2. timeline = <<>> /\ Len(timeline) = 0
  BY DEF PlaneInit
<1>3. RoomOK
  BY <1>2 DEF PlaneInit, StoreInit, RoomOK, NoRequest
<1>4. CallsOK
  BY DEF PlaneInit, CallsOK, IdleCall, CallState, NoRequest
<1>5. ListenerOK
  BY <1>2, FreshListenerIs DEF PlaneInit, ListenerOK
<1>6. WindowsOK
  BY DEF PlaneInit, WindowsOK, WindowOK
<1>7. HistoryOK
  BY DEF PlaneInit, HistoryOK, NoRequest
<1>8. SweepOK
  BY FreshListenerIs, PlaneAssumption DEF PlaneInit, SweepOK
<1> QED
  BY <1>1, <1>3, <1>4, <1>5, <1>6, <1>7, <1>8 DEF Shape

LEMMA ShapeStep == Shape /\ [PlaneNext]_planeVars => Shape'
<1> SUFFICES ASSUME Shape, [PlaneNext]_planeVars PROVE Shape'
  OBVIOUS
<1>1. IInv' /\ Len(grants') <= MaxRequests
  BY StepGrows DEF RowsGrow
<1> QED
  BY <1>1, RoomStep, CallsStep, ListenerStays, WindowsStep, HistoryStep, SweepStep DEF Shape

LEMMA ShapeInductive == PlaneSpec => []Shape
BY ShapeInit, ShapeStep, PTL DEF PlaneSpec

-----------------------------------------------------------------------------
(* The store, as the plane uses it *)

\* However the plane's coroutines interleave, timestamps, state and source of
\* every row agree, also of the rows that mass revocation and undo write.
THEOREM PlaneCoherent == PlaneSpec => []RowsCoherent
<1>1. Shape => RowsCoherent
  BY DEF Shape, IInv, RowsCoherent, RowOK
<1> QED
  BY <1>1, ShapeInductive, PTL

\* No request of the plane is approved after its pending timeout.
THEOREM PlaneSilence == PlaneSpec => []SilenceGrantsNothing
<1>1. Shape => SilenceGrantsNothing
  BY DEF Shape, IInv, SilenceGrantsNothing, RowOK
<1> QED
  BY <1>1, ShapeInductive, PTL

\* Numbers are one-time for the plane too: mass revocation and undo included.
THEOREM PlaneOneTime == PlaneSpec => OneTimeUse
<1>1. Shape /\ [PlaneNext]_planeVars =>
        [\A r \in Ids :
           /\ r \in Ids'
           /\ grants[r].state # Pending =>
                \/ grants'[r] = grants[r]
                \/ /\ Effective(grants[r], now) = Active
                   /\ grants'[r] = RevokedRow(grants[r])]_storeVars
  BY StepGrows DEF RowsGrow, RowsMove, RowMove
<1> QED
  BY <1>1, ShapeInductive, PTL DEF PlaneSpec, OneTimeUse

\* No step of the plane makes a number grant more than was asked for.
THEOREM PlaneNarrowing == PlaneSpec => NeverWidens
<1>1. Shape /\ [PlaneNext]_planeVars =>
        [\A r \in Ids :
           /\ ItemsOf(grants'[r]) \subseteq ItemsOf(grants[r])
           /\ grants'[r].instance = grants[r].instance
           /\ grants'[r].created = grants[r].created]_storeVars
  BY StepGrows DEF RowsGrow, RowsMove, RowMove
<1> QED
  BY <1>1, ShapeInductive, PTL DEF PlaneSpec, NeverWidens

-----------------------------------------------------------------------------
(* The human gate *)

\* Only a command of the approver that names a number grants it.
LEMMA GateStep ==
  ASSUME Shape, ApprovalsAreOrdered, [PlaneNext]_planeVars
  PROVE  ApprovalsAreOrdered'
<1>1. RowsGrow /\ RoomGrows /\ Ids' \subseteq Numbers
  BY StepGrows, NumbersThen
<1>2. ASSUME NEW r \in Ids', grants'[r].expires # Null
      PROVE  /\ r # NoRequest
             /\ \E i \in 1..Len(timeline) : approvedBy'[r] = i /\ Orders(i, r)
  <2>1. r \in Ids /\ r # NoRequest /\ (grants[r].expires # Null \/ Undecided(r))
    BY <1>1, <1>2, IdsAre DEF RowsGrow, Shape
  <2>2. grants[r].expires # Null => Orders(approvedBy[r], r)
    BY <2>1, TimelineIs DEF ApprovalsAreOrdered, Orders, Shape
  <2>3. CASE DecideApprove
    <3>1. /\ Addressed \in Ids /\ Position \in 1..Len(timeline)
          /\ Orders(Position, Addressed)
      BY <2>3, AddressedIs DEF DecideApprove, Orders, Current
    <3>2. /\ approvedBy'[Addressed] = Position
          /\ \A s \in Numbers : s # Addressed => approvedBy'[s] = approvedBy[s]
      BY <2>3, <3>1, NumbersAre DEF DecideApprove, Shape, HistoryOK
    <3>3. r # Addressed => grants'[r] = grants[r]
      BY <2>1, <2>3, ApproveRows
    <3> QED
      BY <1>1, <1>2, <2>1, <2>2, <3>1, <3>2, <3>3 DEF Orders
  <2>4. CASE ~DecideApprove
    <3>1. grants[r].expires # Null
      BY <1>2, <2>4, StepGrows DEF NoneGranted
    <3>2. UNCHANGED approvedBy
      BY <2>4, Steps, RequestFrames, CallFrames, LoopFrames, HandleFrames, AwaitFrames,
         RoomFrames, RestartFrames, ClockFrames, StutterFrames
    <3> QED
      BY <2>1, <2>2, <3>1, <3>2 DEF Orders
  <2> QED
    BY <2>3, <2>4
<1>3. ASSUME NEW r \in Ids', NEW i \in 1..Len(timeline), Orders(i, r), r # NoRequest
      PROVE  /\ i \in DOMAIN timeline' /\ timeline'[i] = timeline[i]
             /\ timeline[i].via = "reaction" => carried'[timeline[i].target] = r
  <2>1. i \in DOMAIN timeline' /\ timeline'[i] = timeline[i]
    BY <1>1, TimelineIs DEF RoomGrows, Shape
  <2>2. InputOK(timeline[i])
    BY DEF Shape, RoomOK
  <2> QED
    BY <1>1, <1>3, <2>1, <2>2 DEF Orders, InputOK, RoomGrows
<1> QED
  BY <1>2, <1>3 DEF ApprovalsAreOrdered, Orders

\* Whatever is granted, the approver ordered it by number, in the words or by a
\* reaction to the message that shows the request.
THEOREM HumanGate == PlaneSpec => []ApprovalsAreOrdered
<1>1. PlaneInit => ApprovalsAreOrdered
  BY DEF PlaneInit, StoreInit, ApprovalsAreOrdered, Ids
<1> QED
  BY <1>1, ShapeInductive, GateStep, PTL DEF PlaneSpec

-----------------------------------------------------------------------------
(* The room is told the truth *)

\* A verdict that is true stays true: nobody decides a number twice, and what
\* revokes a grant leaves it an approved one.
LEMMA TruthStays ==
  ASSUME Shape, RowsGrow, NEW v \in Verdict, True(v)
  PROVE  True(v)'
<1> DEFINE old == grants[v.rid]
           new == grants'[v.rid]
<1>1. /\ v.rid \in Ids /\ v.rid \in Ids' /\ RowOK(old) /\ RowMove(old, new, now)
      /\ old.source \in Outcome(v.kind)
  BY ClockOK DEF True, Shape, RowsGrow, RowsMove
<1>2. v.kind \in {"approved", "rejected", "revoked"}
  BY DEF Verdict
<1>3. old.source # Null
  BY <1>1, <1>2, NullAssumption DEF Outcome, Source
<1>4. old.state # Pending
  BY <1>1, <1>3 DEF RowOK, RowCoherent
<1>5. CASE new = old
  BY <1>1, <1>5 DEF True
<1>6. CASE Effective(old, now) = Active /\ new = RevokedRow(old)
  <2>1. old.source = "approval" /\ new.source = "revocation"
    BY <1>1, <1>6 DEF Effective, Active, Expired, RowOK, RowCoherent, RevokedRow, Row, Revoked
  <2>2. v.kind = "approved"
    BY <1>1, <1>2, <2>1 DEF Outcome
  <2>3. new.source \in Outcome(v.kind)
    BY <2>1, <2>2 DEF Outcome
  <2> QED
    BY <1>1, <2>3 DEF True
<1> QED
  BY <1>1, <1>4, <1>5, <1>6 DEF RowMove

\* What the listener is about to say is true.
LEMMA SayingStep ==
  ASSUME Shape, VerdictsOK, [PlaneNext]_planeVars
  PROVE  \A v \in Verdict : listener'.saying = v => True(v)'
<1>1. RowsGrow
  BY StepGrows
<1>2. CASE listener'.saying = listener.saying
  <2>1. ASSUME NEW v \in Verdict, listener.saying = v
        PROVE  True(v)'
    BY <1>1, <2>1, TruthStays DEF VerdictsOK
  <2> QED
    BY <1>2, <2>1
<1>3. CASE listener'.saying.kind \notin {"approved", "rejected", "revoked"}
  BY <1>3 DEF Verdict
<1>4. Silence.kind \notin {"approved", "rejected", "revoked"}
  BY DEF Silence
<1>5. CASE Handle
  <2>1. CASE AlreadySeen
    BY <1>2, <2>1, ListenerIs DEF AlreadySeen, Listener
  <2>2. CASE Ignore
    BY <1>2, <2>2, DispatchedIs DEF Ignore
  <2>3. CASE UndoFiled
    BY <1>2, <2>3, DispatchedIs DEF UndoFiled, Listener
  <2>4. ASSUME NEW kind \in Kind, NEW r \in Nat, Dispatching, Say(kind, r)
        PROVE  listener'.saying = [kind |-> kind, rid |-> r]
    BY <2>4, SayIs
  <2>5. CASE Report \/ Refuse \/ RevokeMany \/ UndoRefused
    <3>1. PICK kind \in {"status", "unknown", "refused", "summary", "closed"} :
            Dispatching /\ Say(kind, NoRequest)
      BY <2>5, Zenon DEF Report, Refuse, Ordered, RevokeMany, UndoRefused
    <3>2. kind \in Kind /\ NoRequest \in Nat
      BY DEF Kind, NoRequest
    <3>3. listener'.saying = [kind |-> kind, rid |-> NoRequest]
      BY <2>4, <3>1, <3>2
    <3> QED
      BY <1>3, <3>3
  <2>6. ASSUME NEW kind \in {"approved", "rejected", "revoked"}, NEW r \in Ids,
               Dispatching, Say(kind, r), r \in Ids', grants'[r].source \in Outcome(kind)
        PROVE  \A v \in Verdict : listener'.saying = v => True(v)'
    <3>1. listener'.saying = [kind |-> kind, rid |-> r]
      BY <2>4, <2>6, IdsAre DEF Kind, Shape
    <3>2. ASSUME NEW v \in Verdict, v = [kind |-> kind, rid |-> r]
          PROVE  True(v)'
      BY <2>6, <3>2 DEF True
    <3> QED
      BY <3>1, <3>2
  <2>7. CASE DecideApprove
    BY <2>6, <2>7, AddressedIs, ApproveRows DEF DecideApprove, Ordered, Outcome
  <2>8. CASE DecideReject
    BY <2>6, <2>8, RejectRows DEF DecideReject, Ordered, Outcome
  <2>9. CASE DecideRevoke
    BY <2>6, <2>9, RevokeRows DEF DecideRevoke, Ordered, Outcome
  <2> QED
    BY <1>5, <2>1, <2>2, <2>3, <2>5, <2>7, <2>8, <2>9 DEF Handle
<1>6. CASE BackToSync
  BY <1>3, <1>4, <1>6, BackMoves
<1>7. CASE Await
  BY <1>2, <1>3, <1>4, <1>6, <1>7, AwaitMoves
<1>8. CASE Sync \/ EndBatch \/ Notice
  BY <1>2, <1>8, LoopMoves
<1>9. CASE Restart
  BY <1>3, <1>4, <1>9, FreshListenerIs DEF Restart
<1>10. NoticeFails => BackToSync
  BY DEF NoticeFails
<1> QED
  BY <1>2, <1>5, <1>6, <1>7, <1>8, <1>9, <1>10, Steps, RequestFrames, CallFrames,
     RoomFrames, ClockFrames, StutterFrames

LEMMA VerdictsStep ==
  ASSUME Shape, VerdictsOK, [PlaneNext]_planeVars
  PROVE  VerdictsOK'
<1>1. RowsGrow
  BY StepGrows
<1>2. \A v \in said : v \in Verdict /\ True(v)'
  BY <1>1, TruthStays DEF VerdictsOK
<1>3. \A v \in said' : v \in said \/ (v = listener.saying /\ v \in Verdict)
  BY Steps, RequestFrames, CallFrames, LoopFrames, HandleFrames, AwaitFrames, RoomFrames,
     RestartFrames, ClockFrames, StutterFrames
  DEF Confirmed, ConfirmFails, Delivered
<1>4. ASSUME NEW v \in Verdict, v = listener.saying
      PROVE  True(v)'
  BY <1>1, <1>4, TruthStays DEF VerdictsOK
<1>5. ASSUME NEW v \in said'
      PROVE  v \in Verdict /\ True(v)'
  BY <1>2, <1>3, <1>4, <1>5
<1>6. listener'.saying \in Verdict => True(listener.saying)'
  BY SayingStep DEF True
<1>7. said' \subseteq Verdict /\ \A v \in said' : True(v)'
  BY <1>5
<1> QED
  BY <1>6, <1>7 DEF VerdictsOK

\* Every verdict confirmed in the room is the one in the store.
THEOREM VerdictsAreTrue == PlaneSpec => []VerdictsHold
<1>1. PlaneInit => VerdictsOK
  BY FreshListenerIs DEF PlaneInit, VerdictsOK, Verdict, Silence
<1>2. VerdictsOK => VerdictsHold
  BY DEF VerdictsOK, True, Outcome, VerdictsHold
<1> QED
  BY <1>1, <1>2, ShapeInductive, VerdictsStep, PTL DEF PlaneSpec

-----------------------------------------------------------------------------
(* Undo *)

\* What was re-filed stays what it is, and what is re-filed now was decided and
\* is nobody else's.
LEMMA UndoStep ==
  ASSUME Shape, UndoRefiles, [PlaneNext]_planeVars
  PROVE  UndoRefiles'
<1>1. RowsGrow /\ Ids' \subseteq Numbers /\ Ids \subseteq Ids'
  BY StepGrows, NumbersThen
<1>2. ASSUME NEW r \in Ids', undoOf'[r] # NoRequest, undoOf'[r] = undoOf[r]
      PROVE  /\ r \in Ids /\ undoOf[r] \in Ids
             /\ grants[undoOf[r]].state \in {Rejected, Revoked}
             /\ grants'[undoOf[r]] = grants[undoOf[r]]
             /\ grants'[r].instance = grants'[undoOf[r]].instance
             /\ ItemsOf(grants'[r]) \subseteq ItemsOf(grants'[undoOf[r]])
             /\ grants'[undoOf[r]].state = Rejected =>
                  grants'[r].created < grants'[undoOf[r]].decided + UndoGrace
             /\ \A s \in Ids \ {r} : undoOf[s] # undoOf[r]
  <2>1. /\ r \in Ids /\ undoOf[r] \in Ids /\ undoOf[r] # NoRequest
        /\ grants[undoOf[r]].state \in {Rejected, Revoked}
    BY <1>1, <1>2 DEF Shape, HistoryOK
  <2>2. grants'[undoOf[r]] = grants[undoOf[r]]
    BY <1>1, <2>1, DeadStays
  <2>3. RowMove(grants[r], grants'[r], now)
    BY <1>1, <2>1 DEF RowsGrow, RowsMove
  <2>4. /\ grants[r].instance = grants[undoOf[r]].instance
        /\ ItemsOf(grants[r]) \subseteq ItemsOf(grants[undoOf[r]])
        /\ grants[undoOf[r]].state = Rejected =>
             grants[r].created < grants[undoOf[r]].decided + UndoGrace
        /\ \A s \in Ids \ {r} : undoOf[s] # undoOf[r]
    BY <2>1 DEF UndoRefiles
  <2> QED
    BY <2>1, <2>2, <2>3, <2>4 DEF RowMove
<1>3. CASE UNCHANGED undoOf
  <2>1. ASSUME NEW r \in Ids', undoOf'[r] # NoRequest, NEW s \in Ids' \ {r}
        PROVE  undoOf'[s] # undoOf'[r]
    BY <1>1, <1>2, <1>3, <2>1 DEF Shape, HistoryOK
  <2> QED
    BY <1>2, <1>3, <2>1 DEF UndoRefiles, ItemsOf
<1>4. CASE UndoFiled
  <2> DEFINE n == Len(grants) + 1
             t == Current.target
  <2>1. /\ Ids' = Ids \cup {n} /\ n \notin Ids
        /\ t \in Ids /\ grants[t].state \in {Rejected, Revoked}
        /\ grants'[n] = FreshRow(grants[t].instance, grants[t].items, now)
        /\ grants[t].state = Rejected => now < grants[t].decided + UndoGrace
        /\ \A s \in Ids : undoOf[s] # t
    BY <1>4, UndoRows
  <2>2. undoOf' = [undoOf EXCEPT ![n] = t]
    BY <1>4 DEF UndoFiled
  <2> HIDE DEF n, t
  <2>3. \A s \in Ids' : undoOf'[s] = IF s = n THEN t ELSE undoOf[s]
    BY <1>1, <2>2 DEF Shape, HistoryOK
  <2>4. grants'[t] = grants[t]
    BY <1>1, <2>1, DeadStays
  <2>5. /\ grants'[n].instance = grants'[t].instance
        /\ ItemsOf(grants'[n]) \subseteq ItemsOf(grants'[t])
        /\ grants'[n].created = now
    BY <2>1, <2>4 DEF FreshRow, ItemsOf
  <2>6. ASSUME NEW r \in Ids', undoOf'[r] # NoRequest
        PROVE  /\ grants'[undoOf'[r]].state \in {Rejected, Revoked}
               /\ grants'[r].instance = grants'[undoOf'[r]].instance
               /\ ItemsOf(grants'[r]) \subseteq ItemsOf(grants'[undoOf'[r]])
               /\ grants'[undoOf'[r]].state = Rejected =>
                    grants'[r].created < grants'[undoOf'[r]].decided + UndoGrace
               /\ \A s \in Ids' \ {r} : undoOf'[s] # undoOf'[r]
    <3>1. CASE r = n
      BY <2>1, <2>3, <2>4, <2>5, <3>1
    <3>2. CASE r # n
      <4>1. undoOf'[r] = undoOf[r] /\ r \in Ids
        BY <2>1, <2>3, <3>2
      <4> QED
        BY <1>2, <2>1, <2>3, <2>6, <4>1
    <3> QED
      BY <3>1, <3>2
  <2> QED
    BY <2>6 DEF UndoRefiles, ItemsOf
<1> QED
  BY <1>3, <1>4, Steps, RequestFrames, CallFrames, LoopFrames, HandleFrames, AwaitFrames,
     RoomFrames, RestartFrames, ClockFrames, StutterFrames

\* Undo never resurrects a number: it files what was decided, once, within the
\* grace, and for no item that was not there.
THEOREM UndoIsANewRequest == PlaneSpec => []UndoRefiles
<1>1. PlaneInit => UndoRefiles
  BY DEF PlaneInit, StoreInit, UndoRefiles, Ids
<1> QED
  BY <1>1, ShapeInductive, UndoStep, PTL DEF PlaneSpec

-----------------------------------------------------------------------------
(* The type invariant *)

\* A number exists in the room, and in a call, only once its request is stored.
NamesOK ==
  /\ \A e \in EventIds : carried[e] # NoRequest => carried[e] \in Ids
  /\ \A c \in Clients : calls[c].pc = "idle" => calls[c].rid = NoRequest

LEMMA NamesStep ==
  ASSUME Shape, NamesOK, [PlaneNext]_planeVars
  PROVE  NamesOK'
<1>1. Ids \subseteq Ids' /\ calls \in [Clients -> [pc : CallState, rid : Nat,
                                                   event : EventIds \cup {Null}]]
  BY StepGrows DEF RowsGrow, RowsMove, Shape, CallsOK
<1>2. ASSUME NEW e \in EventIds, carried'[e] # NoRequest
      PROVE  carried'[e] \in Ids'
  <2>1. CASE UNCHANGED carried
    BY <1>1, <1>2, <2>1 DEF NamesOK
  <2>2. ASSUME NEW r \in Ids, Post(r)
        PROVE  carried'[e] \in Ids'
    <3>1. carried' = [carried EXCEPT ![FreshEvent] = r] /\ carried'[FreshEvent] = r
      BY <2>2, PostedRoom
    <3>2. e # FreshEvent => carried'[e] = carried[e]
      BY <3>1 DEF Shape, RoomOK
    <3> QED
      BY <1>1, <1>2, <3>1, <3>2 DEF NamesOK
  <2>3. ASSUME NEW c \in Clients, CallStep(c)
        PROVE  carried'[e] \in Ids'
    <3>1. calls[c].pc # "idle"
      BY <2>3 DEF CallStep, Posted, Recorded, PostFails
    <3>2. calls[c].rid \in Ids
      BY <3>1 DEF Shape, CallsOK
    <3>3. UNCHANGED carried \/ Post(calls[c].rid)
      BY <2>3 DEF CallStep, Posted, Recorded, PostFails
    <3> QED
      BY <2>1, <2>2, <3>2, <3>3
  <2>4. CASE Await
    <3>1. UNCHANGED carried \/ (listener.pc = "undo_sending" /\ Post(listener.rid))
      BY <2>4 DEF Await, Confirmed, ConfirmFails, UndoPosted, UndoRecorded, UndoPostFails
    <3> QED
      BY <2>1, <2>2, <3>1 DEF Shape, ListenerOK
  <2> QED
    BY <2>1, <2>3, <2>4, Steps, RequestFrames, LoopFrames, HandleFrames, RoomFrames,
       RestartFrames, ClockFrames, StutterFrames
<1>3. ASSUME NEW c \in Clients, calls'[c].pc = "idle"
      PROVE  calls[c].pc = "idle" /\ calls'[c].rid = calls[c].rid
  <2>1. CASE UNCHANGED calls
    BY <1>3, <2>1
  <2>2. ASSUME NEW d \in Clients, NEW new, new.pc # "idle", calls' = [calls EXCEPT ![d] = new]
        PROVE  calls[c].pc = "idle" /\ calls'[c].rid = calls[c].rid
    BY <1>1, <1>3, <2>2
  <2>3. ASSUME NEW d \in Clients, NEW i \in Instances, NEW batch \in Batches,
               RequestAccess(d, i, batch)
        PROVE  calls[c].pc = "idle" /\ calls'[c].rid = calls[c].rid
    BY <2>2, <2>3 DEF RequestAccess
  <2>4. ASSUME NEW d \in Clients, CallStep(d)
        PROVE  calls[c].pc = "idle" /\ calls'[c].rid = calls[c].rid
    <3>1. c # d => calls'[c] = calls[c]
      BY <1>1, <2>4 DEF CallStep, Posted, Recorded, PostFails
    <3>2. calls'[d].pc \in {"marking", "pending", "error", "raised"}
      BY <1>1, <2>4 DEF CallStep, Posted, Recorded, PostFails
    <3> QED
      BY <1>3, <3>1, <3>2
  <2>5. CASE Restart
    BY <1>1, <1>3, <2>5 DEF Restart
  <2> QED
    BY <2>1, <2>3, <2>4, <2>5, Steps, LoopFrames, HandleFrames, AwaitFrames, RoomFrames,
       ClockFrames, StutterFrames
<1> QED
  BY <1>2, <1>3 DEF NamesOK

LEMMA ShapeTypes == Shape /\ VerdictsOK /\ NamesOK => PlaneTypeOK
<1> SUFFICES ASSUME Shape, VerdictsOK, NamesOK
             PROVE  PlaneTypeOK
  OBVIOUS
<1>1. StoreTypeOK
  BY DEF Shape, IInv, StoreTypeOK
<1>2. Ids \subseteq Numbers
  BY NumbersAre
<1>3. calls \in [Clients -> [pc : CallState, rid : Numbers \cup {NoRequest},
                             event : EventIds \cup {Null}]]
  <2>1. calls \in [Clients -> [pc : CallState, rid : Nat, event : EventIds \cup {Null}]]
    BY DEF Shape, CallsOK
  <2>2. \A c \in Clients : calls[c].rid \in Numbers \cup {NoRequest}
    BY <1>2 DEF Shape, CallsOK, NamesOK
  <2> QED
    BY <2>1, <2>2
<1>4. carried \in [EventIds -> Numbers \cup {NoRequest}]
  BY <1>2 DEF Shape, RoomOK, NamesOK
<1>5. /\ \A i \in DOMAIN timeline : timeline[i] \in Input
      /\ DOMAIN timeline = 1..Len(timeline) /\ horizon \in 0..Len(timeline)
  BY TimelineIs DEF Shape, RoomOK
<1>6. /\ listener.pc \in ListenerState
      /\ listener.pos <= listener.upto /\ listener.upto <= Len(timeline)
      /\ listener.seen \subseteq 1..Len(timeline)
      /\ listener.pc = "sweep" <=> listener.queue # {}
  BY ListenerIs DEF Listener
<1>7. swept \subseteq Numbers
  BY <1>2 DEF Shape, SweepOK
<1>8. notices \in [Numbers -> 0..(MaxFailures + 1)]
  <2>1. notices \in [Numbers -> Nat] /\ failures \in Nat /\ failures <= MaxFailures
    BY DEF Shape, SweepOK
  <2>2. ASSUME NEW r \in Numbers
        PROVE  notices[r] \in 0..(MaxFailures + 1)
    <3>1. notices[r] \in Nat /\ notices[r] <= failures + 1
      BY <2>1 DEF Shape, SweepOK
    <3> QED
      BY <2>1, <3>1, PlaneAssumption
  <2> QED
    BY <2>1, <2>2
<1>9. said \subseteq Verdict
  BY DEF VerdictsOK
<1> QED
  BY <1>1, <1>3, <1>4, <1>5, <1>6, <1>7, <1>8, <1>9 DEF PlaneTypeOK

\* The plane keeps its shape: calls, room, listener and sweep, in every state.
THEOREM PlaneTypes == PlaneSpec => []PlaneTypeOK
<1>1. PlaneInit => VerdictsOK /\ NamesOK
  BY FreshListenerIs
  DEF PlaneInit, VerdictsOK, Verdict, Silence, NamesOK, IdleCall
<1> QED
  BY <1>1, ShapeInductive, VerdictsStep, NamesStep, ShapeTypes, PTL DEF PlaneSpec

-----------------------------------------------------------------------------
(* Requests and single decisions, as calls of the store *)

\* What writes several rows in one step, or files what was approved before.
Extraordinary == {"undo", "revoke_all", "revoke_instance"}

\* Requests, single decisions, the room, restarts and the clock reach the tables
\* through the calls of the store only.
LEMMA StepOfTheStore ==
  ASSUME Shape, [PlaneNext]_planeVars,
         \A via \in {"reaction", "reply"}, act \in Extraordinary : <<via, act>> \notin Vocabulary
  PROVE  [StoreNext]_storeVars
<1>1. ASSUME NEW c \in Clients, NEW i \in Instances, NEW batch \in Batches,
             RequestAccess(c, i, batch)
      PROVE  StoreNext
  BY <1>1 DEF RequestAccess, StoreNext
<1>2. ASSUME NEW c \in Clients, CallStep(c)
      PROVE  [StoreNext]_storeVars
  <2>1. CASE Posted(c)
    BY <2>1 DEF Posted
  <2>2. CASE Recorded(c)
    <3>1. calls[c].rid \in Ids /\ calls[c].event \in EventIds
      BY <2>2 DEF Recorded, Shape, CallsOK
    <3> QED
      BY <2>2, <3>1 DEF Recorded, StoreNext
  <2>3. CASE PostFails(c)
    <3>1. calls[c].rid \in Ids
      BY <2>3 DEF PostFails, Shape, CallsOK
    <3> QED
      BY <2>3, <3>1 DEF PostFails, StoreNext
  <2> QED
    BY <1>2, <2>1, <2>2, <2>3 DEF CallStep
<1>3. CASE Sync \/ EndBatch \/ Notice \/ NoticeFails
  BY <1>3 DEF Sync, EndBatch, Notice, NoticeFails
<1>4. Dispatching => Current.act \notin Extraordinary
  <2> SUFFICES ASSUME Dispatching PROVE Current.act \notin Extraordinary
    OBVIOUS
  <2>1. Position \in 1..Len(timeline)
    BY DispatchedIs
  <2>2. Current \in Input /\ <<Current.via, Current.act>> \in Vocabulary
    BY <2>1, TimelineIs DEF Current, Shape, RoomOK, InputOK
  <2> QED
    BY <2>2 DEF Input
<1>5. CASE Handle
  <2>1. CASE AlreadySeen \/ Ignore
    BY <2>1 DEF AlreadySeen, Ignore
  <2>2. CASE Report \/ Refuse
    BY <2>2, Zenon DEF Report, Refuse
  <2>3. CASE DecideApprove
    BY <2>3 DEF DecideApprove, Ordered, StoreNext
  <2>4. CASE DecideReject
    BY <2>4 DEF DecideReject, Ordered, StoreNext
  <2>5. CASE DecideRevoke
    BY <2>5 DEF DecideRevoke, Ordered, StoreNext
  <2>6. ~RevokeMany /\ ~UndoRefused /\ ~UndoFiled
    BY <1>4 DEF RevokeMany, UndoRefused, UndoFiled, Extraordinary
  <2> QED
    BY <1>5, <2>1, <2>2, <2>3, <2>4, <2>5, <2>6 DEF Handle
<1>6. CASE Await
  <2>1. CASE Confirmed \/ ConfirmFails \/ UndoPosted \/ UndoPostFails
    BY <2>1 DEF Confirmed, ConfirmFails, UndoPosted, UndoPostFails
  <2>2. CASE UndoRecorded
    <3>1. listener.rid \in Ids /\ listener.event \in EventIds
      BY <2>2 DEF UndoRecorded, Shape, ListenerOK
    <3> QED
      BY <2>2, <3>1 DEF UndoRecorded, StoreNext
  <2> QED
    BY <1>6, <2>1, <2>2 DEF Await
<1>7. CASE RoomInput
  BY <1>7 DEF RoomInput, Type
<1>8. CASE Restart \/ Clock
  BY <1>8 DEF Restart, Clock, StoreNext
<1>9. CASE UNCHANGED planeVars
  BY <1>9 DEF planeVars
<1> QED
  BY <1>1, <1>2, <1>3, <1>5, <1>6, <1>7, <1>8, <1>9 DEF PlaneNext, ListenerStep

\* As long as the room uses neither undo nor a mass revocation, the plane changes
\* the tables in no other way than the calls of the store (a mass revocation is
\* several of them in one step, and undo files what was approved before).
THEOREM PlaneUsesTheStore ==
  ASSUME \A via \in {"reaction", "reply"}, act \in Extraordinary : <<via, act>> \notin Vocabulary
  PROVE  PlaneSpec => StoreSpec
<1>1. PlaneInit => StoreInit
  BY DEF PlaneInit
<1>2. Shape /\ [PlaneNext]_planeVars => [StoreNext]_storeVars
  BY StepOfTheStore
<1> QED
  BY <1>1, <1>2, ShapeInductive, PTL DEF PlaneSpec, StoreSpec
=============================================================================
