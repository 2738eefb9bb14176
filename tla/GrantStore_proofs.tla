-------------------------- MODULE GrantStore_proofs --------------------------
(***************************************************************************)
(* Proofs about the grant store, for every set of instances, items,         *)
(* batches and durations, any pending timeout, any clock (also one that     *)
(* steps back, except where monotonicity is assumed) and any number of      *)
(* requests.                                                               *)
(***************************************************************************)
EXTENDS GrantStore, SequenceTheorems, WellFoundedInduction, TLAPS

-----------------------------------------------------------------------------
(* Numbers, for the proofs here and in the modules that use the store *)

\* A set of numbers has a smallest element.
Below == {ss \in Nat \X Nat : ss[1] < ss[2]}

LEMMA Smallest ==
  ASSUME NEW S \in SUBSET Nat, S # {}
  PROVE  \E r \in S : \A s \in S : r <= s
<1>1. IsWellFoundedOn(Below, Nat)
  BY NatLessThanWellFounded DEF OpToRel, Below
<1>2. PICK r \in S : \A s \in S : <<s, r>> \notin Below
  BY <1>1, WFMin
<1>3. ASSUME NEW s \in S
      PROVE  r <= s
  <2>1. r \in Nat /\ s \in Nat /\ <<s, r>> \notin Below
    BY <1>2
  <2>2. ~(s < r)
    BY <2>1 DEF Below
  <2> QED
    BY <2>1, <2>2
<1> QED
  BY <1>3

\* A property of positions that carries over from each to the next holds of all.
LEMMA Positions ==
  ASSUME NEW L \in Nat, NEW Good \in SUBSET Nat, 0 \in Good,
         \A n \in 1..L : n - 1 \in Good => n \in Good
  PROVE  0..L \subseteq Good
<1> SUFFICES ASSUME (0..L) \ Good # {} PROVE FALSE
  OBVIOUS
<1>1. PICK m \in (0..L) \ Good : \A s \in (0..L) \ Good : m <= s
  <2>1. (0..L) \ Good \in SUBSET Nat
    OBVIOUS
  <2> QED
    BY <2>1, Smallest
<1>2. m \in 1..L /\ m - 1 \in 0..L /\ ~(m <= m - 1)
  BY <1>1
<1> QED
  BY <1>1, <1>2

-----------------------------------------------------------------------------
(* What each call writes in the row it touches *)

\* A fresh row is a coherent pending row, which no approval touched.
LEMMA FreshRowOK ==
  ASSUME NEW i \in Instances, NEW batch \in Seq(Items) \ {<<>>}, NEW t \in Times
  PROVE  /\ FreshRow(i, batch, t) \in Row
         /\ RowCoherent(FreshRow(i, batch, t))
         /\ FreshRow(i, batch, t).expires = Null
  BY StoreAssumption
  DEF FreshRow, Row, RowCoherent, StoredState, Source, Pending, Active,
      Revoked, Rejected

\* Choosing items of a batch gives a sequence of its items, as long as the
\* selection.
LEMMA ChosenOK ==
  ASSUME NEW batch \in Seq(Items), NEW sel \in Seq(Nat), ValidSelection(sel, batch)
  PROVE  /\ Chosen(batch, sel) \in Seq(Items)
         /\ Len(Chosen(batch, sel)) = Len(sel)
         /\ \A k \in DOMAIN Chosen(batch, sel) :
              \E j \in DOMAIN batch : Chosen(batch, sel)[k] = batch[j]
<1>1. /\ DOMAIN sel = 1..Len(sel)
      /\ Len(sel) \in Nat
      /\ \A k \in DOMAIN sel : sel[k] \in DOMAIN batch
  BY DEF ValidSelection
<1>2. \A j \in DOMAIN batch : batch[j] \in Items
  OBVIOUS
<1>3. \A k \in 1..Len(sel) : batch[sel[k]] \in Items
  BY <1>1, <1>2
<1>4. Chosen(batch, sel) = [k \in 1..Len(sel) |-> batch[sel[k]]]
  BY <1>1 DEF Chosen
<1>5. Chosen(batch, sel) \in Seq(Items)
  BY <1>1, <1>3, <1>4, IsASeq
<1>6. /\ DOMAIN Chosen(batch, sel) = 1..Len(sel)
      /\ Len(Chosen(batch, sel)) = Len(sel)
  BY <1>1, <1>4, <1>5
<1> QED
  BY <1>1, <1>4, <1>5, <1>6

\* A batch approved without item numbers is a selection of all its items.
LEMMA EverythingOK ==
  ASSUME NEW batch \in Seq(Items)
  PROVE  Everything(batch) \in Seq(Nat)
<1>1. DOMAIN batch = 1..Len(batch) /\ Len(batch) \in Nat
  OBVIOUS
<1> QED
  BY <1>1, IsASeq DEF Everything

-----------------------------------------------------------------------------
(* The invariant, row by row, and what one call may do to one row *)

RowOK(row) ==
  /\ row \in Row
  /\ RowCoherent(row)
  /\ row.expires # Null => row.decided - row.created < PendingTimeout + MaxDrift

RowMove(old, new, t) ==
  /\ ItemsOf(new) \subseteq ItemsOf(old)
  /\ new.instance = old.instance
  /\ new.created = old.created
  /\ old.state # Pending =>
       \/ new = old
       \/ /\ Effective(old, t) = Active
          /\ new = RevokedRow(old)

\* A row that no call touched.
LEMMA SameRowMove ==
  ASSUME NEW row, NEW t
  PROVE  RowMove(row, row, t)
  BY DEF RowMove

\* An approval is written while the request is pending, so the row it leaves
\* was decided in time.
LEMMA GrantedRowOK ==
  ASSUME NEW row, RowOK(row), NEW t \in Times, Effective(row, t) = Pending,
         NEW u \in Times, u <= t + MaxDrift,
         NEW sel \in Seq(Nat), sel # <<>>, ValidSelection(sel, row.items),
         NEW duration \in Durations
  PROVE  /\ RowOK(GrantedRow(row, sel, duration, u))
         /\ RowMove(row, GrantedRow(row, sel, duration, u), t)
<1> DEFINE new == GrantedRow(row, sel, duration, u)
<1>1. /\ row \in Row
      /\ row.items \in Seq(Items)
      /\ row.created \in Nat
  BY DEF RowOK, Row
<1>2. /\ t \in Nat /\ u \in Nat /\ u + duration \in Nat /\ u < u + duration
      /\ PendingTimeout \in Nat /\ MaxDrift \in Nat /\ Null \notin Nat
  BY StoreAssumption
<1>3. row.state = Pending /\ t - row.created < PendingTimeout
  <2>1. ~TimedOut(row, t) /\ row.state = Pending
    BY DEF Effective, Expired, Pending
  <2> QED
    BY <1>1, <1>2, <2>1 DEF TimedOut
<1>4. /\ Chosen(row.items, sel) \in Seq(Items)
      /\ Len(Chosen(row.items, sel)) = Len(sel)
      /\ \A k \in DOMAIN Chosen(row.items, sel) :
           \E j \in DOMAIN row.items : Chosen(row.items, sel)[k] = row.items[j]
  BY <1>1, ChosenOK
<1>5. Chosen(row.items, sel) # <<>>
  BY <1>4, EmptySeq
<1>6. new \in Row
  BY <1>1, <1>2, <1>4 DEF GrantedRow, Row, StoredState, Source
<1>7. /\ new.items = Chosen(row.items, sel) /\ new.instance = row.instance
      /\ new.created = row.created /\ new.expires = u + duration
      /\ new.decided = u /\ new.state = Active /\ new.source = "approval"
  BY <1>1 DEF GrantedRow, Row
<1>8. RowCoherent(new)
  BY <1>2, <1>5, <1>7 DEF RowCoherent, Active, Pending, Rejected, Revoked
<1>9. new.decided - new.created < PendingTimeout + MaxDrift
  BY <1>1, <1>2, <1>3, <1>7
<1>10. RowMove(row, new, t)
  BY <1>3, <1>4, <1>7 DEF RowMove, ItemsOf
<1> QED
  BY <1>6, <1>8, <1>9, <1>10 DEF RowOK

\* Closing a pending request grants nothing.
LEMMA ClosedRowOK ==
  ASSUME NEW row, RowOK(row), NEW t \in Times, Effective(row, t) = Pending,
         NEW u \in Times,
         NEW source \in {"rejection", "partial_empty", "pending_revoke"}
  PROVE  /\ RowOK(ClosedRow(row, source, u))
         /\ RowMove(row, ClosedRow(row, source, u), t)
<1> DEFINE new == ClosedRow(row, source, u)
<1>1. row.state = Pending
  BY DEF Effective, Expired, Pending
<1>2. /\ row \in Row
      /\ row.items # <<>>
      /\ row.expires = Null
      /\ u \in Nat
  BY <1>1, StoreAssumption DEF RowOK, RowCoherent
<1>3. /\ new \in Row
      /\ new = [row EXCEPT !.state = Rejected, !.source = source, !.decided = u]
  BY <1>2 DEF ClosedRow, Row, StoredState, Source
<1>4. /\ new.items = row.items /\ new.instance = row.instance
      /\ new.created = row.created /\ new.expires = Null
      /\ new.state = Rejected /\ new.source = source
  BY <1>2, <1>3 DEF Row
<1>5. RowCoherent(new)
  BY <1>2, <1>4 DEF RowCoherent, Source, Pending, Rejected, Active, Revoked
<1>6. RowMove(row, new, t)
  BY <1>1, <1>4 DEF RowMove, ItemsOf
<1> QED
  BY <1>3, <1>4, <1>5, <1>6 DEF RowOK

\* A revocation leaves the items and the timestamps of a live grant alone.
LEMMA RevokedRowOK ==
  ASSUME NEW row, RowOK(row), NEW t, Effective(row, t) = Active
  PROVE  /\ RowOK(RevokedRow(row))
         /\ RowMove(row, RevokedRow(row), t)
<1> DEFINE new == RevokedRow(row)
<1>1. row.state = Active
  BY DEF Effective, Expired, Active
<1>2. /\ row \in Row
      /\ RowCoherent(row)
      /\ row.expires # Null => row.decided - row.created < PendingTimeout + MaxDrift
  BY DEF RowOK
<1>3. /\ new \in Row
      /\ new.items = row.items /\ new.instance = row.instance
      /\ new.created = row.created /\ new.expires = row.expires
      /\ new.decided = row.decided
      /\ new.state = Revoked /\ new.source = "revocation"
  BY <1>2 DEF RevokedRow, Row, StoredState, Source
<1>4. RowCoherent(new)
  BY <1>1, <1>2, <1>3 DEF RowCoherent, Pending, Rejected, Active, Revoked
<1>5. RowMove(row, new, t)
  BY <1>3 DEF RowMove, ItemsOf
<1> QED
  BY <1>2, <1>3, <1>4, <1>5 DEF RowOK

\* A restart closes pending requests, timed out or not, and nothing else.
LEMMA DiscardedRowOK ==
  ASSUME NEW row, RowOK(row), NEW t
  PROVE  /\ RowOK(DiscardedRow(row))
         /\ RowMove(row, DiscardedRow(row), t)
<1> DEFINE new == DiscardedRow(row)
<1>1. CASE row.state # Pending
  BY <1>1, SameRowMove DEF DiscardedRow
<1>2. CASE row.state = Pending
  <2>1. /\ row \in Row
        /\ row.items # <<>>
        /\ row.expires = Null
    BY <1>2 DEF RowOK, RowCoherent
  <2>2. /\ new \in Row
        /\ new.items = row.items /\ new.instance = row.instance
        /\ new.created = row.created /\ new.expires = Null
        /\ new.state = Rejected /\ new.source = "restart_discard"
    BY <1>2, <2>1 DEF DiscardedRow, Row, StoredState, Source
  <2>3. RowCoherent(new)
    BY <2>1, <2>2 DEF RowCoherent, Source, Pending, Rejected, Active, Revoked
  <2>4. RowMove(row, new, t)
    BY <1>2, <2>2 DEF RowMove, ItemsOf
  <2> QED
    BY <2>2, <2>3, <2>4 DEF RowOK
<1> QED
  BY <1>1, <1>2

-----------------------------------------------------------------------------
(* The inductive invariant *)

\* SilenceGrantsNothing alone is not inductive: an approval needs the row to be
\* pending and its dates to be numbers, a revocation needs the dates to stay.
IInv ==
  /\ now \in Times
  /\ grants \in Seq(Row)
  /\ posted \in [EventIds -> Nat]
  /\ \A r \in Ids : RowOK(grants[r])

\* What a step may do to the rows there are.
RowsMove ==
  \A r \in Ids : r \in Ids' /\ RowMove(grants[r], grants'[r], now)

\* The empty tables of a new file satisfy the invariant.
LEMMA InvInit == StoreInit => IInv
<1> SUFFICES ASSUME StoreInit PROVE IInv
  OBVIOUS
<1>1. grants = <<>> /\ Ids = {}
  BY DEF StoreInit, Ids
<1>2. grants \in Seq(Row)
  BY <1>1
<1> QED
  BY <1>1, <1>2 DEF StoreInit, IInv, NoRequest

\* Replacing one row by one it may move to keeps the invariant of the table.
LEMMA ReplacedRow ==
  ASSUME IInv, NEW r \in Ids, NEW new,
         RowOK(new), RowMove(grants[r], new, now),
         grants' = [grants EXCEPT ![r] = new],
         now' \in Times, posted' = posted
  PROVE  /\ IInv' /\ RowsMove
         /\ Ids' = Ids /\ grants'[r] = new
         /\ \A s \in Ids : s # r => grants'[s] = grants[s]
<1>1. grants \in Seq(Row) /\ Ids = 1..Len(grants) /\ new \in Row
  BY DEF IInv, Ids, RowOK
<1>2. /\ grants' \in Seq(Row)
      /\ Ids' = Ids
      /\ grants'[r] = new
      /\ \A s \in Ids : s # r => grants'[s] = grants[s]
  BY <1>1, ExceptSeq DEF Ids
<1>3. \A s \in Ids : RowOK(grants'[s]) /\ RowMove(grants[s], grants'[s], now)
  <2> TAKE s \in Ids
  <2>1. CASE s = r
    BY <2>1, <1>2
  <2>2. CASE s # r
    BY <2>2, <1>2, SameRowMove DEF IInv
  <2> QED
    BY <2>1, <2>2
<1>4. IInv'
  <2>1. \A s \in Ids' : RowOK(grants'[s])
    BY <1>2, <1>3
  <2>2. \A s \in Ids' : RowOK(grants[s])'
    BY <2>1 DEF RowOK, RowCoherent
  <2> QED
    BY <1>2, <2>2 DEF IInv
<1> QED
  BY <1>2, <1>3, <1>4 DEF RowsMove

\* A step that leaves the table alone.
LEMMA SameTable ==
  ASSUME IInv, grants' = grants, now' \in Times, posted' \in [EventIds -> Nat]
  PROVE  IInv' /\ RowsMove
<1>1. IInv'
  BY DEF IInv, Ids, RowOK, RowCoherent
<1> QED
  BY <1>1, SameRowMove DEF RowsMove, Ids

\* The clock of a step is a clock of the store.
LEMMA ClockOK ==
  ASSUME IInv
  PROVE  /\ now \in Times
         /\ \A r \in Ids : RowOK(grants[r])
         /\ \A t \in Readings : t \in Times /\ t <= now + MaxDrift
BY DEF IInv, Readings

\* Each call keeps the invariant and moves each row as RowMove allows.  A request
\* need not be one of the batches the agent sends: undo files what it likes.
LEMMA CreateStep ==
  ASSUME IInv, NEW i \in Instances, NEW batch \in Seq(Items) \ {<<>>},
         CreateRequest(i, batch)
  PROVE  /\ IInv' /\ RowsMove
         /\ Ids = 1..Len(grants) /\ Ids' = 1..(Len(grants) + 1) /\ Len(grants) \in Nat
         /\ \A r \in Ids : grants'[r] = grants[r]
         /\ grants'[Len(grants) + 1] = FreshRow(i, batch, now)
<1> DEFINE new == FreshRow(i, batch, now)
<1>1. RowOK(new) /\ new \in Row
  BY ClockOK, FreshRowOK DEF RowOK
<1>2. /\ grants' = Append(grants, new)
      /\ now' = now
      /\ posted' = posted
      /\ grants \in Seq(Row)
  BY DEF CreateRequest, IInv
<1>3. /\ grants' \in Seq(Row)
      /\ Ids = 1..Len(grants)
      /\ Len(grants) \in Nat
      /\ Ids' = 1..(Len(grants) + 1)
      /\ \A r \in Ids : grants'[r] = grants[r]
      /\ grants'[Len(grants) + 1] = new
  BY <1>1, <1>2, AppendProperties DEF Ids
<1>4. \A r \in Ids' : RowOK(grants'[r])
  BY <1>1, <1>3, ClockOK
<1>5. \A r \in Ids' : RowOK(grants[r])'
  BY <1>4 DEF RowOK, RowCoherent
<1>6. IInv'
  BY <1>2, <1>3, <1>5 DEF IInv
<1> QED
  BY <1>3, <1>6, SameRowMove DEF RowsMove

LEMMA ApproveStep ==
  ASSUME IInv, NEW r \in Ids, NEW duration \in Durations,
         NEW sel \in Selections \cup {Everything(grants[r].items)},
         Approve(r, sel, duration)
  PROVE  /\ IInv' /\ RowsMove /\ Ids' = Ids
         /\ \A s \in Ids : s # r => grants'[s] = grants[s]
         /\ sel # <<>> => grants'[r].source = "approval"
<1>1. PICK t \in Readings :
        /\ now' = t
        /\ grants' = [grants EXCEPT ![r] =
             IF sel = <<>> THEN ClosedRow(grants[r], "partial_empty", t)
                           ELSE GrantedRow(grants[r], sel, duration, t)]
  BY DEF Approve
<1>2. /\ Effective(grants[r], now) = Pending
      /\ ValidSelection(sel, grants[r].items)
      /\ posted' = posted
      /\ sel \in Seq(Nat)
      /\ grants[r] \in Row
  BY ClockOK, EverythingOK, StoreAssumption DEF Approve, Undecided, RowOK, Row
<1>3. CASE sel = <<>>
  BY <1>1, <1>2, <1>3, ClockOK, ClosedRowOK, ReplacedRow
<1>4. CASE sel # <<>>
  <2>1. GrantedRow(grants[r], sel, duration, t).source = "approval"
    BY <1>2 DEF GrantedRow, Row
  <2> QED
    BY <1>1, <1>2, <1>4, <2>1, ClockOK, GrantedRowOK, ReplacedRow
<1> QED
  BY <1>3, <1>4

LEMMA CloseStep ==
  ASSUME IInv, NEW r \in Ids, NEW source \in {"rejection", "pending_revoke"},
         NEW t \in Readings, Undecided(r), now' = t, posted' = posted,
         grants' = [grants EXCEPT ![r] = ClosedRow(grants[r], source, t)]
  PROVE  /\ IInv' /\ RowsMove /\ Ids' = Ids
         /\ grants'[r] = ClosedRow(grants[r], source, t)
         /\ \A s \in Ids : s # r => grants'[s] = grants[s]
BY ClockOK, ClosedRowOK, ReplacedRow DEF Undecided

LEMMA RevokeActiveStep ==
  ASSUME IInv, NEW r \in Ids, RevokeActive(r)
  PROVE  /\ IInv' /\ RowsMove /\ Ids' = Ids
         /\ grants'[r] = RevokedRow(grants[r])
         /\ \A s \in Ids : s # r => grants'[s] = grants[s]
BY ClockOK, RevokedRowOK, ReplacedRow DEF RevokeActive, ActiveGrants

LEMMA RecordPostedStep ==
  ASSUME IInv, NEW e \in EventIds, NEW r \in Ids, RecordPosted(e, r)
  PROVE  IInv' /\ RowsMove
<1>1. r \in Nat
  BY DEF IInv, Ids
<1>2. posted' \in [EventIds -> Nat]
  BY <1>1 DEF RecordPosted, IInv
<1> QED
  BY <1>2, ClockOK, SameTable DEF RecordPosted

\* The table is rewritten, row by row.
LEMMA RewrittenTable ==
  ASSUME IInv, NEW new, new = [r \in Ids |-> new[r]],
         \A r \in Ids : RowOK(new[r]) /\ RowMove(grants[r], new[r], now),
         grants' = new, now' = now, posted' = posted
  PROVE  IInv' /\ RowsMove /\ Ids' = Ids
<1>1. Ids = 1..Len(grants) /\ Len(grants) \in Nat
  BY DEF IInv, Ids
<1>2. grants' \in Seq(Row) /\ Ids' = Ids
  <2>1. \A r \in 1..Len(grants) : new[r] \in Row
    BY <1>1 DEF RowOK
  <2>2. [r \in 1..Len(grants) |-> new[r]] \in Seq(Row)
    BY <1>1, <2>1, IsASeq
  <2> QED
    BY <1>1, <2>2 DEF Ids
<1>3. \A r \in Ids' : RowOK(grants[r])'
  <2>1. \A r \in Ids' : RowOK(grants'[r])
    BY <1>2
  <2> QED
    BY <2>1 DEF RowOK, RowCoherent
<1>4. IInv'
  BY <1>2, <1>3 DEF IInv
<1> QED
  BY <1>2, <1>4 DEF RowsMove

LEMMA ReopenStep ==
  ASSUME IInv, Reopen
  PROVE  /\ IInv' /\ RowsMove /\ Ids' = Ids
         /\ \A r \in Ids : grants'[r] = DiscardedRow(grants[r])
<1> DEFINE new == [r \in Ids |-> DiscardedRow(grants[r])]
<1>1. grants' = new /\ now' = now /\ posted' = posted
  BY DEF Reopen
<1>2. \A r \in Ids : new[r] = DiscardedRow(grants[r])
  OBVIOUS
<1>3. new = [r \in Ids |-> new[r]]
  OBVIOUS
<1>4. \A r \in Ids : RowOK(new[r]) /\ RowMove(grants[r], new[r], now)
  BY <1>2, ClockOK, DiscardedRowOK
<1> HIDE DEF new
<1> QED
  BY <1>1, <1>2, <1>3, <1>4, RewrittenTable

LEMMA TickStep ==
  ASSUME IInv, Tick
  PROVE  IInv' /\ RowsMove
BY SameTable DEF Tick, IInv

\* So does every step of the store.
LEMMA InvStep == IInv /\ [StoreNext]_storeVars => IInv' /\ RowsMove
<1> SUFFICES ASSUME IInv, [StoreNext]_storeVars
             PROVE  IInv' /\ RowsMove
  OBVIOUS
<1>1. ASSUME NEW i \in Instances, NEW batch \in Batches, CreateRequest(i, batch)
      PROVE  IInv' /\ RowsMove
  BY <1>1, CreateStep, StoreAssumption
<1>2. ASSUME NEW r \in Ids, NEW duration \in Durations,
             NEW sel \in Selections \cup {Everything(grants[r].items)},
             Approve(r, sel, duration)
      PROVE  IInv' /\ RowsMove
  BY <1>2, ApproveStep
<1>3. ASSUME NEW r \in Ids, Reject(r)
      PROVE  IInv' /\ RowsMove
  BY <1>3, CloseStep DEF Reject
<1>4. ASSUME NEW r \in Ids, RevokePending(r)
      PROVE  IInv' /\ RowsMove
  BY <1>4, CloseStep DEF RevokePending
<1>5. ASSUME UNCHANGED storeVars
      PROVE  IInv' /\ RowsMove
  BY <1>5, SameTable DEF storeVars, IInv
<1> QED
  BY <1>1, <1>2, <1>3, <1>4, <1>5, RevokeActiveStep, RecordPostedStep, ReopenStep,
     TickStep
  DEF StoreNext, Revoke

\* The invariant holds in every state the calls of the store reach.
LEMMA InvInductive == StoreSpec => []IInv
<1>1. StoreInit => IInv
  BY InvInit
<1>2. IInv /\ [StoreNext]_storeVars => IInv'
  BY InvStep
<1> QED
  BY <1>1, <1>2, PTL DEF StoreSpec

-----------------------------------------------------------------------------
(* What the invariant says *)

\* The tables keep the shape of the schema through every sequence of calls.
THEOREM TypeCorrect == StoreSpec => []StoreTypeOK
<1>1. IInv => StoreTypeOK
  BY DEF IInv, StoreTypeOK
<1> QED
  BY <1>1, InvInductive, PTL

\* Timestamps, state and source of every row agree: the asserts of the
\* renderers (grants.py summary, matrixbot.py _active_grant_lines) never fail.
THEOREM Coherent == StoreSpec => []RowsCoherent
<1>1. IInv => RowsCoherent
  BY DEF IInv, RowsCoherent, RowOK
<1> QED
  BY <1>1, InvInductive, PTL

\* No request is approved after its pending timeout, whatever the clock does
\* between the calls.
THEOREM SilenceIsSafe == StoreSpec => []SilenceGrantsNothing
<1>1. IInv => SilenceGrantsNothing
  BY DEF IInv, SilenceGrantsNothing, RowOK
<1> QED
  BY <1>1, InvInductive, PTL

\* Request numbers are one-time and no grant is renewed.
THEOREM OneTime == StoreSpec => OneTimeUse
<1>1. IInv /\ [StoreNext]_storeVars =>
        [\A r \in Ids :
           /\ r \in Ids'
           /\ grants[r].state # Pending =>
                \/ grants'[r] = grants[r]
                \/ /\ Effective(grants[r], now) = Active
                   /\ grants'[r] = RevokedRow(grants[r])]_storeVars
  BY InvStep DEF RowsMove, RowMove
<1> QED
  BY <1>1, InvInductive, PTL DEF StoreSpec, OneTimeUse

\* No call makes a number grant more than the agent asked for.
THEOREM Narrowing == StoreSpec => NeverWidens
<1>1. IInv /\ [StoreNext]_storeVars =>
        [\A r \in Ids :
           /\ ItemsOf(grants'[r]) \subseteq ItemsOf(grants[r])
           /\ grants'[r].instance = grants[r].instance
           /\ grants'[r].created = grants[r].created]_storeVars
  BY InvStep DEF RowsMove, RowMove
<1> QED
  BY <1>1, InvInductive, PTL DEF StoreSpec, NeverWidens

-----------------------------------------------------------------------------
(* The store implements the lifecycle *)

\* The refinement mapping: the phases of the numbers.
PhaseSeq == [r \in Ids |-> PhaseOf(grants[r], now)]

\* Time only ages a row.
LEMMA RowAges ==
  ASSUME NEW row, RowOK(row), NEW t \in Nat, NEW u \in Nat, t <= u
  PROVE  /\ PhaseOf(row, t) \in Lifecycle!Phase
         /\ PhaseOf(row, u) \in Lifecycle!Aged(PhaseOf(row, t))
<1>1. /\ row.state \in StoredState
      /\ row.created \in Nat
      /\ row.state = Active => row.expires \in Nat
      /\ PendingTimeout \in Nat
  BY StoreAssumption DEF RowOK, Row, RowCoherent
<1>2. CASE row.state = Pending
  BY <1>1, <1>2 DEF PhaseOf, TimedOut, Lapsed, Lifecycle!Phase,
     Lifecycle!Aged, Pending, Active
<1>3. CASE row.state = Active
  BY <1>1, <1>3 DEF PhaseOf, TimedOut, Lapsed, Lifecycle!Phase,
     Lifecycle!Aged, Pending, Active
<1>4. CASE row.state \in {Revoked, Rejected}
  BY <1>4 DEF PhaseOf, TimedOut, Lapsed, Lifecycle!Phase,
     Lifecycle!Aged, Pending, Active, Revoked, Rejected
<1> QED
  BY <1>1, <1>2, <1>3, <1>4 DEF StoredState

\* The rows a step leaves alone are aged in the mapped step.
LEMMA OthersAge ==
  ASSUME IInv, NEW S, Ids' = Ids, now' \in Times, now <= now',
         \A r \in Ids \ S : grants'[r] = grants[r]
  PROVE  \A r \in DOMAIN PhaseSeq \ S :
           PhaseSeq'[r] \in Lifecycle!Aged(PhaseSeq[r])
<1> SUFFICES ASSUME NEW r \in Ids \ S
             PROVE  PhaseSeq'[r] \in Lifecycle!Aged(PhaseSeq[r])
  BY DEF PhaseSeq
<1>1. /\ PhaseSeq[r] = PhaseOf(grants[r], now)
      /\ PhaseSeq'[r] = PhaseOf(grants'[r], now')
      /\ grants'[r] = grants[r]
  BY DEF PhaseSeq
<1>2. RowOK(grants[r]) /\ now \in Nat /\ now' \in Nat
  BY StoreAssumption DEF IInv
<1> QED
  BY <1>1, <1>2, RowAges

\* A call that decides number r is the approver's verdict of the lifecycle.
LEMMA DecideStep ==
  ASSUME IInv, NEW r \in Ids, NEW new, new \in Row,
         grants' = [grants EXCEPT ![r] = new],
         now' \in Times, now <= now',
         \/ /\ PhaseOf(grants[r], now) = "pending"
            /\ PhaseOf(new, now') \in {"active", "rejected"}
         \/ /\ PhaseOf(grants[r], now) = "active"
            /\ PhaseOf(new, now') = "revoked"
  PROVE  Lifecycle!Decide(r)
<1>1. /\ Ids' = Ids
      /\ grants'[r] = new
      /\ \A s \in Ids \ {r} : grants'[s] = grants[s]
  BY ExceptSeq DEF IInv, Ids
<1>2. /\ DOMAIN PhaseSeq' = DOMAIN PhaseSeq
      /\ PhaseSeq[r] = PhaseOf(grants[r], now)
      /\ PhaseSeq'[r] = PhaseOf(new, now')
  BY <1>1 DEF PhaseSeq
<1>3. \A s \in DOMAIN PhaseSeq \ {r} :
        PhaseSeq'[s] \in Lifecycle!Aged(PhaseSeq[s])
  BY <1>1, OthersAge
<1> QED
  BY <1>2, <1>3 DEF Lifecycle!Decide, Lifecycle!AgedExcept, PhaseSeq

\* Under a clock that never steps back every step of the store maps to a step
\* of the lifecycle or to a stutter.
LEMMA StepRefines ==
  ASSUME MayStepBack = FALSE, IInv, [StoreNext]_storeVars
  PROVE  [Lifecycle!Next]_PhaseSeq
<1> USE DEF Undecided
<1>1. /\ now \in Times /\ now \in Nat /\ PendingTimeout \in Nat \ {0}
      /\ grants \in Seq(Row) /\ Ids = 1..Len(grants) /\ Len(grants) \in Nat
      /\ \A r \in Ids : RowOK(grants[r])
      /\ \A t \in Readings : t \in Times /\ t \in Nat /\ now <= t
                             /\ t <= now + MaxDrift
  BY StoreAssumption DEF IInv, Readings, Ids
<1>2. \A r \in Ids : /\ Effective(grants[r], now) = Pending =>
                          PhaseOf(grants[r], now) = "pending"
                     /\ Effective(grants[r], now) = Active =>
                          PhaseOf(grants[r], now) = "active"
  BY DEF Effective, PhaseOf, Pending, Active, Expired
<1>3. ASSUME NEW i \in Instances, NEW batch \in Batches, CreateRequest(i, batch)
      PROVE  Lifecycle!File
  <2> DEFINE new == FreshRow(i, batch, now)
  <2>1. RowOK(new) /\ new \in Row /\ PhaseOf(new, now) = "pending"
    <3>1. new.state = Pending /\ new.created = now
      BY DEF FreshRow
    <3>2. ~TimedOut(new, now) /\ ~Lapsed(new, now)
      BY <1>1, <3>1 DEF TimedOut, Lapsed, Pending, Active
    <3> QED
      BY <1>1, <3>1, <3>2, FreshRowOK, StoreAssumption DEF RowOK, PhaseOf, Pending
  <2>2. /\ grants' \in Seq(Row)
        /\ Ids' = 1..(Len(grants) + 1)
        /\ \A r \in Ids : grants'[r] = grants[r]
        /\ grants'[Len(grants) + 1] = new
        /\ now' = now
        /\ Len(grants) < MaxRequests
    BY <1>1, <1>3, <2>1, AppendProperties DEF CreateRequest, Ids
  <2>3. PhaseSeq \in Seq(Lifecycle!Phase) /\ Len(PhaseSeq) = Len(grants)
    <3>1. \A r \in 1..Len(grants) : PhaseOf(grants[r], now) \in Lifecycle!Phase
      BY <1>1, RowAges
    <3>2. PhaseSeq = [r \in 1..Len(grants) |-> PhaseOf(grants[r], now)]
      BY <1>1 DEF PhaseSeq
    <3>3. PhaseSeq \in Seq(Lifecycle!Phase)
      BY <1>1, <3>1, <3>2, IsASeq
    <3> QED
      BY <1>1, <3>2, <3>3
  <2>4. PhaseSeq' \in Seq(Lifecycle!Phase) /\ Len(PhaseSeq') = Len(grants) + 1
    <3>1. \A r \in 1..(Len(grants) + 1) :
            PhaseOf(grants'[r], now') \in Lifecycle!Phase
      BY <1>1, <2>1, <2>2, RowAges
    <3>2. PhaseSeq' = [r \in 1..(Len(grants) + 1) |-> PhaseOf(grants'[r], now')]
      BY <2>2 DEF PhaseSeq
    <3>3. PhaseSeq' \in Seq(Lifecycle!Phase)
      BY <1>1, <3>1, <3>2, IsASeq
    <3> QED
      BY <1>1, <3>2, <3>3
  <2>5. /\ Append(PhaseSeq, "pending") \in Seq(Lifecycle!Phase)
        /\ Len(Append(PhaseSeq, "pending")) = Len(grants) + 1
        /\ \A r \in 1..Len(grants) : Append(PhaseSeq, "pending")[r] = PhaseSeq[r]
        /\ Append(PhaseSeq, "pending")[Len(grants) + 1] = "pending"
    <3>1. "pending" \in Lifecycle!Phase
      BY DEF Lifecycle!Phase
    <3> QED
      BY <2>3, <3>1, AppendProperties
  <2>6. \A r \in 1..(Len(grants) + 1) :
          PhaseSeq'[r] = Append(PhaseSeq, "pending")[r]
    BY <1>1, <2>1, <2>2, <2>5 DEF PhaseSeq
  <2>7. PhaseSeq' = Append(PhaseSeq, "pending")
    BY <2>4, <2>5, <2>6, SeqEqual
  <2> QED
    BY <2>2, <2>3, <2>7 DEF Lifecycle!File, PhaseSeq
<1>4. ASSUME NEW r \in Ids, NEW duration \in Durations,
             NEW sel \in Selections \cup {Everything(grants[r].items)},
             Approve(r, sel, duration)
      PROVE  Lifecycle!Decide(r)
  <2> DEFINE written(t) == IF sel = <<>>
                           THEN ClosedRow(grants[r], "partial_empty", t)
                           ELSE GrantedRow(grants[r], sel, duration, t)
  <2>1. PICK t \in Readings :
          now' = t /\ grants' = [grants EXCEPT ![r] = written(t)]
    BY <1>4 DEF Approve
  <2>2. /\ Effective(grants[r], now) = Pending
        /\ ValidSelection(sel, grants[r].items)
        /\ sel \in Seq(Nat)
        /\ grants[r] \in Row
    BY <1>1, <1>4, EverythingOK, StoreAssumption DEF Approve, RowOK, Row
  <2>3. RowOK(written(t)) /\ written(t) \in Row
    <3>1. CASE sel = <<>>
      BY <1>1, <2>2, <3>1, ClosedRowOK DEF RowOK
    <3>2. CASE sel # <<>>
      BY <1>1, <2>2, <3>2, GrantedRowOK DEF RowOK
    <3> QED
      BY <3>1, <3>2
  <2>4. PhaseOf(written(t), t) \in {"active", "rejected"}
    <3>1. CASE sel = <<>>
      <4>1. written(t).state = Rejected
        BY <2>2, <3>1 DEF ClosedRow, Row
      <4> QED
        BY <4>1 DEF PhaseOf, TimedOut, Lapsed, Pending, Active, Rejected
    <3>2. CASE sel # <<>>
      <4>1. written(t).state = Active /\ written(t).expires = t + duration
        BY <2>2, <3>2 DEF GrantedRow, Row
      <4>2. ~Lapsed(written(t), t)
        BY <1>1, <4>1, StoreAssumption DEF Lapsed
      <4> QED
        BY <4>1, <4>2 DEF PhaseOf, TimedOut, Pending, Active
    <3> QED
      BY <3>1, <3>2
  <2> QED
    BY <1>1, <1>2, <2>1, <2>2, <2>3, <2>4, DecideStep
<1>5. ASSUME NEW r \in Ids, NEW source \in {"rejection", "pending_revoke"},
             NEW t \in Readings, now' = t, Undecided(r),
             grants' = [grants EXCEPT ![r] = ClosedRow(grants[r], source, t)]
      PROVE  Lifecycle!Decide(r)
  <2> DEFINE new == ClosedRow(grants[r], source, t)
  <2>1. new \in Row /\ grants[r] \in Row
    BY <1>1, <1>5, ClosedRowOK DEF RowOK
  <2>2. new.state = Rejected
    BY <2>1 DEF ClosedRow, Row
  <2>3. PhaseOf(new, t) = "rejected"
    BY <2>2 DEF PhaseOf, TimedOut, Lapsed, Pending, Active, Rejected
  <2> QED
    BY <1>1, <1>2, <1>5, <2>1, <2>3, DecideStep
<1>6. ASSUME NEW r \in Ids, RevokeActive(r)
      PROVE  Lifecycle!Decide(r)
  <2> DEFINE new == RevokedRow(grants[r])
  <2>1. /\ Effective(grants[r], now) = Active
        /\ grants' = [grants EXCEPT ![r] = new]
        /\ now' = now
    BY <1>6 DEF RevokeActive, ActiveGrants
  <2>2. new \in Row /\ grants[r] \in Row
    BY <1>1, <2>1, RevokedRowOK DEF RowOK
  <2>3. new.state = Revoked
    BY <2>2 DEF RevokedRow, Row
  <2>4. PhaseOf(new, now') = "revoked"
    BY <2>3 DEF PhaseOf, TimedOut, Lapsed, Pending, Active, Revoked
  <2>5. /\ PhaseOf(grants[r], now) = "active"
        /\ now' \in Times
        /\ now <= now'
    BY <1>1, <1>2, <2>1
  <2> HIDE DEF new
  <2> QED
    BY <2>1, <2>2, <2>4, <2>5, DecideStep
<1>7. ASSUME NEW e \in EventIds, NEW r \in Ids, RecordPosted(e, r)
      PROVE  UNCHANGED PhaseSeq
  BY <1>7 DEF RecordPosted, PhaseSeq, Ids
<1>8. ASSUME Reopen
      PROVE  Lifecycle!Discard
  <2>1. /\ Ids' = Ids
        /\ now' = now
        /\ \A r \in Ids : grants'[r] = DiscardedRow(grants[r])
    BY <1>8 DEF Reopen, Ids
  <2>2. ASSUME NEW r \in Ids
        PROVE  PhaseOf(DiscardedRow(grants[r]), now) =
                 IF PhaseOf(grants[r], now) \in {"pending", "unanswered"}
                 THEN "rejected" ELSE PhaseOf(grants[r], now)
    <3>1. grants[r] \in Row /\ grants[r].state \in StoredState
      BY <1>1 DEF RowOK, Row
    <3>2. CASE grants[r].state = Pending
      <4>1. DiscardedRow(grants[r]).state = Rejected
        BY <3>1, <3>2 DEF DiscardedRow, Row
      <4> QED
        BY <3>2, <4>1 DEF PhaseOf, TimedOut, Lapsed, Pending, Active, Rejected
    <3>3. CASE grants[r].state # Pending
      BY <3>1, <3>3 DEF DiscardedRow, PhaseOf, TimedOut, Lapsed, StoredState,
         Pending, Active, Revoked, Rejected
    <3> QED
      BY <3>2, <3>3
  <2> QED
    BY <2>1, <2>2 DEF Lifecycle!Discard, PhaseSeq
<1>9. ASSUME Tick
      PROVE  Lifecycle!Elapse
  <2>1. now <= now' /\ now' \in Times /\ grants' = grants /\ Ids' = Ids
    <3>1. now' \in Nat /\ now < now'
      BY <1>9, StoreAssumption DEF Tick
    <3> QED
      BY <1>1, <1>9, <3>1 DEF Tick, Ids
  <2>2. \A s \in DOMAIN PhaseSeq \ {} :
          PhaseSeq'[s] \in Lifecycle!Aged(PhaseSeq[s])
    BY <2>1, OthersAge
  <2> QED
    BY <2>1, <2>2 DEF Lifecycle!Elapse, Lifecycle!AgedExcept, PhaseSeq
<1>10. ASSUME UNCHANGED storeVars
       PROVE  UNCHANGED PhaseSeq
  BY <1>10 DEF storeVars, PhaseSeq, Ids
<1>11. ASSUME NEW r \in Ids, Reject(r) \/ Revoke(r)
       PROVE  Lifecycle!Decide(r)
  BY <1>5, <1>6, <1>11 DEF Reject, Revoke, RevokePending
<1> QED
  BY <1>3, <1>4, <1>7, <1>8, <1>9, <1>10, <1>11
  DEF StoreNext, Lifecycle!Next, PhaseSeq

\* While the clock never steps back, the store implements the lifecycle of the
\* docstring of grants.py: the only way to an active grant is out of a pending
\* request, and a number that is over stays over.
THEOREM Refinement ==
  ASSUME MayStepBack = FALSE
  PROVE  StoreSpec => LifecycleSpec
<1>1. StoreInit => Lifecycle!Init
  BY DEF StoreInit, Lifecycle!Init, Ids
<1>2. IInv /\ [StoreNext]_storeVars => [Lifecycle!Next]_PhaseSeq
  BY StepRefines
<1> QED
  BY <1>1, <1>2, InvInductive, PTL
  DEF StoreSpec, LifecycleSpec, Lifecycle!Spec, PhaseSeq
=============================================================================
