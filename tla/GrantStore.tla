------------------------------ MODULE GrantStore ------------------------------
(***************************************************************************)
(* The grant store of the access broker: broker/grants.py, class           *)
(* GrantStore.  One SQLite file holds the table "grants" (one row per       *)
(* request number) and the table "posted_messages" (Matrix event id ->      *)
(* request number).                                                        *)
(*                                                                         *)
(* A request number is the position of its row in the sequence `grants':   *)
(* the table is AUTOINCREMENT and no row is ever deleted, so ids are 1, 2,  *)
(* 3, ... and never recycled.  Every call of the class is synchronous and   *)
(* commits before it returns, so it is one action.  What is NOT atomic is   *)
(* the clock: a call that guards on one reading of now() and writes a       *)
(* second one may see the clock move in between (MaxDrift).                 *)
(*                                                                         *)
(* Calls that raise (unknown number, decided number, bad item number) leave *)
(* both tables as they were: they are the states in which the action is     *)
(* not enabled.                                                            *)
(***************************************************************************)
EXTENDS Integers, Sequences

CONSTANTS
  Instances,      \* the configured Nextcloud instances (allowed_instances)
  Items,          \* the {path, mode} pairs a request may name, already valid
  Batches,        \* the item lists the agent sends in request_access
  Selections,     \* the item_numbers lists an approval may name
  Durations,      \* the grant durations: the default and the typed expiries
  PendingTimeout, \* pending_timeout: how long a request may stay unanswered
  Times,          \* the instants the wall clock shows
  MaxDrift,       \* how far the clock may move inside one call
  MayStepBack,    \* whether the wall clock may be set back
  EventIds,       \* the Matrix event ids
  MaxRequests,    \* bound on the number of rows
  Null            \* SQL NULL

ASSUME StoreAssumption ==
  /\ Batches \subseteq Seq(Items) \ {<<>>}
  /\ Selections \subseteq Seq(Nat)
  /\ Durations \subseteq Nat \ {0}
  /\ PendingTimeout \in Nat \ {0}
  /\ Times \subseteq Nat
  /\ MaxDrift \in Nat
  /\ MayStepBack \in BOOLEAN
  /\ MaxRequests \in Nat
  /\ Null \notin Nat

VARIABLES
  now,     \* the wall clock every call reads through the injected now()
  grants,  \* table grants: a sequence of rows, indexed by request number
  posted   \* table posted_messages: event id -> request number, or NoRequest

storeVars == <<now, grants, posted>>

NoRequest == 0

Pending == "pending"
Active == "active"
Expired == "expired"
Revoked == "revoked"
Rejected == "rejected"

\* The value of column "state": 'expired' is never written.
StoredState == {Pending, Active, Revoked, Rejected}

\* The value of column "state_source" once a row has been decided.
Source == {"approval", "rejection", "partial_empty", "pending_revoke",
           "revocation", "restart_discard"}

ASSUME NullAssumption == Null \notin Source

Row == [ instance : Instances,
         items    : Seq(Items),
         created  : Nat,
         decided  : Nat \cup {Null},
         expires  : Nat \cup {Null},
         state    : StoredState,
         source   : Source \cup {Null} ]

Ids == DOMAIN grants

-----------------------------------------------------------------------------
(* The read-time view: _state and _get_row.  Expiry is never written, it is *)
(* computed from the clock at each read.                                    *)

TimedOut(row, t) == row.state = Pending /\ t - row.created >= PendingTimeout

Lapsed(row, t) == row.state = Active /\ t >= row.expires

Effective(row, t) ==
  IF TimedOut(row, t) \/ Lapsed(row, t) THEN Expired ELSE row.state

\* The state_source a reader sees: it names why a number died.
ReportedSource(row, t) ==
  CASE TimedOut(row, t) -> "pending_timeout"
    [] Lapsed(row, t)   -> "grant_expiry"
    [] OTHER            -> row.source

\* active_grants(): the only rows the path checker ever sees.
ActiveGrants == {r \in Ids : Effective(grants[r], now) = Active}

-----------------------------------------------------------------------------
(* What each call writes in the row it touches. *)

FreshRow(i, batch, t) ==
  [ instance |-> i, items |-> batch, created |-> t, decided |-> Null,
    expires |-> Null, state |-> Pending, source |-> Null ]

\* An approval without item numbers names every item.
Everything(batch) == [k \in DOMAIN batch |-> k]

ValidSelection(sel, batch) == \A k \in DOMAIN sel : sel[k] \in DOMAIN batch

Chosen(batch, sel) == [k \in DOMAIN sel |-> batch[sel[k]]]

ClosedRow(row, source, t) ==
  [row EXCEPT !.state = Rejected, !.source = source, !.decided = t]

GrantedRow(row, sel, duration, t) ==
  [row EXCEPT !.items = Chosen(row.items, sel), !.state = Active,
              !.decided = t, !.expires = t + duration, !.source = "approval"]

\* Mutant: a revocation that clears the timestamps.
RevokedRow_Cleared(row) ==
  [row EXCEPT !.state = Revoked, !.source = "revocation", !.expires = Null]

RevokedRow(row) == [row EXCEPT !.state = Revoked, !.source = "revocation"]

\* Mutant: the state name architecture.md uses.
DiscardedRow_Renamed(row) ==
  IF row.state = Pending THEN [row EXCEPT !.state = "discarded"] ELSE row

\* Mutant: a restart that discards the live grants too.
DiscardedRow_All(row) ==
  IF row.state \in {Pending, Active}
  THEN [row EXCEPT !.state = Rejected, !.source = "restart_discard"]
  ELSE row

DiscardedRow(row) ==
  IF row.state = Pending
  THEN [row EXCEPT !.state = Rejected, !.source = "restart_discard"]
  ELSE row

\* The instants a second reading of the clock inside one call may return.
Readings == {t \in Times : now <= t /\ t <= now + MaxDrift}

-----------------------------------------------------------------------------
StoreInit ==
  /\ now \in Times
  /\ grants = <<>>
  /\ posted = [e \in EventIds |-> NoRequest]

\* create_request: a pending row, which grants nothing.
CreateRequest(i, batch) ==
  /\ Len(grants) < MaxRequests
  /\ grants' = Append(grants, FreshRow(i, batch, now))
  /\ UNCHANGED <<now, posted>>

\* Mutant: the guard looks at the stored state only.
Undecided_Stored(r) == r \in Ids /\ grants[r].state = Pending

\* _assert_pending: the one-time-use guard of the decisions.
Undecided(r) == r \in Ids /\ Effective(grants[r], now) = Pending

\* Mutant: the items are read from the newest row.
Approve_Newest(r, sel, duration) ==
  LET batch == grants[Len(grants)].items IN
  /\ Undecided(r)
  /\ sel # <<>>
  /\ ValidSelection(sel, batch)
  /\ grants' = [grants EXCEPT ![r] =
       GrantedRow([@ EXCEPT !.items = batch], sel, duration, now)]
  /\ UNCHANGED <<now, posted>>

\* approve: the row becomes active, or, when the approver names no item at
\* all, rejected.  The guard and the timestamps are two clock readings.
Approve(r, sel, duration) ==
  /\ Undecided(r)
  /\ ValidSelection(sel, grants[r].items)
  /\ \E t \in Readings :
       /\ now' = t
       /\ grants' = [grants EXCEPT ![r] =
            IF sel = <<>> THEN ClosedRow(@, "partial_empty", t)
                          ELSE GrantedRow(@, sel, duration, t)]
  /\ UNCHANGED posted

\* reject
Reject(r) ==
  /\ Undecided(r)
  /\ \E t \in Readings :
       /\ now' = t
       /\ grants' = [grants EXCEPT ![r] = ClosedRow(@, "rejection", t)]
  /\ UNCHANGED posted

\* revoke, on a request that is still pending
RevokePending(r) ==
  /\ Undecided(r)
  /\ \E t \in Readings :
       /\ now' = t
       /\ grants' = [grants EXCEPT ![r] = ClosedRow(@, "pending_revoke", t)]
  /\ UNCHANGED posted

\* Mutant: a grant that has run out can still be revoked.
RevokeActive_Stored(r) ==
  /\ r \in Ids
  /\ grants[r].state = Active
  /\ grants' = [grants EXCEPT ![r] = RevokedRow(@)]
  /\ UNCHANGED <<now, posted>>

\* revoke, on a live grant
RevokeActive(r) ==
  /\ r \in ActiveGrants
  /\ grants' = [grants EXCEPT ![r] = RevokedRow(@)]
  /\ UNCHANGED <<now, posted>>

Revoke(r) == RevokePending(r) \/ RevokeActive(r)

\* record_posted: a plain INSERT; a known event id raises IntegrityError.
RecordPosted(e, r) ==
  /\ posted[e] = NoRequest
  /\ posted' = [posted EXCEPT ![e] = r]
  /\ UNCHANGED <<now, grants>>

\* Reopening the file: _restart_discard_pending.
Reopen ==
  /\ grants' = [r \in Ids |-> DiscardedRow(grants[r])]
  /\ UNCHANGED <<now, posted>>

\* The wall clock moves; it is not monotonic when MayStepBack.
Tick ==
  /\ now' \in Times \ {now}
  /\ MayStepBack \/ now < now'
  /\ UNCHANGED <<grants, posted>>

StoreNext ==
  \/ \E i \in Instances, batch \in Batches : CreateRequest(i, batch)
  \/ \E r \in Ids, duration \in Durations :
       \E sel \in Selections \cup {Everything(grants[r].items)} :
          Approve(r, sel, duration)
  \/ \E r \in Ids : Reject(r)
  \/ \E r \in Ids : Revoke(r)
  \/ \E e \in EventIds, r \in Ids : RecordPosted(e, r)
  \/ Reopen
  \/ Tick

StoreSpec == StoreInit /\ [][StoreNext]_storeVars

-----------------------------------------------------------------------------
(* The abstract machine the store implements while the clock is monotonic. *)

PhaseOf(row, t) ==
  CASE TimedOut(row, t) -> "unanswered"
    [] Lapsed(row, t)   -> "ended"
    [] OTHER            -> row.state

Lifecycle == INSTANCE GrantLifecycle
               WITH phase <- [r \in Ids |-> PhaseOf(grants[r], now)]

\* With a clock that never steps back, every call is a step of the state
\* machine in the docstring of grants.py or leaves every effective state
\* alone: in particular only a live pending request ever becomes active, and
\* neither a finished grant nor a rejected request ever changes again.
LifecycleSpec == Lifecycle!Spec

-----------------------------------------------------------------------------
(* Properties *)

\* Type invariant: the tables hold rows of the schema and the clock shows an
\* instant.
StoreTypeOK ==
  /\ now \in Times
  /\ grants \in Seq(Row)
  /\ posted \in [EventIds -> Nat]

\* A row's timestamps, state and source agree, whatever sequence of calls
\* wrote them: a row that was ever approved (active or revoked) carries an
\* expiry after its decision and at least one item - the renderers assert
\* expires_at is not None (grants.py summary, matrixbot.py
\* _active_grant_lines) - and a row that never was carries none.
RowCoherent(row) ==
  /\ row.items # <<>>
  /\ row.state = Pending =>
       /\ row.source = Null
       /\ row.decided = Null
       /\ row.expires = Null
  /\ row.state = Rejected =>
       /\ row.source \in Source \ {"approval", "revocation"}
       /\ row.expires = Null
  /\ row.state \in {Active, Revoked} =>
       /\ row.source = IF row.state = Active THEN "approval" ELSE "revocation"
       /\ row.decided \in Nat
       /\ row.expires \in Nat
       /\ row.decided < row.expires

RowsCoherent == \A r \in Ids : RowCoherent(grants[r])

\* Silence grants nothing: a number that was ever approved was approved while
\* its pending timeout had not run out (up to the drift between the guard's
\* and the timestamp's reading of the clock), even if the clock stepped back
\* or the process restarted in between.
SilenceGrantsNothing ==
  \A r \in Ids :
    grants[r].expires # Null =>
      grants[r].decided - grants[r].created < PendingTimeout + MaxDrift

\* Numbers are one-time and nothing is ever renewed: no call makes a row
\* disappear, and a decided row changes at most once more, by the revocation
\* of a live grant, which leaves its items and timestamps alone.
OneTimeUse ==
  [][\A r \in Ids :
       /\ r \in Ids'
       /\ grants[r].state # Pending =>
            \/ grants'[r] = grants[r]
            \/ /\ Effective(grants[r], now) = Active
               /\ grants'[r] = RevokedRow(grants[r])]_storeVars

ItemsOf(row) == {row.items[k] : k \in DOMAIN row.items}

\* An approval may narrow a request, nothing ever widens it: whatever is
\* called on a number, the items it grants are items the agent asked for, on
\* the instance it asked for.
NeverWidens ==
  [][\A r \in Ids :
       /\ ItemsOf(grants'[r]) \subseteq ItemsOf(grants[r])
       /\ grants'[r].instance = grants[r].instance
       /\ grants'[r].created = grants[r].created]_storeVars
=============================================================================
