# The access broker in TLA+

The broker lets an agent use files of Nextcloud instances under grants that a
human approves in a Matrix room. This directory models the parts of it that
carry that promise, and the command line tool that moves the contents; checks
them with TLC, and proves what matters most with TLAPS.

    tlc -config GrantStore.cfg MCGrantStore          # one run; all of them are listed below
    tlapm GrantStore_proofs.tla                      # the proofs of one part

Line numbers are those of `src/broker/`.

## 1. Inventory

| part | source | state | operations |
|---|---|---|---|
| grant store | `grants.py` | SQLite tables `grants`, `posted_messages`; injected clock | create_request, approve, reject, revoke, record_posted, discard at reopen; effective state computed at each read |
| approval bot | `matrixbot.py` | `_undo_windows`, `_swept` (memory) | post_request, reactions, replies, undo, mass revocation, status, sweep |
| request_access | `server.py` | the running calls | file, post, roll back |
| sync loop, transport | `nio_transport.py` | `_since`, `_seen` (memory) | sync, dispatch, retry, send |
| wall | `nextcloud.py`, `paths.py`, `_op` of `server.py` | none of its own | eight file tools: normalize, check, record, request |
| audit log | `audit.py` | the log, its `.head` sidecar, chain head and count in memory | record, reopen, verify_chain |
| WebDAV adapter | `webdav_adapter.py` | HTTP client; content and lock of the remote files | one method per verb |
| transfer CLI | `cli.py` | staging directory: contents, manifests with lock tokens, push locks | fetch, push, checkout, checkin, staging gc |
| configuration | `config.py` | none | validation of each section, resolution of secrets |
| process | `run.py` | tasks of main, the listener, two surfaces and their lifespan queues | wiring, start, serve, stop; routing and authentication |
| pure functions | `parse_reply`, `parse_expiry`, `markdown_render.py`, `logging_setup.py` | none | |

How they interact. The agent calls `request_access`, which files a request in
the store and posts it through the bot; the approver's reactions and replies
come back through the sync loop to the bot, which calls the store. The file
tools ask the store for the live grants, write the audit record and only then
send the request. All of it is one process and one asyncio loop over one SQLite
file. The CLI is another program: each command is a run of its own, it calls the
content tools over HTTP, and runs share nothing but the staging directory.

What is hard in it:

* **interleaving**: posting a request is five awaited sends, between which the
  listener dispatches decisions about the same number; runs of the CLI interleave
  at every system call;
* **partial failure**: every send may fail, delivered or not, after the store was
  written; the two writes of the audit log may each fail; a call of the CLI may
  be carried out after its caller has given up; a surface may die;
* **restart**: the tables survive, the token, the seen set, the undo windows and
  the swept set do not; pending requests are discarded; a killed run leaves its
  lock file, its temporary files and the remote lock behind;
* **time**: expiry is a read-time view of a wall clock that is read several times
  per call, and may step back; push locks go stale while their owner waits.

The hazards are listed in `PROJECT.json`, each at its line with the properties
that would catch it. What makes each part correct is stated in section 4.

## 2. Modules

| module | models | used by |
|---|---|---|
| `GrantLifecycle` | abstract: the phases of a request number | refined by `GrantStore` |
| `GrantStore` | the store, one action per call | extended by `ApprovalPlane` and `Wall` |
| `ApprovalPlane` | calls, bot, sync loop, room, restart, around the store | |
| `ApprovalProperties` | its properties | |
| `Wall` | the file tools, over the store | |
| `AuditLog` | the log and its sidecar | |
| `PushLock` | abstract: the advisory lock of one path | extended and implemented by `Transfer` |
| `Transfer` | the CLI, the staging directory, the remote files and their locks | |
| `TransferProperties` | its properties | |
| `Configuration` | what configurations are accepted, which tokens result | used by `Process` |
| `Process` | the broker from `load_config` to its end | |
| `GrantStore_proofs`, `ApprovalPlane_proofs`, `ApprovalClock_proofs`, `Wall_proofs`, `AuditLog_proofs`, `PushLock_proofs`, `Transfer_proofs`, `Process_proofs` | theorems | |
| `MCGrantStore`, `MCApprovalPlane`, `MCWall`, `MCTransfer`, `MCProcess` | values for TLC | |

**GrantStore.** `grants[r]` is the row of request number r: ids are AUTOINCREMENT
and rows are never deleted, so the table is a sequence. `posted` is the event
mapping. `Effective(row, now)` is `_state`: nothing is ever written when a row
expires. A call that raises leaves the tables alone, so it is a state in which
the action is not enabled; callers that act on the exception test the same
guard. approve and reject read the clock twice, once in the guard and once for
the timestamps: `Readings` lets it move by up to `MaxDrift` in between. Reasons
of requests, spelling of paths and durations are abstracted; `Batches`,
`Selections` and `Durations` contain what the validation lets through. The
revocation of the last instant of a grant and everything after it follow the
code's comparisons (`>=`).

**ApprovalPlane.** An action is what one coroutine does between two awaits. A
call to `request_access` goes `idle -> sending -> marking -> pending`, or to
`error` (rolled back) or `raised` (the rollback itself raised). The four
reactions are one await: nothing is written between them. The listener goes
through a batch of the room's timeline one input at a time; `confirm`,
`undo_sending`, `undo_marking` and `sweep` are the awaits of its handlers. A
failing send takes it back to `sync` with its old token, as `except Exception`
does. Inputs carry what the parsers make of them: a verb and a target. The room,
the people in it and the homeserver are the environment: `carried` is what each
posted message is about, `said` the verdicts confirmed, `horizon` how much of
the history a sync without a token no longer returns. `approvedBy`, `undoOf` and
`notices` are history variables for the properties.

**Wall.** A tool goes `checking` (one path at a time) `-> recording ->
operating`, the last two once per stage (checkout and checkin have two). No
handler of a file tool awaits, so `StoreCall` waits for `LoopFree`, while the
clock, failures and crashes come at any step. Paths are given as the agent
spells them, components with dots included; `Walk` is the loop of
`normalize_path`, which removes or refuses them, as a function of the position,
and `Normalize` its last value; the check, the record and the request use that. The audit log appears here as its contract;
`AuditLog` checks the contract.

**AuditLog.** `record()` is three steps, append, checkpoint, operation, between
which the process may fail or end. A failing or interrupted append may leave a
part of its line, all of it, or nothing.

**PushLock.** `acquire_lock` and `release_lock` with every system call a step:
create with O_EXCL, stat, unlink, create again, and the final unlink by name.
The lock file is known by its creator; `displaced` and `overaged` are history:
who lost its file to somebody else, and whether any lock was ever found stale.

**Transfer.** `Transfer` EXTENDS `PushLock` and embeds its steps in the commands:
`step[p]` is where run p is with its lock, `run[p]` where it is with its
command. A command gives the lock back only through `Release`. `call[p]` is its
call to the broker with the HTTP verbs still to be sent; the broker is in the
middle of one call at a time (`serving`), since no content tool awaits. The run
may hear the answer, hear an error, or stop waiting (60 s), and then the call is
still carried out, or not. `tmp`, `staged`, `note` and `manifest` are the four
kinds of names in the staging directory; a name holds an inode, and `complete`
says which inodes hold all of their bytes. `aged` entries are those `gc` would
judge older than a week; it judges first and unlinks by name later (`doomed`). A
content stands for its own digest. `remote` and `rlock` are the files and their
WebDAV locks, `known` and `landed` history.

**Configuration** is pure: which raw configurations `Config` accepts, and which
token each surface gets from values, named variables and default variables.

**Process.** Tasks are cut at their awaits, as in the plane: main, the listener,
PathDispatch and the lifespan of each surface, with the two queues of each
`_LifespanDriver`. uvicorn and Starlette are not in the repository; `Surface...`,
`OpenSockets`, `CloseSockets` and `AskToStop` are the lifespan protocol run.py
relies on, marked external in the map.

## 3. Runs

Every bound is a constant of the configuration.

| run | asks | bounds |
|---|---|---|
| `store` | rows, one-time use, silence, refinement of the lifecycle | 2 requests of up to 2 items, 5 instants, timeout 2, durations 1 and 2, drift 1 |
| `plane_decisions` | two requests posted at once while approver and stranger decide | 2 calls, 2 inputs, 1 failed send, 1 restart, the clock stands still |
| `plane_commands` | undo, mass revocation, sweep, against the clock | 1 call, 3 inputs, 3 requests, 2 instants |
| `plane_liveness` | what must eventually happen | 1 call, 2 inputs, 1 failed send, 1 restart, 2 instants |
| `wall` | every file tool, with raw paths | 2 tool calls, 1 request of 2 or 3 items, 1 fault, 2 instants, one instance with discovery, one unknown; a folder, a file in it, a detour to it, a climb to the trash bin, an escape from the root |
| `audit` | failing and torn writes, crashes, lost tail, restarts | 5 records, 3 faults |
| `transfer` | every command of the CLI | 3 runs, 1 file, 2 contents, 2 readings of the clock further apart than the stale time, 1 fault, 1 deed of somebody else, 1 week |
| `process` | configuration, start, service, stop | all choices of where each token comes from and ten defective configurations, 2 deaths of surfaces |
| `plane_lost_reaction`, `plane_rollback`, `audit_torn`, `transfer_token_lost` | one documented claim each that the code does not keep | as small as shows it |

Why the bounds suffice. The interesting interleavings of the plane need two
numbers (one interfering with the other) and two inputs (a decision and one that
contradicts it); the third input of `plane_commands` allows decide, undo, decide
again, and its third request an undo of an undo. `EventIds` has one id per
request, which is all that can be posted. The store needs an item that is not
approved, an expiry on either side of a tick and both sides of the timeout. In
`plane_decisions` the clock stands still because its interplay with decisions is
what `plane_commands` and the store's own run are about. The wall needs two
items of different modes, two endpoints and a second call after the first; the
audit log needs a record before, at and after each fault. In `transfer` two runs
contend for a lock and for a temporary file; the third is needed to rob a robber,
and to publish a file while two others share its temporary. One file serves the
properties about one path; that two files of equal content get into each other's
way is the subject of `transfer_token_lost`, which has two. In `process` a
surface may die while it starts, and both may die at work.

The calls of `plane_decisions` and the runs of `transfer` are interchangeable,
hence the symmetry; runs with liveness properties use none.

`audit` and `audit_torn` do not check for deadlock: with an unreadable last line
the broker refuses to start, which is a real stop. Everywhere else a state
without a successor is an error, apart from the stutter of an explicit last
state (`AllDone`, `Ended`).

## 4. What the runs show

Each model has one type invariant; those of the plane, the wall, the audit log
and the store's `StoreTypeOK` are checked as a conjunct of another property where
the run has no line of its own for them (`NoInvisiblePending`,
`EffectsAreRecorded`, `OperatedIsRecorded`).

**Store.** `RowsCoherent`: timestamps, state and source of a row agree whatever
was called. `SilenceGrantsNothing`: what is active was approved in time.
`OneTimeUse`: a decided row changes once more at most, by revocation of a live
grant. `NeverWidens`: no call adds an item or changes the instance.
`LifecycleSpec`: the store implements `GrantLifecycle`. That machine says what
the docstring of grants.py says, with one addition: a restart also renames
requests that had timed out to rejected (`Discard`), where the docstring calls
them decided.

**Plane.** `ApprovalsAreOrdered`: every approval goes back to an input of the
approver that names that number or was tapped on the very message about it.
`NoInvisiblePending`: nothing approvable is left without a mapped message, as
long as nobody uses undo (the run has none). `VerdictsHold`: what the room was told is what the
store says. `StoreSpec`: requests and single decisions change the tables in no
other way than the store's calls. `UndoRefiles`: what undo files is what was decided, once per
decision and within the grace. `NoticesHold`: "silence grants nothing" is true
when it is said and stays true, and is said once per process, but for one more
time per failed send. `KillSwitchHolds`: after "revoke all" nothing
approved by an earlier input is live.

**Wall.** `EffectsAreGranted`: at the moment a request is carried out every place
its paths arrive at, dots resolved as the storage resolves them, is inside an
approved item of that mode on that instance, not revoked, and live when the tool
was called; only listing under discovery is exempt. An operation may be carried
out after its grant has run out, by as much as its own audit write and earlier
requests took: the code checks once. `TrashIsUnreachable`: no request arrives in
the trash bin, whatever was approved and however the path is spelled.
`EffectsAreRecorded`: each request has a truthful record of its own.
`RefusalsAreRecorded`: so does each refusal but those of list, and the path in it
is one that really is not granted.

**Audit log.** `OperatedIsRecorded`, `LossIsDetected`,
`OperatesOnAVerifiedChain`. They name their exceptions: text left by a torn
write (`torn`), a lost tail (`lost`), and a restart after a lost tail
(`resumed`), which launders the loss since `_load_last_hash` does not look at
the sidecar.

**Transfer.** `PushesAreExclusive` and `NobodyIsRobbed`: two runs hold the lock of
one spelling of a path only after some lock has outlived `LOCK_STALE_SECONDS`.
`WritesAreExclusive`: while a run holds the lock, a write of another run on that
path is late, its author having given up, or a lock was lost. `LockSpec`: the
commands implement `PushLock`, so they take the lock once and release what they
have. `CheckinReplacesItsCheckout`: a checkin overwrites what its checkout
returned. `LocksEndWithTheirWork`: the broker unlocks only after the write of the
same token. `ExitCodesTellTheTruth`: what exit codes 0, 3 and 4 promise is so.
`StagedIsWhole`: a staged file has all of its bytes, unless two runs stage the
same content at once. `TokensAreKept`: the token of a finished checkout is in a
manifest while its lock is in force, until another run stages the same content or
a week passes.

**Process.** `BothSurfacesServe`: when requests are served both surfaces have come
up. `ShutdownIsComplete`: "shutdown.complete" is said only of surfaces that ended
in order. `NothingDangles`: the client session is not closed under a running
listener, and neither outlives main. `SurfacesAreSeparate`: whatever the
configuration, no token opens both surfaces. `ProcessEnds`: a stop, and a failed
start, end the process, whichever surface dies when.

**What does not hold.** The first four are runs that end in a violation:

* `ReactionsFindTheirRequest`: a reaction dispatched before `record_posted` is
  dropped (matrixbot.py:233-241 against 228-230).
* `ErrorsAreRolledBack`: a decision during posting makes the rollback raise
  (server.py:152-156 against 140-144).
* `BrokenIsNeverExtended`: the record after a torn append is written behind the
  torn text (audit.py:192-198 against 97-98).
* `LocksAreRecoverable`: two checkouts of equal content share a manifest, and the
  first token is gone (cli.py:449, 462 against 430-431).

The others show in the models, as exceptions that the properties make, or were
met while reading:

* A replayed "revoke all" revokes a later grant: after a restart the whole
  timeline a sync returns is dispatched again (nio_transport.py:189 against
  182-186).
* A request filed by undo whose posting fails stays pending and invisible
  (matrixbot.py:351-360 against server.py:140-144); `NoInvisiblePending` would
  fail in a run with undo. A cancelled `request_access` (server.py:151) is not rolled back either.
* list refuses without a record (nextcloud.py:282-287, 311-313 against 171-174),
  and the record of any refusal carries the principal of the layer, `agent`, also
  on the transfer surface (nextcloud.py:214).
* push has no clobber guard: `--force`, `--expect-size` and `--expect-sha` are
  parsed and never read, and exit code 5 is never returned (cli.py:17-19, 27,
  744-746). An unreachable broker and HTTP errors exit with 1, not 2
  (cli.py:140-142, 723 against 25).
* checkin does not read back what it wrote, unlike push (cli.py:556-590 against
  517-520). Without `--manifest-sha` it takes the first manifest that is checked
  out, whatever its remote path (cli.py:504-513).
* A checkout that fails after its LOCK leaves the remote file locked and the token
  nowhere (nextcloud.py:395).
* A push lock is stale after 120 s, while a push may wait for three answers of up
  to 60 s each. Locks are keyed by the spelling of the path (cli.py:223).
* gc removes manifests of files still checked out after a week, and unlinks by
  name what it judged by age before (cli.py:254).
* `lifecycle.pending_timeout_hours` and `default_grant_hours` are validated and
  never passed to the store (run.py:123). The logging level is validated only at
  wiring.
* When a surface fails to start, or dies, PathDispatch does not shut the other one
  down; its lifespan ends with the process.

**Fairness.** `FairPlane` asks weak fairness of each call's steps and of the
listener's: the loop is never blocked for ever, and every send and long poll is
answered, at worst with an error (the HTTP client has timeouts). Nothing is
assumed of the people, the clock, restarts or new calls. `InputsAreDispatched`
also assumes that the homeserver delivers again what follows the token it is
given; that part of the client library is not in the repository.
`TimeoutsAreAnnounced` counts on the number of failures being finite.
`VerdictsReachTheRoom` is claimed only while no send fails: the code does not
resend a confirmation.

`FairProcess` asks weak fairness of main, of the listener once it is cancelled,
of PathDispatch, and of each surface's answer to a lifespan message: the event
loop runs every task that can go on, uvicorn does what it is asked, and a surface
answers. Nothing is assumed of stop requests, of clients, or of surfaces not
failing. `CloseSockets` is fair only if the clients let go of their connections:
run.py sets no limit to how long the HTTP server waits for them.

## 5. What is proved

Every safety property of every passing run, invariant or action property, is a
theorem, the refinements included. Each holds for every value of the constants
that satisfies the ASSUMEs of its module. The third column says what a theorem
assumes besides.

| theorem of the store | states | assuming |
|---|---|---|
| `GrantStore_proofs!TypeCorrect` | `StoreSpec => []StoreTypeOK` | |
| `GrantStore_proofs!Coherent` | `StoreSpec => []RowsCoherent` | |
| `GrantStore_proofs!SilenceIsSafe` | `StoreSpec => []SilenceGrantsNothing` | |
| `GrantStore_proofs!OneTime` | `StoreSpec => OneTimeUse` | |
| `GrantStore_proofs!Narrowing` | `StoreSpec => NeverWidens` | |
| `GrantStore_proofs!Refinement` | `StoreSpec => LifecycleSpec` | clock not set back |

| theorem of the plane | states | assuming |
|---|---|---|
| `ApprovalPlane_proofs!PlaneCoherent` | `PlaneSpec => []RowsCoherent` | |
| `ApprovalPlane_proofs!PlaneSilence` | `PlaneSpec => []SilenceGrantsNothing` | |
| `ApprovalPlane_proofs!PlaneOneTime` | `PlaneSpec => OneTimeUse` | |
| `ApprovalPlane_proofs!PlaneNarrowing` | `PlaneSpec => NeverWidens` | |
| `ApprovalPlane_proofs!HumanGate` | `PlaneSpec => []ApprovalsAreOrdered` | |
| `ApprovalPlane_proofs!VerdictsAreTrue` | `PlaneSpec => []VerdictsHold` | |
| `ApprovalPlane_proofs!UndoIsANewRequest` | `PlaneSpec => UndoRefiles` | |
| `ApprovalPlane_proofs!PlaneTypes` | the types of the plane | |
| `ApprovalPlane_proofs!PlaneUsesTheStore` | `PlaneSpec => StoreSpec` | neither undo nor mass revocation is used |
| `ApprovalClock_proofs!KillSwitch` | `PlaneSpec => []KillSwitchHolds` | clock not set back |
| `ApprovalClock_proofs!NoticesAreTrue` | `PlaneSpec => []NoticesHold` | clock not set back |
| `ApprovalClock_proofs!NothingPendingIsLost` | `PlaneSpec => []PendingIsVisible` | clock not set back |
| `ApprovalClock_proofs!NothingInvisible` | `PlaneSpec => []NoInvisiblePending` | clock not set back, undo is not used |

| theorem of the wall, the log | states | assuming |
|---|---|---|
| `Wall_proofs!UsesTheStore` | `WallSpec => StoreSpec` | |
| `Wall_proofs!NothingUnrecorded` | `WallSpec => []EffectsAreRecorded` | |
| `Wall_proofs!TrashIsSafe` | `WallSpec => []TrashIsUnreachable` | |
| `Wall_proofs!NothingRefusedInSilence` | `WallSpec => []RefusalsAreRecorded` | |
| `Wall_proofs!NothingUngranted` | `WallSpec => []EffectsAreGranted` | clock not set back |
| `Wall_proofs!Normalized`, `NormalizedIsReached` | what `normalize_path` returns, for paths of any length | |
| `AuditLog_proofs!NothingUnobserved` | `AuditSpec => []OperatedIsRecorded` | |
| `AuditLog_proofs!LossDetected` | `AuditSpec => []LossIsDetected` | |
| `AuditLog_proofs!LogHeals` | `AuditSpec => []OperatesOnAVerifiedChain` | |

| theorem of the CLI, the process | states | assuming |
|---|---|---|
| `PushLock_proofs!Exclusion` | `LockSpec => []PushesAreExclusive` | |
| `PushLock_proofs!NoRobbery` | `LockSpec => []NobodyIsRobbed` | |
| `Transfer_proofs!UsesTheLock` | `TransferSpec => LockSpec` | |
| `Transfer_proofs!CommandsExclude` | `TransferSpec => []PushesAreExclusive` | |
| `Transfer_proofs!TransferTypes` | `TransferSpec => []TransferTypeOK` | |
| `Transfer_proofs!WritesExclude` | `TransferSpec => []WritesAreExclusive` | |
| `Transfer_proofs!LocksEndLast` | `TransferSpec => LocksEndWithTheirWork` | |
| `Transfer_proofs!ExitCodesAreTrue` | `TransferSpec => []ExitCodesTellTheTruth` | |
| `Transfer_proofs!CheckinsReplace` | `TransferSpec => CheckinReplacesItsCheckout` | |
| `Transfer_proofs!StagedFilesAreWhole` | `TransferSpec => []StagedIsWhole` | |
| `Transfer_proofs!TokensStay` | `TransferSpec => []TokensAreKept` | |
| `Process_proofs!ProcessTypes` | `ProcessSpec => []ProcessTypeOK` | |
| `Process_proofs!NothingIsLeft` | `ProcessSpec => []NothingDangles` | |
| `Process_proofs!SurfacesAreApart` | `ProcessSpec => []SurfacesAreSeparate` | |
| `Process_proofs!BothServe` | `ProcessSpec => []BothSurfacesServe` | |
| `Process_proofs!ShutdownIsWhole` | `ProcessSpec => []ShutdownIsComplete` | |

"Clock not set back" is `MayStepBack = FALSE`. It is a real assumption: the code
reads `datetime.now(timezone.utc)`, and a clock that is set back makes an expired
grant live again and a timed out request approvable. The runs check a clock that
is not set back; that most properties hold of any clock is what the theorems
without the assumption add. The ASSUMEs of the modules
say what the validation of the configuration and of calls guarantees (positive
timeouts, normalized paths in grants, modes that are read or write), and that
`Null`, the None of the code, is not one of the data values it is distinguished
from (`NullAssumption`, `NothingAssumption`, `NothingSaid`).

**The store.** `SilenceGrantsNothing` is not inductive: nothing in it says that a
pending row has no expiry yet, or that the dates are numbers. `IInv` is the
conjunction of the types with `RowOK` for every row, that is coherence and "what
has an expiry was decided in time"; TLC checks its parts in the run `store`.
Each call touches one row (a restart touches all), so the step is proved per
row: one lemma per kind of write (`FreshRowOK`, `GrantedRowOK`, `ClosedRowOK`,
`RevokedRowOK`, `DiscardedRowOK`) shows that the new row is `RowOK` and that the
move is a `RowMove`; `ReplacedRow` and `RewrittenTable` lift it to the table; then
one lemma per call, which `InvStep` puts together. `OneTime` and `Narrowing` read
`RowMove`. For `Refinement`, `RowAges` and `OthersAge` map the passing of time and
`DecideStep` the decisions; the assumption on the clock is needed there and only
there: the run `store` refutes the refinement if `MayStepBack` is TRUE.

**The plane** does not implement `StoreSpec` in general: mass revocation rewrites
several rows in one step, and undo files what the tool would not. Its rows still
move by `RowMove` only, so the theorems of the store are proved again for it from
the lemmas about single rows. `PlaneUsesTheStore` says how far the store's calls
go: requests and single decisions are nothing else. The invariant `Shape` relates
the room to the tables: a mapped event is the event of a message about its
request, a coroutine that is about to record an event holds such a one, an undo
window is open only on a dead number that nobody has filed again and remembers
its items. `NamesOK` adds that the room speaks only of numbers that exist.
`VerdictsOK` says that not only what was said but what is about to be said is
true; it stays true, since a decided row changes only by revocation, and what the
room was told of it allows for that.

With a clock that is not set back three invariants are added. `SeenOK`: from the
token on, the inputs that were dispatched are the first ones of the room, so none
is dispatched after a later one. Hence nothing approved by an input before a
dispatched "revoke all" can become live after it; inputs replayed after a restart
do not break this, since numbers are one-time. `SilenceOK`: a request that was
announced as expired, or waits in the sweep for it, cannot be approved any more.
`VisibleOK`: a pending request of the agent has timed out, is being posted, or has
a mapped message. `PendingIsVisible` is what follows of it with undo in use.

**The wall.** A tool reads the grants and does not write them; what else happens
to the tables are `StoreCall`s. So `WallSpec => StoreSpec` (`UsesTheStore`), and
all theorems about the store hold while the wall is at work. For
`EffectsAreRecorded` the invariant adds what a tool in the middle of its stages
knows: the record at the end of the trail announces the stage at hand
(`Announced`), and every request so far has the record of its own stage
(`EffectsMatch`).

The other three are about paths of any length. `Walk` and `Arrivals` are functions
of the position in the path, and what they return is shown by least counterexample:
`Positions` says that what holds at position 0 and is handed from each position to
the next holds at all of them. `Normalized` shows in this way that the result has
no dots, `NormalizedIsReached` that a storage which resolves dots arrives with the
raw path where the result points, and `NullEscapes` that `normalize_path` refuses
only what climbs out of the root. `PathsOK` says that the paths a tool has admitted
are free of dots and outside the trash bin, `EffectsSafe` the same of each request,
`GrantedOK` that each admitted path was inside a live grant when the tool was
called. `EffectsAreGranted` needs the clock: the time is read once per path, and a
path admitted after the clock was set back may have been expired at the call.

**The audit log.** `OperatedIsRecorded` needs that memory and file agree while
nothing was torn or lost (`Intact`). `LossIsDetected` does not follow from the
chain alone: a chain cut off at its end is a valid chain. It takes two facts
besides. No line is ahead of something that was done and is not before it, as
long as the lines before are sound (`Ordered`); and neither the sidecar nor the
head in memory is older than what was done (`HeadsAreNewest`), so that a sidecar
that matches the last line forbids a lost tail. `LastIsNewest` keeps both across
a restart that trusts the last line.

**The push lock.** O_EXCL gives a name to one owner, so what is inductive is that
a run that holds the lock owns the file at its path or has been `displaced`
(`OwnsItsFile`), and that nobody is displaced before a stale lock has been found,
since until then only holders remove files, and they remove their own.

**Transfer.** `UsesTheLock` shows that each step of a command is a step of the lock
protocol or leaves its variables alone, so the exclusion carries over. The rest is
built in layers, each inductive given those before it, and each checked by TLC on
the instance of the run `transfer` before it was proved. `TransferInv` is the types
and what a run at each place of its command knows of its call and of the answer.
`LocksInv` says that a remote lock belongs to a checkout that asked for it and was
not refused, that what the holder was told the file contains is what it contains,
and that tokens in manifests were given to a checkout. `StagingInv` says that a
file of the staging directory is there under one name, and that a temporary that
lacks bytes is being written or its writer was killed. `KeptInv` follows the
manifest of a checkout that has its content to itself, until a week goes by.
`CheckinsReplace` rests on the WebDAV lock: while it is in force, only a write with
its token changes the file.

**The process.** `ProcessIInv` is the conjunction of `TokensOK` (the tokens in use
are those that `Configuration` resolves, and they differ), `HoldsOK` (who owns the
listener and the session), `LifespanOK` (what each surface was told, what it
answered and what is still in its queues), `DispatchOK` (what `PathDispatch` has
heard) and `DeathsOK`. `ShutdownIsComplete` needs all of `LifespanOK`, since a
surface may die between the message and its answer. `Configuration` has no theorem
of its own; `SurfacesAreApart` is proved from its definitions.

**Only model-checked**: the properties under fairness (`CallsAreAnswered`,
`TimeoutsAreAnnounced`, `InputsAreDispatched`, `VerdictsReachTheRoom`,
`ProcessEnds`), which are out of reach of the prover, as is ENABLED; and the four
claims that do not hold. No module declares a RECURSIVE operator; recursion is
over positions, and what is proved of it is proved by least counterexample.

## 6. What is not modelled, and the plan

Not modelled: HTTP and XML; percent encodings, length and control characters of
paths (a path is the sequence of its decoded components); the grammar of replies
and durations; rendering and scrubbing of messages; scripts. Of the CLI: replies
that do not parse or decode, the 512 MB measure of gc (which entry goes is a
choice), `staging ls`, and where URL and token come from. Of the transport:
`on_invite`, events of other rooms. Of `request_access`: cancelling a call.

What is left, in order:

1. The reply grammar over tokens (`parse_reply`, `parse_expiry`), against a
   reference definition.
2. Cancelling `request_access`, so that what it leaves behind is a state of
   `ApprovalPlane` and not a remark in section 4.
3. The wall and the plane over one store: `Wall` with the calls of the store made
   by the plane, in place of `StoreCall`.
4. The contract of the audit log that `Wall` assumes, as a refinement by `AuditLog`.
