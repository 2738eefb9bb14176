---------------------------- MODULE ApprovalPlane ----------------------------
(***************************************************************************)
(* The approval plane of one broker process, around its grant store:        *)
(*   - the request_access calls of the agent   (broker/server.py),          *)
(*   - the approval bot                        (broker/matrixbot.py),       *)
(*   - its sync loop                           (broker/nio_transport.py),   *)
(*   - the Matrix room and the people in it, the homeserver that may fail,   *)
(*     and the process that may be restarted   (environment).               *)
(*                                                                         *)
(* The process is one asyncio loop.  A coroutine runs undisturbed between    *)
(* two awaits, and the only awaits of the plane are the calls that send      *)
(* something to the homeserver: an action below is what one coroutine does    *)
(* from one await to the next, and the actions of different coroutines        *)
(* interleave.                                                             *)
(***************************************************************************)
EXTENDS GrantStore

CONSTANTS
  Clients,         \* the request_access calls
  Approver,        \* the allowlisted Matrix user
  Strangers,       \* other members of the room
  Vocabulary,      \* the <<via, act>> pairs the room uses
  DefaultDuration, \* the duration of an approval that names none
  UndoGrace,       \* UNDO_GRACE_SECONDS
  MaxCommands,     \* bound on the inputs in the room's timeline
  MaxFailures,     \* bound on the sends that fail
  MaxRestarts      \* bound on the restarts of the process

ASSUME PlaneAssumption ==
  /\ Approver \notin Strangers
  /\ DefaultDuration \in Durations
  /\ UndoGrace \in Nat
  /\ MaxCommands \in Nat /\ MaxFailures \in Nat /\ MaxRestarts \in Nat

VARIABLES
  calls,      \* the request_access coroutines
  carried,    \* room: the request each posted message is about
  timeline,   \* room: the reactions and replies, oldest first
  horizon,    \* room: how many of them a sync without a token no longer returns
  said,       \* room: the verdicts the bot has confirmed
  listener,   \* BotListener, and the handler it is running
  windows,    \* ApprovalBot._undo_windows
  swept,      \* ApprovalBot._swept
  notices,    \* expiry notices delivered per request in this process
  failures,   \* sends that failed so far
  restarts,   \* restarts so far
  approvedBy, \* history: the input that approved each number, or 0
  undoOf      \* history: the number each request re-files, or NoRequest

inputVars == <<timeline, horizon>>
roomVars == <<carried, timeline, horizon>>
outVars == <<said, notices>>
faultVars == <<failures, restarts>>
historyVars == <<approvedBy, undoOf>>

planeVars == <<storeVars, calls, roomVars, listener, windows, swept, outVars,
               faultVars, historyVars>>

Numbers == 1..MaxRequests

Silence == [kind |-> "none", rid |-> NoRequest]
Verdict == [kind : {"approved", "rejected", "revoked"}, rid : Numbers]

NoWindow == [deadline |-> Null, instance |-> Null, items |-> <<>>]

\* A coroutine that has not been called.
IdleCall == [pc |-> "idle", rid |-> NoRequest, event |-> Null]

\* BotListener.__init__ and ApprovalBot.__init__: all of it is in memory.
\*   since       next_batch token: how much of the timeline is behind it
\*   pos, upto   the batch being dispatched is timeline[pos + 1 .. upto]
\*   seen        the inputs dispatched, by position in the timeline
\*   saying      the message whose send is awaited
\*   queue       the requests whose expiry notice this sweep will send
\*   rid, event  the request an undo is posting
FreshListener ==
  [pc |-> "sync", since |-> Null, pos |-> 0, upto |-> 0, seen |-> {},
   saying |-> Silence, queue |-> {}, rid |-> NoRequest, event |-> Null]

PlaneInit ==
  /\ StoreInit
  /\ calls = [c \in Clients |-> IdleCall]
  /\ carried = [e \in EventIds |-> NoRequest]
  /\ timeline = <<>>
  /\ horizon = 0
  /\ said = {}
  /\ listener = FreshListener
  /\ windows = [r \in Numbers |-> NoWindow]
  /\ swept = {}
  /\ notices = [r \in Numbers |-> 0]
  /\ failures = 0
  /\ restarts = 0
  /\ approvedBy = [r \in Numbers |-> 0]
  /\ undoOf = [r \in Numbers |-> NoRequest]

-----------------------------------------------------------------------------
(* The homeserver *)

\* The event ids the homeserver has not used; there are enough of them.
Unused == {e \in EventIds : carried[e] = NoRequest}

\* The event id of the next message.
FreshEvent == CHOOSE e \in Unused : TRUE

Post(r) == Unused # {} /\ carried' = [carried EXCEPT ![FreshEvent] = r]

\* A send raises: an error response, or an answer that never came.
SendFails ==
  /\ failures < MaxFailures
  /\ failures' = failures + 1
  /\ UNCHANGED restarts

-----------------------------------------------------------------------------
(* request_access (server.py _request_access, matrixbot.py post_request) *)

CallFrame ==
  UNCHANGED <<inputVars, listener, windows, swept, outVars, restarts, historyVars>>

\* The request is stored; the send of its message is awaited.
RequestAccess(c, i, batch) ==
  /\ calls[c].pc = "idle"
  /\ CreateRequest(i, batch)
  /\ calls' = [calls EXCEPT ![c] =
                 [pc |-> "sending", rid |-> Len(grants) + 1, event |-> Null]]
  /\ UNCHANGED <<carried, failures>>
  /\ CallFrame

\* The message is in the room; the four reactions are awaited, in turn.
Posted(c) ==
  /\ calls[c].pc = "sending"
  /\ Post(calls[c].rid)
  /\ calls' = [calls EXCEPT ![c].pc = "marking", ![c].event = FreshEvent]
  /\ UNCHANGED <<storeVars, failures>>
  /\ CallFrame

\* Mutant: the call waits for the approver before it returns.
Recorded_Blocking(c) ==
  /\ calls[c].pc = "marking"
  /\ ~Undecided(calls[c].rid)
  /\ RecordPosted(calls[c].event, calls[c].rid)
  /\ calls' = [calls EXCEPT ![c].pc = "pending"]
  /\ UNCHANGED <<carried, failures>>
  /\ CallFrame

\* The last reaction is placed: record_posted, and the agent is answered.
Recorded(c) ==
  /\ calls[c].pc = "marking"
  /\ RecordPosted(calls[c].event, calls[c].rid)
  /\ calls' = [calls EXCEPT ![c].pc = "pending"]
  /\ UNCHANGED <<carried, failures>>
  /\ CallFrame

\* Mutant: nothing is rolled back.
PostFails_Kept(c) ==
  /\ calls[c].pc \in {"sending", "marking"}
  /\ SendFails
  /\ calls' = [calls EXCEPT ![c].pc = "error"]
  /\ UNCHANGED <<storeVars, carried>>
  /\ CallFrame

\* Mutant: the rollback writes the row without the one-time-use guard.
PostFails_Forced(c) ==
  /\ calls[c].pc \in {"sending", "marking"}
  /\ SendFails
  /\ grants' = [grants EXCEPT ![calls[c].rid] = ClosedRow(@, "rejection", now)]
  /\ calls' = [calls EXCEPT ![c].pc = "error"]
  /\ UNCHANGED <<now, posted, carried>>
  /\ CallFrame

\* A send raises: the request is rolled back and the agent gets an error.  If
\* it has meanwhile been decided, or has timed out, reject raises instead.
PostFails(c) ==
  /\ calls[c].pc \in {"sending", "marking"}
  /\ SendFails
  /\ \/ UNCHANGED carried
     \/ calls[c].pc = "sending" /\ Post(calls[c].rid)
  /\ \/ /\ Reject(calls[c].rid)
        /\ calls' = [calls EXCEPT ![c].pc = "error"]
     \/ /\ ~Undecided(calls[c].rid)
        /\ calls' = [calls EXCEPT ![c].pc = "raised"]
        /\ UNCHANGED storeVars
  /\ CallFrame

-----------------------------------------------------------------------------
(* The room *)

Type(sender, via, act, target) ==
  /\ Len(timeline) < MaxCommands
  /\ <<via, act>> \in Vocabulary
  /\ timeline' = Append(timeline, [sender |-> sender, via |-> via, act |-> act,
                                   target |-> target])
  /\ UNCHANGED <<storeVars, calls, carried, horizon, listener, windows, swept,
                 outVars, faultVars, historyVars>>

\* The targets a typed command may name; a number need not exist.
Targets(act) ==
  CASE act \in {"approve", "reject", "revoke", "undo"} -> Numbers
    [] act = "revoke_instance" -> Instances
    [] OTHER -> {NoRequest}

\* Somebody taps a reaction on a request message, or types a reply.
RoomInput ==
  \E sender \in {Approver} \cup Strangers :
    \/ \E e \in EventIds, act \in {"approve", "reject", "revoke", "status"} :
         carried[e] # NoRequest /\ Type(sender, "reaction", act, e)
    \/ \E act \in {"approve", "reject", "revoke", "undo", "status",
                   "revoke_all", "revoke_instance"} :
         \E target \in Targets(act) : Type(sender, "reply", act, target)

-----------------------------------------------------------------------------
(* The sync loop (nio_transport.py BotListener.run) *)

ListenerFrame == UNCHANGED <<calls, inputVars, restarts>>

\* sync returns what follows the token.  Without one, as after a restart, it
\* returns the latest events, which may all be old; how far back they reach
\* only moves forward.
Sync ==
  /\ listener.pc = "sync"
  /\ horizon' \in IF listener.since = Null THEN horizon..Len(timeline) ELSE {horizon}
  /\ listener' = [listener EXCEPT
       !.pc = "dispatch",
       !.pos = IF listener.since = Null THEN horizon' ELSE listener.since,
       !.upto = Len(timeline)]
  /\ UNCHANGED <<storeVars, calls, carried, timeline, windows, swept, outVars,
                 faultVars, historyVars>>

\* The requests sweep() announces: stored pending, timed out, not announced.
ToSweep == {r \in Ids : TimedOut(grants[r], now) /\ r \notin swept}

SweepOn(queue) == IF queue = {} THEN "sync" ELSE "sweep"

\* The request whose notice is sent next: they are listed by number.
NextNotice == CHOOSE r \in listener.queue : \A s \in listener.queue : r <= s

\* The whole batch has been dispatched: the token moves and the sweep starts.
EndBatch ==
  /\ listener.pc = "dispatch"
  /\ listener.pos = listener.upto
  /\ listener' = [listener EXCEPT !.pc = SweepOn(ToSweep), !.queue = ToSweep,
                                  !.since = listener.upto, !.pos = 0, !.upto = 0]
  /\ UNCHANGED <<storeVars, carried, windows, swept, outVars, failures, historyVars>>
  /\ ListenerFrame

\* One expiry notice is delivered.
Notice ==
  /\ listener.pc = "sweep"
  /\ swept' = swept \cup {NextNotice}
  /\ notices' = [notices EXCEPT ![NextNotice] = @ + 1]
  /\ listener' = [listener EXCEPT !.queue = @ \ {NextNotice},
                                  !.pc = SweepOn(listener.queue \ {NextNotice})]
  /\ UNCHANGED <<storeVars, carried, windows, said, failures, historyVars>>
  /\ ListenerFrame

\* Mutant: the token moves although the batch is not complete.
BackToSync_Skipping ==
  listener' = [listener EXCEPT !.pc = "sync", !.since = listener.upto, !.pos = 0,
                               !.upto = 0, !.saying = Silence, !.queue = {},
                               !.rid = NoRequest, !.event = Null]

\* A send of the listener raises: the loop catches it, backs off and syncs
\* again from the token of the last complete batch.
BackToSync ==
  listener' = [listener EXCEPT !.pc = "sync", !.pos = 0, !.upto = 0,
                               !.saying = Silence, !.queue = {},
                               !.rid = NoRequest, !.event = Null]

\* Mutant: the request is marked before its notice is sent.
NoticeFails_Marked ==
  /\ listener.pc = "sweep"
  /\ SendFails
  /\ swept' = swept \cup {NextNotice}
  /\ BackToSync
  /\ UNCHANGED <<storeVars, carried, windows, outVars, historyVars>>
  /\ ListenerFrame

NoticeFails ==
  /\ listener.pc = "sweep"
  /\ SendFails
  /\ \/ UNCHANGED notices
     \/ notices' = [notices EXCEPT ![NextNotice] = @ + 1]
  /\ BackToSync
  /\ UNCHANGED <<storeVars, carried, windows, swept, said, historyVars>>
  /\ ListenerFrame

-----------------------------------------------------------------------------
(* Dispatching one input (on_event, handle_reaction, handle_reply) *)

Position == listener.pos + 1
Current == timeline[Position]

\* The next input of the batch, which was not dispatched before; on_event marks
\* it seen before it runs a handler.
Dispatching ==
  /\ listener.pc = "dispatch"
  /\ listener.pos < listener.upto
  /\ Position \notin listener.seen

Dispatched == [listener EXCEPT !.pos = Position, !.seen = @ \cup {Position}]

\* The handler awaits the send of one message.
Say(kind, r) ==
  listener' = [Dispatched EXCEPT !.pc = "confirm",
                                 !.saying = [kind |-> kind, rid |-> r]]

HandlerFrame ==
  /\ UNCHANGED <<carried, swept, outVars, failures>>
  /\ ListenerFrame

\* The request an input is about: a reaction names it through the message.
Addressed == IF Current.via = "reaction" THEN posted[Current.target] ELSE Current.target

\* Mutant: no allowlist.
FromApprover_Anyone == TRUE

\* The sender allowlist.
FromApprover == Current.sender = Approver

\* The approver's input is one of these verbs, about a number that exists.
Ordered(acts) ==
  /\ Dispatching
  /\ FromApprover
  /\ Current.act \in acts
  /\ Addressed \in Ids

AlreadySeen ==
  /\ listener.pc = "dispatch"
  /\ listener.pos < listener.upto
  /\ Position \in listener.seen
  /\ listener' = [listener EXCEPT !.pos = Position]
  /\ UNCHANGED <<storeVars, windows, historyVars>>
  /\ HandlerFrame

\* Strangers are ignored, and so is a reaction to a message that maps to no
\* request.
Ignored ==
  \/ ~FromApprover
  \/ Current.via = "reaction" /\ posted[Current.target] = NoRequest

Ignore ==
  /\ Dispatching
  /\ Ignored
  /\ listener' = Dispatched
  /\ UNCHANGED <<storeVars, windows, historyVars>>
  /\ HandlerFrame

\* Messages that report and decide nothing: the status block, and the answers
\* to a number that does not exist.
Report ==
  /\ Dispatching
  /\ ~Ignored
  /\ \/ Current.act = "status" /\ Say("status", NoRequest)
     \/ /\ Current.act \in {"approve", "reject", "revoke"}
        /\ Addressed \notin Ids
        /\ Say("unknown", NoRequest)
  /\ UNCHANGED <<storeVars, windows, historyVars>>
  /\ HandlerFrame

\* _arm_undo, after the store has written the decision.
Arm(r) ==
  windows' = [windows EXCEPT ![r] =
    [deadline |-> now' + UndoGrace, instance |-> grants'[r].instance,
     items |-> grants'[r].items]]

\* A reaction approves everything for the default duration; a typed approval
\* may name items (parse_reply never yields an empty list) and a duration.
DecideApprove ==
  /\ Ordered({"approve"})
  /\ \E duration \in Durations :
     \E sel \in Selections \cup {Everything(grants[Addressed].items)} :
       /\ sel # <<>>
       /\ Current.via = "reaction" =>
            /\ duration = DefaultDuration
            /\ sel = Everything(grants[Addressed].items)
       /\ Approve(Addressed, sel, duration)
  /\ approvedBy' = [approvedBy EXCEPT ![Addressed] = Position]
  /\ Say("approved", Addressed)
  /\ UNCHANGED <<windows, undoOf>>
  /\ HandlerFrame

\* Mutant: a rejection that is not confirmed.
DecideReject_Silent ==
  /\ Ordered({"reject"})
  /\ Reject(Addressed)
  /\ Arm(Addressed)
  /\ listener' = Dispatched
  /\ UNCHANGED historyVars
  /\ HandlerFrame

DecideReject ==
  /\ Ordered({"reject"})
  /\ Reject(Addressed)
  /\ Arm(Addressed)
  /\ Say("rejected", Addressed)
  /\ UNCHANGED historyVars
  /\ HandlerFrame

DecideRevoke ==
  /\ Ordered({"revoke"})
  /\ Revoke(Addressed)
  /\ Arm(Addressed)
  /\ Say("revoked", Addressed)
  /\ UNCHANGED historyVars
  /\ HandlerFrame

\* Mutant: the ValueError of the store is swallowed.
Refuse_Swallowed ==
  /\ Ordered({"approve"})
  /\ ~Undecided(Addressed)
  /\ Say("approved", Addressed)
  /\ UNCHANGED <<storeVars, windows, historyVars>>
  /\ HandlerFrame

\* The store raises ValueError: "Cannot approve" or "Cannot revoke".
Refuse ==
  /\ Ordered({"approve", "reject", "revoke"})
  /\ \/ Current.act \in {"approve", "reject"} /\ ~Undecided(Addressed)
     \/ /\ Current.act = "approve" /\ Current.via = "reply"
        /\ \E sel \in Selections : ~ValidSelection(sel, grants[Addressed].items)
     \/ /\ Current.act = "revoke"
        /\ Effective(grants[Addressed], now) \notin {Pending, Active}
  /\ Say("refused", NoRequest)
  /\ UNCHANGED <<storeVars, windows, historyVars>>
  /\ HandlerFrame

\* Mutant: "all" is taken for the name of an instance.
RevokeMany_Named ==
  LET scope == {r \in ActiveGrants : grants[r].instance = Current.target} IN
  /\ Dispatching
  /\ FromApprover
  /\ Current.act \in {"revoke_all", "revoke_instance"}
  /\ grants' = [r \in Ids |-> IF r \in scope THEN RevokedRow(grants[r]) ELSE grants[r]]
  /\ Say("summary", NoRequest)
  /\ UNCHANGED <<now, posted, windows, historyVars>>
  /\ HandlerFrame

\* revoke <instance>, revoke all: every live grant in scope, in one go, and
\* one summary; no undo window is armed.
RevokeMany ==
  LET scope == {r \in ActiveGrants : Current.act = "revoke_instance" =>
                                       grants[r].instance = Current.target}
  IN
  /\ Dispatching
  /\ FromApprover
  /\ Current.act \in {"revoke_all", "revoke_instance"}
  /\ grants' = [r \in Ids |-> IF r \in scope THEN RevokedRow(grants[r]) ELSE grants[r]]
  /\ Say("summary", NoRequest)
  /\ UNCHANGED <<now, posted, windows, historyVars>>
  /\ HandlerFrame

\* _undo: no window, or one that has closed.
UndoRefused ==
  /\ Dispatching
  /\ FromApprover
  /\ Current.act = "undo"
  /\ windows[Current.target] # NoWindow => now >= windows[Current.target].deadline
  /\ windows' = [windows EXCEPT ![Current.target] = NoWindow]
  /\ Say("closed", NoRequest)
  /\ UNCHANGED <<storeVars, historyVars>>
  /\ HandlerFrame

\* Mutant: the window is not consumed.
UndoFiled_Again ==
  LET window == windows[Current.target]
      r == Len(grants) + 1
  IN
  /\ Dispatching
  /\ FromApprover
  /\ Current.act = "undo"
  /\ window # NoWindow
  /\ now < window.deadline
  /\ CreateRequest(window.instance, window.items)
  /\ undoOf' = [undoOf EXCEPT ![r] = Current.target]
  /\ listener' = [Dispatched EXCEPT !.pc = "undo_sending", !.rid = r]
  /\ UNCHANGED <<windows, approvedBy>>
  /\ HandlerFrame

\* _undo: the window is consumed, a new request is filed and its message sent.
UndoFiled ==
  LET window == windows[Current.target]
      r == Len(grants) + 1
  IN
  /\ Dispatching
  /\ FromApprover
  /\ Current.act = "undo"
  /\ window # NoWindow
  /\ now < window.deadline
  /\ windows' = [windows EXCEPT ![Current.target] = NoWindow]
  /\ CreateRequest(window.instance, window.items)
  /\ undoOf' = [undoOf EXCEPT ![r] = Current.target]
  /\ listener' = [Dispatched EXCEPT !.pc = "undo_sending", !.rid = r]
  /\ UNCHANGED approvedBy
  /\ HandlerFrame

-----------------------------------------------------------------------------
(* What the handlers await *)

SendFrame ==
  /\ UNCHANGED <<windows, swept, notices, historyVars>>
  /\ ListenerFrame

\* The room remembers the verdicts.
Delivered == said' = said \cup ({listener.saying} \cap Verdict)

Confirmed ==
  /\ listener.pc = "confirm"
  /\ Delivered
  /\ listener' = [listener EXCEPT !.pc = "dispatch", !.saying = Silence]
  /\ UNCHANGED <<storeVars, carried, failures>>
  /\ SendFrame

ConfirmFails ==
  /\ listener.pc = "confirm"
  /\ SendFails
  /\ Delivered \/ UNCHANGED said
  /\ BackToSync
  /\ UNCHANGED <<storeVars, carried>>
  /\ SendFrame

UndoPosted ==
  /\ listener.pc = "undo_sending"
  /\ Post(listener.rid)
  /\ listener' = [listener EXCEPT !.pc = "undo_marking", !.event = FreshEvent]
  /\ UNCHANGED <<storeVars, said, failures>>
  /\ SendFrame

UndoRecorded ==
  /\ listener.pc = "undo_marking"
  /\ RecordPosted(listener.event, listener.rid)
  /\ listener' = [listener EXCEPT !.pc = "dispatch", !.rid = NoRequest, !.event = Null]
  /\ UNCHANGED <<carried, said, failures>>
  /\ SendFrame

\* Nothing is rolled back: the exception reaches the sync loop.
UndoPostFails ==
  /\ listener.pc \in {"undo_sending", "undo_marking"}
  /\ SendFails
  /\ \/ UNCHANGED carried
     \/ listener.pc = "undo_sending" /\ Post(listener.rid)
  /\ BackToSync
  /\ UNCHANGED <<storeVars, said>>
  /\ SendFrame

-----------------------------------------------------------------------------
(* The process and the clock *)

\* The process ends and a new one opens the store: every coroutine and all that
\* the bot kept in memory is gone.
Restart ==
  /\ restarts < MaxRestarts
  /\ restarts' = restarts + 1
  /\ Reopen
  /\ calls' = [c \in Clients |->
                 IF calls[c].pc \in {"sending", "marking"}
                 THEN [calls[c] EXCEPT !.pc = "lost"] ELSE calls[c]]
  /\ listener' = FreshListener
  /\ windows' = [r \in Numbers |-> NoWindow]
  /\ swept' = {}
  /\ notices' = [r \in Numbers |-> 0]
  /\ UNCHANGED <<roomVars, said, failures, historyVars>>

Clock ==
  /\ Tick
  /\ UNCHANGED <<calls, roomVars, listener, windows, swept, outVars, faultVars,
                 historyVars>>

CallStep(c) == Posted(c) \/ Recorded(c) \/ PostFails(c)

Handle ==
  \/ AlreadySeen \/ Ignore \/ Report
  \/ DecideApprove \/ DecideReject \/ DecideRevoke \/ Refuse
  \/ RevokeMany \/ UndoRefused \/ UndoFiled

Await ==
  \/ Confirmed \/ ConfirmFails
  \/ UndoPosted \/ UndoRecorded \/ UndoPostFails

ListenerStep ==
  Sync \/ EndBatch \/ Notice \/ NoticeFails \/ Handle \/ Await

PlaneNext ==
  \/ \E c \in Clients, i \in Instances, batch \in Batches : RequestAccess(c, i, batch)
  \/ \E c \in Clients : CallStep(c)
  \/ ListenerStep
  \/ RoomInput
  \/ Restart
  \/ Clock

PlaneSpec == PlaneInit /\ [][PlaneNext]_planeVars

\* The event loop runs every coroutine whose send has been answered, and the
\* homeserver answers every send and every long poll, at worst with an error.
FairPlane ==
  /\ PlaneSpec
  /\ \A c \in Clients : WF_planeVars(CallStep(c))
  /\ WF_planeVars(ListenerStep)
=============================================================================
