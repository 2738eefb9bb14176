-------------------------- MODULE ApprovalProperties --------------------------
(***************************************************************************)
(* What the approval plane must guarantee, over the interleavings of the     *)
(* agent's calls, the bot, the people in the room and the clock, with        *)
(* sends that fail and restarts of the process.                             *)
(***************************************************************************)
EXTENDS ApprovalPlane

CallState == {"idle", "sending", "marking", "pending", "error", "raised", "lost"}

ListenerState == {"sync", "dispatch", "confirm", "undo_sending", "undo_marking",
                  "sweep"}

Input == [ sender : {Approver} \cup Strangers,
           via    : {"reaction", "reply"},
           act    : {"approve", "reject", "revoke", "undo", "status",
                     "revoke_all", "revoke_instance"},
           target : EventIds \cup Numbers \cup Instances \cup {NoRequest} ]

\* Type invariant of the plane.
PlaneTypeOK ==
  /\ StoreTypeOK
  /\ calls \in [Clients -> [pc : CallState, rid : Numbers \cup {NoRequest},
                            event : EventIds \cup {Null}]]
  /\ carried \in [EventIds -> Numbers \cup {NoRequest}]
  /\ \A i \in DOMAIN timeline : timeline[i] \in Input
  /\ said \subseteq Verdict
  /\ listener.pc \in ListenerState
  /\ listener.pos <= listener.upto /\ listener.upto <= Len(timeline)
  /\ listener.seen \subseteq DOMAIN timeline
  /\ horizon \in 0..Len(timeline)
  /\ listener.pc = "sweep" <=> listener.queue # {}
  /\ swept \subseteq Numbers
  /\ notices \in [Numbers -> 0..(MaxFailures + 1)]

\* A coroutine that is still posting request r answers for it.
InFlight(r) ==
  \/ \E c \in Clients : calls[c].pc \in {"sending", "marking"} /\ calls[c].rid = r
  \/ listener.pc \in {"undo_sending", "undo_marking"} /\ listener.rid = r

-----------------------------------------------------------------------------
(* Safety *)

\* The human gate: a number was only ever approved by an input of the
\* allowlisted approver that names it - the number he typed, or the reaction to
\* the very message that shows that request in the room - however posting,
\* deciding and restarting interleave (matrixbot.py:8-12).
ApprovalsAreOrdered ==
  \A r \in Ids :
    grants[r].expires # Null =>
      /\ approvedBy[r] \in DOMAIN timeline
      /\ LET input == timeline[approvedBy[r]] IN
         /\ input.sender = Approver
         /\ input.act = "approve"
         /\ IF input.via = "reaction" THEN carried[input.target] = r
                                      ELSE input.target = r

\* No pending request is invisible: once nobody is posting it any more, a request
\* that can still be approved is carried by a message whose reactions reach it
\* (server.py:140-144).  The plane keeps its shape throughout.
NoInvisiblePending ==
  /\ PlaneTypeOK
  /\ \A r \in Ids :
       Undecided(r) /\ ~InFlight(r) =>
         \E e \in EventIds : posted[e] = r /\ carried[e] = r

\* The room is told the truth: a verdict confirmed in the room is the one in
\* the store, so no number is ever confirmed both approved and rejected, even
\* when confirmations are resent, lost or interleaved with other decisions.
VerdictsHold ==
  \A v \in said :
    grants[v.rid].source \in
      CASE v.kind = "approved" -> {"approval", "revocation"}
        [] v.kind = "rejected" -> {"rejection"}
        [] v.kind = "revoked"  -> {"revocation", "pending_revoke"}

\* Undo re-files, it never resurrects: the number undone stays dead, it is
\* re-filed at most once, within the grace period, for the same instance and for
\* no item it did not hold (matrixbot.py _undo).
UndoRefiles ==
  \A r \in Ids :
    undoOf[r] # NoRequest =>
      LET old == grants[undoOf[r]] IN
      /\ old.state \in {Rejected, Revoked}
      /\ grants[r].instance = old.instance
      /\ ItemsOf(grants[r]) \subseteq ItemsOf(old)
      /\ old.state = Rejected => grants[r].created < old.decided + UndoGrace
      /\ \A s \in Ids \ {r} : undoOf[s] # undoOf[r]

\* "Expired unanswered.  Silence grants nothing" is true when it is said, and
\* stays true: the request is never approved afterwards, although the notice is
\* sent from a list read before the sends of the others were awaited.  A process
\* says it once, but for the sends that fail (matrixbot.py sweep).
NoticesHold ==
  \A r \in Ids : notices[r] > 0 =>
    grants[r].expires = Null /\ notices[r] <= 1 + failures

\* The kill switch: once the listener has dispatched "revoke all", no grant
\* approved by an earlier input is live, whatever was being posted, confirmed or
\* decided meanwhile.
KillSwitchHolds ==
  \A i \in listener.seen :
    timeline[i].sender = Approver /\ timeline[i].act = "revoke_all" =>
      \A r \in ActiveGrants : approvedBy[r] >= i

-----------------------------------------------------------------------------
(* Liveness, under FairPlane *)

\* Every request_access call that was made returns, unless the process dies.
CallsAreAnswered ==
  \A c \in Clients :
    calls[c].pc = "sending" ~> calls[c].pc \in {"pending", "error", "raised", "lost"}

\* A request nobody answered in time is announced in the room, even if sends
\* fail first, unless a restart discards it.
TimeoutsAreAnnounced ==
  \A r \in Numbers :
    (r \in Ids /\ TimedOut(grants[r], now)) ~>
      (notices[r] > 0 \/ (r \in Ids /\ grants[r].state = Rejected))

\* An input that reached the room behind the listener's token is dispatched, even
\* if the handler of an earlier one raised in the middle of the batch, until the
\* listener loses the token in a restart.
InputsAreDispatched ==
  \A i \in 1..MaxCommands :
    (i \in DOMAIN timeline /\ listener.since # Null /\ listener.since < i) ~>
      (i \in listener.seen \/ listener.since = Null)

\* A decision is confirmed in the room, unless a send failed or the process was
\* restarted.
VerdictsReachTheRoom ==
  \A r \in Numbers :
    (r \in Ids /\ grants[r].source \in {"approval", "rejection"}) ~>
      \/ \E v \in said : v.rid = r
      \/ failures + restarts > 0

-----------------------------------------------------------------------------
(* What the documentation says and the code does not always do *)

\* matrixbot.py:228-230: the mapping is persisted immediately after posting,
\* so a reaction of the approver to the message of an undecided request
\* resolves.
ReactionsFindTheirRequest ==
  [][\A i \in listener'.seen \ listener.seen :
       LET e == timeline[i].target IN
       /\ timeline[i].via = "reaction"
       /\ timeline[i].sender = Approver
       /\ Undecided(carried[e])
       => posted[e] = carried[e]]_planeVars

\* server.py:140-144: if posting fails, the request is rolled back to rejected,
\* so an agent that got an error holds nothing.
ErrorsAreRolledBack ==
  \A c \in Clients :
    calls[c].pc \in {"error", "raised"} => grants[calls[c].rid].state = Rejected
=============================================================================
