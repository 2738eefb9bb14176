---------------------------- MODULE GrantLifecycle ----------------------------
(***************************************************************************)
(* What the grant store promises about a request number, whatever the rows  *)
(* and the clock behind it: the state machine of the docstring of           *)
(* broker/grants.py.  `phase' is the sequence of the effective states of    *)
(* the numbers, where the two ways to be "expired" are told apart:          *)
(*   unanswered - a request nobody answered in time,                        *)
(*   ended      - a grant that ran to its expiry.                           *)
(* Time passes for every number at once, so each step may also age numbers  *)
(* it does not decide.                                                      *)
(***************************************************************************)
EXTENDS Naturals, Sequences

CONSTANT MaxRequests \* bound on the number of requests

VARIABLE phase

Phase == {"pending", "active", "unanswered", "ended", "rejected", "revoked"}

Init == phase = <<>>

\* What the passing of time may make of a number.
Aged(p) == CASE p = "pending" -> {"pending", "unanswered"}
             [] p = "active"  -> {"active", "ended"}
             [] OTHER         -> {p}

AgedExcept(S) == \A r \in DOMAIN phase \ S : phase'[r] \in Aged(phase[r])

\* A new number is pending.
File ==
  /\ Len(phase) < MaxRequests
  /\ phase' = Append(phase, "pending")

\* The approver's verdict: the only way into "active" is out of "pending".
Decide(r) ==
  /\ DOMAIN phase' = DOMAIN phase
  /\ \/ phase[r] = "pending" /\ phase'[r] \in {"active", "rejected"}
     \/ phase[r] = "active" /\ phase'[r] = "revoked"
  /\ AgedExcept({r})

\* Time passes.
Elapse ==
  /\ DOMAIN phase' = DOMAIN phase
  /\ AgedExcept({})

\* A restart discards what was never decided, answered or not.
Discard ==
  phase' = [r \in DOMAIN phase |->
              IF phase[r] \in {"pending", "unanswered"} THEN "rejected"
                                                        ELSE phase[r]]

Next ==
  \/ File
  \/ \E r \in DOMAIN phase : Decide(r)
  \/ Elapse
  \/ Discard

Spec == Init /\ [][Next]_phase
=============================================================================
