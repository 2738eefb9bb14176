--------------------------- MODULE MCApprovalPlane ---------------------------
(* Values for model-checking the approval plane. *)
EXTENDS ApprovalProperties, TLC

CONSTANTS ItemA, ItemB

MCItems == {ItemA, ItemB}
OneBatch == {<<ItemA>>}

\* An item number the batch does not have.
BadSelection == {<<2>>}

\* What the people in the room use, by the question a run asks.
Taps == {<<"reaction", "approve">>, <<"reaction", "reject">>}
Decisions == Taps \cup {<<"reply", "approve">>, <<"reply", "revoke">>}
Commands == {<<"reply", "approve">>, <<"reply", "reject">>, <<"reply", "revoke">>,
             <<"reply", "undo">>, <<"reply", "revoke_all">>,
             <<"reply", "revoke_instance">>, <<"reaction", "status">>}
Undoing == {<<"reply", "approve">>, <<"reply", "reject">>, <<"reply", "undo">>}
Approving == {<<"reply", "approve">>}

Requests == Permutations(Clients)
=============================================================================
