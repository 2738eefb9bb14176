----------------------------- MODULE MCGrantStore -----------------------------
(* Values for model-checking GrantStore. *)
EXTENDS GrantStore

CONSTANTS ItemA, ItemB

MCItems == {ItemA, ItemB}

\* One request for two items, and one for a single item.
MCBatches == {<<ItemA, ItemB>>, <<ItemB>>}

\* Nothing, a part, a repeated item, and a number no batch has.
MCSelections == {<<>>, <<2>>, <<1, 1>>, <<3>>}
=============================================================================
