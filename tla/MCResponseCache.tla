---------------------------- MODULE MCResponseCache ----------------------------
(***************************************************************************)
(* ResponseCache for the endpoints of the decorator's docstring: a cached  *)
(* item, the list of its user and the lists a pattern matches, with an     *)
(* update of the item that invalidates all of them and a touch of the user *)
(* that invalidates only the first list.                                   *)
(***************************************************************************)
EXTENDS ResponseCache, TLC

CONSTANTS item, user_items, other_items, update_item, touch_user

MCKey == {item, user_items, other_items}
MCOp == {update_item, touch_user}
MCOwn == update_item :> item @@ touch_user :> user_items
MCExtra == update_item :> {user_items} @@ touch_user :> {}
MCMatched == update_item :> {other_items} @@ touch_user :> {}
MCAffects == update_item :> MCKey @@ touch_user :> {user_items}

(* The item alone, for the run about time.                                 *)
OneKey == {item}
OneOp == {update_item}
UpdateOwn == update_item :> item
UpdateExtra == update_item :> {}
UpdateAffects == update_item :> {item}

Symmetry == Permutations(Reader) \cup Permutations(Writer)
=============================================================================
