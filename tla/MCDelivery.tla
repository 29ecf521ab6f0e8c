----------------------------- MODULE MCDelivery -----------------------------
(***************************************************************************)
(* Small texts for TLC.  The window is 3 units and the limit 4, so that a  *)
(* rendered table unit of 3 fits with at most one more unit: a window with *)
(* two table units does not.                                               *)
(***************************************************************************)
EXTENDS Delivery

\* Leading, inner and doubled white space; a table before and after a cut.
MixedReplies == {<<"s", "w", "w", "s", "s", "w">>,
                 <<"w", "t", "s", "w", "w">>}

\* A reply that starts as an acknowledgement does, and one longer than a window.
PlainReplies == {<<"w", "s", "w">>, <<"w", "w", "s", "w", "w">>}

\* Two table units in one window.
TableReply == {<<"w", "t", "t", "w">>}

OneNote == {<<"w", "s", "w", "w">>, <<"w">>}
TableNote == {<<"t", "s", "t">>, <<"w">>}
=============================================================================
