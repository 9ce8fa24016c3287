------------------------- MODULE MCStreamRenderers -------------------------
(***************************************************************************)
(* StreamRenderers for TLC: an even size and one of odd height.            *)
(***************************************************************************)
EXTENDS StreamRenderers

MCSizes == {<<2, 2>>, <<4, 3>>}

\* Users share the first view.
MCHome == [u \in Users |-> "v1"]

=============================================================================
