----------------------------- MODULE ImrtLinkMC -----------------------------
(* ImrtLink for TLC: the payload bytes.                                      *)
EXTENDS ImrtLink

(* Nothing, the start of a frame, or a whole start. *)
AnyBytes == {<<>>, <<18>>, <<18, 52>>}

=============================================================================
