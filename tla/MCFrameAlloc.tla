---------------------------- MODULE MCFrameAlloc ----------------------------
(***************************************************************************)
(* FrameAlloc on eight frames of four bytes.  The null boot parameters of    *)
(* boot.S, an image that starts and ends inside frames, one that ends with *)
(* the managed region, and one that is a single frame.                     *)
(***************************************************************************)
EXTENDS FrameAlloc

MCBootParams == {<<>>, <<9, 18>>, <<31, 36>>, <<4, 8>>}
=============================================================================
