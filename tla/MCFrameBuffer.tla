--------------------------- MODULE MCFrameBuffer ---------------------------
(* Small instances of FrameBuffer: each picture larger than the one before. *)
EXTENDS FrameBuffer, TLC

MCFrameSize == (0 :> 0) @@ (1 :> 2) @@ (2 :> 4)
=============================================================================
