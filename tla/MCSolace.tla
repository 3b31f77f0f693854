------------------------------ MODULE MCSolace ------------------------------
(***************************************************************************)
(* 12 frames of 16 bytes: three below the image, seven of the image, one   *)
(* above it and one without memory.  No section's size is a multiple of    *)
(* its alignment.                                                          *)
(***************************************************************************)
EXTENDS Solace

MCKernelStart == kernel_start
MCKernelEnd   == kernel_end
MCBitmapStart == bitmap_start
MCBitmapEnd   == bitmap_end
MCBootParams  == {<<>>}
MCLoadShifts  == {0, -48}
=============================================================================
