------------------------------ MODULE MCDecoder -----------------------------
(***************************************************************************)
(* Headers of two bytes and bodies of none or two: chunks can end in a     *)
(* header, between a header and its body, in a body, or between frames.    *)
(***************************************************************************)
EXTENDS Decoder

=============================================================================
