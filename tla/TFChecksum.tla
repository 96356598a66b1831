----------------------------- MODULE TFChecksum ------------------------------
(****************************************************************************)
(* The checksum algorithms of TinyFrame.c as values for the parameters of   *)
(* TFFrame.  A checksum is a register, the tuple of its bytes.              *)
(****************************************************************************)
EXTENDS Integers, Bitwise

\* TF_CKSUM_XOR, on bytes of `base` values (a power of two).
XorStart == <<0>>
XorAdd(k, b) == <<k[1] ^^ b>>
XorEnd(base, k) == <<base - 1 - k[1]>>

\* TF_CKSUM_NONE: the accumulator is never changed.
NoneAdd(k, b) == k
NoneEnd(k) == k
=============================================================================
