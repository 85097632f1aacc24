------------------------------ MODULE MC_Memory ------------------------------
(* Memory with 20-bit "uint64" and 17-bit "float64" mantissa: the ratio     *)
(* of the real 64 and 53 bits, with products inside TLC's integers.  The    *)
(* page counts straddle the wrap points 2^(20-15) = 32 (x32768) and         *)
(* 2^(20-8) = 4096 (x256), include rows that use more than reserved, and   *)
(* 5 pages of 32 KiB (163840 bytes) lie between 2^17 and 2^20, so that     *)
(* float64 rounds them.                                                    *)
EXTENDS Memory

MCPages == {0, 1, 5, 32, 4096}
=============================================================================
