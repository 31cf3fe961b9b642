-------------------------- MODULE MCSlot2Allocator --------------------------
(***************************************************************************)
(* A small expansion RAM: addresses count units of 8 bytes, so a header    *)
(* (16 bytes on the console) takes two of them and so does CHUNK_MIN_SIZE. *)
(***************************************************************************)
EXTENDS Slot2Allocator, TLC

MCStart == 3
MCRamSize == 19
MCHeaderSize == 2
MCChunkMinSize == 2
MCModulus == 64
\* Nothing, the smallest chunk, an odd size that is padded, a size that
\* leaves less than a header behind in a hole, one that needs a merge, one
\* that never fits.
MCRequests == {0, 1, 4, 9, 17}
=============================================================================
