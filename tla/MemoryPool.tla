---------------------------- MODULE MemoryPool ----------------------------
(***************************************************************************)
(* What the external-RAM allocator promises to its callers, with no trace  *)
(* of the chunk list: a pool of bytes and the blocks of it that are in     *)
(* use.  A block is the extent <<a, b>> of the bytes a..b-1: the header    *)
(* and the data that follows it.                                           *)
(*                                                                         *)
(* A request is served by any block that is big enough and overlaps no     *)
(* block in use, and it is refused only when the pool holds no run of      *)
(* unused bytes of that length: free space is never lost to fragmentation  *)
(* that the callers did not cause.                                         *)
(***************************************************************************)
EXTENDS Integers

CONSTANTS Lo, Hi,          \* the first byte of the pool, the first after it
          Overhead,        \* bytes of bookkeeping at the front of a block
          Requests,        \* the sizes that are asked for
          Round(_)         \* the bytes of data a request really needs

VARIABLES blocks,          \* the extents in use
          top,             \* the end of the pool: Lo when there is no RAM
          reply            \* the last call and its answer

vars == <<blocks, top, reply>>

Extents == {e \in (Lo .. top) \X (Lo .. top) : e[1] < e[2]}

Overlap(e, f) == e[1] < f[2] /\ f[1] < e[2]

Unused(e) == \A b \in blocks : ~Overlap(e, b)

----------------------------------------------------------------------------
Init == /\ blocks = {}
        /\ top \in {Lo, Hi}
        /\ reply = [call |-> "none"]

Served(n, e)  == [call |-> "alloc", size |-> n, ret |-> e[1] + Overhead]
Refused(n)    == [call |-> "alloc", size |-> n, ret |-> 0]
Freed(result) == [call |-> "free", ret |-> result]

Serve(n) ==
  \E e \in Extents : /\ e[2] - e[1] >= Round(n) + Overhead
                     /\ Unused(e)
                     /\ blocks' = blocks \cup {e}
                     /\ reply' = Served(n, e)
                     /\ UNCHANGED top

\* Never while a long enough run of bytes is unused.
Refuse(n) ==
  /\ \A e \in Extents : e[2] - e[1] = Round(n) + Overhead => ~Unused(e)
  /\ reply' = Refused(n)
  /\ UNCHANGED <<blocks, top>>

\* A request for no bytes gets none.
RefuseEmpty == reply' = Refused(0) /\ UNCHANGED <<blocks, top>>

Release(e) == /\ e \in blocks
              /\ blocks' = blocks \ {e}
              /\ reply' = Freed(0)
              /\ UNCHANGED top

\* A pointer that is not the data of a block in use changes nothing.
ReleaseWrong == /\ reply' \in {Freed(-1), Freed(-2)}
                /\ UNCHANGED <<blocks, top>>

Next == \/ \E n \in Requests \ {0} : Serve(n) \/ Refuse(n)
        \/ RefuseEmpty
        \/ \E e \in blocks : Release(e)
        \/ ReleaseWrong

Spec == Init /\ [][Next]_vars

----------------------------------------------------------------------------
\* No byte belongs to two blocks.
BlocksDisjoint == \A b, c \in blocks : b # c => ~Overlap(b, c)
=============================================================================
