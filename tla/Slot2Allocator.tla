--------------------------- MODULE Slot2Allocator ---------------------------
(***************************************************************************)
(* The allocator of the expansion RAM in Slot-2                            *)
(* (ndspp/source/common/Slot2Allocator.cpp).  All its state lives in that  *)
(* RAM: a doubly linked list of chunks, each a header followed by data.    *)
(* `chunk' maps the address of each header in the list to its contents;    *)
(* the bytes of a header that a merge removed are data again, so they are  *)
(* no longer in the function.                                              *)
(***************************************************************************)
EXTENDS Integers, Sequences, FiniteSets, FiniteSetsExt

CONSTANTS Start,         \* peripheralSlot2RamStart()
          RamSize,       \* peripheralSlot2RamSize()
          HeaderSize,    \* sizeof(Chunk)
          ChunkMinSize,  \* CHUNK_MIN_SIZE: data sizes are multiples of it
          Modulus,       \* size_t arithmetic wraps at this value
          Requests       \* the sizes that callers ask for

ASSUME SizesAssumption ==
  /\ Start \in Nat \ {0}
  /\ HeaderSize \in Nat \ {0}
  /\ RamSize \in Nat /\ RamSize > HeaderSize
  /\ ChunkMinSize \in Nat \ {0}

\* Callers ask for far less than the address space: Image.cpp limits a
\* picture to 249 by 384 pixels of two bytes.
ASSUME RequestsAssumption ==
  /\ Modulus \in Nat
  /\ Requests \subseteq Nat
  /\ \A n \in Requests : n + ChunkMinSize <= Modulus

VARIABLES first,         \* first_chunk
          chunk,         \* the headers in the list
          reply          \* the last call and the value it returned

vars == <<first, chunk, reply>>

NULL == 0

End == Start + RamSize

Chunk == [previous : Nat, next : Nat, size : Nat, used : BOOLEAN]

\* In the headers h, the first byte after chunk c and its data.
After(h, c) == c + HeaderSize + h[c].size

UserPtr(c) == c + HeaderSize

----------------------------------------------------------------------------
NoRam == first = NULL /\ chunk = [c \in {} |-> <<>>]

OneFreeChunk ==
  /\ first = Start
  /\ chunk = [c \in {Start} |->
                [previous |-> NULL, next |-> NULL,
                 size |-> RamSize - HeaderSize, used |-> FALSE]]

\* The constructor leaves first_chunk NULL when no RAM is found.
Init == (NoRam \/ OneFreeChunk) /\ reply = [call |-> "none"]

----------------------------------------------------------------------------
\* (size + mask) & ~mask on a size_t.
Pad(n) == LET s == (n + ChunkMinSize - 1) % Modulus IN s - (s % ChunkMinSize)

\* The data that a request needs: whole multiples of CHUNK_MIN_SIZE.
RoundUp(n) == ((n + ChunkMinSize - 1) \div ChunkMinSize) * ChunkMinSize

\* The list, in the order the scans of alloc and get_usage follow.
Walk ==
  LET from[c \in DOMAIN chunk] ==
        IF chunk[c].next = NULL THEN <<c>> ELSE <<c>> \o from[chunk[c].next]
  IN  IF first = NULL THEN <<>> ELSE from[first]

Rank(c) == CHOOSE i \in DOMAIN Walk : Walk[i] = c

\* Mutant: a chunk of exactly the right size is skipped.
FitsOnlyLarger(n) == {c \in DOMAIN chunk : ~chunk[c].used /\ chunk[c].size > n}

Fits(n) == {c \in DOMAIN chunk : ~chunk[c].used /\ chunk[c].size >= n}

FirstFit(n) ==
  {c \in Fits(n) : \A d \in Fits(n) \ {c} : Rank(c) < Rank(d)}

\* Mutants: the chunk after the new one keeps its old link back; the new
\* header is placed as if the old one took no room.
SplitForgetsBackLink(c, n) ==
  LET new == c + HeaderSize + n
  IN  [d \in DOMAIN chunk \cup {new} |->
         IF d = new THEN [previous |-> c, next |-> chunk[c].next, used |-> FALSE,
                          size |-> chunk[c].size - n - HeaderSize]
         ELSE IF d = c THEN [chunk[c] EXCEPT !.next = new, !.size = n,
                                             !.used = TRUE]
         ELSE chunk[d]]

SplitInsideData(c, n) ==
  LET new == c + n
  IN  [d \in DOMAIN chunk \cup {new} |->
         IF d = new THEN [previous |-> c, next |-> chunk[c].next, used |-> FALSE,
                          size |-> chunk[c].size - n - HeaderSize]
         ELSE IF d = c THEN [chunk[c] EXCEPT !.next = new, !.size = n,
                                             !.used = TRUE]
         ELSE chunk[d]]

\* split_chunk, and the two flags that alloc sets after it.
Split(c, n) ==
  LET new == c + HeaderSize + n
      nxt == chunk[c].next
  IN  [d \in DOMAIN chunk \cup {new} |->
         IF d = new THEN [previous |-> c, next |-> nxt, used |-> FALSE,
                          size |-> chunk[c].size - n - HeaderSize]
         ELSE IF d = c THEN [chunk[c] EXCEPT !.next = new, !.size = n,
                                             !.used = TRUE]
         ELSE IF d = nxt THEN [chunk[d] EXCEPT !.previous = new]
         ELSE chunk[d]]

\* Mutant: a remainder too small for a header is split off all the same.
TakeTooTight(c, n) == IF chunk[c].size <= n
                      THEN [chunk EXCEPT ![c].used = TRUE]
                      ELSE Split(c, n)

Take(c, n) == IF chunk[c].size <= n + HeaderSize
              THEN [chunk EXCEPT ![c].used = TRUE]
              ELSE Split(c, n)

AllocReply(n, p) == [call |-> "alloc", size |-> n, ret |-> p]
FreeReply(r)     == [call |-> "free", ret |-> r]

AllocNothing == /\ reply' = AllocReply(0, NULL)
                /\ UNCHANGED <<first, chunk>>

AllocFrom(n, c) == /\ c \in FirstFit(Pad(n))
                   /\ chunk' = Take(c, Pad(n))
                   /\ reply' = AllocReply(n, UserPtr(c))
                   /\ UNCHANGED first

AllocFails(n) == /\ Fits(Pad(n)) = {}
                 /\ reply' = AllocReply(n, NULL)
                 /\ UNCHANGED <<first, chunk>>

----------------------------------------------------------------------------
\* Mutant: the bytes of the removed header are lost.
JoinLosesHeader(h, a, b) ==
  [d \in DOMAIN h \ {b} |->
     IF d = a THEN [h[a] EXCEPT !.next = h[b].next, !.size = @ + h[b].size]
     ELSE IF d = h[b].next THEN [h[d] EXCEPT !.previous = a]
     ELSE h[d]]

\* Chunk b, which follows a in the list of the headers h, becomes data of a.
Join(h, a, b) ==
  LET nxt == h[b].next
  IN  [d \in DOMAIN h \ {b} |->
         IF d = a THEN [h[a] EXCEPT !.next = nxt,
                                    !.size = @ + h[b].size + HeaderSize]
         ELSE IF d = nxt THEN [h[d] EXCEPT !.previous = a]
         ELSE h[d]]

IsFree(h, c) == c # NULL /\ ~h[c].used

\* Mutant: a freed chunk is merged forwards only.
MergedForwards(c) ==
  LET h0 == [chunk EXCEPT ![c].used = FALSE]
  IN  IF IsFree(h0, chunk[c].next) THEN Join(h0, c, chunk[c].next) ELSE h0

\* free() first merges the chunk into a free one before it, then a free
\* chunk after it into the result.
Merged(c) ==
  LET prv  == chunk[c].previous
      nxt  == chunk[c].next
      h0   == [chunk EXCEPT ![c].used = FALSE]
      back == IsFree(h0, prv)
      h1   == IF back THEN Join(h0, prv, c) ELSE h0
      this == IF back THEN prv ELSE c
  IN  IF IsFree(h0, nxt) THEN Join(h1, this, nxt) ELSE h1

Free(c) == /\ c \in DOMAIN chunk /\ chunk[c].used
           /\ chunk' = Merged(c)
           /\ reply' = FreeReply(0)
           /\ UNCHANGED first

\* -1: no such chunk.  -2: the chunk is free already.
FreeFails(c) == /\ \/ c \notin DOMAIN chunk /\ reply' = FreeReply(-1)
                   \/ /\ c \in DOMAIN chunk /\ ~chunk[c].used
                      /\ reply' = FreeReply(-2)
                /\ UNCHANGED <<first, chunk>>

----------------------------------------------------------------------------
Next == \/ AllocNothing
        \/ \E n \in Requests \ {0} :
             AllocFails(n) \/ \E c \in DOMAIN chunk : AllocFrom(n, c)
        \/ \E c \in Start .. End : Free(c) \/ FreeFails(c)

Spec == Init /\ [][Next]_vars

----------------------------------------------------------------------------
\* What the list of headers h always is.
HeadersTyped(h) == /\ DOMAIN h \subseteq Start .. End
                   /\ h \in [DOMAIN h -> Chunk]

ForwardLink(h, c) ==
  IF h[c].next = NULL THEN After(h, c) = End
  ELSE /\ h[c].next \in DOMAIN h
       /\ h[c].next = After(h, c)
       /\ h[h[c].next].previous = c

BackLink(h, c) ==
  IF h[c].previous = NULL THEN c = Start
  ELSE /\ h[c].previous \in DOMAIN h
       /\ h[h[c].previous].next = c

Linked(h) == \A c \in DOMAIN h : ForwardLink(h, c) /\ BackLink(h, c)

Disjoint(h) == \A c, d \in DOMAIN h : c < d => After(h, c) <= d

BothFree(h, c) == /\ ~h[c].used
                  /\ h[c].next # NULL
                  /\ ~h[h[c].next].used

TypeInvariant == first \in {NULL, Start} /\ HeadersTyped(chunk)

\* The two directions of the list agree, and each chunk ends where the next
\* one begins: split_chunk and the two merges of free() keep it so.
ListLinked ==
  /\ IF first = NULL THEN DOMAIN chunk = {} ELSE first \in DOMAIN chunk
  /\ Linked(chunk)

\* No header lies inside the data of another chunk: what a caller writes to
\* its block can't corrupt the list.
ChunksDisjoint == Disjoint(chunk)

\* What assert(next->used) in split_chunk and assert(next_next->used) in
\* free() rely on: two neighbours are never both free.
NoAdjacentFree == \A c \in DOMAIN chunk : ~BothFree(chunk, c)

\* get_usage
UsedBytes  == MapThenSumSet(LAMBDA c : chunk[c].size,
                            {c \in DOMAIN chunk : chunk[c].used})
FreeBytes  == MapThenSumSet(LAMBDA c : chunk[c].size,
                            {c \in DOMAIN chunk : ~chunk[c].used})
TotalBytes == MapThenSumSet(LAMBDA c : HeaderSize + chunk[c].size,
                            DOMAIN chunk)

\* Whatever was allocated, freed and merged, the scan of get_usage reaches
\* every chunk once and accounts for every byte of the RAM.
UsageAddsUp ==
  first # NULL =>
    /\ {Walk[i] : i \in DOMAIN Walk} = DOMAIN chunk
    /\ Len(Walk) = Cardinality(DOMAIN chunk)
    /\ TotalBytes = RamSize
    /\ UsedBytes + FreeBytes + HeaderSize * Cardinality(DOMAIN chunk)
         = RamSize

\* The blocks that the callers hold.
UsedExtents == {<<c, After(chunk, c)>> : c \in {d \in DOMAIN chunk : chunk[d].used}}

Pool == INSTANCE MemoryPool
          WITH Lo <- Start, Hi <- End, Overhead <- HeaderSize, Round <- RoundUp,
               blocks <- UsedExtents,
               top <- IF first = NULL THEN Start ELSE End

\* The list implements the pool: blocks in use never overlap, and a request
\* fails only when no run of unused bytes could hold it.
ImplementsPool == Pool!Spec
=============================================================================
