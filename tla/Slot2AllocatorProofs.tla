------------------------ MODULE Slot2AllocatorProofs ------------------------
(***************************************************************************)
(* The chunk list of Slot2Allocator is well formed in every reachable      *)
(* state, for every size of the RAM, of the header and of the requests.    *)
(* WellFormed(h) is the part of the invariant that splitting and joining   *)
(* chunks preserve one at a time; it is stated of any headers h because    *)
(* free() goes through two intermediate lists.                             *)
(***************************************************************************)
EXTENDS Slot2Allocator, FiniteSetTheorems, WellFoundedInduction, TLAPS

WellFormed(h) == HeadersTyped(h) /\ Linked(h) /\ Disjoint(h)

USE SizesAssumption DEF NULL, End, Chunk

\* The updates of a header that split_chunk and free() make yield headers.
LEMMA HeaderUpdates ==
  ASSUME NEW r \in Chunk, NEW x \in Nat, NEW y \in Nat
  PROVE  /\ [r EXCEPT !.previous = x] \in Chunk
         /\ [r EXCEPT !.next = x, !.size = y] \in Chunk
         /\ [r EXCEPT !.next = x, !.size = y, !.used = TRUE] \in Chunk
         /\ [r EXCEPT !.used = TRUE] \in Chunk
         /\ [r EXCEPT !.used = FALSE] \in Chunk
<1>1. [r EXCEPT !.previous = x] \in Chunk
  OBVIOUS
<1>2. [r EXCEPT !.next = x, !.size = y] \in Chunk
  OBVIOUS
<1>3. [r EXCEPT !.next = x, !.size = y, !.used = TRUE] \in Chunk
  OBVIOUS
<1>4. [r EXCEPT !.used = TRUE] \in Chunk
  OBVIOUS
<1>5. [r EXCEPT !.used = FALSE] \in Chunk
  OBVIOUS
<1> QED BY <1>1, <1>2, <1>3, <1>4, <1>5

\* Joining two neighbours of a well-formed list leaves it well formed.
LEMMA JoinWellFormed ==
  ASSUME NEW h, WellFormed(h),
         NEW a \in DOMAIN h, NEW b \in DOMAIN h, h[a].next = b
  PROVE  /\ WellFormed(Join(h, a, b))
         /\ DOMAIN Join(h, a, b) = DOMAIN h \ {b}
         /\ a # b
         /\ Join(h, a, b)[a].next = h[b].next
         /\ \A d \in DOMAIN h \ {b} : Join(h, a, b)[d].used = h[d].used
         /\ \A d \in DOMAIN h \ {a, b} : Join(h, a, b)[d].next = h[d].next
<1> DEFINE j == Join(h, a, b)
           nxt == h[b].next
<1> USE DEF WellFormed
<1>1. /\ h[a] \in Chunk /\ h[b] \in Chunk
      /\ b # NULL /\ b = After(h, a) /\ a < b /\ h[b].previous = a
  BY DEF HeadersTyped, Linked, ForwardLink, After
<1>2. /\ DOMAIN j = DOMAIN h \ {b}
      /\ \A d \in DOMAIN h \ {a, b} :
           /\ d = nxt => j[d] = [h[d] EXCEPT !.previous = a]
           /\ d # nxt => j[d] = h[d]
      /\ j[a] = [h[a] EXCEPT !.next = nxt,
                             !.size = h[a].size + h[b].size + HeaderSize]
  BY <1>1 DEF Join
<1>3. \A d \in DOMAIN h : h[d] \in Chunk
  BY DEF HeadersTyped
<1>4. /\ j[a].next = nxt
      /\ j[a].size = h[a].size + h[b].size + HeaderSize
      /\ j[a].used = h[a].used
      /\ j[a].previous = h[a].previous
      /\ \A d \in DOMAIN h \ {a, b} :
           /\ j[d].next = h[d].next
           /\ j[d].size = h[d].size
           /\ j[d].used = h[d].used
           /\ j[d].previous = IF d = nxt THEN a ELSE h[d].previous
  <2> HIDE DEF j, nxt
  <2>1. j[a].next = nxt /\ j[a].used = h[a].used /\ j[a].previous = h[a].previous
    BY <1>1, <1>2
  <2>2. j[a].size = h[a].size + h[b].size + HeaderSize
    BY <1>1, <1>2
  <2>3. ASSUME NEW d \in DOMAIN h \ {a, b}
        PROVE  /\ j[d].next = h[d].next
               /\ j[d].size = h[d].size
               /\ j[d].used = h[d].used
               /\ j[d].previous = IF d = nxt THEN a ELSE h[d].previous
    <3>1. h[d] \in Chunk
      BY <1>3
    <3>2. CASE d = nxt
      BY <1>2, <3>1, <3>2
    <3>3. CASE d # nxt
      BY <1>2, <3>3
    <3> QED BY <3>2, <3>3
  <2> QED BY <2>1, <2>2, <2>3
<1>5. HeadersTyped(j)
  <2>1. j = [d \in DOMAIN j |-> j[d]]
    BY DEF Join
  <2> HIDE DEF j
  <2>2. a \in Nat /\ DOMAIN j \subseteq Start .. End
    BY <1>2 DEF HeadersTyped
  <2>3. ASSUME NEW d \in DOMAIN j PROVE j[d] \in Chunk
    <3>1. CASE d = a
      <4>1. nxt \in Nat /\ h[a].size + h[b].size + HeaderSize \in Nat
        BY <1>1
      <4>2. [h[a] EXCEPT !.next = nxt, !.size = h[a].size + h[b].size + HeaderSize]
              \in Chunk
        BY <1>1, <4>1, HeaderUpdates
      <4> QED BY <1>2, <3>1, <4>2
    <3>2. CASE d # a /\ d = nxt
      <4>1. [h[d] EXCEPT !.previous = a] \in Chunk
        BY <1>2, <1>3, <2>2, HeaderUpdates
      <4> QED BY <1>2, <3>2, <4>1
    <3>3. CASE d # a /\ d # nxt
      BY <1>2, <1>3, <3>3
    <3> QED BY <3>1, <3>2, <3>3
  <2> QED BY <1>2, <2>1, <2>2, <2>3 DEF HeadersTyped
<1> HIDE DEF j
<1>6. \A d \in DOMAIN h : d \in Nat /\ After(h, d) \in Nat /\ d < After(h, d)
  BY <1>3 DEF After, HeadersTyped
<1>7. /\ After(j, a) = After(h, b)
      /\ \A d \in DOMAIN h \ {a, b} : After(j, d) = After(h, d)
  BY <1>1, <1>3, <1>4, <1>6 DEF After
<1>8. Linked(j)
  <2>1. \A c \in DOMAIN h : ForwardLink(h, c) /\ BackLink(h, c)
    BY DEF Linked
  <2>2. ASSUME NEW c \in DOMAIN j PROVE ForwardLink(j, c)
    <3>1. CASE c = a
      <4>1. ForwardLink(h, b)
        BY <2>1
      <4>2. CASE nxt = NULL
        BY <1>4, <1>7, <3>1, <4>1, <4>2 DEF ForwardLink
      <4>3. CASE nxt # NULL
        <5>1. nxt \in DOMAIN h \ {a, b} /\ nxt = After(h, b)
          BY <1>1, <1>6, <4>1, <4>3 DEF ForwardLink
        <5>2. j[nxt].previous = a
          BY <1>4, <5>1
        <5> QED BY <1>2, <1>4, <1>7, <3>1, <4>3, <5>1, <5>2 DEF ForwardLink
      <4> QED BY <4>2, <4>3
    <3>2. CASE c # a
      <4>1. ForwardLink(h, c) /\ h[c].next # b
        BY <1>1, <1>2, <2>1, <3>2 DEF ForwardLink
      <4>2. CASE h[c].next = NULL
        BY <1>2, <1>4, <1>7, <3>2, <4>1, <4>2 DEF ForwardLink
      <4>3. CASE h[c].next # NULL
        <5>1. h[c].next \in DOMAIN h \ {b} /\ h[h[c].next].previous = c
          BY <4>1, <4>3 DEF ForwardLink
        <5>2. h[c].next # nxt
          <6>1. ForwardLink(h, b) /\ c # b
            BY <1>2, <2>1
          <6> QED BY <4>3, <5>1, <6>1 DEF ForwardLink
        <5>3. j[h[c].next].previous = c
          BY <1>4, <5>1, <5>2
        <5> QED BY <1>2, <1>4, <1>7, <3>2, <4>1, <4>3, <5>1, <5>3 DEF ForwardLink
      <4> QED BY <4>2, <4>3
    <3> QED BY <3>1, <3>2
  <2>3. ASSUME NEW c \in DOMAIN j PROVE BackLink(j, c)
    <3>1. BackLink(h, c)
      BY <1>2, <2>1
    <3>2. CASE c = a
      <4>1. CASE h[a].previous = NULL
        BY <1>4, <3>1, <3>2, <4>1 DEF BackLink
      <4>2. CASE h[a].previous # NULL
        <5>1. h[a].previous \in DOMAIN h /\ h[h[a].previous].next = a
          BY <3>1, <3>2, <4>2 DEF BackLink
        <5>2. h[a].previous # b /\ h[a].previous # a
          <6>1. ForwardLink(h, b)
            BY <2>1
          <6>2. a # NULL
            BY DEF HeadersTyped
          <6> QED BY <1>1, <1>6, <5>1, <6>1, <6>2 DEF ForwardLink
        <5>3. j[h[a].previous].next = a
          BY <1>4, <5>1, <5>2
        <5>4. j[a].previous = h[a].previous /\ h[a].previous \in DOMAIN j
          BY <1>2, <1>4, <5>1, <5>2
        <5> QED BY <3>2, <4>2, <5>3, <5>4 DEF BackLink
      <4> QED BY <4>1, <4>2
    <3>3. CASE c # a /\ c = nxt
      <4>1. nxt \in DOMAIN h
        BY <1>2, <3>3
      <4>2. j[c].previous = a
        BY <1>2, <1>4, <3>3, <4>1
      <4>3. a # NULL /\ a \in DOMAIN j
        BY <1>1, <1>2, <1>6 DEF HeadersTyped
      <4> QED BY <1>4, <3>3, <4>2, <4>3 DEF BackLink
    <3>4. CASE c # a /\ c # nxt
      <4>1. h[c].previous # b
        BY <1>2, <1>1, <1>6, <3>1, <3>4 DEF BackLink
      <4>2. j[c].previous = h[c].previous
        BY <1>2, <1>4, <3>4
      <4> QED BY <1>1, <1>2, <1>4, <1>6, <3>1, <3>4, <4>1, <4>2 DEF BackLink
    <3> QED BY <3>2, <3>3, <3>4
  <2> QED BY <2>2, <2>3 DEF Linked
<1>9. Disjoint(j)
  <2> SUFFICES ASSUME NEW c \in DOMAIN j, NEW d \in DOMAIN j, c < d
               PROVE  After(j, c) <= d
    BY DEF Disjoint
  <2>1. c \in DOMAIN h /\ d \in DOMAIN h /\ d # b /\ After(h, c) <= d
    BY <1>2 DEF Disjoint
  <2>2. CASE c = a
    <3>1. b < d
      BY <1>1, <1>6, <2>1, <2>2
    <3> QED BY <1>7, <2>1, <2>2, <3>1 DEF Disjoint
  <2>3. CASE c # a
    BY <1>2, <1>7, <2>1, <2>3
  <2> QED BY <2>2, <2>3
<1>10. WellFormed(j)
  BY <1>5, <1>8, <1>9
<1>11. \A d \in DOMAIN h \ {b} : j[d].used = h[d].used
  BY <1>4
<1>12. a # b
  BY <1>1, <1>6
<1> QED BY <1>2, <1>4, <1>10, <1>11, <1>12 DEF j
----------------------------------------------------------------------------
LEMMA ModBounds ==
  ASSUME NEW a \in Nat, NEW b \in Nat \ {0}
  PROVE  a % b \in 0 .. b - 1 /\ a % b <= a /\ (a < b => a % b = a)
<1>1. a % b \in 0 .. b - 1
  OBVIOUS
<1>2. a < b => a % b = a
  OBVIOUS
<1>3. a % b <= a
  BY <1>1, <1>2
<1> QED BY <1>1, <1>2, <1>3

\* Padding a request never wraps and never makes it smaller.
LEMMA PadCovers ==
  ASSUME NEW n \in Requests
  PROVE  Pad(n) \in Nat /\ Pad(n) >= n
<1> DEFINE s == n + ChunkMinSize - 1
<1>1. n \in Nat /\ s \in Nat /\ s < Modulus /\ Modulus \in Nat \ {0}
  BY RequestsAssumption
<1>2. s % Modulus = s
  BY <1>1, ModBounds
<1>3. s % ChunkMinSize \in 0 .. ChunkMinSize - 1 /\ s % ChunkMinSize <= s
  BY <1>1, ModBounds
<1>4. Pad(n) = s - (s % ChunkMinSize)
  BY <1>2 DEF Pad
<1> QED BY <1>1, <1>3, <1>4

----------------------------------------------------------------------------
\* Splitting a chunk that is big enough leaves the list well formed.
LEMMA SplitWellFormed ==
  ASSUME WellFormed(chunk), NEW c \in DOMAIN chunk, NEW n \in Nat,
         chunk[c].size > n + HeaderSize
  PROVE  LET new == c + HeaderSize + n
             s   == Split(c, n)
         IN  /\ WellFormed(s)
             /\ DOMAIN s = DOMAIN chunk \cup {new}
             /\ new \notin DOMAIN chunk
             /\ s[c].used /\ s[c].next = new
             /\ s[new].next = chunk[c].next
             /\ \A d \in DOMAIN chunk \ {c} :
                  s[d].used = chunk[d].used /\ s[d].next = chunk[d].next
<1> DEFINE new == c + HeaderSize + n
           nxt == chunk[c].next
           s   == Split(c, n)
<1> USE DEF WellFormed
<1>1. \A d \in DOMAIN chunk :
        /\ chunk[d] \in Chunk /\ d \in Start .. End /\ d # NULL
        /\ d \in Nat /\ After(chunk, d) \in Nat
        /\ After(chunk, d) = d + HeaderSize + chunk[d].size
        /\ ForwardLink(chunk, d) /\ BackLink(chunk, d)
  BY DEF HeadersTyped, Linked, After
<1>2. /\ new \in Nat /\ c < new /\ new < After(chunk, c)
      /\ chunk[c].size - n - HeaderSize \in Nat
      /\ new + HeaderSize + (chunk[c].size - n - HeaderSize) = After(chunk, c)
  BY <1>1
<1>3. After(chunk, c) <= End /\ new \in Start .. End
  BY <1>1, <1>2 DEF ForwardLink
<1>4. new \notin DOMAIN chunk
  BY <1>1, <1>2 DEF Disjoint
<1>5. nxt # c /\ nxt # new /\ nxt \in Nat
  BY <1>1, <1>2, <1>4 DEF ForwardLink
<1>6. /\ DOMAIN s = DOMAIN chunk \cup {new}
      /\ s[new] = [previous |-> c, next |-> nxt, used |-> FALSE,
                   size |-> chunk[c].size - n - HeaderSize]
      /\ s[c] = [chunk[c] EXCEPT !.next = new, !.size = n, !.used = TRUE]
      /\ \A d \in DOMAIN chunk \ {c} :
           /\ d = nxt => s[d] = [chunk[d] EXCEPT !.previous = new]
           /\ d # nxt => s[d] = chunk[d]
      /\ s = [d \in DOMAIN s |-> s[d]]
  BY <1>4, <1>2 DEF Split
<1> HIDE DEF s
<1>7. /\ s[new].previous = c /\ s[new].next = nxt
      /\ s[new].size = chunk[c].size - n - HeaderSize /\ ~s[new].used
  BY <1>6
<1>8. /\ s[c].next = new /\ s[c].size = n /\ s[c].used
      /\ s[c].previous = chunk[c].previous
  <2>1. chunk[c] \in Chunk
    BY <1>1
  <2> HIDE DEF new
  <2> QED BY <1>6, <2>1
<1>9. ASSUME NEW d \in DOMAIN chunk \ {c}
      PROVE  /\ s[d].next = chunk[d].next
             /\ s[d].size = chunk[d].size
             /\ s[d].used = chunk[d].used
             /\ s[d].previous = IF d = nxt THEN new ELSE chunk[d].previous
  <2>1. chunk[d] \in Chunk
    BY <1>1
  <2> HIDE DEF new, nxt
  <2>2. CASE d = nxt
    BY <1>6, <2>1, <2>2
  <2>3. CASE d # nxt
    BY <1>6, <2>3
  <2> QED BY <2>2, <2>3
<1>10. HeadersTyped(s)
  <2>1. ASSUME NEW d \in DOMAIN s PROVE s[d] \in Chunk
    <3>1. CASE d = new
      <4>1. c \in Nat /\ nxt \in Nat /\ chunk[c].size - n - HeaderSize \in Nat
        BY <1>1, <1>2, <1>5
      <4> DEFINE left == chunk[c].size - n - HeaderSize
      <4> HIDE DEF nxt, left
      <4>2. [previous |-> c, next |-> nxt, used |-> FALSE, size |-> left] \in Chunk
        BY <4>1 DEF left
      <4> QED BY <1>6, <3>1, <4>2 DEF left
    <3>2. CASE d = c
      <4>1. [chunk[c] EXCEPT !.next = new, !.size = n, !.used = TRUE] \in Chunk
        BY <1>1, <1>2, HeaderUpdates
      <4> QED BY <1>6, <3>2, <4>1
    <3>3. CASE d \in DOMAIN chunk \ {c} /\ d = nxt
      <4>1. [chunk[d] EXCEPT !.previous = new] \in Chunk
        <5>1. chunk[d] \in Chunk /\ new \in Nat
          BY <1>1, <1>2, <3>3
        <5> HIDE DEF new
        <5> QED BY <5>1, HeaderUpdates
      <4> QED BY <1>6, <3>3, <4>1
    <3>4. CASE d \in DOMAIN chunk \ {c} /\ d # nxt
      BY <1>1, <1>6, <3>4
    <3> QED BY <1>6, <3>1, <3>2, <3>3, <3>4
  <2>2. DOMAIN s \subseteq Start .. End
    BY <1>1, <1>3, <1>6
  <2> QED BY <1>6, <2>1, <2>2 DEF HeadersTyped
<1>11. /\ After(s, c) = new /\ After(s, new) = After(chunk, c)
       /\ \A d \in DOMAIN chunk \ {c} : After(s, d) = After(chunk, d)
  BY <1>1, <1>2, <1>7, <1>8, <1>9 DEF After
<1>12. Linked(s)
  <2>1. ASSUME NEW d \in DOMAIN s PROVE ForwardLink(s, d)
    <3>1. CASE d = c
      <4>1. new # NULL
        BY <1>1, <1>2
      <4> HIDE DEF new
      <4> QED BY <1>6, <1>7, <1>8, <1>11, <3>1, <4>1 DEF ForwardLink
    <3>2. CASE d = new
      <4>1. CASE nxt = NULL
        BY <1>1, <1>7, <1>11, <3>2, <4>1 DEF ForwardLink
      <4>2. CASE nxt # NULL
        <5>1. nxt \in DOMAIN chunk \ {c} /\ nxt = After(chunk, c)
          BY <1>1, <1>5, <4>2 DEF ForwardLink
        <5>2. s[nxt].previous = new
          BY <1>9, <5>1
        <5> QED BY <1>6, <1>7, <1>11, <3>2, <4>2, <5>1, <5>2 DEF ForwardLink
      <4> QED BY <4>1, <4>2
    <3>3. CASE d \in DOMAIN chunk \ {c}
      <4>1. ForwardLink(chunk, d) /\ s[d].next = chunk[d].next
        BY <1>1, <1>9, <3>3
      <4>2. CASE chunk[d].next = NULL
        BY <1>11, <3>3, <4>1, <4>2 DEF ForwardLink
      <4>3. CASE chunk[d].next # NULL
        <5>1. /\ chunk[d].next \in DOMAIN chunk
              /\ chunk[d].next = After(chunk, d)
              /\ chunk[chunk[d].next].previous = d
          BY <4>1, <4>3 DEF ForwardLink
        <5>2. chunk[d].next # nxt
          BY <1>1, <3>3, <4>3, <5>1 DEF ForwardLink
        <5>3. s[chunk[d].next].previous = d
          <6>1. CASE chunk[d].next = c
            BY <1>8, <5>1, <6>1
          <6>2. CASE chunk[d].next # c
            BY <1>9, <5>1, <5>2, <6>2
          <6> QED BY <6>1, <6>2
        <5> QED BY <1>6, <1>11, <3>3, <4>1, <4>3, <5>1, <5>3 DEF ForwardLink
      <4> QED BY <4>2, <4>3
    <3> QED BY <1>6, <3>1, <3>2, <3>3
  <2>2. ASSUME NEW d \in DOMAIN s PROVE BackLink(s, d)
    <3>1. CASE d = new
      BY <1>1, <1>6, <1>7, <1>8, <3>1 DEF BackLink
    <3>2. CASE d # new /\ d = nxt
      <4>1. s[d].previous = new
        BY <1>5, <1>6, <1>9, <3>2
      <4>2. new # NULL
        BY <1>1, <1>2
      <4> HIDE DEF new
      <4> QED BY <1>6, <1>7, <3>2, <4>1, <4>2 DEF BackLink
    <3>3. CASE d # new /\ d # nxt
      <4>1. d \in DOMAIN chunk /\ BackLink(chunk, d)
        BY <1>1, <1>6, <3>3
      <4>2. s[d].previous = chunk[d].previous
        <5>1. CASE d = c
          BY <1>8, <5>1
        <5>2. CASE d # c
          BY <1>9, <3>3, <4>1, <5>2
        <5> QED BY <5>1, <5>2
      <4>3. CASE chunk[d].previous = NULL
        BY <4>1, <4>2, <4>3 DEF BackLink
      <4>4. CASE chunk[d].previous # NULL
        <5>1. /\ chunk[d].previous \in DOMAIN chunk
              /\ chunk[chunk[d].previous].next = d
          BY <4>1, <4>4 DEF BackLink
        <5>2. chunk[d].previous # c
          BY <3>3, <5>1
        <5>3. s[chunk[d].previous].next = d
          BY <1>9, <5>1, <5>2
        <5> QED BY <1>6, <4>2, <4>4, <5>1, <5>3 DEF BackLink
      <4> QED BY <4>3, <4>4
    <3> QED BY <3>1, <3>2, <3>3
  <2> QED BY <2>1, <2>2 DEF Linked
<1>13. Disjoint(s)
  <2> SUFFICES ASSUME NEW d \in DOMAIN s, NEW e \in DOMAIN s, d < e
               PROVE  After(s, d) <= e
    BY DEF Disjoint
  <2>1. CASE d = c
    <3>1. CASE e = new
      BY <1>2, <1>11, <2>1, <3>1
    <3>2. CASE e \in DOMAIN chunk
      BY <1>1, <1>2, <1>11, <2>1, <3>2 DEF Disjoint
    <3> QED BY <1>6, <3>1, <3>2
  <2>2. CASE d = new
    <3>1. e \in DOMAIN chunk /\ c < e
      BY <1>1, <1>2, <1>6, <2>2
    <3> QED BY <1>11, <2>2, <3>1 DEF Disjoint
  <2>3. CASE d \in DOMAIN chunk \ {c}
    <3>1. CASE e = new
      <4>1. d < c
        BY <1>1, <1>2, <2>3, <3>1 DEF Disjoint
      <4> QED BY <1>1, <1>2, <1>11, <2>3, <3>1, <4>1 DEF Disjoint
    <3>2. CASE e \in DOMAIN chunk
      BY <1>11, <2>3, <3>2 DEF Disjoint
    <3> QED BY <1>6, <3>1, <3>2
  <2> QED BY <1>6, <2>1, <2>2, <2>3
<1>14. WellFormed(s)
  BY <1>10, <1>12, <1>13
<1> QED BY <1>4, <1>6, <1>7, <1>8, <1>9, <1>14 DEF s
----------------------------------------------------------------------------
\* Changing the flag of a chunk disturbs no link.
LEMMA FlagWellFormed ==
  ASSUME NEW h, WellFormed(h), NEW c \in DOMAIN h, NEW u \in BOOLEAN
  PROVE  LET f == [h EXCEPT ![c].used = u]
         IN  /\ WellFormed(f)
             /\ DOMAIN f = DOMAIN h
             /\ f[c].used = u
             /\ \A d \in DOMAIN h : f[d].next = h[d].next
             /\ \A d \in DOMAIN h : f[d].previous = h[d].previous
             /\ \A d \in DOMAIN h \ {c} : f[d].used = h[d].used
<1> DEFINE f == [h EXCEPT ![c].used = u]
<1> USE DEF WellFormed
<1>1. \A d \in DOMAIN h : h[d] \in Chunk
  BY DEF HeadersTyped
<1>2. /\ DOMAIN f = DOMAIN h
      /\ f[c] = [h[c] EXCEPT !.used = u]
      /\ \A d \in DOMAIN h \ {c} : f[d] = h[d]
      /\ f = [d \in DOMAIN f |-> f[d]]
  BY DEF HeadersTyped
<1> HIDE DEF f
<1>3. /\ f[c].used = u /\ f[c].next = h[c].next
      /\ f[c].previous = h[c].previous /\ f[c].size = h[c].size
      /\ f[c] \in Chunk
  BY <1>1, <1>2
<1>4. /\ \A d \in DOMAIN h : f[d].next = h[d].next
      /\ \A d \in DOMAIN h : f[d].previous = h[d].previous
      /\ \A d \in DOMAIN h : f[d].size = h[d].size
      /\ \A d \in DOMAIN h : After(f, d) = After(h, d)
      /\ \A d \in DOMAIN h \ {c} : f[d].used = h[d].used
  BY <1>2, <1>3 DEF After
<1>5. HeadersTyped(f)
  <2>1. \A d \in DOMAIN f : f[d] \in Chunk
    BY <1>1, <1>2, <1>3
  <2> HIDE DEF Chunk
  <2> QED BY <1>2, <2>1 DEF HeadersTyped
<1>6. Linked(f)
  BY <1>2, <1>4 DEF Linked, ForwardLink, BackLink
<1>7. Disjoint(f)
  BY <1>2, <1>4 DEF Disjoint
<1>8. WellFormed(f)
  BY <1>5, <1>6, <1>7
<1> QED BY <1>2, <1>3, <1>4, <1>8 DEF f

\* A chunk has one chunk before it.
LEMMA OnePredecessor ==
  ASSUME NEW h, WellFormed(h), NEW c \in DOMAIN h, NEW d \in DOMAIN h,
         h[d].next = c
  PROVE  c # NULL /\ h[c].previous = d
<1>1. c # NULL
  BY DEF WellFormed, HeadersTyped
<1>2. ForwardLink(h, d)
  BY DEF WellFormed, Linked
<1> QED BY <1>1, <1>2 DEF ForwardLink

\* The links of a well-formed list lead to its own chunks.
LEMMA LinksInside ==
  ASSUME NEW h, WellFormed(h), NEW c \in DOMAIN h
  PROVE  /\ h[c].next # NULL => h[c].next \in DOMAIN h
         /\ h[c].previous # NULL =>
              h[c].previous \in DOMAIN h /\ h[h[c].previous].next = c
<1>1. ForwardLink(h, c) /\ BackLink(h, c)
  BY DEF WellFormed, Linked
<1> QED BY <1>1 DEF ForwardLink, BackLink

NoneBothFree(h) == \A c \in DOMAIN h : ~BothFree(h, c)

LEMMA TakePreserves ==
  ASSUME WellFormed(chunk), NoneBothFree(chunk),
         NEW n \in Nat, NEW c \in Fits(n)
  PROVE  /\ WellFormed(Take(c, n)) /\ NoneBothFree(Take(c, n))
         /\ DOMAIN chunk \subseteq DOMAIN Take(c, n)
<1>1. c \in DOMAIN chunk /\ ~chunk[c].used /\ chunk[c].size >= n
  BY DEF Fits
<1>2. CASE chunk[c].size <= n + HeaderSize
  <2> DEFINE f == [chunk EXCEPT ![c].used = TRUE]
  <2>1. Take(c, n) = f
    BY <1>2 DEF Take
  <2>2. /\ WellFormed(f) /\ DOMAIN f = DOMAIN chunk /\ f[c].used
        /\ \A d \in DOMAIN chunk : f[d].next = chunk[d].next
        /\ \A d \in DOMAIN chunk \ {c} : f[d].used = chunk[d].used
    BY <1>1, FlagWellFormed
  <2> HIDE DEF f
  <2>3. ASSUME NEW d \in DOMAIN f, BothFree(f, d) PROVE FALSE
    <3>1. d # c /\ f[d].next # c /\ f[d].next # NULL
      BY <2>2, <2>3 DEF BothFree
    <3>2. f[d].next \in DOMAIN chunk
      BY <2>2, <3>1, LinksInside
    <3>3. BothFree(chunk, d)
      BY <2>2, <2>3, <3>1, <3>2 DEF BothFree
    <3> QED BY <2>2, <3>3 DEF NoneBothFree
  <2> QED BY <2>1, <2>2, <2>3 DEF NoneBothFree
<1>3. CASE ~(chunk[c].size <= n + HeaderSize)
  <2> DEFINE s   == Split(c, n)
             new == c + HeaderSize + n
  <2>1. Take(c, n) = s
    BY <1>3 DEF Take
  <2>2. chunk[c].size > n + HeaderSize
    BY <1>1, <1>3 DEF WellFormed, HeadersTyped
  <2>3. /\ WellFormed(s) /\ DOMAIN s = DOMAIN chunk \cup {new}
        /\ new \notin DOMAIN chunk
        /\ s[c].used /\ s[c].next = new /\ s[new].next = chunk[c].next
        /\ \A d \in DOMAIN chunk \ {c} :
             s[d].used = chunk[d].used /\ s[d].next = chunk[d].next
    BY <1>1, <2>2, SplitWellFormed
  <2> HIDE DEF s, new
  <2>4. ASSUME NEW d \in DOMAIN s, BothFree(s, d) PROVE FALSE
    <3> DEFINE e == s[d].next
    <3>1. /\ ~s[d].used /\ e # NULL /\ ~s[e].used /\ d # c /\ e # c
      BY <2>3, <2>4 DEF BothFree
    <3>2. e # new
      <4>1. e = new => s[new].previous = d /\ s[new].previous = c
        BY <1>1, <2>3, OnePredecessor
      <4> QED BY <3>1, <4>1
    <3>3. e \in DOMAIN chunk \ {c}
      BY <2>3, <3>1, <3>2, LinksInside
    <3>4. CASE d = new
      <4>1. BothFree(chunk, c)
        BY <1>1, <2>3, <3>1, <3>3, <3>4 DEF BothFree
      <4> QED BY <1>1, <4>1 DEF NoneBothFree
    <3>5. CASE d # new
      <4>1. d \in DOMAIN chunk \ {c} /\ BothFree(chunk, d)
        BY <2>3, <3>1, <3>3, <3>5 DEF BothFree
      <4> QED BY <4>1 DEF NoneBothFree
    <3> QED BY <3>4, <3>5
  <2> QED BY <2>1, <2>3, <2>4 DEF NoneBothFree
<1> QED BY <1>2, <1>3
\* After the merge with the chunk before it, only `this' may still be free
\* next to a free chunk, and that chunk comes after it.
LEMMA MergedPreserves ==
  ASSUME WellFormed(chunk), NoneBothFree(chunk),
         NEW c \in DOMAIN chunk
  PROVE  /\ WellFormed(Merged(c)) /\ NoneBothFree(Merged(c))
         /\ \A d \in DOMAIN chunk :
              chunk[d].previous = NULL => d \in DOMAIN Merged(c)
<1> DEFINE prv  == chunk[c].previous
           nxt  == chunk[c].next
           h0   == [chunk EXCEPT ![c].used = FALSE]
           back == IsFree(h0, prv)
           h1   == IF back THEN Join(h0, prv, c) ELSE h0
           this == IF back THEN prv ELSE c
           h2   == IF IsFree(h0, nxt) THEN Join(h1, this, nxt) ELSE h1
<1>1. Merged(c) = h2
  BY DEF Merged
<1>2. /\ WellFormed(h0) /\ DOMAIN h0 = DOMAIN chunk /\ ~h0[c].used
      /\ \A d \in DOMAIN chunk : h0[d].next = chunk[d].next
      /\ \A d \in DOMAIN chunk : h0[d].previous = chunk[d].previous
      /\ \A d \in DOMAIN chunk \ {c} : h0[d].used = chunk[d].used
  BY FlagWellFormed
<1> HIDE DEF h0
<1>3. /\ nxt # NULL => nxt \in DOMAIN chunk /\ nxt # c /\ chunk[nxt].previous = c
      /\ prv # NULL => prv \in DOMAIN chunk /\ prv # c /\ chunk[prv].next = c
  <2>1. nxt # NULL => nxt \in DOMAIN chunk
    BY LinksInside
  <2>2. prv # NULL => prv \in DOMAIN chunk /\ chunk[prv].next = c
    BY LinksInside
  <2>3. \A d \in DOMAIN chunk : chunk[d].next # d
    BY DEF WellFormed, HeadersTyped, Linked, ForwardLink, After
  <2>4. nxt # NULL => chunk[nxt].previous = c
    BY <2>1, OnePredecessor
  <2> QED BY <2>1, <2>2, <2>3, <2>4
<1>4. ASSUME NEW d \in DOMAIN chunk, BothFree(h0, d)
      PROVE  d = c \/ h0[d].next = c
  <2> SUFFICES ASSUME d # c, h0[d].next # c PROVE FALSE
    OBVIOUS
  <2>1. chunk[d].next \in DOMAIN chunk
    BY <1>2, <1>4, LinksInside DEF BothFree
  <2>2. BothFree(chunk, d)
    BY <1>2, <1>4, <2>1 DEF BothFree
  <2> QED BY <2>2 DEF NoneBothFree
<1>5. /\ WellFormed(h1) /\ this \in DOMAIN h1 /\ h1[this].next = nxt
      /\ nxt # NULL => nxt \in DOMAIN h1 /\ h1[nxt].used = h0[nxt].used
      /\ \A d \in DOMAIN h1 : BothFree(h1, d) => d = this
      /\ \A d \in DOMAIN chunk : chunk[d].previous = NULL => d \in DOMAIN h1
      /\ ~h1[this].used
  <2>1. CASE ~back
    <3>1. h1 = h0 /\ this = c
      BY <2>1
    <3> HIDE DEF h1, this
    <3>2. ASSUME NEW d \in DOMAIN h0, BothFree(h0, d) PROVE d = c
      <4> SUFFICES ASSUME h0[d].next = c, d # c PROVE FALSE
        BY <1>2, <1>4, <3>2
      <4>1. h0[c].previous = d
        BY <1>2, OnePredecessor
      <4>2. prv = d /\ d # NULL
        BY <1>2, <4>1 DEF WellFormed, HeadersTyped
      <4> QED BY <2>1, <3>2, <4>2 DEF IsFree, BothFree
    <3> QED BY <1>2, <1>3, <3>1, <3>2
  <2>2. CASE back
    <3>1. h1 = Join(h0, prv, c) /\ this = prv
      BY <2>2
    <3> HIDE DEF h1, this
    <3>2. prv # NULL /\ ~h0[prv].used /\ prv \in DOMAIN h0 /\ h0[prv].next = c
      BY <1>2, <1>3, <2>2 DEF IsFree
    <3> HIDE DEF prv
    <3>3. /\ WellFormed(h1) /\ DOMAIN h1 = DOMAIN h0 \ {c} /\ prv # c
          /\ h1[prv].next = h0[c].next
          /\ \A d \in DOMAIN h0 \ {c} : h1[d].used = h0[d].used
          /\ \A d \in DOMAIN h0 \ {prv, c} : h1[d].next = h0[d].next
      <4>1. WellFormed(h0) /\ c \in DOMAIN h0
        BY <1>2
      <4>2. prv \in DOMAIN h0 /\ h0[prv].next = c
        BY <3>2
      <4> HIDE DEF nxt, back, h2
      <4>3. /\ WellFormed(Join(h0, prv, c))
            /\ DOMAIN Join(h0, prv, c) = DOMAIN h0 \ {c}
            /\ prv # c
            /\ Join(h0, prv, c)[prv].next = h0[c].next
            /\ \A d \in DOMAIN h0 \ {c} : Join(h0, prv, c)[d].used = h0[d].used
            /\ \A d \in DOMAIN h0 \ {prv, c} :
                 Join(h0, prv, c)[d].next = h0[d].next
        BY <4>1, <4>2, JoinWellFormed
      <4> QED BY <3>1, <4>3
    <3>4. ASSUME NEW d \in DOMAIN h1, BothFree(h1, d), d # prv PROVE FALSE
      <4> DEFINE e == h1[d].next
      <4>1. ~h1[d].used /\ e # NULL /\ ~h1[e].used /\ e = h0[d].next
        BY <3>3, <3>4 DEF BothFree
      <4>2. e \in DOMAIN h1
        BY <3>3, <4>1, LinksInside
      <4> HIDE DEF e
      <4>3. BothFree(h0, d)
        BY <3>3, <4>1, <4>2 DEF BothFree
      <4> QED BY <1>2, <1>4, <3>3, <4>1, <4>2, <4>3
    <3>5. ASSUME NEW d \in DOMAIN chunk, chunk[d].previous = NULL
          PROVE  d \in DOMAIN h1
      BY <1>2, <3>2, <3>3, <3>5 DEF prv
    <3>6. h1[prv].next = nxt /\ ~h1[prv].used /\ prv \in DOMAIN h1
      BY <1>2, <3>2, <3>3
    <3>7. nxt # NULL => nxt \in DOMAIN h1 /\ h1[nxt].used = h0[nxt].used
      BY <1>2, <1>3, <3>3
    <3> QED BY <3>1, <3>3, <3>4, <3>5, <3>6, <3>7
  <2> QED BY <2>1, <2>2
<1>6. CASE ~IsFree(h0, nxt)
  <2>1. h2 = h1
    BY <1>6
  <2> HIDE DEF h2, h1, this
  <2>2. ASSUME NEW d \in DOMAIN h1, BothFree(h1, d) PROVE FALSE
    BY <1>5, <1>6, <2>2 DEF BothFree, IsFree
  <2> QED BY <1>1, <1>5, <2>1, <2>2 DEF NoneBothFree
<1>7. CASE IsFree(h0, nxt)
  <2>1. h2 = Join(h1, this, nxt)
    BY <1>7
  <2>2. nxt # NULL /\ ~h0[nxt].used
    BY <1>7 DEF IsFree
  <2> HIDE DEF h2, h1, this, nxt
  <2>3. /\ WellFormed(h2) /\ DOMAIN h2 = DOMAIN h1 \ {nxt} /\ this # nxt
        /\ h2[this].next = h1[nxt].next
        /\ \A d \in DOMAIN h1 \ {nxt} : h2[d].used = h1[d].used
        /\ \A d \in DOMAIN h1 \ {this, nxt} : h2[d].next = h1[d].next
    BY <1>5, <2>1, <2>2, JoinWellFormed
  <2>4. ASSUME NEW d \in DOMAIN h2, BothFree(h2, d) PROVE FALSE
    <3> DEFINE e == h2[d].next
    <3>1. ~h2[d].used /\ e # NULL /\ ~h2[e].used
      BY <2>4 DEF BothFree
    <3>2. e \in DOMAIN h2
      BY <2>3, <3>1, LinksInside
    <3>3. CASE d = this
      <4>1. BothFree(h1, nxt)
        BY <1>5, <2>2, <2>3, <3>1, <3>2, <3>3 DEF BothFree
      <4> QED BY <1>5, <2>2, <2>3, <4>1
    <3>4. CASE d # this
      <4>1. BothFree(h1, d)
        BY <2>3, <3>1, <3>2, <3>4 DEF BothFree
      <4> QED BY <1>5, <2>3, <3>4, <4>1
    <3> QED BY <3>3, <3>4
  <2>5. ASSUME NEW d \in DOMAIN chunk, chunk[d].previous = NULL
        PROVE  d \in DOMAIN h2
    <3>1. d \in DOMAIN h1
      BY <1>5, <2>5
    <3>2. d # nxt
      BY <1>3, <2>2, <2>5 DEF WellFormed, HeadersTyped
    <3> QED BY <2>3, <3>1, <3>2
  <2> QED BY <1>1, <2>3, <2>4, <2>5 DEF NoneBothFree
<1> QED BY <1>6, <1>7

----------------------------------------------------------------------------
\* The inductive invariant: none of its conjuncts survives a step of free()
\* without the others, since a merge trusts the links and the flags alike.
IInv == TypeInvariant /\ ListLinked /\ ChunksDisjoint /\ NoAdjacentFree

LEMMA IInvParts ==
  IInv <=> /\ first \in {NULL, Start}
           /\ IF first = NULL THEN DOMAIN chunk = {} ELSE first \in DOMAIN chunk
           /\ WellFormed(chunk) /\ NoneBothFree(chunk)
BY DEF IInv, TypeInvariant, ListLinked, ChunksDisjoint, NoAdjacentFree,
       WellFormed, NoneBothFree

LEMMA InitIInv == Init => IInv
<1>1. CASE NoRam /\ Init
  BY <1>1 DEF NoRam, IInv, TypeInvariant, ListLinked, ChunksDisjoint,
              NoAdjacentFree, HeadersTyped, Linked, Disjoint
<1>2. CASE OneFreeChunk /\ Init
  <2>1. /\ first = Start /\ DOMAIN chunk = {Start}
        /\ chunk[Start] = [previous |-> NULL, next |-> NULL,
                           size |-> RamSize - HeaderSize, used |-> FALSE]
        /\ chunk = [c \in DOMAIN chunk |-> chunk[c]]
    BY <1>2 DEF OneFreeChunk
  <2>2. HeadersTyped(chunk)
    <3>1. chunk[Start] \in Chunk
      BY <2>1
    <3>2. Start \in Start .. End
      OBVIOUS
    <3> HIDE DEF Chunk
    <3> QED BY <2>1, <3>1, <3>2 DEF HeadersTyped
  <2>3. After(chunk, Start) = End
    BY <2>1 DEF After
  <2> QED BY <2>1, <2>2, <2>3 DEF IInv, TypeInvariant, ListLinked,
             ChunksDisjoint, NoAdjacentFree, Linked, Disjoint, ForwardLink,
             BackLink, BothFree
<1> QED BY <1>1, <1>2 DEF Init

LEMMA StepIInv == IInv /\ [Next]_vars => IInv'
<1> SUFFICES ASSUME IInv, [Next]_vars PROVE IInv'
  OBVIOUS
<1>1. /\ first \in {NULL, Start}
      /\ IF first = NULL THEN DOMAIN chunk = {} ELSE first \in DOMAIN chunk
      /\ WellFormed(chunk) /\ NoneBothFree(chunk)
  BY IInvParts
<1>2. ASSUME UNCHANGED <<first, chunk>> PROVE IInv'
  BY <1>2 DEF IInv, TypeInvariant, ListLinked, ChunksDisjoint, NoAdjacentFree,
     HeadersTyped, Linked, Disjoint, ForwardLink, BackLink, After, BothFree
<1>3. ASSUME NEW hs, WellFormed(hs), NoneBothFree(hs), chunk' = hs,
             first' = first, first # NULL, first \in DOMAIN hs
      PROVE  IInv'
  <2>1. WellFormed(chunk)' /\ NoneBothFree(chunk)'
    BY <1>3 DEF WellFormed, NoneBothFree, HeadersTyped, Linked, Disjoint,
                ForwardLink, BackLink, After, BothFree
  <2> QED BY <1>1, <1>3, <2>1 DEF IInv, TypeInvariant, ListLinked,
             ChunksDisjoint, NoAdjacentFree, WellFormed, NoneBothFree
<1>4. ASSUME NEW n \in Requests \ {0}, NEW c \in DOMAIN chunk, AllocFrom(n, c)
      PROVE  IInv'
  <2>1. Pad(n) \in Nat /\ c \in Fits(Pad(n))
    BY <1>4, PadCovers DEF AllocFrom, FirstFit
  <2>2. /\ WellFormed(Take(c, Pad(n))) /\ NoneBothFree(Take(c, Pad(n)))
        /\ DOMAIN chunk \subseteq DOMAIN Take(c, Pad(n))
    BY <1>1, <2>1, TakePreserves
  <2> QED BY <1>1, <1>3, <1>4, <2>2 DEF AllocFrom
<1>5. ASSUME NEW c \in Start .. End, Free(c)
      PROVE  IInv'
  <2>1. c \in DOMAIN chunk /\ chunk' = Merged(c) /\ first' = first
    BY <1>5 DEF Free
  <2>2. /\ WellFormed(Merged(c)) /\ NoneBothFree(Merged(c))
        /\ \A d \in DOMAIN chunk :
             chunk[d].previous = NULL => d \in DOMAIN Merged(c)
    BY <1>1, <2>1, MergedPreserves
  <2>3. first # NULL /\ first = Start /\ first \in DOMAIN chunk
    BY <1>1, <2>1
  <2>4. chunk[first].previous = NULL
    <3>1. BackLink(chunk, first)
      BY <1>1, <2>3 DEF WellFormed, Linked
    <3>2. ASSUME chunk[first].previous # NULL PROVE FALSE
      <4>1. /\ chunk[first].previous \in DOMAIN chunk
            /\ chunk[chunk[first].previous].next = first
        BY <3>1, <3>2 DEF BackLink
      <4>2. ForwardLink(chunk, chunk[first].previous)
        BY <1>1, <4>1 DEF WellFormed, Linked
      <4> DEFINE p == chunk[first].previous
      <4>3. p \in Start .. End /\ chunk[p].size \in Nat
        BY <1>1, <4>1 DEF WellFormed, HeadersTyped
      <4>4. chunk[p].next = p + HeaderSize + chunk[p].size
        BY <2>3, <4>1, <4>2 DEF ForwardLink, After
      <4> QED BY <2>3, <4>1, <4>3, <4>4
    <3> QED BY <3>2
  <2> QED BY <1>3, <2>1, <2>2, <2>3, <2>4
<1>6. CASE AllocNothing
  BY <1>2, <1>6 DEF AllocNothing
<1>7. ASSUME NEW n \in Requests \ {0}, AllocFails(n) PROVE IInv'
  BY <1>2, <1>7 DEF AllocFails
<1>8. ASSUME NEW c \in Start .. End, FreeFails(c) PROVE IInv'
  BY <1>2, <1>8 DEF FreeFails
<1>9. CASE UNCHANGED vars
  BY <1>2, <1>9 DEF vars
<1> QED BY <1>4, <1>5, <1>6, <1>7, <1>8, <1>9 DEF Next

\* The headers stay headers: addresses inside the RAM, natural sizes.
THEOREM TypeCorrect == Spec => []TypeInvariant
<1>1. IInv => TypeInvariant
  BY DEF IInv
<1> QED BY <1>1, InitIInv, StepIInv, PTL DEF Spec

\* split_chunk and free() keep both directions of the list and the places of
\* the chunks in agreement, for every RAM and every sequence of calls.
THEOREM ListStaysLinked == Spec => []ListLinked
<1>1. IInv => ListLinked
  BY DEF IInv
<1> QED BY <1>1, InitIInv, StepIInv, PTL DEF Spec

\* No two chunks, headers and data alike, share a byte.
THEOREM ChunksStayDisjoint == Spec => []ChunksDisjoint
<1>1. IInv => ChunksDisjoint
  BY DEF IInv
<1> QED BY <1>1, InitIInv, StepIInv, PTL DEF Spec

\* Neither assert of Slot2Allocator.cpp can fail.
THEOREM AssertsHold == Spec => []NoAdjacentFree
<1>1. IInv => NoAdjacentFree
  BY DEF IInv
<1> QED BY <1>1, InitIInv, StepIInv, PTL DEF Spec

----------------------------------------------------------------------------
(***************************************************************************)
(* The chunk list implements MemoryPool, for every RAM and every sequence  *)
(* of requests.  Most of it is bookkeeping: which extents are in use after *)
(* a split or a merge.  The argument is in NoRunIsLost: any run of unused  *)
(* bytes lies in one free chunk, since the chunks cover the RAM without a  *)
(* gap and no two free ones are neighbours, so that a request is refused   *)
(* only if there is no such run.                                           *)
(***************************************************************************)

\* UsedExtents of the headers h.
InUse(h) == {<<c, After(h, c)>> : c \in {d \in DOMAIN h : h[d].used}}

LEMMA UsedExtentsAreInUse == UsedExtents = InUse(chunk) /\ UsedExtents' = InUse(chunk')
  BY DEF UsedExtents, InUse, After

\* What Linked, Disjoint and HeadersTyped say of one chunk.
LEMMA OneChunk ==
  ASSUME NEW h, WellFormed(h), NEW c \in DOMAIN h
  PROVE  /\ c \in Nat /\ Start <= c /\ h[c] \in Chunk
         /\ After(h, c) = c + HeaderSize + h[c].size /\ After(h, c) \in Nat
         /\ c < After(h, c) /\ After(h, c) <= End
         /\ h[c].next = NULL => After(h, c) = End
         /\ h[c].next # NULL => h[c].next = After(h, c) /\ After(h, c) \in DOMAIN h
<1>1. /\ c \in Start .. End /\ h[c] \in Chunk /\ ForwardLink(h, c)
  BY DEF WellFormed, HeadersTyped, Linked
<1>2. /\ After(h, c) = c + HeaderSize + h[c].size /\ After(h, c) \in Nat /\ c < After(h, c)
  BY <1>1 DEF After
<1>3. h[c].next = NULL => After(h, c) = End
  BY <1>1 DEF ForwardLink
<1>4. h[c].next # NULL => h[c].next = After(h, c) /\ After(h, c) \in DOMAIN h
  BY <1>1 DEF ForwardLink
<1>5. h[c].next # NULL => After(h, c) \in Start .. End
  BY <1>4 DEF WellFormed, HeadersTyped
<1> QED BY <1>1, <1>2, <1>3, <1>4, <1>5

----------------------------------------------------------------------------
(* The extents in use after each change of the list                        *)

\* Headers whose chunks in use are those of h, at the same places.
LEMMA SameInUse ==
  ASSUME NEW h, NEW j,
         \A d : d \in DOMAIN j /\ j[d].used <=> d \in DOMAIN h /\ h[d].used,
         \A d \in DOMAIN j : j[d].used => j[d].size = h[d].size
  PROVE  InUse(j) = InUse(h)
  BY DEF InUse, After

\* Joining two free neighbours takes nothing from anyone.
LEMMA JoinInUse ==
  ASSUME NEW h, HeadersTyped(h), NEW a \in DOMAIN h, NEW b \in DOMAIN h, a # b,
         ~h[a].used, ~h[b].used
  PROVE  InUse(Join(h, a, b)) = InUse(h)
<1> DEFINE j == Join(h, a, b)
<1>1. /\ DOMAIN j = DOMAIN h \ {b}
      /\ j[a] = [h[a] EXCEPT !.next = h[b].next, !.size = h[a].size + h[b].size + HeaderSize]
      /\ \A d \in DOMAIN h \ {a, b} : j[d] \in {h[d], [h[d] EXCEPT !.previous = a]}
  BY DEF Join
<1> HIDE DEF j
<1>2. \A d \in DOMAIN h : h[d] \in Chunk
  BY DEF HeadersTyped
<1>3. ~j[a].used
  BY <1>1, <1>2
<1>4. \A d \in DOMAIN h \ {a, b} : j[d].used = h[d].used /\ j[d].size = h[d].size
  BY <1>1, <1>2
<1>5. \A d : d \in DOMAIN j /\ j[d].used <=> d \in DOMAIN h /\ h[d].used
  BY <1>1, <1>3, <1>4
<1>6. \A d \in DOMAIN j : j[d].used => j[d].size = h[d].size
  BY <1>1, <1>3, <1>4
<1> HIDE DEF Chunk
<1> QED BY <1>5, <1>6, SameInUse DEF j

\* A chunk that is freed, before it is merged.
LEMMA FlagInUse ==
  ASSUME HeadersTyped(chunk), Disjoint(chunk), NEW c \in DOMAIN chunk, chunk[c].used
  PROVE  LET h == [chunk EXCEPT ![c].used = FALSE]
         IN  /\ HeadersTyped(h) /\ DOMAIN h = DOMAIN chunk
             /\ InUse(h) = InUse(chunk) \ {<<c, After(chunk, c)>>}
<1> DEFINE h == [chunk EXCEPT ![c].used = FALSE]
<1>1. \A d \in DOMAIN chunk : chunk[d] \in Chunk
  BY DEF HeadersTyped
<1>2. /\ DOMAIN h = DOMAIN chunk /\ ~h[c].used
      /\ h[c] \in Chunk
      /\ \A d \in DOMAIN chunk \ {c} : h[d] = chunk[d]
  BY <1>1
<1>3. HeadersTyped(h)
  BY <1>1, <1>2 DEF HeadersTyped
<1> HIDE DEF h
<1>4. InUse(h) = {<<d, After(chunk, d)>> : d \in {x \in DOMAIN chunk : chunk[x].used} \ {c}}
  BY <1>2 DEF InUse, After
<1>5. InUse(h) = InUse(chunk) \ {<<c, After(chunk, c)>>}
  BY <1>4 DEF InUse
<1> QED BY <1>2, <1>3, <1>5 DEF h

\* free(), with its merges.
LEMMA MergedInUse ==
  ASSUME WellFormed(chunk), NEW c \in DOMAIN chunk, chunk[c].used
  PROVE  InUse(Merged(c)) = InUse(chunk) \ {<<c, After(chunk, c)>>}
<1> DEFINE prv  == chunk[c].previous
           nxt  == chunk[c].next
           h0   == [chunk EXCEPT ![c].used = FALSE]
           back == IsFree(h0, prv)
           h1   == IF back THEN Join(h0, prv, c) ELSE h0
           this == IF back THEN prv ELSE c
           h2   == IF IsFree(h0, nxt) THEN Join(h1, this, nxt) ELSE h1
<1>1. Merged(c) = h2
  BY DEF Merged
<1>2. /\ InUse(h0) = InUse(chunk) \ {<<c, After(chunk, c)>>}
      /\ DOMAIN h0 = DOMAIN chunk
  BY FlagInUse DEF WellFormed
<1>3. /\ WellFormed(h0) /\ ~h0[c].used
      /\ \A d \in DOMAIN chunk : h0[d].next = chunk[d].next
  BY FlagWellFormed
<1> HIDE DEF h0
<1>4. /\ prv # NULL => prv \in DOMAIN h0 /\ h0[prv].next = c
      /\ nxt # NULL => nxt \in DOMAIN h0
  BY <1>2, <1>3, LinksInside
<1>5. nxt # NULL => nxt = After(chunk, c) /\ c < nxt
  BY OneChunk
<1>6. prv # NULL => prv < c
  <2> SUFFICES ASSUME prv # NULL PROVE prv < c
    OBVIOUS
  <2>1. c # NULL
    BY OneChunk
  <2> QED BY <1>2, <1>3, <1>4, <2>1, OneChunk
<1>7. c \in Nat /\ (nxt # NULL => nxt \in Nat) /\ (prv # NULL => prv \in Nat)
  BY <1>2, <1>3, <1>4, OneChunk
<1>8. /\ WellFormed(h1) /\ InUse(h1) = InUse(h0) /\ this \in DOMAIN h1 /\ ~h1[this].used
      /\ nxt # NULL => nxt \in DOMAIN h1 /\ h1[nxt].used = h0[nxt].used /\ nxt # this
  <2>1. CASE ~back
    <3>1. h1 = h0 /\ this = c
      BY <2>1
    <3> HIDE DEF h1, this
    <3> QED BY <1>2, <1>3, <1>4, <1>5, <1>7, <3>1
  <2>2. CASE back
    <3>1. h1 = Join(h0, prv, c) /\ this = prv
      BY <2>2
    <3>2. prv # NULL /\ ~h0[prv].used
      BY <2>2 DEF IsFree
    <3> HIDE DEF h1, this, prv, nxt, back
    <3>3. /\ WellFormed(h1) /\ DOMAIN h1 = DOMAIN h0 \ {c} /\ prv # c
          /\ \A d \in DOMAIN h0 \ {c} : h1[d].used = h0[d].used
      <4>1. c \in DOMAIN h0 /\ prv \in DOMAIN h0 /\ h0[prv].next = c
        BY <1>2, <1>4, <3>2
      <4>2. /\ WellFormed(Join(h0, prv, c))
            /\ DOMAIN Join(h0, prv, c) = DOMAIN h0 \ {c}
            /\ prv # c
            /\ \A d \in DOMAIN h0 \ {c} : Join(h0, prv, c)[d].used = h0[d].used
        BY <1>3, <4>1, JoinWellFormed
      <4> QED BY <3>1, <4>2
    <3>4. InUse(h1) = InUse(h0)
      BY <1>2, <1>3, <1>4, <3>1, <3>2, <3>3, JoinInUse DEF WellFormed
    <3> QED BY <1>4, <1>5, <1>6, <1>7, <3>1, <3>2, <3>3, <3>4
  <2> QED BY <2>1, <2>2
<1>9. InUse(h2) = InUse(h0)
  <2>1. CASE ~IsFree(h0, nxt)
    BY <1>8, <2>1
  <2>2. CASE IsFree(h0, nxt)
    <3>1. h2 = Join(h1, this, nxt) /\ nxt # NULL /\ ~h0[nxt].used
      BY <2>2 DEF IsFree
    <3> HIDE DEF h1, h2, this, nxt
    <3> QED BY <1>8, <3>1, JoinInUse DEF WellFormed
  <2> QED BY <2>1, <2>2
<1> QED BY <1>1, <1>2, <1>9

\* alloc: a free chunk c, whole or cut, is in use from now on.
LEMMA TakeInUse ==
  ASSUME WellFormed(chunk), NEW n \in Nat, NEW c \in Fits(n)
  PROVE  \E to \in Nat :
           /\ InUse(Take(c, n)) = InUse(chunk) \cup {<<c, to>>}
           /\ c + HeaderSize + n <= to /\ to <= After(chunk, c)
<1> DEFINE t == Take(c, n)
<1>1. /\ c \in DOMAIN chunk /\ ~chunk[c].used /\ chunk[c].size >= n
      /\ \A d \in DOMAIN chunk : chunk[d] \in Chunk
      /\ After(chunk, c) = c + HeaderSize + chunk[c].size /\ After(chunk, c) \in Nat
  BY OneChunk DEF Fits
<1>2. SUFFICES ASSUME NEW to \in Nat, NEW j, j = t,
                      \A d : d \in DOMAIN j /\ j[d].used <=> d = c \/ (d \in DOMAIN chunk /\ chunk[d].used),
                      \A d \in DOMAIN chunk \ {c} : chunk[d].used => j[d].size = chunk[d].size,
                      c + HeaderSize + j[c].size = to
               PROVE  InUse(j) = InUse(chunk) \cup {<<c, to>>}
  <2>1. CASE chunk[c].size <= n + HeaderSize
    <3>1. t = [chunk EXCEPT ![c].used = TRUE]
      BY <2>1 DEF Take
    <3>2. /\ DOMAIN t = DOMAIN chunk /\ t[c].used /\ t[c].size = chunk[c].size
          /\ \A d \in DOMAIN chunk \ {c} : t[d] = chunk[d]
      BY <1>1, <3>1
    <3> HIDE DEF t
    <3>3. \A d : d \in DOMAIN t /\ t[d].used <=> d = c \/ (d \in DOMAIN chunk /\ chunk[d].used)
      BY <1>1, <3>2
    <3>4. c + HeaderSize + n <= After(chunk, c)
      BY <1>1, OneChunk
    <3> QED BY <1>1, <1>2, <3>2, <3>3, <3>4 DEF t
  <2>2. CASE ~(chunk[c].size <= n + HeaderSize)
    <3> DEFINE new == c + HeaderSize + n
    <3>1. chunk[c].size > n + HeaderSize /\ t = Split(c, n)
      BY <1>1, <2>2 DEF Take
    <3>2. new \notin DOMAIN chunk
      BY <1>1, <3>1, SplitWellFormed
    <3>3. /\ DOMAIN t = DOMAIN chunk \cup {new} /\ ~t[new].used
          /\ t[c] = [chunk[c] EXCEPT !.next = new, !.size = n, !.used = TRUE]
          /\ \A d \in DOMAIN chunk \ {c} : t[d] \in {chunk[d], [chunk[d] EXCEPT !.previous = new]}
      BY <1>1, <3>1, <3>2 DEF Split
    <3> HIDE DEF t, new
    <3>4. t[c].used /\ t[c].size = n
      BY <1>1, <3>3
    <3>5. \A d \in DOMAIN chunk \ {c} : t[d].used = chunk[d].used /\ t[d].size = chunk[d].size
      BY <1>1, <3>3
    <3>6. \A d : d \in DOMAIN t /\ t[d].used <=> d = c \/ (d \in DOMAIN chunk /\ chunk[d].used)
      BY <1>1, <3>2, <3>3, <3>4, <3>5
    <3>7. c + HeaderSize + n \in Nat /\ c + HeaderSize + n <= After(chunk, c)
      BY <1>1, <3>1, OneChunk
    <3> QED BY <1>2, <3>4, <3>5, <3>6, <3>7 DEF t
  <2> QED BY <2>1, <2>2
<1>3. {d \in DOMAIN j : j[d].used} = {d \in DOMAIN chunk : chunk[d].used} \cup {c}
  BY <1>2
<1>4. /\ After(j, c) = to
      /\ \A d \in {x \in DOMAIN chunk : chunk[x].used} : After(j, d) = After(chunk, d)
  BY <1>1, <1>2 DEF After
<1> QED BY <1>3, <1>4 DEF InUse

----------------------------------------------------------------------------
(* Refusals                                                                *)

\* Which is what Pad does as long as nothing wraps.
LEMMA PadIsRoundUp ==
  ASSUME NEW n \in Requests
  PROVE  Pad(n) = RoundUp(n)
<1> DEFINE s == n + ChunkMinSize - 1
<1>1. n \in Nat /\ s \in Nat /\ s < Modulus /\ Modulus \in Nat \ {0}
  BY RequestsAssumption
<1>2. s % Modulus = s
  BY <1>1, ModBounds
<1>3. Pad(n) = s - (s % ChunkMinSize)
  BY <1>2 DEF Pad
<1>4. \A x \in Nat, m \in Nat \ {0} : x - (x % m) = (x \div m) * m
  OBVIOUS
<1> HIDE DEF s
<1>5. s - (s % ChunkMinSize) = (s \div ChunkMinSize) * ChunkMinSize
  BY <1>1, <1>4
<1> QED BY <1>3, <1>5 DEF RoundUp, s

\* A byte of the RAM is in the chunk whose header is the last one before it.
LEMMA ByteInChunk ==
  ASSUME WellFormed(chunk), Start \in DOMAIN chunk, NEW a \in Start .. End, a # End
  PROVE  \E c \in DOMAIN chunk : c <= a /\ a < After(chunk, c)
<1> DEFINE T == {a - d : d \in {x \in DOMAIN chunk : x <= a}}
<1>1. \A d \in DOMAIN chunk : d \in Nat
  BY OneChunk
<1>2. T \subseteq Nat /\ T # {}
  BY <1>1
<1>3. PICK m \in T : \A y \in T : ~(<<y, m>> \in OpToRel(<, Nat))
  BY <1>2, NatLessThanWellFounded, WFMin
<1>4. \A y \in T : ~(y < m)
  BY <1>2, <1>3 DEF OpToRel
<1>5. PICK c \in DOMAIN chunk : c <= a /\ m = a - c
  BY <1>3
<1>6. \A d \in DOMAIN chunk : d <= a => d <= c
  BY <1>1, <1>4, <1>5
<1>7. a < After(chunk, c)
  <2> SUFFICES ASSUME After(chunk, c) <= a PROVE FALSE
    BY <1>5, OneChunk
  <2>1. CASE chunk[c].next = NULL
    BY <2>1, OneChunk
  <2>2. CASE chunk[c].next # NULL
    BY <1>6, <2>2, OneChunk
  <2> QED BY <2>1, <2>2
<1> QED BY <1>5, <1>7

\* A run of bytes from a to b that is in no chunk in use lies in a free one.
LEMMA NoRunIsLost ==
  ASSUME WellFormed(chunk), NoneBothFree(chunk), Start \in DOMAIN chunk,
         NEW a \in Start .. End, NEW b \in Start .. End, a < b,
         \A d \in DOMAIN chunk : chunk[d].used => ~(a < After(chunk, d) /\ d < b)
  PROVE  \E c \in DOMAIN chunk : ~chunk[c].used /\ c <= a /\ b <= After(chunk, c)
<1>1. PICK c \in DOMAIN chunk : c <= a /\ a < After(chunk, c)
  BY ByteInChunk
<1>2. c \in Nat /\ After(chunk, c) \in Nat
  BY OneChunk
<1>3. ~chunk[c].used
  BY <1>1, <1>2
<1>4. b <= After(chunk, c)
  <2> SUFFICES ASSUME After(chunk, c) < b PROVE FALSE
    BY <1>2
  <2> DEFINE d == After(chunk, c)
  <2>1. chunk[c].next = d /\ d # NULL /\ d \in DOMAIN chunk
    BY <1>2, OneChunk
  <2>2. chunk[d].used
    BY <1>3, <2>1 DEF NoneBothFree, BothFree
  <2>3. d < After(chunk, d) /\ After(chunk, d) \in Nat
    BY <2>1, OneChunk
  <2> HIDE DEF d
  <2> QED BY <1>1, <1>2, <2>1, <2>2, <2>3 DEF d
<1> QED BY <1>1, <1>3, <1>4

----------------------------------------------------------------------------
(* The refinement                                                          *)

LEMMA InitImplements == Init => Pool!Init
<1> SUFFICES ASSUME Init PROVE Pool!Init
  OBVIOUS
<1>1. \A c \in DOMAIN chunk : ~chunk[c].used
  BY DEF Init, NoRam, OneFreeChunk
<1>2. UsedExtents = {}
  BY <1>1 DEF UsedExtents
<1>3. first \in {NULL, Start}
  BY DEF Init, NoRam, OneFreeChunk
<1> QED BY <1>2, <1>3 DEF Init, Pool!Init

LEMMA AllocFromImplements ==
  ASSUME IInv, NEW n \in Requests \ {0}, NEW c \in DOMAIN chunk, AllocFrom(n, c)
  PROVE  Pool!Serve(n)
<1>1. WellFormed(chunk) /\ first = Start
  BY IInvParts
<1>2. Pad(n) \in Nat /\ Pad(n) = RoundUp(n) /\ c \in Fits(Pad(n))
  BY PadCovers, PadIsRoundUp DEF AllocFrom, FirstFit
<1>3. PICK to \in Nat :
        /\ InUse(Take(c, Pad(n))) = InUse(chunk) \cup {<<c, to>>}
        /\ c + HeaderSize + Pad(n) <= to /\ to <= After(chunk, c)
  BY <1>1, <1>2, TakeInUse
<1> DEFINE e == <<c, to>>
<1>4. UsedExtents' = UsedExtents \cup {e}
  BY <1>3, UsedExtentsAreInUse DEF AllocFrom
<1>5. /\ c \in Nat /\ Start <= c /\ After(chunk, c) <= End /\ After(chunk, c) \in Nat
  BY <1>1, OneChunk
<1>6. e \in Pool!Extents
  BY <1>1, <1>2, <1>3, <1>5 DEF Pool!Extents
<1>7. e[2] - e[1] >= RoundUp(n) + HeaderSize
  BY <1>2, <1>3, <1>5
<1>8. Pool!Unused(e)
  <2> SUFFICES ASSUME NEW d \in DOMAIN chunk, chunk[d].used
               PROVE  ~Pool!Overlap(e, <<d, After(chunk, d)>>)
    BY DEF Pool!Unused, UsedExtents
  <2>1. d \in Nat /\ After(chunk, d) \in Nat
    BY <1>1, OneChunk
  <2>2. d # c
    BY <1>2 DEF Fits
  <2>3. (c < d => After(chunk, c) <= d) /\ (d < c => After(chunk, d) <= c)
    BY <1>1 DEF WellFormed, Disjoint
  <2> QED BY <1>3, <1>5, <2>1, <2>2, <2>3 DEF Pool!Overlap
<1>9. reply' = Pool!Served(n, e)
  BY DEF AllocFrom, AllocReply, UserPtr, Pool!Served
<1>10. UNCHANGED (IF first = NULL THEN Start ELSE End)
  BY DEF AllocFrom
<1> QED BY <1>4, <1>6, <1>7, <1>8, <1>9, <1>10 DEF Pool!Serve

LEMMA AllocFailsImplements ==
  ASSUME IInv, NEW n \in Requests \ {0}, AllocFails(n)
  PROVE  Pool!Refuse(n)
<1>1. WellFormed(chunk) /\ NoneBothFree(chunk) /\ first \in {NULL, Start}
  BY IInvParts
<1>2. Pad(n) \in Nat /\ Pad(n) = RoundUp(n) /\ Fits(Pad(n)) = {}
  BY PadCovers, PadIsRoundUp DEF AllocFails
<1>3. ASSUME NEW e \in Pool!Extents, e[2] - e[1] = RoundUp(n) + HeaderSize, Pool!Unused(e)
      PROVE  FALSE
  <2> DEFINE a == e[1]
             b == e[2]
  <2>1. first # NULL /\ a \in Start .. End /\ b \in Start .. End /\ a < b
    BY <1>1, <1>3 DEF Pool!Extents
  <2>2. Start \in DOMAIN chunk
    BY <1>1, <2>1, IInvParts
  <2>3. \A d \in DOMAIN chunk : chunk[d].used => ~(a < After(chunk, d) /\ d < b)
    <3> SUFFICES ASSUME NEW d \in DOMAIN chunk, chunk[d].used
                 PROVE  ~(a < After(chunk, d) /\ d < b)
      OBVIOUS
    <3>1. <<d, After(chunk, d)>> \in UsedExtents
      BY DEF UsedExtents
    <3>2. ~Pool!Overlap(e, <<d, After(chunk, d)>>)
      BY <1>3, <3>1 DEF Pool!Unused
    <3> QED BY <3>2 DEF Pool!Overlap
  <2>4. b - a = Pad(n) + HeaderSize
    BY <1>2, <1>3
  <2> HIDE DEF a, b
  <2>5. PICK c \in DOMAIN chunk : ~chunk[c].used /\ c <= a /\ b <= After(chunk, c)
    BY <1>1, <2>1, <2>2, <2>3, NoRunIsLost
  <2>6. chunk[c].size >= Pad(n)
    BY <1>1, <1>2, <2>1, <2>4, <2>5, OneChunk
  <2> QED BY <1>2, <2>5, <2>6 DEF Fits
<1>4. reply' = Pool!Refused(n)
  BY DEF AllocFails, AllocReply, Pool!Refused
<1>5. UNCHANGED <<UsedExtents, IF first = NULL THEN Start ELSE End>>
  BY UsedExtentsAreInUse DEF AllocFails
<1> QED BY <1>3, <1>4, <1>5 DEF Pool!Refuse

LEMMA FreeImplements ==
  ASSUME IInv, NEW c \in Start .. End, Free(c)
  PROVE  \E e \in UsedExtents : Pool!Release(e)
<1>1. WellFormed(chunk) /\ c \in DOMAIN chunk /\ chunk[c].used
  BY IInvParts DEF Free
<1> DEFINE e == <<c, After(chunk, c)>>
<1>2. e \in UsedExtents
  BY <1>1 DEF UsedExtents
<1>3. UsedExtents' = UsedExtents \ {e}
  BY <1>1, MergedInUse, UsedExtentsAreInUse DEF Free
<1>4. reply' = Pool!Freed(0) /\ UNCHANGED (IF first = NULL THEN Start ELSE End)
  BY DEF Free, FreeReply, Pool!Freed
<1> QED BY <1>2, <1>3, <1>4 DEF Pool!Release

LEMMA StepImplements ==
  IInv /\ [Next]_vars =>
    [Pool!Next]_<<UsedExtents, IF first = NULL THEN Start ELSE End, reply>>
<1> SUFFICES ASSUME IInv, [Next]_vars
             PROVE  Pool!Next \/ UNCHANGED <<UsedExtents, IF first = NULL THEN Start ELSE End, reply>>
  OBVIOUS
<1>1. ASSUME UNCHANGED <<first, chunk>>
      PROVE  UNCHANGED <<UsedExtents, IF first = NULL THEN Start ELSE End>>
  BY <1>1, UsedExtentsAreInUse
<1>2. CASE AllocNothing
  BY <1>1, <1>2 DEF AllocNothing, AllocReply, Pool!Refused, Pool!RefuseEmpty, Pool!Next
<1>3. ASSUME NEW n \in Requests \ {0}, AllocFails(n) PROVE Pool!Next
  BY <1>3, AllocFailsImplements DEF Pool!Next
<1>4. ASSUME NEW n \in Requests \ {0}, NEW c \in DOMAIN chunk, AllocFrom(n, c) PROVE Pool!Next
  BY <1>4, AllocFromImplements DEF Pool!Next
<1>5. ASSUME NEW c \in Start .. End, Free(c) PROVE Pool!Next
  BY <1>5, FreeImplements DEF Pool!Next
<1>6. ASSUME NEW c \in Start .. End, FreeFails(c) PROVE Pool!Next
  BY <1>1, <1>6 DEF FreeFails, FreeReply, Pool!Freed, Pool!ReleaseWrong, Pool!Next
<1>7. CASE UNCHANGED vars
  BY <1>1, <1>7 DEF vars
<1> QED BY <1>2, <1>3, <1>4, <1>5, <1>6, <1>7 DEF Next

\* The list is a pool: a request gets bytes that nobody else has, and is refused
\* only when there is no unused run of bytes that could hold it, whatever was
\* allocated and freed before.
THEOREM PoolImplemented == Spec => ImplementsPool
<1>1. Spec => []IInv
  BY InitIInv, StepIInv, PTL DEF Spec
<1> QED BY <1>1, InitImplements, StepImplements, PTL
        DEF Spec, ImplementsPool, Pool!Spec, Pool!vars

----------------------------------------------------------------------------
(* get_usage: sums over sets of chunks                                     *)

Plus(a, b) == a + b
Sums == INSTANCE FoldTheorems WITH Op <- Plus

\* The function through which MapThenSumSet is defined, with g for what is added up.
IsSum(f, g, S) ==
  f = [s \in SUBSET S |->
         IF s = {} THEN 0 ELSE LET x == CHOOSE x \in s : TRUE IN g[x] + f[s \ {x}]]

\* The same for the sets of up to n elements.
IsSumTo(f, g, S, n) ==
  \A s \in SUBSET S : Cardinality(s) <= n =>
    f[s] = IF s = {} THEN 0
           ELSE g[CHOOSE x \in s : TRUE] + f[s \ {CHOOSE x \in s : TRUE}]

\* Subsets of a finite set, and what is left when an element is taken out.
LEMMA Smaller ==
  ASSUME NEW S, IsFiniteSet(S), NEW s \in SUBSET S
  PROVE  /\ Cardinality(s) \in Nat /\ Cardinality(s) <= Cardinality(S)
         /\ Cardinality(s) = 0 => s = {}
         /\ \A x \in s : /\ s \ {x} \in SUBSET S
                         /\ Cardinality(s \ {x}) = Cardinality(s) - 1
<1>1. IsFiniteSet(s) /\ Cardinality(s) <= Cardinality(S)
  BY FS_Subset
<1>2. Cardinality(s) \in Nat
  BY <1>1, FS_CardinalityType
<1>3. Cardinality(s) = 0 => s = {}
  BY <1>1, FS_EmptySet
<1>4. \A x \in s : Cardinality(s \ {x}) = Cardinality(s) - 1
  BY <1>1, FS_RemoveElement
<1> QED BY <1>1, <1>2, <1>3, <1>4

\* There is such a function, so the CHOOSE in MapThenFoldSet picks one.
LEMMA SumExists ==
  ASSUME NEW S, IsFiniteSet(S), NEW g
  PROVE  \E f : IsSum(f, g, S)
<1> DEFINE c(s) == CHOOSE x \in s : TRUE
           T == {n \in Nat : \E f : IsSumTo(f, g, S, n)}
<1>1. 0 \in T
  <2> DEFINE f == [s \in SUBSET S |-> 0]
  <2>1. \A s \in SUBSET S : Cardinality(s) <= 0 => s = {}
    BY Smaller
  <2>2. IsSumTo(f, g, S, 0)
    BY <2>1 DEF IsSumTo
  <2> QED BY <2>2
<1>2. ASSUME NEW n \in Nat, n \in T PROVE n + 1 \in T
  <2>1. PICK f : IsSumTo(f, g, S, n)
    BY <1>2
  <2> DEFINE h == [s \in SUBSET S |->
                     IF Cardinality(s) = n + 1 THEN g[c(s)] + f[s \ {c(s)}] ELSE f[s]]
  <2>2. ASSUME NEW s \in SUBSET S, Cardinality(s) <= n + 1
        PROVE  h[s] = IF s = {} THEN 0 ELSE g[c(s)] + h[s \ {c(s)}]
    <3>1. CASE s = {}
      <4>1. Cardinality(s) = 0
        BY <3>1, FS_EmptySet
      <4>2. h[s] = f[s] /\ f[s] = 0
        BY <4>1, <3>1, <2>1 DEF IsSumTo
      <4> QED BY <3>1, <4>2
    <3>2. CASE s # {}
      <4>1. c(s) \in s
        BY <3>2
      <4> DEFINE r == s \ {c(s)}
      <4>2. r \in SUBSET S /\ Cardinality(r) = Cardinality(s) - 1
        <5>1. \A x \in s : s \ {x} \in SUBSET S /\ Cardinality(s \ {x}) = Cardinality(s) - 1
          BY Smaller
        <5> HIDE DEF c
        <5> QED BY <4>1, <5>1
      <4>3. Cardinality(s) \in Nat
        BY Smaller
      <4>4. h[r] = f[r]
        BY <4>2, <4>3, <2>2
      <4>5. h[s] = g[c(s)] + f[r]
        <5>1. CASE Cardinality(s) = n + 1
          BY <5>1
        <5>2. CASE Cardinality(s) <= n
          <6>1. f[s] = g[c(s)] + f[r]
            BY <5>2, <3>2, <2>1 DEF IsSumTo
          <6>2. Cardinality(s) # n + 1
            BY <5>2, <4>3
          <6> QED BY <6>1, <6>2
        <5> QED BY <5>1, <5>2, <4>3, <2>2
      <4> QED BY <3>2, <4>4, <4>5
    <3> QED BY <3>1, <3>2
  <2>3. IsSumTo(h, g, S, n + 1)
    BY <2>2 DEF IsSumTo
  <2> QED BY <2>3
<1> HIDE DEF T
<1>3. Nat \subseteq T
  BY <1>1, <1>2, Sums!SetInduction
<1>4. Cardinality(S) \in T
  BY <1>3, FS_CardinalityType
<1>5. PICK f : IsSumTo(f, g, S, Cardinality(S))
  BY <1>4 DEF T
<1> DEFINE e == [s \in SUBSET S |-> f[s]]
<1>6. ASSUME NEW s \in SUBSET S
      PROVE  e[s] = IF s = {} THEN 0 ELSE g[c(s)] + e[s \ {c(s)}]
  BY <1>5, Smaller DEF IsSumTo
<1>7. IsSum(e, g, S)
  BY <1>6 DEF IsSum
<1> QED BY <1>7

\* The sum is that of any element and of the rest, whatever CHOOSE takes first.
LEMMA SumSteps ==
  ASSUME NEW S, IsFiniteSet(S), NEW g, \A x \in S : g[x] \in Int, NEW f, IsSum(f, g, S)
  PROVE  /\ f[{}] = 0
         /\ \A s \in SUBSET S : f[s] \in Int /\ \A x \in s : f[s] = g[x] + f[s \ {x}]
<1> DEFINE c(s) == CHOOSE x \in s : TRUE
           Holds(s) == f[s] \in Int /\ \A x \in s : f[s] = g[x] + f[s \ {x}]
           T == {n \in Nat : \A s \in SUBSET S : Cardinality(s) <= n => Holds(s)}
<1>0. \A s \in SUBSET S : f[s] = IF s = {} THEN 0 ELSE g[c(s)] + f[s \ {c(s)}]
  BY DEF IsSum
<1>1. f[{}] = 0
  BY <1>0
<1>2. 0 \in T
  <2>1. \A s \in SUBSET S : Cardinality(s) <= 0 => s = {}
    BY Smaller
  <2>2. Holds({})
    BY <1>1
  <2> HIDE DEF Holds
  <2> QED BY <2>1, <2>2
<1>3. ASSUME NEW n \in Nat, n \in T PROVE n + 1 \in T
  <2> SUFFICES ASSUME NEW s \in SUBSET S, Cardinality(s) <= n + 1 PROVE Holds(s)
    OBVIOUS
  <2>1. CASE s = {}
    BY <1>1, <2>1
  <2>2. CASE s # {}
    <3>1. c(s) \in s
      BY <2>2
    <3>2. PICK y \in s : y = c(s)
      BY <3>1
    <3>3. \A x \in s : s \ {x} \in SUBSET S /\ Cardinality(s \ {x}) <= n
      BY Smaller
    <3>4. \A x \in s : Holds(s \ {x})
      BY <3>3, <1>3
    <3>5. f[s] = g[y] + f[s \ {y}]
      BY <1>0, <2>2, <3>2
    <3> HIDE DEF c
    <3>6. \A x \in s : g[x] \in Int /\ f[s \ {x}] \in Int
      BY <3>4
    <3>7. ASSUME NEW x \in s, x # y PROVE f[s] = g[x] + f[s \ {x}]
      <4>1. f[s \ {y}] = g[x] + f[(s \ {y}) \ {x}]
        BY <3>4, <3>7
      <4>2. f[s \ {x}] = g[y] + f[(s \ {x}) \ {y}]
        BY <3>4, <3>7
      <4>3. (s \ {y}) \ {x} = (s \ {x}) \ {y}
        OBVIOUS
      <4>4. (s \ {x}) \ {y} \in SUBSET S /\ Cardinality((s \ {x}) \ {y}) <= n
        <5>1. s \ {x} \in SUBSET S /\ y \in s \ {x}
          BY <3>7
        <5> DEFINE r == s \ {x}
        <5>2. r \in SUBSET S /\ y \in r /\ Cardinality(r) <= n
          BY <5>1, <3>3
        <5> HIDE DEF r
        <5>3. Cardinality(r) \in Nat /\ Cardinality(r \ {y}) = Cardinality(r) - 1
          BY <5>2, Smaller
        <5>4. r \ {y} \in SUBSET S /\ Cardinality(r \ {y}) <= n
          BY <5>2, <5>3
        <5> QED BY <5>4 DEF r
      <4>5. f[(s \ {x}) \ {y}] \in Int
        BY <4>4, <1>3
      <4> DEFINE r == f[(s \ {x}) \ {y}]
      <4>6. f[s \ {y}] = g[x] + r /\ f[s \ {x}] = g[y] + r /\ r \in Int
        BY <4>1, <4>2, <4>3, <4>5
      <4> HIDE DEF r
      <4> QED BY <4>6, <3>5, <3>6
    <3>8. f[s] \in Int
      BY <3>5, <3>6
    <3>9. \A x \in s : f[s] = g[x] + f[s \ {x}]
      BY <3>5, <3>7
    <3> QED BY <3>8, <3>9
  <2> QED BY <2>1, <2>2
<1> HIDE DEF T
<1>4. Nat \subseteq T
  BY <1>2, <1>3, Sums!SetInduction
<1>5. Cardinality(S) \in T
  BY <1>4, FS_CardinalityType
<1>6. \A s \in SUBSET S : Holds(s)
  BY <1>5, Smaller DEF T
<1> QED BY <1>1, <1>6

\* Two such functions agree where both are defined.
LEMMA SumsAgree ==
  ASSUME NEW S, IsFiniteSet(S), NEW g, NEW f, IsSum(f, g, S),
         NEW R \in SUBSET S, NEW e, IsSum(e, g, R)
  PROVE  \A s \in SUBSET R : e[s] = f[s]
<1> DEFINE c(s) == CHOOSE x \in s : TRUE
           T == {n \in Nat : \A s \in SUBSET R : Cardinality(s) <= n => e[s] = f[s]}
<1>0. \A s \in SUBSET R : /\ f[s] = IF s = {} THEN 0 ELSE g[c(s)] + f[s \ {c(s)}]
                          /\ e[s] = IF s = {} THEN 0 ELSE g[c(s)] + e[s \ {c(s)}]
  BY DEF IsSum
<1>1. 0 \in T
  <2>1. \A s \in SUBSET R : Cardinality(s) <= 0 => s = {}
    BY Smaller
  <2> QED BY <2>1, <1>0
<1>2. ASSUME NEW n \in Nat, n \in T PROVE n + 1 \in T
  <2> SUFFICES ASSUME NEW s \in SUBSET R, Cardinality(s) <= n + 1, s # {}
               PROVE e[s] = f[s]
    BY <1>0
  <2>1. c(s) \in s
    OBVIOUS
  <2>2. s \ {c(s)} \in SUBSET R /\ Cardinality(s \ {c(s)}) <= n
    <3>1. PICK x \in s : x = c(s)
      BY <2>1
    <3>2. s \in SUBSET S
      OBVIOUS
    <3>3. Cardinality(s) \in Nat /\ Cardinality(s \ {x}) = Cardinality(s) - 1
      BY <3>2, Smaller
    <3>4. Cardinality(s \ {x}) <= n
      BY <3>3
    <3> HIDE DEF c
    <3> QED BY <3>1, <3>4
  <2>3. e[s \ {c(s)}] = f[s \ {c(s)}]
    BY <2>2, <1>2
  <2> QED BY <2>3, <1>0
<1> HIDE DEF T
<1>3. Nat \subseteq T
  BY <1>1, <1>2, Sums!SetInduction
<1>4. Cardinality(S) \in T
  BY <1>3, FS_CardinalityType
<1> QED BY <1>4, Smaller DEF T

\* Induction along the list, from its end.
LEMMA ListInduction ==
  ASSUME NEW h, WellFormed(h), NEW T,
         \A c \in DOMAIN h : (h[c].next # NULL => h[c].next \in T) => c \in T
  PROVE  DOMAIN h \subseteq T
<1> DEFINE Bad == DOMAIN h \ T
           Left == {End - c : c \in Bad}
<1> SUFFICES ASSUME Bad # {} PROVE FALSE
  OBVIOUS
<1>1. ASSUME NEW c \in DOMAIN h PROVE c \in Nat /\ c <= End /\ End \in Nat
  <2>1. c \in Nat /\ After(h, c) \in Nat /\ c < After(h, c) /\ After(h, c) <= End
    BY OneChunk
  <2>2. End \in Nat
    OBVIOUS
  <2> HIDE DEF End
  <2> QED BY <2>1, <2>2
<1>2. Left \subseteq Nat /\ Left # {}
  BY <1>1
<1>3. PICK m \in Left : \A y \in Left : ~(<<y, m>> \in OpToRel(<, Nat))
  BY <1>2, NatLessThanWellFounded, WFMin
<1>4. \A y \in Left : ~(y < m)
  BY <1>2, <1>3 DEF OpToRel
<1>5. PICK c \in Bad : m = End - c
  BY <1>3
<1>6. ASSUME NEW d \in Bad PROVE d <= c
  <2>1. c \in Nat /\ d \in Nat /\ End \in Nat
    BY <1>1
  <2>2. ~(End - d < End - c)
    BY <1>4, <1>5
  <2> HIDE DEF End
  <2> QED BY <2>1, <2>2
<1>7. h[c].next # NULL /\ h[c].next \notin T
  BY <1>5
<1>8. h[c].next \in Bad /\ c < h[c].next
  BY <1>5, <1>7, OneChunk
<1> QED BY <1>1, <1>5, <1>6, <1>8

\* The chunks from c on.
From(h, c) == {d \in DOMAIN h : c <= d}

\* They are c, and those from the next one on.
LEMMA FromSteps ==
  ASSUME NEW h, WellFormed(h), NEW c \in DOMAIN h
  PROVE  /\ h[c].next = NULL => From(h, c) = {c}
         /\ h[c].next # NULL => /\ h[c].next \in DOMAIN h /\ c < h[c].next
                                /\ From(h, c) = {c} \cup From(h, h[c].next)
                                /\ c \notin From(h, h[c].next)
<1>1. \A d \in DOMAIN h : d \in Nat /\ d < After(h, d) /\ After(h, d) <= End /\ After(h, d) \in Nat
  BY OneChunk
<1>2. \A d \in DOMAIN h : c < d => After(h, c) <= d
  BY DEF WellFormed, Disjoint
<1>3. ASSUME h[c].next = NULL PROVE From(h, c) = {c}
  <2>1. After(h, c) = End
    BY <1>3, OneChunk
  <2>2. \A d \in DOMAIN h : ~(c < d)
    BY <1>1, <1>2, <2>1
  <2> QED BY <1>1, <2>2 DEF From
<1>4. ASSUME h[c].next # NULL
      PROVE  /\ h[c].next \in DOMAIN h /\ c < h[c].next
             /\ From(h, c) = {c} \cup From(h, h[c].next)
             /\ c \notin From(h, h[c].next)
  <2>1. PICK n \in DOMAIN h : n = h[c].next /\ n = After(h, c)
    BY <1>4, OneChunk
  <2>2. \A d \in DOMAIN h : c <= d <=> d = c \/ n <= d
    BY <1>1, <1>2, <2>1
  <2>3. c < n
    BY <1>1, <2>1
  <2>4. From(h, c) = {c} \cup From(h, n) /\ c \notin From(h, n)
    BY <1>1, <2>2, <2>3 DEF From
  <2> QED BY <2>1, <2>3, <2>4
<1> QED BY <1>3, <1>4

WalkStep(h, f, c) == IF h[c].next = NULL THEN <<c>> ELSE <<c>> \o f[h[c].next]
IsWalk(f, h) == f = [c \in DOMAIN h |-> WalkStep(h, f, c)]

\* There is a function that walks the list, so the CHOOSE in Walk picks one.
LEMMA WalkExists ==
  ASSUME NEW h, WellFormed(h), Start \in DOMAIN h
  PROVE  \E f : IsWalk(f, h)
<1> DEFINE T == {c \in DOMAIN h : \E f : \A d \in From(h, c) : f[d] = WalkStep(h, f, d)}
<1>1. ASSUME NEW c \in DOMAIN h, h[c].next # NULL => h[c].next \in T
      PROVE  c \in T
  <2>1. CASE h[c].next = NULL
    <3> DEFINE f == [d \in {c} |-> <<c>>]
    <3>1. f[c] = WalkStep(h, f, c)
      BY <2>1 DEF WalkStep
    <3>2. \A d \in From(h, c) : f[d] = WalkStep(h, f, d)
      BY <3>1, <2>1, FromSteps
    <3> QED BY <3>2
  <2>2. CASE h[c].next # NULL
    <3>1. PICK n \in DOMAIN h : n = h[c].next
      BY <2>2, FromSteps
    <3>2. PICK f : \A d \in From(h, n) : f[d] = WalkStep(h, f, d)
      BY <1>1, <2>2, <3>1
    <3> DEFINE e == [d \in DOMAIN h |-> IF d = c THEN <<c>> \o f[n] ELSE f[d]]
    <3>3. e[c] = WalkStep(h, e, c)
      <4>1. c # n
        BY <2>2, <3>1, FromSteps, OneChunk
      <4> QED BY <4>1, <2>2, <3>1 DEF WalkStep
    <3>4. ASSUME NEW d \in From(h, n) PROVE e[d] = WalkStep(h, e, d)
      <4>1. d \in DOMAIN h /\ d # c
        BY <2>2, <3>1, FromSteps DEF From
      <4>2. e[d] = WalkStep(h, f, d)
        BY <3>2, <4>1
      <4>3. h[d].next # NULL => h[d].next \in DOMAIN h /\ h[d].next # c
        <5> SUFFICES ASSUME h[d].next # NULL PROVE h[d].next \in DOMAIN h /\ h[d].next # c
          OBVIOUS
        <5>1. h[d].next \in DOMAIN h /\ d < h[d].next
          BY <4>1, FromSteps
        <5>2. n <= d /\ c < n
          BY <2>2, <3>1, FromSteps DEF From
        <5>3. c \in Nat /\ n \in Nat /\ d \in Nat /\ h[d].next \in Nat
          BY <4>1, <5>1, OneChunk
        <5> QED BY <5>1, <5>2, <5>3
      <4> QED BY <4>2, <4>3 DEF WalkStep
    <3>5. \A d \in From(h, c) : e[d] = WalkStep(h, e, d)
      <4>1. From(h, c) = {c} \cup From(h, n)
        BY <2>2, <3>1, FromSteps
      <4> HIDE DEF e
      <4> QED BY <4>1, <3>3, <3>4
    <3> QED BY <3>5
  <2> QED BY <2>1, <2>2
<1> HIDE DEF T
<1>2. Start \in T
  BY <1>1, ListInduction
<1>3. PICK f : \A d \in From(h, Start) : f[d] = WalkStep(h, f, d)
  BY <1>2 DEF T
<1>4. From(h, Start) = DOMAIN h
  BY OneChunk DEF From
<1> DEFINE e == [c \in DOMAIN h |-> f[c]]
<1>5. ASSUME NEW c \in DOMAIN h PROVE e[c] = WalkStep(h, e, c)
  <2>1. h[c].next # NULL => h[c].next \in DOMAIN h
    BY FromSteps
  <2>2. e[c] = WalkStep(h, f, c)
    BY <1>3, <1>4
  <2> QED BY <2>1, <2>2 DEF WalkStep
<1>6. e = [c \in DOMAIN h |-> WalkStep(h, e, c)]
  <2>1. e = [c \in DOMAIN h |-> e[c]]
    OBVIOUS
  <2> HIDE DEF e
  <2> QED BY <1>5, <2>1
<1> QED BY <1>6 DEF IsWalk

\* A walk from c visits the chunks from c on, each of them once.
LEMMA WalkVisits ==
  ASSUME NEW h, WellFormed(h), IsFiniteSet(DOMAIN h), NEW f, IsWalk(f, h)
  PROVE  \A c \in DOMAIN h : /\ f[c] \in Seq(DOMAIN h)
                             /\ {f[c][i] : i \in DOMAIN f[c]} = From(h, c)
                             /\ Len(f[c]) = Cardinality(From(h, c))
<1> DEFINE Seen(s) == {s[i] : i \in DOMAIN s}
           N(s) == Cardinality(s)
           T == {c \in DOMAIN h : /\ f[c] \in Seq(DOMAIN h) /\ Seen(f[c]) = From(h, c)
                                  /\ Len(f[c]) = N(From(h, c))}
<1>0. \A c \in DOMAIN h : f[c] = WalkStep(h, f, c)
  BY DEF IsWalk
<1>1. ASSUME NEW c \in DOMAIN h, h[c].next # NULL => h[c].next \in T
      PROVE  c \in T
  <2>1. CASE h[c].next = NULL
    <3>1. f[c] = <<c>>
      BY <1>0, <2>1 DEF WalkStep
    <3>2. From(h, c) = {c}
      BY <2>1, FromSteps
    <3>3. <<c>> \in Seq(DOMAIN h) /\ Seen(<<c>>) = {c}
      OBVIOUS
    <3>4. N({c}) = 1 /\ Len(<<c>>) = 1
      BY FS_Singleton
    <3> HIDE DEF Seen, N
    <3> QED BY <3>1, <3>2, <3>3, <3>4
  <2>2. CASE h[c].next # NULL
    <3>1. PICK n \in DOMAIN h : n = h[c].next
      BY <2>2, FromSteps
    <3>2. PICK s \in Seq(DOMAIN h) : s = f[n] /\ Seen(s) = From(h, n) /\ Len(s) = N(From(h, n))
      BY <1>1, <2>2, <3>1
    <3>3. f[c] = <<c>> \o s
      BY <1>0, <2>2, <3>1, <3>2 DEF WalkStep
    <3> DEFINE t == <<c>> \o s
    <3>4. t \in Seq(DOMAIN h) /\ Len(t) = Len(s) + 1 /\ t[1] = c
      OBVIOUS
    <3>5. \A i \in 1 .. Len(s) : t[i + 1] = s[i]
      OBVIOUS
    <3>6. Seen(t) = {c} \cup Seen(s)
      <4>1. DOMAIN t = 1 .. Len(s) + 1 /\ DOMAIN s = 1 .. Len(s) /\ Len(s) \in Nat
        BY <3>4
      <4> HIDE DEF t
      <4>2. Seen(t) \subseteq {c} \cup Seen(s)
        <5> SUFFICES ASSUME NEW i \in 1 .. Len(s) + 1, i # 1
                     PROVE  \E j \in 1 .. Len(s) : t[i] = s[j]
          BY <3>4, <4>1
        <5>1. i - 1 \in 1 .. Len(s) /\ (i - 1) + 1 = i
          BY <4>1
        <5> QED BY <5>1, <3>5
      <4>3. {c} \cup Seen(s) \subseteq Seen(t)
        <5>1. 1 \in DOMAIN t /\ \A i \in 1 .. Len(s) : i + 1 \in DOMAIN t
          BY <4>1
        <5>2. c \in Seen(t)
          BY <5>1, <3>4
        <5>3. \A i \in 1 .. Len(s) : s[i] \in Seen(t)
          BY <5>1, <3>5
        <5> QED BY <4>1, <5>2, <5>3
      <4> QED BY <4>2, <4>3
    <3>7. From(h, c) = {c} \cup From(h, n) /\ c \notin From(h, n)
      BY <2>2, <3>1, FromSteps
    <3>8. f[c] = t /\ t \in Seq(DOMAIN h) /\ Seen(t) = From(h, c)
      BY <3>2, <3>3, <3>4, <3>6, <3>7
    <3>9. N(From(h, c)) = N(From(h, n)) + 1
      <4>1. From(h, n) \in SUBSET (DOMAIN h)
        BY DEF From
      <4>2. IsFiniteSet(From(h, n))
        BY <4>1, FS_Subset
      <4>3. Cardinality(From(h, n) \cup {c}) = Cardinality(From(h, n)) + 1
        BY <3>7, <4>2, FS_AddElement
      <4>4. From(h, c) = From(h, n) \cup {c}
        BY <3>7
      <4> QED BY <4>3, <4>4
    <3>10. Len(t) = N(From(h, c))
      <4> HIDE DEF t, N, Seen
      <4> QED BY <3>2, <3>4, <3>9
    <3> HIDE DEF Seen, t, N
    <3> QED BY <3>8, <3>10
  <2> QED BY <2>1, <2>2
<1> HIDE DEF T
<1>2. DOMAIN h \subseteq T
  BY <1>1, ListInduction
<1> QED BY <1>2 DEF T

\* The chunks from c on, headers and data, take the rest of the RAM.
LEMMA FromFillsRam ==
  ASSUME NEW h, WellFormed(h), NEW D, D = DOMAIN h, IsFiniteSet(D),
         NEW g \in [D -> Int], \A c \in D : g[c] = HeaderSize + h[c].size,
         NEW f, IsSum(f, g, D)
  PROVE  \A c \in D : f[From(h, c)] = End - c
<1> DEFINE T == {c \in D : f[From(h, c)] = End - c}
<1>0. f[{}] = 0 /\ \A s \in SUBSET D : f[s] \in Int /\ \A x \in s : f[s] = g[x] + f[s \ {x}]
  BY SumSteps
<1>1. ASSUME NEW c \in DOMAIN h, h[c].next # NULL => h[c].next \in T
      PROVE  c \in T
  <2>1. c \in Nat /\ h[c] \in Chunk
    BY OneChunk
  <2>2. PICK size \in Nat : size = h[c].size
    BY <2>1
  <2>3. From(h, c) \in SUBSET D /\ c \in From(h, c)
    BY <2>1 DEF From
  <2>4. f[From(h, c)] = HeaderSize + size + f[From(h, c) \ {c}]
    BY <1>0, <2>2, <2>3
  <2>5. HeaderSize \in Nat /\ End \in Nat
    OBVIOUS
  <2>6. f[From(h, c)] = End - c
    <3>1. CASE h[c].next = NULL
      <4>1. From(h, c) \ {c} = {}
        BY <3>1, FromSteps
      <4>2. c + HeaderSize + size = End
        BY <2>2, <3>1, OneChunk
      <4>3. f[From(h, c)] = HeaderSize + size + 0
        BY <1>0, <2>4, <4>1
      <4> HIDE DEF End
      <4> QED BY <2>1, <2>5, <4>2, <4>3
    <3>2. CASE h[c].next # NULL
      <4>1. PICK n \in DOMAIN h : n = h[c].next /\ n = c + HeaderSize + size
        BY <2>2, <3>2, OneChunk
      <4>2. From(h, c) = {c} \cup From(h, n) /\ c \notin From(h, n)
        <5>1. /\ From(h, c) = {c} \cup From(h, h[c].next)
              /\ c \notin From(h, h[c].next)
          BY <3>2, FromSteps
        <5> QED BY <4>1, <5>1
      <4>3. From(h, c) \ {c} = From(h, n)
        BY <4>2
      <4>4. f[From(h, n)] = End - n
        BY <1>1, <3>2, <4>1
      <4>5. f[From(h, c)] = HeaderSize + size + (End - n)
        BY <2>4, <4>3, <4>4
      <4> HIDE DEF End
      <4> QED BY <2>1, <2>5, <4>1, <4>5
    <3> QED BY <3>1, <3>2
  <2> QED BY <2>6
<1> HIDE DEF T
<1>2. DOMAIN h \subseteq T
  BY <1>1, ListInduction
<1> QED BY <1>2 DEF T

\* The sums of sizes over the chunks in use and the free ones, and the headers.
LEMMA SumsAddUp ==
  ASSUME NEW h, NEW D, IsFiniteSet(D), NEW U \in SUBSET D,
         NEW size \in [D -> Nat], NEW f, IsSum(f, size, D),
         NEW g \in [D -> Int], \A c \in D : g[c] = HeaderSize + size[c],
         NEW t, IsSum(t, g, D)
  PROVE  t[D] = f[U] + f[D \ U] + HeaderSize * Cardinality(D)
<1> DEFINE N(s) == Cardinality(s)
           Holds(s) == t[s] = f[s \cap U] + f[s \ U] + HeaderSize * N(s)
           T == {n \in Nat : \A s \in SUBSET D : N(s) = n => Holds(s)}
<1>1. /\ t[{}] = 0
      /\ \A s \in SUBSET D : t[s] \in Int /\ \A x \in s : t[s] = g[x] + t[s \ {x}]
  BY SumSteps
<1>2. \A x \in D : size[x] \in Int
  OBVIOUS
<1>3. /\ f[{}] = 0
      /\ \A s \in SUBSET D : f[s] \in Int /\ \A x \in s : f[s] = size[x] + f[s \ {x}]
  BY <1>2, SumSteps
<1>4. 0 \in T
  <2>1. \A s \in SUBSET D : N(s) = 0 => s = {}
    BY Smaller
  <2>2. N({}) = 0
    BY FS_EmptySet
  <2> HIDE DEF N
  <2>3. Holds({})
    <3>1. {} \cap U = {} /\ {} \ U = {}
      OBVIOUS
    <3> QED BY <1>1, <1>3, <2>2, <3>1
  <2> QED BY <2>1, <2>3
<1>5. ASSUME NEW n \in Nat, n \in T PROVE n + 1 \in T
  <2> HIDE DEF Holds, N
  <2> SUFFICES ASSUME NEW s \in SUBSET D, N(s) = n + 1 PROVE Holds(s)
    OBVIOUS
  <2> USE DEF Holds, N
  <2>1. s # {}
    <3>1. N({}) = 0
      BY FS_EmptySet
    <3> QED BY <3>1
  <2>2. PICK x \in s : TRUE
    BY <2>1
  <2> DEFINE r == s \ {x}
  <2>3. r \in SUBSET D /\ N(r) = n
    <3>1. \A y \in s : s \ {y} \in SUBSET D /\ Cardinality(s \ {y}) = Cardinality(s) - 1
      BY Smaller
    <3> QED BY <3>1
  <2>4. Holds(r)
    BY <1>5, <2>3
  <2>5. t[s] = HeaderSize + size[x] + t[r]
    BY <1>1
  <2>6. f[s \cap U] + f[s \ U] = size[x] + (f[r \cap U] + f[r \ U])
    <3>0. /\ f[r \cap U] \in Int /\ f[r \ U] \in Int /\ size[x] \in Int
      BY <1>3, <2>3
    <3>1. CASE x \in U
      <4>1. x \in s \cap U /\ s \cap U \in SUBSET D /\ (s \cap U) \ {x} = r \cap U /\ s \ U = r \ U
        BY <3>1
      <4>2. f[s \cap U] = size[x] + f[r \cap U]
        BY <1>3, <4>1
      <4> HIDE DEF r
      <4> QED BY <3>0, <4>1, <4>2
    <3>2. CASE x \notin U
      <4>1. x \in s \ U /\ s \ U \in SUBSET D /\ (s \ U) \ {x} = r \ U /\ s \cap U = r \cap U
        BY <3>2
      <4>2. f[s \ U] = size[x] + f[r \ U]
        BY <1>3, <4>1
      <4> HIDE DEF r
      <4> QED BY <3>0, <4>1, <4>2
    <3> QED BY <3>1, <3>2
  <2>7. HeaderSize * (n + 1) = HeaderSize * n + HeaderSize
    OBVIOUS
  <2>8. PICK k \in Int : k = HeaderSize * n
    OBVIOUS
  <2>9. PICK a \in Int : a = f[r \cap U] + f[r \ U]
    BY <1>3, <2>3
  <2>10. PICK b \in Int : b = size[x]
    OBVIOUS
  <2>11. t[r] = a + k
    BY <2>3, <2>4, <2>8, <2>9
  <2>12. f[s \cap U] + f[s \ U] = b + a
    BY <2>6, <2>9, <2>10
  <2>13. t[s] = HeaderSize + b + (a + k)
    BY <2>5, <2>10, <2>11
  <2>14. HeaderSize * N(s) = k + HeaderSize
    BY <2>7, <2>8
  <2> HIDE DEF N
  <2> QED BY <2>12, <2>13, <2>14
<1> HIDE DEF T
<1>6. Nat \subseteq T
  BY <1>4, <1>5, Sums!SetInduction
<1>7. N(D) \in T
  BY <1>6, FS_CardinalityType
<1>8. Holds(D)
  BY <1>7 DEF T
<1>9. D \cap U = U
  OBVIOUS
<1> QED BY <1>8, <1>9

\* What is added up: the data, or the data and the header.
SizeOf(h) == [c \in DOMAIN h |-> h[c].size]
RoomOf(h) == [c \in DOMAIN h |-> HeaderSize + h[c].size]
UsedSet == {c \in DOMAIN chunk : chunk[c].used}
FreeSet == {c \in DOMAIN chunk : ~chunk[c].used}

\* UsedBytes and FreeBytes, for any set of chunks.
SizesOver(S) == MapThenSumSet(LAMBDA c : chunk[c].size, S)

\* The sums of get_usage are those of IsSum.
LEMMA SizesOverIsSum ==
  ASSUME NEW S \in SUBSET (DOMAIN chunk), IsFiniteSet(S)
  PROVE  \E f : IsSum(f, SizeOf(chunk), S) /\ SizesOver(S) = f[S]
<1> DEFINE Is(f) == f = [s \in SUBSET S |->
                           IF s = {} THEN 0
                           ELSE LET x == CHOOSE x \in s : TRUE IN chunk[x].size + f[s \ {x}]]
<1>1. ASSUME NEW f PROVE Is(f) <=> IsSum(f, SizeOf(chunk), S)
  <2>1. \A s \in SUBSET S : s # {} =>
          SizeOf(chunk)[CHOOSE x \in s : TRUE] = chunk[CHOOSE x \in s : TRUE].size
    BY DEF SizeOf
  <2> QED BY <2>1 DEF IsSum
<1>2. PICK e : IsSum(e, SizeOf(chunk), S)
  BY SumExists
<1>3. Is(e)
  BY <1>1, <1>2
<1> DEFINE iter == CHOOSE f : Is(f)
<1>4. Is(iter)
  <2> HIDE DEF Is
  <2> QED BY <1>3
<1>5. SizesOver(S) = iter[S]
  BY DEF SizesOver, MapThenSumSet, MapThenFoldSet
<1> HIDE DEF iter, Is
<1> QED BY <1>1, <1>4, <1>5

\* The same for all chunks with their headers.
LEMMA TotalIsSum ==
  ASSUME IsFiniteSet(DOMAIN chunk)
  PROVE  \E f : IsSum(f, RoomOf(chunk), DOMAIN chunk) /\ TotalBytes = f[DOMAIN chunk]
<1> DEFINE S == DOMAIN chunk
           Is(f) == f = [s \in SUBSET S |->
                           IF s = {} THEN 0
                           ELSE LET x == CHOOSE x \in s : TRUE
                                IN  (HeaderSize + chunk[x].size) + f[s \ {x}]]
<1>1. ASSUME NEW f PROVE Is(f) <=> IsSum(f, RoomOf(chunk), S)
  <2>1. \A s \in SUBSET S : s # {} =>
          RoomOf(chunk)[CHOOSE x \in s : TRUE] = HeaderSize + chunk[CHOOSE x \in s : TRUE].size
    BY DEF RoomOf
  <2> QED BY <2>1 DEF IsSum
<1>2. PICK e : IsSum(e, RoomOf(chunk), S)
  BY SumExists
<1>3. Is(e)
  BY <1>1, <1>2
<1> DEFINE iter == CHOOSE f : Is(f)
<1>4. Is(iter)
  <2> HIDE DEF Is
  <2> QED BY <1>3
<1>5. TotalBytes = iter[S]
  BY DEF TotalBytes, MapThenSumSet, MapThenFoldSet
<1> HIDE DEF iter, Is
<1> QED BY <1>1, <1>4, <1>5

\* A walk reaches every chunk, and the sums are those of the bytes of the RAM.
LEMMA IInvAddsUp == IInv => UsageAddsUp
<1> SUFFICES ASSUME IInv, first # NULL
             PROVE  /\ {Walk[i] : i \in DOMAIN Walk} = DOMAIN chunk
                    /\ Len(Walk) = Cardinality(DOMAIN chunk)
                    /\ TotalBytes = RamSize
                    /\ UsedBytes + FreeBytes + HeaderSize * Cardinality(DOMAIN chunk) = RamSize
  BY DEF UsageAddsUp
<1>1. first = Start /\ Start \in DOMAIN chunk /\ WellFormed(chunk)
  BY IInvParts
<1>2. From(chunk, Start) = DOMAIN chunk
  BY <1>1, OneChunk DEF From
<1>3. \A c \in DOMAIN chunk : chunk[c].size \in Nat /\ c \in Start .. End
  BY <1>1 DEF WellFormed, HeadersTyped
<1> DEFINE D == DOMAIN chunk
<1>4. IsFiniteSet(D)
  <2>1. IsFiniteSet(Start .. End)
    BY FS_Interval
  <2>2. D \in SUBSET (Start .. End)
    BY <1>3
  <2> HIDE DEF D
  <2> QED BY <2>1, <2>2, FS_Subset
<1>5. {Walk[i] : i \in DOMAIN Walk} = D /\ Len(Walk) = Cardinality(D)
  <2> DEFINE from == CHOOSE f : IsWalk(f, chunk)
  <2>1. IsWalk(from, chunk)
    BY <1>1, WalkExists
  <2>2. Walk = from[first]
    BY <1>1 DEF Walk, IsWalk, WalkStep
  <2> HIDE DEF from
  <2>3. /\ {from[Start][i] : i \in DOMAIN from[Start]} = From(chunk, Start)
        /\ Len(from[Start]) = Cardinality(From(chunk, Start))
    BY <1>1, <1>4, <2>1, WalkVisits
  <2> QED BY <1>1, <1>2, <2>2, <2>3
<1>6. PICK t : IsSum(t, RoomOf(chunk), D) /\ TotalBytes = t[D]
  BY <1>4, TotalIsSum
<1>7. RoomOf(chunk) \in [D -> Int] /\ \A c \in D : RoomOf(chunk)[c] = HeaderSize + chunk[c].size
  BY <1>3 DEF RoomOf
<1>8. t[D] = End - Start
  <2> DEFINE g == RoomOf(chunk)
  <2>1. IsSum(t, g, D) /\ g \in [D -> Int] /\ \A c \in D : g[c] = HeaderSize + chunk[c].size
    BY <1>6, <1>7
  <2> HIDE DEF g
  <2>2. \A c \in D : t[From(chunk, c)] = End - c
    BY <1>1, <1>4, <2>1, FromFillsRam
  <2> QED BY <1>1, <1>2, <2>2
<1>9. TotalBytes = RamSize
  BY <1>6, <1>8
<1>10. UsedBytes + FreeBytes = SizesOver(UsedSet) + SizesOver(FreeSet)
  BY DEF UsedBytes, FreeBytes, SizesOver, UsedSet, FreeSet
<1>11. SizeOf(chunk) \in [D -> Nat] /\ \A c \in D : RoomOf(chunk)[c] = HeaderSize + SizeOf(chunk)[c]
  BY <1>3 DEF RoomOf, SizeOf
<1>12. UsedSet \in SUBSET D /\ FreeSet = D \ UsedSet /\ FreeSet \in SUBSET D
  BY DEF UsedSet, FreeSet
<1>13. PICK f : IsSum(f, SizeOf(chunk), D)
  BY <1>4, SumExists
<1>14. ASSUME NEW S \in SUBSET D PROVE SizesOver(S) = f[S]
  <2>1. IsFiniteSet(S)
    BY <1>4, FS_Subset
  <2>2. PICK e : IsSum(e, SizeOf(chunk), S) /\ SizesOver(S) = e[S]
    BY <2>1, SizesOverIsSum
  <2> HIDE DEF D
  <2>3. e[S] = f[S]
    BY <1>4, <1>13, <2>2, SumsAgree
  <2> QED BY <2>2, <2>3
<1>15. t[D] = f[UsedSet] + f[D \ UsedSet] + HeaderSize * Cardinality(D)
  <2> HIDE DEF D
  <2> QED BY <1>4, <1>6, <1>7, <1>11, <1>12, <1>13, SumsAddUp
<1>16. /\ UsedBytes + FreeBytes + HeaderSize * Cardinality(D) = RamSize
  <2> HIDE DEF D
  <2>1. UsedBytes + FreeBytes = f[UsedSet] + f[D \ UsedSet]
    BY <1>10, <1>12, <1>14
  <2> QED BY <1>6, <1>9, <1>15, <2>1
<1> QED BY <1>5, <1>9, <1>16

\* get_usage reaches every chunk once and accounts for every byte, for every RAM and
\* every sequence of calls.
THEOREM UsageIsExact == Spec => []UsageAddsUp
BY IInvAddsUp, InitIInv, StepIInv, PTL DEF Spec
=============================================================================
