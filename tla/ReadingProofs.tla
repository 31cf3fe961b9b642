--------------------------- MODULE ReadingProofs ---------------------------
(***************************************************************************)
(* Two parts of the reading run.  An extraction that is not disturbed puts *)
(* on the card what was chosen, whole, and nothing else, for every         *)
(* archive, every card and every nesting of extractions.  And a form whose *)
(* fields are of the kind that browser and server agree about sends what   *)
(* the user has filled in, for every page.                                 *)
(***************************************************************************)
EXTENDS Archive, Form, SequenceTheorems, TLAPS

Makes == INSTANCE FoldTheorems WITH Op <- MkdirOne

Cards == UNION {[D -> Node] : D \in SUBSET Path}

Steps == {"before", "writing", "after", "done"}
Frame == [entry : Nat, step : Steps, err : BOOLEAN, chosen : SUBSET Nat, old : Cards,
          disturbed : BOOLEAN]

Types ==
  /\ entries \in Seq(Item) /\ tree \in Cards /\ stack \in Seq(Frame) /\ index \in Nat
  /\ boxes \in Seq(BOOLEAN) /\ (boxes # <<>> => Len(boxes) = Len(entries))
  /\ shown \in BOOLEAN /\ full \in BOOLEAN

\* Only the innermost extraction may be undisturbed, and none when the page is gone.
OthersDisturbed ==
  \A n \in 1 .. Len(stack) : n < Len(stack) \/ ~shown => stack[n].disturbed

\* Each extraction is at an entry, and the file it writes is on the card.
Fits(t, es, f) ==
  /\ f.step # "done" => f.entry \in 1 .. Len(es)
  /\ f.step = "writing" => es[f.entry].path \in DOMAIN t

AllFit == \A n \in 1 .. Len(stack) : Fits(tree, entries, stack[n])

\* UnzippedAsChosen is made of these; here they are of any card t, entries es and flag fl,
\* so that two states can be compared.
Blocked(t, e) ==
  \/ \E q \in Ancestors(e.path) : IsFile(t, q)
  \/ IF e.dir THEN IsFile(t, e.path) ELSE IsDir(t, e.path)

Complete(t, i, e) ==
  /\ e.path \in DOMAIN t
  /\ IF e.dir THEN IsDir(t, e.path) ELSE t[e.path] = [Empty(i) EXCEPT !.blocks = e.blocks]

Replaced(es, i, chosen) == \E j \in chosen : j > i /\ es[j].path = es[i].path

\* The entry of number i needs nothing more.
Settled(t, es, fl, i, chosen) ==
  fl \/ Blocked(t, es[i]) \/ Replaced(es, i, chosen) \/ Complete(t, i, es[i])

\* m_index is the box of the entry whose turn it is.
InStep(es, idx, f) ==
  /\ f.step # "done" => f.entry \in 1 .. Len(es)
  /\ f.step \in {"before", "writing"} => idx + 1 = f.entry /\ ~f.err
  /\ f.step = "after" => idx = f.entry

ChosenSoFar(es, f) ==
  \A i \in f.chosen : i \in 1 .. Len(es) /\ i <= f.entry /\ (f.step = "before" => i < f.entry)

ChosenAreSettled(t, es, fl, f) ==
  \A i \in f.chosen : Settled(t, es, fl, i, f.chosen)
                        \/ (i = f.entry /\ (f.err \/ f.step = "writing"))

\* The file that is written is that of the entry.
FileIsOpen(t, es, f) ==
  f.step = "writing" =>
    /\ f.entry \in f.chosen /\ ~es[f.entry].dir
    /\ es[f.entry].path \in DOMAIN t
    /\ ~t[es[f.entry].path].dir /\ t[es[f.entry].path].of = f.entry

\* p is of the entry e: it is its path, or a directory on the way there.
IsOf(t, p, e) == p = e.path \/ (p \in Ancestors(e.path) /\ t[p].dir)

OnlyChosenChange(t, es, old, chosen) ==
  \A p \in DOMAIN t : (p \in DOMAIN old /\ t[p] = old[p]) \/ \E i \in chosen : IsOf(t, p, es[i])

Undisturbed(t, es, fl, idx, f) ==
  /\ InStep(es, idx, f) /\ ChosenSoFar(es, f) /\ ChosenAreSettled(t, es, fl, f)
  /\ FileIsOpen(t, es, f) /\ OnlyChosenChange(t, es, f.old, f.chosen)

\* The inductive invariant.
IInv == /\ Types /\ OthersDisturbed /\ AllFit
        /\ stack # <<>> /\ ~Top.disturbed => Undisturbed(tree, entries, full, index, Top)

----------------------------------------------------------------------------
(* Paths                                                                   *)

Prefix(p, n) == SubSeq(p, 1, n)

LEMMA PrefixOf ==
  ASSUME NEW p \in Path, NEW n \in 0 .. Len(p)
  PROVE  /\ Prefix(p, n) \in Path /\ Len(Prefix(p, n)) = n
         /\ \A i \in 1 .. n : Prefix(p, n)[i] = p[i]
         /\ n = Len(p) => Prefix(p, n) = p
         /\ n = 0 => Prefix(p, n) = <<>>
<1>1. \A i \in 1 .. n : p[i] \in STRING
  BY DEF Path
<1>2. /\ SubSeq(p, 1, n) \in Seq(STRING)
      /\ Len(SubSeq(p, 1, n)) = IF 1 <= n THEN n - 1 + 1 ELSE 0
      /\ \A i \in 1 .. n - 1 + 1 : SubSeq(p, 1, n)[i] = p[1 + i - 1]
  BY <1>1, SubSeqProperties
<1>3. \A i \in 1 .. n : Prefix(p, n)[i] = p[i]
  BY <1>2 DEF Prefix
<1>4. n = Len(p) => Prefix(p, n) = p
  BY SubSeqFull DEF Prefix, Path
<1>5. n = 0 => Prefix(p, n) = <<>>
  BY SubSeqEmpty DEF Prefix
<1> QED BY <1>2, <1>3, <1>4, <1>5 DEF Prefix, Path

LEMMA SamePath ==
  ASSUME NEW p \in Path, NEW q \in Path, Len(p) = Len(q), \A i \in 1 .. Len(p) : p[i] = q[i]
  PROVE  p = q
  BY SeqEqual DEF Path

LEMMA PrefixOfPrefix ==
  ASSUME NEW p \in Path, NEW n \in 0 .. Len(p), NEW m \in 0 .. n
  PROVE  Prefix(Prefix(p, n), m) = Prefix(p, m)
<1>1. PICK q \in Path : q = Prefix(p, n) /\ Len(q) = n /\ \A i \in 1 .. n : q[i] = p[i]
  BY PrefixOf
<1>2. m \in 0 .. Len(p) /\ m \in 0 .. Len(q)
  BY <1>1 DEF Path
<1>3. Prefix(p, m) \in Path /\ Len(Prefix(p, m)) = m /\ \A i \in 1 .. m : Prefix(p, m)[i] = p[i]
  BY <1>2, PrefixOf
<1>4. Prefix(q, m) \in Path /\ Len(Prefix(q, m)) = m /\ \A i \in 1 .. m : Prefix(q, m)[i] = q[i]
  BY <1>2, PrefixOf
<1>5. \A i \in 1 .. m : Prefix(q, m)[i] = Prefix(p, m)[i]
  BY <1>1, <1>3, <1>4
<1> QED BY <1>1, <1>3, <1>4, <1>5, SamePath

LEMMA FrontIsPrefix ==
  ASSUME NEW p \in Path, NEW n \in 1 .. Len(p)
  PROVE  Front(Prefix(p, n)) = Prefix(p, n - 1)
<1>1. Len(Prefix(p, n)) = n
  BY PrefixOf
<1>2. Front(Prefix(p, n)) = Prefix(Prefix(p, n), n - 1)
  BY <1>1 DEF Front, Prefix
<1>3. n - 1 \in 0 .. n /\ n \in 0 .. Len(p)
  OBVIOUS
<1> QED BY <1>2, <1>3, PrefixOfPrefix

----------------------------------------------------------------------------
(* The card                                                                *)

LEMMA CardIs ==
  ASSUME NEW t
  PROVE  t \in Cards <=> t \in [DOMAIN t -> Node] /\ DOMAIN t \subseteq Path
  BY DEF Cards

LEMMA PutIs ==
  ASSUME NEW t, NEW p, NEW node
  PROVE  /\ DOMAIN Put(t, p, node) = DOMAIN t \cup {p} /\ Put(t, p, node)[p] = node
         /\ \A q \in DOMAIN t : q # p => Put(t, p, node)[q] = t[q]
         /\ t \in Cards /\ p \in Path /\ node \in Node => Put(t, p, node) \in Cards
<1>1. /\ DOMAIN Put(t, p, node) = DOMAIN t \cup {p} /\ Put(t, p, node)[p] = node
      /\ \A q \in DOMAIN t : q # p => Put(t, p, node)[q] = t[q]
  BY DEF Put
<1>2. ASSUME t \in Cards, p \in Path, node \in Node PROVE Put(t, p, node) \in Cards
  <2> DEFINE u == Put(t, p, node)
  <2>1. \A q \in DOMAIN t : t[q] \in Node
    BY <1>2, CardIs
  <2>2. DOMAIN t \subseteq Path
    BY <1>2, CardIs
  <2>3. u = [q \in DOMAIN u |-> u[q]]
    BY DEF Put
  <2> HIDE DEF u
  <2>4. \A q \in DOMAIN u : u[q] \in Node
    BY <1>1, <1>2, <2>1 DEF u
  <2>5. DOMAIN u \subseteq Path
    BY <1>1, <1>2, <2>2 DEF u
  <2>6. u \in [DOMAIN u -> Node]
    BY <2>3, <2>4
  <2>7. u \in Cards
    BY <2>5, <2>6, CardIs
  <2> QED BY <2>7 DEF u
<1> QED BY <1>1, <1>2

LEMMA PutsCard ==
  ASSUME NEW t \in Cards, NEW p \in Path, NEW node \in Node, NEW u, u = Put(t, p, node)
  PROVE  /\ DOMAIN u = DOMAIN t \cup {p} /\ u[p] = node /\ u \in Cards
         /\ \A q \in DOMAIN t : q # p => u[q] = t[q]
<1>1. Put(t, p, node) \in Cards
  BY PutIs
<1>2. /\ DOMAIN Put(t, p, node) = DOMAIN t \cup {p} /\ Put(t, p, node)[p] = node
      /\ \A q \in DOMAIN t : q # p => Put(t, p, node)[q] = t[q]
  BY DEF Put
<1> QED BY <1>1, <1>2

LEMMA WholeFileIs ==
  ASSUME NEW i, NEW blocks
  PROVE  [Empty(i) EXCEPT !.blocks = blocks] = [dir |-> FALSE, of |-> i, blocks |-> blocks]
<1>1. PICK off : off = FALSE
  OBVIOUS
<1>2. PICK e : e = [dir |-> off, of |-> i, blocks |-> 0] /\ e = Empty(i)
  BY <1>1 DEF Empty
<1>3. [e EXCEPT !.blocks = blocks] = [dir |-> off, of |-> i, blocks |-> blocks]
  BY <1>2
<1> QED BY <1>1, <1>2, <1>3

\* u has what t has, and new directories only in the set `places'.
Adds(t, u, places) ==
  /\ u \in Cards /\ DOMAIN t \subseteq DOMAIN u
  /\ \A q \in DOMAIN t : u[q] = t[q]
  /\ \A q \in DOMAIN u : q \notin DOMAIN t => q \in places /\ u[q] = Dir

\* A directory is made, or there is one, or a file, or no room.
LEMMA MkdirOneIs ==
  ASSUME NEW t \in Cards, NEW p \in Path
  PROVE  /\ Adds(t, MkdirOne(t, p), {p})
         /\ ~Room(t) => MkdirOne(t, p) = t
         /\ Room(t) /\ IsDir(t, Front(p)) =>
              IsDir(MkdirOne(t, p), p) \/ IsFile(MkdirOne(t, p), p)
<1> DEFINE u == Put(t, p, Dir)
<1>1. Dir \in Node /\ Dir.dir = TRUE
  BY DEF Dir, Node
<1>2. Adds(t, t, {p})
  BY DEF Adds
<1>0. /\ DOMAIN u = DOMAIN t \cup {p} /\ u[p] = Dir /\ u \in Cards
      /\ \A q \in DOMAIN t : q # p => u[q] = t[q]
  BY <1>1, PutsCard
<1> HIDE DEF u
<1>3. p \notin DOMAIN t => Adds(t, u, {p})
  BY <1>0 DEF Adds
<1>4. IsDir(u, p)
  BY <1>0, <1>1 DEF IsDir
<1>5. p \in DOMAIN t => IsDir(t, p) \/ IsFile(t, p)
  BY DEF IsDir, IsFile
<1>6. MkdirOne(t, p) = IF p \notin DOMAIN t /\ IsDir(t, Front(p)) /\ Room(t) THEN u ELSE t
  BY DEF MkdirOne, u
<1> QED BY <1>2, <1>3, <1>4, <1>5, <1>6

LEMMA AddsKeep ==
  ASSUME NEW t, NEW u, NEW places, Adds(t, u, places), NEW p
  PROVE  /\ IsDir(t, p) => IsDir(u, p)
         /\ IsFile(t, p) => IsFile(u, p)
  BY DEF Adds, IsDir, IsFile

\* makedir: all directories are there at last, unless a file or a full card is in the way.
LEMMA MkdirIs ==
  ASSUME NEW t \in Cards, NEW p \in Path
  PROVE  /\ Adds(t, Mkdir(t, p), {Prefix(p, n) : n \in 1 .. Len(p)})
         /\ \/ IsDir(Mkdir(t, p), p) \/ ~Room(Mkdir(t, p))
            \/ \E n \in 1 .. Len(p) : IsFile(Mkdir(t, p), Prefix(p, n))
<1> DEFINE seq == [n \in 1 .. Len(p) |-> Prefix(p, n)]
           Reached(u, k) == \/ IsDir(u, Prefix(p, k)) \/ ~Room(u)
                            \/ \E n \in 1 .. k : IsFile(u, Prefix(p, n))
           Places(k) == {Prefix(p, n) : n \in 1 .. k}
           Good == [k \in 0 .. Len(p) |-> {u \in Cards : Adds(t, u, Places(k)) /\ Reached(u, k)}]
<1>1. Len(p) \in Nat
  BY DEF Path
<1>2. seq \in Seq(Path) /\ Len(seq) = Len(p) /\ \A k \in 1 .. Len(p) : seq[k] = Prefix(p, k)
  <2>1. \A n \in 1 .. Len(p) : Prefix(p, n) \in Path
    BY <1>1, PrefixOf
  <2> QED BY <1>1, <2>1
<1>3. Mkdir(t, p) = Makes!Folded(t, seq)
  BY DEF Mkdir, Prefix, FoldLeft, MapThenFoldSet, Max,
         Makes!Folded, Makes!FoldLeft, Makes!MapThenFoldSet, Makes!Max
<1>4. t \in Good[0]
  <2>1. 0 \in 0 .. Len(p) /\ Prefix(p, 0) = <<>>
    BY <1>1, PrefixOf
  <2>2. Adds(t, t, Places(0))
    BY DEF Adds
  <2>3. Reached(t, 0)
    BY <2>1 DEF IsDir
  <2> QED BY <2>1, <2>2, <2>3
<1>5. ASSUME NEW k \in 1 .. Len(p), NEW a \in Good[k - 1]
      PROVE  MkdirOne(a, seq[k]) \in Good[k]
  <2>1. k - 1 \in 0 .. Len(p) /\ k \in 0 .. Len(p) /\ k \in Nat /\ k - 1 \in Nat
    BY <1>1
  <2>2. a \in Cards /\ Adds(t, a, Places(k - 1)) /\ Reached(a, k - 1)
    BY <1>5, <2>1
  <2>3. PICK q \in Path : q = seq[k] /\ q = Prefix(p, k) /\ Front(q) = Prefix(p, k - 1)
    BY <1>2, <2>1, FrontIsPrefix, PrefixOf
  <2>4. PICK u : u = MkdirOne(a, q)
    OBVIOUS
  <2>5. Adds(a, u, {q})
    BY <2>2, <2>4, MkdirOneIs
  <2>6. \A x \in Places(k - 1) : x \in Places(k)
    BY <2>1
  <2>7. q \in Places(k)
    BY <2>1, <2>3
  <2>8. Adds(t, u, Places(k))
    <3> HIDE DEF Places
    <3> QED BY <2>2, <2>5, <2>6, <2>7 DEF Adds
  <2>9. Reached(u, k)
    <3>1. CASE ~Room(a)
      <4>1. u = a
        BY <2>2, <2>4, <3>1, MkdirOneIs
      <4> QED BY <3>1, <4>1
    <3>2. CASE Room(a) /\ IsDir(a, Prefix(p, k - 1))
      <4>1. IsDir(u, q) \/ IsFile(u, q)
        BY <2>2, <2>3, <2>4, <3>2, MkdirOneIs
      <4>2. k \in 1 .. k
        BY <2>1
      <4> QED BY <2>3, <4>1, <4>2
    <3>3. CASE \E n \in 1 .. k - 1 : IsFile(a, Prefix(p, n))
      <4>1. PICK n \in 1 .. k - 1 : IsFile(a, Prefix(p, n))
        BY <3>3
      <4>2. IsFile(u, Prefix(p, n))
        BY <2>5, <4>1, AddsKeep
      <4>3. n \in 1 .. k
        BY <2>1
      <4> QED BY <4>2, <4>3
    <3> QED BY <2>2, <3>1, <3>2, <3>3
  <2>10. u \in Cards
    BY <2>5 DEF Adds
  <2> QED BY <2>1, <2>3, <2>4, <2>8, <2>9, <2>10
<1> HIDE DEF Good, seq
<1>6. Makes!Folded(t, seq) \in Good[Len(p)]
  BY <1>2, <1>4, <1>5, Makes!FoldStaysGood
<1>7. Len(p) \in 0 .. Len(p) /\ Prefix(p, Len(p)) = p
  BY <1>1, PrefixOf
<1>8. PICK u \in Cards : u = Mkdir(t, p) /\ Adds(t, u, Places(Len(p))) /\ Reached(u, Len(p))
  BY <1>3, <1>6, <1>7 DEF Good
<1> QED BY <1>7, <1>8

----------------------------------------------------------------------------
(* An extraction goes on                                                   *)

\* What was there stays what it was, a directory or a file.
Keeps(t, u) == DOMAIN t \subseteq DOMAIN u /\ \A q \in DOMAIN t : u[q].dir = t[q].dir

LEMMA SettledStays ==
  ASSUME NEW t, NEW u, Keeps(t, u), NEW es, NEW fl, NEW gl, fl => gl,
         NEW i, NEW c, NEW d, c \subseteq d,
         (es[i].path \in DOMAIN t => u[es[i].path] = t[es[i].path]) \/ Replaced(es, i, d),
         Settled(t, es, fl, i, c)
  PROVE  Settled(u, es, gl, i, d)
<1>1. \A q : (IsDir(t, q) => IsDir(u, q)) /\ (IsFile(t, q) => IsFile(u, q))
  BY DEF Keeps, IsDir, IsFile
<1>2. Blocked(t, es[i]) => Blocked(u, es[i])
  BY <1>1 DEF Blocked
<1>3. Replaced(es, i, c) => Replaced(es, i, d)
  BY DEF Replaced
<1>4. Complete(t, i, es[i]) => Complete(u, i, es[i]) \/ Replaced(es, i, d)
  BY <1>1 DEF Complete, Keeps
<1> QED BY <1>2, <1>3, <1>4 DEF Settled

\* The step of one entry, from its turn to what it becomes.
LEMMA Advance ==
  ASSUME NEW es, NEW t, NEW fl, NEW idx, NEW f \in Frame, Undisturbed(t, es, fl, idx, f),
         f.step \in {"before", "writing"},
         NEW u, NEW gl, NEW jdx, NEW g \in Frame, fl => gl,
         g.entry = f.entry, g.old = f.old, g.step \in {"after", "writing"},
         InStep(es, jdx, g), FileIsOpen(u, es, g), Keeps(t, u),
         f.chosen \subseteq g.chosen, g.chosen \subseteq f.chosen \cup {f.entry},
         \A q \in DOMAIN t : u[q] = t[q] \/ (q = es[f.entry].path /\ f.entry \in g.chosen),
         \A q \in DOMAIN u : q \in DOMAIN t \/ (IsOf(u, q, es[f.entry]) /\ f.entry \in g.chosen),
         f.entry \in g.chosen =>
           Settled(u, es, gl, f.entry, g.chosen) \/ g.err \/ g.step = "writing"
  PROVE  Undisturbed(u, es, gl, jdx, g)
<1>0. f.entry \in 1 .. Len(es) /\ f.step # "done"
  BY DEF Undisturbed, InStep
<1>1. ChosenSoFar(es, g)
  <2> SUFFICES ASSUME NEW i \in g.chosen PROVE i \in 1 .. Len(es) /\ i <= f.entry
    BY DEF ChosenSoFar
  <2>1. CASE i \in f.chosen
    BY <2>1 DEF Undisturbed, ChosenSoFar
  <2>2. CASE i = f.entry
    <3>1. f.entry \in Nat
      BY DEF Frame
    <3> QED BY <1>0, <2>2, <3>1
  <2> QED BY <2>1, <2>2
<1>2. ChosenAreSettled(u, es, gl, g)
  <2> SUFFICES ASSUME NEW i \in g.chosen, i # f.entry
               PROVE  Settled(u, es, gl, i, g.chosen)
    BY DEF ChosenAreSettled
  <2>1. i \in f.chosen
    OBVIOUS
  <2>2. Settled(t, es, fl, i, f.chosen)
    BY <2>1 DEF Undisturbed, ChosenAreSettled
  <2>3. i \in Nat /\ f.entry \in Nat /\ i <= f.entry
    BY <2>1 DEF Undisturbed, ChosenSoFar, Frame
  <2>4. i < f.entry
    BY <2>3
  <2>5. es[i].path \in DOMAIN t =>
          u[es[i].path] = t[es[i].path] \/ Replaced(es, i, g.chosen)
    BY <2>3, <2>4 DEF Replaced
  <2> QED BY <2>2, <2>5, SettledStays
<1>3. OnlyChosenChange(u, es, g.old, g.chosen)
  <2> SUFFICES ASSUME NEW q \in DOMAIN u
               PROVE  \/ q \in DOMAIN f.old /\ u[q] = f.old[q]
                      \/ \E i \in g.chosen : IsOf(u, q, es[i])
    BY DEF OnlyChosenChange
  <2>1. CASE q \notin DOMAIN t
    BY <2>1
  <2>2. CASE q \in DOMAIN t /\ u[q] # t[q]
    BY <2>2 DEF IsOf
  <2>3. CASE q \in DOMAIN t /\ u[q] = t[q]
    <3>1. \/ q \in DOMAIN f.old /\ t[q] = f.old[q]
          \/ \E i \in f.chosen : IsOf(t, q, es[i])
      BY <2>3 DEF Undisturbed, OnlyChosenChange
    <3>2. \A i : IsOf(t, q, es[i]) => IsOf(u, q, es[i])
      BY <2>3 DEF IsOf
    <3> QED BY <2>3, <3>1, <3>2
  <2> QED BY <2>1, <2>2, <2>3
<1> QED BY <1>1, <1>2, <1>3 DEF Undisturbed

----------------------------------------------------------------------------
(* The stack                                                               *)

LEMMA TopIs ==
  ASSUME Types, stack # <<>>
  PROVE  /\ Len(stack) \in Nat \ {0} /\ Top = stack[Len(stack)] /\ Top \in Frame
         /\ AllFit => Fits(tree, entries, Top)
<1>1. Len(stack) \in Nat \ {0}
  BY DEF Types
<1>2. Top = stack[Len(stack)]
  BY DEF Top, Last
<1> QED BY <1>1, <1>2 DEF Types, AllFit

\* The innermost extraction becomes g.
LEMMA TopChanges ==
  ASSUME Types, OthersDisturbed, stack # <<>>, NEW g \in Frame, SetTop(g),
         g.disturbed = Top.disturbed, shown' = shown
  PROVE  /\ stack' \in Seq(Frame) /\ stack' # <<>> /\ Top' = g /\ OthersDisturbed'
         /\ Len(stack') = Len(stack)
         /\ \A k \in 1 .. Len(stack) : stack'[k] = stack[k] \/ stack'[k] = g
<1> DEFINE n == Len(stack)
           front == Front(stack)
<1>1. n \in Nat \ {0} /\ stack \in Seq(Frame) /\ Top = stack[n]
  BY TopIs DEF Types
<1>2. front = SubSeq(stack, 1, n - 1)
  BY DEF Front
<1>3. \A k \in 1 .. n - 1 : stack[k] \in Frame
  BY <1>1
<1>4. n - 1 \in Int /\ 1 \in Int
  BY <1>1
<1>5. /\ front \in Seq(Frame) /\ Len(front) = IF 1 <= n - 1 THEN (n - 1) - 1 + 1 ELSE 0
      /\ \A k \in 1 .. (n - 1) - 1 + 1 : front[k] = stack[1 + k - 1]
  <2> HIDE DEF n, front
  <2> QED BY <1>2, <1>3, <1>4, SubSeqProperties
<1>7. stack' = Append(front, g)
  BY DEF SetTop
<1> HIDE DEF n, front
<1>6. Len(front) = n - 1 /\ \A k \in 1 .. n - 1 : front[k] = stack[k]
  <2>1. (n - 1) - 1 + 1 = n - 1 /\ (~(1 <= n - 1) => n - 1 = 0)
    BY <1>1
  <2>2. Len(front) = n - 1
    BY <1>5, <2>1
  <2>3. ASSUME NEW k \in 1 .. n - 1 PROVE front[k] = stack[k]
    <3>1. 1 + k - 1 = k
      BY <2>3
    <3> QED BY <1>5, <2>1, <3>1
  <2> QED BY <2>2, <2>3
<1>8. /\ stack' \in Seq(Frame) /\ stack' # <<>> /\ Len(stack') = Len(front) + 1
      /\ \A k \in 1 .. Len(front) : stack'[k] = front[k]
      /\ stack'[Len(front) + 1] = g
  BY <1>5, <1>7, AppendProperties
<1>9. Len(stack') = n /\ stack'[n] = g /\ \A k \in 1 .. n - 1 : stack'[k] = stack[k]
  BY <1>1, <1>6, <1>8
<1>10. Top' = g
  BY <1>9 DEF Top, Last
<1>11. ASSUME NEW k \in 1 .. n, k < n \/ ~shown PROVE stack'[k].disturbed
  <2>1. stack[k].disturbed
    BY <1>1, <1>11 DEF OthersDisturbed, n
  <2>2. CASE k < n
    <3>1. k \in 1 .. n - 1
      BY <1>1, <2>2
    <3> QED BY <1>9, <2>1, <3>1
  <2>3. CASE k = n
    BY <1>1, <1>9, <2>1, <2>3
  <2> QED BY <1>1, <2>2, <2>3
<1>12. OthersDisturbed'
  BY <1>9, <1>11 DEF OthersDisturbed
<1>13. ASSUME NEW k \in 1 .. n PROVE stack'[k] = stack[k] \/ stack'[k] = g
  <2>1. k = n \/ k \in 1 .. n - 1
    BY <1>1
  <2> QED BY <1>9, <2>1
<1> QED BY <1>8, <1>9, <1>10, <1>12, <1>13 DEF n

\* What a step does to an extraction that nothing has disturbed.
Moves(g) ==
  /\ full => full'
  /\ g.entry = Top.entry /\ g.old = Top.old /\ g.step \in {"after", "writing"}
  /\ InStep(entries, index', g) /\ FileIsOpen(tree', entries, g) /\ Keeps(tree, tree')
  /\ Top.chosen \subseteq g.chosen /\ g.chosen \subseteq Top.chosen \cup {Top.entry}
  /\ \A q \in DOMAIN tree :
       tree'[q] = tree[q] \/ (q = entries[Top.entry].path /\ Top.entry \in g.chosen)
  /\ \A q \in DOMAIN tree' :
       q \in DOMAIN tree \/ (IsOf(tree', q, entries[Top.entry]) /\ Top.entry \in g.chosen)
  /\ Top.entry \in g.chosen =>
       Settled(tree', entries, full', Top.entry, g.chosen) \/ g.err \/ g.step = "writing"

LEMMA OneEntry ==
  ASSUME IInv, stack # <<>>, Top.step \in {"before", "writing"}, NEW g \in Frame, SetTop(g),
         entries' = entries, boxes' = boxes, shown' = shown,
         tree' \in Cards, full' \in BOOLEAN, index' \in Nat,
         DOMAIN tree \subseteq DOMAIN tree', Fits(tree', entries, g),
         g.disturbed = Top.disturbed, ~Top.disturbed => Moves(g)
  PROVE  IInv'
<1>1. /\ stack' \in Seq(Frame) /\ stack' # <<>> /\ Top' = g /\ OthersDisturbed'
      /\ Len(stack') = Len(stack)
      /\ \A k \in 1 .. Len(stack) : stack'[k] = stack[k] \/ stack'[k] = g
  BY TopChanges DEF IInv
<1>2. Types'
  BY <1>1 DEF IInv, Types
<1>4. AllFit'
  <2>1. \A k \in 1 .. Len(stack) : Fits(tree', entries, stack[k])
    BY DEF IInv, AllFit, Fits
  <2> QED BY <1>1, <2>1 DEF AllFit
<1>3. ASSUME ~g.disturbed PROVE Undisturbed(tree', entries', full', index', g)
  <2>1. Undisturbed(tree, entries, full, index, Top) /\ Top \in Frame /\ Moves(g)
    BY <1>3, TopIs DEF IInv
  <2>2. PICK f \in Frame : f = Top
    BY <2>1
  <2>3. PICK es : es = entries
    OBVIOUS
  <2>4. PICK u, gl, jdx : u = tree' /\ gl = full' /\ jdx = index'
    OBVIOUS
  <2>5. /\ Undisturbed(tree, es, full, index, f) /\ f.step \in {"before", "writing"}
        /\ full => gl
        /\ g.entry = f.entry /\ g.old = f.old /\ g.step \in {"after", "writing"}
        /\ InStep(es, jdx, g) /\ FileIsOpen(u, es, g) /\ Keeps(tree, u)
        /\ f.chosen \subseteq g.chosen /\ g.chosen \subseteq f.chosen \cup {f.entry}
        /\ \A q \in DOMAIN tree : u[q] = tree[q] \/ (q = es[f.entry].path /\ f.entry \in g.chosen)
        /\ \A q \in DOMAIN u : q \in DOMAIN tree \/ (IsOf(u, q, es[f.entry]) /\ f.entry \in g.chosen)
        /\ f.entry \in g.chosen =>
             Settled(u, es, gl, f.entry, g.chosen) \/ g.err \/ g.step = "writing"
    BY <2>1, <2>2, <2>3, <2>4 DEF Moves
  <2>6. Undisturbed(u, es, gl, jdx, g)
    BY <2>5, Advance
  <2> QED BY <2>3, <2>4, <2>6
<1> QED BY <1>1, <1>2, <1>3, <1>4 DEF IInv

LEMMA MarkedIs ==
  ASSUME NEW f \in Frame
  PROVE  /\ Marked(f) \in Frame /\ Marked(f).entry = f.entry /\ Marked(f).old = f.old
         /\ Marked(f).step = f.step /\ Marked(f).disturbed = f.disturbed /\ Marked(f).err = f.err
         /\ Marked(f).chosen = IF boxes # <<>> /\ shown => boxes[f.entry]
                               THEN f.chosen \cup {f.entry} ELSE f.chosen
<1>1. f.entry \in Nat /\ f.chosen \cup {f.entry} \in SUBSET Nat
  BY DEF Frame
<1>2. PICK c \in SUBSET Nat : c = f.chosen \cup {f.entry}
  BY <1>1
<1>3. [f EXCEPT !.chosen = f.chosen \cup {f.entry}] = [f EXCEPT !.chosen = c]
  BY <1>2
<1>4. /\ [f EXCEPT !.chosen = c] \in Frame /\ [f EXCEPT !.chosen = c].entry = f.entry
      /\ [f EXCEPT !.chosen = c].old = f.old /\ [f EXCEPT !.chosen = c].step = f.step
      /\ [f EXCEPT !.chosen = c].disturbed = f.disturbed /\ [f EXCEPT !.chosen = c].err = f.err
      /\ [f EXCEPT !.chosen = c].chosen = c
  BY DEF Frame
<1> QED BY <1>2, <1>3, <1>4 DEF Marked

\* An undisturbed extraction reads the box of its own entry.
LEMMA ItsTurn ==
  ASSUME IInv, stack # <<>>, ~Top.disturbed, Top.step = "before"
  PROVE  /\ index + 1 = Top.entry /\ Top.entry \in 1 .. Len(entries)
         /\ TRUE \in Selected(index) => Marked(Top).chosen = Top.chosen \cup {Top.entry}
         /\ FALSE \in Selected(index) => Marked(Top).chosen = Top.chosen
<1>1. Top \in Frame /\ Len(stack) \in 1 .. Len(stack) /\ Top = stack[Len(stack)]
  BY TopIs DEF IInv
<1>2. shown
  BY <1>1 DEF IInv, OthersDisturbed
<1>3. index + 1 = Top.entry /\ Top.entry \in 1 .. Len(entries) /\ index \in Nat
  BY DEF IInv, Undisturbed, InStep, Types
<1>4. Marked(Top).chosen = IF boxes # <<>> => boxes[Top.entry]
                           THEN Top.chosen \cup {Top.entry} ELSE Top.chosen
  BY <1>1, <1>2, MarkedIs
<1>5. CASE boxes = <<>>
  <2>1. Len(boxes) = 0
    BY <1>5
  <2>2. ~(index < Len(boxes))
    BY <1>3, <2>1
  <2>3. Selected(index) = {TRUE}
    BY <1>2, <2>2 DEF Selected
  <2> QED BY <1>3, <1>4, <1>5, <2>3
<1>6. CASE boxes # <<>>
  <2>1. Len(boxes) = Len(entries)
    BY <1>6 DEF IInv, Types
  <2>2. Selected(index) = {boxes[Top.entry]}
    <3>1. index < Len(boxes)
      BY <1>3, <2>1
    <3> QED BY <1>2, <1>3, <3>1 DEF Selected
  <2> QED BY <1>3, <1>4, <1>6, <2>2
<1> QED BY <1>5, <1>6

----------------------------------------------------------------------------
(* What is made on the card for an entry                                   *)

LEMMA ItemFields ==
  ASSUME NEW e \in Item
  PROVE  /\ e.path \in Path /\ e.path # <<>> /\ Len(e.path) \in Nat \ {0}
         /\ Front(e.path) = Prefix(e.path, Len(e.path) - 1)
         /\ Prefix(e.path, Len(e.path)) = e.path
<1>1. e.path \in Path /\ e.path # <<>>
  BY DEF Item
<1>2. Len(e.path) \in Nat \ {0}
  BY <1>1 DEF Path
<1> QED BY <1>1, <1>2, PrefixOf DEF Front, Prefix

LEMMA WithParentIs ==
  ASSUME NEW t \in Cards, NEW e \in Item, NEW w, w = WithParent(t, e.path)
  PROVE  /\ Adds(t, w, {Prefix(e.path, n) : n \in 1 .. Len(e.path) - 1})
         /\ ~CanOpen(w, e.path) => \/ IsDir(w, e.path) \/ Missed(w, Front(e.path))
                                   \/ \E n \in 1 .. Len(e.path) - 1 : IsFile(w, Prefix(e.path, n))
<1> DEFINE p == e.path
           m == Len(p) - 1
           q == Prefix(p, m)
<1>1. p \in Path /\ m \in Nat /\ Len(p) = m + 1 /\ Front(p) = q /\ m \in 0 .. Len(p)
  BY ItemFields
<1>2. q \in Path /\ Len(q) = m /\ (m = 0 => q = <<>>)
  BY <1>1, PrefixOf
<1>3. \A n \in 1 .. m : Prefix(q, n) = Prefix(p, n)
  BY <1>1, PrefixOfPrefix
<1>4. Adds(t, t, {Prefix(p, n) : n \in 1 .. m})
  BY DEF Adds
<1>5. CASE CanOpen(t, p)
  BY <1>4, <1>5 DEF WithParent
<1>6. CASE m = 0
  <2>1. w = t
    BY <1>1, <1>6 DEF WithParent
  <2>2. IsDir(w, Front(p))
    BY <1>1, <1>2, <1>6 DEF IsDir
  <2> QED BY <1>4, <2>1, <2>2 DEF CanOpen
<1>7. CASE ~CanOpen(t, p) /\ m # 0
  <2>1. w = Mkdir(t, q)
    BY <1>1, <1>7 DEF WithParent
  <2>2. Adds(t, w, {Prefix(q, n) : n \in 1 .. m})
    BY <1>2, <2>1, MkdirIs
  <2>3. {Prefix(q, n) : n \in 1 .. m} = {Prefix(p, n) : n \in 1 .. m}
    BY <1>3
  <2>4. IsDir(w, q) \/ ~Room(w) \/ \E n \in 1 .. m : IsFile(w, Prefix(q, n))
    BY <1>2, <2>1, MkdirIs
  <2>5. Missed(w, q) <=> ~Room(w) /\ ~IsDir(w, q) /\ ~\E n \in 1 .. m : IsFile(w, Prefix(q, n))
    BY <1>2 DEF Missed, Prefix
  <2>6. (\E n \in 1 .. m : IsFile(w, Prefix(q, n))) => \E n \in 1 .. m : IsFile(w, Prefix(p, n))
    BY <1>3
  <2>7. CanOpen(w, p) <=> IsDir(w, q) /\ ~IsDir(w, p)
    BY <1>1 DEF CanOpen
  <2> HIDE DEF p, q, m
  <2>8. ~CanOpen(w, p) => \/ IsDir(w, p) \/ Missed(w, q)
                          \/ \E n \in 1 .. m : IsFile(w, Prefix(p, n))
    BY <2>4, <2>5, <2>6, <2>7
  <2>9. Adds(t, w, {Prefix(p, n) : n \in 1 .. m})
    BY <2>2, <2>3
  <2> QED BY <1>1, <2>8, <2>9 DEF p, m
<1> QED BY <1>5, <1>6, <1>7

\* New directories are the entry's, and what was there is kept.
LEMMA AddsAreOf ==
  ASSUME NEW t, NEW u, NEW e \in Item, NEW k \in Nat, k <= Len(e.path),
         Adds(t, u, {Prefix(e.path, n) : n \in 1 .. k})
  PROVE  /\ Keeps(t, u)
         /\ \A q \in DOMAIN u : q \in DOMAIN t \/ IsOf(u, q, e)
<1>1. Keeps(t, u)
  BY DEF Adds, Keeps
<1>2. ASSUME NEW q \in DOMAIN u, q \notin DOMAIN t PROVE IsOf(u, q, e)
  <2>1. u[q] = Dir /\ q \in {Prefix(e.path, n) : n \in 1 .. k}
    BY <1>2 DEF Adds
  <2>2. PICK n \in 1 .. k : q = Prefix(e.path, n)
    BY <2>1
  <2>3. u[q].dir
    BY <2>1 DEF Dir
  <2>4. Len(e.path) \in Nat /\ Prefix(e.path, Len(e.path)) = e.path
    BY ItemFields
  <2>5. n = Len(e.path) \/ n \in 0 .. Len(e.path) - 1
    BY <2>4
  <2>6. n \in 0 .. Len(e.path) - 1 => q \in Ancestors(e.path)
    BY <2>2 DEF Ancestors, Prefix
  <2> QED BY <2>2, <2>3, <2>4, <2>5, <2>6 DEF IsOf
<1> QED BY <1>1, <1>2

----------------------------------------------------------------------------
(* The steps of an extraction                                              *)

\* Whatever is at its turn or is written is an entry of the archive.
LEMMA EntryIs ==
  ASSUME IInv, stack # <<>>, Top.step # "done"
  PROVE  /\ Top \in Frame /\ Top.entry \in 1 .. Len(entries) /\ Entry \in Item
         /\ entries[Top.entry] = Entry /\ Top.entry \in Nat
         /\ Top.step = "writing" => Entry.path \in DOMAIN tree
<1>1. Top \in Frame /\ Fits(tree, entries, Top)
  BY TopIs DEF IInv
<1>2. Top.entry \in 1 .. Len(entries)
  BY <1>1 DEF Fits
<1>3. entries[Top.entry] \in Item
  BY <1>2 DEF IInv, Types
<1> QED BY <1>1, <1>2, <1>3 DEF Fits, Entry

\* The entry is chosen, if nothing has disturbed the extraction.
LEMMA MarkedTop ==
  ASSUME IInv, At("before"), TRUE \in Selected(index)
  PROVE  /\ Marked(Top) \in Frame /\ Marked(Top).entry = Top.entry /\ Marked(Top).old = Top.old
         /\ Marked(Top).disturbed = Top.disturbed /\ Marked(Top).err = Top.err
         /\ ~Top.disturbed => /\ Marked(Top).chosen = Top.chosen \cup {Top.entry}
                              /\ index + 1 = Top.entry /\ ~Top.err
<1>1. Top \in Frame
  BY EntryIs DEF At
<1>2. ASSUME ~Top.disturbed
      PROVE  Marked(Top).chosen = Top.chosen \cup {Top.entry} /\ index + 1 = Top.entry /\ ~Top.err
  <2>1. Marked(Top).chosen = Top.chosen \cup {Top.entry} /\ index + 1 = Top.entry
    BY <1>2, ItsTurn DEF At
  <2>2. ~Top.err
    BY <1>2 DEF At, IInv, Undisturbed, InStep
  <2> QED BY <2>1, <2>2
<1> QED BY <1>1, <1>2, MarkedIs

\* The step from the turn of an entry, or from the writing of it, to its end.
LEMMA Ends ==
  ASSUME IInv, stack # <<>>, Top.step \in {"before", "writing"},
         NEW f \in Frame, f.entry = Top.entry, f.old = Top.old, f.disturbed = Top.disturbed,
         NEW err \in BOOLEAN, After(f, err),
         entries' = entries, boxes' = boxes, shown' = shown,
         tree' \in Cards, full' \in BOOLEAN, full => full',
         Keeps(tree, tree'),
         ~Top.disturbed =>
           /\ index + 1 = Top.entry
           /\ Top.chosen \subseteq f.chosen /\ f.chosen \subseteq Top.chosen \cup {Top.entry}
           /\ \A q \in DOMAIN tree :
                tree'[q] = tree[q] \/ (q = Entry.path /\ Top.entry \in f.chosen)
           /\ \A q \in DOMAIN tree' :
                q \in DOMAIN tree \/ (IsOf(tree', q, Entry) /\ Top.entry \in f.chosen)
           /\ Top.entry \in f.chosen =>
                Settled(tree', entries, full', Top.entry, f.chosen) \/ err
  PROVE  IInv'
<1>1. Top \in Frame /\ entries[Top.entry] = Entry /\ Top.entry \in 1 .. Len(entries)
  BY EntryIs
<1> DEFINE g == [f EXCEPT !.step = "after", !.err = err]
<1>2. /\ g \in Frame /\ g.entry = f.entry /\ g.old = f.old /\ g.chosen = f.chosen
      /\ g.disturbed = f.disturbed /\ g.step = "after" /\ g.err = err
  BY DEF Frame, Steps
<1>3. SetTop(g) /\ index' = index + 1
  BY DEF After
<1> HIDE DEF g
<1>4. index' \in Nat
  BY <1>3 DEF IInv, Types
<1>5. DOMAIN tree \subseteq DOMAIN tree'
  BY DEF Keeps
<1>6. Fits(tree', entries, g)
  BY <1>1, <1>2 DEF Fits
<1>7. ASSUME ~Top.disturbed PROVE Moves(g)
  <2>1. InStep(entries, index', g)
    BY <1>1, <1>2, <1>3, <1>7 DEF InStep
  <2>2. FileIsOpen(tree', entries, g)
    BY <1>2 DEF FileIsOpen
  <2> QED BY <1>1, <1>2, <1>7, <2>1, <2>2 DEF Moves
<1> QED BY <1>2, <1>3, <1>4, <1>5, <1>6, <1>7, OneEntry

LEMMA SkipKeeps == ASSUME IInv, Skip PROVE IInv'
<1>1. stack # <<>> /\ Top.step = "before"
  BY DEF Skip, At
<1>2. Top \in Frame
  BY <1>1, EntryIs
<1>3. PICK f \in Frame : /\ f = Marked(Top) /\ f.entry = Top.entry /\ f.old = Top.old
                         /\ f.disturbed = Top.disturbed
  BY <1>2, MarkedIs
<1>4. After(f, FALSE)
  BY <1>3 DEF Skip
<1>5. /\ entries' = entries /\ boxes' = boxes /\ shown' = shown /\ tree' = tree /\ full' = full
      /\ tree \in Cards /\ full \in BOOLEAN
  BY DEF Skip, IInv, Types
<1>6. Keeps(tree, tree')
  BY <1>5 DEF Keeps
<1>7. ASSUME ~Top.disturbed PROVE f.chosen = Top.chosen /\ index + 1 = Top.entry
  BY <1>1, <1>3, <1>7, ItsTurn DEF Skip
<1>8. ASSUME ~Top.disturbed PROVE Top.entry \notin Top.chosen
  <2>1. Undisturbed(tree, entries, full, index, Top)
    BY <1>1, <1>8 DEF IInv
  <2>2. Top.entry \in Nat
    BY <1>2 DEF Frame
  <2> QED BY <1>1, <2>1, <2>2 DEF Undisturbed, ChosenSoFar
<1> QED BY <1>1, <1>3, <1>4, <1>5, <1>6, <1>7, <1>8, Ends

LEMMA MakeDirectoryKeeps == ASSUME IInv, MakeDirectory PROVE IInv'
<1>1. stack # <<>> /\ Top.step = "before" /\ At("before") /\ Entry.dir
  BY DEF MakeDirectory, At
<1>2. Top \in Frame /\ Entry \in Item /\ entries[Top.entry] = Entry
  BY <1>1, EntryIs
<1>3. PICK f \in Frame : /\ f = Marked(Top) /\ f.entry = Top.entry /\ f.old = Top.old
                         /\ f.disturbed = Top.disturbed
                         /\ ~Top.disturbed => /\ f.chosen = Top.chosen \cup {Top.entry}
                                              /\ index + 1 = Top.entry
  BY <1>1, MarkedTop DEF MakeDirectory
<1>4. After(f, FALSE)
  BY <1>3 DEF MakeDirectory
<1>5. /\ entries' = entries /\ boxes' = boxes /\ shown' = shown /\ tree \in Cards
      /\ tree' = Mkdir(tree, Entry.path) /\ full' = (full \/ Missed(tree', Entry.path))
      /\ full \in BOOLEAN
  BY DEF MakeDirectory, IInv, Types
<1>6. PICK e \in Item : e = Entry
  BY <1>2
<1>7. /\ e.path \in Path /\ e.path # <<>> /\ Len(e.path) \in Nat /\ Len(e.path) \in 1 .. Len(e.path)
      /\ Prefix(e.path, Len(e.path)) = e.path
  BY ItemFields
<1>8. PICK u : u = tree'
  OBVIOUS
<1>9. /\ Adds(tree, u, {Prefix(e.path, n) : n \in 1 .. Len(e.path)})
      /\ \/ IsDir(u, e.path) \/ ~Room(u)
         \/ \E n \in 1 .. Len(e.path) : IsFile(u, Prefix(e.path, n))
  BY <1>5, <1>6, <1>7, <1>8, MkdirIs
<1>10. /\ Keeps(tree, u) /\ u \in Cards /\ \A q \in DOMAIN tree : u[q] = tree[q]
       /\ \A q \in DOMAIN u : q \in DOMAIN tree \/ IsOf(u, q, e)
  BY <1>7, <1>9, AddsAreOf DEF Adds
<1>11. Settled(u, entries, full', Top.entry, f.chosen)
  <2>1. CASE IsDir(u, e.path)
    <3>1. Complete(u, Top.entry, e)
      BY <1>1, <1>6, <1>7, <2>1 DEF Complete, IsDir
    <3> QED BY <1>2, <1>6, <3>1 DEF Settled
  <2>2. CASE \E n \in 1 .. Len(e.path) : IsFile(u, Prefix(e.path, n))
    <3>1. PICK n \in 1 .. Len(e.path) : IsFile(u, Prefix(e.path, n))
      BY <2>2
    <3>2. n = Len(e.path) \/ n \in 0 .. Len(e.path) - 1
      BY <1>7
    <3>3. Blocked(u, e)
      BY <1>1, <1>6, <1>7, <3>1, <3>2 DEF Blocked, Ancestors, Prefix
    <3> QED BY <1>2, <1>6, <3>3 DEF Settled
  <2>3. CASE ~IsDir(u, e.path) /\ ~\E n \in 1 .. Len(e.path) : IsFile(u, Prefix(e.path, n))
    <3>1. Missed(u, e.path)
      BY <1>9, <2>3 DEF Missed, Prefix
    <3>2. full' = TRUE
      BY <1>5, <1>6, <1>8, <3>1
    <3> QED BY <3>2 DEF Settled
  <2> QED BY <2>1, <2>2, <2>3
<1>12. full' \in BOOLEAN /\ (full => full')
  BY <1>5 DEF Missed
<1>13. ASSUME ~Top.disturbed
       PROVE  /\ Top.entry \in f.chosen
              /\ Top.chosen \subseteq f.chosen /\ f.chosen \subseteq Top.chosen \cup {Top.entry}
  BY <1>3, <1>13
<1> QED BY <1>1, <1>3, <1>4, <1>5, <1>6, <1>8, <1>10, <1>11, <1>12, <1>13, Ends

\* fopen makes the file of an entry, or empties the one that is there.
LEMMA OpenedIs ==
  ASSUME NEW t \in Cards, NEW w \in Cards, NEW e \in Item, NEW i \in Nat,
         Adds(t, w, {Prefix(e.path, n) : n \in 1 .. Len(e.path) - 1}), CanOpen(w, e.path),
         NEW u, u = Put(w, e.path, Empty(i))
  PROVE  /\ u \in Cards /\ Keeps(t, u) /\ e.path \in DOMAIN u
         /\ ~u[e.path].dir /\ u[e.path].of = i
         /\ \A q \in DOMAIN t : u[q] = t[q] \/ q = e.path
         /\ \A q \in DOMAIN u : q \in DOMAIN t \/ IsOf(u, q, e)
<1>1. e.path \in Path /\ e.path # <<>> /\ Len(e.path) - 1 \in Nat /\ Len(e.path) - 1 <= Len(e.path)
  BY ItemFields
<1>2. PICK p \in Path : p = e.path
  BY <1>1
<1>3. PICK node \in Node : node = Empty(i)
  BY DEF Empty, Node
<1>4. node.dir = FALSE /\ node.of = i
  BY <1>3 DEF Empty
<1>5. u = Put(w, p, node) /\ w \in Cards /\ p \in Path /\ node \in Node
  BY <1>2, <1>3
<1>6. /\ DOMAIN u = DOMAIN w \cup {p} /\ u[p] = node /\ u \in Cards
      /\ \A q \in DOMAIN w : q # p => u[q] = w[q]
  <2>1. Put(w, p, node) \in Cards
    BY <1>5, PutsCard
  <2>2. /\ DOMAIN u = DOMAIN w \cup {p} /\ u[p] = node
        /\ \A q \in DOMAIN w : q # p => u[q] = w[q]
    BY <1>5 DEF Put
  <2> QED BY <1>5, <2>1, <2>2
<1>7. \A q \in DOMAIN w : q \in DOMAIN t \/ IsOf(w, q, e)
  BY <1>1, AddsAreOf
<1>8. DOMAIN t \subseteq DOMAIN w /\ \A q \in DOMAIN t : w[q] = t[q]
  BY DEF Adds
<1>9. p \in DOMAIN w => w[p].dir = FALSE
  <2>1. p \in DOMAIN w => w[p] \in Node
    BY CardIs
  <2>2. p \in DOMAIN w => ~w[p].dir
    BY <1>1, <1>2 DEF CanOpen, IsDir
  <2> QED BY <2>1, <2>2 DEF Node
<1>10. Keeps(t, u)
  <2> SUFFICES ASSUME NEW q \in DOMAIN t PROVE q \in DOMAIN u /\ u[q].dir = t[q].dir
    BY DEF Keeps
  <2>1. q \in DOMAIN w /\ w[q] = t[q] /\ q \in DOMAIN u
    BY <1>6, <1>8
  <2>2. CASE q = p
    BY <1>4, <1>6, <1>9, <2>1, <2>2
  <2>3. CASE q # p
    BY <1>6, <2>1, <2>3
  <2> QED BY <2>1, <2>2, <2>3
<1>11. \A q \in DOMAIN t : u[q] = t[q] \/ q = e.path
  BY <1>2, <1>6, <1>8
<1>12. \A q \in DOMAIN u : q \in DOMAIN t \/ IsOf(u, q, e)
  BY <1>2, <1>6, <1>7 DEF IsOf
<1> QED BY <1>2, <1>4, <1>6, <1>10, <1>11, <1>12

LEMMA Opens ==
  ASSUME IInv, At("before"), TRUE \in Selected(index), ~Entry.dir,
         NEW f \in Frame, f = Marked(Top),
         NEW w \in Cards, Adds(tree, w, {Prefix(Entry.path, n) : n \in 1 .. Len(Entry.path) - 1}),
         CanOpen(w, Entry.path),
         tree' = Put(w, Entry.path, Empty(Top.entry)), SetTop([f EXCEPT !.step = "writing"]),
         entries' = entries, boxes' = boxes, shown' = shown, index' = index, full' = full
  PROVE  IInv'
<1>1. stack # <<>> /\ Top.step = "before" /\ index \in Nat /\ full \in BOOLEAN /\ tree \in Cards
  BY DEF At, IInv, Types
<1>2. /\ Top \in Frame /\ Entry \in Item /\ entries[Top.entry] = Entry
      /\ Top.entry \in Nat /\ Top.entry \in 1 .. Len(entries)
  BY <1>1, EntryIs
<1>3. /\ f.entry = Top.entry /\ f.old = Top.old /\ f.disturbed = Top.disturbed
      /\ ~Top.disturbed => /\ f.chosen = Top.chosen \cup {Top.entry}
                           /\ index + 1 = Top.entry /\ ~f.err
  BY MarkedTop
<1> DEFINE g == [f EXCEPT !.step = "writing"]
<1>4. /\ g \in Frame /\ g.entry = f.entry /\ g.old = f.old /\ g.chosen = f.chosen
      /\ g.disturbed = f.disturbed /\ g.step = "writing" /\ g.err = f.err
  BY DEF Frame, Steps
<1>5. SetTop(g)
  OBVIOUS
<1> HIDE DEF g
<1>6. PICK u : u = tree'
  OBVIOUS
<1>7. /\ u \in Cards /\ Keeps(tree, u) /\ Entry.path \in DOMAIN u
      /\ ~u[Entry.path].dir /\ u[Entry.path].of = Top.entry
      /\ \A q \in DOMAIN tree : u[q] = tree[q] \/ q = Entry.path
      /\ \A q \in DOMAIN u : q \in DOMAIN tree \/ IsOf(u, q, Entry)
  BY <1>1, <1>2, <1>6, OpenedIs
<1>8. Fits(u, entries, g)
  BY <1>2, <1>3, <1>4, <1>7 DEF Fits
<1>9. ASSUME ~Top.disturbed PROVE Moves(g)
  <2>1. g.chosen = Top.chosen \cup {Top.entry} /\ index' + 1 = g.entry /\ ~g.err
    BY <1>3, <1>4, <1>9
  <2>2. InStep(entries, index', g)
    BY <1>2, <1>3, <1>4, <2>1 DEF InStep
  <2>3. FileIsOpen(tree', entries, g)
    BY <1>2, <1>3, <1>4, <1>6, <1>7, <2>1 DEF FileIsOpen
  <2> QED BY <1>2, <1>3, <1>4, <1>6, <1>7, <2>1, <2>2, <2>3 DEF Moves
<1>10. DOMAIN tree \subseteq DOMAIN tree' /\ tree' \in Cards /\ Fits(tree', entries, g)
  BY <1>6, <1>7, <1>8 DEF Keeps
<1>11. g.disturbed = Top.disturbed
  BY <1>3, <1>4
<1> QED BY <1>1, <1>4, <1>5, <1>9, <1>10, <1>11, OneEntry

LEMMA OpenFileKeeps == ASSUME IInv, OpenFile PROVE IInv'
<1>1. /\ stack # <<>> /\ Top.step = "before" /\ At("before") /\ TRUE \in Selected(index)
      /\ ~Entry.dir
  BY DEF OpenFile, At
<1>2. /\ Top \in Frame /\ Entry \in Item /\ entries[Top.entry] = Entry
  BY <1>1, EntryIs
<1>3. PICK f \in Frame : /\ f = Marked(Top) /\ f.entry = Top.entry /\ f.old = Top.old
                         /\ f.disturbed = Top.disturbed
                         /\ ~Top.disturbed => /\ f.chosen = Top.chosen \cup {Top.entry}
                                              /\ index + 1 = Top.entry
  BY <1>1, MarkedTop
<1>4. /\ entries' = entries /\ boxes' = boxes /\ shown' = shown /\ tree \in Cards
      /\ full \in BOOLEAN
  BY DEF OpenFile, IInv, Types
<1>5. ASSUME ~Top.disturbed
      PROVE  /\ Top.entry \in f.chosen /\ index + 1 = Top.entry
             /\ Top.chosen \subseteq f.chosen /\ f.chosen \subseteq Top.chosen \cup {Top.entry}
  BY <1>3, <1>5
<1>6. CASE Entry.is = "locked"
  <2>1. After(f, TRUE) /\ tree' = tree /\ full' = full
    BY <1>3, <1>6 DEF OpenFile
  <2>2. Keeps(tree, tree')
    BY <2>1 DEF Keeps
  <2> QED BY <1>1, <1>3, <1>4, <1>5, <2>1, <2>2, Ends
<1>7. CASE Entry.is # "locked"
  <2>1. PICK w : /\ w = WithParent(tree, Entry.path)
                 /\ IF CanOpen(w, Entry.path)
                    THEN /\ tree' = Put(w, Entry.path, Empty(Top.entry))
                         /\ SetTop([f EXCEPT !.step = "writing"])
                         /\ UNCHANGED <<index, full>>
                    ELSE /\ tree' = w /\ full' = (full \/ Missed(w, Front(Entry.path)))
                         /\ After(f, FALSE)
    BY <1>3, <1>7 DEF OpenFile
  <2>2. /\ Adds(tree, w, {Prefix(Entry.path, n) : n \in 1 .. Len(Entry.path) - 1})
        /\ ~CanOpen(w, Entry.path) =>
             \/ IsDir(w, Entry.path) \/ Missed(w, Front(Entry.path))
             \/ \E n \in 1 .. Len(Entry.path) - 1 : IsFile(w, Prefix(Entry.path, n))
    BY <1>2, <1>4, <2>1, WithParentIs
  <2>3. w \in Cards
    BY <2>2 DEF Adds
  <2>4. CASE CanOpen(w, Entry.path)
    <3>1. /\ tree' = Put(w, Entry.path, Empty(Top.entry))
          /\ SetTop([f EXCEPT !.step = "writing"]) /\ index' = index /\ full' = full
      BY <2>1, <2>4
    <3> QED BY <1>1, <1>3, <1>4, <2>2, <2>3, <2>4, <3>1, Opens
  <2>5. CASE ~CanOpen(w, Entry.path)
    <3>1. /\ tree' = w /\ full' = (full \/ Missed(w, Front(Entry.path))) /\ After(f, FALSE)
      BY <2>1, <2>5
    <3>2. PICK e \in Item : e = Entry
      BY <1>2
    <3>3. Len(e.path) - 1 \in Nat /\ Len(e.path) - 1 <= Len(e.path)
      BY ItemFields
    <3>4. Adds(tree, w, {Prefix(e.path, n) : n \in 1 .. Len(e.path) - 1})
      BY <2>2, <3>2
    <3>5. /\ Keeps(tree, w) /\ (\A q \in DOMAIN w : q \in DOMAIN tree \/ IsOf(w, q, e))
          /\ \A q \in DOMAIN tree : w[q] = tree[q]
      BY <3>3, <3>4, AddsAreOf DEF Adds
    <3>6. Settled(w, entries, full', Top.entry, f.chosen)
      <4>1. CASE Missed(w, Front(Entry.path))
        BY <3>1, <4>1 DEF Settled
      <4>2. CASE IsDir(w, Entry.path)
        BY <1>1, <1>2, <4>2 DEF Settled, Blocked
      <4>3. CASE \E n \in 1 .. Len(Entry.path) - 1 : IsFile(w, Prefix(Entry.path, n))
        <5>1. PICK n \in 1 .. Len(e.path) - 1 : IsFile(w, Prefix(e.path, n))
          BY <3>2, <4>3
        <5>2. n \in 0 .. Len(e.path) - 1
          BY <3>3
        <5>3. Blocked(w, e)
          BY <5>1, <5>2 DEF Blocked, Ancestors, Prefix
        <5> QED BY <1>2, <3>2, <5>3 DEF Settled
      <4> QED BY <2>2, <2>5, <4>1, <4>2, <4>3
    <3>7. full' \in BOOLEAN /\ (full => full')
      BY <1>4, <3>1 DEF Missed
    <3> QED BY <1>1, <1>3, <1>4, <1>5, <2>3, <3>1, <3>2, <3>5, <3>6, <3>7, Ends
  <2> QED BY <2>4, <2>5
<1> QED BY <1>6, <1>7

LEMMA ReadFailsKeeps == ASSUME IInv, ReadFails PROVE IInv'
<1>1. stack # <<>> /\ Top.step = "writing" /\ After(Top, TRUE)
  BY DEF ReadFails, At
<1>2. Top \in Frame
  BY <1>1, EntryIs
<1>3. /\ entries' = entries /\ boxes' = boxes /\ shown' = shown /\ tree \in Cards
      /\ full \in BOOLEAN /\ tree' = tree /\ full' = full
  BY DEF ReadFails, IInv, Types
<1>4. Keeps(tree, tree')
  BY <1>3 DEF Keeps
<1>5. ASSUME ~Top.disturbed PROVE index + 1 = Top.entry
  BY <1>1, <1>5 DEF IInv, Undisturbed, InStep
<1> QED BY <1>1, <1>2, <1>3, <1>4, <1>5, Ends

LEMMA CloseFileKeeps == ASSUME IInv, CloseFile PROVE IInv'
<1>1. /\ stack # <<>> /\ Top.step = "writing" /\ After(Top, Entry.is = "crc")
      /\ tree[Entry.path].blocks = Entry.blocks
  BY DEF CloseFile, At
<1>2. Top \in Frame /\ Entry \in Item /\ entries[Top.entry] = Entry /\ Entry.path \in DOMAIN tree
  BY <1>1, EntryIs
<1>3. /\ entries' = entries /\ boxes' = boxes /\ shown' = shown /\ tree \in Cards
      /\ full \in BOOLEAN /\ tree' = tree /\ full' = full
  BY DEF CloseFile, IInv, Types
<1>4. Keeps(tree, tree')
  BY <1>3 DEF Keeps
<1>5. ASSUME ~Top.disturbed
      PROVE  /\ index + 1 = Top.entry
             /\ Settled(tree, entries, full, Top.entry, Top.chosen)
  <2>1. index + 1 = Top.entry /\ ~Entry.dir /\ ~tree[Entry.path].dir /\ tree[Entry.path].of = Top.entry
    BY <1>1, <1>2, <1>5 DEF IInv, Undisturbed, InStep, FileIsOpen
  <2>2. tree[Entry.path] \in Node
    BY <1>2, <1>3, CardIs
  <2>3. PICK node \in Node : node = tree[Entry.path]
    BY <2>2
  <2>4. node.dir = FALSE /\ node.of = Top.entry /\ node.blocks = Entry.blocks
    BY <1>1, <2>1, <2>3 DEF Node
  <2>5. node = [dir |-> FALSE, of |-> Top.entry, blocks |-> Entry.blocks]
    BY <2>4 DEF Node
  <2>6. node = [Empty(Top.entry) EXCEPT !.blocks = Entry.blocks]
    BY <2>5, WholeFileIs
  <2>7. Complete(tree, Top.entry, Entry)
    BY <1>2, <2>1, <2>3, <2>6 DEF Complete
  <2> QED BY <1>2, <2>1, <2>7 DEF Settled
<1>6. PICK err \in BOOLEAN : err = (Entry.is = "crc")
  OBVIOUS
<1>7. After(Top, err)
  BY <1>1, <1>6
<1> QED BY <1>1, <1>2, <1>3, <1>4, <1>5, <1>7, Ends

LEMMA WriteBlockKeeps == ASSUME IInv, WriteBlock PROVE IInv'
<1>1. stack # <<>> /\ Top.step = "writing"
  BY DEF WriteBlock, At
<1>2. /\ Top \in Frame /\ Entry \in Item /\ entries[Top.entry] = Entry /\ Entry.path \in DOMAIN tree
      /\ Top.entry \in 1 .. Len(entries)
  BY <1>1, EntryIs
<1>3. /\ entries' = entries /\ boxes' = boxes /\ shown' = shown /\ tree \in Cards
      /\ full \in BOOLEAN /\ index \in Nat
  BY DEF WriteBlock, IInv, Types
<1>4. ASSUME ~Top.disturbed
      PROVE  /\ Undisturbed(tree, entries, full, index, Top)
             /\ index + 1 = Top.entry /\ ~Entry.dir /\ ~tree[Entry.path].dir
             /\ tree[Entry.path].of = Top.entry /\ Top.entry \in Top.chosen
  BY <1>1, <1>2, <1>4 DEF IInv, Undisturbed, InStep, FileIsOpen
<1>5. CASE ~Room(tree)
  <2>1. full' = TRUE /\ After(Top, TRUE) /\ tree' = tree
    BY <1>5 DEF WriteBlock
  <2>2. Keeps(tree, tree')
    BY <2>1 DEF Keeps
  <2> QED BY <1>1, <1>2, <1>3, <1>4, <2>1, <2>2, Ends
<1>6. CASE Room(tree)
  <2>1. PICK node : node = tree[Entry.path]
    OBVIOUS
  <2>2. node \in Node
    BY <1>2, <1>3, <2>1, CardIs
  <2>3. PICK more \in Nat : more = node.blocks + 1
    BY <2>2 DEF Node
  <2>4. PICK next : next = [node EXCEPT !.blocks = more]
    OBVIOUS
  <2>0. next \in Node
    BY <2>2, <2>4 DEF Node
  <2>5. next.dir = node.dir /\ next.of = node.of
    BY <2>2, <2>4 DEF Node
  <2>6. PICK u : u = tree'
    OBVIOUS
  <2>7. /\ u = Put(tree, Entry.path, next)
        /\ stack' = stack /\ index' = index /\ full' = full
    <3>1. /\ tree' = Put(tree, Entry.path, [tree[Entry.path] EXCEPT !.blocks = @ + 1])
          /\ stack' = stack /\ index' = index /\ full' = full
      BY <1>6 DEF WriteBlock
    <3>2. [tree[Entry.path] EXCEPT !.blocks = @ + 1] = next
      BY <2>1, <2>3, <2>4
    <3> QED BY <2>6, <3>1, <3>2
  <2>8. PICK p \in Path : p = Entry.path
    BY <1>2, ItemFields
  <2>9. u = Put(tree, p, next)
    BY <2>7, <2>8
  <2>10. /\ DOMAIN u = DOMAIN tree /\ u[p] = next /\ u \in Cards
         /\ \A q \in DOMAIN tree : q # p => u[q] = tree[q]
    <3>1. tree \in Cards /\ p \in DOMAIN tree
      BY <1>2, <1>3, <2>8
    <3>2. /\ DOMAIN u = DOMAIN tree \cup {p} /\ u[p] = next /\ u \in Cards
          /\ \A q \in DOMAIN tree : q # p => u[q] = tree[q]
      BY <2>0, <2>9, <3>1, PutsCard
    <3> QED BY <3>1, <3>2
  <2>11. Keeps(tree, u)
    <3> SUFFICES ASSUME NEW q \in DOMAIN tree PROVE u[q].dir = tree[q].dir
      BY <2>10 DEF Keeps
    <3>1. CASE q = p
      BY <2>1, <2>5, <2>8, <2>10, <3>1
    <3>2. CASE q # p
      BY <2>10, <3>2
    <3> QED BY <3>1, <3>2
  <2>12. SetTop(Top)
    <3>1. stack \in Seq(Frame) /\ Len(stack) \in Nat \ {0} /\ Top = stack[Len(stack)]
      BY <1>1, TopIs DEF IInv, Types
    <3>2. stack = Append(Front(stack), Top)
      BY <1>1, <3>1 DEF Front
    <3> QED BY <2>7, <3>2 DEF SetTop
  <2>13. Fits(u, entries, Top)
    BY <1>2, <2>10 DEF Fits
  <2>14. ASSUME ~Top.disturbed PROVE Moves(Top)
    <3>1. InStep(entries, index', Top)
      BY <1>4, <2>7, <2>14 DEF Undisturbed
    <3>2. FileIsOpen(u, entries, Top)
      BY <1>2, <1>4, <2>1, <2>5, <2>8, <2>10, <2>14 DEF FileIsOpen
    <3>3. /\ \A q \in DOMAIN tree : u[q] = tree[q] \/ (q = Entry.path /\ Top.entry \in Top.chosen)
      BY <1>4, <2>8, <2>10, <2>14
    <3> QED BY <1>1, <1>2, <2>6, <2>7, <2>10, <2>11, <3>1, <3>2, <3>3 DEF Moves
  <2> QED BY <1>1, <1>2, <1>3, <2>6, <2>7, <2>10, <2>12, <2>13, <2>14, OneEntry
<1> QED BY <1>5, <1>6

----------------------------------------------------------------------------
(* The next entry, and the end                                             *)

\* An extraction that has done with an entry has the same settled entries at the next.
LEMMA Turns ==
  ASSUME NEW es, Len(es) \in Nat, NEW t, NEW fl, NEW idx, NEW f \in Frame,
         Undisturbed(t, es, fl, idx, f), f.step = "after",
         NEW g \in Frame, g.old = f.old, g.chosen = f.chosen, g.err = f.err,
         \/ g.step = "done" /\ g.entry = f.entry
         \/ g.step = "before" /\ g.entry = f.entry + 1 /\ ~f.err /\ f.entry # Len(es)
  PROVE  Undisturbed(t, es, fl, idx, g) /\ Fits(t, es, g)
<1>1. /\ idx = f.entry /\ f.entry \in 1 .. Len(es) /\ f.entry \in Nat
      /\ \A i \in f.chosen : i \in 1 .. Len(es) /\ i <= f.entry /\ i \in Nat
      /\ \A i \in f.chosen : Settled(t, es, fl, i, f.chosen) \/ (i = f.entry /\ f.err)
      /\ OnlyChosenChange(t, es, f.old, f.chosen)
  BY DEF Undisturbed, InStep, ChosenSoFar, ChosenAreSettled, Frame
<1>2. CASE g.step = "done" /\ g.entry = f.entry
  <2>1. InStep(es, idx, g) /\ FileIsOpen(t, es, g) /\ Fits(t, es, g)
    BY <1>2 DEF InStep, FileIsOpen, Fits
  <2>2. ChosenSoFar(es, g)
    BY <1>1, <1>2 DEF ChosenSoFar
  <2>3. ChosenAreSettled(t, es, fl, g)
    BY <1>1, <1>2 DEF ChosenAreSettled
  <2> QED BY <1>1, <2>1, <2>2, <2>3 DEF Undisturbed
<1>3. CASE g.step = "before" /\ g.entry = f.entry + 1 /\ ~f.err /\ f.entry # Len(es)
  <2>1. f.entry + 1 \in 1 .. Len(es)
    BY <1>1, <1>3
  <2>2. InStep(es, idx, g) /\ FileIsOpen(t, es, g) /\ Fits(t, es, g)
    BY <1>1, <1>3, <2>1 DEF InStep, FileIsOpen, Fits
  <2>3. ChosenSoFar(es, g)
    BY <1>1, <1>3 DEF ChosenSoFar
  <2>4. ChosenAreSettled(t, es, fl, g)
    BY <1>1, <1>3 DEF ChosenAreSettled
  <2> QED BY <1>1, <2>2, <2>3, <2>4 DEF Undisturbed
<1> QED BY <1>2, <1>3

LEMMA NextEntryKeeps == ASSUME IInv, NextEntry PROVE IInv'
<1>1. stack # <<>> /\ Top.step = "after"
  BY DEF NextEntry, At
<1>2. /\ entries' = entries /\ boxes' = boxes /\ shown' = shown /\ tree' = tree /\ full' = full
      /\ index' = index
  BY DEF NextEntry
<1>3. Top \in Frame /\ Top.entry \in 1 .. Len(entries) /\ Top.entry \in Nat
  BY <1>1, EntryIs
<1>4. Len(entries) \in Nat
  BY DEF IInv, Types
<1>5. PICK g \in Frame : /\ SetTop(g) /\ g.old = Top.old /\ g.chosen = Top.chosen
                         /\ g.err = Top.err /\ g.disturbed = Top.disturbed
                         /\ \/ g.step = "done" /\ g.entry = Top.entry
                            \/ /\ g.step = "before" /\ g.entry = Top.entry + 1
                               /\ ~Top.err /\ Top.entry # Len(entries)
  <2>1. CASE Top.err \/ Top.entry = Len(entries)
    <3> DEFINE g == [Top EXCEPT !.step = "done"]
    <3>1. SetTop(g)
      BY <2>1 DEF NextEntry
    <3>2. PICK f \in Frame : f = Top
      BY <1>3
    <3>3. g = [f EXCEPT !.step = "done"]
      BY <3>2
    <3> HIDE DEF g
    <3>4. /\ g \in Frame /\ g.entry = f.entry /\ g.old = f.old /\ g.chosen = f.chosen
          /\ g.disturbed = f.disturbed /\ g.step = "done" /\ g.err = f.err
      BY <3>3 DEF Frame, Steps
    <3> QED BY <3>1, <3>2, <3>4
  <2>2. CASE ~(Top.err \/ Top.entry = Len(entries))
    <3>1. SetTop([Top EXCEPT !.step = "before", !.entry = @ + 1])
      BY <2>2 DEF NextEntry
    <3>2. PICK f \in Frame : f = Top
      BY <1>3
    <3>3. PICK m \in Nat : m = f.entry + 1
      BY <1>3, <3>2
    <3>4. PICK h \in Frame : /\ h = [f EXCEPT !.step = "before"] /\ h.entry = f.entry
                             /\ h.old = f.old /\ h.chosen = f.chosen /\ h.step = "before"
                             /\ h.disturbed = f.disturbed /\ h.err = f.err
      <4> DEFINE h == [f EXCEPT !.step = "before"]
      <4>1. /\ h \in Frame /\ h.entry = f.entry /\ h.old = f.old /\ h.chosen = f.chosen
            /\ h.disturbed = f.disturbed /\ h.step = "before" /\ h.err = f.err
        BY DEF Frame, Steps
      <4>2. h = [f EXCEPT !.step = "before"]
        OBVIOUS
      <4> HIDE DEF h
      <4> QED BY <4>1, <4>2
    <3>5. PICK g : g = [h EXCEPT !.entry = m]
      OBVIOUS
    <3>6. /\ g \in Frame /\ g.entry = m /\ g.old = h.old /\ g.chosen = h.chosen
          /\ g.disturbed = h.disturbed /\ g.step = h.step /\ g.err = h.err
      BY <3>5 DEF Frame
    <3>7. g = [f EXCEPT !.step = "before", !.entry = m]
      BY <3>4, <3>5 DEF Frame
    <3>8. SetTop(g)
      BY <3>1, <3>2, <3>3, <3>7
    <3> QED BY <2>2, <3>2, <3>3, <3>4, <3>6, <3>8
  <2> QED BY <2>1, <2>2
<1>6. /\ stack' \in Seq(Frame) /\ stack' # <<>> /\ Top' = g /\ OthersDisturbed'
      /\ Len(stack') = Len(stack)
      /\ \A k \in 1 .. Len(stack) : stack'[k] = stack[k] \/ stack'[k] = g
  BY <1>1, <1>2, <1>5, TopChanges DEF IInv
<1>7. Types'
  BY <1>2, <1>6 DEF IInv, Types
<1>8. Fits(tree, entries, g)
  BY <1>3, <1>4, <1>5 DEF Fits
<1>9. AllFit'
  <2>1. \A k \in 1 .. Len(stack) : Fits(tree, entries, stack[k])
    BY DEF IInv, AllFit
  <2> QED BY <1>2, <1>6, <1>8, <2>1 DEF AllFit
<1>10. ASSUME ~g.disturbed PROVE Undisturbed(tree, entries, full, index, g)
  <2>1. Undisturbed(tree, entries, full, index, Top)
    BY <1>1, <1>5, <1>10 DEF IInv
  <2>2. PICK f \in Frame : f = Top
    BY <1>3
  <2> QED BY <1>1, <1>4, <1>5, <2>1, <2>2, Turns
<1> QED BY <1>2, <1>6, <1>7, <1>9, <1>10 DEF IInv

\* Nothing is claimed of what runs when all extractions are disturbed.
LEMMA AllDisturbed ==
  ASSUME Types', AllFit', \A k \in 1 .. Len(stack') : stack'[k].disturbed
  PROVE  IInv'
<1>1. OthersDisturbed'
  BY DEF OthersDisturbed
<1>2. ASSUME stack' # <<>> PROVE Top'.disturbed
  <2>1. Len(stack') \in Nat \ {0}
    BY <1>2 DEF Types
  <2>2. Top' = stack'[Len(stack')]
    BY DEF Top, Last
  <2> QED BY <2>1, <2>2
<1> QED BY <1>1, <1>2 DEF IInv

LEMMA ReturnKeeps == ASSUME IInv, Return PROVE IInv'
<1>1. stack # <<>> /\ stack' = Front(stack)
  BY DEF Return, At
<1>2. /\ entries' = entries /\ boxes' = boxes /\ shown' = shown /\ tree' = tree /\ full' = full
      /\ index' = index
  BY DEF Return
<1>3. PICK n \in Nat \ {0} : n = Len(stack)
  BY <1>1, TopIs DEF IInv
<1>4. stack \in Seq(Frame)
  BY DEF IInv, Types
<1>5. stack' = SubSeq(stack, 1, n - 1) /\ n - 1 \in Int /\ 1 \in Int
  BY <1>1, <1>3 DEF Front
<1>6. \A k \in 1 .. n - 1 : stack[k] \in Frame
  BY <1>3, <1>4
<1>7. /\ stack' \in Seq(Frame) /\ Len(stack') = IF 1 <= n - 1 THEN (n - 1) - 1 + 1 ELSE 0
      /\ \A k \in 1 .. (n - 1) - 1 + 1 : stack'[k] = stack[1 + k - 1]
  BY <1>5, <1>6, SubSeqProperties
<1>8. Len(stack') = n - 1
  <2>1. (n - 1) - 1 + 1 = n - 1 /\ (~(1 <= n - 1) => n - 1 = 0)
    BY <1>3
  <2> QED BY <1>7, <2>1
<1>9. ASSUME NEW k \in 1 .. Len(stack')
      PROVE  stack'[k] = stack[k] /\ k \in 1 .. Len(stack) /\ k < Len(stack)
  <2>1. k \in 1 .. (n - 1) - 1 + 1 /\ 1 + k - 1 = k /\ k \in 1 .. n /\ k < n
    BY <1>8, <1>9
  <2> QED BY <1>3, <1>7, <2>1
<1>10. Types'
  BY <1>2, <1>7 DEF IInv, Types
<1>11. AllFit'
  BY <1>2, <1>9 DEF IInv, AllFit
<1>12. \A k \in 1 .. Len(stack') : stack'[k].disturbed
  BY <1>9 DEF IInv, OthersDisturbed
<1> QED BY <1>10, <1>11, <1>12, AllDisturbed

----------------------------------------------------------------------------
(* The user                                                                *)

LEMMA DisturbedIs ==
  ASSUME NEW s \in Seq(Frame)
  PROVE  /\ Disturbed(s) \in Seq(Frame) /\ Len(Disturbed(s)) = Len(s)
         /\ \A k \in 1 .. Len(s) :
              /\ Disturbed(s)[k].disturbed /\ Disturbed(s)[k].step = s[k].step
              /\ Disturbed(s)[k].entry = s[k].entry
<1> DEFINE d == Disturbed(s)
<1>1. Len(s) \in Nat /\ DOMAIN s = 1 .. Len(s)
  OBVIOUS
<1>2. ASSUME NEW f \in Frame
      PROVE  /\ [f EXCEPT !.disturbed = TRUE] \in Frame
             /\ [f EXCEPT !.disturbed = TRUE].disturbed
             /\ [f EXCEPT !.disturbed = TRUE].step = f.step
             /\ [f EXCEPT !.disturbed = TRUE].entry = f.entry
  BY DEF Frame
<1>3. \A k \in 1 .. Len(s) : s[k] \in Frame
  OBVIOUS
<1>4. d = [k \in 1 .. Len(s) |-> [s[k] EXCEPT !.disturbed = TRUE]]
  BY <1>1 DEF Disturbed
<1> HIDE DEF d
<1>5. ASSUME NEW k \in 1 .. Len(s)
      PROVE  d[k] \in Frame /\ d[k].disturbed /\ d[k].step = s[k].step /\ d[k].entry = s[k].entry
  <2>1. PICK f \in Frame : f = s[k]
    BY <1>3
  <2>2. d[k] = [f EXCEPT !.disturbed = TRUE]
    BY <1>4, <2>1
  <2> QED BY <1>2, <2>1, <2>2
<1>6. DOMAIN d = 1 .. Len(s) /\ d = [k \in 1 .. Len(s) |-> d[k]]
  BY <1>4
<1>7. d \in [1 .. Len(s) -> Frame]
  BY <1>5, <1>6
<1>8. d \in Seq(Frame)
  BY <1>1, <1>7
<1>9. Len(d) = Len(s)
  BY <1>1, <1>6, <1>8
<1> QED BY <1>5, <1>8, <1>9 DEF d

LEMMA AllOnIs ==
  ASSUME NEW b \in Seq(BOOLEAN)
  PROVE  AllOn(b) \in Seq(BOOLEAN) /\ Len(AllOn(b)) = Len(b) /\ (AllOn(b) # <<>> => b # <<>>)
<1>1. Len(b) \in Nat /\ DOMAIN b = 1 .. Len(b)
  OBVIOUS
<1>2. AllOn(b) = [n \in 1 .. Len(b) |-> TRUE]
  BY <1>1 DEF AllOn
<1>3. AllOn(b) \in Seq(BOOLEAN) /\ Len(AllOn(b)) = Len(b)
  BY <1>1, <1>2
<1>4. b = <<>> => Len(AllOn(b)) = 0
  BY <1>3
<1> QED BY <1>3, <1>4

\* A new extraction is undisturbed, and it disturbs those around it.
LEMMA PressKeeps == ASSUME IInv, Press PROVE IInv'
<1> DEFINE g == [entry |-> 1, step |-> IF entries = <<>> THEN "done" ELSE "before", err |-> FALSE,
                 chosen |-> {}, old |-> tree, disturbed |-> FALSE]
           d == Disturbed(stack)
<1>1. /\ shown /\ index' = 0 /\ stack' = Append(d, g) /\ full' = FALSE
      /\ entries' = entries /\ boxes' = boxes /\ shown' = shown /\ tree' = tree
  BY DEF Press
<1>2. /\ entries \in Seq(Item) /\ tree \in Cards /\ stack \in Seq(Frame)
      /\ \A k \in 1 .. Len(stack) : Fits(tree, entries, stack[k])
  BY DEF IInv, Types, AllFit
<1>3. /\ g \in Frame /\ g.entry = 1 /\ ~g.err /\ g.chosen = {} /\ g.old = tree
      /\ g.step \in {"done", "before"} /\ (g.step = "before" => entries # <<>>)
  BY <1>2 DEF Frame, Steps
<1>4. /\ d \in Seq(Frame) /\ Len(d) = Len(stack)
      /\ \A k \in 1 .. Len(stack) :
           d[k].disturbed /\ d[k].step = stack[k].step /\ d[k].entry = stack[k].entry
  BY <1>2, DisturbedIs
<1> HIDE DEF g, d
<1>5. PICK n \in Nat : n = Len(stack)
  BY <1>2
<1>6. /\ stack' \in Seq(Frame) /\ stack' # <<>> /\ Len(stack') = n + 1
      /\ \A k \in 1 .. n : stack'[k] = d[k]
      /\ stack'[n + 1] = g
  BY <1>1, <1>3, <1>4, <1>5, AppendProperties
<1>7. Types'
  BY <1>1, <1>2, <1>6 DEF IInv, Types
<1>8. OthersDisturbed'
  <2> SUFFICES ASSUME NEW k \in 1 .. n + 1, k < n + 1 PROVE stack'[k].disturbed
    BY <1>1, <1>6 DEF OthersDisturbed
  <2>1. k \in 1 .. n
    OBVIOUS
  <2> QED BY <1>4, <1>5, <1>6, <2>1
<1>9. entries # <<>> => 1 \in 1 .. Len(entries)
  BY <1>2
<1>10. AllFit'
  <2> SUFFICES ASSUME NEW k \in 1 .. n + 1 PROVE Fits(tree, entries, stack'[k])
    BY <1>1, <1>6 DEF AllFit
  <2>1. CASE k = n + 1
    BY <1>3, <1>6, <1>9, <2>1 DEF Fits
  <2>2. CASE k \in 1 .. n
    <3>1. Fits(tree, entries, stack[k]) /\ stack'[k] = d[k]
      BY <1>2, <1>5, <1>6, <2>2
    <3>2. d[k].step = stack[k].step /\ d[k].entry = stack[k].entry
      BY <1>4, <1>5, <2>2
    <3> QED BY <3>1, <3>2 DEF Fits
  <2> QED BY <2>1, <2>2
<1>11. Top' = g
  BY <1>6 DEF Top, Last
<1>12. Undisturbed(tree, entries, FALSE, 0, g)
  <2>1. InStep(entries, 0, g)
    BY <1>3, <1>9 DEF InStep
  <2>2. ChosenSoFar(entries, g) /\ ChosenAreSettled(tree, entries, FALSE, g)
    BY <1>3 DEF ChosenSoFar, ChosenAreSettled
  <2>3. FileIsOpen(tree, entries, g)
    BY <1>3 DEF FileIsOpen
  <2>4. OnlyChosenChange(tree, entries, g.old, g.chosen)
    BY <1>3 DEF OnlyChosenChange
  <2> QED BY <2>1, <2>2, <2>3, <2>4 DEF Undisturbed
<1> QED BY <1>1, <1>7, <1>8, <1>10, <1>11, <1>12 DEF IInv

LEMMA ToggleKeeps == ASSUME IInv, Toggle PROVE IInv'
<1>1. /\ entries' = entries /\ shown' = shown /\ tree' = tree /\ full' = full
      /\ index' = index /\ stack' = stack
  BY DEF Toggle
<1>2. PICK n \in DOMAIN boxes : boxes' = [boxes EXCEPT ![n] = ~boxes[n]]
  BY DEF Toggle
<1>3. boxes \in Seq(BOOLEAN) /\ n \in 1 .. Len(boxes) /\ boxes # <<>> /\ Len(boxes) = Len(entries)
  <2>1. boxes \in Seq(BOOLEAN)
    BY DEF IInv, Types
  <2>2. n \in 1 .. Len(boxes)
    BY <2>1
  <2>3. boxes # <<>>
    BY <2>2
  <2> QED BY <2>1, <2>2, <2>3 DEF IInv, Types
<1>4. PICK on \in BOOLEAN : on = ~boxes[n]
  OBVIOUS
<1>5. boxes' = [boxes EXCEPT ![n] = on]
  BY <1>2, <1>4
<1>6. boxes' \in Seq(BOOLEAN) /\ Len(boxes') = Len(boxes)
  BY <1>3, <1>5, ExceptSeq
<1>7. Types'
  BY <1>1, <1>3, <1>6 DEF IInv, Types
<1>8. Top' = Top
  BY <1>1 DEF Top, Last
<1>9. OthersDisturbed' /\ AllFit'
  BY <1>1 DEF IInv, OthersDisturbed, AllFit
<1> QED BY <1>1, <1>7, <1>8, <1>9 DEF IInv

LEMMA LeavePageKeeps == ASSUME IInv, LeavePage PROVE IInv'
<1>1. /\ entries' = entries /\ tree' = tree /\ full' = full /\ index' = index /\ boxes' = boxes
      /\ shown' = FALSE /\ stack' = Disturbed(stack)
  BY DEF LeavePage
<1>2. stack \in Seq(Frame)
  BY DEF IInv, Types
<1>3. /\ stack' \in Seq(Frame) /\ Len(stack') = Len(stack)
      /\ \A k \in 1 .. Len(stack) :
           stack'[k].disturbed /\ stack'[k].step = stack[k].step /\ stack'[k].entry = stack[k].entry
  BY <1>1, <1>2, DisturbedIs
<1>4. Types'
  BY <1>1, <1>3 DEF IInv, Types
<1>5. AllFit'
  BY <1>1, <1>3 DEF IInv, AllFit, Fits
<1> QED BY <1>3, <1>4, <1>5, AllDisturbed

LEMMA OpenPageKeeps == ASSUME IInv, OpenPage PROVE IInv'
<1>1. /\ entries' = entries /\ tree' = tree /\ full' = full /\ index' = index /\ stack' = stack
      /\ ~shown /\ shown' = TRUE /\ boxes' = AllOn(boxes)
  BY DEF OpenPage
<1>2. boxes' \in Seq(BOOLEAN) /\ Len(boxes') = Len(boxes) /\ (boxes' # <<>> => boxes # <<>>)
  BY <1>1, AllOnIs DEF IInv, Types
<1>3. Types'
  BY <1>1, <1>2 DEF IInv, Types
<1>4. AllFit' /\ \A k \in 1 .. Len(stack') : stack'[k].disturbed
  BY <1>1 DEF IInv, AllFit, OthersDisturbed
<1> QED BY <1>3, <1>4, AllDisturbed

LEMMA PowerOffKeeps == ASSUME IInv, PowerOff PROVE IInv'
<1>1. /\ entries' = entries /\ tree' = tree /\ full' = full /\ index' = 0 /\ stack' = <<>>
      /\ shown' = TRUE /\ boxes' = AllOn(boxes)
  BY DEF PowerOff
<1>2. boxes' \in Seq(BOOLEAN) /\ Len(boxes') = Len(boxes) /\ (boxes' # <<>> => boxes # <<>>)
  BY <1>1, AllOnIs DEF IInv, Types
<1>3. stack' \in Seq(Frame) /\ Len(stack') = 0
  BY <1>1
<1>4. Types'
  BY <1>1, <1>2, <1>3 DEF IInv, Types
<1>5. AllFit' /\ \A k \in 1 .. Len(stack') : stack'[k].disturbed
  BY <1>3 DEF AllFit
<1> QED BY <1>4, <1>5, AllDisturbed

----------------------------------------------------------------------------
(* The theorem                                                             *)

LEMMA InitIInv == Init => IInv
<1> SUFFICES ASSUME Init PROVE IInv
  OBVIOUS
<1>1. /\ entries \in Seq(Item) /\ tree \in Cards /\ index = 0 /\ stack = <<>> /\ shown = TRUE
      /\ full = FALSE /\ boxes \in {<<>>, [n \in DOMAIN entries |-> TRUE]}
  BY ArchivesAssumption, CardIs DEF Init
<1>2. boxes \in Seq(BOOLEAN) /\ (boxes # <<>> => Len(boxes) = Len(entries))
  <2>1. DOMAIN entries = 1 .. Len(entries) /\ Len(entries) \in Nat
    BY <1>1
  <2>2. CASE boxes = <<>>
    BY <2>2
  <2>3. CASE boxes = [n \in 1 .. Len(entries) |-> TRUE]
    BY <2>1, <2>3
  <2> QED BY <1>1, <2>1, <2>2, <2>3
<1>3. stack \in Seq(Frame) /\ Len(stack) = 0
  BY <1>1
<1>4. Types
  BY <1>1, <1>2, <1>3 DEF Types
<1>5. OthersDisturbed /\ AllFit
  BY <1>3 DEF OthersDisturbed, AllFit
<1> QED BY <1>1, <1>4, <1>5 DEF IInv

LEMMA StepIInv == IInv /\ [Next]_vars => IInv'
<1> SUFFICES ASSUME IInv, [Next]_vars PROVE IInv'
  OBVIOUS
<1>1. CASE Next
  BY <1>1, SkipKeeps, MakeDirectoryKeeps, OpenFileKeeps, WriteBlockKeeps, ReadFailsKeeps,
     CloseFileKeeps, NextEntryKeeps, ReturnKeeps, PressKeeps, ToggleKeeps, LeavePageKeeps,
     OpenPageKeeps, PowerOffKeeps DEF Next
<1>2. CASE UNCHANGED vars
  <2>1. /\ entries' = entries /\ tree' = tree /\ full' = full /\ index' = index /\ stack' = stack
        /\ shown' = shown /\ boxes' = boxes
    BY <1>2 DEF vars
  <2>2. Types' /\ OthersDisturbed' /\ AllFit' /\ Top' = Top
    BY <2>1 DEF IInv, Types, OthersDisturbed, AllFit, Top, Last
  <2> QED BY <2>1, <2>2 DEF IInv
<1> QED BY <1>1, <1>2

\* The inductive invariant says it of every step of the extraction; at its end all
\* entries are settled but the one that failed.
LEMMA IInvUnzips == IInv => UnzippedAsChosen
<1> SUFFICES ASSUME IInv, At("done"), ~Top.disturbed
             PROVE  /\ \A i \in Top.chosen :
                         \/ (Top.err /\ i = Top.entry)
                         \/ full \/ InTheWay(entries[i]) \/ Overwritten(i, Top.chosen)
                         \/ (entries[i].path \in DOMAIN tree /\ Unzipped(i, entries[i]))
                    /\ \A p \in DOMAIN tree :
                         \/ (p \in DOMAIN Top.old /\ tree[p] = Top.old[p])
                         \/ \E i \in Top.chosen :
                              p = entries[i].path \/ (p \in Ancestors(entries[i].path) /\ tree[p].dir)
  BY DEF UnzippedAsChosen
<1>1. Undisturbed(tree, entries, full, index, Top) /\ Top.step = "done"
  BY DEF IInv, At
<1>2. ASSUME NEW i \in Top.chosen
      PROVE  \/ (Top.err /\ i = Top.entry)
             \/ full \/ InTheWay(entries[i]) \/ Overwritten(i, Top.chosen)
             \/ (entries[i].path \in DOMAIN tree /\ Unzipped(i, entries[i]))
  <2>1. Settled(tree, entries, full, i, Top.chosen) \/ (i = Top.entry /\ Top.err)
    BY <1>1 DEF Undisturbed, ChosenAreSettled
  <2>2. Blocked(tree, entries[i]) => InTheWay(entries[i])
    BY DEF Blocked, InTheWay
  <2>3. Replaced(entries, i, Top.chosen) => Overwritten(i, Top.chosen)
    BY DEF Replaced, Overwritten
  <2>4. Complete(tree, i, entries[i]) => entries[i].path \in DOMAIN tree /\ Unzipped(i, entries[i])
    BY DEF Complete, Unzipped
  <2> QED BY <2>1, <2>2, <2>3, <2>4 DEF Settled
<1>3. ASSUME NEW p \in DOMAIN tree
      PROVE  \/ (p \in DOMAIN Top.old /\ tree[p] = Top.old[p])
             \/ \E i \in Top.chosen :
                  p = entries[i].path \/ (p \in Ancestors(entries[i].path) /\ tree[p].dir)
  BY <1>1 DEF Undisturbed, OnlyChosenChange, IsOf
<1> QED BY <1>2, <1>3

\* An extraction that the user has not disturbed has written each entry whose box was
\* on at its turn, whole, up to the one that failed, unless something is in its way or
\* the card is full; and it has changed nothing else but their directories (ZipFile.cpp
\* do_extract_currentfile, ZipViewer::extract and after).
THEOREM ExtractsAsChosen == Spec => []UnzippedAsChosen
<1>1. Init => IInv
  BY InitIInv
<1>2. IInv /\ [Next]_vars => IInv'
  BY StepIInv
<1>3. IInv => UnzippedAsChosen
  BY IInvUnzips
<1> QED BY <1>1, <1>2, <1>3, PTL DEF Spec

----------------------------------------------------------------------------
(* Forms                                                                   *)

Lists == INSTANCE FoldTheorems WITH Op <- AddItem
Presses == INSTANCE FoldTheorems WITH Op <- AddRadio
Contributions == INSTANCE FoldTheorems WITH Op <- AddPart
Joins == INSTANCE FoldTheorems WITH Op <- JoinPart

----------------------------------------------------------------------------
(* The items of a list                                                     *)

\* The items of a list are a fold of its options.
LEMMA ItemsFolded == \A i : Items(i) = Lists!Folded(<<>>, fields[i].options)
BY DEF Items, FoldLeft, MapThenFoldSet, Max, Lists!Folded, Lists!FoldLeft, Lists!MapThenFoldSet, Lists!Max

\* When all of the options have a text, each is an item.
LEMMA ItemsAreOptions ==
  ASSUME NEW i, NEW o \in Seq(Option), fields[i].options = o, \A n \in 1 .. Len(o) : o[n].text
  PROVE  Items(i) = o
<1> DEFINE Good == [k \in 0 .. Len(o) |->
       {s \in Seq(Option) : Len(s) = k /\ \A n \in 1 .. k : s[n] = o[n]}]
<1>1. <<>> \in Good[0]
  OBVIOUS
<1>2. ASSUME NEW k \in 1 .. Len(o), NEW a \in Good[k - 1] PROVE AddItem(a, o[k]) \in Good[k]
  <2>1. a \in Seq(Option) /\ Len(a) = k - 1 /\ \A n \in 1 .. k - 1 : a[n] = o[n]
    OBVIOUS
  <2>2. o[k] \in Option /\ o[k].text
    OBVIOUS
  <2>3. AddItem(a, o[k]) = Append(a, o[k])
    BY <2>2 DEF AddItem
  <2>4. Append(a, o[k]) \in Seq(Option) /\ Len(Append(a, o[k])) = k
    BY <2>1, <2>2
  <2>5. \A n \in 1 .. k : Append(a, o[k])[n] = o[n]
    BY <2>1, <2>2
  <2>6. AddItem(a, o[k]) \in {t \in Seq(Option) : Len(t) = k /\ \A n \in 1 .. k : t[n] = o[n]}
    BY <2>3, <2>4, <2>5
  <2>7. k \in 0 .. Len(o)
    OBVIOUS
  <2> QED BY <2>6, <2>7
<1> HIDE DEF Good
<1>3. Lists!Folded(<<>>, o) \in Good[Len(o)]
  BY <1>1, <1>2, Lists!FoldStaysGood
<1>4. Items(i) \in Good[Len(o)]
  BY <1>3, ItemsFolded
<1>5. Items(i) \in Seq(Option) /\ Len(Items(i)) = Len(o) /\ \A n \in 1 .. Len(o) : Items(i)[n] = o[n]
  BY <1>4 DEF Good
<1> QED BY <1>5

\* A set of numbers up to k has a greatest.
LEMMA HasMax ==
  ASSUME NEW k \in Nat, NEW s \in SUBSET (1 .. k), s # {}
  PROVE  Max(s) \in s
<1> DEFINE T == {n \in Nat : \A t \in SUBSET (1 .. n) : t # {} => \E x \in t : \A y \in t : x >= y}
<1>1. 0 \in T
  <2>1. 1 .. 0 = {}
    OBVIOUS
  <2> QED BY <2>1
<1>2. ASSUME NEW n \in Nat, n \in T PROVE n + 1 \in T
  <2> SUFFICES ASSUME NEW t \in SUBSET (1 .. n + 1), t # {} PROVE \E x \in t : \A y \in t : x >= y
    OBVIOUS
  <2>1. CASE n + 1 \in t
    <3>1. \A y \in t : n + 1 >= y
      OBVIOUS
    <3> QED BY <2>1, <3>1
  <2>2. CASE n + 1 \notin t
    <3>1. t \in SUBSET (1 .. n)
      BY <2>2
    <3> QED BY <3>1, <1>2
  <2> QED BY <2>1, <2>2
<1> HIDE DEF T
<1>3. k \in T
  BY <1>1, <1>2, Lists!SetInduction
<1>4. \E x \in s : \A y \in s : x >= y
  BY <1>3 DEF T
<1> QED BY <1>4 DEF Max

\* A list in which every option has a text has an item to start with.
LEMMA InitialItem ==
  ASSUME NEW i, NEW o \in Seq(Option), fields[i].options = o, o # <<>>, \A n \in 1 .. Len(o) : o[n].text
  PROVE  Items(i) # <<>> /\ InitialIndex(i) \in 1 .. Len(o)
<1>1. Items(i) = o
  BY ItemsAreOptions
<1>2. SelectedItems(i) \in SUBSET (1 .. Len(o))
  BY <1>1 DEF SelectedItems
<1>3. Len(o) \in Nat /\ 1 \in 1 .. Len(o)
  OBVIOUS
<1>4. SelectedItems(i) # {} => Max(SelectedItems(i)) \in SelectedItems(i)
  BY <1>2, <1>3, HasMax
<1> QED BY <1>1, <1>2, <1>3, <1>4 DEF InitialIndex

----------------------------------------------------------------------------
(* The groups of radio buttons                                             *)

\* One button is on, the others are not; of any function, for wanted holds what each field wants.
LEMMA PressOf ==
  ASSUME NEW D, NEW flags, flags = [j \in D |-> flags[j]], NEW i, NEW group
  PROVE  LET f == PressRadio(flags, i, group)
         IN /\ f = [j \in D |-> f[j]]
            /\ \A j \in D : j \in group => f[j] = (j = i)
            /\ \A j \in D : j \notin group => f[j] = flags[j]
<1>1. DOMAIN flags = D
  OBVIOUS
<1> QED BY <1>1, Zenon DEF PressRadio

\* PressRadio, without the EXCEPT.
LEMMA PressGives ==
  ASSUME NEW D, NEW flags \in [D -> BOOLEAN], NEW i, NEW group
  PROVE  LET f == PressRadio(flags, i, group)
         IN /\ f \in [D -> BOOLEAN]
            /\ \A j \in D : j \in group => (f[j] <=> j = i)
            /\ \A j \in D : j \notin group => f[j] = flags[j]
BY DEF PressRadio

\* The radio buttons are a fold of what FormRadio::add does.
LEMMA RadiosFolded ==
  \A flags : Radios(flags) = Presses!Folded(flags, [i \in Field |-> Added(i)])
BY DEF Radios, FoldLeft, MapThenFoldSet, Max, Presses!Folded, Presses!FoldLeft, Presses!MapThenFoldSet, Presses!Max

\* The buttons of a group are a group for each of them.
LEMMA GroupsAreGroups ==
  ASSUME NEW i \in Field, Grouped(i)
  PROVE  /\ i \in Group(i) /\ Group(i) \subseteq Field
         /\ \A j \in Group(i) : Grouped(j) /\ Group(j) = Group(i)
         /\ \A j \in Field : Grouped(j) /\ i \in Group(j) => j \in Group(i)
BY DEF Group, Grouped

\* One of each group is on.
OneOn(flags, group) == \E j \in group : \A m \in group : flags[m] <=> m = j

\* After rendering one of each group is on; the others are as they were, and where one was
\* on already, it still is.
LEMMA RadiosGive ==
  ASSUME fields \in Seq(FormField), NEW flags \in [Field -> BOOLEAN]
  PROVE  /\ Radios(flags) \in [Field -> BOOLEAN]
         /\ \A i \in Field : ~Grouped(i) => Radios(flags)[i] = flags[i]
         /\ \A i \in Field : Grouped(i) => OneOn(Radios(flags), Group(i))
         /\ \A i \in Field : Grouped(i) /\ OneOn(flags, Group(i)) => Radios(flags)[i] = flags[i]
<1> DEFINE N == Len(fields)
           rs == [i \in Field |-> Added(i)]
           Upto(i, k) == {j \in Group(i) : j <= k}
           Same(f, k) == \A i \in Field : ~Grouped(i) \/ i > k => f[i] = flags[i]
           One(f, k) == \A i \in Field : Grouped(i) /\ i <= k => OneOn(f, Upto(i, k))
           Stays(f, k) == \A i \in Field : Grouped(i) /\ i <= k /\ flags[i] /\ OneOn(flags, Group(i)) => f[i]
           Good == [k \in 0 .. N |-> {f \in [Field -> BOOLEAN] : Same(f, k) /\ One(f, k) /\ Stays(f, k)}]
<1>1. N \in Nat /\ Field = 1 .. N
  BY DEF Field
<1>2. /\ rs \in Seq({Added(i) : i \in Field}) /\ Len(rs) = N
      /\ \A i \in Field : /\ rs[i].at = i /\ rs[i].grouped = Grouped(i)
                          /\ rs[i].before = {j \in Group(i) : j < i}
  <2>1. \A i \in Field : rs[i] = Added(i)
    OBVIOUS
  <2>2. rs \in Seq({Added(i) : i \in Field}) /\ Len(rs) = N
    BY <1>1
  <2>3. \A i \in Field : /\ rs[i].at = i /\ rs[i].grouped = Grouped(i)
                        /\ rs[i].before = {j \in Group(i) : j < i}
    BY <2>1 DEF Added
  <2> QED BY <2>2, <2>3
<1>3. flags \in Good[0]
  BY <1>1
<1> HIDE DEF rs
<1>4. ASSUME NEW k \in 1 .. N, NEW f \in Good[k - 1] PROVE AddRadio(f, rs[k]) \in Good[k]
  <2> DEFINE before == {j \in Group(k) : j < k}
             press == Grouped(k) /\ (f[k] \/ before = {})
             g == AddRadio(f, rs[k])
  <2>1. f \in [Field -> BOOLEAN] /\ Same(f, k - 1) /\ One(f, k - 1) /\ Stays(f, k - 1)
    BY <1>1
  <2> HIDE DEF Same, One, Stays
  <2>2. k \in Field /\ k \in Nat
    BY <1>1
  <2>3. g = IF press THEN PressRadio(f, k, before \cup {k}) ELSE f
    BY <1>2, <2>2 DEF AddRadio
  <2>4. /\ g \in [Field -> BOOLEAN]
        /\ press => \A j \in Field : j \in before \cup {k} => (g[j] <=> j = k)
        /\ press => \A j \in Field : j \notin before \cup {k} => g[j] = f[j]
        /\ ~press => g = f
    <3>1. CASE press
      BY <3>1, <2>1, <2>3, PressGives
    <3>2. CASE ~press
      BY <3>2, <2>1, <2>3
    <3> QED BY <3>1, <3>2
  <2> HIDE DEF g
  <2>5. Same(g, k)
    <3> SUFFICES ASSUME NEW i \in Field, ~Grouped(i) \/ i > k PROVE g[i] = flags[i]
      BY DEF Same
    <3>1. f[i] = flags[i]
      BY <2>1, <2>2, <1>1 DEF Same
    <3>2. press => i \notin before \cup {k}
      BY <2>2, <1>1 DEF Group, Grouped
    <3> QED BY <3>1, <3>2, <2>4
  <2>6. One(g, k)
    <3> SUFFICES ASSUME NEW i \in Field, Grouped(i), i <= k PROVE OneOn(g, Upto(i, k))
      BY DEF One
    <3>1. CASE k \in Group(i)
      <4>1. Grouped(k) /\ Group(k) = Group(i) /\ Group(k) \subseteq Field
        BY <3>1, GroupsAreGroups
      <4>2. Upto(i, k) = before \cup {k} /\ k \notin before
        BY <3>1, <4>1, <2>2, <1>1
      <4>3. CASE press
        <5>1. \A m \in Upto(i, k) : g[m] <=> m = k
          BY <4>1, <4>2, <4>3, <2>4
        <5> QED BY <5>1, <4>2 DEF OneOn
      <4>4. CASE ~press
        <5>1. PICK b \in before : TRUE
          BY <4>4, <4>1
        <5>2. b \in Field /\ Grouped(b) /\ Group(b) = Group(k) /\ b <= k - 1
          BY <5>1, <4>1, <2>2, <1>1, GroupsAreGroups
        <5>3. Upto(b, k - 1) = before
          BY <5>2, <4>1, <2>2, <1>1
        <5>4. OneOn(f, before)
          BY <5>2, <5>3, <2>1 DEF One
        <5>5. PICK j \in before : \A m \in before : f[m] <=> m = j
          BY <5>4 DEF OneOn
        <5>6. ~f[k] /\ g = f
          BY <4>1, <4>4, <2>4
        <5>7. \A m \in Upto(i, k) : g[m] <=> m = j
          BY <5>5, <5>6, <4>2
        <5> QED BY <5>5, <5>7, <4>2 DEF OneOn
      <4> QED BY <4>3, <4>4
    <3>2. CASE k \notin Group(i)
      <4>1. i \in Group(i) /\ i <= k - 1
        BY <3>2, <2>2, <1>1, GroupsAreGroups
      <4>2. Upto(i, k) = Upto(i, k - 1)
        BY <3>2, <2>2, <1>1 DEF Group
      <4>3. PICK j \in Upto(i, k) : \A m \in Upto(i, k) : f[m] <=> m = j
        BY <4>1, <4>2, <2>1 DEF One, OneOn
      <4>4. \A m \in Upto(i, k) : g[m] = f[m]
        <5> SUFFICES ASSUME NEW m \in Upto(i, k), press PROVE g[m] = f[m]
          BY <2>4
        <5>1. m \in Field /\ Group(m) = Group(i)
          BY GroupsAreGroups
        <5>2. m \notin before \cup {k}
          BY <5>1, <3>2, <2>2, GroupsAreGroups
        <5> QED BY <5>1, <5>2, <2>4
      <4>5. \A m \in Upto(i, k) : g[m] <=> m = j
        BY <4>3, <4>4
      <4> QED BY <4>5 DEF OneOn
    <3> QED BY <3>1, <3>2
  <2>7. Stays(g, k)
    <3> SUFFICES ASSUME NEW i \in Field, Grouped(i), i <= k, flags[i], OneOn(flags, Group(i)) PROVE g[i]
      BY DEF Stays
    <3>1. CASE i = k
      <4>1. f[k]
        BY <3>1, <2>1, <2>2, <1>1 DEF Same
      <4> QED BY <3>1, <4>1, <2>2, <2>4
    <3>2. CASE i # k
      <4>1. f[i]
        BY <3>2, <2>1, <2>2, <1>1 DEF Stays
      <4>2. CASE press /\ i \in before
        <5>1. k \in Group(i) /\ i \in Group(i)
          BY <4>2, <2>2, GroupsAreGroups
        <5>2. ~flags[k]
          BY <5>1, <3>2 DEF OneOn
        <5>3. ~f[k]
          BY <5>2, <2>1, <2>2, <1>1 DEF Same
        <5> QED BY <5>3, <4>2
      <4>3. CASE ~(press /\ i \in before)
        <5>1. g[i] = f[i]
          BY <4>3, <3>2, <2>4
        <5> QED BY <5>1, <4>1
      <4> QED BY <4>2, <4>3
    <3> QED BY <3>1, <3>2
  <2>8. k \in 0 .. N /\ g \in {h \in [Field -> BOOLEAN] : Same(h, k) /\ One(h, k) /\ Stays(h, k)}
    BY <1>1, <2>4, <2>5, <2>6, <2>7
  <2>9. g \in Good[k]
    BY <2>8
  <2> QED BY <2>9 DEF g
<1> HIDE DEF Good
<1>5. Presses!Folded(flags, rs) \in Good[N]
  BY <1>2, <1>3, <1>4, Presses!FoldStaysGood
<1>6. Radios(flags) \in Good[N]
  BY <1>5, RadiosFolded DEF rs
<1> DEFINE f == Radios(flags)
<1>7. f \in [Field -> BOOLEAN] /\ Same(f, N) /\ One(f, N) /\ Stays(f, N)
  BY <1>6, <1>1 DEF Good
<1> HIDE DEF f
<1>8. \A i \in Field : Grouped(i) => OneOn(f, Group(i))
  <2> SUFFICES ASSUME NEW i \in Field, Grouped(i) PROVE OneOn(f, Group(i))
    OBVIOUS
  <2>1. Group(i) \subseteq Field
    BY GroupsAreGroups
  <2>2. Upto(i, N) = Group(i)
    BY <2>1, <1>1
  <2> QED BY <2>2, <1>1, <1>7
<1>9. ASSUME NEW i \in Field, Grouped(i), OneOn(flags, Group(i)) PROVE f[i] = flags[i]
  <2>1. PICK j \in Group(i) : \A m \in Group(i) : flags[m] <=> m = j
    BY <1>9 DEF OneOn
  <2>2. PICK c \in Group(i) : \A m \in Group(i) : f[m] <=> m = c
    BY <1>9, <1>8 DEF OneOn
  <2>3. j \in Field /\ Grouped(j) /\ Group(j) = Group(i) /\ i \in Group(i)
    BY <1>9, GroupsAreGroups
  <2>4. f[j]
    BY <2>1, <2>3, <1>9, <1>7, <1>1
  <2>5. f[i] <=> flags[i]
    BY <2>1, <2>2, <2>3, <2>4
  <2> QED BY <2>5, <1>7
<1> QED BY <1>7, <1>8, <1>9, <1>1 DEF f

----------------------------------------------------------------------------
(* The data of a form                                                      *)

\* The steps of the fold of AddPart.
LEMMA AddsSteps ==
  ASSUME NEW S, NEW p \in Seq(S), NEW b
  PROVE  \E f : /\ f[0] = b
                /\ \A k \in 1 .. Len(p) : f[k] = AddPart(f[k - 1], p[k])
                /\ Contributions!Folded(b, p) = f[Len(p)]
BY Contributions!FoldSteps

\* The steps of the fold of JoinPart.
LEMMA JoinsSteps ==
  ASSUME NEW S, NEW p \in Seq(S), NEW b
  PROVE  \E f : /\ f[0] = b
                /\ \A k \in 1 .. Len(p) : f[k] = JoinPart(f[k - 1], p[k])
                /\ Joins!Folded(b, p) = f[Len(p)]
BY Joins!FoldSteps

Start == [data |-> <<>>, needAmp |-> FALSE]

\* Parts that are put together with needAmp are joined, when one that asks for no & is the
\* last that has anything.
LEMMA PartsAreJoined ==
  ASSUME NEW n \in Nat, NEW D, "&" \in D, NEW parts \in [1 .. n -> [data : Seq(D), asks : BOOLEAN]],
         NEW told \in [1 .. n -> Seq(D)], \A k \in 1 .. n : parts[k].data = told[k],
         \A k \in 1 .. n : told[k] # <<>> => parts[k].asks \/ \A j \in k + 1 .. n : told[j] = <<>>
  PROVE  Contributions!Folded(Start, parts).data = Joins!Folded(<<>>, told)
<1>1. parts \in Seq([data : Seq(D), asks : BOOLEAN]) /\ Len(parts) = n
  <2> DEFINE P == [data : Seq(D), asks : BOOLEAN]
  <2> HIDE DEF P
  <2>1. parts \in [1 .. n -> P]
    BY DEF P
  <2>2. parts \in Seq(P)
    BY <2>1, SeqDef
  <2>3. Len(parts) = n
    BY <2>1, <2>2, LenProperties
  <2> QED BY <2>2, <2>3 DEF P
<1>2. told \in Seq(Seq(D)) /\ Len(told) = n
  <2>1. told \in Seq(Seq(D))
    BY SeqDef
  <2> QED BY <2>1, LenProperties
<1>3. PICK acc : /\ acc[0] = Start /\ \A k \in 1 .. n : acc[k] = AddPart(acc[k - 1], parts[k])
                 /\ Contributions!Folded(Start, parts) = acc[n]
  <2>1. \E f : /\ f[0] = Start
               /\ \A k \in 1 .. Len(parts) : f[k] = AddPart(f[k - 1], parts[k])
               /\ Contributions!Folded(Start, parts) = f[Len(parts)]
    BY <1>1, AddsSteps
  <2> QED BY <2>1, <1>1
<1>4. PICK all : /\ all[0] = <<>> /\ \A k \in 1 .. n : all[k] = JoinPart(all[k - 1], told[k])
                 /\ Joins!Folded(<<>>, told) = all[n]
  <2>1. \E f : /\ f[0] = <<>>
               /\ \A k \in 1 .. Len(told) : f[k] = JoinPart(f[k - 1], told[k])
               /\ Joins!Folded(<<>>, told) = f[Len(told)]
    BY <1>2, JoinsSteps
  <2> QED BY <2>1, <1>2
<1> DEFINE LastOne(k) == \A j \in k + 1 .. n : told[j] = <<>>
           Level(k) == /\ all[k] \in Seq(D) /\ acc[k] \in [data : Seq(D), needAmp : BOOLEAN]
                       /\ acc[k].data = all[k]
                       /\ (acc[k].needAmp <=> all[k] # <<>>) \/ LastOne(k)
           T == {k \in Nat : k <= n => Level(k)}
<1>5. 0 \in T
  <2>1. acc[0].data = <<>> /\ acc[0].needAmp = FALSE /\ acc[0] \in [data : Seq(D), needAmp : BOOLEAN]
    BY <1>3 DEF Start
  <2>2. Level(0)
    BY <1>4, <2>1
  <2> QED BY <2>2
<1>6. ASSUME NEW m \in Nat, m \in T PROVE m + 1 \in T
  <2> DEFINE k == m + 1
  <2> SUFFICES ASSUME k <= n PROVE Level(k)
    OBVIOUS
  <2>1. k \in 1 .. n /\ k - 1 = m /\ m <= n
    OBVIOUS
  <2>2. Level(m)
    BY <1>6, <2>1
  <2>3. acc[k] = AddPart(acc[m], parts[k]) /\ all[k] = JoinPart(all[m], told[k])
    BY <1>3, <1>4, <2>1
  <2>4. /\ told[k] \in Seq(D) /\ parts[k].asks \in BOOLEAN
        /\ parts[k].data = told[k] /\ (told[k] # <<>> => parts[k].asks \/ LastOne(k))
    BY <2>1
  <2>5. LastOne(m) => told[k] = <<>> /\ LastOne(k)
    BY <2>1
  <2> HIDE DEF LastOne, k, T
  <2>6. CASE told[k] = <<>>
    <3>1. acc[k] = acc[m]
      BY <2>3, <2>4, <2>6 DEF AddPart
    <3>2. all[k] = all[m]
      <4>1. all[k] = all[m] \o told[k]
        BY <2>3, <2>6 DEF JoinPart
      <4> QED BY <4>1, <2>2, <2>6, ConcatEmptySeq
    <3> QED BY <3>1, <3>2, <2>2, <2>5
  <2>7. CASE told[k] # <<>>
    <3> DEFINE d == all[m]  t == told[k]  b == acc[m].needAmp  c == parts[k].asks
    <3>1. d \in Seq(D) /\ t \in Seq(D) /\ t # <<>> /\ b \in BOOLEAN /\ c \in BOOLEAN /\ acc[m].data = d
      BY <2>2, <2>4, <2>7
    <3>2. (b <=> d # <<>>) /\ (c \/ LastOne(k))
      BY <2>2, <2>4, <2>5, <2>7
    <3>3. acc[k] = [data |-> d \o Amp(b) \o t, needAmp |-> b \/ c]
      BY <2>3, <2>4, <2>7, <3>1 DEF AddPart
    <3>4. all[k] = IF d = <<>> THEN d \o t ELSE d \o <<"&">> \o t
      BY <2>3, <2>7 DEF JoinPart
    <3> HIDE DEF d, t, b, c
    <3>5. all[k] = d \o Amp(b) \o t
      <4>1. CASE b
        BY <4>1, <3>2, <3>4 DEF Amp
      <4>2. CASE ~b
        <5>1. Amp(b) = <<>> /\ d = <<>>
          BY <4>2, <3>2 DEF Amp
        <5>2. d \o Amp(b) = d
          BY <5>1, <3>1, ConcatEmptySeq
        <5> QED BY <5>1, <5>2, <3>4
      <4> QED BY <4>1, <4>2
    <3>6. all[k] \in Seq(D) /\ all[k] # <<>>
      <4>1. Amp(b) \in Seq(D)
        BY DEF Amp
      <4>2. d \o Amp(b) \in Seq(D)
        BY <4>1, <3>1, ConcatProperties
      <4>3. Len(t) > 0 /\ Len(d \o Amp(b)) >= 0
        BY <4>2, <3>1, LenProperties, EmptySeq
      <4>4. Len(d \o Amp(b) \o t) > 0 /\ d \o Amp(b) \o t \in Seq(D)
        BY <4>2, <4>3, <3>1, ConcatProperties
      <4> QED BY <4>4, <3>5, EmptySeq
    <3>7. acc[k].data = all[k] /\ acc[k].needAmp = (b \/ c)
      BY <3>3, <3>5
    <3>8. acc[k] \in [data : Seq(D), needAmp : BOOLEAN]
      BY <3>3, <3>5, <3>6
    <3>9. (acc[k].needAmp <=> all[k] # <<>>) \/ LastOne(k)
      BY <3>2, <3>6, <3>7
    <3> QED BY <3>6, <3>7, <3>8, <3>9
  <2> QED BY <2>6, <2>7
<1> HIDE DEF T
<1>7. n \in T
  BY <1>5, <1>6, Contributions!SetInduction
<1> QED BY <1>3, <1>4, <1>7 DEF T

----------------------------------------------------------------------------
(* The inductive invariant: what an element holds is what the user wants.  *)

Plain == {"text", "textarea", "hidden", "submit", "image"}
OneForm(i) == \A j \in Group(i) : fields[j].form = fields[i].form

FormTypes ==
  /\ fields \in Pages
  /\ checked \in [Field -> BOOLEAN]
  /\ attr = [i \in Field |-> attr[i]]
  /\ widget = [i \in Field |-> widget[i]]
  /\ wanted = [i \in Field |-> wanted[i]]
  /\ touched \subseteq {i \in Field : TypeOf(i) \in Toggles}
  /\ open \subseteq {i \in Field : TypeOf(i) = "select"}

AsTyped == \A i \in Field : TypeOf(i) \in Plain => wanted[i] = attr[i]
AsTicked == \A i \in Field : TypeOf(i) = "checkbox" => wanted[i] = checked[i] /\ widget[i] = checked[i]
ValueKept == \A i \in Field : TypeOf(i) \in Toggles => attr[i] = fields[i].value
OneOfEach == \A i \in Field : Grouped(i) => OneOn(checked, Group(i))
AsPressed == \A i \in Field : Grouped(i) /\ OneForm(i) => wanted[i] = checked[i]
AsListed ==
  \A i \in Field : TypeOf(i) = "select" /\ FaithfulList(i) =>
     wanted[i] \in DOMAIN fields[i].options /\ attr[i] = fields[i].options[wanted[i]].value
AsSent == sent = Nothing \/ (sent.button \in Field /\ sent.data = ProcessedData(sent.button))

FormInv == FormTypes /\ AsTyped /\ AsTicked /\ ValueKept /\ OneOfEach /\ AsPressed /\ AsListed /\ AsSent

----------------------------------------------------------------------------
(* Pages                                                                   *)

\* The types of a field of the page.
LEMMA FieldFacts ==
  ASSUME fields \in Pages
  PROVE  /\ fields \in Seq(FormField) /\ Field = 1 .. Len(fields) /\ 0 \notin Field
         /\ \A i \in Field : /\ TypeOf(i) \in FieldType /\ fields[i].checked \in BOOLEAN
                             /\ fields[i].options \in Seq(Option)
<1>1. fields \in Seq(FormField) /\ Field = 1 .. Len(fields) /\ 0 \notin Field
  BY FormAssumption DEF Field
<1>2. \A i \in Field : fields[i] \in FormField
  BY <1>1
<1> QED BY <1>1, <1>2 DEF FormField, TypeOf

\* A list in which every option has a text and a value starts with one of its options.
LEMMA ListStarts ==
  ASSUME fields \in Pages, NEW i \in Field, FaithfulList(i)
  PROVE  /\ Items(i) = fields[i].options /\ Items(i) # <<>>
         /\ InitialIndex(i) \in DOMAIN fields[i].options
<1> DEFINE o == fields[i].options
<1>1. o \in Seq(Option) /\ o # <<>>
  BY FieldFacts DEF FaithfulList
<1>2. \A n \in 1 .. Len(o) : o[n].text
  BY <1>1 DEF FaithfulList, ToSet
<1> HIDE DEF o
<1>3. o = fields[i].options
  BY DEF o
<1>4. Items(i) = o /\ InitialIndex(i) \in 1 .. Len(o)
  BY <1>1, <1>2, <1>3, ItemsAreOptions, InitialItem
<1> QED BY <1>1, <1>3, <1>4

\* What widgets show, and what Value makes of an element.
LEMMA WidgetGives ==
  ASSUME NEW i, NEW flags, NEW values
  PROVE  /\ TypeOf(i) = "checkbox" \/ Grouped(i) => Widget(i, flags, values) = flags[i]
         /\ TypeOf(i) = "select" => Widget(i, flags, values) = InitialIndex(i)
         /\ TypeOf(i) \in Plain => Widget(i, flags, values) = values[i]
         /\ TypeOf(i) # "select" => Value(i, values) = values[i]
BY DEF Widget, Value, Grouped, Plain

\* The page as it is first shown is as FormInv says.
LEMMA FormStarts == FormInit => FormInv
<1> SUFFICES ASSUME FormInit PROVE FormInv
  OBVIOUS
<1> DEFINE flags == Radios(RawChecked)
<1>1. /\ fields \in Pages /\ checked = flags
      /\ attr = [i \in Field |-> Value(i, RawAttr)]
      /\ widget = [i \in Field |-> Widget(i, flags, RawAttr)]
      /\ touched = {} /\ open = {} /\ wanted = widget /\ sent = Nothing
  BY DEF FormInit
<1>2. RawChecked \in [Field -> BOOLEAN]
  BY <1>1, FieldFacts DEF RawChecked
<1> HIDE DEF flags
<1>3. /\ flags \in [Field -> BOOLEAN]
      /\ \A i \in Field : Grouped(i) => OneOn(flags, Group(i))
  BY <1>1, <1>2, FieldFacts, RadiosGive DEF flags
<1>4. \A i \in Field : wanted[i] = Widget(i, flags, RawAttr) /\ attr[i] = Value(i, RawAttr) /\ widget[i] = wanted[i]
  BY <1>1
<1>5. \A i \in Field : RawAttr[i] = fields[i].value
  BY DEF RawAttr
<1>6. FormTypes
  BY <1>1, <1>3 DEF FormTypes
<1>7. AsTyped
  <2> SUFFICES ASSUME NEW i \in Field, TypeOf(i) \in Plain PROVE wanted[i] = attr[i]
    BY DEF AsTyped
  <2> QED BY <1>4, WidgetGives DEF Plain
<1>8. AsTicked
  BY <1>1, <1>4, WidgetGives DEF AsTicked
<1>9. ValueKept
  <2> SUFFICES ASSUME NEW i \in Field, TypeOf(i) \in Toggles PROVE attr[i] = fields[i].value
    BY DEF ValueKept
  <2> QED BY <1>4, <1>5, WidgetGives DEF Toggles
<1>10. OneOfEach
  BY <1>1, <1>3 DEF OneOfEach
<1>11. AsPressed
  BY <1>1, <1>4, WidgetGives DEF AsPressed
<1>12. AsListed
  <2> SUFFICES ASSUME NEW i \in Field, TypeOf(i) = "select", FaithfulList(i)
               PROVE  wanted[i] \in DOMAIN fields[i].options /\ attr[i] = fields[i].options[wanted[i]].value
    BY DEF AsListed
  <2>1. wanted[i] = InitialIndex(i)
    BY <1>4, WidgetGives
  <2>2. attr[i] = fields[i].options[InitialIndex(i)].value
    BY <1>1, <1>4, ListStarts DEF Value, PressedValue
  <2> QED BY <1>1, <2>1, <2>2, ListStarts
<1>13. AsSent
  BY <1>1 DEF AsSent
<1> QED BY <1>6, <1>7, <1>8, <1>9, <1>10, <1>11, <1>12, <1>13 DEF FormInv
----------------------------------------------------------------------------
(* Steps                                                                   *)

\* The definitions that depend on the page alone do not change with it.
LEMMA SamePage ==
  ASSUME fields' = fields
  PROVE  /\ Field' = Field
         /\ \A i : TypeOf(i)' = TypeOf(i) /\ Group(i)' = Group(i) /\ Grouped(i)' = Grouped(i)
                  /\ OneForm(i)' = OneForm(i)
BY DEF Field, TypeOf, Group, Grouped, OneForm

\* A step that only touches or opens something.
LEMMA OnlyTouched ==
  ASSUME FormInv, UNCHANGED <<fields, checked, attr, widget, wanted, again>>,
         touched' \subseteq {i \in Field : TypeOf(i) \in Toggles},
         open' \subseteq {i \in Field : TypeOf(i) = "select"}, AsSent'
  PROVE  FormInv'
<1> USE SamePage
<1>1. FormTypes'
  BY DEF FormInv, FormTypes
<1>2. AsTyped' /\ AsTicked' /\ ValueKept'
  BY DEF FormInv, AsTyped, AsTicked, ValueKept
<1>3. OneOfEach' /\ AsPressed'
  BY DEF FormInv, OneOfEach, AsPressed, OneOn
<1>4. AsListed'
  BY DEF FormInv, AsListed, FaithfulList
<1> QED BY <1>1, <1>2, <1>3, <1>4 DEF FormInv

\* The stylus touches or leaves a widget.
LEMMA TouchSteps == ASSUME FormInv, StylusDown \/ StylusLeaves PROVE FormInv'
<1>1. UNCHANGED <<fields, checked, attr, widget, wanted, again, sent>> /\ sent = Nothing
  BY DEF StylusDown, StylusLeaves, Shown
<1>2. AsSent'
  BY <1>1 DEF AsSent
<1>3. CASE StylusDown
  <2>1. PICK i \in Field : /\ touched' = IF TypeOf(i) \in Toggles THEN touched \cup {i} ELSE touched
                          /\ open' = IF TypeOf(i) = "select" THEN {i} \ open ELSE {}
    BY <1>3 DEF StylusDown
  <2>2. touched' \subseteq {n \in Field : TypeOf(n) \in Toggles}
    BY <2>1 DEF FormInv, FormTypes
  <2>3. open' \subseteq {n \in Field : TypeOf(n) = "select"}
    BY <2>1
  <2> QED BY <1>1, <1>2, <2>2, <2>3, OnlyTouched
<1>4. CASE StylusLeaves
  <2>1. touched' \subseteq touched /\ open' = open
    BY <1>4 DEF StylusLeaves
  <2> QED BY <1>1, <1>2, <2>1, OnlyTouched DEF FormInv, FormTypes
<1> QED BY <1>3, <1>4

\* The data depends on the page and on what the elements hold.
LEMMA SameData ==
  ASSUME UNCHANGED <<fields, checked, attr>>
  PROVE  \A b : ProcessedData(b)' = ProcessedData(b)
<1> SUFFICES ASSUME NEW b PROVE ProcessedData(b)' = ProcessedData(b)
  OBVIOUS
<1>1. Inputs(b)' = Inputs(b)
  BY SamePage DEF Inputs
<1>2. \A j : Submitted(j, b)' <=> Submitted(j, b)
  BY SamePage DEF Submitted
<1>3. \A j : AreaText(j)' = AreaText(j) /\ Where(j)' = Where(j) /\ Default(j)' = Default(j)
  BY SamePage DEF AreaText, Where, Default
<1>4. \A j : Contribution(j, b)' = Contribution(j, b)
  <2> SUFFICES ASSUME NEW j PROVE Contribution(j, b)' = Contribution(j, b)
    OBVIOUS
  <2>1. fields[j].name' = fields[j].name
    OBVIOUS
  <2>2. Pair(fields[j].name, Default(j))' = Pair(fields[j].name, Default(j))
    BY <2>1, <1>3
  <2>3. TypeOf(j)' = TypeOf(j)
    BY SamePage
  <2> DEFINE d == Where(j) \o Pair(fields[j].name, Default(j))
  <2>4. d' = d
    BY <1>3, <2>2
  <2>5. Contribution(j, b) =
          IF j \notin Inputs(b) THEN Silent
          ELSE IF TypeOf(j) = "textarea" THEN [data |-> AreaText(j), asks |-> FALSE]
          ELSE IF Submitted(j, b) THEN [data |-> d, asks |-> TRUE] ELSE Silent
    BY DEF Contribution
  <2>6. Contribution(j, b)' =
          IF j \notin Inputs(b)' THEN Silent
          ELSE IF TypeOf(j)' = "textarea" THEN [data |-> AreaText(j)', asks |-> FALSE]
          ELSE IF Submitted(j, b)' THEN [data |-> d', asks |-> TRUE] ELSE Silent
    BY DEF Contribution
  <2> HIDE DEF d
  <2>7. CASE j \notin Inputs(b)
    BY <2>7, <1>1, <2>5, <2>6
  <2>8. CASE j \in Inputs(b) /\ TypeOf(j) = "textarea"
    BY <2>8, <1>1, <1>3, <2>3, <2>5, <2>6
  <2>9. CASE j \in Inputs(b) /\ TypeOf(j) # "textarea" /\ Submitted(j, b)
    BY <2>9, <1>1, <1>2, <2>3, <2>4, <2>5, <2>6
  <2>10. CASE j \in Inputs(b) /\ TypeOf(j) # "textarea" /\ ~Submitted(j, b)
    BY <2>10, <1>1, <1>2, <2>3, <2>5, <2>6
  <2> QED BY <2>7, <2>8, <2>9, <2>10
<1>5. [j \in Field |-> Contribution(j, b)]' = [j \in Field |-> Contribution(j, b)]
  BY <1>4, SamePage
<1> QED BY <1>5 DEF ProcessedData

\* A form is sent.
LEMMA SubmitStep == ASSUME FormInv, Submit PROVE FormInv'
<1>1. PICK i \in Field : sent' = [button |-> i, method |-> fields[i].method, data |-> ProcessedData(i)]
  BY DEF Submit
<1>2. UNCHANGED <<fields, checked, attr, widget, touched, open, wanted, again>>
  BY DEF Submit
<1>3. \A b : ProcessedData(b)' = ProcessedData(b)
  BY <1>2, SameData
<1>4. sent'.button = i /\ sent'.data = ProcessedData(i)
  BY <1>1
<1>5. AsSent'
  BY <1>2, <1>3, <1>4, SamePage DEF AsSent
<1> QED BY <1>2, <1>5, OnlyTouched DEF FormInv, FormTypes

\* The page is rendered again.
LEMMA RenderStep == ASSUME FormInv, RenderAgain PROVE FormInv'
<1> DEFINE flags == Radios(checked)
<1>1. /\ UNCHANGED <<fields, wanted, sent>> /\ sent = Nothing /\ again' = TRUE
      /\ checked' = flags /\ touched' = {} /\ open' = {}
      /\ widget' = [i \in Field |-> Widget(i, flags, attr)]
      /\ attr' = [i \in Field |-> Value(i, attr)]
  BY DEF RenderAgain, Render, Shown
<1> HIDE DEF flags
<1>2. fields \in Pages /\ checked \in [Field -> BOOLEAN]
  BY DEF FormInv, FormTypes
<1>3. /\ flags \in [Field -> BOOLEAN]
      /\ \A i \in Field : ~Grouped(i) => flags[i] = checked[i]
      /\ \A i \in Field : Grouped(i) /\ OneOn(checked, Group(i)) => flags[i] = checked[i]
  BY <1>2, FieldFacts, RadiosGive DEF flags
<1>4. checked' = checked
  BY <1>1, <1>2, <1>3 DEF FormInv, OneOfEach
<1>5. \A i \in Field : widget'[i] = Widget(i, flags, attr) /\ attr'[i] = Value(i, attr)
  BY <1>1
<1>6. \A i \in Field : TypeOf(i) # "select" => attr'[i] = attr[i]
  BY <1>5, WidgetGives
<1> USE SamePage
<1>7. FormTypes'
  BY <1>1, <1>4 DEF FormInv, FormTypes
<1>8. AsTyped' /\ ValueKept'
  BY <1>1, <1>6 DEF FormInv, AsTyped, ValueKept, Plain, Toggles
<1>9. AsTicked'
  BY <1>1, <1>4, <1>5, WidgetGives DEF FormInv, AsTicked
<1>10. OneOfEach' /\ AsPressed'
  BY <1>1, <1>4 DEF FormInv, OneOfEach, OneOn, AsPressed
<1>11. AsListed'
  BY <1>1 DEF AsListed, FaithfulList
<1>12. AsSent'
  BY <1>1 DEF AsSent
<1> QED BY <1>7, <1>8, <1>9, <1>10, <1>11, <1>12 DEF FormInv

\* An item of a list is chosen.
LEMMA ChooseStep == ASSUME FormInv, Choose PROVE FormInv'
<1>1. PICK i \in open : \E item \in DOMAIN Items(i) :
        /\ widget' = [widget EXCEPT ![i] = item] /\ wanted' = [wanted EXCEPT ![i] = item]
        /\ attr' = [attr EXCEPT ![i] = PressedValue(i, item)] /\ open' = open \ {i}
  BY DEF Choose
<1>2. PICK item \in DOMAIN Items(i) :
        /\ widget' = [widget EXCEPT ![i] = item] /\ wanted' = [wanted EXCEPT ![i] = item]
        /\ attr' = [attr EXCEPT ![i] = PressedValue(i, item)]
  BY <1>1
<1>3. UNCHANGED <<fields, checked, touched, again, sent>> /\ sent = Nothing
  BY DEF Choose, Shown
<1>4. i \in Field /\ TypeOf(i) = "select" /\ FormTypes
  BY <1>1 DEF FormInv, FormTypes
<1>5. /\ wanted'[i] = item /\ attr'[i] = PressedValue(i, item)
      /\ \A n \in Field : n # i => wanted'[n] = wanted[n] /\ attr'[n] = attr[n] /\ widget'[n] = widget[n]
  BY <1>2, <1>4 DEF FormTypes
<1> USE SamePage
<1>6. FormTypes'
  <2>1. open' \subseteq open
    BY <1>1
  <2> QED BY <2>1, <1>2, <1>3, <1>4 DEF FormTypes
<1>7. AsTyped' /\ ValueKept' /\ AsTicked'
  BY <1>3, <1>4, <1>5 DEF FormInv, AsTyped, ValueKept, AsTicked, Plain, Toggles
<1>8. OneOfEach' /\ AsPressed'
  BY <1>3, <1>4, <1>5 DEF FormInv, OneOfEach, OneOn, AsPressed, Grouped
<1>9. AsListed'
  <2> SUFFICES ASSUME NEW n \in Field, TypeOf(n) = "select", FaithfulList(n)
               PROVE  wanted'[n] \in DOMAIN fields[n].options /\ attr'[n] = fields[n].options[wanted'[n]].value
    BY <1>3 DEF AsListed, FaithfulList
  <2>1. CASE n = i
    BY <2>1, <1>4, <1>5, ListStarts DEF FormTypes, PressedValue
  <2>2. CASE n # i
    BY <2>2, <1>5 DEF FormInv, AsListed
  <2> QED BY <2>1, <2>2
<1>10. AsSent'
  BY <1>3 DEF AsSent
<1> QED BY <1>6, <1>7, <1>8, <1>9, <1>10 DEF FormInv

\* A text is typed.
LEMMA TypeStep == ASSUME FormInv, Type PROVE FormInv'
<1>1. PICK i \in Field, text \in Texts :
        /\ TypeOf(i) \in Editable
        /\ widget' = [widget EXCEPT ![i] = text] /\ wanted' = [wanted EXCEPT ![i] = text]
        /\ attr' = [attr EXCEPT ![i] = text]
  BY DEF Type
<1>2. UNCHANGED <<fields, checked, touched, open, again, sent>> /\ sent = Nothing
  BY DEF Type, Shown
<1>3. FormTypes
  BY DEF FormInv
<1>4. /\ wanted'[i] = text /\ attr'[i] = text
      /\ \A n \in Field : n # i => wanted'[n] = wanted[n] /\ attr'[n] = attr[n] /\ widget'[n] = widget[n]
  BY <1>1, <1>3 DEF FormTypes
<1> USE SamePage
<1>5. FormTypes'
  BY <1>1, <1>2, <1>3 DEF FormTypes
<1>6. AsTyped' /\ ValueKept' /\ AsTicked'
  BY <1>1, <1>2, <1>4 DEF FormInv, AsTyped, ValueKept, AsTicked, Toggles, Editable
<1>7. OneOfEach' /\ AsPressed'
  BY <1>1, <1>2, <1>4 DEF FormInv, OneOfEach, OneOn, AsPressed, Grouped, Editable
<1>8. AsListed'
  BY <1>1, <1>2, <1>4 DEF FormInv, AsListed, FaithfulList, Editable
<1>9. AsSent'
  BY <1>2 DEF AsSent
<1> QED BY <1>5, <1>6, <1>7, <1>8, <1>9 DEF FormInv

\* A check box or a radio button is pressed.
LEMMA ToggleStep == ASSUME FormInv, StylusUp PROVE FormInv'
<1>1. PICK i \in touched : ToggleButton(i) /\ touched' = touched \ {i}
  BY DEF StylusUp
<1>2. UNCHANGED <<fields, attr, open, again, sent>> /\ sent = Nothing
  BY DEF StylusUp, Shown
<1>3. FormTypes /\ i \in Field /\ TypeOf(i) \in Toggles
  BY <1>1 DEF FormInv, FormTypes
<1> USE SamePage
<1>4. AsSent'
  BY <1>2 DEF AsSent
<1>5. CASE TypeOf(i) = "checkbox"
  <2>1. ~Grouped(i)
    BY <1>5 DEF Grouped
  <2>2. /\ widget' = [widget EXCEPT ![i] = ~widget[i]] /\ wanted' = [wanted EXCEPT ![i] = ~wanted[i]]
        /\ checked' = [checked EXCEPT ![i] = ~widget[i]]
    BY <1>1, <1>5, <2>1 DEF ToggleButton
  <2>3. wanted[i] = checked[i] /\ widget[i] = checked[i] /\ checked[i] \in BOOLEAN
    BY <1>3, <1>5 DEF FormInv, AsTicked, FormTypes
  <2> DEFINE v == ~checked[i]
  <2>4. v \in BOOLEAN
    OBVIOUS
  <2>5. /\ widget' = [widget EXCEPT ![i] = v] /\ wanted' = [wanted EXCEPT ![i] = v]
        /\ checked' = [checked EXCEPT ![i] = v]
    BY <2>2, <2>3, Zenon
  <2> HIDE DEF v
  <2>6. /\ wanted'[i] = v /\ widget'[i] = v /\ checked'[i] = v
        /\ \A n \in Field : n # i => wanted'[n] = wanted[n] /\ checked'[n] = checked[n] /\ widget'[n] = widget[n]
    BY <2>5, <1>3 DEF FormTypes
  <2>7. FormTypes'
    BY <2>4, <2>5, <1>1, <1>2, <1>3 DEF FormTypes
  <2>8. AsTyped' /\ ValueKept'
    BY <2>6, <1>2, <1>5 DEF FormInv, AsTyped, ValueKept, Plain
  <2>9. AsTicked'
    BY <2>6, <1>2 DEF FormInv, AsTicked
  <2>10. OneOfEach'
    <3>1. \A n \in Field : Grouped(n) => i \notin Group(n) /\ Group(n) \subseteq Field
      BY <1>5 DEF Group
    <3>2. \A n \in Field : Grouped(n) => OneOn(checked', Group(n))
      BY <3>1, <2>6 DEF FormInv, OneOfEach, OneOn
    <3> QED BY <3>2, <1>2 DEF OneOfEach
  <2>11. AsPressed'
    BY <2>1, <2>6, <1>2 DEF FormInv, AsPressed
  <2>12. AsListed'
    BY <2>6, <1>2, <1>5 DEF FormInv, AsListed, FaithfulList
  <2> QED BY <2>7, <2>8, <2>9, <2>10, <2>11, <2>12, <1>4 DEF FormInv
<1>6. CASE Grouped(i)
  <2> DEFINE G == Group(i)
             F == {j \in G : fields[j].form = fields[i].form}
  <2>1. TypeOf(i) = "radio" /\ i \in G /\ G \subseteq Field /\ \A n \in G : TypeOf(n) = "radio"
    BY <1>3, <1>6 DEF Grouped, Group
  <2>2. /\ widget' = PressRadio(widget, i, G) /\ checked' = PressRadio(checked, i, G)
        /\ wanted' = PressRadio(wanted, i, F)
    <3>1. TypeOf(i) # "checkbox"
      BY <2>1
    <3> QED BY <1>1, <1>6, <3>1, Zenon DEF ToggleButton
  <2>3. F \subseteq G
    OBVIOUS
  <2> HIDE DEF G, F
  <2>4. /\ widget' = [n \in Field |-> widget'[n]]
        /\ \A n \in Field : n \notin G => widget'[n] = widget[n]
    BY <2>2, <1>3, PressOf DEF FormTypes
  <2>5. /\ wanted' = [n \in Field |-> wanted'[n]]
        /\ \A n \in Field : n \in F => wanted'[n] = (n = i)
        /\ \A n \in Field : n \notin F => wanted'[n] = wanted[n]
    BY <2>2, <1>3, PressOf DEF FormTypes
  <2>6. /\ checked' \in [Field -> BOOLEAN]
        /\ \A n \in Field : n \in G => (checked'[n] <=> n = i)
        /\ \A n \in Field : n \notin G => checked'[n] = checked[n]
    BY <2>2, <1>3, PressGives DEF FormTypes
  <2>7. FormTypes'
    BY <2>4, <2>5, <2>6, <1>1, <1>2, <1>3 DEF FormTypes
  <2>8. AsTyped' /\ ValueKept'
    BY <2>1, <2>3, <2>5, <1>2 DEF FormInv, AsTyped, ValueKept, Plain
  <2>9. AsTicked'
    BY <2>1, <2>3, <2>4, <2>5, <2>6, <1>2 DEF FormInv, AsTicked
  <2>10. \A n \in Field : Grouped(n) => IF n \in G THEN Group(n) = G ELSE Group(n) \cap G = {} /\ Group(n) \subseteq Field
    <3>1. ASSUME NEW n \in Field, Grouped(n), n \in G PROVE Group(n) = G
      BY <3>1, <1>3, <1>6, GroupsAreGroups DEF G
    <3>2. ASSUME NEW n \in Field, Grouped(n), NEW m \in Group(n), m \in G PROVE n \in G
      BY <3>2, <1>3, <1>6, GroupsAreGroups DEF G
    <3> QED BY <3>1, <3>2, GroupsAreGroups
  <2>11. OneOfEach'
    <3> SUFFICES ASSUME NEW n \in Field, Grouped(n) PROVE OneOn(checked', Group(n))
      BY <1>2 DEF OneOfEach
    <3>1. CASE n \in G
      BY <3>1, <2>1, <2>6, <2>10 DEF OneOn
    <3>2. CASE n \notin G
      BY <3>2, <2>6, <2>10 DEF FormInv, OneOfEach, OneOn
    <3> QED BY <3>1, <3>2
  <2>12. AsPressed'
    <3> SUFFICES ASSUME NEW n \in Field, Grouped(n), OneForm(n) PROVE wanted'[n] = checked'[n]
      BY <1>2 DEF AsPressed
    <3>1. CASE n \in G
      <4>1. n \in F
        BY <3>1, <2>1, <2>10 DEF F, OneForm
      <4>2. wanted'[n] = (n = i)
        BY <4>1, <2>5
      <4>3. checked'[n] = (n = i)
        BY <3>1, <2>6
      <4> QED BY <4>2, <4>3
    <3>2. CASE n \notin G
      BY <3>2, <2>3, <2>5, <2>6 DEF FormInv, AsPressed
    <3> QED BY <3>1, <3>2
  <2>13. AsListed'
    BY <2>1, <2>3, <2>5, <1>2 DEF FormInv, AsListed, FaithfulList
  <2> QED BY <2>7, <2>8, <2>9, <2>11, <2>12, <2>13, <1>4 DEF FormInv
<1>7. CASE TypeOf(i) # "checkbox" /\ ~Grouped(i)
  <2> DEFINE v == ~widget[i]
             w == ~wanted[i]
  <2>1. TypeOf(i) = "radio"
    BY <1>3, <1>7 DEF Toggles
  <2>2. widget' = [widget EXCEPT ![i] = v] /\ wanted' = [wanted EXCEPT ![i] = w] /\ checked' = checked
    BY <1>1, <1>7 DEF ToggleButton
  <2> HIDE DEF v, w
  <2>3. \A n \in Field : n # i => wanted'[n] = wanted[n] /\ widget'[n] = widget[n]
    BY <2>2, <1>3 DEF FormTypes
  <2>4. FormTypes'
    BY <2>2, <1>1, <1>2, <1>3 DEF FormTypes
  <2>5. AsTyped' /\ ValueKept' /\ AsTicked'
    BY <2>1, <2>2, <2>3, <1>2 DEF FormInv, AsTyped, ValueKept, AsTicked, Plain
  <2>6. OneOfEach' /\ AsPressed'
    BY <2>2, <2>3, <1>2, <1>7 DEF FormInv, OneOfEach, OneOn, AsPressed
  <2>7. AsListed'
    BY <2>1, <2>3, <1>2 DEF FormInv, AsListed, FaithfulList
  <2> QED BY <2>4, <2>5, <2>6, <2>7, <1>4 DEF FormInv
<1> QED BY <1>5, <1>6, <1>7

----------------------------------------------------------------------------
(* What is sent                                                            *)

\* What the data of a form is made of.
Names == {"x", "y"} \cup {fields[i].name : i \in Field}
Values == {Escaped("0")} \cup {Escaped(Default(i)) : i \in Field} \cup {[text |-> attr[i], escaped |-> FALSE] : i \in Field}
Data == {"&"} \cup {[name |-> n, value |-> v] : n \in Names, v \in Values}

\* What a field adds is a record of the fold.
LEMMA ContributionTypes ==
  ASSUME NEW i \in Field, NEW b
  PROVE  Contribution(i, b).data \in Seq(Data) /\ Contribution(i, b).asks \in BOOLEAN
         /\ Contribution(i, b) \in [data : Seq(Data), asks : BOOLEAN]
<1>1. \A n \in Names : \A v \in Values : [name |-> n, value |-> v] \in Data
  BY DEF Data
<1>2. AreaText(i) \in Seq(Data)
  <2>1. fields[i].name \in Names /\ [text |-> attr[i], escaped |-> FALSE] \in Values
    BY DEF Names, Values
  <2>2. [name |-> fields[i].name, value |-> [text |-> attr[i], escaped |-> FALSE]] \in Data
    BY <1>1, <2>1
  <2> QED BY <2>2 DEF AreaText
<1>3. Pair(fields[i].name, Default(i)) \in Seq(Data)
  <2>1. fields[i].name \in Names /\ Escaped(Default(i)) \in Values
    BY DEF Names, Values
  <2>2. [name |-> fields[i].name, value |-> Escaped(Default(i))] \in Data
    BY <1>1, <2>1
  <2> QED BY <2>2 DEF Pair
<1>4. Where(i) \in Seq(Data)
  <2>1. [name |-> "x", value |-> Escaped("0")] \in Data /\ [name |-> "y", value |-> Escaped("0")] \in Data
    BY <1>1 DEF Names, Values
  <2>2. "&" \in Data
    BY DEF Data
  <2>3. Point \in Seq(Data) /\ <<"&">> \in Seq(Data) /\ <<>> \in Seq(Data)
    BY <2>1, <2>2 DEF Point
  <2>4. Point \o <<"&">> \in Seq(Data)
    BY <2>3, ConcatProperties
  <2> QED BY <2>3, <2>4 DEF Where
<1>5. Where(i) \o Pair(fields[i].name, Default(i)) \in Seq(Data)
  BY <1>3, <1>4, ConcatProperties
<1> DEFINE c == Contribution(i, b)
<1>6. \/ c = [data |-> <<>>, asks |-> FALSE]
      \/ c = [data |-> AreaText(i), asks |-> FALSE]
      \/ c = [data |-> Where(i) \o Pair(fields[i].name, Default(i)), asks |-> TRUE]
  BY DEF Contribution, Silent
<1> HIDE DEF c
<1>7. c.data \in Seq(Data) /\ c.asks \in BOOLEAN /\ c \in [data : Seq(Data), asks : BOOLEAN]
  <2> DEFINE S == Seq(Data)
             d == Where(i) \o Pair(fields[i].name, Default(i))
  <2>1. <<>> \in S /\ AreaText(i) \in S /\ d \in S
    BY <1>2, <1>5
  <2>2. c = [data |-> <<>>, asks |-> FALSE] \/ c = [data |-> AreaText(i), asks |-> FALSE] \/ c = [data |-> d, asks |-> TRUE]
    BY <1>6
  <2> HIDE DEF S, d
  <2>3. c.data \in S /\ c.asks \in BOOLEAN /\ c \in [data : S, asks : BOOLEAN]
    <3>1. ASSUME NEW e \in S, NEW q \in BOOLEAN, c = [data |-> e, asks |-> q]
          PROVE  c.data \in S /\ c.asks \in BOOLEAN /\ c \in [data : S, asks : BOOLEAN]
      BY <3>1
    <3> QED BY <2>1, <2>2, <3>1
  <2> QED BY <2>3 DEF S
<1> QED BY <1>7 DEF c

\* What a field adds is what a server should be told of it.
LEMMA FieldIsTold ==
  ASSUME FormInv, NEW i \in Field, NEW b \in Field, i \in Inputs(b) => Faithful(i)
  PROVE  /\ Contribution(i, b).data = Told(i, b)
         /\ Told(i, b) # <<>> => Contribution(i, b).asks \/ (i \in Inputs(b) /\ TypeOf(i) = "textarea")
<1> DEFINE c == Contribution(i, b)
           name == fields[i].name
           pair == Where(i) \o Pair(name, Default(i))
<1>1. CASE i \notin Inputs(b)
  BY <1>1 DEF Contribution, Silent, Told
<1>2. CASE i \in Inputs(b)
  <2>1. FaithfulName(i) /\ TypeOf(i) \in FieldType /\ fields \in Pages
    BY <1>2, FieldFacts DEF Faithful, FormInv, FormTypes
  <2>2. TypeOf(i) # "image" => pair = Pair(name, Default(i))
    <3>1. Pair(name, Default(i)) \in Seq({Pair(name, Default(i))[1]})
      BY DEF Pair
    <3> QED BY <3>1, ConcatEmptySeq DEF Where
  <2>3. TypeOf(i) # "textarea" /\ Submitted(i, b) => c.data = pair /\ c.asks = TRUE
    BY <1>2 DEF Contribution
  <2>4. TypeOf(i) # "textarea" /\ ~Submitted(i, b) => c.data = <<>>
    BY <1>2 DEF Contribution, Silent
  <2>5. TypeOf(i) = "textarea" => c.data = AreaText(i)
    BY <1>2 DEF Contribution
  <2>6. TypeOf(i) \in Plain => wanted[i] = attr[i]
    BY DEF FormInv, AsTyped
  <2> HIDE DEF c, pair
  <2>7. CASE TypeOf(i) = "text"
    <3>1. Submitted(i, b) <=> name # None
      BY <2>7 DEF Submitted, Toggles
    <3>2. Default(i) = wanted[i]
      BY <2>6, <2>7 DEF Default, Plain
    <3>3. Told(i, b) = IF name = None THEN <<>> ELSE Pair(name, wanted[i])
      BY <1>2, <2>7 DEF Told, Buttons, Toggles
    <3> QED BY <2>2, <2>3, <2>4, <2>7, <3>1, <3>2, <3>3 DEF c
  <2>8. CASE TypeOf(i) = "textarea"
    <3>1. FaithfulArea(i) /\ name # None
      BY <1>2, <2>1, <2>8 DEF Faithful, FaithfulName
    <3>2. Told(i, b) = Pair(name, wanted[i]) /\ wanted[i] = attr[i]
      BY <1>2, <2>6, <2>8, <3>1 DEF Told, Buttons, Toggles, Plain
    <3>3. AreaText(i) = Pair(name, attr[i])
      <4>1. (attr[i] \in Special) = FALSE
        BY <3>1 DEF FaithfulArea
      <4>2. Escaped(attr[i]) = [text |-> attr[i], escaped |-> FALSE]
        BY <4>1, Zenon DEF Escaped
      <4> QED BY <4>2 DEF AreaText, Pair
    <3> QED BY <1>2, <2>5, <2>8, <3>2, <3>3 DEF c
  <2>9. CASE TypeOf(i) = "hidden"
    <3>1. Submitted(i, b) /\ name # None
      BY <2>1, <2>9 DEF Submitted, FaithfulName, Toggles
    <3>2. Told(i, b) = Pair(name, wanted[i]) /\ wanted[i] = attr[i] /\ Default(i) = attr[i]
      BY <1>2, <2>6, <2>9, <3>1 DEF Told, Buttons, Toggles, Plain, Default
    <3> QED BY <2>2, <2>3, <2>9, <3>1, <3>2 DEF c
  <2>10. CASE TypeOf(i) = "checkbox"
    <3>1. name # None /\ wanted[i] = checked[i] /\ attr[i] = fields[i].value
      BY <2>1, <2>10 DEF FaithfulName, FormInv, AsTicked, ValueKept, Toggles
    <3>2. Submitted(i, b) <=> checked[i]
      BY <2>10 DEF Submitted, Toggles
    <3>3. Default(i) = IF fields[i].value = None THEN "on" ELSE fields[i].value
      BY <2>10, <3>1 DEF Default
    <3>4. Told(i, b) = IF ~wanted[i] THEN <<>> ELSE Pair(name, Default(i))
      BY <1>2, <2>10, <3>1, <3>3 DEF Told, Buttons, Toggles
    <3> QED BY <2>2, <2>3, <2>4, <2>10, <3>1, <3>2, <3>4 DEF c
  <2>11. CASE TypeOf(i) = "radio"
    <3>1. FaithfulRadio(i) /\ name # None
      BY <1>2, <2>1, <2>11 DEF Faithful, FaithfulName
    <3>2. wanted[i] = checked[i] /\ attr[i] = fields[i].value /\ fields[i].value # None
      BY <2>11, <3>1 DEF FormInv, AsPressed, ValueKept, Toggles, Grouped, OneForm, FaithfulRadio
    <3>3. Submitted(i, b) <=> checked[i]
      BY <2>11 DEF Submitted, Toggles
    <3>4. Default(i) = fields[i].value
      BY <2>11, <3>2 DEF Default
    <3>5. Told(i, b) = IF ~wanted[i] THEN <<>> ELSE Pair(name, Default(i))
      BY <1>2, <2>11, <3>1, <3>2, <3>4 DEF Told, Buttons, Toggles
    <3> QED BY <2>2, <2>3, <2>4, <2>11, <3>2, <3>3, <3>5 DEF c
  <2>12. CASE TypeOf(i) = "select"
    <3>1. FaithfulList(i) /\ name # None
      BY <1>2, <2>1, <2>12 DEF Faithful, FaithfulName
    <3>2. wanted[i] \in DOMAIN fields[i].options /\ attr[i] = fields[i].options[wanted[i]].value
      BY <2>12, <3>1 DEF FormInv, AsListed
    <3>3. Items(i) = fields[i].options
      BY <2>1, <3>1, ListStarts
    <3>4. attr[i] # None
      BY <3>1, <3>2 DEF FaithfulList, ToSet
    <3>5. Submitted(i, b) /\ Default(i) = attr[i]
      BY <2>12, <3>4 DEF Submitted, Default, Toggles
    <3>6. Told(i, b) = Pair(name, attr[i])
      BY <1>2, <2>12, <3>1, <3>2, <3>3 DEF Told, Buttons, Toggles
    <3> QED BY <2>2, <2>3, <2>12, <3>5, <3>6 DEF c
  <2>13. CASE TypeOf(i) = "submit"
    <3>1. Submitted(i, b) <=> i = b /\ name # None
      BY <2>13 DEF Submitted, Toggles
    <3>2. Told(i, b) = IF i = b /\ name # None THEN Pair(name, wanted[i]) ELSE <<>>
      BY <1>2, <2>13 DEF Told, Buttons, Toggles
    <3>3. Default(i) = wanted[i]
      BY <2>6, <2>13 DEF Default, Plain
    <3> QED BY <2>2, <2>3, <2>4, <2>13, <3>1, <3>2, <3>3 DEF c
  <2>14. CASE TypeOf(i) = "image"
    <3>1. name # None
      BY <2>1, <2>14 DEF FaithfulName
    <3>2. Submitted(i, b) <=> i = b
      BY <2>14 DEF Submitted, Toggles
    <3>3. Told(i, b) = IF i = b THEN Point \o <<"&">> \o Pair(name, wanted[i]) ELSE <<>>
      BY <1>2, <2>14, <3>1 DEF Told, Buttons, Toggles
    <3>4. Default(i) = wanted[i]
      BY <2>6, <2>14 DEF Default, Plain
    <3>5. pair = Point \o <<"&">> \o Pair(name, wanted[i])
      BY <2>14, <3>4 DEF pair, Where
    <3> QED BY <2>3, <2>4, <2>14, <3>2, <3>3, <3>5 DEF c
  <2> QED BY <2>1, <2>7, <2>8, <2>9, <2>10, <2>11, <2>12, <2>13, <2>14 DEF FieldType
<1> QED BY <1>1, <1>2

\* The data is a fold of what the fields add.
LEMMA TogetherFolded == \A parts : Together(parts) = Contributions!Folded(Start, parts).data
BY DEF Together, Start, FoldLeft, MapThenFoldSet, Max, Contributions!Folded, Contributions!FoldLeft, Contributions!MapThenFoldSet, Contributions!Max

\* The wanted data is a fold of what a server should be told.
LEMMA JoinedFolded == \A parts : Joined(parts) = Joins!Folded(<<>>, parts)
BY DEF Joined, FoldLeft, MapThenFoldSet, Max, Joins!Folded, Joins!FoldLeft, Joins!MapThenFoldSet, Joins!Max

\* With FormInv, what is sent is what the user wanted.
LEMMA SentAsWanted == FormInv => FormIsSent
<1> SUFFICES ASSUME FormInv, sent.button # 0, \A i \in Inputs(sent.button) : Faithful(i)
             PROVE  sent.data = Joined([i \in Field |-> Told(i, sent.button)])
  BY DEF FormIsSent
<1> DEFINE b == sent.button
           parts == [i \in Field |-> Contribution(i, b)]
           told == [i \in Field |-> Told(i, b)]
           n == Len(fields)
<1>1. Nothing.button = 0
  BY DEF Nothing
<1>2. b \in Field /\ sent.data = ProcessedData(b)
  BY <1>1 DEF FormInv, AsSent
<1>3. sent.data = Together(parts)
  BY <1>2 DEF ProcessedData
<1>4. n \in Nat /\ Field = 1 .. n
  BY FieldFacts DEF FormInv, FormTypes
<1> HIDE DEF b, n
<1>5. \A i \in Inputs(b) : Faithful(i)
  BY DEF b
<1>6. \A i \in Field : parts[i].data = told[i] /\ told[i] \in Seq(Data)
                      /\ parts[i] \in [data : Seq(Data), asks : BOOLEAN]
  BY <1>2, <1>5, FieldIsTold, ContributionTypes
<1>7. \A i \in Field : told[i] # <<>> => parts[i].asks \/ (i \in Inputs(b) /\ TypeOf(i) = "textarea")
  BY <1>2, <1>5, FieldIsTold
<1>8. \A i, j \in Field : i \in Inputs(b) /\ TypeOf(i) = "textarea" /\ j > i => told[j] = <<>>
  <2> SUFFICES ASSUME NEW i \in Field, NEW j \in Field, i \in Inputs(b), TypeOf(i) = "textarea", j > i
               PROVE  told[j] = <<>>
    OBVIOUS
  <2>1. FaithfulArea(i)
    BY <1>5 DEF Faithful
  <2>2. j \notin Inputs(b)
    BY <2>1 DEF FaithfulArea, Inputs
  <2> QED BY <2>2 DEF Told
<1>9. /\ parts \in [1 .. n -> [data : Seq(Data), asks : BOOLEAN]] /\ told \in [1 .. n -> Seq(Data)]
      /\ \A k \in 1 .. n : parts[k].data = told[k]
  BY <1>4, <1>6
<1> HIDE DEF parts, told
<1>10. \A k \in 1 .. n : told[k] # <<>> => parts[k].asks \/ \A j \in k + 1 .. n : told[j] = <<>>
  BY <1>4, <1>7, <1>8
<1>11. "&" \in Data
  BY DEF Data
<1>12. Contributions!Folded(Start, parts).data = Joins!Folded(<<>>, told)
  BY <1>4, <1>9, <1>10, <1>11, PartsAreJoined
<1>13. sent.data = Joined(told)
  BY <1>3, <1>12, TogetherFolded, JoinedFolded
<1> QED BY <1>13 DEF told, b

\* However a form is filled in, and its page rendered again, it sends what the user wants of
\* each field, in order and joined with &, when FaithfulName and the others hold of its fields.
THEOREM FormsAreSent == FormSpec => []FormIsSent
<1>1. FormInv /\ [FormNext]_formVars => FormInv'
  <2> SUFFICES ASSUME FormInv, [FormNext]_formVars PROVE FormInv'
    OBVIOUS
  <2>1. CASE FormNext
    BY <2>1, RenderStep, TouchSteps, ToggleStep, ChooseStep, TypeStep, SubmitStep DEF FormNext
  <2>2. CASE UNCHANGED formVars
    <3>1. UNCHANGED <<fields, checked, attr, widget, wanted, again, touched, open, sent>>
      BY <2>2 DEF formVars
    <3>2. AsSent'
      BY <3>1, SamePage, SameData DEF FormInv, AsSent
    <3> QED BY <3>1, <3>2, OnlyTouched DEF FormInv, FormTypes
  <2> QED BY <2>1, <2>2
<1> QED BY FormStarts, <1>1, SentAsWanted, PTL DEF FormSpec
=============================================================================
