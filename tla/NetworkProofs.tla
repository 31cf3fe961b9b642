---------------------------- MODULE NetworkProofs ----------------------------
(***************************************************************************)
(* What CookieJar and Cache promise for any number of hosts, pages, cookies *)
(* and downloads, over any length of time.                                 *)
(* Cookies: that a name is in the jar once for each domain, and what is    *)
(* saved is in its file, needs what addCookieHeader and gcExpiredCookies   *)
(* rely on: of two cookies of a name the first takes nothing that is set   *)
(* for the second (Apart), and a cookie that is not saved has its date from *)
(* a line of a file that it was the first to match (FromFile).             *)
(* Copies: IInv says what a load can rely on until another one that was    *)
(* nested in it has ended (Held): the files of its page are blank, and the *)
(* headers that the parser has read are those of its own copy.             *)
(***************************************************************************)
EXTENDS Cache, CookieJar, WellFoundedInduction, TLAPS

Adding    == INSTANCE FoldTheorems WITH Op <- AddCookieHeader
Saving    == INSTANCE FoldTheorems WITH Op <- Save
Removing  == INSTANCE FoldTheorems WITH Op <- WriteGone
Selecting == INSTANCE FoldTheorems WITH Op <- Keep

\* Domains that a server can set: with a dot only those of two parts.
SetDomains == {d \in Domains : d.dot => TopLevel[d.host] = d.host}

\* Lines with one of the first v values, and those of the file of a host.
Lines(v) ==
  [name : Names, value : 1 .. v, domain : SetDomains, path : {k.path : k \in Kinds},
   expires : Nat \cup {Session}, secure : {k.secure : k \in Kinds}]
FileLines(s, v) == {l \in Lines(v) : l.domain.host = s /\ l.expires # Session}

Cookies(v) == [line : Lines(v), saved : BOOLEAN]
CookieFiles(v) ==
  {fs \in [Servers -> Seq(Lines(v))] : \A s \in Servers : fs[s] \in Seq(FileLines(s, v))}

\* MatchesDomain, for what a server can set: only the host matters.
Covers(d, h) ==
  \/ d.host = h
  \/ Host(TopLevel[h]) = d
  \/ d.dot /\ TopLevel[d.host] = TopLevel[h]

\* A cookie takes what is set with its name for the domains it matches.
Apart(jar) ==
  \A i, j \in 1 .. Len(jar) :
    jar[i].line.name = jar[j].line.name /\ i < j
      => ~Covers(jar[i].line.domain, jar[j].line.domain.host)

OneOfEach(lines) ==
  \A i, j \in 1 .. Len(lines) : lines[i].name = lines[j].name => i = j

InFile(fs, l) == l \in Range(fs[l.domain.host])

OnDisk(jar, fs) ==
  \A i \in 1 .. Len(jar) :
    jar[i].saved /\ jar[i].line.expires # Session => InFile(fs, jar[i].line)

\* What is not saved has its date from a line of a file, and was the first to match it.
FirstFor(jar, i, l) ==
  /\ l.name = jar[i].line.name /\ l.expires = jar[i].line.expires
  /\ Covers(jar[i].line.domain, l.domain.host)
  /\ \A j \in 1 .. Len(jar) :
       jar[j].line.name = l.name /\ Covers(jar[j].line.domain, l.domain.host) => i <= j
FromFile(jar, fs) ==
  \A i \in 1 .. Len(jar) :
    ~jar[i].saved /\ jar[i].line.expires # Session
      => \E s \in Servers : \E l \in Range(fs[s]) : FirstFor(jar, i, l)

GoodFiles(v) == {fs \in CookieFiles(v) : \A s \in Servers : OneOfEach(fs[s])}
GoodJars(v, fs) == {jar \in Seq(Cookies(v)) : Apart(jar) /\ OnDisk(jar, fs) /\ FromFile(jar, fs)}

\* The inductive invariant of the cookies.
JarInv ==
  /\ time \in Nat \ {0} /\ values \in Nat
  /\ domain \in Servers \cup {NoDomain} /\ sent.server \in Servers \cup {NoDomain}
  /\ accepted \subseteq Servers /\ allowList \subseteq Servers
  /\ headers \subseteq [from : Servers, line : Lines(values)]
  /\ cookieFiles \in GoodFiles(values) /\ cookies \in GoodJars(values, cookieFiles)

----------------------------------------------------------------------------
(* Sequences                                                               *)

LEMMA RangeOf ==
  ASSUME NEW S, NEW seq \in Seq(S)
  PROVE  \A x : x \in Range(seq) <=> \E k \in 1 .. Len(seq) : x = seq[k]
  BY DEF Range

\* A set of numbers has a least one.
LEMMA LeastOf ==
  ASSUME NEW T \in SUBSET Nat, T # {}
  PROVE  Min(T) \in T /\ \A y \in T : Min(T) <= y
<1>1. IsWellFoundedOn(OpToRel(<, Nat), Nat)
  BY NatLessThanWellFounded
<1>2. PICK x \in T : \A y \in T : ~(<<y, x>> \in OpToRel(<, Nat))
  BY <1>1, WFMin
<1>3. \A y \in T : ~(y < x)
  BY <1>2 DEF OpToRel
<1>4. \E z \in T : \A y \in T : z <= y
  <2>1. \A y \in T : y \in Nat /\ x \in Nat
    OBVIOUS
  <2>2. \A y \in T : x <= y
    BY <1>3, <2>1
  <2> QED BY <2>2
<1> QED BY <1>4 DEF Min

\* The elements of a selection are those that are kept, in their order: at[k] is where
\* the k-th comes from.
Selection(seq, kept, n, sel) ==
  \E at \in [1 .. Len(sel) -> 1 .. n] :
    /\ \A k \in 1 .. Len(sel) : sel[k] = seq[at[k]] /\ kept[at[k]]
    /\ \A j, k \in 1 .. Len(sel) : j < k => at[j] < at[k]
    /\ \A i \in 1 .. n : kept[i] => \E k \in 1 .. Len(sel) : at[k] = i

\* One more element is kept, or not.
LEMMA KeepOne ==
  ASSUME NEW S, NEW seq \in Seq(S), NEW kept \in [1 .. Len(seq) -> BOOLEAN],
         NEW n \in 1 .. Len(seq), NEW sel \in Seq(S), Selection(seq, kept, n - 1, sel)
  PROVE  /\ kept[n] => /\ Append(sel, seq[n]) \in Seq(S)
                       /\ Selection(seq, kept, n, Append(sel, seq[n]))
         /\ ~kept[n] => Selection(seq, kept, n, sel)
<1>1. PICK at \in [1 .. Len(sel) -> 1 .. n - 1] :
        /\ \A k \in 1 .. Len(sel) : sel[k] = seq[at[k]] /\ kept[at[k]]
        /\ \A j, k \in 1 .. Len(sel) : j < k => at[j] < at[k]
        /\ \A i \in 1 .. n - 1 : kept[i] => \E k \in 1 .. Len(sel) : at[k] = i
  BY DEF Selection
<1>2. n \in Nat /\ n - 1 \in Nat /\ seq[n] \in S /\ \A k \in 1 .. Len(sel) : at[k] \in Nat /\ at[k] < n
  OBVIOUS
<1>3. ASSUME kept[n]
      PROVE  Append(sel, seq[n]) \in Seq(S) /\ Selection(seq, kept, n, Append(sel, seq[n]))
  <2> DEFINE new == Append(sel, seq[n])
             to  == [k \in 1 .. Len(sel) + 1 |-> IF k = Len(sel) + 1 THEN n ELSE at[k]]
  <2>1. /\ new \in Seq(S) /\ Len(new) = Len(sel) + 1 /\ new[Len(sel) + 1] = seq[n]
        /\ \A k \in 1 .. Len(sel) : new[k] = sel[k]
    BY <1>2
  <2>2. /\ to \in [1 .. Len(new) -> 1 .. n] /\ to[Len(sel) + 1] = n
        /\ \A k \in 1 .. Len(sel) : to[k] = at[k]
    BY <2>1, <1>2
  <2> HIDE DEF new, to
  <2>3. \A k \in 1 .. Len(new) : k \in 1 .. Len(sel) \/ k = Len(sel) + 1
    BY <2>1
  <2>4. \A k \in 1 .. Len(new) : new[k] = seq[to[k]] /\ kept[to[k]]
    BY <2>1, <2>2, <2>3, <1>1, <1>3
  <2>5. \A j, k \in 1 .. Len(new) : j < k => to[j] < to[k]
    <3> SUFFICES ASSUME NEW j \in 1 .. Len(new), NEW k \in 1 .. Len(new), j < k PROVE to[j] < to[k]
      OBVIOUS
    <3>1. j \in 1 .. Len(sel)
      BY <2>1
    <3>2. CASE k \in 1 .. Len(sel)
      BY <3>1, <3>2, <2>2, <1>1
    <3>3. CASE k = Len(sel) + 1
      BY <3>1, <3>3, <2>2, <1>2
    <3> QED BY <3>2, <3>3, <2>3
  <2>6. \A i \in 1 .. n : kept[i] => \E k \in 1 .. Len(new) : to[k] = i
    <3> SUFFICES ASSUME NEW i \in 1 .. n, kept[i] PROVE \E k \in 1 .. Len(new) : to[k] = i
      OBVIOUS
    <3>1. CASE i = n
      BY <3>1, <2>1, <2>2
    <3>2. CASE i # n
      <4>1. PICK k \in 1 .. Len(sel) : at[k] = i
        BY <3>2, <1>1
      <4> QED BY <4>1, <2>1, <2>2
    <3> QED BY <3>1, <3>2
  <2> QED BY <2>1, <2>2, <2>4, <2>5, <2>6 DEF Selection, new
<1>4. ASSUME ~kept[n] PROVE Selection(seq, kept, n, sel)
  <2>1. at \in [1 .. Len(sel) -> 1 .. n]
    BY <1>2
  <2>2. \A i \in 1 .. n : kept[i] => i \in 1 .. n - 1
    BY <1>4
  <2> QED BY <2>1, <2>2, <1>1 DEF Selection
<1> QED BY <1>3, <1>4

LEMMA SelectedIs ==
  ASSUME NEW S, NEW seq \in Seq(S), NEW kept \in [1 .. Len(seq) -> BOOLEAN]
  PROVE  Selected(seq, kept) \in Seq(S) /\ Selection(seq, kept, Len(seq), Selected(seq, kept))
<1> DEFINE items == [i \in DOMAIN seq |-> [it |-> seq[i], kept |-> kept[i]]]
           Good  == [n \in 0 .. Len(seq) |-> {sel \in Seq(S) : Selection(seq, kept, n, sel)}]
<1>1. Selected(seq, kept) = Selecting!Folded(<<>>, items)
  BY DEF Selected, FoldLeft, MapThenFoldSet, Max,
         Selecting!Folded, Selecting!FoldLeft, Selecting!MapThenFoldSet, Selecting!Max
<1>2. /\ items \in Seq([it : S, kept : BOOLEAN]) /\ Len(items) = Len(seq)
      /\ \A n \in 1 .. Len(seq) : items[n].it = seq[n] /\ items[n].kept = kept[n]
  <2>1. DOMAIN seq = 1 .. Len(seq) /\ Len(seq) \in Nat
    OBVIOUS
  <2>2. \A n \in 1 .. Len(seq) : [it |-> seq[n], kept |-> kept[n]] \in [it : S, kept : BOOLEAN]
    OBVIOUS
  <2>3. items \in [1 .. Len(seq) -> [it : S, kept : BOOLEAN]]
    BY <2>1, <2>2
  <2>4. items \in Seq([it : S, kept : BOOLEAN]) /\ Len(items) = Len(seq)
    BY <2>1, <2>3
  <2> QED BY <2>1, <2>4
<1>3. <<>> \in Good[0]
  <2>1. [k \in 1 .. 0 |-> 0] \in [1 .. Len(<<>>) -> 1 .. 0]
    OBVIOUS
  <2> QED BY <2>1 DEF Selection
<1> HIDE DEF items
<1>4. ASSUME NEW n \in 1 .. Len(seq), NEW a \in Good[n - 1]
      PROVE  Keep(a, items[n]) \in Good[n]
  <2>1. n - 1 \in 0 .. Len(seq) /\ n \in 0 .. Len(seq)
    OBVIOUS
  <2>2. a \in Seq(S) /\ Selection(seq, kept, n - 1, a)
    BY <2>1, <1>4
  <2>3. /\ kept[n] => /\ Append(a, seq[n]) \in Seq(S)
                      /\ Selection(seq, kept, n, Append(a, seq[n]))
        /\ ~kept[n] => Selection(seq, kept, n, a)
    BY <2>2, KeepOne
  <2>4. Keep(a, items[n]) = IF kept[n] THEN Append(a, seq[n]) ELSE a
    BY <1>2 DEF Keep
  <2> QED BY <2>1, <2>2, <2>3, <2>4
<1> HIDE DEF Good
<1>5. Selecting!Folded(<<>>, items) \in Good[Len(items)]
  BY <1>2, <1>3, <1>4, Selecting!FoldStaysGood
<1> QED BY <1>1, <1>2, <1>5 DEF Good

----------------------------------------------------------------------------
(* Domains and lines                                                       *)

LEMMA LineFields ==
  ASSUME NEW v \in Nat, NEW l \in Lines(v)
  PROVE  /\ l.name \in Names /\ l.value \in 1 .. v /\ l.domain \in SetDomains
         /\ l.path \in {k.path : k \in Kinds} /\ l.secure \in {k.secure : k \in Kinds}
         /\ l.expires \in Nat \cup {Session} /\ l.domain \in Domains /\ l.domain.host \in Servers
  BY DEF Lines, SetDomains, Domains

LEMMA CookieFields ==
  ASSUME NEW v \in Nat, NEW c \in Cookies(v)
  PROVE  c.line \in Lines(v) /\ c.saved \in BOOLEAN
  BY DEF Cookies

\* Two domains of a host that can be set: one has a dot only if the host has two parts.
LEMMA SameHost ==
  ASSUME NEW d \in SetDomains, NEW e \in SetDomains, d.host = e.host
  PROVE  d = e \/ (TopLevel[d.host] = d.host /\ Host(d.host) \in {d, e})
<1>1. /\ d.host \in Servers /\ d.dot \in BOOLEAN /\ d = [host |-> d.host, dot |-> d.dot]
      /\ e.host \in Servers /\ e.dot \in BOOLEAN /\ e = [host |-> e.host, dot |-> e.dot]
      /\ d.dot => TopLevel[d.host] = d.host
      /\ e.dot => TopLevel[e.host] = e.host
  BY DEF SetDomains, Domains
<1>2. CASE d.dot = e.dot
  BY <1>1, <1>2
<1>3. CASE d.dot # e.dot
  BY <1>1, <1>3 DEF Host
<1> QED BY <1>2, <1>3

LEMMA CoversIsMatches ==
  ASSUME NEW v \in Nat, NEW c \in Cookies(v), NEW d \in SetDomains
  PROVE  MatchesDomain(c, d) <=> Covers(c.line.domain, d.host)
<1>1. c.line.domain \in SetDomains
  BY CookieFields, LineFields
<1>2. d = c.line.domain => Covers(c.line.domain, d.host)
  BY DEF Covers
<1>3. ASSUME d.host = c.line.domain.host PROVE MatchesDomain(c, d)
  <2>1. CASE d = c.line.domain
    BY <2>1 DEF MatchesDomain
  <2>2. CASE TopLevel[d.host] = d.host /\ Host(d.host) = c.line.domain
    BY <2>2 DEF MatchesDomain
  <2>3. CASE TopLevel[d.host] = d.host /\ Host(d.host) = d /\ d # c.line.domain
    <3>1. d.dot = FALSE
      BY <2>3 DEF Host
    <3>2. c.line.domain.dot
      BY <1>1, <1>3, <2>3, <3>1 DEF SetDomains, Domains, Host
    <3> QED BY <1>3, <2>3, <3>2 DEF MatchesDomain
  <2> QED BY <1>1, <1>3, <2>1, <2>2, <2>3, SameHost
<1> QED BY <1>2, <1>3 DEF MatchesDomain, Covers

\* What is in the file of a host.
LEMMA FileFields ==
  ASSUME NEW v \in Nat, NEW fs \in CookieFiles(v), NEW s \in Servers, NEW l \in Range(fs[s])
  PROVE  l \in Lines(v) /\ l.domain.host = s /\ l.expires \in Nat /\ InFile(fs, l)
<1>1. fs[s] \in Seq(FileLines(s, v))
  BY DEF CookieFiles
<1>2. l \in FileLines(s, v)
  BY <1>1, RangeOf
<1> QED BY <1>2, LineFields DEF FileLines, InFile

\* What is typed stays typed when another value is set.
LEMMA MoreValues ==
  ASSUME NEW v \in Nat, NEW fs
  PROVE  /\ Lines(v) \subseteq Lines(v + 1)
         /\ CookieFiles(v) \subseteq CookieFiles(v + 1) /\ GoodFiles(v) \subseteq GoodFiles(v + 1)
         /\ GoodJars(v, fs) \subseteq GoodJars(v + 1, fs)
<1>1. Lines(v) \subseteq Lines(v + 1)
  BY DEF Lines
<1>2. Cookies(v) \subseteq Cookies(v + 1)
  BY <1>1 DEF Cookies
<1>3. \A s : FileLines(s, v) \subseteq FileLines(s, v + 1)
  BY <1>1 DEF FileLines
<1>4. Seq(Lines(v)) \subseteq Seq(Lines(v + 1)) /\ Seq(Cookies(v)) \subseteq Seq(Cookies(v + 1))
  BY <1>1, <1>2
<1>5. \A s : Seq(FileLines(s, v)) \subseteq Seq(FileLines(s, v + 1))
  BY <1>3
<1>6. CookieFiles(v) \subseteq CookieFiles(v + 1)
  BY <1>4, <1>5 DEF CookieFiles
<1> QED BY <1>1, <1>4, <1>6 DEF GoodFiles, GoodJars

----------------------------------------------------------------------------
(* addCookieHeader                                                         *)

First(jar, d, name, i) ==
  \/ /\ i = 0 /\ \A j \in 1 .. Len(jar) :
                    ~(jar[j].line.name = name /\ Covers(jar[j].line.domain, d.host))
  \/ /\ i \in 1 .. Len(jar)
     /\ jar[i].line.name = name /\ Covers(jar[i].line.domain, d.host)
     /\ \A j \in 1 .. Len(jar) :
          jar[j].line.name = name /\ Covers(jar[j].line.domain, d.host) => i <= j

\* hasCookieForDomain finds the first.
LEMMA HasFirst ==
  ASSUME NEW v \in Nat, NEW jar \in Seq(Cookies(v)), NEW d \in SetDomains, NEW name
  PROVE  First(jar, d, name, HasCookieForDomain(jar, d, name))
<1> DEFINE those == {i \in DOMAIN jar : MatchesDomain(jar[i], d) /\ jar[i].line.name = name}
<1>1. DOMAIN jar = 1 .. Len(jar) /\ Len(jar) \in Nat
  OBVIOUS
<1>2. \A i \in 1 .. Len(jar) :
        i \in those <=> (jar[i].line.name = name /\ Covers(jar[i].line.domain, d.host))
  BY <1>1, CoversIsMatches
<1>3. those \in SUBSET Nat /\ those \subseteq 1 .. Len(jar)
  BY <1>1
<1>4. HasCookieForDomain(jar, d, name) = IF those = {} THEN 0 ELSE Min(those)
  BY DEF HasCookieForDomain
<1> HIDE DEF those
<1>5. CASE those = {}
  BY <1>2, <1>4, <1>5 DEF First
<1>6. CASE those # {}
  <2>1. Min(those) \in those /\ \A j \in those : Min(those) <= j
    BY <1>3, <1>6, LeastOf
  <2> QED BY <1>2, <1>3, <1>4, <1>6, <2>1 DEF First
<1> QED BY <1>5, <1>6

\* What addCookieHeader makes of the jar: the i-th cookie has the new value.
Added(jar, line, new, i) ==
  /\ i \in 1 .. Len(new)
  /\ \/ i <= Len(jar) /\ Len(new) = Len(jar)
     \/ i = Len(jar) + 1 /\ Len(new) = Len(jar) + 1
  /\ \A j \in 1 .. Len(jar) : j # i => new[j] = jar[j]
  /\ ~new[i].saved /\ new[i].line.name = line.name /\ new[i].line.expires = line.expires
  /\ i \in 1 .. Len(jar) => /\ new[i].line.name = jar[i].line.name
                            /\ new[i].line.domain = jar[i].line.domain
                            /\ new[i].line.path = jar[i].line.path
                            /\ new[i].line.secure = jar[i].line.secure
  /\ i = Len(jar) + 1 => new[i].line = line
  /\ Covers(new[i].line.domain, line.domain.host)
  /\ \A j \in 1 .. Len(new) :
       new[j].line.name = line.name /\ Covers(new[j].line.domain, line.domain.host) => i <= j

LEMMA RenewedFields ==
  ASSUME NEW v \in Nat, NEW l \in Lines(v), NEW line \in Lines(v)
  PROVE  /\ Renewed(l, line) \in Lines(v)
         /\ Renewed(l, line).name = l.name /\ Renewed(l, line).domain = l.domain
         /\ Renewed(l, line).path = l.path /\ Renewed(l, line).secure = l.secure
         /\ Renewed(l, line).expires = line.expires
<1> DEFINE value == line.value
           expires == line.expires
<1>1. value \in 1 .. v /\ expires \in Nat \cup {Session}
  BY LineFields
<1>2. Renewed(l, line) = [l EXCEPT !.value = value, !.expires = expires]
  BY DEF Renewed
<1> HIDE DEF value
<1> DEFINE r == [l EXCEPT !.value = value]
<1>3. r \in Lines(v) /\ r.name = l.name /\ r.domain = l.domain /\ r.path = l.path /\ r.secure = l.secure
  BY <1>1 DEF Lines
<1>4. Renewed(l, line) = [r EXCEPT !.expires = expires]
  BY <1>2
<1> HIDE DEF r, expires
<1>5. [r EXCEPT !.expires = expires] \in Lines(v)
      /\ [r EXCEPT !.expires = expires].name = r.name
      /\ [r EXCEPT !.expires = expires].domain = r.domain
      /\ [r EXCEPT !.expires = expires].path = r.path
      /\ [r EXCEPT !.expires = expires].secure = r.secure
      /\ [r EXCEPT !.expires = expires].expires = expires
  BY <1>1, <1>3 DEF Lines
<1> QED BY <1>3, <1>4, <1>5 DEF expires

LEMMA AddedHeader ==
  ASSUME NEW v \in Nat, NEW jar \in Seq(Cookies(v)), NEW line \in Lines(v)
  PROVE  /\ AddCookieHeader(jar, line) \in Seq(Cookies(v))
         /\ \E i \in Nat : Added(jar, line, AddCookieHeader(jar, line), i)
<1> DEFINE n   == HasCookieForDomain(jar, line.domain, line.name)
           new == AddCookieHeader(jar, line)
<1>1. line.domain \in SetDomains /\ line.expires \in Nat \cup {Session}
  BY LineFields
<1>2. First(jar, line.domain, line.name, n)
  BY <1>1, HasFirst
<1>3. new = IF n = 0 THEN Append(jar, Unsaved(line))
            ELSE [jar EXCEPT ![n] = Unsaved(Renewed(jar[n].line, line))]
  BY DEF AddCookieHeader
<1>4. \A l \in Lines(v) : Unsaved(l) \in Cookies(v) /\ Unsaved(l).line = l /\ Unsaved(l).saved = FALSE
  BY DEF Unsaved, Cookies
<1> HIDE DEF n, new
<1>5. CASE n = 0
  <2>1. /\ new \in Seq(Cookies(v)) /\ Len(new) = Len(jar) + 1
        /\ new[Len(jar) + 1] = Unsaved(line)
        /\ \A j \in 1 .. Len(jar) : new[j] = jar[j]
    BY <1>3, <1>4, <1>5
  <2>2. \A j \in 1 .. Len(jar) :
          ~(jar[j].line.name = line.name /\ Covers(jar[j].line.domain, line.domain.host))
    BY <1>2, <1>5 DEF First
  <2>3. Covers(line.domain, line.domain.host)
    BY DEF Covers
  <2>4. Added(jar, line, new, Len(jar) + 1)
    BY <1>4, <2>1, <2>2, <2>3 DEF Added
  <2> QED BY <2>1, <2>4 DEF new
<1>6. CASE n # 0
  <2>1. /\ n \in 1 .. Len(jar) /\ n \in Nat
        /\ jar[n].line.name = line.name /\ Covers(jar[n].line.domain, line.domain.host)
        /\ \A j \in 1 .. Len(jar) :
             jar[j].line.name = line.name /\ Covers(jar[j].line.domain, line.domain.host) => n <= j
    BY <1>2, <1>6 DEF First
  <2> DEFINE c == Unsaved(Renewed(jar[n].line, line))
  <2>2. jar[n].line \in Lines(v)
    BY <2>1, CookieFields
  <2>3. /\ c \in Cookies(v) /\ ~c.saved /\ c.line.name = jar[n].line.name
        /\ c.line.domain = jar[n].line.domain /\ c.line.path = jar[n].line.path
        /\ c.line.secure = jar[n].line.secure /\ c.line.expires = line.expires
    BY <1>4, <2>2, RenewedFields
  <2> HIDE DEF c
  <2>4. /\ new \in Seq(Cookies(v)) /\ Len(new) = Len(jar) /\ new[n] = c
        /\ \A j \in 1 .. Len(jar) : j # n => new[j] = jar[j]
    BY <1>3, <1>6, <2>1, <2>3 DEF c
  <2>5. Added(jar, line, new, n)
    BY <2>1, <2>3, <2>4 DEF Added
  <2> QED BY <2>1, <2>4, <2>5 DEF new
<1> QED BY <1>5, <1>6

\* addCookieHeader keeps cookies apart, and what is saved.
LEMMA AddedKeeps ==
  ASSUME NEW v \in Nat, NEW jar \in Seq(Cookies(v)), NEW line \in Lines(v),
         NEW new \in Seq(Cookies(v)), NEW i \in Nat, Added(jar, line, new, i), NEW fs
  PROVE  /\ \A j \in 1 .. Len(new) : j \in 1 .. Len(jar) \/ (j = i /\ i = Len(jar) + 1)
         /\ \A j \in 1 .. Len(jar) : /\ j \in 1 .. Len(new)
                                     /\ new[j].line.name = jar[j].line.name
                                     /\ new[j].line.domain = jar[j].line.domain
                                     /\ new[j].line.path = jar[j].line.path
                                     /\ new[j].line.secure = jar[j].line.secure
         /\ Apart(jar) => Apart(new)
         /\ OnDisk(jar, fs) => OnDisk(new, fs)
<1>1. \A j \in 1 .. Len(new) : j \in 1 .. Len(jar) \/ (j = i /\ i = Len(jar) + 1)
  BY DEF Added
<1>2. \A j \in 1 .. Len(jar) : j # i => new[j] = jar[j]
  BY DEF Added
<1>3. \A j \in 1 .. Len(jar) : /\ j \in 1 .. Len(new)
                               /\ new[j].line.name = jar[j].line.name
                               /\ new[j].line.domain = jar[j].line.domain
                               /\ new[j].line.path = jar[j].line.path
                               /\ new[j].line.secure = jar[j].line.secure
  BY DEF Added
<1>4. ASSUME Apart(jar) PROVE Apart(new)
  <2> SUFFICES ASSUME NEW a \in 1 .. Len(new), NEW b \in 1 .. Len(new),
                      new[a].line.name = new[b].line.name, a < b,
                      Covers(new[a].line.domain, new[b].line.domain.host)
               PROVE  FALSE
    BY DEF Apart
  <2>1. a \in 1 .. Len(jar)
    BY <1>1
  <2>2. CASE b \in 1 .. Len(jar)
    BY <2>1, <2>2, <1>3, <1>4 DEF Apart
  <2>3. CASE b = i /\ i = Len(jar) + 1
    BY <2>1, <2>3 DEF Added
  <2> QED BY <1>1, <2>2, <2>3
<1>5. ASSUME OnDisk(jar, fs) PROVE OnDisk(new, fs)
  <2> SUFFICES ASSUME NEW a \in 1 .. Len(new), new[a].saved, new[a].line.expires # Session
               PROVE  InFile(fs, new[a].line)
    BY DEF OnDisk
  <2>1. a # i
    BY DEF Added
  <2> QED BY <2>1, <1>1, <1>2, <1>5 DEF OnDisk
<1> QED BY <1>1, <1>3, <1>4, <1>5

\* A line that is read is what its cookie has its date from.
LEMMA ReadLine ==
  ASSUME NEW v \in Nat, NEW fs \in GoodFiles(v), NEW jar \in GoodJars(v, fs),
         NEW s \in Servers, NEW line \in Range(fs[s])
  PROVE  AddCookieHeader(jar, line) \in GoodJars(v, fs)
<1>1. jar \in Seq(Cookies(v)) /\ Apart(jar) /\ OnDisk(jar, fs) /\ FromFile(jar, fs)
  BY DEF GoodJars
<1>2. line \in Lines(v)
  BY FileFields DEF GoodFiles
<1> DEFINE new == AddCookieHeader(jar, line)
<1>3. PICK i \in Nat : new \in Seq(Cookies(v)) /\ Added(jar, line, new, i)
  BY <1>1, <1>2, AddedHeader
<1> HIDE DEF new
<1>4. /\ \A j \in 1 .. Len(new) : j \in 1 .. Len(jar) \/ (j = i /\ i = Len(jar) + 1)
      /\ \A j \in 1 .. Len(jar) : /\ j \in 1 .. Len(new)
                                  /\ new[j].line.name = jar[j].line.name
                                  /\ new[j].line.domain = jar[j].line.domain
      /\ Apart(new) /\ OnDisk(new, fs)
  BY <1>1, <1>2, <1>3, AddedKeeps
<1>5. ASSUME NEW a \in 1 .. Len(new), ~new[a].saved, new[a].line.expires # Session
      PROVE  \E t \in Servers : \E l \in Range(fs[t]) : FirstFor(new, a, l)
  <2>1. CASE a = i
    <3>1. FirstFor(new, i, line)
      BY <1>3 DEF Added, FirstFor
    <3> QED BY <2>1, <3>1
  <2>2. CASE a # i
    <3>1. a \in 1 .. Len(jar) /\ new[a] = jar[a]
      BY <2>2, <1>3, <1>4 DEF Added
    <3>2. PICK t \in Servers : \E l \in Range(fs[t]) : FirstFor(jar, a, l)
      BY <3>1, <1>1, <1>5 DEF FromFile
    <3>3. PICK l \in Range(fs[t]) : FirstFor(jar, a, l)
      BY <3>2
    <3>4. ASSUME NEW j \in 1 .. Len(new),
                 new[j].line.name = l.name, Covers(new[j].line.domain, l.domain.host)
          PROVE  a <= j
      <4>1. CASE j \in 1 .. Len(jar)
        BY <4>1, <3>3, <3>4, <1>4 DEF FirstFor
      <4>2. CASE j = Len(jar) + 1
        BY <4>2, <3>1
      <4> QED BY <4>1, <4>2, <1>4
    <3>5. FirstFor(new, a, l)
      BY <3>1, <3>3, <3>4 DEF FirstFor
    <3> QED BY <3>5
  <2> QED BY <2>1, <2>2
<1>6. FromFile(new, fs)
  BY <1>5 DEF FromFile
<1> QED BY <1>3, <1>4, <1>6 DEF GoodJars, new

----------------------------------------------------------------------------
(* loadDomainCookies                                                       *)

ReadFile(jar, lines) == FoldLeft(AddCookieHeader, jar, lines)

LEMMA ReadIsFolded ==
  ASSUME NEW jar, NEW lines
  PROVE  ReadFile(jar, lines) = Adding!Folded(jar, lines)
  BY DEF ReadFile, FoldLeft, MapThenFoldSet, Max,
         Adding!Folded, Adding!FoldLeft, Adding!MapThenFoldSet, Adding!Max

LEMMA ReadKeeps ==
  ASSUME NEW v \in Nat, NEW fs \in GoodFiles(v), NEW jar \in GoodJars(v, fs), NEW s \in Servers
  PROVE  ReadFile(jar, fs[s]) \in GoodJars(v, fs)
<1> DEFINE lines == fs[s]
           Good  == [n \in 0 .. Len(lines) |-> GoodJars(v, fs)]
<1>1. lines \in Seq(Lines(v))
  BY DEF GoodFiles, CookieFiles
<1>2. jar \in Good[0]
  BY <1>1
<1>3. ASSUME NEW n \in 1 .. Len(lines), NEW a \in Good[n - 1]
      PROVE  AddCookieHeader(a, lines[n]) \in Good[n]
  <2>1. n - 1 \in 0 .. Len(lines) /\ n \in 0 .. Len(lines)
    OBVIOUS
  <2>2. lines[n] \in Range(fs[s])
    BY <1>1, RangeOf
  <2>3. a \in GoodJars(v, fs)
    BY <2>1, <1>3
  <2> QED BY <2>1, <2>2, <2>3, ReadLine
<1> HIDE DEF Good
<1>4. Adding!Folded(jar, lines) \in Good[Len(lines)]
  BY <1>1, <1>2, <1>3, Adding!FoldStaysGood
<1> QED BY <1>1, <1>4, ReadIsFolded DEF Good

LEMMA RequestLoads ==
  ASSUME JarInv, NEW s \in Servers
  PROVE  /\ LoadForRequest(s).jar \in GoodJars(values, cookieFiles)
         /\ LoadForRequest(s).domain \in Servers
<1>1. /\ values \in Nat /\ cookieFiles \in GoodFiles(values)
      /\ cookies \in GoodJars(values, cookieFiles)
  BY DEF JarInv
<1>2. TopLevel[s] \in Servers
  BY JarAssumption
<1>3. ASSUME NEW jar \in GoodJars(values, cookieFiles), NEW last, NEW t \in Servers
      PROVE  LoadDomain(jar, last, t) \in GoodJars(values, cookieFiles)
  BY <1>1, <1>3, ReadKeeps DEF LoadDomain, ReadFile
<1>4. LoadDomain(cookies, domain, s) \in GoodJars(values, cookieFiles)
  BY <1>1, <1>3
<1> QED BY <1>2, <1>3, <1>4 DEF LoadForRequest

----------------------------------------------------------------------------
(* CookieWriter                                                            *)

\* The lines that make way are those of the name.
LEMMA OthersAre ==
  ASSUME NEW S, NEW lines \in Seq(S), OneOfEach(lines), NEW c
  PROVE  /\ OtherLines(lines, c) \in Seq(S) /\ OneOfEach(OtherLines(lines, c))
         /\ \A l \in Range(OtherLines(lines, c)) : l.name # c.line.name
         /\ \A l \in Range(lines) : l.name # c.line.name => l \in Range(OtherLines(lines, c))
<1> DEFINE kept == [i \in DOMAIN lines |-> lines[i].name # c.line.name]
           rest == Selected(lines, kept)
<1>1. kept \in [1 .. Len(lines) -> BOOLEAN]
      /\ \A i \in 1 .. Len(lines) : kept[i] <=> lines[i].name # c.line.name
  <2>1. DOMAIN lines = 1 .. Len(lines)
    OBVIOUS
  <2>2. \A i \in 1 .. Len(lines) : (lines[i].name # c.line.name) \in BOOLEAN
    OBVIOUS
  <2>3. \A i \in 1 .. Len(lines) : kept[i] <=> lines[i].name # c.line.name
    BY <2>1
  <2>4. kept \in [1 .. Len(lines) -> BOOLEAN]
    BY <2>1, <2>2, Zenon
  <2> QED BY <2>3, <2>4
<1>2. OtherLines(lines, c) = rest
  BY DEF OtherLines
<1> HIDE DEF kept
<1>3. rest \in Seq(S) /\ Selection(lines, kept, Len(lines), rest)
  BY <1>1, SelectedIs
<1> HIDE DEF rest
<1>4. PICK at \in [1 .. Len(rest) -> 1 .. Len(lines)] :
        /\ \A k \in 1 .. Len(rest) : rest[k] = lines[at[k]] /\ kept[at[k]]
        /\ \A j, k \in 1 .. Len(rest) : j < k => at[j] < at[k]
        /\ \A i \in 1 .. Len(lines) : kept[i] => \E k \in 1 .. Len(rest) : at[k] = i
  BY <1>3 DEF Selection
<1>5. ASSUME NEW j \in 1 .. Len(rest), NEW k \in 1 .. Len(rest), rest[j].name = rest[k].name
      PROVE  j = k
  <2>1. at[j] = at[k]
    <3>1. /\ rest[j] = lines[at[j]] /\ rest[k] = lines[at[k]]
          /\ at[j] \in 1 .. Len(lines) /\ at[k] \in 1 .. Len(lines)
      BY <1>4
    <3>2. lines[at[j]].name = lines[at[k]].name
      BY <3>1, <1>5
    <3> QED BY <3>1, <3>2 DEF OneOfEach
  <2>2. ~(j < k) /\ ~(k < j)
    BY <1>4, <2>1
  <2> QED BY <2>2
<1>6. ASSUME NEW l \in Range(rest) PROVE l.name # c.line.name
  <2>1. PICK k \in 1 .. Len(rest) : l = rest[k]
    BY <1>3, RangeOf
  <2>2. l = lines[at[k]] /\ kept[at[k]] /\ at[k] \in 1 .. Len(lines)
    BY <1>4, <2>1
  <2> QED BY <1>1, <2>2
<1>7. ASSUME NEW l \in Range(lines), l.name # c.line.name PROVE l \in Range(rest)
  <2>1. PICK i \in 1 .. Len(lines) : l = lines[i]
    BY RangeOf
  <2>2. PICK k \in 1 .. Len(rest) : at[k] = i
    BY <2>1, <1>1, <1>4, <1>7
  <2> QED BY <2>1, <2>2, <1>3, <1>4, RangeOf
<1> QED BY <1>2, <1>3, <1>5, <1>6, <1>7 DEF OneOfEach

LEMMA AppendedRange ==
  ASSUME NEW S, NEW seq \in Seq(S), NEW x \in S
  PROVE  /\ Append(seq, x) \in Seq(S)
         /\ \A y : y \in Range(Append(seq, x)) <=> y \in Range(seq) \/ y = x
<1>1. Append(seq, x) \in Seq(S) /\ Len(Append(seq, x)) = Len(seq) + 1
      /\ Append(seq, x)[Len(seq) + 1] = x
      /\ \A k \in 1 .. Len(seq) : Append(seq, x)[k] = seq[k]
  OBVIOUS
<1> DEFINE new == Append(seq, x)
<1> HIDE DEF new
<1>2. new \in Seq(S) /\ Len(new) = Len(seq) + 1 /\ new[Len(seq) + 1] = x
      /\ \A k \in 1 .. Len(seq) : new[k] = seq[k]
  BY <1>1 DEF new
<1>3. \A k \in 1 .. Len(new) : k \in 1 .. Len(seq) \/ k = Len(seq) + 1
  BY <1>2
<1>4. \A k : k \in 1 .. Len(seq) \/ k = Len(seq) + 1 => k \in 1 .. Len(new)
  BY <1>2
<1>5. ASSUME NEW y PROVE y \in Range(new) <=> y \in Range(seq) \/ y = x
  <2>1. y \in Range(new) <=> \E k \in 1 .. Len(new) : y = new[k]
    BY <1>2, RangeOf
  <2>2. y \in Range(seq) <=> \E k \in 1 .. Len(seq) : y = seq[k]
    BY RangeOf
  <2> QED BY <2>1, <2>2, <1>2, <1>3, <1>4
<1> QED BY <1>2, <1>5 DEF new

LEMMA WithCookieIs ==
  ASSUME NEW v \in Nat, NEW s, NEW lines \in Seq(FileLines(s, v)), OneOfEach(lines),
         NEW c \in Cookies(v), c.line \in FileLines(s, v), NEW at
  PROVE  /\ WithCookie(lines, c, at) \in Seq(FileLines(s, v))
         /\ OneOfEach(WithCookie(lines, c, at))
         /\ \A l \in Range(lines) :
              l.name # c.line.name => l \in Range(WithCookie(lines, c, at))
         /\ ~Expired(c, at) => c.line \in Range(WithCookie(lines, c, at))
<1> DEFINE rest == OtherLines(lines, c)
           new  == Append(rest, c.line)
<1>1. /\ rest \in Seq(FileLines(s, v)) /\ OneOfEach(rest)
      /\ \A l \in Range(rest) : l.name # c.line.name
      /\ \A l \in Range(lines) : l.name # c.line.name => l \in Range(rest)
  BY OthersAre
<1>2. WithCookie(lines, c, at) = IF Expired(c, at) THEN rest ELSE new
  BY DEF WithCookie
<1>3. CASE Expired(c, at)
  BY <1>1, <1>2, <1>3
<1>4. CASE ~Expired(c, at)
  <2> HIDE DEF rest
  <2>1. new \in Seq(FileLines(s, v)) /\ \A y : y \in Range(new) <=> y \in Range(rest) \/ y = c.line
    BY <1>1, AppendedRange
  <2>2. Len(new) = Len(rest) + 1 /\ new[Len(rest) + 1] = c.line
        /\ \A k \in 1 .. Len(rest) : new[k] = rest[k]
    BY <1>1
  <2> HIDE DEF new
  <2>3. \A k \in 1 .. Len(rest) : new[k].name # c.line.name
    BY <1>1, <2>2, RangeOf
  <2>4. \A k \in 1 .. Len(new) : k \in 1 .. Len(rest) \/ k = Len(rest) + 1
    BY <2>2, <1>1
  <2>5. OneOfEach(new)
    BY <1>1, <2>2, <2>3, <2>4 DEF OneOfEach
  <2> QED BY <1>1, <1>2, <1>4, <2>1, <2>5
<1> QED BY <1>3, <1>4

\* What a write leaves of the files.
LEMMA WriteIs ==
  ASSUME NEW v \in Nat, NEW fs \in GoodFiles(v), NEW c \in Cookies(v), NEW at
  PROVE  /\ Write(fs, c, at) \in GoodFiles(v)
         /\ \A s \in Servers : \A l \in Range(fs[s]) :
              ~(NeedsWriting(c) /\ l.name = c.line.name /\ s = c.line.domain.host)
                => l \in Range(Write(fs, c, at)[s])
         /\ NeedsWriting(c) /\ ~Expired(c, at) => InFile(Write(fs, c, at), c.line)
<1> DEFINE h   == c.line.domain.host
           new == WithCookie(fs[h], c, at)
<1>1. fs \in CookieFiles(v) /\ \A s \in Servers : OneOfEach(fs[s])
  BY DEF GoodFiles
<1>2. c.line \in Lines(v) /\ h \in Servers
  BY CookieFields, LineFields
<1>3. CASE ~NeedsWriting(c)
  BY <1>3 DEF Write
<1>4. CASE NeedsWriting(c)
  <2>1. c.line \in FileLines(h, v)
    BY <1>2, <1>4 DEF NeedsWriting, FileLines
  <2>2. fs[h] \in Seq(FileLines(h, v)) /\ OneOfEach(fs[h])
    BY <1>1, <1>2 DEF CookieFiles
  <2>3. /\ new \in Seq(FileLines(h, v)) /\ OneOfEach(new)
        /\ \A l \in Range(fs[h]) : l.name # c.line.name => l \in Range(new)
        /\ ~Expired(c, at) => c.line \in Range(new)
    BY <2>1, <2>2, WithCookieIs
  <2>4. Write(fs, c, at) = [fs EXCEPT ![h] = new]
    BY <1>4 DEF Write
  <2> DEFINE written == Write(fs, c, at)
  <2> HIDE DEF new, h
  <2>5. fs \in [Servers -> Seq(Lines(v))] /\ \A s \in Servers : fs[s] \in Seq(FileLines(s, v))
    BY <1>1 DEF CookieFiles
  <2>6. new \in Seq(Lines(v))
    BY <2>3 DEF FileLines
  <2>7. /\ written \in [Servers -> Seq(Lines(v))] /\ written[h] = new
        /\ \A s \in Servers : s # h => written[s] = fs[s]
    BY <1>2, <2>4, <2>5, <2>6
  <2> HIDE DEF written
  <2>8. written \in GoodFiles(v)
    <3>1. \A s \in Servers : written[s] \in Seq(FileLines(s, v)) /\ OneOfEach(written[s])
      BY <1>1, <2>3, <2>5, <2>7
    <3> QED BY <2>7, <3>1 DEF GoodFiles, CookieFiles
  <2>9. ASSUME NEW s \in Servers, NEW l \in Range(fs[s]), ~(l.name = c.line.name /\ s = h)
        PROVE  l \in Range(written[s])
    BY <2>3, <2>7, <2>9
  <2>10. ~Expired(c, at) => InFile(written, c.line)
    BY <2>3, <2>7 DEF InFile, h
  <2> QED BY <1>4, <2>8, <2>9, <2>10 DEF written, h
<1> QED BY <1>3, <1>4

----------------------------------------------------------------------------
(* saveCookiesToDisk                                                       *)

\* After saveCookiesToDisk all cookies that have a date are in their files.
LEMMA SavedAre ==
  ASSUME NEW v \in Nat, NEW fs \in GoodFiles(v), NEW jar \in Seq(Cookies(v)),
         Apart(jar), OnDisk(jar, fs)
  PROVE  /\ FoldLeft(Save, fs, jar) \in GoodFiles(v)
         /\ \A i \in 1 .. Len(jar) :
              jar[i].line.expires # Session => InFile(FoldLeft(Save, fs, jar), jar[i].line)
<1> DEFINE There(g, n) ==
             \A i \in 1 .. Len(jar) :
               jar[i].line.expires # Session /\ (jar[i].saved \/ i <= n) => InFile(g, jar[i].line)
           Good == [n \in 0 .. Len(jar) |-> {g \in GoodFiles(v) : There(g, n)}]
<1>1. FoldLeft(Save, fs, jar) = Saving!Folded(fs, jar)
  BY DEF FoldLeft, MapThenFoldSet, Max,
         Saving!Folded, Saving!FoldLeft, Saving!MapThenFoldSet, Saving!Max
<1>2. fs \in Good[0]
  BY DEF OnDisk
<1>3. ASSUME NEW n \in 1 .. Len(jar), NEW a \in Good[n - 1]
      PROVE  Save(a, jar[n]) \in Good[n]
  <2>1. n - 1 \in 0 .. Len(jar) /\ n \in 0 .. Len(jar) /\ n \in Nat
    OBVIOUS
  <2>2. a \in GoodFiles(v) /\ There(a, n - 1)
    BY <2>1, <1>3
  <2> DEFINE b == Save(a, jar[n])
             c == jar[n]
  <2>3. c \in Cookies(v) /\ c.line \in Lines(v)
    BY CookieFields
  <2>4. /\ b \in GoodFiles(v)
        /\ \A s \in Servers : \A l \in Range(a[s]) :
             ~(NeedsWriting(c) /\ l.name = c.line.name /\ s = c.line.domain.host) => l \in Range(b[s])
        /\ NeedsWriting(c) /\ ~Expired(c, 0) => InFile(b, c.line)
    BY <2>2, <2>3, WriteIs DEF Save
  <2> HIDE DEF b, There
  <2>5. ASSUME NEW i \in 1 .. Len(jar), jar[i].line.expires # Session, jar[i].saved \/ i <= n
        PROVE  InFile(b, jar[i].line)
    <3>1. jar[i].line \in Lines(v) /\ jar[i].line.domain.host \in Servers
          /\ jar[i].line.expires \in Nat \cup {Session} /\ i \in Nat
      BY CookieFields, LineFields
    <3>2. CASE i = n /\ ~jar[i].saved
      <4>1. NeedsWriting(c) /\ ~Expired(c, 0)
        BY <3>1, <3>2, <2>5 DEF NeedsWriting, Expired, Session
      <4> QED BY <3>2, <4>1, <2>4
    <3>3. CASE i # n \/ jar[i].saved
      <4>1. InFile(a, jar[i].line)
        BY <2>1, <2>2, <2>5, <3>1, <3>3 DEF There
      <4>2. ~(NeedsWriting(c) /\ jar[i].line.name = c.line.name
                /\ jar[i].line.domain.host = c.line.domain.host)
        <5>1. CASE i = n
          BY <5>1, <3>3 DEF NeedsWriting
        <5>2. CASE i # n
          <6>1. i < n \/ n < i
            BY <5>2, <3>1, <2>1
          <6> QED BY <6>1 DEF Apart, Covers
        <5> QED BY <5>1, <5>2
      <4> QED BY <3>1, <4>1, <4>2, <2>4 DEF InFile
    <3> QED BY <3>2, <3>3
  <2>6. There(b, n)
    BY <2>5 DEF There
  <2> QED BY <2>1, <2>4, <2>6 DEF b
<1> HIDE DEF Good
<1>4. Saving!Folded(fs, jar) \in Good[Len(jar)]
  BY <1>2, <1>3, Saving!FoldStaysGood
<1>5. Saving!Folded(fs, jar) \in GoodFiles(v) /\ There(Saving!Folded(fs, jar), Len(jar))
  BY <1>4 DEF Good
<1> QED BY <1>1, <1>5

LEMMA WrittenIs ==
  ASSUME NEW v \in Nat, NEW c \in Cookies(v)
  PROVE  /\ Written(c) \in Cookies(v) /\ Written(c).line = c.line
         /\ Written(c).saved <=> c.saved \/ NeedsWriting(c)
<1> DEFINE saved == c.saved \/ NeedsWriting(c)
<1>1. saved \in BOOLEAN
  BY DEF NeedsWriting
<1>2. Written(c) = [c EXCEPT !.saved = saved]
  BY DEF Written
<1> HIDE DEF saved
<1>3. Written(c) \in Cookies(v) /\ Written(c).line = c.line /\ Written(c).saved = saved
  BY <1>1, <1>2 DEF Cookies
<1> QED BY <1>3 DEF saved

LEMMA SetKeeps ==
  ASSUME NEW v \in Nat, cookieFiles \in GoodFiles(v), cookies \in GoodJars(v, cookieFiles),
         domain \in Servers \cup {NoDomain},
         NEW s \in Servers, NEW line \in Lines(v), SetCookie(s, line)
  PROVE  /\ cookieFiles' \in GoodFiles(v) /\ cookies' \in GoodJars(v, cookieFiles')
         /\ domain' \in Servers \cup {NoDomain}
<1> DEFINE jar == AddCookieHeader(cookies, line)
<1>1. CASE ~AcceptCookies(s)
  BY <1>1 DEF SetCookie
<1>2. CASE AcceptCookies(s)
  <2>1. /\ cookieFiles' = FoldLeft(Save, cookieFiles, jar)
        /\ cookies' = [i \in DOMAIN jar |-> Written(jar[i])]
        /\ domain' = s
    BY <1>2 DEF SetCookie
  <2>2. cookies \in Seq(Cookies(v)) /\ Apart(cookies) /\ OnDisk(cookies, cookieFiles)
    BY DEF GoodJars
  <2>3. PICK i \in Nat : jar \in Seq(Cookies(v)) /\ Added(cookies, line, jar, i)
    BY <2>2, AddedHeader
  <2> HIDE DEF jar
  <2>4. Apart(jar) /\ OnDisk(jar, cookieFiles)
    BY <2>2, <2>3, AddedKeeps
  <2>5. /\ cookieFiles' \in GoodFiles(v)
        /\ \A k \in 1 .. Len(jar) :
             jar[k].line.expires # Session => InFile(cookieFiles', jar[k].line)
    BY <2>1, <2>3, <2>4, SavedAre
  <2>6. \A k \in 1 .. Len(jar) : /\ Written(jar[k]) \in Cookies(v) /\ Written(jar[k]).line = jar[k].line
                                 /\ Written(jar[k]).saved <=> jar[k].saved \/ NeedsWriting(jar[k])
    BY <2>3, WrittenIs
  <2> DEFINE new == cookies'
  <2>7. /\ new \in Seq(Cookies(v)) /\ Len(new) = Len(jar)
        /\ \A k \in 1 .. Len(jar) : new[k] = Written(jar[k])
    <3>1. DOMAIN jar = 1 .. Len(jar) /\ Len(jar) \in Nat
      BY <2>3
    <3> QED BY <3>1, <2>1, <2>6
  <2> HIDE DEF new
  <2>8. Apart(new)
    BY <2>4, <2>6, <2>7 DEF Apart
  <2>9. OnDisk(new, cookieFiles')
    BY <2>5, <2>6, <2>7 DEF OnDisk
  <2>10. FromFile(new, cookieFiles')
    BY <2>6, <2>7 DEF FromFile, NeedsWriting
  <2> QED BY <2>1, <2>5, <2>7, <2>8, <2>9, <2>10 DEF GoodJars, new
<1> QED BY <1>1, <1>2

----------------------------------------------------------------------------
(* gcExpiredCookies                                                        *)

GoneLine(gone, s, l) ==
  \E k \in 1 .. Len(gone) :
    NeedsWriting(gone[k]) /\ l.name = gone[k].line.name /\ s = gone[k].line.domain.host

\* Only lines of what has gone go from the files.
LEMMA RemovedAre ==
  ASSUME NEW v \in Nat, NEW fs \in GoodFiles(v), NEW gone \in Seq(Cookies(v))
  PROVE  /\ FoldLeft(WriteGone, fs, gone) \in GoodFiles(v)
         /\ \A s \in Servers : \A l \in Range(fs[s]) :
              ~GoneLine(gone, s, l) => l \in Range(FoldLeft(WriteGone, fs, gone)[s])
<1> DEFINE Left(g) == \A s \in Servers : \A l \in Range(fs[s]) :
                        ~GoneLine(gone, s, l) => l \in Range(g[s])
           Good == [n \in 0 .. Len(gone) |-> {g \in GoodFiles(v) : Left(g)}]
<1>1. FoldLeft(WriteGone, fs, gone) = Removing!Folded(fs, gone)
  BY DEF FoldLeft, MapThenFoldSet, Max,
         Removing!Folded, Removing!FoldLeft, Removing!MapThenFoldSet, Removing!Max
<1>2. fs \in Good[0]
  OBVIOUS
<1>3. ASSUME NEW n \in 1 .. Len(gone), NEW a \in Good[n - 1]
      PROVE  WriteGone(a, gone[n]) \in Good[n]
  <2>1. n - 1 \in 0 .. Len(gone) /\ n \in 0 .. Len(gone)
    OBVIOUS
  <2>2. a \in GoodFiles(v) /\ Left(a)
    BY <2>1, <1>3
  <2> DEFINE b == WriteGone(a, gone[n])
  <2>3. /\ b \in GoodFiles(v)
        /\ \A s \in Servers : \A l \in Range(a[s]) :
             ~(NeedsWriting(gone[n]) /\ l.name = gone[n].line.name /\ s = gone[n].line.domain.host)
               => l \in Range(b[s])
    BY <2>2, WriteIs DEF WriteGone
  <2> HIDE DEF b
  <2>4. Left(b)
    BY <2>2, <2>3 DEF GoneLine
  <2> QED BY <2>1, <2>3, <2>4 DEF b
<1> HIDE DEF Good
<1>4. Removing!Folded(fs, gone) \in Good[Len(gone)]
  BY <1>2, <1>3, Removing!FoldStaysGood
<1> QED BY <1>1, <1>4 DEF Good

\* What expired goes, and leaves the rest as it was.
LEMMA CollectKeeps ==
  ASSUME NEW v \in Nat, NEW fs \in GoodFiles(v), NEW jar \in GoodJars(v, fs),
         NEW old \in [1 .. Len(jar) -> BOOLEAN], NEW young \in [1 .. Len(jar) -> BOOLEAN],
         \A i \in 1 .. Len(jar) : young[i] <=> ~old[i]
  PROVE  /\ FoldLeft(WriteGone, fs, Selected(jar, old)) \in GoodFiles(v)
         /\ Selected(jar, young) \in GoodJars(v, FoldLeft(WriteGone, fs, Selected(jar, old)))
<1> DEFINE gone  == Selected(jar, old)
           left  == Selected(jar, young)
           after == FoldLeft(WriteGone, fs, gone)
<1>1. jar \in Seq(Cookies(v)) /\ Apart(jar) /\ OnDisk(jar, fs) /\ FromFile(jar, fs)
  BY DEF GoodJars
<1>2. /\ gone \in Seq(Cookies(v)) /\ Selection(jar, old, Len(jar), gone)
      /\ left \in Seq(Cookies(v)) /\ Selection(jar, young, Len(jar), left)
  BY <1>1, SelectedIs
<1> HIDE DEF gone, left
<1>3. /\ after \in GoodFiles(v)
      /\ \A s \in Servers : \A l \in Range(fs[s]) : ~GoneLine(gone, s, l) => l \in Range(after[s])
  BY <1>2, RemovedAre
<1> HIDE DEF after
<1>4. PICK at \in [1 .. Len(left) -> 1 .. Len(jar)] :
        /\ \A k \in 1 .. Len(left) : left[k] = jar[at[k]] /\ young[at[k]]
        /\ \A j, k \in 1 .. Len(left) : j < k => at[j] < at[k]
  BY <1>2 DEF Selection
<1>5. PICK from \in [1 .. Len(gone) -> 1 .. Len(jar)] :
        \A k \in 1 .. Len(gone) : gone[k] = jar[from[k]] /\ old[from[k]]
  BY <1>2 DEF Selection
<1>6. ASSUME NEW s \in Servers, NEW l, GoneLine(gone, s, l)
      PROVE  \E q \in 1 .. Len(jar) : /\ old[q] /\ jar[q].line.name = l.name
                                      /\ jar[q].line.domain.host = s
  <2>1. PICK k \in 1 .. Len(gone) : l.name = gone[k].line.name /\ s = gone[k].line.domain.host
    BY <1>6 DEF GoneLine
  <2>2. gone[k] = jar[from[k]] /\ old[from[k]] /\ from[k] \in 1 .. Len(jar)
    BY <1>5
  <2> QED BY <2>1, <2>2
<1>7. Apart(left)
  <2> SUFFICES ASSUME NEW i \in 1 .. Len(left), NEW j \in 1 .. Len(left),
                      left[i].line.name = left[j].line.name, i < j
               PROVE  ~Covers(left[i].line.domain, left[j].line.domain.host)
    BY DEF Apart
  <2>1. /\ left[i] = jar[at[i]] /\ left[j] = jar[at[j]] /\ at[i] < at[j]
        /\ at[i] \in 1 .. Len(jar) /\ at[j] \in 1 .. Len(jar)
    BY <1>4
  <2> QED BY <1>1, <2>1 DEF Apart
<1>8. OnDisk(left, after)
  <2> SUFFICES ASSUME NEW i \in 1 .. Len(left), left[i].saved, left[i].line.expires # Session
               PROVE  InFile(after, left[i].line)
    BY DEF OnDisk
  <2> DEFINE c == jar[at[i]]
             h == c.line.domain.host
  <2>1. left[i] = c /\ at[i] \in 1 .. Len(jar) /\ ~old[at[i]]
    BY <1>4
  <2>2. h \in Servers /\ c.line \in Range(fs[h])
    <3>1. c \in Cookies(v)
      BY <1>1, <2>1
    <3>2. h \in Servers
      BY <3>1, CookieFields, LineFields
    <3>3. c.saved /\ c.line.expires # Session
      BY <2>1
    <3> QED BY <1>1, <2>1, <3>2, <3>3 DEF OnDisk, InFile
  <2> HIDE DEF c
  <2>3. ~GoneLine(gone, h, c.line)
    <3> SUFFICES ASSUME GoneLine(gone, h, c.line) PROVE FALSE
      OBVIOUS
    <3> DEFINE l == c.line
    <3> HIDE DEF h, l
    <3>1. GoneLine(gone, h, l)
      BY DEF l
    <3>2. PICK q \in 1 .. Len(jar) : old[q] /\ jar[q].line.name = l.name /\ jar[q].line.domain.host = h
      BY <1>6, <2>2, <3>1
    <3>3. jar[q].line.name = c.line.name /\ jar[q].line.domain.host = c.line.domain.host /\ old[q]
      BY <3>2 DEF l, h
    <3>4. q < at[i] \/ at[i] < q
      BY <2>1, <3>3
    <3> QED BY <1>1, <2>1, <3>3, <3>4 DEF Apart, Covers, c
  <2> QED BY <1>3, <2>1, <2>2, <2>3 DEF InFile, c
<1>9. FromFile(left, after)
  <2> SUFFICES ASSUME NEW i \in 1 .. Len(left), ~left[i].saved, left[i].line.expires # Session
               PROVE  \E s \in Servers : \E l \in Range(after[s]) : FirstFor(left, i, l)
    BY DEF FromFile
  <2> DEFINE p == at[i]
  <2>1. left[i] = jar[p] /\ p \in 1 .. Len(jar) /\ ~old[p]
    BY <1>4
  <2>2. PICK s \in Servers : \E l \in Range(fs[s]) : FirstFor(jar, p, l)
    BY <1>1, <2>1 DEF FromFile
  <2>3. PICK l \in Range(fs[s]) : FirstFor(jar, p, l)
    BY <2>2
  <2>4. l.domain.host = s
    BY FileFields DEF GoodFiles
  <2>5. ~GoneLine(gone, s, l)
    <3> SUFFICES ASSUME GoneLine(gone, s, l) PROVE FALSE
      OBVIOUS
    <3>1. PICK q \in 1 .. Len(jar) : old[q] /\ jar[q].line.name = l.name /\ jar[q].line.domain.host = s
      BY <1>6
    <3>2. p <= q
      BY <2>3, <2>4, <3>1 DEF FirstFor, Covers
    <3>3. p < q
      BY <2>1, <3>1, <3>2
    <3>4. jar[p].line.name = l.name /\ Covers(jar[p].line.domain, s)
      BY <2>3, <2>4 DEF FirstFor
    <3> QED BY <1>1, <2>1, <3>1, <3>3, <3>4 DEF Apart
  <2>6. FirstFor(left, i, l)
    <3>1. ASSUME NEW j \in 1 .. Len(left), left[j].line.name = l.name,
                 Covers(left[j].line.domain, l.domain.host)
          PROVE  i <= j
      <4>1. p <= at[j] /\ at[j] \in 1 .. Len(jar)
        BY <1>4, <2>3, <3>1 DEF FirstFor
      <4>2. j < i => at[j] < p
        BY <1>4
      <4>3. p \in Nat /\ at[j] \in Nat
        BY <2>1, <4>1
      <4>4. ~(at[j] < p)
        BY <4>1, <4>3
      <4>5. ~(j < i)
        BY <4>2, <4>4
      <4> QED BY <4>5
    <3> QED BY <2>1, <2>3, <3>1 DEF FirstFor
  <2> QED BY <1>3, <2>5, <2>6
<1> QED BY <1>2, <1>3, <1>7, <1>8, <1>9 DEF GoodJars, gone, left, after

----------------------------------------------------------------------------
(* The invariant                                                           *)

LEMMA JarInitOK == JarInit => JarInv
<1> SUFFICES ASSUME JarInit PROVE JarInv
  OBVIOUS
<1>1. /\ time = 1 /\ values = 0 /\ headers = {} /\ domain = NoDomain /\ sent.server = NoDomain
      /\ accepted = {} /\ allowList = {} /\ cookies = <<>>
      /\ cookieFiles = [s \in Servers |-> <<>>]
  BY DEF JarInit
<1>2. <<>> \in Seq(Cookies(0)) /\ \A S : <<>> \in Seq(S) /\ Len(<<>>) = 0
  OBVIOUS
<1>3. cookieFiles \in CookieFiles(0)
  BY <1>1, <1>2 DEF CookieFiles
<1>4. cookieFiles \in GoodFiles(0)
  BY <1>1, <1>3 DEF GoodFiles, OneOfEach
<1>5. cookies \in GoodJars(0, cookieFiles)
  BY <1>1, <1>2 DEF GoodJars, Apart, OnDisk, FromFile
<1> QED BY <1>1, <1>4, <1>5 DEF JarInv

LEMMA RequestOK ==
  ASSUME JarInv, NEW s \in Servers, NEW page \in Places, Request(s, page)
  PROVE  JarInv'
<1> DEFINE jar   == LoadForRequest(s).jar
           old   == [i \in DOMAIN jar |-> Expired(jar[i], time)]
           young == [i \in DOMAIN old |-> ~old[i]]
           dead  == \E i \in DOMAIN jar : MatchesDomain(jar[i], Host(s)) /\ old[i]
<1>1. /\ domain' = LoadForRequest(s).domain
      /\ cookies' = IF dead THEN Selected(jar, young) ELSE jar
      /\ cookieFiles' = IF dead THEN FoldLeft(WriteGone, cookieFiles, Selected(jar, old))
                        ELSE cookieFiles
      /\ sent' = [server |-> s, cookies |-> Sent(jar, s, page)]
      /\ UNCHANGED <<accepted, allowList, time, values, headers>>
  BY DEF Request
<1>2. jar \in GoodJars(values, cookieFiles) /\ LoadForRequest(s).domain \in Servers
  BY RequestLoads
<1> HIDE DEF jar
<1>3. /\ old \in [1 .. Len(jar) -> BOOLEAN] /\ young \in [1 .. Len(jar) -> BOOLEAN]
      /\ \A i \in 1 .. Len(jar) : young[i] <=> ~old[i]
  <2>1. DOMAIN jar = 1 .. Len(jar)
    BY <1>2 DEF GoodJars
  <2>2. \A i : Expired(jar[i], time) \in BOOLEAN
    BY DEF Expired
  <2>3. old \in [1 .. Len(jar) -> BOOLEAN]
    BY <2>1, <2>2
  <2> HIDE DEF old
  <2>4. DOMAIN old = 1 .. Len(jar) /\ \A i : (~old[i]) \in BOOLEAN
    BY <2>3
  <2>5. young \in [1 .. Len(jar) -> BOOLEAN]
    BY <2>4, Zenon
  <2>6. \A i \in 1 .. Len(jar) : young[i] <=> ~old[i]
    BY <2>4
  <2> QED BY <2>3, <2>5, <2>6
<1> HIDE DEF old, young
<1>4. values \in Nat /\ cookieFiles \in GoodFiles(values)
  BY DEF JarInv
<1>5. /\ FoldLeft(WriteGone, cookieFiles, Selected(jar, old)) \in GoodFiles(values)
      /\ Selected(jar, young)
           \in GoodJars(values, FoldLeft(WriteGone, cookieFiles, Selected(jar, old)))
  BY <1>2, <1>3, <1>4, CollectKeeps
<1> HIDE DEF dead
<1>6. cookieFiles' \in GoodFiles(values) /\ cookies' \in GoodJars(values, cookieFiles')
  BY <1>1, <1>2, <1>4, <1>5
<1> QED BY <1>1, <1>2, <1>6 DEF JarInv

LEMMA AnswerOK == ASSUME JarInv, Answer PROVE JarInv'
<1>1. PICK name \in Names, kind \in Kinds, life \in Lifetimes \cup {Session},
        d \in {Host(sent.server), [host |-> TopLevel[sent.server], dot |-> TRUE]} :
          LET expires == IF life = Session THEN Session ELSE time + life - 1
              line == Line(name, values + 1, d, kind, expires)
          IN /\ SetCookie(sent.server, line)
             /\ headers' = headers \cup {[from |-> sent.server, line |-> line]}
  BY DEF Answer
<1>2. /\ sent.server # NoDomain /\ values' = values + 1
      /\ UNCHANGED <<accepted, allowList, time, sent>>
  BY DEF Answer
<1> DEFINE expires == IF life = Session THEN Session ELSE time + life - 1
           line    == Line(name, values + 1, d, kind, expires)
<1>3. values \in Nat /\ values + 1 \in Nat /\ sent.server \in Servers
  BY <1>2 DEF JarInv
<1>4. expires \in Nat \cup {Session}
  BY JarAssumption DEF JarInv
<1>5. d \in SetDomains
  <2>1. Host(sent.server) \in SetDomains
    BY <1>3 DEF SetDomains, Domains, Host
  <2> DEFINE top == TopLevel[sent.server]
  <2>2. top \in Servers /\ TopLevel[top] = top
    BY <1>3, JarAssumption
  <2> HIDE DEF top
  <2>3. [host |-> top, dot |-> TRUE] \in SetDomains
    BY <2>2 DEF SetDomains, Domains
  <2> QED BY <2>1, <2>3 DEF top
<1>6. line \in Lines(values + 1)
  <2> HIDE DEF expires
  <2>1. values + 1 \in 1 .. values + 1
    BY <1>3
  <2> QED BY <1>4, <1>5, <2>1 DEF Line, Lines
<1>7. SetCookie(sent.server, line) /\ headers' = headers \cup {[from |-> sent.server, line |-> line]}
  BY <1>1
<1> HIDE DEF line
<1>8. /\ Lines(values) \subseteq Lines(values + 1)
      /\ cookieFiles \in GoodFiles(values + 1) /\ cookies \in GoodJars(values + 1, cookieFiles)
  BY <1>3, MoreValues DEF JarInv
<1>9. /\ cookieFiles' \in GoodFiles(values + 1) /\ cookies' \in GoodJars(values + 1, cookieFiles')
      /\ domain' \in Servers \cup {NoDomain}
  BY <1>3, <1>6, <1>7, <1>8, SetKeeps DEF JarInv
<1>10. headers' \subseteq [from : Servers, line : Lines(values + 1)]
  BY <1>3, <1>6, <1>7, <1>8 DEF JarInv
<1> QED BY <1>2, <1>3, <1>9, <1>10 DEF JarInv

LEMMA FromCacheOK == ASSUME JarInv, FromCache PROVE JarInv'
<1>1. PICK h \in headers : SetCookie(h.from, h.line)
  BY DEF FromCache
<1>2. h.from \in Servers /\ h.line \in Lines(values) /\ values \in Nat
  BY DEF JarInv
<1>3. /\ cookieFiles' \in GoodFiles(values) /\ cookies' \in GoodJars(values, cookieFiles')
      /\ domain' \in Servers \cup {NoDomain}
  BY <1>1, <1>2, SetKeeps DEF JarInv
<1> QED BY <1>2, <1>3 DEF FromCache, JarInv

LEMMA PressedOK == ASSUME JarInv, Pressed PROVE JarInv'
<1>1. ASSUME NEW s \in Servers, AcceptAdd(s) PROVE JarInv'
  BY <1>1 DEF AcceptAdd, SetAcceptCookies, JarInv
<1>2. ASSUME NEW s \in Servers, RemoveSelected(s) PROVE JarInv'
  BY <1>2 DEF RemoveSelected, SetAcceptCookies, JarInv
<1>3. CASE AcceptEdit
  BY <1>3 DEF AcceptEdit, JarInv
<1> QED BY <1>1, <1>2, <1>3 DEF Pressed

LEMMA NewSessionOK == ASSUME JarInv, NewSession PROVE JarInv'
<1>1. cookies' = <<>> /\ headers' = {} /\ sent'.server = NoDomain
  BY DEF NewSession
<1>2. <<>> \in Seq(Cookies(values)) /\ Len(<<>>) = 0
  OBVIOUS
<1>3. cookies' \in GoodJars(values, cookieFiles)
  BY <1>1, <1>2 DEF GoodJars, Apart, OnDisk, FromFile
<1> QED BY <1>1, <1>3 DEF NewSession, JarInv

LEMMA JarStepOK == JarInv /\ [JarNext]_jarVars => JarInv'
<1> SUFFICES ASSUME JarInv, [JarNext]_jarVars PROVE JarInv'
  OBVIOUS
<1>1. CASE ClockTicks
  BY <1>1 DEF ClockTicks, JarInv
<1>2. CASE UNCHANGED jarVars
  BY <1>2 DEF jarVars, JarInv
<1> QED BY <1>1, <1>2, RequestOK, AnswerOK, FromCacheOK, PressedOK, NewSessionOK DEF JarNext

\* Cookies, files and headers keep to their types and to what CookieJar relies on,
\* whatever is set, loaded, removed or saved in whatever order.
THEOREM JarInvariant == JarSpec => []JarInv
  BY JarInitOK, JarStepOK, PTL DEF JarSpec

\* What the invariant says in terms of the properties.
LEMMA JarInvShows == JarInv => JarTypeInvariant /\ JarIsOnDisk
<1> SUFFICES ASSUME JarInv PROVE JarTypeInvariant /\ JarIsOnDisk
  OBVIOUS
<1>1. /\ values \in Nat /\ cookies \in Seq(Cookies(values)) /\ cookieFiles \in CookieFiles(values)
      /\ Apart(cookies) /\ OnDisk(cookies, cookieFiles)
      /\ \A s \in Servers : OneOfEach(cookieFiles[s])
  BY DEF JarInv, GoodJars, GoodFiles
<1>2. DOMAIN cookies = 1 .. Len(cookies)
      /\ \A i \in 1 .. Len(cookies) : cookies[i].line \in Lines(values)
  BY <1>1, CookieFields
<1>3. \A s \in Servers : /\ DOMAIN cookieFiles[s] = 1 .. Len(cookieFiles[s])
                         /\ cookieFiles[s] \in Seq(Lines(values))
                         /\ cookieFiles[s] \in Seq(FileLines(s, values))
  BY <1>1 DEF CookieFiles
<1>4. JarTypeInvariant
  <2>1. \A i \in DOMAIN cookies :
          cookies[i].line.domain \in Domains /\ cookies[i].line.value \in 1..values
    BY <1>1, <1>2, LineFields
  <2>2. \A s \in Servers : \A i \in DOMAIN cookieFiles[s] :
          cookieFiles[s][i].domain.host = s /\ cookieFiles[s][i].expires # Session
    <3>1. ASSUME NEW s \in Servers, NEW i \in DOMAIN cookieFiles[s]
          PROVE  cookieFiles[s][i] \in FileLines(s, values)
      BY <1>3
    <3> QED BY <3>1 DEF FileLines
  <2> QED BY <2>1, <2>2 DEF JarTypeInvariant, JarInv
<1>5. NoDuplicates
  <2>1. ASSUME NEW i \in DOMAIN cookies, NEW j \in DOMAIN cookies,
               cookies[i].line.name = cookies[j].line.name,
               cookies[i].line.domain = cookies[j].line.domain, i # j
        PROVE  FALSE
    <3>1. i \in 1 .. Len(cookies) /\ j \in 1 .. Len(cookies) /\ (i < j \/ j < i)
      BY <1>2, <2>1
    <3> QED BY <3>1, <2>1, <1>1 DEF Apart, Covers
  <2>2. \A s \in Servers : \A i, j \in DOMAIN cookieFiles[s] :
          cookieFiles[s][i].name = cookieFiles[s][j].name => i = j
    BY <1>1, <1>3 DEF OneOfEach
  <2> QED BY <2>1, <2>2 DEF NoDuplicates
<1>6. SavedMeansOnDisk
  <2> SUFFICES ASSUME NEW i \in DOMAIN cookies, cookies[i].saved,
                      cookies[i].line.expires # Session
               PROVE  Contains(cookieFiles[cookies[i].line.domain.host], cookies[i].line)
    BY DEF SavedMeansOnDisk
  <2> DEFINE l == cookies[i].line
  <2>1. l \in Range(cookieFiles[l.domain.host]) /\ l.domain.host \in Servers
    BY <1>1, <1>2, LineFields DEF OnDisk, InFile
  <2> QED BY <2>1, <1>3, RangeOf DEF Contains
<1> QED BY <1>4, <1>5, <1>6 DEF JarIsOnDisk

\* The jar and its files agree (CookieJar::addCookieHeader, CookieWriter).
THEOREM CookiesAreOnDisk == JarSpec => []JarIsOnDisk
  BY JarInvariant, JarInvShows, PTL

\* The part of TypesKept that is about the jar.
THEOREM JarTypesKept == JarSpec => []JarTypeInvariant
  BY JarInvariant, JarInvShows, PTL

----------------------------------------------------------------------------
(* What is sent                                                            *)

\* All cookies of the name of l are l's, and one of them has its date.
Same(jar, l) ==
  \A i \in 1 .. Len(jar) :
    jar[i].line.name = l.name => /\ jar[i].line.domain = l.domain
                                 /\ jar[i].line.path = l.path
                                 /\ jar[i].line.secure = l.secure
SetAgain(jar, l) ==
  \E i \in 1 .. Len(jar) :
    jar[i].line.name = l.name /\ jar[i].line.expires \in {l.expires, Session}
Only(lines, l) == \A m \in Range(lines) : m.name = l.name => m = l

\* One line more is read.
LEMMA AddedShows ==
  ASSUME NEW v \in Nat, NEW jar \in Seq(Cookies(v)), NEW line \in Lines(v), NEW l \in Lines(v),
         line.name = l.name => line = l, Same(jar, l)
  PROVE  /\ AddCookieHeader(jar, line) \in Seq(Cookies(v))
         /\ Same(AddCookieHeader(jar, line), l)
         /\ SetAgain(jar, l) \/ line = l => SetAgain(AddCookieHeader(jar, line), l)
<1> DEFINE new == AddCookieHeader(jar, line)
<1>1. PICK i \in Nat : new \in Seq(Cookies(v)) /\ Added(jar, line, new, i)
  BY AddedHeader
<1> HIDE DEF new
<1>2. /\ \A j \in 1 .. Len(new) : j \in 1 .. Len(jar) \/ (j = i /\ i = Len(jar) + 1)
      /\ \A j \in 1 .. Len(jar) : /\ j \in 1 .. Len(new)
                                  /\ new[j].line.name = jar[j].line.name
                                  /\ new[j].line.domain = jar[j].line.domain
                                  /\ new[j].line.path = jar[j].line.path
                                  /\ new[j].line.secure = jar[j].line.secure
  BY <1>1, AddedKeeps
<1>3. Same(new, l)
  <2> SUFFICES ASSUME NEW j \in 1 .. Len(new), new[j].line.name = l.name
               PROVE  /\ new[j].line.domain = l.domain /\ new[j].line.path = l.path
                      /\ new[j].line.secure = l.secure
    BY DEF Same
  <2>1. CASE j \in 1 .. Len(jar)
    BY <2>1, <1>2 DEF Same
  <2>2. CASE j = i /\ i = Len(jar) + 1
    BY <2>2, <1>1 DEF Added
  <2> QED BY <1>2, <2>1, <2>2
<1>4. ASSUME line = l PROVE SetAgain(new, l)
  BY <1>1, <1>4 DEF Added, SetAgain
<1>5. ASSUME SetAgain(jar, l), line # l PROVE SetAgain(new, l)
  <2>1. PICK p \in 1 .. Len(jar) :
          jar[p].line.name = l.name /\ jar[p].line.expires \in {l.expires, Session}
    BY <1>5 DEF SetAgain
  <2>2. p # i
    BY <2>1, <1>1, <1>2, <1>5 DEF Added
  <2>3. p \in 1 .. Len(new) /\ new[p] = jar[p]
    BY <2>2, <1>1, <1>2 DEF Added
  <2> QED BY <2>1, <2>3 DEF SetAgain
<1> QED BY <1>1, <1>3, <1>4, <1>5 DEF new

\* A file is read.
LEMMA ReadShows ==
  ASSUME NEW v \in Nat, NEW jar \in Seq(Cookies(v)), NEW lines \in Seq(Lines(v)),
         NEW l \in Lines(v), Only(lines, l), Same(jar, l)
  PROVE  /\ Same(ReadFile(jar, lines), l)
         /\ SetAgain(jar, l) \/ l \in Range(lines) => SetAgain(ReadFile(jar, lines), l)
<1> DEFINE Shows(a, n) == SetAgain(jar, l) \/ (\E k \in 1 .. n : lines[k] = l) => SetAgain(a, l)
           Good == [n \in 0 .. Len(lines) |->
                      {a \in Seq(Cookies(v)) : Same(a, l) /\ Shows(a, n)}]
<1>1. jar \in Good[0]
  OBVIOUS
<1>2. ASSUME NEW n \in 1 .. Len(lines), NEW a \in Good[n - 1]
      PROVE  AddCookieHeader(a, lines[n]) \in Good[n]
  <2>1. n - 1 \in 0 .. Len(lines) /\ n \in 0 .. Len(lines)
    OBVIOUS
  <2>2. a \in Seq(Cookies(v)) /\ Same(a, l) /\ Shows(a, n - 1)
    BY <2>1, <1>2
  <2> DEFINE b == AddCookieHeader(a, lines[n])
  <2>3. lines[n] \in Lines(v) /\ (lines[n].name = l.name => lines[n] = l)
    BY RangeOf DEF Only
  <2>4. b \in Seq(Cookies(v)) /\ Same(b, l) /\ (SetAgain(a, l) \/ lines[n] = l => SetAgain(b, l))
    BY <2>2, <2>3, AddedShows
  <2> HIDE DEF b
  <2>5. \A k \in 1 .. n : k \in 1 .. n - 1 \/ k = n
    BY <2>1
  <2>6. Shows(b, n)
    BY <2>2, <2>4, <2>5
  <2> QED BY <2>1, <2>4, <2>6 DEF b
<1> HIDE DEF Good
<1>3. Adding!Folded(jar, lines) \in Good[Len(lines)]
  BY <1>1, <1>2, Adding!FoldStaysGood
<1>4. ReadFile(jar, lines) \in Good[Len(lines)]
  BY <1>3, ReadIsFolded
<1>5. Same(ReadFile(jar, lines), l) /\ Shows(ReadFile(jar, lines), Len(lines))
  BY <1>4 DEF Good
<1> QED BY <1>5, RangeOf

\* A cookie of the jar with the name of a line that is the only one of its name.
LEMMA JarSetsAgain ==
  ASSUME NEW v \in Nat, NEW fs \in GoodFiles(v), NEW jar \in GoodJars(v, fs), NEW l \in Lines(v),
         \A s \in Servers : Only(fs[s], l), NEW i \in 1 .. Len(jar), jar[i].line.name = l.name
  PROVE  SetAgain(jar, l)
<1>1. jar \in Seq(Cookies(v)) /\ OnDisk(jar, fs) /\ FromFile(jar, fs)
  BY DEF GoodJars
<1>2. jar[i].line.domain.host \in Servers
  BY <1>1, CookieFields, LineFields
<1>3. CASE jar[i].line.expires = Session
  BY <1>3 DEF SetAgain
<1>4. CASE jar[i].line.expires # Session /\ jar[i].saved
  <2>1. jar[i].line \in Range(fs[jar[i].line.domain.host])
    BY <1>1, <1>4 DEF OnDisk, InFile
  <2>2. jar[i].line = l
    BY <1>2, <2>1 DEF Only
  <2> QED BY <2>2 DEF SetAgain
<1>5. CASE jar[i].line.expires # Session /\ ~jar[i].saved
  <2>1. PICK s \in Servers : \E m \in Range(fs[s]) : FirstFor(jar, i, m)
    BY <1>1, <1>5 DEF FromFile
  <2>2. PICK m \in Range(fs[s]) : FirstFor(jar, i, m)
    BY <2>1
  <2>3. m = l
    BY <2>2 DEF Only, FirstFor
  <2> QED BY <2>2, <2>3 DEF SetAgain, FirstFor
<1> QED BY <1>3, <1>4, <1>5

\* The files that a request reads.
LEMMA LoadShows ==
  ASSUME JarInv, NEW s \in Servers, NEW t \in {s, TopLevel[s]}, NEW l \in Range(cookieFiles[t]),
         \A r \in Servers : Only(cookieFiles[r], l), Same(cookies, l),
         t = s /\ domain = s => \E i \in 1 .. Len(cookies) : cookies[i].line.name = l.name
  PROVE  Same(LoadForRequest(s).jar, l) /\ SetAgain(LoadForRequest(s).jar, l)
<1> DEFINE v    == values
           fs   == cookieFiles
           one  == LoadDomain(cookies, domain, s)
           both == LoadDomain(one, s, TopLevel[s])
<1>1. /\ v \in Nat /\ fs \in GoodFiles(v) /\ cookies \in GoodJars(v, fs)
      /\ TopLevel[s] \in Servers /\ t \in Servers
  BY JarAssumption DEF JarInv
<1>2. LoadForRequest(s).jar = both
  BY DEF LoadForRequest
<1>3. l \in Lines(v) /\ l.domain.host = t
  BY <1>1, FileFields DEF GoodFiles
<1>4. \A r \in Servers : fs[r] \in Seq(Lines(v))
  BY <1>1 DEF GoodFiles, CookieFiles
<1>5. one = IF domain = s THEN cookies ELSE ReadFile(cookies, fs[s])
  BY DEF LoadDomain, ReadFile
<1>6. both = IF s = TopLevel[s] THEN one ELSE ReadFile(one, fs[TopLevel[s]])
  BY DEF LoadDomain, ReadFile
<1> HIDE DEF one, both, v, fs
<1>7. one \in GoodJars(v, fs)
  BY <1>1, <1>5, ReadKeeps
<1>8. cookies \in Seq(Cookies(v)) /\ one \in Seq(Cookies(v))
  BY <1>1, <1>7 DEF GoodJars
<1>9. ASSUME NEW jar \in Seq(Cookies(v)), Same(jar, l), NEW r \in Servers
      PROVE  /\ Same(ReadFile(jar, fs[r]), l)
             /\ SetAgain(jar, l) \/ l \in Range(fs[r]) => SetAgain(ReadFile(jar, fs[r]), l)
  BY <1>1, <1>3, <1>4, <1>9, ReadShows DEF fs
<1>10. Same(one, l)
  BY <1>5, <1>8, <1>9
<1>11. Same(both, l)
  BY <1>1, <1>6, <1>8, <1>9, <1>10
<1>12. CASE t = s
  <2>1. CASE domain = s
    <3>1. PICK i \in 1 .. Len(cookies) : cookies[i].line.name = l.name
      BY <1>12, <2>1
    <3>2. SetAgain(cookies, l)
      BY <1>1, <1>3, <3>1, JarSetsAgain DEF fs
    <3> QED BY <1>1, <1>2, <1>5, <1>6, <1>8, <1>9, <1>10, <1>11, <2>1, <3>2
  <2>2. CASE domain # s
    <3>1. SetAgain(one, l)
      BY <1>5, <1>8, <1>9, <1>12, <2>2 DEF fs
    <3> QED BY <1>1, <1>2, <1>6, <1>8, <1>9, <1>10, <1>11, <3>1
  <2> QED BY <2>1, <2>2
<1>13. CASE t = TopLevel[s] /\ t # s
  <2>1. SetAgain(both, l)
    BY <1>1, <1>6, <1>8, <1>9, <1>10, <1>13 DEF fs
  <2> QED BY <1>2, <1>11, <2>1
<1> QED BY <1>12, <1>13

\* The request: one cookie of the name is there, with the date of the line.
LEMMA RequestSends ==
  ASSUME JarInv, NEW s \in Servers, NEW page \in Places, Request(s, page),
         NEW t \in {s, TopLevel[s]}, NEW l \in Range(cookieFiles[t]),
         MatchesDomain(Unsaved(l), Host(s)), ~Expired(Unsaved(l), time),
         Under(page.path, l.path), l.secure => page.secure,
         \A c \in Known : c.line.name = l.name =>
           c.line.domain = l.domain /\ c.line.path = l.path /\ c.line.secure = l.secure,
         t = s /\ domain = s => \E c \in Range(cookies) : c.line.name = l.name
  PROVE  \E c \in sent'.cookies : c.name = l.name
<1> DEFINE jar == LoadForRequest(s).jar
<1>1. /\ values \in Nat /\ cookieFiles \in GoodFiles(values) /\ cookieFiles \in CookieFiles(values)
      /\ cookies \in GoodJars(values, cookieFiles) /\ t \in Servers
      /\ cookies \in Seq(Cookies(values))
  BY JarAssumption DEF JarInv, GoodJars, GoodFiles
<1>2. l \in Lines(values) /\ l.domain.host = t
  BY <1>1, FileFields
<1>3. ASSUME NEW r \in Servers, NEW m \in Range(cookieFiles[r]), m.name = l.name
      PROVE  m = l
  <2>1. Unsaved(m) \in Known /\ Unsaved(m).line = m
    BY <1>3 DEF Known, Unsaved
  <2>2. m.domain = l.domain /\ m.domain.host = r
    BY <1>1, <1>3, <2>1, FileFields
  <2>3. r = t
    BY <1>2, <2>2
  <2>4. cookieFiles[t] \in Seq(Lines(values)) /\ OneOfEach(cookieFiles[t])
    BY <1>1 DEF GoodFiles, CookieFiles
  <2>5. PICK j \in 1 .. Len(cookieFiles[t]), k \in 1 .. Len(cookieFiles[t]) :
          m = cookieFiles[t][j] /\ l = cookieFiles[t][k]
    BY <1>3, <2>3, <2>4, RangeOf
  <2> QED BY <1>3, <2>4, <2>5 DEF OneOfEach
<1>4. \A r \in Servers : Only(cookieFiles[r], l)
  BY <1>3 DEF Only
<1>5. \A c \in Range(cookies) : c \in Known
  BY DEF Known
<1>6. Same(cookies, l)
  BY <1>1, <1>5, RangeOf DEF Same
<1>7. t = s /\ domain = s => \E i \in 1 .. Len(cookies) : cookies[i].line.name = l.name
  BY <1>1, RangeOf
<1>8. Same(jar, l) /\ SetAgain(jar, l)
  BY <1>4, <1>6, <1>7, LoadShows
<1>9. jar \in Seq(Cookies(values))
  BY RequestLoads DEF GoodJars
<1>10. sent'.cookies = Sent(jar, s, page)
  BY DEF Request
<1> HIDE DEF jar
<1>11. PICK i \in 1 .. Len(jar) :
         jar[i].line.name = l.name /\ jar[i].line.expires \in {l.expires, Session}
  BY <1>8 DEF SetAgain
<1> DEFINE c == jar[i]
<1>12. /\ c.line.name = l.name /\ c.line.domain = l.domain /\ c.line.path = l.path
       /\ c.line.secure = l.secure /\ c.line.expires \in {l.expires, Session} /\ c \in Range(jar)
  BY <1>8, <1>9, <1>11, RangeOf DEF Same
<1> HIDE DEF c
<1>13. Unsaved(l).line = l
  BY DEF Unsaved
<1>14. MatchesDomain(c, Host(s))
  BY <1>12, <1>13 DEF MatchesDomain
<1>15. ~Expired(c, time)
  BY <1>12, <1>13 DEF Expired
<1>16. Under(page.path, c.line.path) /\ (c.line.secure => page.secure)
  BY <1>12
<1>17. c.line \in Sent(jar, s, page)
  BY <1>12, <1>14, <1>15, <1>16 DEF Sent
<1> QED BY <1>10, <1>12, <1>17

\* What is saved for a server goes with its requests until it expires
\* (CookieJar::cookiesForRequest), unless a cookie of another domain has its name.
THEOREM WhatIsSavedIsSent == JarSpec => SavedCookiesSent
<1>1. JarInv /\ [JarNext]_jarVars =>
        [\A s \in Servers, page \in Places : Request(s, page) =>
           \A t \in {s, TopLevel[s]} : \A l \in Range(cookieFiles[t]) :
             /\ MatchesDomain(Unsaved(l), Host(s)) /\ ~Expired(Unsaved(l), time)
             /\ Under(page.path, l.path) /\ (l.secure => page.secure)
             /\ \A c \in Known : c.line.name = l.name =>
                  c.line.domain = l.domain /\ c.line.path = l.path /\ c.line.secure = l.secure
             /\ (t = s /\ domain = s => \E c \in Range(cookies) : c.line.name = l.name)
             => \E c \in sent'.cookies : c.name = l.name]_jarVars
  BY RequestSends
<1> QED BY <1>1, JarInvariant, PTL DEF JarSpec, SavedCookiesSent

----------------------------------------------------------------------------
(* Copies                                                                  *)

Contents == {"empty", "answer", "error", "mixed"}
Files == [exists : {TRUE}, content : Contents, of : Pages \cup {NoPage}, version : Nat,
          hdr : Nat, control : ControlFields, mtime : Nat]

FilesOK  == files \in [Pages -> Files \cup {NoFile}]
ParserOK == parser \in [state : {"start", "read", "unflushed"}, control : ControlFields]
ClientOK == client \in [uri : URIs \cup {NoURI}, busy : BOOLEAN]
StackOK  == stack \in Seq(Frames) /\ Depth <= MaxDepth
ValuesOK ==
  /\ useCache \in BOOLEAN /\ fileIds \subseteq URIs /\ saving \in Pages \cup {NoPage}
  /\ version \in 0..MaxVersion /\ ops \in 0..MaxOps /\ now \in Nat \ {0}

Blank(file) == file.exists => file.content = "empty" /\ file.hdr = 0

\* What a load can rely on as long as no other has been nested in it: its
\* headers are those that the parser has read, and what it saves is its own.
Held(f) ==
  /\ f.at = "headers" =>
       /\ f.copy \in URIs /\ client.uri = f.copy /\ saving = NoPage
       /\ parser.state # "unflushed"
       /\ files[f.copy.page].exists =>
            parser.control = IF files[f.copy.page].hdr = 0 THEN NoControl
                             ELSE files[f.copy.page].control
  /\ f.at = "local" => saving = NoPage
  /\ f.at = "error" => ~client.busy
  /\ f.at = "loop" /\ client.busy =>
       saving = NoPage \/ (saving = client.uri.page /\ Blank(files[saving]))
TopHeld == stack # <<>> /\ ~Top.overtaken => Held(Top)

IInv == FilesOK /\ ParserOK /\ ClientOK /\ StackOK /\ ValuesOK /\ TopHeld

\* What a step does to the copies.
CopiesKept == \A p \in Pages : OneAnswer(p) => OneAnswer(p)' \/ Overtaken
Keeps == IInv' /\ CopiesKept

USE CacheAssumption, CacheControlAssumption

----------------------------------------------------------------------------
(* The stack                                                               *)

LEMMA FrameTyped ==
  ASSUME NEW place \in Points, NEW copy \in URIs \cup {NoURI}, NEW item \in BOOLEAN,
         place = "headers" => copy \in URIs
  PROVE  /\ Frame(place, copy, item) \in Frames
         /\ Frame(place, copy, item).at = place
         /\ Frame(place, copy, item).copy = copy
         /\ ~Frame(place, copy, item).overtaken
  BY DEF Frame, Frames

LEMMA QueueTyped == Queue \in Frames /\ Queue.at = "queue" /\ ~Queue.overtaken
  BY FrameTyped DEF Queue, Points

LEMMA FrameOnTop ==
  ASSUME NEW s \in Seq(Frames), NEW f \in Frames, stack' = Append(s, f), Len(s) < MaxDepth
  PROVE  /\ StackOK' /\ stack' # <<>> /\ Top' = f /\ stack'[Len(stack')] = f
         /\ Len(stack') = Len(s) + 1
<1>1. /\ stack' \in Seq(Frames) /\ Len(stack') = Len(s) + 1 /\ Len(s) \in Nat
      /\ stack'[Len(s) + 1] = f /\ stack' # <<>>
  OBVIOUS
<1> QED BY <1>1 DEF StackOK, Top, Depth, CacheAssumption

LEMMA Prefix ==
  ASSUME NEW S, NEW s \in Seq(S), NEW n \in 0..Len(s)
  PROVE  SubSeq(s, 1, n) \in Seq(S) /\ Len(SubSeq(s, 1, n)) = n
  OBVIOUS

LEMMA Below ==
  ASSUME StackOK, stack # <<>>
  PROVE  /\ Outer \in Seq(Frames) /\ Len(Outer) = Depth - 1 /\ Len(Outer) < MaxDepth
         /\ Depth \in Nat \ {0} /\ Top \in Frames
         /\ \A j \in 1..Depth - 1 : stack[j] \in Frames
<1>1. stack \in Seq(Frames) /\ Depth \in Nat \ {0} /\ Depth <= MaxDepth
  BY DEF StackOK, Depth
<1>2. Outer \in Seq(Frames) /\ Len(Outer) = Depth - 1
  <2>1. Depth - 1 \in 0..Len(stack)
    BY <1>1 DEF Depth
  <2> QED BY <1>1, <2>1, Prefix DEF Outer
<1>3. \A j \in 1..Depth : stack[j] \in Frames
  BY <1>1 DEF Depth
<1> QED BY <1>1, <1>2, <1>3 DEF CacheAssumption, Top

LEMMA GoesTo ==
  ASSUME StackOK, stack # <<>>, NEW place \in Points \ {"headers"}, stack' = GoTo(place)
  PROVE  /\ StackOK' /\ stack' # <<>>
         /\ Top'.at = place /\ Top'.overtaken = Top.overtaken
<1> DEFINE f == [Top EXCEPT !.at = place, !.copy = NoURI]
<1>1. Top \in Frames
  BY Below
<1>2. f \in Frames /\ f.at = place /\ f.overtaken = Top.overtaken
  BY <1>1 DEF Frames
<1>3. stack' = Append(Outer, f)
  BY DEF GoTo
<1> HIDE DEF f
<1> QED BY <1>2, <1>3, FrameOnTop, Below

\* The next image: nothing is known of what the document has.
LEMMA AfterLoadKeeps ==
  ASSUME StackOK, stack # <<>>, AfterLoad
  PROVE  StackOK' /\ TopHeld'
<1>1. stack' = Append(Outer, Queue)
  BY DEF AfterLoad
<1>2. StackOK' /\ Top' = Queue
  BY <1>1, FrameOnTop, Below, QueueTyped
<1> QED BY <1>2, QueueTyped DEF TopHeld, Held

----------------------------------------------------------------------------
(* Files                                                                   *)

LEMMA NoControlTyped == NoControl \in ControlFields
  BY DEF NoControl, ControlFields

LEMMA ParsedTyped ==
  ASSUME NEW s \in {"start", "read", "unflushed"}, NEW control \in ControlFields
  PROVE  /\ Parsed(s, control) \in [state : {"start", "read", "unflushed"}, control : ControlFields]
         /\ Parsed(s, control).state = s /\ Parsed(s, control).control = control
  BY DEF Parsed

LEMMA FreshTyped ==
  /\ Fresh \in [state : {"start", "read", "unflushed"}, control : ControlFields]
  /\ Fresh.state = "start" /\ Fresh.control = NoControl
  BY ParsedTyped, NoControlTyped DEF Fresh

LEMMA FileTyped ==
  ASSUME ValuesOK, NEW content \in Contents, NEW of \in Pages \cup {NoPage},
         NEW v \in Nat, NEW hdr \in Nat, NEW control \in ControlFields
  PROVE  /\ File(content, of, v, hdr, control) \in Files
         /\ File(content, of, v, hdr, control).exists
         /\ File(content, of, v, hdr, control).content = content
         /\ File(content, of, v, hdr, control).of = of
         /\ File(content, of, v, hdr, control).hdr = hdr
         /\ File(content, of, v, hdr, control).version = v
  BY DEF File, Files, ValuesOK

LEMMA NewFilesTyped ==
  ASSUME ValuesOK, NEW file
  PROVE  /\ NewFiles(file) \in Files
         /\ NewFiles(file).content = "empty" /\ NewFiles(file).hdr = 0
<1>1. "empty" \in Contents /\ NoPage \in Pages \cup {NoPage} /\ 0 \in Nat
  BY DEF Contents
<1> QED BY <1>1, FileTyped, NoControlTyped DEF NewFiles

LEMMA FileThere ==
  ASSUME NEW file \in Files \cup {NoFile}, file.exists
  PROVE  file \in Files
  BY DEF NoFile

\* A file that is added to, or mixed, is one still.
LEMMA MixtureTyped ==
  ASSUME ValuesOK, NEW file \in Files
  PROVE  [file EXCEPT !.content = "mixed", !.mtime = now] \in Files
  BY DEF Files, Contents, ValuesOK

LEMMA AppendedTyped ==
  ASSUME ValuesOK, NEW file \in Files \cup {NoFile}, NEW content \in Contents,
         NEW of \in Pages \cup {NoPage}, NEW v \in Nat, NEW hdr \in Nat,
         NEW control \in ControlFields
  PROVE  /\ Appended(file, content, of, v, hdr, control) \in Files
         /\ Blank(file) => Appended(file, content, of, v, hdr, control)
                             = File(content, of, v, hdr, control)
<1>1. CASE file.exists /\ (file.content # "empty" \/ file.hdr # 0)
  BY <1>1, FileThere, MixtureTyped DEF Appended, Blank
<1>2. CASE ~(file.exists /\ (file.content # "empty" \/ file.hdr # 0))
  BY <1>2, FileTyped DEF Appended
<1> QED BY <1>1, <1>2

LEMMA MixedTyped ==
  ASSUME ValuesOK, FilesOK, NEW fs \in Mixtures
  PROVE  /\ fs \in [Pages -> Files \cup {NoFile}]
         /\ saving = NoPage => fs = files
<1>1. ASSUME NEW file \in Files \cup {NoFile} PROVE Mixed(file) \in Files
  <2>1. CASE file.exists
    BY <2>1, FileThere, MixtureTyped DEF Mixed
  <2>2. CASE ~file.exists
    <3>1. "mixed" \in Contents /\ NoPage \in Pages \cup {NoPage} /\ 0 \in Nat
      BY DEF Contents
    <3> QED BY <2>2, <3>1, FileTyped, NoControlTyped DEF Mixed
  <2> QED BY <2>1, <2>2
<1>2. fs = files \/ \E p \in {saving} \ {NoPage} : fs = [files EXCEPT ![p] = Mixed(files[p])]
  BY DEF Mixtures
<1>3. ASSUME NEW p \in {saving} \ {NoPage}, fs = [files EXCEPT ![p] = Mixed(files[p])]
      PROVE  fs \in [Pages -> Files \cup {NoFile}]
  <2>1. p \in Pages /\ files[p] \in Files \cup {NoFile}
    BY <1>3 DEF ValuesOK, FilesOK
  <2> QED BY <1>1, <1>3, <2>1 DEF FilesOK
<1> QED BY <1>2, <1>3 DEF FilesOK

LEMMA TimesTyped ==
  ASSUME ValuesOK, NEW c \in Controls
  PROVE  Times(c) \in ControlFields
<1>1. c \in ControlFields /\ now \in Nat
  BY DEF CacheAssumption, ValuesOK
<1> DEFINE date         == IF c.date = -1 THEN -1 ELSE now + c.date - 2
<1> DEFINE expires      == IF c.expires = -1 THEN -1 ELSE now + c.expires
<1> DEFINE lastModified == IF c.lastModified = -1 THEN -1 ELSE now - c.lastModified
<1>2. date \in Int /\ expires \in Int /\ lastModified \in Int
  BY <1>1 DEF ControlFields
<1>3. Times(c) = [c EXCEPT !.date = date, !.expires = expires, !.lastModified = lastModified]
  BY <1>1 DEF Times, ControlFields
<1> HIDE DEF date, expires, lastModified
<1> QED BY <1>1, <1>2, <1>3 DEF ControlFields

\* Files that are left as they are, or removed.
LEMMA FewerFiles ==
  ASSUME FilesOK, NEW fs \in [Pages -> Files \cup {NoFile}],
         \A p \in Pages : fs[p] \in {files[p], NoFile}, files' = fs
  PROVE  FilesOK' /\ \A p \in Pages : OneAnswer(p) => OneAnswer(p)'
  BY DEF FilesOK, OneAnswer, NoFile

LEMMA Removed ==
  ASSUME FilesOK, ValuesOK, NEW uri
  PROVE  /\ RemoveUri(uri).files \in [Pages -> Files \cup {NoFile}]
         /\ \A p \in Pages : RemoveUri(uri).files[p] \in {files[p], NoFile}
         /\ RemoveUri(uri).ids \subseteq URIs
  BY DEF FilesOK, ValuesOK, RemoveUri

\* A client that has finished.
LEMMA FinishedTyped ==
  ASSUME ClientOK, Finished
  PROVE  ClientOK' /\ ~client'.busy /\ client'.uri = client.uri
  BY DEF ClientOK, Finished

----------------------------------------------------------------------------
(* Loads                                                                   *)

\* The end of Cache::load, where the page will come from the network.
LEMMA ToNetworkKeeps ==
  ASSUME FilesOK, ValuesOK, NEW uri \in URIs, NEW ids \in SUBSET URIs,
         NEW fs \in [Pages -> Files \cup {NoFile}],
         UNCHANGED <<useCache, now, version>>, ops' \in 0..MaxOps,
         ToNetwork(uri, ids, fs)
  PROVE  /\ FilesOK' /\ ParserOK' /\ ValuesOK'
         /\ saving' = uri.page /\ Blank(files'[saving'])
         /\ \A p \in Pages : p # uri.page => files'[p] = fs[p]
         /\ OneAnswer(uri.page)'
<1> DEFINE new == NewFiles(fs[uri.page])
<1>1. uri.page \in Pages /\ uri \in URIs /\ NoInternal(uri) \in URIs
  BY DEF Pages, CacheAssumption
<1>2. new \in Files /\ new.content = "empty" /\ new.hdr = 0
  BY NewFilesTyped
<1>3. /\ fileIds' = ids \cup {uri, NoInternal(uri)} /\ files' = [fs EXCEPT ![uri.page] = new]
      /\ saving' = uri.page /\ parser' = Fresh
  BY DEF ToNetwork, Add
<1> HIDE DEF new
<1>4. FilesOK'
  BY <1>2, <1>3 DEF FilesOK
<1>5. ParserOK'
  BY <1>3, FreshTyped DEF ParserOK
<1>6. ValuesOK'
  BY <1>1, <1>3 DEF ValuesOK
<1>7. files'[uri.page] = new /\ \A p \in Pages : p # uri.page => files'[p] = fs[p]
  BY <1>1, <1>3
<1> QED BY <1>2, <1>3, <1>4, <1>5, <1>6, <1>7 DEF Blank, OneAnswer

\* A load begins, over the files that remove() may have left.
LEMMA LoadKeeps ==
  ASSUME IInv, NEW uri \in URIs, NEW item \in BOOLEAN,
         NEW below \in Seq(Frames), Len(below) < MaxDepth, NEW ids \in SUBSET URIs,
         NEW fs \in [Pages -> Files \cup {NoFile}],
         \A p \in Pages : fs[p] \in {files[p], NoFile},
         ops' \in 0..MaxOps, Load(uri, item, below, ids, fs)
  PROVE  Keeps
<1>1. uri.page \in Pages /\ NoInternal(uri) \in URIs /\ NoURI \in URIs \cup {NoURI}
      /\ "headers" \in Points /\ "loop" \in Points
  BY DEF Pages, CacheAssumption, Points
<1>2. client' = [uri |-> uri, busy |-> TRUE] /\ UNCHANGED <<useCache, now, version>>
  BY DEF Load
<1>3. ClientOK' /\ client'.uri = uri
  BY <1>2 DEF ClientOK
<1>4. CASE HasId(uri, ids) /\ fs[uri.page].exists /\ files' = fs /\ saving' = NoPage
           /\ fileIds' = Add(uri, ids)
           /\ parser' = (IF fs[uri.page].hdr = 0 THEN Fresh
                         ELSE Parsed("read", fs[uri.page].control))
           /\ stack' = Append(below, Frame("headers", uri, item))
  <2> DEFINE frame == Frame("headers", uri, item)
             file  == fs[uri.page]
  <2>1. file \in Files
    BY <1>1, <1>4, FileThere
  <2>2. file.control \in ControlFields
    BY <2>1 DEF Files
  <2>3. ParserOK' /\ parser'.state # "unflushed"
        /\ parser'.control = IF file.hdr = 0 THEN NoControl ELSE file.control
    BY <1>4, <2>2, FreshTyped, ParsedTyped DEF ParserOK
  <2>4. frame \in Frames /\ frame.at = "headers" /\ frame.copy = uri /\ ~frame.overtaken
    BY <1>1, FrameTyped
  <2>5. stack' = Append(below, frame)
    BY <1>4
  <2> HIDE DEF frame
  <2>6. StackOK' /\ Top' = frame
    BY <2>4, <2>5, FrameOnTop
  <2>7. FilesOK' /\ CopiesKept
    BY <1>4, FewerFiles DEF IInv, CopiesKept
  <2>8. ValuesOK'
    BY <1>1, <1>2, <1>4 DEF IInv, ValuesOK, Add
  <2>9. TopHeld'
    BY <1>3, <1>4, <2>3, <2>4, <2>6 DEF TopHeld, Held
  <2> QED BY <1>3, <2>3, <2>6, <2>7, <2>8, <2>9 DEF IInv, Keeps
<1> DEFINE frame == Frame("loop", NoURI, item)
<1>5. frame \in Frames /\ frame.at = "loop"
  BY <1>1, FrameTyped
<1> HIDE DEF frame
<1>6. ASSUME stack' = Append(below, frame) PROVE StackOK' /\ Top'.at = "loop"
  BY <1>5, <1>6, FrameOnTop
<1>7. CASE ToNetwork(uri, ids, fs) /\ stack' = Append(below, frame)
  <2>1. /\ FilesOK' /\ ParserOK' /\ ValuesOK'
        /\ saving' = uri.page /\ Blank(files'[saving'])
        /\ \A p \in Pages : p # uri.page => files'[p] = fs[p]
        /\ OneAnswer(uri.page)'
    BY <1>2, <1>7, ToNetworkKeeps DEF IInv
  <2>2. TopHeld'
    <3>1. saving' = client'.uri.page /\ Blank(files'[saving'])
      BY <1>3, <2>1
    <3>2. Blank(files[saving])'
      BY <3>1 DEF Blank
    <3> QED BY <1>6, <1>7, <3>1, <3>2 DEF TopHeld, Held
  <2>3. CopiesKept
    <3> SUFFICES ASSUME NEW p \in Pages, OneAnswer(p) PROVE OneAnswer(p)'
      BY DEF CopiesKept
    <3>1. CASE p = uri.page
      BY <2>1, <3>1
    <3>2. CASE p # uri.page
      <4>1. files'[p] \in {files[p], NoFile}
        BY <2>1, <3>2
      <4> QED BY <4>1 DEF OneAnswer, NoFile
    <3> QED BY <3>1, <3>2
  <2> QED BY <1>3, <1>6, <1>7, <2>1, <2>2, <2>3 DEF IInv, Keeps
<1>8. CASE fileIds' = ids /\ files' = fs /\ saving' = NoPage
           /\ parser' \in {parser, Fresh} /\ stack' = Append(below, frame)
  <2>1. FilesOK' /\ CopiesKept
    BY <1>8, FewerFiles DEF IInv, CopiesKept
  <2>2. ParserOK' /\ ValuesOK'
    BY <1>2, <1>8, FreshTyped DEF IInv, ParserOK, ValuesOK
  <2>3. TopHeld'
    BY <1>6, <1>8 DEF TopHeld, Held
  <2> QED BY <1>3, <1>6, <1>8, <2>1, <2>2, <2>3 DEF IInv, Keeps
<1>9. CASE useCache /\ ToNetwork(uri, ids, fs) /\ stack' = Append(below, Frame("loop", NoURI, item))
  BY <1>7, <1>9 DEF frame
<1>10. CASE /\ fileIds' = ids /\ files' = fs /\ saving' = NoPage
            /\ parser' = (IF item THEN parser ELSE Fresh)
            /\ stack' = Append(below, Frame("loop", NoURI, item))
  <2>1. parser' \in {parser, Fresh}
    BY <1>10
  <2> QED BY <1>8, <1>10, <2>1 DEF frame
<1> QED BY <1>4, <1>9, <1>10 DEF Load

\* A step that leaves the files alone.
LEMMA FilesStay ==
  ASSUME FilesOK, UNCHANGED files
  PROVE  FilesOK' /\ CopiesKept
  BY DEF FilesOK, CopiesKept, OneAnswer

LEMMA ValuesStay ==
  ASSUME ValuesOK, UNCHANGED <<useCache, fileIds, saving, version, now>>, ops' \in 0..MaxOps
  PROVE  ValuesOK'
  BY DEF ValuesOK

\* Without a step of the program itself, the calls stay where they are.
LEMMA TopStays ==
  ASSUME TopHeld, UNCHANGED <<stack, client, saving, parser>>,
         \A p \in Pages : files'[p] \in {files[p], NoFile}, saving \in Pages \cup {NoPage}
  PROVE  TopHeld'
<1> SUFFICES ASSUME stack # <<>>, ~Top.overtaken PROVE Held(Top)'
  BY DEF TopHeld, Top, Depth
<1>1. Held(Top) /\ Top' = Top
  BY DEF TopHeld, Top, Depth
<1>2. ASSUME Top.at = "headers", files'[Top.copy.page].exists
      PROVE  files'[Top.copy.page] = files[Top.copy.page]
  BY <1>1, <1>2 DEF Held, NoFile, Pages
<1>3. ASSUME saving # NoPage, Blank(files[saving]) PROVE Blank(files'[saving])
  BY <1>3 DEF Blank, NoFile
<1>4. Top'.at = "headers" =>
       /\ Top'.copy \in URIs /\ client'.uri = Top'.copy /\ saving' = NoPage
       /\ parser'.state # "unflushed"
       /\ files'[Top'.copy.page].exists =>
            parser'.control = IF files'[Top'.copy.page].hdr = 0 THEN NoControl
                              ELSE files'[Top'.copy.page].control
  BY <1>1, <1>2 DEF Held
<1>5. /\ Top'.at = "local" => saving' = NoPage
      /\ Top'.at = "error" => ~client'.busy
  BY <1>1 DEF Held
<1>6. Top'.at = "loop" /\ client'.busy =>
        saving' = NoPage \/ (saving' = client'.uri.page /\ Blank(files'[saving']))
  BY <1>1, <1>3 DEF Held
<1>7. Blank(files'[saving']) => Blank(files[saving])'
  BY DEF Blank
<1> QED BY <1>4, <1>5, <1>6, <1>7 DEF Held

----------------------------------------------------------------------------
(* What the user does                                                      *)

LEMMA OpensInside ==
  ASSUME IInv, Opens
  PROVE  stack \in Seq(Frames) /\ Len(stack) < MaxDepth /\ ops' \in 0..MaxOps
  BY DEF IInv, StackOK, ValuesOK, Opens, UserActs, Depth, CacheAssumption

LEMMA OpenKeeps ==
  ASSUME IInv, NEW uri \in URIs, Open(uri) \/ Reload(uri)
  PROVE  Keeps
<1>1. stack \in Seq(Frames) /\ Len(stack) < MaxDepth /\ ops' \in 0..MaxOps
  BY OpensInside DEF Open, Reload
<1>2. CASE Open(uri)
  BY <1>1, <1>2, LoadKeeps DEF Open, IInv, FilesOK, ValuesOK
<1>3. CASE Reload(uri)
  BY <1>1, <1>3, LoadKeeps, Removed DEF Reload, IInv
<1> QED BY <1>2, <1>3

LEMMA OpenLocalKeeps ==
  ASSUME IInv, OpenLocal
  PROVE  Keeps
<1> DEFINE frame == IF checkingQueue THEN Frame("local", NoURI, FALSE) ELSE Queue
<1>1. /\ saving' = NoPage /\ parser' = Parsed("read", NoControl)
      /\ stack' = Append(stack, frame)
      /\ UNCHANGED <<fileVars, client, now, version>>
  BY DEF OpenLocal
<1>2. stack \in Seq(Frames) /\ Len(stack) < MaxDepth /\ ops' \in 0..MaxOps
  BY OpensInside DEF OpenLocal
<1>3. frame \in Frames /\ frame.at \in {"local", "queue"}
  <2>1. "local" \in Points /\ "local" # "headers" /\ NoURI \in URIs \cup {NoURI} /\ FALSE \in BOOLEAN
    BY DEF Points
  <2> QED BY <2>1, FrameTyped, QueueTyped
<1> HIDE DEF frame
<1>4. StackOK' /\ Top' = frame
  BY <1>1, <1>2, <1>3, FrameOnTop
<1>5. FilesOK' /\ CopiesKept
  BY <1>1, FilesStay DEF fileVars, IInv
<1>6. ParserOK' /\ ClientOK' /\ ValuesOK'
  BY <1>1, <1>2, ParsedTyped, NoControlTyped DEF IInv, ParserOK, ClientOK, ValuesOK, fileVars
<1>7. TopHeld'
  BY <1>1, <1>3, <1>4 DEF TopHeld, Held
<1> QED BY <1>4, <1>5, <1>6, <1>7 DEF IInv, Keeps

LEMMA StopKeeps ==
  ASSUME IInv, Stop
  PROVE  Keeps
<1>1. /\ UNCHANGED <<useCache, docVars, client, stack, now, version>>
      /\ \/ fileIds' = RemoveUri(client.uri).ids /\ files' = RemoveUri(client.uri).files
         \/ UNCHANGED <<fileIds, files>>
      /\ ops' \in 0..MaxOps
  BY DEF Stop, UserActs, IInv, ValuesOK, CacheAssumption
<1>2. files' \in [Pages -> Files \cup {NoFile}] /\ fileIds' \subseteq URIs
      /\ \A p \in Pages : files'[p] \in {files[p], NoFile}
  BY <1>1, Removed DEF IInv, FilesOK, ValuesOK
<1>3. FilesOK' /\ CopiesKept
  BY <1>2, FewerFiles DEF IInv, CopiesKept
<1>4. ParserOK' /\ ClientOK' /\ StackOK' /\ ValuesOK'
  BY <1>1, <1>2 DEF IInv, ParserOK, ClientOK, StackOK, ValuesOK, Depth, docVars
<1>5. TopHeld'
  BY <1>1, <1>2, TopStays DEF IInv, ValuesOK, docVars
<1> QED BY <1>3, <1>4, <1>5 DEF IInv, Keeps

----------------------------------------------------------------------------
(* What the calls do                                                       *)

\* What an answer, or the error page, leaves in the files `fs'.
LEMMA SavedKeeps ==
  ASSUME IInv, Waiting, NEW fs \in [Pages -> Files \cup {NoFile}],
         \A p \in Pages : fs[p] \in {files[p], NoFile},
         NEW content \in {"answer", "error"}, NEW v \in Nat, NEW hdr \in Nat,
         hdr # 0 => content = "answer" /\ hdr = v, NEW control \in ControlFields,
         files' = Saved(fs, content, client.uri.page, v, hdr, control)
  PROVE  FilesOK' /\ CopiesKept
<1>1. ValuesOK /\ FilesOK /\ ClientOK
  BY DEF IInv
<1>2. CASE saving = NoPage
  BY <1>1, <1>2, FewerFiles DEF Saved, CopiesKept
<1>3. CASE saving # NoPage
  <2> DEFINE file == Appended(fs[saving], content, client.uri.page, v, hdr, control)
  <2>1. saving \in Pages /\ fs[saving] \in Files \cup {NoFile}
    BY <1>1, <1>3 DEF ValuesOK
  <2>2. client.uri.page \in Pages \cup {NoPage} /\ content \in Contents
    BY <1>1 DEF ClientOK, Pages, NoURI, Contents
  <2>3. file \in Files /\ (Blank(fs[saving]) =>
          file = File(content, client.uri.page, v, hdr, control))
    BY <1>1, <2>1, <2>2, AppendedTyped
  <2>4. files' = [fs EXCEPT ![saving] = file]
    BY <1>3 DEF Saved
  <2> HIDE DEF file
  <2>5. FilesOK'
    BY <2>3, <2>4 DEF FilesOK
  <2>6. ASSUME ~Overtaken, NEW p \in Pages, OneAnswer(p) PROVE OneAnswer(p)'
    <3>1. CASE p = saving
      <4>1. saving = client.uri.page /\ Blank(files[saving])
        BY <1>3, <2>6 DEF IInv, TopHeld, Held, Overtaken, Waiting, At
      <4>2. Blank(fs[saving])
        BY <2>1, <4>1 DEF Blank, NoFile
      <4>3. file.content = content /\ file.of = saving /\ file.hdr = hdr /\ file.version = v
        BY <1>1, <2>2, <2>3, <4>1, <4>2, FileTyped
      <4>4. files'[p] = file
        BY <2>1, <2>4, <3>1
      <4> QED BY <3>1, <4>3, <4>4 DEF OneAnswer
    <3>2. CASE p # saving
      <4>1. files'[p] \in {files[p], NoFile}
        BY <2>4, <3>2
      <4> QED BY <2>6, <4>1 DEF OneAnswer, NoFile
    <3> QED BY <3>1, <3>2
  <2> QED BY <2>5, <2>6 DEF CopiesKept
<1> QED BY <1>2, <1>3

LEMMA AnsweredKeeps ==
  ASSUME IInv, Answered
  PROVE  Keeps
<1>1. PICK c \in Controls :
        /\ parser' = Parsed("read", Times(c))
        /\ \/ /\ files' = Saved(files, "answer", client.uri.page, version', version', Times(c))
              /\ UNCHANGED <<fileIds, stop>>
           \/ /\ Removes /\ stop' = TRUE
              /\ fileIds' = RemoveUri(client.uri).ids
              /\ files' = Saved(RemoveUri(client.uri).files, "answer", client.uri.page,
                                version', 0, NoControl)
  BY DEF Answered
<1>2. /\ Waiting /\ stack # <<>>
      /\ version' \in 0..MaxVersion /\ UNCHANGED <<useCache, saving, now, ops>>
      /\ \/ Finished /\ UNCHANGED stack
         \/ stack' = GoTo("answer") /\ UNCHANGED client
  BY DEF Answered, Waiting, At, IInv, ValuesOK, CacheAssumption
<1>3. Times(c) \in ControlFields /\ version' \in Nat /\ NoControl \in ControlFields
  BY <1>2, TimesTyped, NoControlTyped DEF IInv, CacheAssumption
<1>4. FilesOK' /\ CopiesKept
  <2>1. CASE files' = Saved(files, "answer", client.uri.page, version', version', Times(c))
    <3>1. files \in [Pages -> Files \cup {NoFile}]
      BY DEF IInv, FilesOK
    <3> QED BY <1>2, <1>3, <2>1, <3>1, SavedKeeps
  <2>2. CASE files' = Saved(RemoveUri(client.uri).files, "answer", client.uri.page,
                            version', 0, NoControl)
    <3> DEFINE fs == RemoveUri(client.uri).files
    <3>1. fs \in [Pages -> Files \cup {NoFile}] /\ \A p \in Pages : fs[p] \in {files[p], NoFile}
      BY Removed DEF IInv
    <3>2. files' = Saved(fs, "answer", client.uri.page, version', 0, NoControl)
      BY <2>2
    <3> HIDE DEF fs
    <3> QED BY <1>2, <1>3, <3>1, <3>2, SavedKeeps
  <2> QED BY <1>1, <2>1, <2>2
<1>5. fileIds' \subseteq URIs
  BY <1>1, Removed DEF IInv, ValuesOK
<1>6. ParserOK' /\ ValuesOK'
  BY <1>1, <1>2, <1>3, <1>5, ParsedTyped DEF IInv, ParserOK, ValuesOK
<1>7. ClientOK' /\ StackOK' /\ TopHeld'
  <2>1. CASE Finished /\ UNCHANGED stack
    <3>1. ClientOK' /\ ~client'.busy
      BY <2>1, FinishedTyped DEF IInv
    <3>2. StackOK' /\ Top'.at = "loop"
      BY <1>2, <2>1 DEF IInv, StackOK, Waiting, At, Top, Depth
    <3> QED BY <3>1, <3>2 DEF TopHeld, Held
  <2>2. CASE stack' = GoTo("answer") /\ UNCHANGED client
    <3>1. StackOK' /\ Top'.at = "answer"
      BY <1>2, <2>2, GoesTo DEF IInv, Points
    <3> QED BY <2>2, <3>1 DEF IInv, ClientOK, TopHeld, Held
  <2> QED BY <1>2, <2>1, <2>2
<1> QED BY <1>4, <1>6, <1>7 DEF IInv, Keeps

LEMMA FailedKeeps ==
  ASSUME IInv, Failed
  PROVE  Keeps
<1>1. /\ Waiting /\ Finished /\ stack # <<>>
      /\ parser' = Parsed("read", NoControl)
      /\ files' = Saved(files, "error", client.uri.page, 0, 0, NoControl)
      /\ stack' = GoTo("error") \/ UNCHANGED stack
      /\ UNCHANGED <<useCache, fileIds, saving, now, version, ops>>
  BY DEF Failed, Waiting, At
<1>2. FilesOK' /\ CopiesKept
  BY <1>1, SavedKeeps, NoControlTyped DEF IInv, FilesOK
<1>3. ParserOK' /\ ValuesOK'
  BY <1>1, ParsedTyped, NoControlTyped DEF IInv, ParserOK, ValuesOK
<1>4. ClientOK' /\ ~client'.busy
  BY <1>1, FinishedTyped DEF IInv
<1>5. StackOK' /\ Top'.at \in {"error", "loop"}
  <2>1. CASE stack' = GoTo("error")
    BY <1>1, <2>1, GoesTo DEF IInv, Points
  <2>2. CASE UNCHANGED stack
    BY <1>1, <2>2 DEF IInv, StackOK, Waiting, At, Top, Depth
  <2> QED BY <1>1, <2>1, <2>2
<1>6. TopHeld'
  BY <1>4, <1>5 DEF TopHeld, Held
<1> QED BY <1>2, <1>3, <1>4, <1>5, <1>6 DEF IInv, Keeps

LEMMA FlushEnds ==
  ASSUME IInv, AnswerEnds \/ ErrorEnds
  PROVE  Keeps
<1>1. /\ stack # <<>> /\ stack' = GoTo("loop")
      /\ UNCHANGED <<fileVars, docVars, now, version, ops>>
      /\ Finished \/ (Top.at = "error" /\ UNCHANGED client)
  BY DEF AnswerEnds, ErrorEnds, At
<1>2. FilesOK' /\ CopiesKept
  BY <1>1, FilesStay DEF fileVars, IInv
<1>3. ParserOK' /\ ValuesOK'
  BY <1>1 DEF IInv, ParserOK, ValuesOK, docVars, fileVars
<1>4. StackOK' /\ Top'.at = "loop" /\ Top'.overtaken = Top.overtaken
  BY <1>1, GoesTo DEF IInv, Points
<1>5. ClientOK' /\ (~Top.overtaken => ~client'.busy)
  <2>1. CASE Finished
    BY <2>1, FinishedTyped DEF IInv
  <2>2. CASE Top.at = "error" /\ UNCHANGED client
    BY <1>1, <2>2 DEF IInv, ClientOK, TopHeld, Held
  <2> QED BY <1>1, <2>1, <2>2
<1>6. TopHeld'
  BY <1>4, <1>5 DEF TopHeld, Held
<1> QED BY <1>2, <1>3, <1>4, <1>5, <1>6 DEF IInv, Keeps

LEMMA LeftData ==
  ASSUME ParserOK, LeavesData
  PROVE  ParserOK'
<1>1. PICK s \in {parser.state, "unflushed"} : parser' = [parser EXCEPT !.state = s]
  BY DEF LeavesData
<1> QED BY <1>1 DEF ParserOK

LEMMA TimesOutKeeps ==
  ASSUME IInv, TimesOut
  PROVE  Keeps
<1>1. /\ Waiting /\ Finished /\ LeavesData
      /\ UNCHANGED <<fileVars, saving, stack, now, version, ops>>
  BY DEF TimesOut
<1>2. FilesOK' /\ CopiesKept
  BY <1>1, FilesStay DEF fileVars, IInv
<1>3. ParserOK' /\ ValuesOK' /\ ClientOK' /\ ~client'.busy
  BY <1>1, LeftData, FinishedTyped DEF IInv, ValuesOK, fileVars
<1>4. StackOK' /\ Top'.at = "loop"
  BY <1>1 DEF IInv, StackOK, Waiting, At, Top, Depth
<1>5. TopHeld'
  BY <1>3, <1>4 DEF TopHeld, Held
<1> QED BY <1>2, <1>3, <1>4, <1>5 DEF IInv, Keeps

LEMMA LoadEndKeeps ==
  ASSUME IInv, LoopStops \/ LoadEnds
  PROVE  Keeps
<1>1. /\ stack # <<>> /\ AfterLoad /\ (LeavesData \/ UNCHANGED parser)
      /\ UNCHANGED <<fileVars, saving, client, now, version, ops>>
  BY DEF LoopStops, LoadEnds, Ended, At, docVars
<1>2. FilesOK' /\ CopiesKept
  BY <1>1, FilesStay DEF fileVars, IInv
<1>3. ParserOK' /\ ValuesOK' /\ ClientOK'
  BY <1>1, LeftData DEF IInv, ParserOK, ClientOK, ValuesOK, fileVars
<1>4. StackOK' /\ TopHeld'
  BY <1>1, AfterLoadKeeps DEF IInv
<1> QED BY <1>2, <1>3, <1>4 DEF IInv, Keeps

LEMMA LocalEndKeeps ==
  ASSUME IInv, LocalEnds
  PROVE  Keeps
<1>1. /\ stack # <<>> /\ Top.at = "local" /\ AfterLoad /\ files' \in Mixtures
      /\ UNCHANGED <<useCache, fileIds, docVars, client, now, version, ops>>
  BY DEF LocalEnds, At
<1>2. FilesOK' /\ (saving = NoPage => files' = files)
  BY <1>1, MixedTyped DEF IInv, FilesOK
<1>3. CopiesKept
  BY <1>1, <1>2 DEF IInv, TopHeld, Held, CopiesKept, OneAnswer, Overtaken
<1>4. ParserOK' /\ ValuesOK' /\ ClientOK'
  BY <1>1 DEF IInv, ParserOK, ClientOK, ValuesOK, docVars
<1>5. StackOK' /\ TopHeld'
  BY <1>1, AfterLoadKeeps DEF IInv
<1> QED BY <1>2, <1>3, <1>4, <1>5 DEF IInv, Keeps

\* doUri's next round, or the next image.
LEMMA NextLoadKeeps ==
  ASSUME IInv, FollowRedirect \/ FetchItem
  PROVE  Keeps
<1>1. stack # <<>> /\ ops' = ops
      /\ \E uri \in URIs, item \in BOOLEAN : Load(uri, item, Outer, fileIds, files)
  BY DEF FollowRedirect, FetchItem, Ended, At, CacheAssumption
<1>2. Outer \in Seq(Frames) /\ Len(Outer) < MaxDepth /\ ops' \in 0..MaxOps
  BY <1>1, Below DEF IInv, ValuesOK
<1>3. fileIds \in SUBSET URIs /\ files \in [Pages -> Files \cup {NoFile}]
  BY DEF IInv, ValuesOK, FilesOK
<1>4. PICK uri \in URIs, item \in BOOLEAN : Load(uri, item, Outer, fileIds, files)
  BY <1>1
<1> QED BY <1>2, <1>3, <1>4, LoadKeeps

\* The load that a call was nested in goes on, overtaken.
LEMMA EndQueueKeeps ==
  ASSUME IInv, EndQueue
  PROVE  Keeps
<1>1. stack # <<>> /\ UNCHANGED <<fileVars, docVars, client, now, version, ops>>
  BY DEF EndQueue, At
<1>2. FilesOK' /\ CopiesKept
  BY <1>1, FilesStay DEF fileVars, IInv
<1>3. ParserOK' /\ ValuesOK' /\ ClientOK'
  BY <1>1 DEF IInv, ParserOK, ClientOK, ValuesOK, fileVars, docVars
<1>4. CASE Depth = 1
  <2>1. stack' = <<>>
    BY <1>4 DEF EndQueue
  <2>2. StackOK'
    BY <2>1 DEF StackOK, Depth, CacheAssumption
  <2> QED BY <1>2, <1>3, <2>1, <2>2 DEF IInv, Keeps, TopHeld
<1>5. CASE Depth # 1
  <2> DEFINE s == SubSeq(stack, 1, Depth - 2)
             f == [stack[Depth - 1] EXCEPT !.overtaken = TRUE]
  <2>1. Depth \in Nat /\ Depth >= 2 /\ Depth <= MaxDepth /\ stack \in Seq(Frames)
        /\ stack[Depth - 1] \in Frames
    BY <1>1, <1>5, Below DEF IInv, StackOK
  <2>2. s \in Seq(Frames) /\ Len(s) = Depth - 2
    <3>1. Depth - 2 \in 0..Len(stack)
      BY <2>1 DEF Depth
    <3> QED BY <2>1, <3>1, Prefix
  <2>3. f \in Frames /\ f.overtaken
    BY <2>1 DEF Frames
  <2>4. stack' = Append(s, f)
    BY <1>5 DEF EndQueue
  <2> HIDE DEF s, f
  <2>5. Len(s) < MaxDepth
    BY <2>1, <2>2 DEF CacheAssumption
  <2>6. StackOK' /\ Top' = f
    BY <2>2, <2>3, <2>4, <2>5, FrameOnTop
  <2> QED BY <1>2, <1>3, <2>3, <2>6 DEF IInv, Keeps, TopHeld
<1> QED BY <1>4, <1>5

\* What the flush of the headers leaves: if nothing was nested in it, what was.
LEMMA FlushOfHeaders ==
  ASSUME IInv, At({"headers"}), NEW fs \in Spilled, NEW h \in Flushed
  PROVE  /\ fs \in [Pages -> Files \cup {NoFile}]
         /\ h \in [state : {"start", "read", "unflushed"}, control : ControlFields]
         /\ ~Overtaken => fs = files /\ h = parser
<1>1. fs = files \/ fs \in Mixtures
  BY DEF Spilled, Mixtures
<1>2. fs \in [Pages -> Files \cup {NoFile}] /\ (saving = NoPage => fs = files)
  BY <1>1, MixedTyped DEF IInv, FilesOK
<1>3. h = parser \/ \E c \in Controls : h = Parsed("read", Times(c))
  BY DEF Flushed
<1>4. h \in [state : {"start", "read", "unflushed"}, control : ControlFields]
  BY <1>3, TimesTyped, ParsedTyped DEF IInv, ParserOK
<1>5. ASSUME ~Overtaken PROVE fs = files /\ h = parser
  <2>1. saving = NoPage /\ parser.state # "unflushed"
    BY <1>5 DEF IInv, TopHeld, Held, Overtaken, At
  <2> QED BY <1>2, <2>1 DEF Flushed
<1> QED BY <1>2, <1>4, <1>5

LEMMA CopyIsFedKeeps ==
  ASSUME IInv, CopyIsFed
  PROVE  Keeps
<1>1. /\ stack # <<>> /\ At({"headers"}) /\ stack' = GoTo("body")
      /\ UNCHANGED <<useCache, fileIds, saving, client, now, version, ops>>
      /\ files' \in Spilled /\ parser' \in Flushed
  BY DEF CopyIsFed, At
<1>2. FilesOK' /\ ParserOK' /\ CopiesKept
  BY <1>1, FlushOfHeaders DEF FilesOK, ParserOK, CopiesKept, OneAnswer
<1>3. ValuesOK' /\ ClientOK'
  BY <1>1 DEF IInv, ValuesOK, ClientOK
<1>4. StackOK' /\ Top'.at = "body"
  BY <1>1, GoesTo DEF IInv, Points
<1> QED BY <1>2, <1>3, <1>4 DEF IInv, Keeps, TopHeld, Held

LEMMA CopyIsStaleKeeps ==
  ASSUME IInv, CopyIsStale
  PROVE  Keeps
<1>1. PICK fs \in Spilled, h \in Flushed : ToNetwork(Top.copy, fileIds, fs)
  BY DEF CopyIsStale
<1>2. /\ stack # <<>> /\ Top.at = "headers" /\ stack' = GoTo("loop")
      /\ UNCHANGED <<useCache, client, now, version, ops>>
  BY DEF CopyIsStale, At
<1>4. fs \in [Pages -> Files \cup {NoFile}] /\ (~Overtaken => fs = files)
  BY <1>2, FlushOfHeaders DEF At
<1>5. StackOK' /\ Top'.at = "loop" /\ Top'.overtaken = Top.overtaken
  BY <1>2, GoesTo DEF IInv, Points
<1>6. ClientOK' /\ ops' \in 0..MaxOps /\ fileIds \in SUBSET URIs
  BY <1>2 DEF IInv, ClientOK, ValuesOK
<1>7. PICK uri \in URIs : uri = Top.copy
  <2>1. Top.copy \in URIs
    BY <1>2, Below DEF IInv, Frames
  <2> QED BY <2>1
<1>8. /\ FilesOK' /\ ParserOK' /\ ValuesOK'
      /\ saving' = uri.page /\ Blank(files'[saving'])
      /\ \A p \in Pages : p # uri.page => files'[p] = fs[p]
      /\ OneAnswer(uri.page)'
  <2>1. FilesOK /\ ValuesOK /\ UNCHANGED <<useCache, now, version>>
    BY <1>2 DEF IInv
  <2>2. ToNetwork(uri, fileIds, fs)
    BY <1>1, <1>7
  <2> QED BY <1>4, <1>6, <2>1, <2>2, ToNetworkKeeps
<1>9. CopiesKept
  <2> SUFFICES ASSUME NEW p \in Pages, OneAnswer(p), ~Overtaken PROVE OneAnswer(p)'
    BY DEF CopiesKept
  <2>1. CASE p = uri.page
    BY <1>8, <2>1
  <2>2. CASE p # uri.page
    <3>1. files'[p] = files[p]
      BY <1>4, <1>8, <2>2
    <3> QED BY <3>1 DEF OneAnswer
  <2> QED BY <2>1, <2>2
<1>10. TopHeld'
  <2> SUFFICES ASSUME ~Top'.overtaken PROVE Held(Top)'
    BY DEF TopHeld
  <2>1. client.uri = uri
    BY <1>2, <1>5, <1>7 DEF IInv, TopHeld, Held
  <2>2. saving' = client'.uri.page /\ Blank(files[saving])'
    BY <1>2, <1>8, <2>1 DEF Blank
  <2> QED BY <1>5, <2>2 DEF Held
<1> QED BY <1>5, <1>6, <1>8, <1>9, <1>10 DEF IInv, Keeps

LEMMA RestartKeeps ==
  ASSUME IInv, Restart
  PROVE  Keeps
<1>1. /\ useCache' \in BOOLEAN /\ fileIds' = {} /\ saving' = NoPage /\ parser' = Fresh
      /\ files' = files \/ files' = [p \in Pages |-> NoFile]
      /\ client' = [uri |-> NoURI, busy |-> FALSE] /\ stack' = <<>>
      /\ UNCHANGED <<now, version, ops>>
  BY DEF Restart
<1>2. FilesOK' /\ CopiesKept
  <2>1. files' \in [Pages -> Files \cup {NoFile}] /\ \A p \in Pages : files'[p] \in {files[p], NoFile}
    BY <1>1 DEF IInv, FilesOK
  <2> QED BY <2>1, FewerFiles DEF IInv, CopiesKept
<1>3. ParserOK' /\ ClientOK' /\ ValuesOK'
  BY <1>1, FreshTyped DEF IInv, ParserOK, ClientOK, ValuesOK
<1>4. StackOK'
  BY <1>1 DEF StackOK, Depth, CacheAssumption
<1> QED BY <1>1, <1>2, <1>3, <1>4 DEF IInv, Keeps, TopHeld

LEMMA TickKeeps ==
  ASSUME IInv, Tick \/ UNCHANGED vars
  PROVE  Keeps
<1>1. /\ UNCHANGED <<useCache, fileIds, files, saving, parser, client, stack, version, ops>>
      /\ now' \in {now, now + 1}
  BY DEF Tick, vars, fileVars, docVars, callVars
<1>2. FilesOK' /\ CopiesKept
  BY <1>1, FilesStay DEF IInv
<1>3. ParserOK' /\ ClientOK' /\ ValuesOK'
  BY <1>1 DEF IInv, ParserOK, ClientOK, ValuesOK
<1>4. StackOK'
  BY <1>1 DEF IInv, StackOK, Depth
<1>5. TopHeld'
  BY <1>1, TopStays DEF IInv, ValuesOK
<1> QED BY <1>2, <1>3, <1>4, <1>5 DEF IInv, Keeps

----------------------------------------------------------------------------
(* The inductive invariant                                                 *)

LEMMA InitOK == Init => IInv
<1> SUFFICES ASSUME Init PROVE IInv
  OBVIOUS
<1>1. FilesOK /\ ParserOK /\ ClientOK
  BY FreshTyped DEF Init, FilesOK, ParserOK, ClientOK
<1>2. StackOK /\ ValuesOK /\ TopHeld
  BY DEF Init, StackOK, ValuesOK, TopHeld, Depth, CacheAssumption
<1> QED BY <1>1, <1>2 DEF IInv

LEMMA StepKeeps == IInv /\ [Next]_vars => Keeps
<1> SUFFICES ASSUME IInv, [Next]_vars PROVE Keeps
  OBVIOUS
<1>1. CASE User
  BY <1>1, OpenKeeps, OpenLocalKeeps, StopKeeps DEF User
<1>2. CASE Program
  BY <1>2, CopyIsFedKeeps, CopyIsStaleKeeps, AnsweredKeeps, FlushEnds, FailedKeeps,
     TimesOutKeeps, LoadEndKeeps, NextLoadKeeps, LocalEndKeeps, EndQueueKeeps, Zenon DEF Program
<1>3. CASE Restart \/ Tick \/ UNCHANGED vars
  BY <1>3, RestartKeeps, TickKeeps
<1> QED BY <1>1, <1>2, <1>3 DEF Next

LEMMA Inductive == Spec => []IInv
<1>1. IInv /\ [Next]_vars => IInv'
  BY StepKeeps DEF Keeps
<1> QED BY <1>1, InitOK, PTL DEF Spec

\* Ids are URIs, a file holds one of four contents, and every call in progress is
\* at one of the points of Cache::load and fetchHttp, at most MaxDepth deep.
THEOREM TypeCorrect == Spec => []TypeInvariant
<1>1. ASSUME IInv, NEW p \in Pages, files[p].exists
      PROVE  files[p].content \in {"empty", "answer", "error", "mixed"}
  <2>1. files[p] \in Files
    BY <1>1, FileThere DEF IInv, FilesOK
  <2> QED BY <2>1 DEF Files, Contents
<1>2. IInv => client.uri \in URIs \cup {NoURI}
  BY DEF IInv, ClientOK
<1>3. IInv => TypeInvariant
  BY <1>1, <1>2 DEF IInv, ValuesOK, StackOK, TypeInvariant
<1> QED BY <1>3, Inductive, PTL

\* Whatever is opened in the middle of a load, is stopped, fails, or is removed
\* and loaded again: only a load that goes on after another was nested in it can
\* spoil a copy.
THEOREM CopiesAreOneAnswer == Spec => CopyIsOneAnswer
<1>1. IInv /\ [Next]_vars =>
        [\A p \in Pages : OneAnswer(p) => OneAnswer(p)' \/ Overtaken]_vars
  BY StepKeeps DEF Keeps, CopiesKept
<1> QED BY <1>1, Inductive, PTL DEF Spec, CopyIsOneAnswer

----------------------------------------------------------------------------
(* Which loads are answered by a copy                                      *)

\* CacheControl: what it takes for a page to be good, if nothing is known of the
\* time of its request.
LEMMA GoodPages ==
  ASSUME NEW c \in ControlFields, NEW t \in Nat \ {0}, ShouldCache(c, t)
  PROVE  /\ ~c.noCache
         /\ c.date = -1 => t - c.response < DefaultTime + Larger(0, c.maxAge)
         /\ c.date # -1 /\ c.maxAge # -1 => c.response - c.date < c.maxAge
         /\ c.date # -1 /\ c.maxAge = -1 => c.lastModified # -1
<1> USE DEF ControlFields
<1>1. ~c.noCache
  BY DEF ShouldCache
<1>2. ASSUME c.date = -1 PROVE t - c.response < DefaultTime + Larger(0, c.maxAge)
  <2>1. c.response + c.maxAge + DefaultTime > t
    BY <1>2 DEF ShouldCache, DefaultCache
  <2>2. c.maxAge <= Larger(0, c.maxAge) /\ Larger(0, c.maxAge) \in Int
    BY DEF Larger
  <2> QED BY <2>1, <2>2 DEF CacheControlAssumption
<1>3. /\ CurrentAge(c) \in Int /\ CurrentAge(c) >= 0
      /\ CurrentAge(c) >= c.response - c.date
  BY DEF CurrentAge, Larger
<1>4. ASSUME c.date # -1, c.maxAge # -1 PROVE c.response - c.date < c.maxAge
  <2>1. MaxAge(c, t) = c.maxAge + t /\ MaxAge(c, t) # -1
    BY <1>4 DEF MaxAge
  <2>2. c.maxAge + t > CurrentAge(c) + t
    BY <1>4, <2>1 DEF ShouldCache
  <2> QED BY <1>3, <2>2
<1>5. ASSUME c.date # -1, c.maxAge = -1 PROVE c.lastModified # -1
  <2> SUFFICES ASSUME c.lastModified = -1 PROVE FALSE
    OBVIOUS
  <2>1. MaxAge(c, t) = t - 1 /\ MaxAge(c, t) # -1
    BY <1>5 DEF MaxAge
  <2>2. t - 1 > CurrentAge(c) + t
    BY <1>5, <2>1 DEF ShouldCache
  <2> QED BY <1>3, <2>2
<1> QED BY <1>1, <1>2, <1>4, <1>5

LEMMA ControlTyped ==
  ASSUME NEW file \in Files
  PROVE  ControlOf(file) \in ControlFields
  BY NoControlTyped DEF ControlOf, Files, ControlFields

\* A reload finds no copy, as remove() has taken the files away.
LEMMA ReloadGoesOut ==
  ASSUME IInv, NEW uri \in URIs, Reload(uri)
  PROVE  stack'[Len(stack')].at = "loop"
<1>1. Load(uri, FALSE, stack, RemoveUri(uri).ids, RemoveUri(uri).files)
  BY DEF Reload
<1>2. ASSUME HasId(uri, RemoveUri(uri).ids) PROVE ~RemoveUri(uri).files[uri.page].exists
  <2>1. RemoveUri(uri).files = [files EXCEPT ![uri.page] = NoFile]
    BY <1>2 DEF HasId, RemoveUri
  <2>2. uri.page \in Pages
    BY DEF Pages
  <2> QED BY <2>1, <2>2 DEF IInv, FilesOK, NoFile
<1>3. stack' = Append(stack, Frame("loop", NoURI, FALSE))
  BY <1>1, <1>2 DEF Load
<1>4. Frame("loop", NoURI, FALSE) \in Frames /\ Frame("loop", NoURI, FALSE).at = "loop"
  <2>1. "loop" \in Points /\ "loop" # "headers" /\ NoURI \in URIs \cup {NoURI} /\ FALSE \in BOOLEAN
    BY DEF Points
  <2> QED BY <2>1, FrameTyped
<1>5. stack \in Seq(Frames) /\ Len(stack) < MaxDepth
  BY OpensInside DEF Reload
<1> QED BY <1>3, <1>4, <1>5, FrameOnTop

\* Only CopyIsFed goes from the headers to the content.
LEMMA OnlyCopyIsFedFeeds ==
  ASSUME IInv, Next, Feeds
  PROVE  CopyIsFed
<1>1. /\ stack # <<>> /\ Top.at = "headers" /\ stack \in Seq(Frames) /\ Depth \in Nat \ {0}
      /\ Len(stack') = Depth /\ stack'[Depth].at = "body"
  BY Below DEF Feeds, At, IInv, StackOK
<1>2. stack' # stack
  BY <1>1 DEF Top
<1>3. ASSUME NEW uri \in URIs, Open(uri) \/ Reload(uri) PROVE FALSE
  <2>1. \E f : stack' = Append(stack, f)
    BY <1>3 DEF Open, Reload, Load
  <2> QED BY <1>1, <2>1 DEF Depth
<1>4. CASE OpenLocal
  BY <1>1, <1>4 DEF OpenLocal, Depth
<1>5. CASE Stop
  BY <1>2, <1>5 DEF Stop
<1>6. CASE CopyIsStale
  <2>1. Top'.at = "loop" /\ stack' \in Seq(Frames)
    BY <1>1, <1>6, GoesTo DEF CopyIsStale, IInv, Points, StackOK
  <2> QED BY <1>1, <2>1 DEF Top, Depth
<1>7. ASSUME \/ Answered \/ AnswerEnds \/ Failed \/ ErrorEnds \/ TimesOut \/ LoopStops
             \/ LoadEnds \/ FollowRedirect \/ LocalEnds \/ FetchItem \/ EndQueue
      PROVE  FALSE
  BY <1>1, <1>7 DEF Answered, AnswerEnds, Failed, ErrorEnds, TimesOut, LoopStops, LoadEnds,
     FollowRedirect, LocalEnds, FetchItem, EndQueue, Waiting, Ended, At
<1>8. CASE Restart
  <2>1. stack' = <<>>
    BY <1>8 DEF Restart
  <2> QED BY <1>1, <2>1
<1>9. CASE Tick
  BY <1>2, <1>9 DEF Tick, callVars
<1> QED BY <1>3, <1>4, <1>5, <1>6, <1>7, <1>8, <1>9 DEF Next, User, Program

\* A reload never uses a copy, and a load that is not overtaken decides by the
\* headers of its own copy: it was good when it came, or is no older than two
\* minutes and its max-age; however loads nest, and whatever the headers are.
THEOREM CopiesUsedOnlyWhileGood == Spec => CopiesUsedWhileGood
<1>1. IInv /\ [Next]_vars => [\A uri \in URIs : Reload(uri) => stack'[Len(stack')].at = "loop"]_vars
  BY ReloadGoesOut
<1> DEFINE Good(file) ==
      LET c == ControlOf(file)
      IN /\ ~c.noCache
         /\ c.date = -1 => now - c.response < DefaultTime + Larger(0, c.maxAge)
         /\ c.date # -1 /\ c.maxAge # -1 => c.response - c.date < c.maxAge
         /\ c.date # -1 /\ c.maxAge = -1 => c.lastModified # -1
<1>2. ASSUME IInv, Next, Feeds, ~Overtaken, files[Top.copy.page].exists
      PROVE  Good(files[Top.copy.page])
  <2> DEFINE file == files[Top.copy.page]
  <2>1. PICK fs \in Spilled, h \in Flushed : IsGood(Top.copy, h.control, fs)
    BY <1>2, OnlyCopyIsFedFeeds DEF CopyIsFed
  <2>2. fs = files /\ h = parser
    BY <1>2, <2>1, FlushOfHeaders DEF Feeds
  <2>3. /\ Top.copy.page \in Pages
        /\ parser.control = IF file.hdr = 0 THEN NoControl ELSE file.control
    BY <1>2 DEF IInv, TopHeld, Held, Overtaken, Feeds, At, Pages
  <2>4. file \in Files
    BY <1>2, <2>3, FileThere DEF IInv, FilesOK
  <2>5. ShouldCache([parser.control EXCEPT !.response = Mtime(file)], now)
    BY <2>1, <2>2 DEF IsGood
  <2>6. [parser.control EXCEPT !.response = Mtime(file)] = ControlOf(file)
    BY <1>2, <2>3 DEF ControlOf, Mtime
  <2>7. ControlOf(file) \in ControlFields /\ now \in Nat \ {0}
    BY <1>2, <2>4, ControlTyped DEF IInv, ValuesOK
  <2> HIDE DEF file
  <2>8. Good(file)
    BY <2>5, <2>6, <2>7, GoodPages
  <2> QED BY <2>8 DEF file
<1> HIDE DEF Good
<1>3. IInv /\ [Next]_vars => [Feeds /\ ~Overtaken /\ files[Top.copy.page].exists =>
                               Good(files[Top.copy.page])]_vars
  BY <1>2
<1>4. Spec => ReloadFetches
  BY <1>1, Inductive, PTL DEF Spec, ReloadFetches
<1>5. Spec => UsedWhileGood
  BY <1>3, Inductive, PTL DEF Spec, UsedWhileGood, Good
<1> QED BY <1>4, <1>5 DEF CopiesUsedWhileGood
=============================================================================
