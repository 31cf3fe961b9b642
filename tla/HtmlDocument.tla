---------------------------- MODULE HtmlDocument ----------------------------
(***************************************************************************)
(* HtmlDocument (bunjalloo/source/HtmlDocument.cpp): makes the tree of     *)
(* HtmlElements out of the tokens of HtmlParser.  Handlers call each other *)
(* and themselves: each is a function of the document, a record, which has *)
(* the calls that are still to be made, and a step makes all the calls for *)
(* one token.  An element is the number of its creation; 1 is the html     *)
(* element, and 0 is no element.  Attributes are left out.                 *)
(***************************************************************************)
EXTENDS Integers, Sequences, SequencesExt, FiniteSets

CONSTANTS Pages,     \* sets of names: the tags that a page has
          MaxTokens, \* bound: tokens of a page
          Fuel       \* bound: rounds of a loop before it counts as endless

VARIABLES tags,      \* the tags of this page, a member of Pages
          doc,       \* the document
          count      \* tokens so far, MaxTokens + 1 after the end of the page

vars == <<tags, doc, count>>

Scripts    == {"script", "style", "title"}
HeadVoids  == {"base", "link", "meta"}
Blocks     == {"address", "blockquote", "center", "dir", "div", "dl", "fieldset",
               "listing", "menu", "ol", "ul", "pre", "noscript"}
Headers    == {"h1", "h2", "h3", "h4", "h5", "h6"}
Formatting == {"a", "b", "big", "em", "font", "i", "nobr", "s", "small", "strike",
               "strong", "tt", "u"}
Voids      == {"area", "basefont", "bgsound", "br", "embed", "img", "param", "spacer", "wbr"}
Implied    == {"p", "dd", "dt", "li", "td", "th", "tr", "plaintext"}
Scopes     == {"caption", "td", "th", "button", "marquee", "object"}
Tables     == {"caption", "table", "tbody", "tfoot", "thead", "tr", "td", "th"}

Empty == [state |-> "INITIAL", mode |-> "BEFORE_HEAD", isFirst |-> FALSE,
          open |-> <<>>, active |-> <<>>, head |-> 0, form |-> 0,
          tag |-> <<>>, parent |-> <<>>, kids |-> <<>>,
          calls |-> <<>>,                 \* handlers to call, and what is done after
          letters |-> 0,                  \* that were appended to an element
          asserted |-> TRUE, ended |-> TRUE] \* an assert and the loops of the code

----------------------------------------------------------------------------
(* Elements                                                                *)

Find(s, e) == IF e \in ToSet(s) THEN CHOOSE i \in 1..Len(s) : s[i] = e /\ \A j \in 1..i - 1 : s[j] # e
              ELSE Len(s) + 1
Current(d) == d.open[Len(d.open)]
Isa(d, e, t) == d.tag[e] = t
CurrentIs(d, t) == Isa(d, Current(d), t)
LastChild(d, e) == d.kids[e][Len(d.kids[e])]

Create(d, t) == [d EXCEPT !.tag = Append(@, t), !.parent = Append(@, 0),
                          !.kids = Append(@, <<>>)]
Newest(d) == Len(d.tag)
AppendChild(d, e, child) == [d EXCEPT !.kids[e] = Append(@, child), !.parent[child] = e]
\* Mutant: the child is not looked for.
KeepChild(d, child) == d

\* The child keeps its parent.
RemoveChild(d, child) == IF d.parent[child] = 0 THEN d
                         ELSE [d EXCEPT !.kids[d.parent[child]] = Remove(@, child)]

Push(d, e) == [d EXCEPT !.open = Append(@, e)]
Pop(d)     == [d EXCEPT !.open = Front(@)]
InsertElement(d, e) == Push(AppendChild(d, Current(d), e), e)
Insert(d, t) == LET new == Create(d, t) IN InsertElement(new, Newest(new))

\* Blanks are only kept behind other text.
AppendText(d, e, blank) ==
  IF blank THEN d
  ELSE IF d.kids[e] # <<>> /\ Isa(d, LastChild(d, e), "#text")
       THEN [d EXCEPT !.letters = @ + 1, !.kids[LastChild(d, e)] = Append(@, 0)]
       ELSE LET new == Create(d, "#text") IN
            [AppendChild(new, e, Newest(new)) EXCEPT !.letters = @ + 1,
                                                     !.kids[Newest(new)] = <<0>>]

\* The innermost element that decides: one of t, or one that ends the scope.
InScopeOf(d, t, table) ==
  LET ends == {i \in 1..Len(d.open) : \/ Isa(d, d.open[i], t)
                                      \/ ~table /\ d.tag[d.open[i]] \in Scopes}
  IN ends # {} /\ LET i == CHOOSE i \in ends : \A j \in ends : j <= i
                  IN d.tag[d.open[i]] \notin Scopes \/ table
InScope(d, t) == InScopeOf(d, t, FALSE)
HeaderInScope(d) == \E h \in Headers : InScope(d, h)

RemoveFromActive(d, e) == [d EXCEPT !.active = Remove(@, e)]
RemoveFromOpen(d, e)   == [d EXCEPT !.open = Remove(@, e)]
AddActiveFormatter(d, e) == [d EXCEPT !.active = <<e>> \o @]

RECURSIVE PopUntil(_, _), PopHeaders(_), PopParagraphs(_)
\* Up to and including the innermost element of that name.
PopUntil(d, t) == IF CurrentIs(d, t) THEN Pop(d) ELSE PopUntil(Pop(d), t)
PopHeaders(d) == IF HeaderInScope(d) THEN PopHeaders(Pop(d)) ELSE d
PopParagraphs(d) == IF InScope(d, "p") THEN PopParagraphs(Pop(d)) ELSE d

\* The calls that d makes first.
Do(what, arg) == [do |-> what, arg |-> arg]
Start(t) == Do("start", t)
End(t)   == Do("end", t)
Calling(d, calls) == [d EXCEPT !.calls = calls \o @]
CallingIf(d, test, calls, then) == Calling(d, IF test THEN calls \o then ELSE then)

----------------------------------------------------------------------------
(* Formatting elements; the front of m_activeFormatters is the newest      *)

Clone(d, e) == Create(d, d.tag[e])

RECURSIVE Reconstruct(_, _)
Reconstruct(d, i) ==
  IF i > Len(d.active) THEN d
  ELSE IF i < Len(d.active) /\ d.active[i + 1] \notin ToSet(d.open)
       THEN Reconstruct(d, i + 2)      \* `continue' after the iterator has moved
       ELSE LET new == Clone(d, d.active[i])
                in  == InsertElement(new, Newest(new))
            IN Reconstruct([in EXCEPT !.active[i] = Newest(new)], i + 1)

ReconstructActiveFormatters(d) ==
  IF d.active = <<>> \/ \E i \in 1..Len(d.open) : Isa(d, d.open[i], d.tag[d.active[1]])
  THEN d ELSE Reconstruct(d, 1)

CreateBookmark(d, i) == [before |-> IF i = 1 THEN 0 ELSE d.active[i - 1],
                         after  |-> IF i = Len(d.active) THEN 0 ELSE d.active[i + 1]]

\* Step 7 of the adoption agency, from node up to the formatting element f.
RECURSIVE Climb(_, _, _, _, _, _, _)
Climb(d, f, furthest, node, last, marker, fuel) ==
  LET above == Find(d.open, node) - 1
      prior == d.open[above]
      at    == Find(d.active, prior)
      mark  == IF last = furthest THEN CreateBookmark(d, at) ELSE marker
      copy  == IF d.kids[prior] = <<>> THEN d
               ELSE LET new == Clone(d, prior) IN
                    [new EXCEPT !.open[above] = Newest(new), !.active[at] = Newest(new)]
      next  == IF d.kids[prior] = <<>> THEN prior ELSE Newest(copy)
  IN IF fuel = 0 \/ above = 0 THEN [d |-> [d EXCEPT !.ended = FALSE], last |-> last, marker |-> marker]
     ELSE IF at > Len(d.active)
          THEN Climb(RemoveFromOpen(d, prior), f, furthest, prior, last, marker, fuel - 1)
     ELSE IF prior = f THEN [d |-> d, last |-> last, marker |-> marker]
     ELSE Climb(AppendChild(RemoveChild(copy, last), next, last), f, furthest, next, next, mark, fuel - 1)

\* Step 12: behind what was before it, or else behind what was after it.
InsertAtBookmark(d, clone, marker) ==
  LET Behind(e) == [d EXCEPT !.active = InsertAt(@, Find(@, e) + 1, clone)]
      Has(e)    == e # 0 /\ e \in ToSet(d.active)
  IN IF marker.before = 0 /\ marker.after = 0 THEN AddActiveFormatter(d, clone)
     ELSE IF Has(marker.before) THEN Behind(marker.before)
     ELSE IF Has(marker.after) THEN Behind(marker.after)
     ELSE [d EXCEPT !.asserted = FALSE]

\* Mutant: removeAllChildren and no append.
LoseChildren(d, from, to) == [d EXCEPT !.kids[from] = <<>>]

\* Step 10: the children of the furthest block are now those of the clone.
GiveChildren(d, from, to) ==
  [d EXCEPT !.kids[to] = d.kids[from], !.kids[from] = <<>>,
            !.parent = [e \in 1..Len(@) |-> IF e \in ToSet(d.kids[from]) THEN to ELSE @[e]]]

\* Step 13.
OpenBehind(d, furthest, clone) == [d EXCEPT !.open = InsertAt(@, Find(@, furthest) + 1, clone)]

Adopted(d, f, furthest, ancestor) ==
  LET marked == CreateBookmark(d, Find(d.active, f))
      up     == Climb(RemoveChild(d, furthest), f, furthest, furthest, furthest, marked, Fuel)
      moved  == AppendChild(RemoveChild(up.d, up.last), ancestor, up.last)
      new    == Clone(moved, f)
      clone  == Newest(new)
      linked == AppendChild(GiveChildren(new, furthest, clone), furthest, clone)
      listed == InsertAtBookmark(RemoveFromActive(linked, f), clone, up.marker)
  IN IF listed.asserted THEN OpenBehind(RemoveFromOpen(listed, f), furthest, clone) ELSE listed

RECURSIVE PopFormatting(_, _), AdoptionAgency(_, _, _)
PopFormatting(d, f) ==
  LET e == Current(d)
      gone == IF d.tag[e] \in Formatting \/ e = f THEN RemoveFromActive(d, e) ELSE d
  IN IF e = f THEN Pop(gone) ELSE PopFormatting(Pop(gone), f)

AdoptionAgency(d, t, fuel) ==
  LET those == {i \in 1..Len(d.active) : Isa(d, d.active[i], t)}
      \* searched from the end: the oldest
      f     == d.active[CHOOSE i \in those : \A j \in those : j <= i]
      at    == Find(d.open, f)
      below == {i \in at + 1..Len(d.open) : d.tag[d.open[i]] \notin Formatting}
  IN IF those = {} \/ ~d.ended \/ ~d.asserted THEN d
     ELSE IF fuel = 0 THEN [d EXCEPT !.ended = FALSE]
     ELSE IF at > Len(d.open) THEN RemoveFromActive(d, f)
     ELSE IF below = {} THEN PopFormatting(d, f)
     ELSE LET furthest == d.open[CHOOSE i \in below : \A j \in below : i <= j]
          IN AdoptionAgency(Adopted(d, f, furthest, d.open[at - 1]), t, fuel - 1)

----------------------------------------------------------------------------
(* End tags                                                                *)

GenerateImpliedEndTags(d, except) ==
  LET t == d.tag[Current(d)]
  IN CallingIf(d, t \in Implied \ {except}, <<End(t), Do("imply", except)>>, <<>>)

\* Implied end tags if t is in scope, and then what pops its element.
Closing(d, test, except, pop, t) == CallingIf(d, test, <<Do("imply", except)>>, <<Do(pop, t)>>)
PopInScope(d, t) == IF InScope(d, t) THEN PopUntil(d, t) ELSE d

\* An element of another name: up to the current node when implied end tags
\* are gone, if only formatting elements are inside it.
EndOther(d, t) ==
  LET stops == {i \in 1..Len(d.open) : \/ Isa(d, d.open[i], t)
                                       \/ d.tag[d.open[i]] \notin Formatting}
      i     == CHOOSE i \in stops : \A j \in stops : j <= i
  IN CallingIf(d, Isa(d, d.open[i], t), <<Do("imply", ""), Do("pop", "")>>, <<>>)

BodyEnd(d, t) ==
  CASE t = "body" -> IF CurrentIs(d, "body") THEN Pop([d EXCEPT !.mode = "AFTER_BODY"]) ELSE d
    [] t = "html" -> Calling(d, <<End("body"), Do("end after body", t)>>)
    [] t \in Blocks -> Closing(d, InScope(d, t), "", "pop in scope", t)
    [] t = "form" -> Closing([d EXCEPT !.form = 0], InScope(d, t), "", "pop in scope", t)
    [] t = "p" -> Closing(d, InScope(d, t), t, "pop paragraphs", t)
    [] t \in Formatting -> AdoptionAgency(d, t, Fuel)
    [] t \in {"li", "dd", "dt"} -> Closing(d, InScope(d, t), t, "pop in scope", t)
    [] t \in Headers -> Closing(d, HeaderInScope(d), "", "pop headers", t)
    [] t = "plaintext" -> IF CurrentIs(d, t) THEN Pop(d) ELSE d
    [] t \in Voids -> d
    [] OTHER -> EndOther(d, t)

HeadEnd(d, t) ==
  CallingIf([d EXCEPT !.mode = "AFTER_HEAD", !.open = IF CurrentIs(d, "head") THEN Front(@) ELSE @],
            t # "head", <<End(t)>>, <<>>)

SelectEnd(d, t) ==
  CASE t = "optgroup" ->
         LET n == Len(d.open)
         IN CallingIf(d, CurrentIs(d, "option") /\ n > 1 /\ Isa(d, d.open[n - 1], "optgroup"),
                      <<End("option")>>, <<Do("pop if", t)>>)
    [] t = "option" -> IF CurrentIs(d, t) THEN Pop(d) ELSE d
    [] t = "select" -> IF InScopeOf(d, t, TRUE) THEN PopUntil([d EXCEPT !.mode = "IN_BODY"], t) ELSE d
    [] t \in Tables -> CallingIf(d, InScopeOf(d, t, TRUE), <<End("select"), End(t)>>, <<>>)
    [] OTHER -> d

\* Back to the body, which was the last child of html.
Regained(d) == Push([d EXCEPT !.mode = "IN_BODY"], LastChild(d, Current(d)))

MainEnd(d, t) ==
  CASE d.mode = "BEFORE_HEAD" -> CallingIf(d, t = "html", <<Start("head"), End(t)>>, <<>>)
    [] d.mode = "IN_HEAD"     -> HeadEnd(d, t)
    [] d.mode = "AFTER_HEAD"  -> Calling(d, <<Start("body"), End(t)>>)
    [] d.mode = "IN_BODY"     -> BodyEnd(d, t)
    [] d.mode = "IN_SELECT"   -> SelectEnd(d, t)
    [] d.mode = "AFTER_BODY"  -> IF t = "html" THEN [d EXCEPT !.state = "TRAILING_END"]
                                 ELSE Calling(Regained(d), <<End(t)>>)
    [] d.mode = "IN_FRAMESET" -> d

\* Every token in the states before MAIN comes after an html element.
Begun(d) == IF d.state \in {"INITIAL", "ROOT_ELEMENT"}
            THEN Push([Create(d, "html") EXCEPT !.state = "MAIN", !.mode = "BEFORE_HEAD",
                                                !.isFirst = TRUE], 1)
            ELSE [d EXCEPT !.state = "MAIN"]

\* What a tag does in the states that wait for one.
Waiting(d) == d.state \in {"MAIN_WAITING_TOKEN", "TEXTAREA_WAITING_TOKEN"}
Awaited(d) == IF d.state = "TEXTAREA_WAITING_TOKEN" THEN Pop([d EXCEPT !.state = "MAIN"])
              ELSE [d EXCEPT !.state = "MAIN"]

HandleEndTag(d, t) == IF Waiting(d) THEN Awaited(d) ELSE MainEnd(Begun(d), t)

----------------------------------------------------------------------------
(* Start tags                                                              *)

\* A paragraph in scope is ended before what follows.
NoParagraph(d, then, t) == CallingIf(d, InScope(d, "p"), <<End("p")>>, <<Do(then, t)>>)

\* startScopeClosedElement: an item ends the one it is in.
Siblings(t) == IF t = "li" THEN {"li"} ELSE {"dd", "dt"}
InsertItem(d, t) ==
  LET stops == {i \in 1..Len(d.open) : \/ d.tag[d.open[i]] \in Siblings(t)
                                       \/ d.tag[d.open[i]] \notin Formatting \cup {"address", "div"}}
      i     == CHOOSE i \in stops : \A j \in stops : j <= i
  IN Insert(IF d.tag[d.open[i]] \in Siblings(t) THEN [d EXCEPT !.open = SubSeq(@, 1, i - 1)] ELSE d, t)

InsertForm(d) == LET in == Insert(d, "form") IN [in EXCEPT !.form = Newest(in)]
InsertFormatting(d, t) == LET in == Insert(ReconstructActiveFormatters(d), t)
                          IN AddActiveFormatter(in, Newest(in))

\* activeFormatContains searches from the front.
StartAnchor(d) ==
  LET those == {i \in 1..Len(d.active) : Isa(d, d.active[i], "a")}
      a     == d.active[CHOOSE i \in those : \A j \in those : i <= j]
  IN CallingIf(d, those # {}, IF those = {} THEN <<>> ELSE <<End("a"), Do("forget", a)>>,
               <<Do("insert formatting", "a")>>)

\* A control goes to the form, wherever the page is.
StartInput(d0) ==
  LET d   == ReconstructActiveFormatters(d0)
      new == Create(d, "input")
  IN IF d.form # 0 THEN AppendChild(new, d.form, Newest(new)) ELSE Pop(Insert(d, "input"))

StartTextArea(d) ==
  LET new == Create(d, "textarea")
      in  == IF d.form # 0 THEN AppendChild(new, d.form, Newest(new)) ELSE new
  IN [Push(in, Newest(in)) EXCEPT !.state = "TEXTAREA_WAITING_TOKEN"]

BodyStart(d, t) ==
  CASE t \in Scripts \cup HeadVoids ->
         Calling([d EXCEPT !.mode = "IN_HEAD"], <<Start(t), Do("mode", "IN_BODY")>>)
    [] t = "body" -> d
    [] t \in Blocks \cup {"p", "plaintext"} -> NoParagraph(d, "insert", t)
    [] t = "form" -> IF d.form # 0 THEN d ELSE NoParagraph(d, "insert form", t)
    [] t \in {"li", "dd", "dt"} -> NoParagraph(d, "insert item", t)
    [] t \in Headers -> NoParagraph(d, "insert header", t)
    [] t = "hr" -> NoParagraph(d, "insert void", t)
    [] t = "a" -> StartAnchor(d)
    [] t \in Formatting \ {"a"} -> InsertFormatting(d, t)
    [] t \in Voids -> Pop(Insert(ReconstructActiveFormatters(d), t))
    [] t = "input" -> StartInput(d)
    [] t = "textarea" -> StartTextArea(d)
    [] t = "select" -> [Insert(ReconstructActiveFormatters(d), t) EXCEPT !.mode = "IN_SELECT"]
    [] OTHER -> d

HeadStart(d, t) ==
  LET new == Create(d, t)
      in  == AppendChild(new, d.head, Newest(new))
  IN CASE t \in Scripts   -> [in EXCEPT !.state = "MAIN_WAITING_TOKEN"]
       [] t \in HeadVoids -> in
       [] t = "head"      -> d
       [] OTHER -> IF CurrentIs(d, "head") THEN Calling(d, <<End("head"), Start(t)>>)
                   ELSE Calling([d EXCEPT !.mode = "AFTER_HEAD"], <<Start(t)>>)

AfterHeadStart(d, t) ==
  CASE t = "body"     -> [Insert(d, t) EXCEPT !.mode = "IN_BODY"]
    [] t = "frameset" -> [Insert(d, t) EXCEPT !.mode = "IN_FRAMESET"]
    [] t \in Scripts \cup HeadVoids -> Calling([d EXCEPT !.mode = "IN_HEAD"], <<Start(t)>>)
    [] OTHER -> Calling(d, <<Start("body"), Start(t)>>)

SelectStart(d, t) ==
  CASE t = "option"   -> CallingIf(d, CurrentIs(d, t), <<End(t)>>, <<Do("insert", t)>>)
    [] t = "optgroup" -> CallingIf(d, CurrentIs(d, "option"), <<End("option")>>,
                                   <<Do("end if", t), Do("insert", t)>>)
    [] t = "select"   -> Calling(d, <<End(t), Start(t)>>)
    [] OTHER          -> d

MainStart(d, t) ==
  CASE t = "html" -> [d EXCEPT !.isFirst = FALSE]
    [] t = "head" /\ d.mode = "BEFORE_HEAD" -> LET in == Insert(d, t)
                                               IN [in EXCEPT !.head = Newest(in), !.mode = "IN_HEAD"]
    [] t \notin {"head", "html"} /\ d.mode = "BEFORE_HEAD" -> Calling(d, <<Start("head"), Start(t)>>)
    [] t # "html" /\ d.mode = "IN_HEAD"     -> HeadStart(d, t)
    [] t # "html" /\ d.mode = "AFTER_HEAD"  -> AfterHeadStart(d, t)
    [] t # "html" /\ d.mode = "IN_BODY"     -> BodyStart(d, t)
    [] t # "html" /\ d.mode = "IN_SELECT"   -> SelectStart(d, t)
    [] t # "html" /\ d.mode = "AFTER_BODY"  -> Calling(Regained(d), <<Start(t)>>)
    [] t # "html" /\ d.mode = "IN_FRAMESET" -> d

HandleStartTag(d, t) == IF Waiting(d) THEN Awaited(d) ELSE MainStart(Begun(d), t)

----------------------------------------------------------------------------
(* Characters and the end of the page                                      *)

EofInBody(d) == Calling(d, <<Do("imply", ""), Do("close body", "")>>)

CloseBody(d) ==
  LET body == {i \in 1..Len(d.open) : Isa(d, d.open[i], "body")}
      open == IF InScope(d, "body") THEN SubSeq(d.open, 1, CHOOSE i \in body : \A j \in body : j <= i)
              ELSE d.open
  IN CallingIf([d EXCEPT !.open = open], Len(open) = 2 /\ Isa(d, open[Len(open)], "body"),
               <<End("body"), End("html")>>, <<>>)

MainData(d, ch) ==
  CASE d.mode \in {"IN_BODY", "IN_SELECT"} /\ ch = "EOF" -> EofInBody(d)
    [] d.mode = "IN_BODY" /\ ch # "EOF" -> LET r == ReconstructActiveFormatters(d)
                                           IN AppendText(r, Current(r), ch = " ")
    [] d.mode = "IN_SELECT" /\ ch # "EOF" -> AppendText(d, Current(d), ch = " ")
    [] ch # " " /\ d.mode = "BEFORE_HEAD" -> Calling(d, <<Start("head"), Do("data", ch)>>)
    [] ch # " " /\ d.mode = "IN_HEAD" ->
         CallingIf(d, CurrentIs(d, "head"), <<End("head")>>, <<Do("mode", "AFTER_HEAD"), Do("data", ch)>>)
    [] ch # " " /\ d.mode = "AFTER_HEAD" -> Calling(d, <<Start("body"), Do("data", ch)>>)
    [] OTHER -> d

HandleData(d, ch) ==
  CASE ~Waiting(d) -> MainData(Begun(d), ch)
    [] d.state = "MAIN_WAITING_TOKEN" ->
         IF ch = "EOF" THEN MainData(d, ch) ELSE AppendText(d, LastChild(d, d.head), ch = " ")
    [] d.state = "TEXTAREA_WAITING_TOKEN" ->
         IF ch = "EOF" THEN MainData(Pop(d), ch) ELSE AppendText(d, Current(d), ch = " ")

Made(d, call) ==
  LET t == call.arg
  IN CASE call.do = "start"             -> HandleStartTag(d, t)
       [] call.do = "end"               -> HandleEndTag(d, t)
       [] call.do = "end after body"    -> CallingIf(d, d.mode = "AFTER_BODY", <<End(t)>>, <<>>)
       [] call.do = "end if"            -> CallingIf(d, CurrentIs(d, t), <<End(t)>>, <<>>)
       [] call.do = "data"              -> MainData(d, t)
       [] call.do = "imply"             -> GenerateImpliedEndTags(d, t)
       [] call.do = "close body"        -> CloseBody(d)
       [] call.do = "mode"              -> [d EXCEPT !.mode = t]
       [] call.do = "pop"               -> Pop(d)
       [] call.do = "pop if"            -> IF CurrentIs(d, t) THEN Pop(d) ELSE d
       [] call.do = "pop in scope"      -> PopInScope(d, t)
       [] call.do = "pop paragraphs"    -> PopParagraphs(d)
       [] call.do = "pop headers"       -> PopHeaders(d)
       [] call.do = "forget"            -> RemoveFromOpen(RemoveFromActive(d, t), t)
       [] call.do = "insert"            -> Insert(d, t)
       [] call.do = "insert form"       -> InsertForm(d)
       [] call.do = "insert item"       -> InsertItem(d, t)
       [] call.do = "insert header"     -> Insert(PopHeaders(d), t)
       [] call.do = "insert void"       -> Pop(Insert(d, t))
       [] call.do = "insert formatting" -> InsertFormatting(d, t)

\* All the calls, unless an assert fails and ends the program.
RECURSIVE Called(_)
Called(d) == IF d.calls = <<>> \/ ~d.asserted THEN d
             ELSE Called(Made([d EXCEPT !.calls = Tail(@)], Head(d.calls)))

----------------------------------------------------------------------------

Init == tags \in Pages /\ doc = Empty /\ count = 0

\* In an element whose text is raw, the parser finds no start tags, and only
\* the end tag of the element.
RawTag(d) == IF d.state = "TEXTAREA_WAITING_TOKEN" THEN "textarea"
             ELSE d.tag[LastChild(d, d.head)]

StartTag == /\ doc.asserted /\ count < MaxTokens /\ ~Waiting(doc)
            /\ \E t \in tags : doc' = Called(HandleStartTag(doc, t))
            /\ count' = count + 1 /\ UNCHANGED tags
EndTag == /\ doc.asserted /\ count < MaxTokens
          /\ \E t \in tags : (Waiting(doc) => t = RawTag(doc)) /\ doc' = Called(HandleEndTag(doc, t))
          /\ count' = count + 1 /\ UNCHANGED tags
Data == /\ doc.asserted /\ count < MaxTokens /\ \E ch \in {"x", " "} : doc' = Called(HandleData(doc, ch))
        /\ count' = count + 1 /\ UNCHANGED tags
HandleEOF == /\ doc.asserted /\ count <= MaxTokens /\ doc' = Called(HandleData(doc, "EOF"))
             /\ count' = MaxTokens + 1 /\ UNCHANGED tags
\* What reset() leaves alone is set before it is read.
Reset == doc.asserted /\ count = MaxTokens + 1 /\ doc' = Empty /\ count' = 0 /\ UNCHANGED tags

Next == StartTag \/ EndTag \/ Data \/ HandleEOF \/ Reset

Spec == Init /\ [][Next]_vars

----------------------------------------------------------------------------
(* Properties                                                              *)

Elements == {e \in 1..Len(doc.tag) : doc.tag[e] # "#text"}

RECURSIVE Below(_)
Below(those) == LET more == UNION {ToSet(doc.kids[e]) : e \in those \cap Elements}
                IN IF more \subseteq those THEN those ELSE Below(those \cup more)
Tree == Below({1})
\* What a textarea outside a form has is in no tree.
Stray == Below({e \in Elements : doc.tag[e] = "textarea" /\ doc.parent[e] = 0})

\* However tags are nested wrongly, the elements are a tree with html at its
\* root: each is the child of one element once, so that deleting the root
\* deletes nothing twice; and those that are open are in it, each once.  The
\* loops of the adoption agency have ended; and at the end of the page the root
\* node, which reset() deletes, is html, but for pages that end in a frameset,
\* in a select, or in the title or a script.
TreeIsSound ==
  doc.tag # <<>> =>
    /\ doc.ended
    /\ count = MaxTokens + 1 => \/ Current(doc) = 1 \/ doc.mode \in {"IN_FRAMESET", "IN_SELECT"}
                                \/ doc.head \in ToSet(doc.open)
    /\ \A e \in Elements : /\ IsInjective(doc.kids[e]) /\ 1 \notin ToSet(doc.kids[e])
                            /\ \A child \in ToSet(doc.kids[e]) : doc.parent[child] = e
    /\ IsInjective(doc.open) /\ doc.open # <<>> /\ doc.open[1] = 1
    /\ ToSet(doc.open) \subseteq Tree \cup Stray
    /\ IsInjective(doc.active)

\* The adoption agency finds the place that it has marked: its assert holds.
BookmarkIsFound == doc.asserted

\* No text is lost on the way, whatever elements are moved and cloned.
TextIsKept ==
  doc.tag # <<>> =>
    doc.letters = FoldLeft(LAMBDA n, e : IF e \in Tree \cup Stray /\ doc.tag[e] = "#text"
                                         THEN n + Len(doc.kids[e]) ELSE n,
                           0, [e \in 1..Len(doc.tag) |-> e])
=============================================================================
