----------------------------- MODULE MCReading -----------------------------
(***************************************************************************)
(* What is read and written as text: HtmlParser, which makes tokens of a   *)
(* page, HtmlDocument, which makes a tree of tokens, the forms of a page,  *)
(* its links, the settings with their file and page, and the archives that *)
(* are unzipped.  Each is checked alone: the others stay in one of their   *)
(* initial states.                                                         *)
(***************************************************************************)
EXTENDS Archive, Form, TLC

CONSTANTS MaxTokens, Fuel, LongestName

VARIABLES text, position, state, lastState, contentModel, tag, attribute, lastStartTag,
          leftOvers, lastEmitted, tokens, document, rest, whole, torn,
          tags, doc, count,
          uri, where, astray,
          phase, file, writing, resources, form, asked, lost, cutShort, posts, cuts,
          part           \* which of the six runs

----------------------------------------------------------------------------
(* Documents with one or two things in them, cut anywhere                  *)

Entity(n, v) == [name |-> n, value |-> v]
MCEntities == <<Entity(<<"l", "t">>, "lt"), Entity(<<"n", "b">>, "nbsp"), Entity(<<"n", "o", "t">>, "not")>>
T(t, v) == [item |-> "text", text |-> t, value |-> v]
X == T(<<"x">>, <<"x">>)
Cr == T(<<"CR", "LF", "CR">>, <<"LF", "LF">>)
Ent == T(<<"&", "l", "t", ";", "y">>, <<"lt", "y">>)
Nbsp == T(<<"&", "n", "b", ";">>, <<"nbsp">>)
Num == T(<<"&", "#", "x", "1", "2", ";", "x">>, <<"#12", "x">>)
Ampersand == T(<<"&", " ", "x">>, <<"&", " ", "x">>)
Less == T(<<"<", " ">>, <<"<">>)
Plainly == T(<<"<", "b", "&">>, <<"<", "b", "&">>)
Attr(n, f, t) == [name |-> n, form |-> f, text |-> t, value |-> t]
Attrs == {<<>>, <<Attr(<<"x">>, "bare", <<"y">>), Attr(<<"y">>, "none", <<>>)>>,
  <<Attr(<<"x", "y">>, "double", <<"'", ">">>), Attr(<<"x", "y">>, "single", <<"y">>)>>,
  <<[Attr(<<"x">>, "single", <<"&", "n", "o", "t", ";", "/">>) EXCEPT !.value = <<"not", "/">>]>>,
  <<Attr(<<"y">>, "none", <<>>), [Attr(<<"x">>, "bare", <<"y", "&", "#", "2", ";", "y">>) EXCEPT !.value = <<"y", "#2", "y">>]>>}
Tags == {[item |-> "tag", name |-> <<"b", "s">>, attrs |-> a, slash |-> s] : a \in Attrs, s \in BOOLEAN}
PlainTag == [item |-> "tag", name |-> <<"o">>, attrs |-> <<>>, slash |-> FALSE]
End == [item |-> "end", name |-> <<"b">>]
Comment == {[item |-> "comment", text |-> t] : t \in {<<>>, <<"-", "x", ">">>, <<"x", "-", "-", "-", "x", "-">>}}
Decl == {[item |-> "doctype", text |-> t] : t \in {<<" ", "x">>, <<"x", " ", "y">>, <<" ">>}}
Bogus == [item |-> "bogus", text |-> <<"x", "-">>]
Raws == {[item |-> "element", name |-> <<"s", "c">>, text |-> t, value |-> t] :
            t \in {<<"<", "b", ">">>, <<"<", "/", "s", "x", "x">>, <<"&", "l", "t", ";", "<">>}}
Txts == {[item |-> "element", name |-> <<"t", "t">>, text |-> <<"&", "l", "t", ";", "<", "b">>, value |-> <<"lt", "<", "b">>]}
Eacute == <<"C3", "A9">>
AccentText == {T(<<"x">> \o Eacute \o <<"y">>, <<"x", "U+E9", "y">>), T(<<"&", "l", "t", ";">> \o Eacute, <<"lt", "U+E9">>),
               T(<<"&">> \o Eacute, <<"&", "U+E9">>), T(<<"&", "#", "1">> \o Eacute \o <<"2">>, <<"#1", "2">>)}
AccentTag == [item |-> "tag", name |-> <<"b">>, slash |-> FALSE, attrs |->
               <<[Attr(<<"x">>, "bare", Eacute) EXCEPT !.value = <<"U+E9">>], [Attr(<<"y">>, "double", Eacute) EXCEPT !.value = <<"U+E9">>]>>]
AccentRaw == [item |-> "element", name |-> <<"s", "c">>, text |-> <<"<">> \o Eacute, value |-> <<"<", "U+E9">>]
Accents == AccentText \cup {AccentTag, AccentRaw, [item |-> "comment", text |-> Eacute \o <<"-">>], [Bogus EXCEPT !.text = Eacute]}
MCRaw == {<<"s", "c">>}
MCText == {<<"t", "t">>}
MCPlain == {<<"o">>}
Things == {X, Cr, Ent, Nbsp, Num, Ampersand, Less, End, Bogus} \cup Accents \cup Tags \cup Comment \cup Decl \cup Raws \cup Txts
MCDocuments == {<<i, X>> : i \in Things} \cup {<<i, j>> : i \in Tags \cup Txts, j \in Comment \cup Raws \cup {Ent, End}} \cup {<<PlainTag, Plainly>>}

----------------------------------------------------------------------------
(* Pages with at most MaxTokens tags or letters, in any order              *)

MCPages == {{"a", "b", "p", "div"}, {"li", "dd", "h1", "h2", "p"},
            {"form", "input", "textarea", "p"}, {"select", "option", "optgroup", "p"},
            {"head", "title", "meta", "body"}, {"html", "body", "frameset", "p"},
            {"plaintext", "hr", "br", "object", "p"}}

----------------------------------------------------------------------------

(* Forms with every kind of field                                          *)

AField(type, name, f) ==
  [type |-> type, name |-> name, form |-> f, value |-> "none", checked |-> FALSE, method |-> "GET", options |-> <<>>]
Valued(f, v) == [f EXCEPT !.value = v]
Nameless(f) == [f EXCEPT !.name = "none"]
On(f) == [f EXCEPT !.checked = TRUE]
AnOption(v, t, s) == [value |-> v, text |-> t, selected |-> s]
List(options) == [AField("select", "l", 1) EXCEPT !.options = options]
Button(type, f) == Valued(AField(type, "b", f), "ok")
Radio(v, f) == Valued(AField("radio", "r", f), v)
TextField(f) == Valued(AField("text", "t", f), "x")
Area(f) == Valued(AField("textarea", "a", f), "x")

MCForms == {
  <<TextField(1), Valued(AField("hidden", "h", 1), "x"), List(<<AnOption("x", TRUE, FALSE), AnOption("y", TRUE, TRUE)>>), Button("submit", 1)>>,
  <<AField("checkbox", "c", 1), Radio("x", 1), On(Radio("y", 1)), Button("image", 1), Button("submit", 1)>>,
  <<AField("radio", "r", 1), Radio("x", 1), Button("submit", 1)>>,
  <<Radio("x", 1), Button("submit", 1), On(Radio("y", 2)), Button("submit", 2)>>,
  <<List(<<AnOption("x", FALSE, FALSE), AnOption("y", TRUE, FALSE), AnOption("none", TRUE, FALSE)>>), Nameless(Radio("x", 1)), Button("submit", 1)>>,
  <<Area(1), TextField(2), Button("submit", 2), Button("image", 0)>>,
  <<TextField(1), Valued(AField("checkbox", "c", 1), "x"), Button("submit", 1), Area(1)>>,
  <<Nameless(TextField(1)), Nameless(On(AField("checkbox", "c", 2))), Nameless(Button("submit", 1)), Nameless(Button("image", 1)), Button("submit", 2)>>,
  <<Nameless(Valued(AField("hidden", "h", 1), "x")), List(<<>>), Nameless(Area(2)), TextField(2), Nameless(Button("submit", 1)), Button("image", 2)>>}

----------------------------------------------------------------------------
(* Pages of servers, files and settings, which link to each other          *)

Link(kind, path, dir) ==
  [kind |-> kind, scheme |-> "https", server |-> <<"h">>, port |-> "none", path |-> path, dir |-> dir,
   query |-> "none", fragment |-> "none"]
Query(l) == [l EXCEPT !.query = "q"]
Place(l) == [l EXCEPT !.fragment = "f"]
At8080(l) == [l EXCEPT !.port = "8080"]
Other(l) == [l EXCEPT !.server = <<"g">>]
Local(l) == [l EXCEPT !.server = <<>>]
Absolute(s, path, dir) == [Link("absolute", path, dir) EXCEPT !.scheme = s]
Up == <<"..">>
A == <<"a">>
B == <<"b", " ">>

MCAddresses == {Link("bare", <<>>, TRUE), At8080(Link("bare", <<A>>, TRUE)), Link("bare", <<B>>, FALSE),
                Local(Absolute("file", <<A, A>>, FALSE)), Query(Absolute("HTTP", <<A>>, FALSE))}

MCLinks == {Link("same", <<>>, FALSE), Query(Link("same", <<>>, FALSE)), Place(Link("same", <<>>, FALSE)),
  Link("relative", <<A>>, FALSE), Link("relative", <<B>>, TRUE), Query(Place(Link("relative", <<Up, B>>, FALSE))),
  Link("relative", <<A, Up, Up, A>>, TRUE), Link("relative", <<Up, Up, Up, A>>, FALSE), Link("relative", <<<<".">>, A>>, FALSE),
  Link("relative", <<Up>>, FALSE), Link("relative", <<Up, Up>>, TRUE),
  Link("rooted", <<>>, TRUE), Place(Link("rooted", <<A, Up, A>>, FALSE)), Query(Link("rooted", <<Up, A>>, TRUE)),
  At8080(Other(Link("network", <<A>>, FALSE))),
  Absolute("http", <<>>, TRUE), Query(At8080(Absolute("http", <<A, B>>, TRUE))),
  Local(Absolute("file", <<A>>, FALSE)), Absolute("config", <<A>>, FALSE)}

----------------------------------------------------------------------------
(* Three settings, two of them in the form; names have two characters      *)

Px == <<"p", "x">>        \* a file of the user
Lg == <<"l", "g">>        \* a choice
Ft == <<"f", "t">>        \* a file of the program

MCTemplate == << <<"#", " ", "x">>, <<>>, Px \o <<"=", "x">>, Lg \o <<"=", "x">>, Ft \o <<"=", "y">> >>
MCFields == << [type |-> "text", name |-> Px], [type |-> "list", name |-> Lg, choices |-> {<<"x">>, <<"y">>}] >>
MCTyped == {<<"y">>, <<>>, <<" ", "y">>, <<"/", "&">>, <<"y", ";", "l", "g", "=", "y">>,
            <<"\"", "y", "\"", "x", "x">>, <<"%">>, <<"%", "y", "%">>}

----------------------------------------------------------------------------
(* Archives with directories missing, in the way or twice, and bad files   *)

Folder(p) == [path |-> p, dir |-> TRUE, blocks |-> 0, is |-> "good"]
File(p, n, is) == [path |-> p, dir |-> FALSE, blocks |-> n, is |-> is]
Ab == <<"a", "b">>
Abc == <<"a", "b", "c">>

MCArchives == {<<File(Abc, 1, "good"), Folder(<<"a">>), File(Abc, 2, "good")>>,
               <<Folder(Ab), File(Ab, 1, "good"), File(<<"c">>, 2, "cut"), Folder(<<"c">>)>>,
               <<File(<<"a">>, 1, "good"), File(Ab, 0, "locked"), Folder(<<"b">>)>>,
               <<File(<<"b">>, 1, "good"), File(Ab, 1, "crc"), File(<<"c">>, 1, "good")>>}
MCTrees == {(<<"a">> :> [dir |-> FALSE, of |-> 0, blocks |-> 1]),
            (<<"b">> :> [dir |-> TRUE, of |-> 0, blocks |-> 1]) @@ (<<"c">> :> [dir |-> FALSE, of |-> 0, blocks |-> 2])}

----------------------------------------------------------------------------

Parser == INSTANCE HtmlParser WITH Documents <- MCDocuments, Entities <- MCEntities,
                                   Raw <- MCRaw, Text <- MCText, Plain <- MCPlain
Builder == INSTANCE HtmlDocument WITH Pages <- MCPages
Linked == INSTANCE Uri WITH Links <- MCLinks, Addresses <- MCAddresses, Lower <- ("HTTP" :> "http"),
                            Number <- ("8080" :> 8080), MaxPath <- 3
Config == INSTANCE Settings WITH Template <- MCTemplate, Fields <- MCFields, Typed <- MCTyped,
                                 Kind <- (Px :> "data") @@ (Lg :> "plain") @@ (Ft :> "nitro"),
                                 Alphabet <- <<"&", "f", "g", "l", "p", "t", "x", "y">>, MaxPosts <- 2, MaxCuts <- 1

parserVars == <<text, position, state, lastState, contentModel, tag, attribute, lastStartTag,
                leftOvers, lastEmitted, tokens, document, rest, whole, torn>>
builderVars == <<tags, doc, count>>
linkVars == <<uri, where, astray>>
configVars == <<phase, file, writing, resources, form, asked, lost, cutShort, posts, cuts>>

ReadingInit ==
  /\ part \in {"parser", "builder", "forms", "links", "config", "zip"}
  /\ Parser!Init /\ Builder!Init /\ FormInit /\ Linked!Init /\ Config!Init /\ Init
  /\ part # "parser" => document = <<End, X>>
  /\ part # "builder" => tags = {"a", "b", "p", "div"}
  /\ part # "forms" => fields[1] = Area(1)
  /\ part # "zip" => boxes = <<>> /\ <<"a">> \in DOMAIN tree /\ Len(entries) = 4

ReadingNext ==
  \/ part = "parser" /\ Parser!Next /\ UNCHANGED <<part, builderVars, formVars, linkVars, configVars, vars>>
  \/ part = "builder" /\ Builder!Next /\ UNCHANGED <<part, parserVars, formVars, linkVars, configVars, vars>>
  \/ part = "forms" /\ FormNext /\ UNCHANGED <<part, parserVars, builderVars, linkVars, configVars, vars>>
  \/ part = "links" /\ Linked!Next /\ UNCHANGED <<part, parserVars, builderVars, formVars, configVars, vars>>
  \/ part = "config" /\ Config!Next /\ UNCHANGED <<part, parserVars, builderVars, formVars, linkVars, vars>>
  \/ part = "zip" /\ Next /\ UNCHANGED <<part, parserVars, builderVars, formVars, linkVars, configVars>>

ReadingSpec == ReadingInit /\ [][ReadingNext]_<<part, parserVars, builderVars, formVars, linkVars, configVars, vars>>

----------------------------------------------------------------------------
(* Properties                                                              *)

\* However a page is cut, its tokens are those of the things in it.
PageIsRead == Parser!PageIsRead

\* However tags are nested, the elements are a tree, and the open ones are in it.
TreeIsSound == Builder!TreeIsSound

\* No text is lost when elements are moved and cloned.
TextIsKept == Builder!TextIsKept

\* The adoption agency finds the place it has marked: assert(inserted).
BookmarkIsFound == Builder!BookmarkIsFound

\* After any links, the URI names the page that they lead to.
LinksLeadThere == Linked!LinksLeadThere

\* Settings change only as the user changes them.
SettingsAreTheUsers == Config!SettingsAreTheUsers
=============================================================================
