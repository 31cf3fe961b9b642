--------------------------------- MODULE Uri --------------------------------
(***************************************************************************)
(* Addresses and links: URI.cpp, against what a link means.  A text is a   *)
(* sequence of words and of the marks / : ? # and "..".                    *)
(***************************************************************************)
EXTENDS Integers, Sequences, SequencesExt, FiniteSetsExt

CONSTANTS Links,      \* what pages link to
          Addresses,  \* what the user enters: links with or without a scheme
          Lower,      \* ::tolower, for the schemes
          Number,     \* strtol, for the words that are numbers
          MaxPath     \* pages are at most so deep

VARIABLES uri,        \* the URI of the page: m_protocol and m_address
          where,      \* the page that the links have led to
          astray      \* a link that this code takes for another one

vars == <<uri, where, astray>>

None == "none"
Known == {"file", "http", "https", "config", "about"}
Remote == {"http", "https"}
BrowserPages == {"config", "about"}        \* whose file is all of the address

----------------------------------------------------------------------------
(* Strings.  Positions start at 1, and 0 is npos.                          *)

Places(text, mark) == {i \in DOMAIN text : text[i] = mark}
Find(text, mark) == Min(Places(text, mark) \cup {Len(text) + 1}) % (Len(text) + 1)
RFind(text, mark) == Max(Places(text, mark) \cup {0})
From(text, pos) == SubSeq(text, pos, Len(text))
UpTo(text, pos) == SubSeq(text, 1, pos)

\* The text before a mark, and the text from it on.
Head2(text, mark) == IF Find(text, mark) = 0 THEN text ELSE UpTo(text, Find(text, mark) - 1)
Tail2(text, mark) == IF Find(text, mark) = 0 THEN <<>> ELSE From(text, Find(text, mark))

\* split: the elements between the slashes, with the empty ones.
SplitPath(text) ==
  FoldLeft(LAMBDA elements, c :
             IF c = "/" THEN Append(elements, <<>>)
             ELSE Append(Front(elements), Append(Last(elements), c)),
           <<<<>>>>, text)

Joined(elements) ==
  FoldLeft(LAMBDA text, e : IF text = <<>> THEN e ELSE text \o <<"/">> \o e, <<>>, elements)

----------------------------------------------------------------------------
(* URI                                                                     *)

Replaced(text) == [i \in DOMAIN text |-> IF text[i] = " " THEN "%20" ELSE text[i]]

\* A : that is not followed by a slash may come before a port.
IsPort(text, sep) ==
  LET behind == From(text, sep + 1)
      maybePort == Head2(behind, "/")
  IN /\ behind = <<>> \/ behind[1] # "/"
     /\ "/" \in ToSet(behind) => maybePort # <<>> /\ maybePort[1] \in DOMAIN Number

Scheme(text) == IF Find(text, ":") = 0 \/ IsPort(text, Find(text, ":")) THEN 0 ELSE Find(text, ":")

LowerCase(text) == [i \in DOMAIN text |-> IF text[i] \in DOMAIN Lower THEN Lower[text[i]] ELSE text[i]]

AtScheme(text, sep) == [protocol |-> LowerCase(UpTo(text, sep - 1)), address |-> From(text, sep + 3)]
Unset == [protocol |-> <<>>, address |-> <<>>]

\* The blanks of an address that was given a scheme stay.
SetUri(text, fix) ==
  LET sep == Scheme(Replaced(text))
  IN CASE sep > 0 -> AtScheme(Replaced(text), sep)
       [] sep = 0 /\ fix -> AtScheme(<<"https", ":", "/", "/">> \o text, 2)
       [] OTHER -> Unset

Protocol(u) == IF u.protocol # <<>> /\ Len(u.protocol) = 1 /\ u.protocol[1] \in Known THEN u.protocol[1] ELSE None
IsValid(u) == u.address # <<>> /\ Protocol(u) # None
IsRemote(u) == Protocol(u) \in Remote

FirstSlash(u) == Find(u.address, "/")
PortDots(u) == Find(u.address, ":")
HasPort(u) == PortDots(u) > 0 /\ (FirstSlash(u) = 0 \/ PortDots(u) < FirstSlash(u))

Port(u) ==
  LET default == IF Protocol(u) = "https" THEN 443 ELSE 80
      behind == From(u.address, PortDots(u) + 1)
  IN IF ~HasPort(u) \/ behind = <<>> THEN default
     ELSE IF behind[1] \in DOMAIN Number THEN Number[behind[1]] ELSE 0

Server(u) ==
  CASE IsRemote(u) -> Head2(Head2(u.address, "/"), ":")
    [] Protocol(u) # "file" \/ FirstSlash(u) = 0 -> <<>>
    [] FirstSlash(u) = 1 -> <<"localhost">>
    [] OTHER -> Head2(u.address, "/")

\* stripInternal, for addresses that do not begin with the #.
StripInternal(text) == Head2(text, "#")
InternalLink(u) == IF Find(u.address, "#") = 0 THEN <<>> ELSE From(u.address, Find(u.address, "#") + 1)

FileName(u) ==
  CASE Protocol(u) \in BrowserPages -> StripInternal(u.address)
    [] FirstSlash(u) = 0 -> <<"/">>
    [] OTHER -> StripInternal(From(u.address, FirstSlash(u)))

\* The path of the new address, before the .. are removed.
NewPath(address, path) ==
  CASE path = <<>> -> address
    [] Len(path) > 1 /\ path[1] = "/" /\ path[2] = "/" -> From(path, 3)
    [] path[1] = "/" -> Head2(address, "/") \o <<"/">> \o path
    [] RFind(address, "/") = 0 -> address \o <<"/">> \o path
    [] OTHER -> UpTo(address, RFind(address, "/")) \o path

\* A bug: the server is removed like a directory.
AddAny(elements, e) ==
  CASE e = <<>> -> elements
    [] e = <<"..">> -> IF Len(elements) > 0 THEN Front(elements) ELSE elements
    [] OTHER -> Append(elements, e)

\* The first element is the server, which is never removed.
AddElement(elements, e) ==
  CASE e = <<>> -> elements
    [] e = <<"..">> -> IF Len(elements) > 1 THEN Front(elements) ELSE elements
    [] OTHER -> Append(elements, e)

WithoutDots(path) == FoldLeft(LAMBDA elements, e : AddElement(elements, e), <<>>, SplitPath(path))

Rebuilt(protocol, path) ==
  protocol \o <<":", "/", "/">>
    \o (IF protocol = <<"file">> /\ path[1] = "/" THEN <<"/">> ELSE <<>>)
    \o Joined(WithoutDots(path))
    \o (IF Last(path) = "/" THEN <<"/">> ELSE <<>>)

Relative(u, link) ==
  LET address == Head2(Head2(u.address, "#"), "?")
      plain == Head2(link, "#")
      path == NewPath(address, Head2(plain, "?"))
  IN SetUri(Rebuilt(u.protocol, path) \o Tail2(plain, "?") \o Tail2(link, "#"), TRUE)

Absolute(u, target) == IF IsRemote(u) /\ ~IsRemote(target) THEN u ELSE target

NavigateTo(u, link) ==
  CASE link = <<>> -> u
    [] link # <<>> /\ IsValid(SetUri(link, FALSE)) -> Absolute(u, SetUri(link, FALSE))
    [] OTHER -> Relative(u, link)

----------------------------------------------------------------------------
(* What a link says and where it leads                                     *)

\* A link has a kind, a scheme, a server and port, a path, a query and a
\* fragment, as far as its kind has them.
Authority(l) == l.server \o (IF l.port = None THEN <<>> ELSE <<":", l.port>>)
PathText(l) == Joined(l.path) \o (IF l.dir /\ l.path # <<>> THEN <<"/">> ELSE <<>>)
Behind(l) == (IF l.query = None THEN <<>> ELSE <<"?", l.query>>) \o (IF l.fragment = None THEN <<>> ELSE <<"#", l.fragment>>)

Text(l) ==
  (CASE l.kind = "absolute" -> <<l.scheme, ":", "/", "/">> \o Authority(l) \o <<"/">> \o PathText(l)
     [] l.kind = "network" -> <<"/", "/">> \o Authority(l) \o <<"/">> \o PathText(l)
     [] l.kind = "bare" -> Authority(l) \o (IF l.path = <<>> THEN <<>> ELSE <<"/">>) \o PathText(l)
     [] l.kind = "rooted" -> <<"/">> \o PathText(l)
     [] OTHER -> PathText(l)) \o Behind(l)

Dots(stack, e) == IF e = <<"..">> THEN (IF stack = <<>> THEN <<>> ELSE Front(stack)) ELSE Append(stack, e)
Resolve(path) == FoldLeft(LAMBDA stack, e : Dots(stack, e), <<>>, path)

Directory(w) == IF w.dir \/ w.path = <<>> THEN w.path ELSE Front(w.path)

Path(w, l) ==
  CASE l.kind = "relative" -> Resolve(Directory(w) \o l.path)
    [] l.kind = "same" -> w.path
    [] OTHER -> Resolve(l.path)

IsRemoteScheme(s) == LowerCase(<<s>>)[1] \in Remote

\* A page of the net does not open a file or the settings.
Refused(w, l) == l.kind = "absolute" /\ IsRemoteScheme(w.scheme) /\ ~IsRemoteScheme(l.scheme)

Lead(w, l) ==
  IF Refused(w, l) THEN w
  ELSE [scheme |-> CASE l.kind = "absolute" -> LowerCase(<<l.scheme>>)[1] [] l.kind = "bare" -> "https" [] OTHER -> w.scheme,
        server |-> IF l.kind \in {"absolute", "network", "bare"} THEN l.server ELSE w.server,
        port |-> IF l.kind \in {"absolute", "network", "bare"} THEN l.port ELSE w.port,
        path |-> Path(w, l),
        dir |-> IF l.kind = "same" THEN w.dir ELSE l.dir,
        query |-> IF l.kind = "same" /\ l.query = None /\ l.fragment = None THEN w.query ELSE l.query,
        fragment |-> IF l.kind = "same" /\ l.query = None /\ l.fragment = None THEN w.fragment ELSE l.fragment]

\* What the URI of a page should say of it.
PortOf(w) == IF w.port # None THEN Number[w.port] ELSE IF w.scheme = "https" THEN 443 ELSE 80
FileOf(w) == <<"/">> \o Replaced(PathText(w)) \o (IF w.query = None THEN <<>> ELSE <<"?", w.query>>)
ServerOf(w) == CASE w.scheme \in BrowserPages -> <<>> [] w.scheme = "file" /\ w.server = <<>> -> <<"localhost">> [] OTHER -> w.server
Said(w) == [protocol |-> w.scheme, server |-> ServerOf(w), port |-> PortOf(w),
            file |-> (IF w.scheme \in BrowserPages THEN w.server ELSE <<>>) \o FileOf(w),
            internal |-> IF w.fragment = None THEN <<>> ELSE <<w.fragment>>]
Read(u) == [protocol |-> Protocol(u), server |-> Server(u), port |-> Port(u), file |-> FileName(u),
            internal |-> InternalLink(u)]

----------------------------------------------------------------------------
(* Links that this code takes for others                                   *)

\* The query or fragment becomes part of the server's name.
JoinsServer(l) == l.kind = "same" /\ Text(l) # <<>> /\ FirstSlash(uri) = 0
\* A link to a place in the page forgets the query of the page.
LosesQuery(w, l) == l.kind = "same" /\ l.query = None /\ l.fragment # None /\ w.query # None
\* Only .. is removed, and a path that ends in it is no directory.
KeepsDots(l) == <<".">> \in ToSet(l.path) \/ (l.path # <<>> /\ Last(l.path) = <<"..">>)
\* The first directory of a file is taken for its server.
FirstIsKept(w, l) ==
  LET path == (IF l.kind = "relative" THEN Directory(w) ELSE <<>>) \o l.path
  IN w.scheme = "file" /\ l.kind \in {"relative", "rooted"}
       /\ \E i \in DOMAIN path : path[i] = <<"..">> /\ Len(Resolve(UpTo(path, i - 1))) < 2
\* The server of a page that has none.
NoNetwork(w, l) == w.scheme \notin Remote /\ l.kind = "network"
\* The root of the files gets two slashes.
RootOfFiles(w, l) == w.scheme = "file" /\ l.kind # "absolute" /\ Path(w, l) = <<>>

Astray(w, l) == JoinsServer(l) \/ LosesQuery(w, l) \/ KeepsDots(l) \/ FirstIsKept(w, l) \/ NoNetwork(w, l) \/ RootOfFiles(w, l)

\* The blanks of an address without a scheme are not replaced.
KeepsBlank(l) == l.kind = "bare" /\ " " \in ToSet(Text(l))

----------------------------------------------------------------------------

Nowhere == [scheme |-> None, server |-> <<>>, port |-> None, path |-> <<>>, dir |-> TRUE,
            query |-> None, fragment |-> None]

Init == uri = Unset /\ where = Nowhere /\ astray = FALSE

\* The user enters an address: URI::URI.
Enter ==
  \E l \in Addresses :
    /\ uri = Unset
    /\ uri' = SetUri(Text(l), TRUE) /\ where' = Lead(Nowhere, l) /\ astray' = KeepsBlank(l)

\* URI::navigateTo
Follow ==
  \E l \in Links :
    /\ uri # Unset /\ ~astray
    /\ Len(Path(where, l)) <= MaxPath
    /\ uri' = NavigateTo(uri, Text(l)) /\ where' = Lead(where, l) /\ astray' = Astray(where, l)

Next == Enter \/ Follow

----------------------------------------------------------------------------
(* Properties                                                              *)

\* The URI after any sequence of links names the page that they lead to: its
\* server and port, its file and the place in it.
LinksLeadThere == uri = Unset \/ astray \/ Read(uri) = Said(where)
=============================================================================
