------------------------------ MODULE MCNetwork ------------------------------
(***************************************************************************)
(* What comes over the network: Cache, HeaderParser and CookieJar.  Each   *)
(* is checked alone: the others stay in one of their initial states.       *)
(***************************************************************************)
EXTENDS Cache, CookieJar, TLC

CONSTANTS Window, MaxAnswers

VARIABLES state, buffer, position, field, headerValue, redirect, chunked, gzip, chunkLength,
          digits, statusCode, inflate, fed, file, parserSaves, overrun, answer, cut, source,
          todo, before, count,
          part           \* which of the three runs

----------------------------------------------------------------------------
(* Answers: each way of sending, with one block where it is gzip           *)

Two == <<"p1", "p2">>

Plain == [status |-> "200", location |-> FALSE, payload |-> Two,
          coding |-> "identity", chunked |-> FALSE, chunks |-> <<>>,
          trailer |-> FALSE]

MCAnswers ==
  {Plain, [Plain EXCEPT !.status = "302", !.location = TRUE],
   [Plain EXCEPT !.location = TRUE], [Plain EXCEPT !.status = "junk"],
   [Plain EXCEPT !.payload = <<"p1">>, !.coding = "gzip"]}
  \cup {[Plain EXCEPT !.chunked = TRUE, !.chunks = c, !.trailer = t] :
          c \in {<<2>>, <<1, 1>>}, t \in BOOLEAN}
  \cup {[Plain EXCEPT !.payload = <<"p1">>, !.coding = "gzip", !.chunked = TRUE,
                      !.chunks = c] : c \in {<<1, 2>>, <<3>>}}

----------------------------------------------------------------------------
(* A page with a fragment and an image of both, and caching headers        *)

Address(page, fragment) == [page |-> page, fragment |-> fragment]
MCURIs   == {Address("p", ""), Address("q", ""), Address("q", "a")}
MCImages == {Address("p", "")}

\* date counts from two units before the answer, expires from the answer on,
\* lastModified backwards.
MCControls ==
  {NoControl, [NoControl EXCEPT !.date = 1, !.maxAge = 1],
   [NoControl EXCEPT !.date = 1, !.lastModified = 5]}

----------------------------------------------------------------------------
(* Cookies of a domain and of a host in it                                 *)

MCServers  == {"foo.com", "www.foo.com"}
MCTopLevel == [s \in MCServers |-> "foo.com"]
MCKinds == {[path |-> "/d/", secure |-> TRUE]}
MCPlaces == {[path |-> "/", secure |-> TRUE], [path |-> "/d/", secure |-> TRUE]}
MCUnder(page, cookie) == cookie = "/" \/ page = cookie

----------------------------------------------------------------------------

Parser == INSTANCE HeaderParser WITH Answers <- MCAnswers, saving <- parserSaves

parserVars == <<state, buffer, position, field, headerValue, redirect, chunked, gzip,
                chunkLength, digits, statusCode, inflate, fed, file, parserSaves, overrun,
                answer, cut, source, todo, before, count>>

NetworkInit ==
  /\ part \in {"cache", "parser", "jar"} /\ Init /\ Parser!Init /\ JarInit
  /\ part # "cache" => useCache
  /\ part # "parser" => answer = Plain
ParserNext == part = "parser" /\ Parser!Next /\ UNCHANGED <<part, vars, jarVars>>
ParserRuns == /\ part = "parser" /\ (Parser!FeedAndFlush \/ Parser!Flush)
              /\ UNCHANGED <<part, vars, jarVars>>
NetworkNext == \/ part = "cache" /\ Next /\ UNCHANGED <<part, parserVars, jarVars>>
               \/ ParserNext
               \/ part = "jar" /\ JarNext /\ UNCHANGED <<part, vars, parserVars>>
allVars == <<part, vars, parserVars, jarVars>>
NetworkSpec == NetworkInit /\ [][NetworkNext]_allVars /\ WF_allVars(ParserRuns)

----------------------------------------------------------------------------
(* Properties                                                              *)

\* The variables of the three keep to their types; a copy that is read is not
\* written at the same time.
TypesKept == TypeInvariant /\ Parser!TypeInvariant /\ JarTypeInvariant

\* A page is what its answer says, from the network and from the copy.
PageIsTheAnswer == Parser!PageIsTheAnswer

\* HeaderParser::flush ends.
FlushesEnd == Parser!FlushesEnd
=============================================================================
