------------------------------- MODULE Cache -------------------------------
(***************************************************************************)
(* Cache (bunjalloo/source/Cache.cpp): the ids of the addresses that were  *)
(* loaded in this session, and the two files of each page, with what       *)
(* Controller and Document do between and inside of its loads.  The crc32  *)
(* of an address is taken to be the address.                               *)
(*                                                                         *)
(* While the images of a page are loaded the view ticks in each flush of   *)
(* the document, also in those of Cache::load.  A page that is opened      *)
(* there is loaded to its end, with its images; then the load that it      *)
(* interrupted goes on, with the header parser and the cache file that it  *)
(* was left.  `stack' holds the calls in progress, innermost last, as in   *)
(* Browser; this module follows what they do to the files.                 *)
(***************************************************************************)
EXTENDS CacheControl, FiniteSets, Sequences

CONSTANTS URIs,         \* addresses: a page, and a fragment or NoFragment
          Images,       \* those of the images that pages have
          Controls,     \* the caching headers of answers: the fields that are
                        \* set, with times relative to the answer's
          MaxNow, MaxVersion, \* bounds: of the clock, and of answers
          MaxOps,       \* bound: what the user does in a behaviour
          MaxDepth      \* bound: the depth of nested calls

\* Nothing but the tests sets the request time, and no server sends a max-age
\* below zero (sscanf would take it).
ControlFields ==
  [noCache : BOOLEAN, age : Int, date : Int, expires : Int, maxAge : Nat \cup {-1},
   lastModified : Int, request : {0}, response : Int]

\* NoFragment keeps the empty string out of the facts that the proofs use.
NoFragment == ""
NoPage == "no page"

Pages     == {uri.page : uri \in URIs}
Fragments == {uri.fragment : uri \in URIs}
NoInternal(uri) == [uri EXCEPT !.fragment = NoFragment]
NoURI == [page |-> NoPage, fragment |-> NoFragment]

ASSUME CacheAssumption ==
  /\ URIs \subseteq [page : Pages, fragment : Fragments]
  /\ \A uri \in URIs : NoInternal(uri) \in URIs
  /\ Images \subseteq URIs /\ NoPage \notin Pages
  /\ MaxNow \in Nat /\ MaxVersion \in Nat /\ MaxOps \in Nat /\ MaxDepth \in Nat
  /\ Controls \subseteq ControlFields

VARIABLES
  useCache,   \* m_useCache
  fileIds,    \* m_fileIds
  files,      \* for each page, what crc32 and crc32.hdr hold, or NoFile
  saving,     \* the document's cache file is that of this page, or NoPage
  parser,     \* the header parser: how far it is, and its CacheControl
  client,     \* m_httpClient: its address, and whether it still fetches it
  stop,       \* m_stop
  checkingQueue, \* m_checkingQueue; as long as it is set, history is disabled
  stack,      \* the calls of doUri, previous and next in progress
  now,
  version,    \* how many answers came
  ops         \* what the user has done so far

fileVars == <<useCache, fileIds, files>>
docVars  == <<saving, parser>>
callVars == <<client, stop, checkingQueue, stack>>
vars == <<fileVars, docVars, callVars, now, version, ops>>

\* The content is of answer number `version', of page `of', or mixed; hdr is
\* the answer whose headers the .hdr file has, or 0.
NoFile == [exists |-> FALSE]
File(content, of, v, hdr, control) ==
  [exists |-> TRUE, content |-> content, of |-> of, version |-> v, hdr |-> hdr,
   control |-> control, mtime |-> now]

\* The header parser has nothing that it understands ("start"), has read the
\* headers ("read"), or has data of the client that was not flushed.
Parsed(state, control) == [state |-> state, control |-> control]
Fresh == Parsed("start", NoControl)

\* Where a call is:
\*   "headers" in the flush of the headers of the copy of an address
\*   "body"    in the flush of the copy's content
\*   "loop"    in the loop that drives the client
\*   "answer", "error", "local"  in the flush of the client's answer, of its
\*             error page, of a local page or of a line of one
\*   "queue"   at the head of checkDownloadQueue's loop
\* item: it loads an image.  overtaken: a call nested in the load has ended;
\* no action looks at this.
Points == {"headers", "body", "loop", "answer", "error", "local", "queue"}
Frames == {f \in [at : Points, copy : URIs \cup {NoURI}, item : BOOLEAN, overtaken : BOOLEAN] :
             f.at = "headers" => f.copy \in URIs}
Frame(at, copy, item) == [at |-> at, copy |-> copy, item |-> item, overtaken |-> FALSE]

Init ==
  /\ useCache \in BOOLEAN
  /\ fileIds = {} /\ files = [p \in Pages |-> NoFile]
  /\ saving = NoPage /\ parser = Fresh
  /\ client = [uri |-> NoURI, busy |-> FALSE]
  /\ stop = FALSE /\ checkingQueue = FALSE /\ stack = <<>>
  /\ now = 1 /\ version = 0 /\ ops = 0

Depth == Len(stack)
Top   == stack[Depth]
Outer == SubSeq(stack, 1, Depth - 1)
At(places) == stack # <<>> /\ Top.at \in places
GoTo(place) == Append(Outer, [Top EXCEPT !.at = place, !.copy = NoURI])

----------------------------------------------------------------------------
(* Ids and files                                                           *)

HasId(uri, ids) == useCache /\ NoInternal(uri) \in ids

Add(uri, ids) == ids \cup {uri, NoInternal(uri)}

\* Mutant: the files stay.
RemoveKeepsFiles(uri) == [ids |-> fileIds \ {uri}, files |-> files]

\* remove(): the id of the address without its fragment stays.
RemoveUri(uri) ==
  IF useCache
  THEN [ids |-> fileIds \ {uri}, files |-> [files EXCEPT ![uri.page] = NoFile]]
  ELSE [ids |-> fileIds, files |-> files]

\* The CacheControl of the headers that a copy was stored with.
ControlOf(file) == [(IF file.hdr = 0 THEN NoControl ELSE file.control)
                      EXCEPT !.response = file.mtime]

\* mtime(): 0 for a file that is not there.
Mtime(file) == IF file.exists THEN file.mtime ELSE 0

\* Mutant: the copy's headers are left when a new one is made.
NewFilesKeepsHeaders(file) ==
  File("empty", NoPage, 0, IF file.exists THEN file.hdr ELSE 0, NoControl)

\* setCacheFile(cacheFile) empties both files.
NewFiles(file) == File("empty", NoPage, 0, 0, NoControl)

\* Both files are appended to, and what they had before makes it a mixture.
\* hdr is 0 if the headers do not go to the file.
Appended(file, content, of, v, hdr, control) ==
  IF file.exists /\ (file.content # "empty" \/ file.hdr # 0)
  THEN [file EXCEPT !.content = "mixed", !.mtime = now]
  ELSE File(content, of, v, hdr, control)

\* The files after the document was fed with what is not of the page it saves.
\* Where chunks or gzip have ended that is lost.
Mixed(file) ==
  IF file.exists THEN [file EXCEPT !.content = "mixed", !.mtime = now]
  ELSE File("mixed", NoPage, 0, 0, NoControl)
Mixtures ==
  {files} \cup {[files EXCEPT ![p] = Mixed(files[p])] : p \in {saving} \ {NoPage}}

----------------------------------------------------------------------------
(* Cache::load                                                             *)

\* The end of load(): the page will come from the network.
ToNetwork(uri, ids, fs) ==
  /\ fileIds' = Add(uri, ids)
  /\ files' = [fs EXCEPT ![uri.page] = NewFiles(fs[uri.page])]
  /\ saving' = uri.page /\ parser' = Fresh

\* fetchHttp(uri) up to its loop, or to the flush of the copy's headers, in a
\* call on top of `below', with the ids and files as another call left them.
Load(uri, item, below, ids, fs) ==
  /\ client' = [uri |-> uri, busy |-> TRUE] /\ stop' = FALSE
  /\ \/ /\ HasId(uri, ids) /\ fs[uri.page].exists
        /\ fileIds' = Add(uri, ids) /\ files' = fs /\ saving' = NoPage
        /\ parser' = IF fs[uri.page].hdr = 0 THEN Fresh
                      ELSE Parsed("read", fs[uri.page].control)
        /\ stack' = Append(below, Frame("headers", uri, item))
     \/ /\ useCache /\ ~(HasId(uri, ids) /\ fs[uri.page].exists)
        /\ ToNetwork(uri, ids, fs)
        /\ stack' = Append(below, Frame("loop", NoURI, item))
     \/ /\ ~useCache
        /\ fileIds' = ids /\ files' = fs /\ saving' = NoPage
        /\ parser' = IF item THEN parser ELSE Fresh
        /\ stack' = Append(below, Frame("loop", NoURI, item))
  /\ UNCHANGED <<useCache, now, version>>

\* The times that the headers of an answer have when it comes.
Times(c) ==
  [c EXCEPT !.date = IF @ = -1 THEN -1 ELSE now + @ - 2,
            !.expires = IF @ = -1 THEN -1 ELSE now + @,
            !.lastModified = IF @ = -1 THEN -1 ELSE now - @]

\* What is in force after the flush of the empty line that ends the headers:
\* that flush also parses what a nested call has left unflushed.
Flushed ==
  IF parser.state = "unflushed" THEN {Parsed("read", Times(c)) : c \in Controls}
                                 ELSE {parser}

\* The empty line, and then the copy, go to the cache file of the document,
\* unless the header parser cannot make anything of it.
Spilled == IF parser.state = "start" THEN {files} ELSE Mixtures

IsGood(uri, control, fs) ==
  ShouldCache([control EXCEPT !.response = Mtime(fs[uri.page])], now)

\* The copy is good by the CacheControl that the header parser has by now, and
\* its content is fed to the document.
CopyIsFed ==
  /\ At({"headers"})
  /\ \E fs \in Spilled, h \in Flushed :
       /\ IsGood(Top.copy, h.control, fs)
       /\ files' = fs /\ parser' = h
  /\ stack' = GoTo("body")
  /\ UNCHANGED <<useCache, fileIds, saving, client, stop, checkingQueue, now, version, ops>>

CopyIsStale ==
  /\ At({"headers"})
  /\ \E fs \in Spilled, h \in Flushed :
       /\ ~IsGood(Top.copy, h.control, fs)
       /\ ToNetwork(Top.copy, fileIds, fs)
  /\ stack' = GoTo("loop")
  /\ UNCHANGED <<useCache, client, stop, checkingQueue, now, version, ops>>

----------------------------------------------------------------------------
(* What the user does, in any tick                                         *)

InFlush == At({"headers", "body", "answer", "error", "local"})
Ticking == stack = <<>> \/ At({"loop"}) \/ (InFlush /\ checkingQueue)
UserActs == Ticking /\ ops < MaxOps /\ ops' = ops + 1
Opens == UserActs /\ Depth < MaxDepth

\* doUri, previous and next.
Open(uri) ==
  /\ Opens
  /\ Load(uri, FALSE, stack, fileIds, files)
  /\ UNCHANGED checkingQueue

\* Controller::reload.
Reload(uri) ==
  /\ Opens
  /\ Load(uri, FALSE, stack, RemoveUri(uri).ids, RemoveUri(uri).files)
  /\ UNCHANGED checkingQueue

\* checkDownloadQueue begins, or goes on.
Queue == Frame("queue", NoURI, TRUE)

\* A page of files, settings or an error: handleUri leaves no cache file.
OpenLocal ==
  /\ Opens
  /\ saving' = NoPage /\ parser' = Parsed("read", NoControl)
  /\ stack' = Append(stack, IF checkingQueue THEN Frame("local", NoURI, FALSE) ELSE Queue)
  /\ checkingQueue' = TRUE
  /\ UNCHANGED <<fileVars, client, stop, now, version>>

\* Controller::stop: of an image it removes the files.
Removes == checkingQueue /\ client.uri \in URIs
Stop ==
  /\ UserActs /\ stack # <<>>
  /\ stop' = TRUE
  /\ IF Removes
     THEN fileIds' = RemoveUri(client.uri).ids /\ files' = RemoveUri(client.uri).files
     ELSE UNCHANGED <<fileIds, files>>
  /\ UNCHANGED <<useCache, docVars, client, checkingQueue, stack, now, version>>

----------------------------------------------------------------------------
(* What the calls in progress do                                           *)

Waiting == At({"loop"}) /\ ~stop /\ client.busy
Finished == client' = [client EXCEPT !.busy = FALSE]

Saved(fs, content, of, v, hdr, control) ==
  IF saving = NoPage THEN fs
  ELSE [fs EXCEPT ![saving] = Appended(fs[saving], content, of, v, hdr, control)]

\* The server's answer is flushed when the connection ends: all of it, or
\* what came before the connection was lost.  The view ticks in that flush if
\* the headers have not ended.  If an image is of a type that cannot be shown,
\* the view stops the load at the end of the headers, and what comes after
\* them makes a new file.
Answered ==
  /\ Waiting /\ version < MaxVersion /\ version' = version + 1
  /\ \E c \in Controls :
       /\ parser' = Parsed("read", Times(c))
       /\ \/ /\ files' = Saved(files, "answer", client.uri.page, version', version', Times(c))
             /\ UNCHANGED <<fileIds, stop>>
          \/ /\ Removes /\ stop' = TRUE
             /\ fileIds' = RemoveUri(client.uri).ids
             /\ files' = Saved(RemoveUri(client.uri).files, "answer", client.uri.page,
                               version', 0, NoControl)
  /\ \/ Finished /\ UNCHANGED stack
     \/ checkingQueue /\ stack' = GoTo("answer") /\ UNCHANGED client
  /\ UNCHANGED <<useCache, saving, checkingQueue, now, ops>>

\* The client's state is set after the flush, whatever it has become since.
AnswerEnds ==
  /\ At({"answer"}) /\ Finished
  /\ stack' = GoTo("loop")
  /\ UNCHANGED <<fileVars, docVars, stop, checkingQueue, now, version, ops>>

\* loadError: what was received has not been flushed and is dropped; the text
\* of the error page goes through HtmlParser, and so into the copy.
Failed ==
  /\ Waiting /\ Finished
  /\ parser' = Parsed("read", NoControl)
  /\ files' = Saved(files, "error", client.uri.page, 0, 0, NoControl)
  /\ stack' = IF checkingQueue THEN GoTo("error") ELSE stack
  /\ UNCHANGED <<useCache, fileIds, saving, stop, checkingQueue, now, version, ops>>

ErrorEnds ==
  /\ At({"error"}) /\ stack' = GoTo("loop")
  /\ UNCHANGED <<fileVars, docVars, client, stop, checkingQueue, now, version, ops>>

\* What was received stays with the header parser.
LeavesData == \E s \in {parser.state, "unflushed"} : parser' = [parser EXCEPT !.state = s]

TimesOut ==
  /\ Waiting /\ Finished /\ LeavesData
  /\ UNCHANGED <<fileVars, saving, stop, checkingQueue, stack, now, version, ops>>

\* A load has ended: the next image is fetched, after the page the first one.
AfterLoad == stack' = Append(Outer, Queue) /\ checkingQueue' = (checkingQueue \/ ~Top.item)

LoopStops ==
  /\ At({"loop"}) /\ stop /\ LeavesData /\ AfterLoad
  /\ UNCHANGED <<fileVars, saving, client, stop, now, version, ops>>

\* The client has finished, perhaps in a call nested in this one, or the copy
\* is read.
Ended == \/ At({"body"})
         \/ At({"loop"}) /\ ~stop /\ ~client.busy

LoadEnds ==
  /\ Ended /\ AfterLoad
  /\ UNCHANGED <<fileVars, docVars, client, stop, now, version, ops>>

\* doUri goes round its loop.
FollowRedirect ==
  /\ Ended /\ ~Top.item /\ ~checkingQueue
  /\ \E uri \in URIs : Load(uri, FALSE, Outer, fileIds, files)
  /\ UNCHANGED <<checkingQueue, ops>>

\* What is still to come of a local page, after a nested call.
LocalEnds ==
  /\ At({"local"}) /\ AfterLoad
  /\ files' \in Mixtures
  /\ UNCHANGED <<useCache, fileIds, docVars, client, stop, now, version, ops>>

FetchItem ==
  /\ At({"queue"})
  /\ \E uri \in Images : Load(uri, TRUE, Outer, fileIds, files)
  /\ UNCHANGED <<checkingQueue, ops>>

\* The call returns to the tick that it was opened in.
EndQueue ==
  /\ At({"queue"}) /\ checkingQueue' = FALSE
  /\ stack' = IF Depth = 1 THEN <<>>
              ELSE Append(SubSeq(stack, 1, Depth - 2),
                          [stack[Depth - 1] EXCEPT !.overtaken = TRUE])
  /\ UNCHANGED <<fileVars, docVars, client, stop, now, version, ops>>

\* The program ends, at any time, and Controller's constructor starts the next
\* session: the ids are not stored.
Restart ==
  /\ useCache' \in BOOLEAN
  /\ fileIds' = {} /\ saving' = NoPage /\ parser' = Fresh
  /\ files' \in {files, [p \in Pages |-> NoFile]}
  /\ client' = [uri |-> NoURI, busy |-> FALSE]
  /\ stop' = FALSE /\ checkingQueue' = FALSE /\ stack' = <<>>
  /\ UNCHANGED <<now, version, ops>>

Tick == now < MaxNow /\ now' = now + 1
        /\ UNCHANGED <<fileVars, docVars, callVars, version, ops>>

User == OpenLocal \/ Stop \/ \E uri \in URIs : Open(uri) \/ Reload(uri)
Program == \/ CopyIsFed \/ CopyIsStale \/ Answered \/ AnswerEnds \/ Failed
           \/ ErrorEnds \/ TimesOut \/ LoopStops \/ LoadEnds \/ FollowRedirect
           \/ LocalEnds \/ FetchItem \/ EndQueue

Next == User \/ Program \/ Restart \/ Tick

Spec == Init /\ [][Next]_vars

----------------------------------------------------------------------------
(* Properties                                                              *)

TypeInvariant ==
  /\ useCache \in BOOLEAN /\ fileIds \subseteq URIs
  /\ saving \in Pages \cup {NoPage} /\ version \in 0..MaxVersion
  /\ \A p \in Pages : files[p].exists =>
       files[p].content \in {"empty", "answer", "error", "mixed"}
  /\ stack \in Seq(Frames) /\ Depth <= MaxDepth
  /\ client.uri \in URIs \cup {NoURI} /\ ops \in 0..MaxOps

\* A call nested in the load that is innermost now has ended.
Overtaken == stack # <<>> /\ Top.overtaken

\* The content of a copy is of an answer of its page, or is an error page, and
\* its headers are of that answer.
OneAnswer(p) ==
  files[p].exists =>
    /\ files[p].content # "mixed"
    /\ files[p].content = "answer" => files[p].of = p
    /\ files[p].hdr # 0 => files[p].content = "answer" /\ files[p].hdr = files[p].version

\* However calls nest, and whatever stops or fails, a copy is of one answer of
\* its page, unless a load goes on after a call nested in it: it feeds its own
\* copy to the document of the other page, or saves the other page as its own.
CopyIsOneAnswer == [][\A p \in Pages : OneAnswer(p) => OneAnswer(p)' \/ Overtaken]_vars

\* After a reload the page comes from the network, whatever ids are left.
ReloadFetches ==
  [][\A uri \in URIs : Reload(uri) => stack'[Len(stack')].at = "loop"]_vars

\* A copy is used only if its page was good when it came, or, if nothing is
\* known of that, for two minutes more than its max-age; again unless the load
\* was overtaken, and decides by the headers of another page.
Feeds == At({"headers"}) /\ Len(stack') = Depth /\ stack'[Depth].at = "body"
UsedWhileGood ==
  [][Feeds /\ ~Overtaken /\ files[Top.copy.page].exists =>
       LET c == ControlOf(files[Top.copy.page])
       IN /\ ~c.noCache
          /\ c.date = -1 => now - c.response < DefaultTime + Larger(0, c.maxAge)
          /\ c.date # -1 /\ c.maxAge # -1 => c.response - c.date < c.maxAge
          /\ c.date # -1 /\ c.maxAge = -1 => c.lastModified # -1]_vars

\* A copy is used while it is good, and never by a reload (Cache::load and remove).
CopiesUsedWhileGood == ReloadFetches /\ UsedWhileGood
=============================================================================
