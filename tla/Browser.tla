------------------------------- MODULE Browser -------------------------------
(***************************************************************************)
(* Controller (bunjalloo/source/Controller.cpp) and the parts of Document *)
(* and View it works with: opening pages, the history, redirects, and the  *)
(* queue of the images of a page.  View::tick, which hands the user's      *)
(* input to Controller, is called in every round of fetchHttp's loop and,  *)
(* while images are loaded, by View::notify from inside Document::flush.   *)
(* So Controller's operations nest, and each works on the same document,   *)
(* client, queue and flags as those it interrupted.  `stack' holds the     *)
(* calls in progress, innermost last.  How one fetch goes is the subject   *)
(* of PageFetch; here it ends, some time, with a page or with an error.    *)
(***************************************************************************)
EXTENDS Integers, Sequences, FiniteSets

CONSTANTS HttpPages,     \* addresses fetched over the network
          LocalPages,    \* about:, file: and config: addresses
          Images,        \* for each page in HttpPages, its images
          MaxRedirects,  \* m_maxRedirects
          MaxOps,        \* bound: what the user does in a behaviour
          MaxDepth       \* bound: the depth of nested calls

Items == UNION {{Images[p][i] : i \in DOMAIN Images[p]} : p \in HttpPages}
Addresses == HttpPages \cup LocalPages

CONSTANT ErrorPage       \* what loadError shows

ASSUME PagesAssumption ==
  /\ HttpPages # {}
  /\ DOMAIN Images = HttpPages
  /\ \A p \in HttpPages : Images[p] \in Seq(Items)
  /\ HttpPages \cap LocalPages = {} /\ Items \cap Addresses = {}
  /\ ErrorPage \notin Addresses \cup Items

ASSUME BoundsAssumption ==
  MaxRedirects \in Nat /\ MaxOps \in Nat /\ MaxDepth \in Nat

VARIABLES history,         \* m_history, the addresses alone
          pos,             \* m_historyPosition as an index; 0 before any page
          historyEnabled,  \* m_historyEnabled
          status,          \* m_status
          parsed,          \* the pages that the document is made of
          mime,            \* the type of what was parsed last
          client,          \* m_httpClient: the address it fetches, how far it
                           \* is, and the depth of the call that set it to
                           \* this, which no action looks at
          stop,            \* m_stop
          redirected,      \* m_redirected
          queue,           \* m_downloadQ
          checkingQueue,   \* m_checkingQueue
          stack,           \* the calls of doUri, previous and next in progress
          ops              \* what the user has done so far

histVars == <<history, pos>>
docVars  == <<status, parsed, mime>>
flagVars == <<historyEnabled, checkingQueue, queue>>
vars == <<histVars, docVars, flagVars, client, stop, redirected, stack, ops>>

Statuses == {"NOTHING", "LOADED_HTML", "LOADED_ITEM", "LOADED_PAGE",
             "INPROGRESS", "REDIRECTED"}

\* Where a call is.  In handleUri or fetchHttp, for a page or, if `item', for
\* an image of it:
\*   "load"    Cache::load has found a copy of uri and not yet looked at it
\*   "headers" in the flush of the copy's headers, with the view ticking
\*   "copy"    after that flush
\*   "body"    in the flush of the copy's content, with the view ticking
\*   "fed"     after that flush
\*   "loop"    in the loop that drives the client
\*   "answer"  in the flush of the client's answer, with the view ticking
\*   "error"   in the flush of the client's error page, with the view ticking
\*   "local"   in the flush of a local page, with the view ticking
\* "again" is the end of doUri's loop, "queue" the head of
\* checkDownloadQueue's.
Frames == [call : {"doUri", "move"}, item : BOOLEAN,
           uri : HttpPages \cup LocalPages \cup Items,
           at : {"load", "headers", "copy", "body", "fed", "loop", "answer",
                 "error", "local", "again", "queue"}]

Init ==
  /\ history = <<>> /\ pos = 0
  /\ historyEnabled = TRUE /\ checkingQueue = FALSE /\ queue = <<>>
  /\ status = "NOTHING" /\ parsed = {} /\ mime = "html"
  /\ client = [uri |-> CHOOSE u \in HttpPages : TRUE, phase |-> "off", by |-> 0]
  /\ stop = FALSE /\ redirected = 0
  /\ stack = <<>> /\ ops = 0

Depth    == Len(stack)
Top      == stack[Depth]
Outer    == SubSeq(stack, 1, Depth - 1)
At(places) == stack # <<>> /\ Top.at \in places
GoTo(place) == Append(Outer, [Top EXCEPT !.at = place])
Uri      == history[pos]

----------------------------------------------------------------------------
(* Document                                                                *)

\* Mutant: the forward history is kept.
SetUriKeepsForward(u) ==
  IF historyEnabled /\ (history = <<>> \/ u # Uri)
  THEN /\ history' = Append(history, u)
       /\ pos' = Len(history) + 1
  ELSE UNCHANGED histVars

SetUri(u) ==
  IF historyEnabled /\ (history = <<>> \/ u # Uri)
  THEN /\ history' = Append(SubSeq(history, 1, pos), u)
       /\ pos' = pos + 1
  ELSE UNCHANGED histVars

HasPrevious == pos > 1
HasNext     == pos < Len(history)

\* gotoPreviousHistory and gotoNextHistory move only if history is enabled,
\* and return the current address in any case.
Goto(p) == /\ pos' = IF historyEnabled THEN p ELSE pos
           /\ UNCHANGED history

\* LOADED_HTML makes the view render the page, and that queues its images.
ImagesOf(page, m) ==
  IF m = "html" /\ page \cap HttpPages # {}
  THEN Images[CHOOSE p \in page \cap HttpPages : TRUE]
  ELSE <<>>

\* setStatus(LOADED_HTML) on a document of the given content, with q queued.
Loaded(page, m, q) ==
  /\ status' = "LOADED_HTML" /\ parsed' = page /\ mime' = m
  /\ queue' = q \o ImagesOf(page, m)

\* flush, once headers have brought the document to status s: a redirect
\* changes the current address, if history is enabled.
HeadersRedirect(s) ==
  \/ s = "INPROGRESS" /\ UNCHANGED histVars
  \/ /\ s = "REDIRECTED"
     /\ \E r \in HttpPages :
          history' = IF historyEnabled THEN [history EXCEPT ![pos] = r]
                                       ELSE history
     /\ UNCHANGED pos

\* The content of u is parsed.  It is added to whatever the document is made
\* of; only an image goes to its file instead.
Parse(u, page, m) ==
  \/ m = "html" /\ page = parsed \cup {u}
  \/ u \in Items /\ m = "image" /\ page = parsed

\* View::notify ticks only while history is disabled.
Ticks(s) == s = "INPROGRESS" /\ ~historyEnabled

----------------------------------------------------------------------------
(* Controller: the parts of a call                                         *)

\* Mutants: one redirect too many; redirects are not counted.
FinishFetchOffByOne(s, page, m) ==
  IF s = "REDIRECTED" /\ historyEnabled /\ redirected <= MaxRedirects
  THEN /\ redirected' = redirected + 1
       /\ status' = "REDIRECTED" /\ parsed' = {} /\ mime' = "html"
       /\ UNCHANGED queue
  ELSE /\ redirected' = 0
       /\ IF checkingQueue
          THEN /\ status' = "LOADED_ITEM" /\ parsed' = page /\ mime' = m
               /\ UNCHANGED queue
          ELSE Loaded(page, m, queue)

FinishFetchUncounted(s, page, m) ==
  /\ UNCHANGED redirected
  /\ IF s = "REDIRECTED" /\ historyEnabled
     THEN /\ status' = "REDIRECTED" /\ parsed' = {} /\ mime' = "html"
          /\ UNCHANGED queue
     ELSE IF checkingQueue
     THEN /\ status' = "LOADED_ITEM" /\ parsed' = page /\ mime' = m
          /\ UNCHANGED queue
     ELSE Loaded(page, m, queue)

\* finishFetchHttp, on a document with the given status, content and type.
FinishFetch(s, page, m) ==
  IF s = "REDIRECTED" /\ historyEnabled /\ redirected < MaxRedirects
  THEN /\ redirected' = redirected + 1
       /\ status' = "REDIRECTED" /\ parsed' = {} /\ mime' = "html"
       /\ UNCHANGED queue
  ELSE /\ redirected' = 0
       /\ IF checkingQueue
          THEN /\ status' = "LOADED_ITEM" /\ parsed' = page /\ mime' = m
               /\ UNCHANGED queue
          ELSE Loaded(page, m, queue)

\* fetchHttp(u) up to its loop or to the cached copy, in a call of the given
\* kind on top of `below', on a document of the given status and content.
\* Before it looks at a copy it resets the document, if history is enabled.
FetchHttp(u, call, item, below, s, page) ==
  /\ stop' = FALSE
  /\ client' = [uri |-> u, phase |-> "busy", by |-> Len(below) + 1]
  /\ \E at \in {"loop", "load"} :
       /\ stack' = Append(below, [call |-> call, item |-> item, uri |-> u,
                                  at |-> at])
       /\ IF at = "load" /\ historyEnabled
          THEN status' = "NOTHING" /\ parsed' = {}
          ELSE status' = s /\ parsed' = page
  /\ UNCHANGED <<mime, redirected>>

\* A local page is shown at once, or after a flush in which the view ticks.
ShowLocal(u, call, below, q) ==
  /\ IF historyEnabled THEN Loaded({u}, "html", q)
                       ELSE /\ status' = "INPROGRESS" /\ parsed' = {u}
                            /\ mime' = "html" /\ queue' = q
  /\ stack' = Append(below, [call |-> call, item |-> FALSE, uri |-> u,
                             at |-> IF historyEnabled THEN "again" ELSE "local"])
  /\ UNCHANGED <<client, redirected>>

\* Mutant: the document is not reset for the new page.
HandleUriKeepsDocument(u, call, below, q, stopped) ==
  \/ /\ u \in HttpPages
     /\ FetchHttp(u, call, FALSE, below, status, parsed)
     /\ queue' = q
  \/ /\ u \in LocalPages
     /\ ShowLocal(u, call, below, q)
     /\ stop' = stopped

\* handleUri(u), in a call of the given kind, with the given queue and m_stop.
HandleUri(u, call, below, q, stopped) ==
  \/ /\ u \in HttpPages
     /\ FetchHttp(u, call, FALSE, below, "NOTHING", {})
     /\ queue' = q
  \/ /\ u \in LocalPages
     /\ ShowLocal(u, call, below, q)
     /\ stop' = stopped

----------------------------------------------------------------------------
(* What the user does, in any tick                                         *)

InFlush == At({"headers", "body", "answer", "error", "local"})
Ticking == stack = <<>> \/ At({"loop"}) \/ InFlush

UserActs == Ticking /\ ops < MaxOps /\ ops' = ops + 1

\* An address is entered, a link, a bookmark or the preferences are pressed.
\* While the call that this one interrupts has found a redirect, doUri takes
\* the current address of the history for the redirect's.
DoUri(u) ==
  /\ UserActs /\ Depth < MaxDepth
  /\ SetUri(u)
  /\ HandleUri(IF status = "REDIRECTED" THEN history'[pos'] ELSE u,
               "doUri", stack, queue, stop)
  /\ UNCHANGED <<historyEnabled, checkingQueue>>

\* stop() empties the queue only if it is being worked on.
StoppedQueue == IF checkingQueue THEN <<>> ELSE queue

\* previous() and next(), when the history has an entry p to move to: they
\* stop a page that is not fully loaded, and load what the history returns.
Move(p) ==
  /\ UserActs /\ Depth < MaxDepth
  /\ Goto(p)
  /\ IF status = "LOADED_PAGE"
     THEN HandleUri(history[pos'], "move", stack, queue, stop)
     ELSE HandleUri(history[pos'], "move", stack, StoppedQueue, TRUE)
  /\ UNCHANGED <<historyEnabled, checkingQueue>>

Previous == HasPrevious /\ Move(pos - 1)
Forward  == HasNext /\ Move(pos + 1)

\* The stop button of a page that is not fully loaded; of one that is, it is
\* the reload button.
StopLoading ==
  /\ UserActs /\ status # "LOADED_PAGE"
  /\ stop' = TRUE
  /\ queue' = StoppedQueue
  /\ UNCHANGED <<histVars, docVars, historyEnabled, checkingQueue, client,
                 redirected, stack>>

Reload == history # <<>> /\ status = "LOADED_PAGE" /\ DoUri(Uri)

----------------------------------------------------------------------------
(* What the calls in progress do                                           *)

Waiting == At({"loop"}) /\ ~stop /\ client.phase = "busy"

\* The client has the whole answer and flushes it.  An answer whose headers
\* have not ended leaves the document INPROGRESS, and then the view ticks.
ClientGetsPage ==
  /\ Waiting
  /\ Parse(client.uri, parsed', mime')
  /\ HeadersRedirect(status')
  /\ \/ /\ client' = [client EXCEPT !.phase = "page"]
        /\ UNCHANGED stack
     \/ /\ Ticks(status') /\ stack' = GoTo("answer")
        /\ UNCHANGED client
  /\ UNCHANGED <<flagVars, stop, redirected, ops>>

\* The client's state is set after the flush, whatever it has become since.
AnswerEnds ==
  /\ At({"answer"})
  /\ client' = [client EXCEPT !.phase = "page"]
  /\ stack' = GoTo("loop")
  /\ UNCHANGED <<histVars, docVars, flagVars, stop, redirected, ops>>

\* The client has waited too long: it has a page, of what it has flushed.
ClientTimesOut ==
  /\ Waiting
  /\ client' = [client EXCEPT !.phase = "page"]
  /\ status' \in {status, "INPROGRESS"}
  /\ UNCHANGED <<histVars, parsed, mime, flagVars, stop, redirected, stack, ops>>

\* The client fails, and shows the error page in place of the document.
ClientFails ==
  /\ Waiting
  /\ client' = [client EXCEPT !.phase = "error"]
  /\ IF historyEnabled
     THEN Loaded({ErrorPage}, "html", queue) /\ UNCHANGED stack
     ELSE /\ status' = "INPROGRESS" /\ parsed' = {ErrorPage} /\ mime' = "html"
          /\ stack' = GoTo("error")
          /\ UNCHANGED queue
  /\ UNCHANGED <<histVars, historyEnabled, checkingQueue, stop, redirected, ops>>

ErrorEnds ==
  /\ At({"error"})
  /\ Loaded(parsed, mime, queue)
  /\ stack' = GoTo("loop")
  /\ UNCHANGED <<histVars, historyEnabled, checkingQueue, client, stop,
                 redirected, ops>>

AfterFetch == IF Top.item THEN "queue" ELSE "again"

\* fetchHttp's loop ends because the client has finished, perhaps in a call
\* nested in this one.
LoopEnds ==
  /\ At({"loop"}) /\ ~stop /\ client.phase # "busy"
  /\ stack' = GoTo(AfterFetch)
  /\ IF client.phase = "page" THEN FinishFetch(status, parsed, mime)
                              ELSE UNCHANGED <<docVars, queue, redirected>>
  /\ UNCHANGED <<histVars, historyEnabled, checkingQueue, client, stop, ops>>

\* fetchHttp returns at once after stop().
LoopStops ==
  /\ At({"loop"}) /\ stop
  /\ stack' = GoTo(AfterFetch)
  /\ UNCHANGED <<histVars, docVars, flagVars, client, stop, redirected, ops>>

\* Cache::load parses the headers of the copy, and so follows a redirect in
\* them.  Of an image of a type it cannot show, the last of its page, the
\* view stops the load.
CopyHasHeaders ==
  /\ At({"load"})
  /\ HeadersRedirect(status')
  /\ stack' = GoTo(IF Ticks(status') THEN "headers" ELSE "copy")
  /\ stop' \in IF Top.item /\ queue = <<>> THEN {stop, TRUE} ELSE {stop}
  /\ UNCHANGED <<parsed, mime, flagVars, client, redirected, ops>>

\* The copy is stale: back to the network, with the document reset if history
\* is enabled by now.
CopyIsStale ==
  /\ At({"headers", "copy"})
  /\ stack' = GoTo("loop")
  /\ IF historyEnabled THEN status' = "NOTHING" /\ parsed' = {}
                       ELSE UNCHANGED <<status, parsed>>
  /\ UNCHANGED <<histVars, mime, flagVars, client, stop, redirected, ops>>

\* A nested call that ended in the flush of the headers has loaded its page.
Interrupted == status = "LOADED_PAGE"

\* The copy is fresh, and its content is fed to the document; what the parser
\* makes of it after a nested call depends on where that has left the parser.
\* A redirect in the headers, or left by a nested call, is still in force.
CopyIsFed ==
  /\ At({"headers", "copy"})
  /\ \/ Parse(Top.uri, parsed', mime')
     \/ Interrupted /\ UNCHANGED <<parsed, mime>>
  /\ HeadersRedirect(status')
  /\ ~Interrupted => status' = status
  /\ stack' = GoTo(IF Ticks(status') THEN "body" ELSE "fed")
  /\ UNCHANGED <<flagVars, client, stop, redirected, ops>>

CopyEnds ==
  /\ At({"body", "fed"})
  /\ stack' = GoTo(AfterFetch)
  /\ FinishFetch(status, parsed, mime)
  /\ UNCHANGED <<histVars, historyEnabled, checkingQueue, client, stop, ops>>

\* A local page is complete.  What was still to come of it is added to
\* whatever is shown by now.
LocalEnds ==
  /\ At({"local"})
  /\ \E page \in {parsed, parsed \cup {Top.uri}} : Loaded(page, "html", queue)
  /\ stack' = GoTo("again")
  /\ UNCHANGED <<histVars, historyEnabled, checkingQueue, client, stop,
                 redirected, ops>>

\* doUri goes round its loop while the document says REDIRECTED.
FollowRedirect ==
  /\ At({"again"}) /\ Top.call = "doUri" /\ status = "REDIRECTED"
  /\ HandleUri(Uri, "doUri", Outer, queue, stop)
  /\ UNCHANGED <<histVars, historyEnabled, checkingQueue, ops>>

\* checkDownloadQueue begins.
BeginQueue ==
  /\ At({"again"}) /\ ~(Top.call = "doUri" /\ status = "REDIRECTED")
  /\ historyEnabled' = FALSE /\ checkingQueue' = TRUE
  /\ stack' = GoTo("queue")
  /\ UNCHANGED <<histVars, docVars, queue, client, stop, redirected, ops>>

FetchItem ==
  /\ At({"queue"}) /\ queue # <<>>
  /\ queue' = Tail(queue)
  /\ FetchHttp(Head(queue), Top.call, TRUE, Outer, status, parsed)
  /\ UNCHANGED <<histVars, historyEnabled, checkingQueue, ops>>

\* Mutant: the call returns as soon as it was stopped.
EndQueueUnlessStopped ==
  /\ At({"queue"}) /\ queue = <<>>
  /\ IF stop THEN UNCHANGED <<historyEnabled, checkingQueue, status>>
             ELSE /\ historyEnabled' = TRUE /\ checkingQueue' = FALSE
                  /\ status' = "LOADED_PAGE"
  /\ stack' = Outer
  /\ UNCHANGED <<histVars, parsed, mime, queue, client, stop, redirected, ops>>

EndQueue ==
  /\ At({"queue"}) /\ queue = <<>>
  /\ historyEnabled' = TRUE /\ checkingQueue' = FALSE
  /\ status' = "LOADED_PAGE"
  /\ stack' = Outer
  /\ UNCHANGED <<histVars, parsed, mime, queue, client, stop, redirected, ops>>

User == \/ \E u \in Addresses : DoUri(u)
        \/ Previous \/ Forward \/ StopLoading \/ Reload

Program == \/ ClientGetsPage \/ AnswerEnds \/ ClientTimesOut
           \/ ClientFails \/ ErrorEnds \/ LoopEnds \/ LoopStops
           \/ CopyHasHeaders \/ CopyIsStale \/ CopyIsFed \/ CopyEnds
           \/ LocalEnds \/ FollowRedirect
           \/ BeginQueue \/ FetchItem \/ EndQueue

Next == User \/ Program

Spec == Init /\ [][Next]_vars

\* Every fetch ends (PageFetch says when that is so); nothing is assumed of
\* the user.
FairSpec == Spec /\ WF_vars(Program)

----------------------------------------------------------------------------
(* Properties                                                              *)

TypeInvariant ==
  /\ history \in Seq(Addresses) /\ pos \in 0..Len(history)
  /\ pos = 0 <=> history = <<>>
  /\ historyEnabled \in BOOLEAN /\ checkingQueue \in BOOLEAN
  /\ queue \in Seq(Items)
  /\ status \in Statuses /\ mime \in {"html", "image"}
  /\ parsed \subseteq Addresses \cup Items \cup {ErrorPage}
  /\ client \in [uri : HttpPages \cup Items,
                 phase : {"off", "busy", "page", "error"}, by : 0..MaxDepth]
  /\ stop \in BOOLEAN /\ redirected \in 0..MaxRedirects
  /\ stack \in Seq(Frames) /\ Depth <= MaxDepth
  /\ ops \in 0..MaxOps

\* However calls nest, what was still to come for a page that the user left
\* is not added to another page of the network, but by a call that goes on
\* after one nested in it has used the client: a loop goes on with the nested
\* call's fetch, and Cache::load with its copy.
Mixed(page) == Cardinality(page \cap HttpPages) > 1

Overtaken == client.by # Depth

PagesMixOnlyWhenOvertaken == [][Mixed(parsed') => Mixed(parsed) \/ Overtaken]_vars

\* When every call has returned, the flags that checkDownloadQueue borrows
\* are as they were, nothing is left in its queue, and the stop button is a
\* reload button again.
SettledWhenIdle ==
  stack = <<>> /\ history # <<>> =>
    historyEnabled /\ ~checkingQueue /\ queue = <<>> /\ status = "LOADED_PAGE"

\* Every load ends, with its images and whatever was opened in the meantime,
\* unless checkDownloadQueue's loop goes on for ever: a nested call has reset
\* m_checkingQueue, so each image whose answer is not an image renders the
\* page again, and that queues the images again.
Requeues == At({"queue"}) /\ ~checkingQueue
LoadsSettle == []<>(stack = <<>>) \/ []<>Requeues

\* Under all of this, the history is one that a user can rely on.
Abstract == INSTANCE BrowsingHistory WITH entries <- history, place <- pos

ImplementsHistory == Abstract!Spec

----------------------------------------------------------------------------
(* What the documents say, and the code does not do                        *)

\* The README says of the L button: "Move backwards in the history."
BackMovesBack == [][Previous => pos' = pos - 1]_vars

\* Controller.h says of stop(): "Stop loading the page."  After it, no
\* download should begin that the user has not asked for.
StopStops == [][stop /\ ~stop' => Len(stack') > Len(stack)]_vars
=============================================================================
