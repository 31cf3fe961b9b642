# Bunjalloo in TLA+

Bunjalloo is a web browser for the Nintendo DS. This directory holds TLA+
modules that model the parts of it that decide what happens and in which
order, the TLC configurations that check them, and proofs that TLAPS checks.
Paths below are relative to the repository (`src/` in `PROJECT.json`);
`PROJECT.json` names, for each definition, the lines it stands for.

## 1. The system

Everything runs in one thread. `Controller::mainLoop` calls `View::tick` once
per vertical blank; `tick` reads keys and stylus and calls `Controller`. A load
is a call of `Controller::doUri`, which returns only when the page and its
images are there. To stay responsive, the loop of `Controller::fetchHttp` calls
`View::tick` in every round, and `View::notify` calls it from inside
`Document::flush` while images load. So the program has no threads but does
have interleavings: any operation of `Controller` can begin in the middle of
another one, on the same document, client, queue and flags. `ZipFile::extract`
ticks the view before and after each entry, with the same effect.

The way of a page: `HttpClient` reads blocks of an answer over `nds::Client`
and gives them to `Document`; `HeaderParser` takes status, headers, chunks and
gzip apart, tells `CookieJar` and `CacheControl`, and writes the copy of `Cache`;
`HtmlParser` makes tokens of what is left, and `HtmlDocument` a tree of them;
`ViewRender` visits the tree and makes text areas, images and form widgets,
which `BoxLayout` and `ScrollPane` put on the screens. What the user does with
them goes back through `View`, with its toolbars, keyboard and popups, to
`Controller`.

| Component | State | Operations | Correct when |
|---|---|---|---|
| `Slot2Allocator` | chunk list in the expansion RAM | alloc, free, get_usage | blocks are disjoint, free neighbours are merged, nothing is lost |
| `nds::Client` | connect state, TLS contexts, socket | connect, sslEnable, read, write, disconnect | reads and writes only on its own open, properly encrypted socket |
| `HttpClient` | `m_state`, `m_finished`, `m_total`, start time | handleNextState, setUri, reset | a fetch ends, and hands over its own answer only |
| `Wifi9` | connected flag | connect, status, disconnect | |
| `Controller` | `m_stop`, `m_redirected`, `m_downloadQ`, `m_checkingQueue` | doUri, previous, next, reload, stop, fetchHttp, checkDownloadQueue | every load ends and leaves the flags as it found them |
| `Document` | status, history and place, parsers | setUri, reset, appendData, flush, setStatus, goto*, clearConfigHistory | one page at a time; history as a user expects |
| `HeaderParser` | parser state, buffer, redirect | feed, flush, reset | headers, chunks and gzip are split as the sender meant, wherever the data is cut |
| `Cache`, `CacheControl` | ids, files; age headers | load, add, remove | a copy is of one answer, and is used only while it is good, also when loads nest |
| `CookieJar`, writer, handler | accepted domains, cookies, their files | add, accept, expire | a cookie goes to the sites it belongs to, also after a restart |
| `HtmlParser` | state, content model, tag, left-overs | feed | the tokens are those of the page, however it is cut |
| `HtmlDocument` | phase, open elements, formatting list, tree | handleStartEndTag, handleEndTag, handleData, handleEOF | a tree, with all the text in it, for any nesting of tags |
| `URI` | protocol, address, port | setUri, navigateTo | names the page that the links lead to |
| `Config`, `ConfigParser` | resources, config.ini | reload, updateConfig, postConfiguration, parse | settings change only as the user changes them |
| `FormControl` and the widgets | values in widgets and in elements | input, submitClicked | a form sends what the user filled in |
| `ViewRender`, `RichTextArea` | areas, links, indentation | visit*, paint, pointToCharIndex | links look like links and lead where they should |
| `TextArea`, `EditableTextArea`, `Keyboard` | lines, caret, modifiers | append, delete, keys | typing changes the text at the caret and nothing else |
| `BoxLayout`, `ScrollPane`, `ScrollBar`, `ImageComponent` | boxes, positions, dirty flags | layout, scroll, tick, paint | rows in reading order; the screen shows the page; the place is kept |
| `View`, toolbars, popups, `Updater`, bookmarks | states of the view and of the update, toolbar, keyboard | tick, notify, callbacks | the user can always go on |
| `Toolbar`, `Sprite` | icons in memory and in the OAM | show, hide, move, update | what is seen is what the program has to show |
| `ZipViewer`, `ZipFile` | boxes, `m_index` | show, extract, after | what was chosen, and nothing else, is on the card |
| `Language`, `Version`, `DateUtils`, hardware layer | tables, pixels, devices | | |

What is hard to test in it is the list `hazards` of `PROJECT.json`, each with
its line and the properties that would show it: nested calls, state read after
a tick, fetches that fail or are stopped half-way, timeouts, limits of the
redirect count and of the RAM, data cut at any byte, files that agree with
memory only most of the time, and long sequences of legal calls.

## 2. Modules

| Module | Models | Written against |
|---|---|---|
| `MemoryPool` | abstract: a pool of bytes and the blocks in use | |
| `Slot2Allocator` | the chunk list, alloc, free, get_usage | `ndspp/source/common/Slot2Allocator.cpp` |
| `NdsClient` | the client's fields and sockets; its calls as operators | `ndspp/source/common/Client.cpp` |
| `PageFetch` | `HttpClient`'s state machine over `NdsClient`, driven by `fetchHttp`'s loop; one fetch after another | `HttpClient.cpp`, `Controller.cpp`, `Document.cpp` |
| `BrowsingHistory` | abstract: visited addresses and a place among them | |
| `Browser` | nested loads: `doUri`, `previous`, `next`, `stop`, redirects, cached copies, images, history | `Controller.cpp`, `Document.cpp`, `Cache.cpp`, `View.cpp` |
| `HeaderParser` | feed and flush, one call of flush's loop per step; the copy's two files | `HeaderParser.cpp` |
| `CacheControl`, `Cache` | the age arithmetic; ids and files, loads nested in the flushes of others, that are stopped or fail, reload, restart | `CacheControl.cpp`, `Cache.cpp` |
| `CookieJar` | the jar, a file for each host, the list of accepted domains | `CookieJar.cpp`, `Cookie.cpp`, `CookieWriter.cpp`, `CookieHandler.cpp` |
| `HtmlParser` | the tokeniser, one state handler per step | `HtmlParser.cpp` |
| `HtmlDocument` | the tree builder, one token per step, with its adoption agency | `HtmlDocument.cpp`, `HtmlElement.cpp` |
| `Form` | fields, widgets, rendering again, sending | `FormControl.cpp`, `Select.cpp`, `FormTextArea.cpp`, `FormRadio.cpp` and others |
| `Uri` | addresses, links, `navigateTo` | `URI.cpp` |
| `Settings` | config.ini, its template, the page of settings and its post | `Config.cpp`, `ConfigParser.cpp`, `ParameterSet.cpp` |
| `Archive` | the page of an archive, extraction onto a card | `ZipViewer.cpp`, `ZipFile.cpp` |
| `TextArea`, `TextEditor` | how text is broken into lines; the keyboard and the caret | `bwt/source/TextArea.cpp`, `EditableTextArea.cpp`, `Keyboard.cpp` |
| `RichTextArea`, `ViewRender` | links in text; the areas made of a tree | `bwt/source/RichTextArea.cpp`, `ViewRender.cpp` |
| `PageLayout` | rows, scrolling, the scroll bar, images that change size, the place on the page | `bwt/source/BoxLayout.cpp`, `ScrollPane.cpp`, `ScrollBar.cpp`, `View.cpp` |
| `Interface` | view states, toolbars, keyboard, popups, bookmarks, updater, settings in the history | `View.cpp`, the toolbars, `Updater.cpp`, `EditPopup.cpp` |
| `Toolbars` | sprites in memory and in the OAM | the toolbars, `ndspp/source/nds/Sprite.cpp` |
| `FoldTheorems` | what `FoldLeft` computes, for any operation | |
| `Slot2AllocatorProofs`, `PageFetchProofs`, `BrowserProofs`, `NetworkProofs`, `InterfaceProofs`, `PageLayoutProofs`, `ReadingProofs` | theorems | |
| `MC*` | constants for TLC | |

Composition: `PageFetch` is built on `NdsClient`, `Cache` on `CacheControl`,
`TextEditor` and `ViewRender` on `TextArea`, the latter through `RichTextArea`.
`Slot2Allocator` implements `MemoryPool`, and `Browser` implements
`BrowsingHistory`. `MCNetwork`, `MCReading` and `MCScreen` are no compositions:
each holds several components, `part` chooses one of them in the initial state,
and the others stay in one of their initial states. `MCNetwork` extends `Cache`
and `CookieJar`, `MCReading` extends `Archive` and `Form`, and `MCScreen` extends `Interface`,
`PageLayout` and `Toolbars`, so that the definitions which the runs check are those the theorems are about;
what has no theorem is instantiated. `Browser` keeps its own abstraction of
what fetches, copies and parsers do; it is written by hand, and no run shows that
`PageFetch` and `Cache` implement it; `Cache` has a stack of the same calls of its
own, for what they do to the files.

**Slot2Allocator.** `chunk` maps the address of each header in the list to its
fields. `AllocFrom` is a successful `alloc` (first fit, whole or split),
`AllocFails` one that returns NULL; `Free` is `free` with both merges,
`FreeFails` its returns of -1 and -2. `size_t` wraps at `Modulus`.

**NdsClient and PageFetch.** A step is one round of the loop in `fetchHttp`:
one call of `handleNextState`, which runs one `case` of its switch, as one
action per case and outcome (`ConnectWifi`, `ReadBlock`, ...). Between rounds
the user stops the load, the access point and the connection come and go, and
time passes (`Clock`). The bytes of an answer are abstracted to the number of
the fetch whose request they answer; `open` says which answers each socket may
still deliver. `sslEnable` blocks in a loop of its own: `handshaking`.

**Browser.** `stack` holds the calls in progress. Each frame says where its call
is: in `fetchHttp`'s loop, inside one of the flushes that tick the view, or
between two steps of `Cache::load` and `checkDownloadQueue`. The user may act
whenever the view ticks (`Ticking`). How a fetch goes is abstracted to its
ends: an answer, a timeout, a failure, each of which `PageFetch` produces. What
the cache holds is abstracted too: any address may have a fresh copy, a stale
one or none each time it is asked for. That includes `reload`, which removes
the copy first, so the model has a few behaviours there that the code has not.
`parsed` is the set of addresses whose content the document is made of; an
image's answer goes to its file, unless it is HTML. Posted settings, the updater
and names for downloads are `Interface`'s.

**HeaderParser.** An answer is a sequence of tokens (a name, CR, a digit, a byte
of the body); it arrives in pieces cut anywhere, and what was stored of it is
read again as the copy. `inflate` is zlib's `inflate` as flush calls it: at most
`Window` bytes of output per call.

**Cache.** The crc32 of an address stands for the address. `Cache::load` takes as
many steps as the view can tick in it: `Load` goes up to the flush of the copy's
headers, `CopyIsFed` or `CopyIsStale` is what it decides after that, `LoadEnds`
what follows the flush of the content. `stack` holds the calls in progress, as in
`Browser`. A page that is opened in a tick of a load of an image runs to its end,
with its images; then the load goes on with the cache file and the header parser
that it was left (`EndQueue` marks it as `overtaken`): it decides by the
`CacheControl` of the other page with the time of its own copy, feeds its copy
into the other page's file, or saves the other page's answer as its own. What a
stop or a timeout leaves unflushed (`LeavesData`) is parsed in the next flush
without a reset. What is not modelled of a file is its text: once something else
was appended to it, it is `mixed`. With history enabled no flush ticks, and the
flush of the headers and what follows are one behaviour of two steps. Restarts
empty the ids, and leave the files unless the settings say to clear them.

**CookieJar.** The files of `cookies/` and the list of accepted domains outlive
`NewSession`. Headers in copies are parsed again whenever a copy is read.

**HtmlParser and HtmlDocument.** The tokeniser parses each document twice, in one
piece and cut in two anywhere. `torn` marks a cut inside the few characters
that a handler looks ahead for (`<!--`, `</script`, entities), which the code
misreads. A page is a sequence of bytes: `Lead` and `Trail` are those of one
character, which `next()` decodes. A piece that ends between them makes it
U+FFFD twice, as the TODO at `HtmlParser.cpp:214` says; such a cut is `torn` too
(`Feed`), and the model goes on with what the code reads. What `isalpha` and
`isdigit` say of U+FFFD is left open where it matters. A char keeps the low byte
of a character in the names of tags (`AsChar`). Only UTF-8 is modelled; with
ISO-8859-1 each byte is a character. The builder's handlers call each other and themselves; each is a
function of the document, and one step makes all calls for one token.

**Form, Uri, Settings.** What a field holds is kept in its widget and in its
element; a page whose images arrive is rendered again with new widgets. What the
user wants in each field (`wanted`) follows from touches alone, never from what
the code keeps, and the data that is sent is compared with it. In `Uri`, `where` is the page that links lead to by what they mean (the reference),
and `uri` is what the code makes of their text. In `Settings` the power may go
between two lines while config.ini is written.

**Archive.** The stack of `extract` calls in progress, each of which ticks the
view: in a tick the user may switch boxes, press the button again or leave. The
card is a tree with a number of blocks.

**TextEditor, ViewRender, PageLayout.** The text is its lines, as in `TextArea`.
Each character of an area carries the mark it was written with (`marks`), which
the code has not: properties compare it with the links found by the code.
`PageLayout` computes all of `doLayout`, `adjustScrollBar` and the painting of a
strip; `shown` says whether the screen is what a full painting would give.

**Interface and Toolbars.** The handlers of a touch call one another many levels
deep, so each is a function of the state. `Toolbars` has frames: a touch, keys,
then `Frame`, the rest of `View::tick`.

## 3. Runs

| Run | Shows | Bounds |
|---|---|---|
| `slot2` | the list is sound, the assertions hold, the pool is implemented | a RAM of a few chunks |
| `page_fetch` | no fetch disturbs a later one; what can wait for ever | 3 fetches, 2 blocks, 2 sockets, timeout 1, 1 redirect |
| `browser` | what nesting can and cannot do | 4 user actions, depth 3, 1 redirect |
| `network` | what comes over the network: copies, answers, cookies | 2 pages, 2 fragments, 1 image, 2 user actions, 2 answers, calls 2 deep, clock to 2; answers of 2 bytes, 2 in a row; a host and its domain, 2 values |
| `reading` | what is read and written as text: tokens, trees, forms, links, settings, archives | documents of 2 things; pages of 5 tokens from 7 sets of tags; 8 forms; paths of depth 3; 2 posts, 1 power loss; a card of 4 blocks, 2 presses, 2 switched boxes |
| `screen` | what is seen and touched | texts of 3 characters, lines of 5; pages of 2 areas with 5 characters or links; pages of 3 or 4 parts, screens of 4 lines; history of 3, 1 bookmark; 2 moves, 1 change |
| `ready`, `renders`, `lost`, `back`, `stop`, `adoption` | six places where the code does not do what a comment, an assertion or a document says | as above |

*Why the bounds are enough.* A free and its merges look at three neighbours,
and the RAM of `slot2` holds more chunks than that, with sizes for an exact
fit, a fit with a remainder too small to split, a split, and none. In
`PageFetch` what one fetch leaves behind is seen by the next one, or the one
after (a socket that the second no longer knows): three fetches. Two sockets
are enough to run out of them. In `Browser` the longest chain of causes found
is a page with an image, a page opened while it loads, and a third one opened
in a flush of the second: depth 3, with one action left to use the result.

A copy can be confused with that of the answer before it, or of another
fragment or page, so two of each. An image's load is overtaken by one page
opened in it: one action for the page of the image, one for the other, and calls
two deep. Without a max-age -1 is added to the two minutes
(`DefaultTime` = 2), so a copy of a page that says nothing is good in the unit in
which it came and stale in the next one; of the other two sets of headers in
`MCControls` one has an age that is just its max-age, and is never good, the other is
always. What `HeaderParser` keeps of an
answer is seen by the next one or by its copy: two in a row. Tokeniser states
look at one thing and what is behind it, and each form of a thing is in
`MCDocuments`. The adoption agency and the scopes need at most four open
elements and one more token; the sets of tags are those that the code treats
together. Three links leave a directory, enter one and leave the next. A second
post meets a file that the first one, or a power loss, has left. An extraction
is disturbed once by a press and once by a box. A caret with three characters
is at the start, in the middle and at the end of a line, on a wrapped one and
before a word that is too wide. An image pushes what follows it to a new row
and the page beyond the screens. A history of three has something before and
behind the settings.

The counters `Max*`, `Fuel` (rounds of the adoption agency before it counts as
endless) and the values of `part` exist only for TLC; the code has no such
limits. `MaxRedirects` is 7 in the code and 1 in the runs. Widths, heights and
times are scaled down with their relations kept: an arrow is smaller than a
screen, a title smaller than a row, an image may be wider than the box.

*Deadlock.* `CHECK_DEADLOCK FALSE` is set where a behaviour may end: the user
has done all that the bound allows, or the fetch waits for ever. The allocator
can always be called again.

*Properties worth reading.*

- `ImplementsPool`: a request is refused only when no run of unused bytes is
  long enough, so the allocator never loses memory to its own bookkeeping.
- `OnePageOneFetch`: a page is made only of what its own fetch received, after
  any sequence of stops, failures, timeouts and half-made connections.
- `HangsOnlyWaiting`: a fetch ends unless it waits in one of three places.
- `PagesMixOnlyWhenOvertaken`: what was still to come for one page gets into
  another only in a call that a nested fetch has overtaken (`client.by # Depth`).
  It does happen then: TLC shows the behaviour when `Overtaken` is left out.
- `LoadsSettle`: every load ends, unless `checkDownloadQueue`'s loop is
  re-queueing for ever, which needs a nested load and an image answered by
  HTML. TLC shows that too when `Requeues` is taken away.
- `ImplementsHistory`: under all of this, the history is a line of addresses
  and a place in it, with the forward part dropped on every visit.
- `PageIsTheAnswer`: what reaches `HtmlParser` is the payload in order
  (`PayloadInOrder`), all of it when all of the answer came
  (`WholeAnswerRead`), and the same from the copy (`CopyMakesSamePage`).
  `FlushesEnd`: each flush ends. Not for an answer that is no HTTP, and with one
  block of gzip: see section 7.
- `CopyIsOneAnswer`: the content of a copy is of an answer of its page (or is an
  error page), and its headers are those of the same answer, though they are two
  files written at two times. No step spoils that but those of a load that goes on
  after another was nested in it (`Overtaken`). `CopiesUsedWhileGood`: a copy
  is used only when its page was good as it came, or for two minutes more than
  its max-age when nothing is known of it, with the same exception, and never by
  a reload. Without the exception TLC shows both ways of going wrong: a copy that
  another page's content was appended to, and one used by another page's headers.
- `JarIsOnDisk`: the jar has one cookie of a name and a domain, and a dated one
  that is marked as saved is in its file as it is.
  `SavedCookiesSent`: what was saved goes with each request it belongs to, unless
  the name is used for another domain as well, or its file is taken for read
  (it is `m_domain`'s) and nothing of that name is in the jar.
- `PageIsRead`: tokens are those of the things in the page, and the same however
  it is cut, unless it is `torn`: inside a character, or where a handler looks
  ahead. `TreeIsSound`, `TextIsKept`: each element is the
  child of one element once, and no letter is lost, but for a textarea outside
  a form; the document's root is html at the end, except in the phases that are
  named there.
- `FormIsSent`: a form sends what the user sees in it, if it has no field of the
  kinds that `Faithful` names. `LinksLeadThere`: the URI is that of the page
  the links mean, but for the links in `Astray`. `SettingsAreTheUsers`: a start, a
  power loss, or a page sent back unchanged changes no setting, unless a value
  has characters that the formats of the file and the page read as their own.
- `UnzippedAsChosen`: an undisturbed extraction has written every chosen entry
  whole, up to one that failed, and has changed nothing else.
- `PaintedAsMarked`, `LinkIsFollowed`: what was written in an anchor is
  underlined from wherever painting begins, and leads where the anchor leads
  when touched, but for the places in `Misread`.
- `InReadingOrder`, `ScreenShowsPage`, `PlaceIsKept`: rows do not overlap when
  images grow; scrolling by a strip leaves the screen as a full painting
  would; a long page never leaves the screen, and rendering it again finds its
  place, to what rounding loses.
- `NeverStuck`: what waits for the keyboard has it, and without it a toolbar
  shows. `SettingsLeaveHistory`: no page of the settings is left in the
  history when the browser's toolbar is back, with the two exceptions named.
- `EditsAsShown`: typing inserts at the caret and deleting removes the character
  before it, over wrapped lines and characters of several bytes.
- `IconsShowState`: after two quiet frames the OAM shows what the toolbars have
  to show, and nothing of the toolbars that are not visible.

Where a property names an exception, the code does behave otherwise there, and
the model does too.

*Fairness.* `PageFetch`: the loop goes round once per vertical blank
(`WF(HandleNextState)`, `WF(EndFetch)`), time passes (`WF(Clock)`), and a
handshake on a dead connection returns an error. `Browser`: `WF(Program)`, a
call in progress goes on; that each fetch ends is an assumption here, and
`HangsOnlyWaiting` says when it is true. `network`: `WF(ParserRuns)`, the loop of
`HeaderParser::flush` goes on once it has begun. Nothing is assumed of the user,
the server or the access point.

## 4. Proofs

`tlapm` checks every obligation. Theorems hold for every value of the
constants under the named assumptions.

**FoldTheorems** (none). `FoldLeft` of the community modules is a recursive
function over the indices, chosen by `CHOOSE`. That it exists is shown once, by
induction over initial segments (`SetInduction`), and with it what a fold does one
element at a time (`FoldSteps`), and that what holds of the base and is kept by
the operation holds of the result (`FoldStaysGood`). The operation is a
constant of the module: whoever needs the fact of an operation of his own
instantiates the module with it.

**Slot2AllocatorProofs** (`SizesAssumption`, `RequestsAssumption`). The
invariants are not inductive alone: that merging keeps the list linked needs
the links and extents of all chunks, and that two free neighbours never meet
needs both. The inductive invariant is their conjunction; lemmas state what
`Split`, `Join` and `Merged` do to a linked set of headers, and each theorem is
a projection. `PoolImplemented` is the refinement of `MemoryPool`:
`Spec => ImplementsPool`. Most of it says which extents are in use after a split
or a merge. The argument is in `NoRunIsLost`: a run of unused bytes lies in one
free chunk, since chunks cover the RAM and no two free ones are neighbours
(the least chunk beyond the run's start is picked with `WFMin`). A request that
`alloc` refuses is therefore one the pool refuses. `UsageIsExact` is about sums: what
`MapThenSumSet` adds up of a set is one number, in whatever order its elements come, by
induction on the size of the set (`SumSteps`, `SumsAgree`); `get_usage`'s walk goes
along the list and comes to every chunk once, by induction from the end of the
list (`ListInduction`); and chunks that follow each other fill the RAM (`FromFillsRam`).

**PageFetchProofs** (`SocketsAssumption`, `BoundsAssumption`). `IInv` adds to
the types what relates the two state machines: in which states of
`HttpClient` the client is connected and its socket open (`StateInv`), that an
open socket which the client still uses owes answers to the current fetch only
(`OwnAnswers`), and where the error page can be (`ErrorInv`). One step per
action; five theorems are projections of it.

**BrowserProofs** (`PagesAssumption`, `BoundsAssumption`). All calls share one
client and one document, so what one step does to another call is the question.
`IInv` answers it: the call that reset the client last is the innermost one
that fetches, all calls inside it are at a place where they leave client and
document alone or show a local page (`OwnerInv`), and as long as that call may
still add its page, no page of the network is in the document. `BaseInv` says
that nothing happens before the first page. Lemmas say what pushing, popping
and replacing the top call do to this; then there is one lemma per action,
which shows three things of its step at once (`Good`): `IInv` holds after it,
`BrowsingHistory` allows it, and pages are mixed only as stated. The proof of
`HistoryImplemented` is the refinement itself: `Spec => Abstract!Spec`, for any
history and any depth of calls.

**NetworkProofs** (`JarAssumption`, `CacheAssumption`, `CacheControlAssumption`).
*Cookies.* `JarAssumption` says that the top level of a top level is itself and
that lifetimes are naturals. Neither property is inductive: that a dated cookie
is on disk depends on how it came into the jar, and `addCookieHeader` merges a
new cookie into the first one of its name that matches. `JarInv` adds what makes
that harmless: of two cookies of one name, the first does not cover the domain of the
second (`Apart`), a file has one line for a name (`OneOfEach`), and a dated cookie
in the jar that is not marked as saved has its date from a line of a file that it
was the first to match (`FromFile`). One lemma for each kind of
change to the jar, and `SavedCookiesSent` follows from `JarInv` in one step of
the argument. The attempt to prove an earlier, stronger form of it failed for
a good reason: see *Cookies* in section 7.
*Copies.* Calls nest to any depth, but only the innermost one acts, and one that
a nested call has returned to is `overtaken` from then on. So the invariant says
what a load can rely on only of the innermost call, and only until then (`Held`):
while the headers of its copy are flushed, no cache file is set and the header
parser has what the copy's `.hdr` says; while it drives the client, the file that
is set is its own and still empty, or its client has finished. With that one
lemma per action shows at once that the invariant holds after it and that copies
are kept (`Keeps`): what is saved goes to an empty file of the client's page, and
what is decided is decided by the copy's own headers. `CopiesUsedOnlyWhileGood`
then follows the age arithmetic through each case of `shouldCache`; division by
`Fraction` is only bounded. A max-age below zero is outside `CacheAssumption`.

**PageLayoutProofs** (`LayoutAssumption`). A part is indented by no more than the
width of the box, which `ViewRender::increaseIndentation` sees to: it stops at 144
pixels, the box has 249. Parts may be wider than the box, and of no height. `RowsStayInOrder`: the rows that `BoxLayout`
makes do not overlap and come in the order of the page, by `FoldStaysGood` with
what is known of the rows so far. `ScrollingPaintsAll`: after any sequence of
moves, changes and frames the screens show what painting all would give; it
needs that the distance of a scroll is zero between frames and that the box is
at the top while the title is. `PlaceIsFoundAgain`: the place on the page that
`View` keeps as a fraction is found again to what two divisions lose.

**ReadingProofs**, *archives* (`ArchivesAssumption`: an entry has a path and a number of blocks, the
card is a tree of nodes). `IInv` says what is needed in the middle of an extraction.
Only the innermost may be undisturbed, since a press disturbs those around it and
leaving the page disturbs all (`OthersDisturbed`); in an undisturbed one `m_index` is the
box of the entry whose turn it is (`InStep`), without which the boxes would be those of
other entries; and every chosen entry it has passed is `Settled`, the one at its turn
excepted. `SettledStays` says why that lasts: an extraction never removes anything
from the card or makes a directory of a file, and a file is written again only by a
later entry of the same path. What `makedir` leaves of a path on a card with
files in the way or without room is `MkdirIs`, by `FoldStaysGood`. One lemma per action;
that no block or entry is written outside the archive or a file that is not open (`AllFit`)
holds of disturbed extractions as well.
*Forms* (`FormAssumption`: a page is a sequence of fields). `FormsAreSent` is
about any page and any sequence of touches. `FormInv` relates, for each kind of field,
what the user wants to what the element has: texts and lists (`AsTyped`, `AsListed`), boxes
(`AsTicked`), radio buttons (`AsPressed`). Rendering again presses buttons too, and would
take a choice back were it not that exactly one of each group is on
(`OneOfEach`): what `FormRadio::add` does to the buttons, one after the other, is
a fold, and it leaves exactly one of each group on; where one is, it changes
nothing (`RadiosGive`). `OneOfEach` holds of every group;
that the wanted button is on only of groups that lie in one form. What is sent and what a
server should be told are two folds over the same fields, one with a flag for
"&" and one that looks at what it has. `PartsAreJoined` takes them in lockstep:
they agree as long as the flag is on exactly when there is data, which a textarea
breaks, unless it is the last of its form (`FaithfulArea`).

**InterfaceProofs** (no assumption). The view of `Interface` may wait for a
keyboard that is closed in the middle of a touch, and only the steps at the end
of `View::tick` take it out of such a state, one state each. `Usable(s, waiting)`
carries the set of states whose step is still to come through every handler;
at the end it is empty. `UserNeverStuck` states the property `NeverStuck` that
`screen` checks.

`SettingsAreLeft` is the action property `SettingsLeaveHistory`. A handler does
one of three things to the history: nothing (`Calm`), one more address (`SetUri`),
or what `EndBookmark` does (`Ending`); only the form of the settings and an update
that is not needed end them inside a load. `Left` says of a state in the settings
that without their pages it is what was under them when the step began, up to
the position, and what was behind it, if that is still there; that survives
any page of the settings, and an `Ending` turns it into `Settled`, which a link makes
`Followed` at most. `clearConfigHistory` is a fold that takes a
concatenation apart (`WithoutConcat`). The step needs an invariant, `SettingsInv`:
while another toolbar than that of the browser shows, the current page is in the
history and no link waits to be followed. Without it the link that `EndBookmark`
finds would not be the page under the settings. One state is an exception,
which the invariant names: `addCookie` with nothing under the settings leaves a
history without a current page, and every action of the model needs one, a
keyboard or a download.

`IconsAreSeen` is about `Toolbars` and as many moves and changes
as one likes. What is right of a toolbar (`BarAt`) is that its icons are in their
places, which for the first icon depends on whether it hides the others, that
nothing is seen of it while it is not visible, and that what is enabled is right
while it is. Pictures are claimed only of frames in which nothing is done: the
first paints the icons of the first toolbar (`Told`), the second copies them to
the OAM (`Seen`), and the notifications between them paint the same. The other
toolbars have one picture for ever, and copy it when they are shown. Each
operation is first described by what it gives, for icons that may be anywhere
(that is what `layout` finds), and then by what it keeps.

TLC checked each inductive invariant, or the properties it is made of, before
the proof; `JarInv` also on larger instances than that of the run.

*Only model-checked*: liveness (`HangsOnlyWaiting`, `LoadsSettle`, `FlushesEnd`),
which needs fairness and ENABLED; `HeaderParser`, whose state is a sequence of bytes that is cut again at every
call, and with it `TypesKept`, which joins the types of three modules (those of
`Cache` and `CookieJar` are theorems); the `reading` run but for its archives and forms; and of `screen`
`PaintedAsMarked`, `LinkIsFollowed` and `EditsAsShown` (what is computed from a text of
any length). `HtmlDocument` and
`HtmlParser` declare RECURSIVE operators; no module with a theorem reaches them.

## 5. Findings

Six runs expect a violation, each a place where the code does not do what is
said of it:

- `ready`: after a connect that fails, the client is READY_TO_CONNECT without the
  TLS contexts that `Client.h` says it has then.
- `renders`: a timeout finishes the page without rendering what it has.
- `lost`: a connection on which reads fail is never found to be lost.
- `back`: L, while the images of a page load, loads the same page again.
- `stop`: stopping a page in the middle of a redirect does not stop it.
- `adoption`: `<b><b><blockquote></b>` removes the element that the adoption
  agency has bookmarked, and `assert(inserted)` in `HtmlDocument.cpp` fails.

## 6. What is left to do

1. `Browser` over `Cache` and `PageFetch`, in place of its own abstraction of
   them, or the refinements that justify it.
2. Listeners that come and go: `Document::notifyAll` and `Stylus`'s dispatch,
   which go through lists that a callback may change.
3. `ConfigParser::replaceMarkers` with translations that contain their marker.

## 7. Seen while modelling

No document says otherwise, so these are no findings; the models behave like
this too where they reach so far, and the properties name the exceptions.

- *Loads.* `previous` and `next` call `handleUri` once, so a page of the history
  that redirects is left empty. The failure of one image replaces the page by
  the error page.
- *Answers.* The text of a gzip block that was not finished is fed again with the
  next one; data that zlib refuses keeps the loop going. An answer that ends in
  its status line, or behind a CR, is read past the buffer. With cache and
  history disabled nothing resets `HeaderParser` between two images.
- *Copies.* A failed or stopped download leaves an empty copy that is used for two
  minutes. A dated page with a max-age never expires. A page that is opened while
  the copy of an image is read is mixed with it: `Cache::load` goes on afterwards,
  with the other page's header parser and cache file. Stopping an image removes
  its files while it is still being read or saved.
- *Cookies.* A cookie of a host takes the place of the domain's of the same name.
  A saved cookie that is set again for the session comes back with its old
  value. Expired ones stay in the files. A saved cookie may be missing from a
  request: after a start, a host's cookie is merged into a short-lived one that
  its domain has set under the same name; with that it expires, and is removed
  from the jar. When an answer of the host has set another cookie meanwhile,
  `m_domain` is the host (`CookieJar.cpp:105`), so its file is not read again.
- *Tokens and trees.* A character that is cut by the end of a block is read as two
  U+FFFD. `&sup2;` and `&notin;` are read as the shorter entities in
  front of them. An attribute without a value at the end of a tag is lost.
  `<b<i>` loses the second `<`. Pages that end inside a title, a script or a select
  leave another root than html. A textarea outside a form is in no tree.
  `reconstructActiveFormatters` skips every second entry.
- *Forms.* Boxes, lists, textareas, images and hidden fields without a name are
  sent with an empty one (`FormControl.cpp:155`). A textarea is neither escaped nor separated from the next field; an
  option without a text shifts those behind it, one without a value is not sent;
  radio groups are shared between the forms of a page; rendering again forgets
  a choice in a list. A radio button without a value is sent with an empty one, a check
  box with "on".
- *Addresses.* Only ".." is removed, though `URI.cpp:365` speaks of "." too. A
  query or fragment behind a server without a slash becomes part of its name. A
  link to a fragment drops the query. Ports are read with base 0.
- *Settings.* An empty value swallows the next setting; quotes, ";" and "%" in
  values are read as the file's or the page's own; a checkbox cannot turn a
  setting off; an interrupted save leaves what the template says.
- *Archives.* A file that cannot be opened is passed over without an error.
  Pressing Unzip again inside an extraction resets `m_index`, so that the outer
  one takes the wrong boxes. Leaving the page leaves pointers to its boxes.
- *Text and links.* A touch on the last character of a wrapped line is taken for
  one on the first; the first character of a link directly behind another leads
  to the other. A link with a `<br>` or a control in it loses what is before.
- *Layout.* Only the last distance is kept when two scrolls fall into one frame.
  A place reached with keys only is not kept, so a rendering goes back. A page
  of exactly one screen divides by zero in `internalLinkPos`.
- *Interface.* A stopped update leaves its updater attached, and the next page is
  taken for the ini or the zip. An address that is entered from the bookmarks
  leaves their toolbar on. Of a bookmark that is edited into three lines nothing
  is kept. A name given after a download has ended is used for the next page.
- *Icons.* SELECT in a frame with A draws a toolbar that is not visible. The
  spinner stays when its toolbar is hidden. A new sprite is enabled, though
  `Sprite.h` says disabled.

## 8. Not modelled, and why

`Stylus`'s timing and the lists of listeners that change while they are told
(planned, section 6). The decoding of images and `ImageComponent`'s ownership of
them: computation on local data by libraries, and memory that leaks. Screens,
keys, sound, the SDL versions of the hardware layer, the drawing of glyphs and
the progress bar: I/O and pixels without state that anything depends on.
`Language`, `Version`, `DateUtils`, `SearchEntry` and the table of entities: tables
and formats; the models take their results as constants. `handleBinaryData`,
which guesses the type of data without headers. Third-party libraries
(mbedtls, zlib, libplum, unzip, fonts) and the build tools: not this program;
sockets, the wifi library, zlib and the card appear as much as the code uses
them.
