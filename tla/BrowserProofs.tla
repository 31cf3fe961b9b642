---------------------------- MODULE BrowserProofs ----------------------------
(***************************************************************************)
(* What Browser says of nested calls, for any pages and images, any number *)
(* of redirects and any depth of calls.  The state that all calls share is *)
(* related to the stack of the calls: IInv says which of them the client   *)
(* works for, and what the others can be doing meanwhile.                  *)
(***************************************************************************)
EXTENDS Browser, FiniteSetTheorems, SequenceTheorems, TLAPS

HistOK == /\ history \in Seq(Addresses) /\ pos \in 0..Len(history)
          /\ pos = 0 <=> history = <<>>

FlagOK == /\ historyEnabled \in BOOLEAN /\ checkingQueue \in BOOLEAN
          /\ stop \in BOOLEAN
          /\ redirected \in 0..MaxRedirects /\ ops \in 0..MaxOps

DocOK == /\ queue \in Seq(Items)
         /\ status \in Statuses /\ mime \in {"html", "image"}
         /\ parsed \subseteq Addresses \cup Items \cup {ErrorPage}

ClientOK == client \in [uri : HttpPages \cup Items,
                        phase : {"off", "busy", "page", "error"},
                        by : 0..MaxDepth]

\* A call shows a local page, or fetches an image, only of such an address.
FrameOK(f) == /\ f \in Frames
              /\ f.at = "local" => f.uri \in LocalPages
              /\ f.item => f.uri \in Items

StackOK == /\ stack \in Seq(Frames) /\ Depth <= MaxDepth
           /\ \A j \in 1..Depth : FrameOK(stack[j])

\* Until there is a page nothing has happened.
BaseInv == history = <<>> =>
             stack = <<>> /\ historyEnabled /\ status = "NOTHING"

\* A call that is not on its way to fetch anything.
Settled == {"local", "again", "queue"}

\* Of calls s, the one that reset client c last is the innermost that fetches.
\* If it fetches an image the client does, too; and as long as it may add its
\* page to the document, of content `page', no page of the network is there.
OwnerOK(s, c, page) ==
  /\ \A j \in c.by + 1..Len(s) : s[j].at \in Settled
  /\ c.by \in 1..Len(s) =>
       /\ s[c.by].item => c.uri \in Items
       /\ ~s[c.by].item /\ \/ s[c.by].at \in {"load", "headers", "copy"}
                           \/ s[c.by].at = "loop" /\ c.phase = "busy"
            => page \cap HttpPages = {}
       /\ s[c.by].at = "error" => c.phase = "error"

OwnerInv == OwnerOK(stack, client, parsed)

IInv == /\ HistOK /\ FlagOK /\ DocOK /\ ClientOK /\ StackOK
        /\ BaseInv /\ SettledWhenIdle /\ OwnerInv

----------------------------------------------------------------------------
(* The stack                                                               *)

\* A call begins.
LEMMA Pushed ==
  ASSUME NEW s \in Seq(Frames), NEW f \in Frames
  PROVE  /\ Append(s, f) \in Seq(Frames)
         /\ Len(Append(s, f)) = Len(s) + 1 /\ Len(s) \in Nat
         /\ \A j \in 1..Len(s) : Append(s, f)[j] = s[j]
         /\ Append(s, f)[Len(s) + 1] = f
         /\ Append(s, f) # <<>>
OBVIOUS

\* The top call ends.
LEMMA Popped ==
  ASSUME stack \in Seq(Frames), stack # <<>>
  PROVE  /\ Outer \in Seq(Frames) /\ Depth \in Nat \ {0}
         /\ Len(Outer) = Depth - 1
         /\ \A j \in 1..Depth - 1 : Outer[j] = stack[j]
BY DEF Outer, Depth

\* A call is put in the place of the top one.
LEMMA Replaced ==
  ASSUME stack \in Seq(Frames), stack # <<>>, NEW f \in Frames
  PROVE  /\ Append(Outer, f) \in Seq(Frames)
         /\ Len(Append(Outer, f)) = Depth /\ Depth \in Nat \ {0}
         /\ \A j \in 1..Depth - 1 : Append(Outer, f)[j] = stack[j]
         /\ Append(Outer, f)[Depth] = f
         /\ Append(Outer, f) # <<>>
BY Popped, Pushed

LEMMA TopIsFrame ==
  ASSUME StackOK, stack # <<>>
  PROVE  Top \in Frames /\ FrameOK(Top) /\ Depth \in 1..MaxDepth
BY DEF StackOK, Top, Depth

\* A call that goes on keeps its kind and its address.
LEMMA GoesTo ==
  ASSUME StackOK, stack # <<>>,
         NEW place \in {"load", "headers", "copy", "body", "fed", "loop",
                        "answer", "error", "again", "queue"}
  PROVE  /\ FrameOK([Top EXCEPT !.at = place])
         /\ [Top EXCEPT !.at = place].at = place
         /\ [Top EXCEPT !.at = place].item = Top.item
BY TopIsFrame DEF FrameOK, Frames

LEMMA ReplacedStackOK ==
  ASSUME StackOK, stack # <<>>, NEW f, FrameOK(f), stack' = Append(Outer, f)
  PROVE  StackOK' /\ stack' # <<>>
<1>1. f \in Frames BY DEF FrameOK
<1>2. \A j \in 1..Depth : FrameOK(stack'[j])
  BY <1>1, Replaced DEF StackOK
<1>3. stack' \in Seq(Frames) /\ Len(stack') = Depth /\ stack' # <<>>
  BY <1>1, Replaced DEF StackOK
<1> QED BY <1>2, <1>3 DEF StackOK, Depth, FrameOK, Frames

LEMMA PushedStackOK ==
  ASSUME StackOK, Depth < MaxDepth, NEW f, FrameOK(f),
         stack' = Append(stack, f)
  PROVE  StackOK' /\ stack' # <<>>
<1>1. f \in Frames BY DEF FrameOK
<1>2. /\ stack' \in Seq(Frames) /\ Len(stack') = Depth + 1 /\ Depth \in Nat
      /\ stack' # <<>>
  BY <1>1, Pushed DEF StackOK, Depth
<1>3. \A j \in 1..Depth + 1 : FrameOK(stack'[j])
  BY <1>1, <1>2, Pushed DEF StackOK, Depth
<1> QED BY <1>2, <1>3, BoundsAssumption DEF StackOK, Depth, FrameOK, Frames

LEMMA PoppedStackOK ==
  ASSUME StackOK, stack # <<>>, stack' = Outer
  PROVE  StackOK'
<1>1. /\ stack' \in Seq(Frames) /\ Len(stack') = Depth - 1 /\ Depth \in Nat
  BY Popped DEF StackOK
<1>2. \A j \in 1..Depth - 1 : FrameOK(stack'[j])
  BY Popped DEF StackOK
<1> QED BY <1>1, <1>2, BoundsAssumption DEF StackOK, Depth, FrameOK, Frames

----------------------------------------------------------------------------
(* Which call the client works for                                         *)

\* A call that begins with a local page leaves the client to its owner.
LEMMA OwnerOfPushedLocal ==
  ASSUME NEW s \in Seq(Frames), NEW c, NEW page, OwnerOK(s, c, page),
         c.by \in Nat,
         NEW f \in Frames, ~f.item, f.at \in {"local", "again"},
         NEW page2, page2 \cap HttpPages = {}
  PROVE  OwnerOK(Append(s, f), c, page2)
<1>1. \A j \in c.by + 1..Len(s) + 1 : Append(s, f)[j].at \in Settled
  BY Pushed DEF OwnerOK, Settled
<1>2. CASE c.by = Len(s) + 1
  BY <1>1, <1>2, Pushed DEF OwnerOK
<1>3. CASE c.by \in 1..Len(s)
  <2>1. Append(s, f)[c.by] = s[c.by] BY <1>3, Pushed
  <2> QED BY <1>1, <1>3, <2>1, Pushed DEF OwnerOK
<1> QED BY <1>1, <1>2, <1>3, Pushed DEF OwnerOK

\* A call that begins to fetch becomes its owner.
LEMMA OwnerOfFetch ==
  ASSUME NEW s \in Seq(Frames), NEW c, c.by = Len(s) + 1, NEW page,
         NEW f \in Frames, f.at \in {"loop", "load"},
         f.item => c.uri \in Items,
         ~f.item => page \cap HttpPages = {}
  PROVE  OwnerOK(Append(s, f), c, page)
BY Pushed DEF OwnerOK

\* The top call goes on, on its own if the client works for another.
LEMMA OwnerOfReplaced ==
  ASSUME stack \in Seq(Frames), stack # <<>>, OwnerInv, client.by \in Nat,
         NEW f \in Frames, NEW c, c.by = client.by, NEW page,
         client.by < Depth =>
           /\ f.at \in Settled /\ c = client
           /\ page \cap HttpPages \subseteq parsed,
         client.by = Depth =>
           /\ f.item => c.uri \in Items
           /\ ~f.item /\ \/ f.at \in {"load", "headers", "copy"}
                         \/ f.at = "loop" /\ c.phase = "busy"
                => page \cap HttpPages = {}
           /\ f.at = "error" => c.phase = "error"
  PROVE  OwnerOK(Append(Outer, f), c, page)
<1> DEFINE s == Append(Outer, f)
<1>0. /\ Len(s) = Depth /\ Depth \in Nat \ {0} /\ s[Depth] = f
      /\ \A j \in 1..Depth - 1 : s[j] = stack[j]
  BY Replaced
<1> SUFFICES OwnerOK(s, c, page)
  OBVIOUS
<1> HIDE DEF s
<1>1. \A j \in c.by + 1..Depth : s[j].at \in Settled
  BY <1>0 DEF OwnerInv, OwnerOK, Depth
<1>2. CASE c.by = Depth
  BY <1>0, <1>1, <1>2 DEF OwnerOK
<1>3. CASE c.by < Depth
  <2>1. c.by > 0 => s[c.by] = stack[c.by] BY <1>0, <1>3
  <2> QED BY <1>0, <1>1, <1>3, <2>1 DEF OwnerInv, OwnerOK, Depth
<1>4. CASE c.by > Depth
  BY <1>0, <1>4 DEF OwnerOK
<1> QED BY <1>0, <1>2, <1>3, <1>4

\* A call ends.
LEMMA OwnerOfPopped ==
  ASSUME stack \in Seq(Frames), stack # <<>>, OwnerInv, client.by \in Nat
  PROVE  OwnerOK(Outer, client, parsed)
<1>1. /\ Len(Outer) = Depth - 1 /\ Depth \in Nat \ {0}
      /\ \A j \in 1..Depth - 1 : Outer[j] = stack[j]
  BY Popped
<1>2. client.by \in 1..Depth - 1 => Outer[client.by] = stack[client.by]
  BY <1>1
<1> QED BY <1>1, <1>2 DEF OwnerInv, OwnerOK, Depth

\* A call on its way to fetch, or fetching, does so with the client it reset,
\* or with that of a call nested in it that has ended since.
LEMMA TopOwns ==
  ASSUME StackOK, stack # <<>>, OwnerInv, client.by \in Nat,
         Top.at \notin Settled
  PROVE  client.by >= Depth
BY DEF OwnerInv, OwnerOK, StackOK, Top, Depth

----------------------------------------------------------------------------
(* The history                                                             *)

LEMMA UriIsAddress ==
  ASSUME HistOK, history # <<>>
  PROVE  pos \in 1..Len(history) /\ Uri \in Addresses /\ Len(history) \in Nat
BY DEF HistOK, Uri

\* A visit, and nothing else, makes the line of addresses longer or shorter.
LEMMA SetUriKeeps ==
  ASSUME HistOK, BaseInv, NEW u \in Addresses, SetUri(u)
  PROVE  /\ HistOK' /\ history' # <<>>
         /\ Abstract!Visit(u) \/ UNCHANGED histVars
<1>1. CASE historyEnabled /\ (history = <<>> \/ u # Uri)
  <2> DEFINE kept == SubSeq(history, 1, pos)
  <2>1. /\ history' = Append(kept, u) /\ pos' = pos + 1
        /\ pos \in 0..Len(history) /\ Len(history) \in Nat
    BY <1>1 DEF SetUri, HistOK
  <2>2. kept \in Seq(Addresses) /\ Len(kept) = pos
    BY <2>1, SubSeqProperties, ElementOfSeq DEF HistOK
  <2>3. history' \in Seq(Addresses) /\ Len(history') = pos + 1
    BY <2>1, <2>2
  <2>4. Abstract!Visit(u)
    BY <1>1, <2>1 DEF Abstract!Visit, Uri
  <2> QED BY <2>1, <2>3, <2>4 DEF HistOK
<1>2. CASE ~(historyEnabled /\ (history = <<>> \/ u # Uri))
  BY <1>2 DEF SetUri, HistOK, BaseInv, histVars
<1> QED BY <1>1, <1>2

LEMMA GotoKeeps ==
  ASSUME HistOK, NEW p \in 1..Len(history), Goto(p)
  PROVE  /\ HistOK' /\ history' # <<>> /\ history[pos'] \in Addresses
         /\ history' = history /\ pos' \in {p, pos}
BY DEF HistOK, Goto

LEMMA RedirectKeeps ==
  ASSUME HistOK, history # <<>>, NEW s, HeadersRedirect(s)
  PROVE  /\ HistOK' /\ history' # <<>>
         /\ s \in {"INPROGRESS", "REDIRECTED"}
         /\ (\E r \in Addresses : Abstract!Replace(r)) \/ UNCHANGED histVars
<1>1. CASE UNCHANGED histVars
  BY <1>1 DEF HistOK, histVars, HeadersRedirect
<1>2. CASE \E r \in HttpPages : /\ history' = [history EXCEPT ![pos] = r]
                                /\ UNCHANGED pos
  <2>1. PICK r \in HttpPages : /\ history' = [history EXCEPT ![pos] = r]
                               /\ UNCHANGED pos
    BY <1>2
  <2>2. r \in Addresses /\ pos \in 1..Len(history)
    BY UriIsAddress DEF Addresses
  <2>3. history' \in Seq(Addresses) /\ Len(history') = Len(history)
    BY <2>1, <2>2, ExceptSeq DEF HistOK
  <2>4. Abstract!Replace(r)
    BY <2>1, <2>2 DEF Abstract!Replace, HistOK
  <2>5. HistOK' /\ history' # <<>>
    BY <2>1, <2>2, <2>3 DEF HistOK
  <2> QED BY <2>2, <2>4, <2>5 DEF HeadersRedirect
<1> QED BY <1>1, <1>2 DEF HeadersRedirect, histVars

----------------------------------------------------------------------------
(* The document                                                            *)

LEMMA ImagesAreItems ==
  ASSUME NEW page, NEW m
  PROVE  ImagesOf(page, m) \in Seq(Items)
BY PagesAssumption DEF ImagesOf

LEMMA LoadedKeeps ==
  ASSUME NEW page, page \subseteq Addresses \cup Items \cup {ErrorPage},
         NEW m \in {"html", "image"}, NEW q \in Seq(Items), Loaded(page, m, q)
  PROVE  DocOK'
BY ImagesAreItems, ConcatProperties DEF Loaded, DocOK, Statuses

LEMMA FinishFetchKeeps ==
  ASSUME DocOK, FlagOK, FinishFetch(status, parsed, mime)
  PROVE  DocOK' /\ redirected' \in 0..MaxRedirects /\ parsed' \in {{}, parsed}
<1>1. CASE status = "REDIRECTED" /\ historyEnabled /\ redirected < MaxRedirects
  BY <1>1, BoundsAssumption DEF FinishFetch, DocOK, FlagOK, Statuses
<1>2. CASE ~(status = "REDIRECTED" /\ historyEnabled /\ redirected < MaxRedirects)
  <2>1. redirected' \in 0..MaxRedirects
    BY <1>2, BoundsAssumption DEF FinishFetch
  <2>2. CASE checkingQueue
    BY <1>2, <2>1, <2>2 DEF FinishFetch, DocOK, Statuses
  <2>3. CASE ~checkingQueue
    <3>1. Loaded(parsed, mime, queue) BY <1>2, <2>3 DEF FinishFetch
    <3> QED BY <2>1, <3>1, LoadedKeeps DEF DocOK, Loaded
  <2> QED BY <2>2, <2>3
<1> QED BY <1>1, <1>2

\* A document with pages of the network out of {u} alone is not mixed.
LEMMA NotMixed ==
  ASSUME NEW page, NEW u, page \cap HttpPages \subseteq {u}
  PROVE  ~Mixed(page)
<1>1. page \cap HttpPages = {} \/ page \cap HttpPages = {u}
  OBVIOUS
<1>2. CASE page \cap HttpPages = {}
  BY <1>2, FS_EmptySet DEF Mixed
<1>3. CASE page \cap HttpPages = {u}
  <2>1. Cardinality({u}) = 1 BY FS_Singleton
  <2> QED BY <1>3, <2>1 DEF Mixed
<1> QED BY <1>1, <1>2, <1>3

LEMMA NotMixedLocally ==
  ASSUME NEW page, page \cap HttpPages = {}
  PROVE  ~Mixed(page)
BY FS_EmptySet DEF Mixed

----------------------------------------------------------------------------
(* handleUri, on top of the calls `below'                                  *)

\* What is known of a fetch that begins.
LEMMA FetchHttpKeeps ==
  ASSUME NEW u \in HttpPages \cup Items, NEW call \in {"doUri", "move"},
         NEW item \in BOOLEAN, item => u \in Items,
         NEW below \in Seq(Frames), Len(below) < MaxDepth,
         NEW s, NEW page, ~item => page \cap HttpPages = {},
         FetchHttp(u, call, item, below, s, page)
  PROVE  /\ ClientOK' /\ stop' = FALSE
         /\ status' \in {"NOTHING", s} /\ parsed' \in {{}, page}
         /\ UNCHANGED <<mime, redirected>>
         /\ \E f : FrameOK(f) /\ stack' = Append(below, f)
         /\ OwnerInv'
<1>1. PICK at \in {"loop", "load"} :
        stack' = Append(below, [call |-> call, item |-> item, uri |-> u,
                                at |-> at])
  BY DEF FetchHttp
<1> DEFINE f == [call |-> call, item |-> item, uri |-> u, at |-> at]
<1>2. f \in Frames /\ FrameOK(f) BY DEF FrameOK, Frames
<1>3. /\ client' = [uri |-> u, phase |-> "busy", by |-> Len(below) + 1]
      /\ status' \in {"NOTHING", s} /\ parsed' \in {{}, page}
      /\ stop' = FALSE /\ UNCHANGED <<mime, redirected>>
  BY DEF FetchHttp
<1>4. ClientOK'
  BY <1>3, BoundsAssumption, LenProperties DEF ClientOK
<1>5. ~item => parsed' \cap HttpPages = {} BY <1>3
<1>6. OwnerOK(Append(below, f), client', parsed')
  BY <1>2, <1>3, <1>5, OwnerOfFetch
<1>7. OwnerInv' BY <1>1, <1>6 DEF OwnerInv
<1> QED BY <1>1, <1>2, <1>3, <1>4, <1>7

LEMMA ShowLocalKeeps ==
  ASSUME DocOK, ClientOK,
         NEW u \in LocalPages, NEW call \in {"doUri", "move"},
         NEW below \in Seq(Frames), OwnerOK(below, client, parsed),
         NEW q \in Seq(Items), ShowLocal(u, call, below, q)
  PROVE  /\ DocOK' /\ UNCHANGED <<client, redirected>>
         /\ parsed' = {u}
         /\ \E f : FrameOK(f) /\ stack' = Append(below, f)
         /\ OwnerInv'
<1>1. u \in Addresses BY DEF Addresses
<1>2. /\ parsed' = {u} /\ DocOK'
  <2>1. CASE historyEnabled
    BY <1>1, <2>1, LoadedKeeps DEF ShowLocal, Loaded
  <2>2. CASE ~historyEnabled
    BY <1>1, <2>2 DEF ShowLocal, DocOK, Statuses
  <2> QED BY <2>1, <2>2
<1> DEFINE f == [call |-> call, item |-> FALSE, uri |-> u,
                 at |-> IF historyEnabled THEN "again" ELSE "local"]
<1>3. f \in Frames /\ FrameOK(f) /\ ~f.item /\ f.at \in {"local", "again"}
  BY DEF FrameOK, Frames
<1>4. stack' = Append(below, f) /\ UNCHANGED <<client, redirected>>
  BY DEF ShowLocal
<1>5. parsed' \cap HttpPages = {} BY <1>2, PagesAssumption
<1>6. client.by \in Nat BY BoundsAssumption DEF ClientOK
<1> HIDE DEF f
<1>7. OwnerOK(Append(below, f), client, parsed')
  BY <1>3, <1>5, <1>6, OwnerOfPushedLocal
<1>8. OwnerInv' BY <1>4, <1>7 DEF OwnerInv
<1> QED BY <1>2, <1>3, <1>4, <1>8

LEMMA HandleUriKeeps ==
  ASSUME DocOK, ClientOK, FlagOK,
         NEW u \in Addresses, NEW call \in {"doUri", "move"},
         NEW below \in Seq(Frames), Len(below) < MaxDepth,
         OwnerOK(below, client, parsed),
         NEW q \in Seq(Items), NEW stopped \in BOOLEAN,
         HandleUri(u, call, below, q, stopped)
  PROVE  /\ DocOK' /\ ClientOK'
         /\ stop' \in BOOLEAN /\ redirected' \in 0..MaxRedirects
         /\ \E f : FrameOK(f) /\ stack' = Append(below, f)
         /\ OwnerInv'
         /\ ~Mixed(parsed')
<1>1. CASE u \in HttpPages
  <2>1. FetchHttp(u, call, FALSE, below, "NOTHING", {}) /\ queue' = q
    BY <1>1, PagesAssumption DEF HandleUri
  <2>2. /\ ClientOK' /\ stop' = FALSE
        /\ status' = "NOTHING" /\ parsed' = {}
        /\ UNCHANGED <<mime, redirected>>
        /\ \E f : FrameOK(f) /\ stack' = Append(below, f)
        /\ OwnerInv'
    BY <1>1, <2>1, FetchHttpKeeps
  <2>3. DocOK' BY <2>1, <2>2 DEF DocOK, Statuses
  <2>4. ~Mixed(parsed') BY <2>2, NotMixedLocally
  <2> QED BY <2>2, <2>3, <2>4 DEF FlagOK
<1>2. CASE u \in LocalPages
  <2>1. ShowLocal(u, call, below, q) /\ stop' = stopped
    BY <1>2, PagesAssumption DEF HandleUri
  <2>2. /\ DocOK' /\ UNCHANGED <<client, redirected>>
        /\ parsed' = {u}
        /\ \E f : FrameOK(f) /\ stack' = Append(below, f)
        /\ OwnerInv'
    BY <1>2, <2>1, ShowLocalKeeps
  <2>3. ~Mixed(parsed') BY <2>2, NotMixed
  <2> QED BY <2>1, <2>2, <2>3 DEF FlagOK, ClientOK
<1> QED BY <1>1, <1>2 DEF Addresses

----------------------------------------------------------------------------
(* Every step keeps the invariant, follows the history's abstraction, and  *)
(* mixes pages only in a call that has been overtaken                      *)

HistoryStep == [Abstract!Next]_histVars

MixStep == Mixed(parsed') => Mixed(parsed) \/ Overtaken

Good == IInv' /\ HistoryStep /\ MixStep

\* What calls find when they go on.
LEMMA InACall ==
  ASSUME IInv, stack # <<>>
  PROVE  /\ history # <<>> /\ HistOK /\ FlagOK /\ DocOK /\ ClientOK /\ StackOK
         /\ OwnerInv /\ client.by \in Nat /\ stack \in Seq(Frames)
         /\ Depth \in Nat /\ FrameOK(Top)
         /\ Top.at \notin Settled => client.by >= Depth
<1>1. client.by \in Nat /\ Depth \in Nat
  BY BoundsAssumption, LenProperties DEF IInv, ClientOK, StackOK, Depth
<1> QED BY <1>1, TopIsFrame, TopOwns DEF IInv, BaseInv, StackOK

\* The step of a call that goes on as f.
LEMMA Continues ==
  ASSUME IInv, stack # <<>>, NEW f, FrameOK(f), stack' = Append(Outer, f),
         HistOK', history' # <<>>, FlagOK', DocOK', ClientOK',
         client'.by = client.by,
         client.by < Depth =>
           /\ f.at \in Settled /\ client' = client
           /\ parsed' \cap HttpPages \subseteq parsed,
         client.by = Depth =>
           /\ f.item => client'.uri \in Items
           /\ ~f.item /\ \/ f.at \in {"load", "headers", "copy"}
                         \/ f.at = "loop" /\ client'.phase = "busy"
                => parsed' \cap HttpPages = {}
           /\ f.at = "error" => client'.phase = "error"
  PROVE  IInv'
<1>1. StackOK' /\ stack' # <<>>
  BY ReplacedStackOK DEF IInv
<1>2. f \in Frames BY DEF FrameOK
<1>3. OwnerOK(Append(Outer, f), client', parsed')
  BY <1>2, OwnerOfReplaced, InACall
<1>4. OwnerInv' BY <1>3 DEF OwnerInv
<1> QED BY <1>1, <1>4 DEF IInv, BaseInv, SettledWhenIdle

\* A call that stays where it is.
LEMMA TopAgain ==
  ASSUME StackOK, stack # <<>>
  PROVE  Append(Outer, Top) = stack
<1>1. /\ Append(Outer, Top) \in Seq(Frames)
      /\ Len(Append(Outer, Top)) = Depth
      /\ \A j \in 1..Depth - 1 : Append(Outer, Top)[j] = stack[j]
      /\ Append(Outer, Top)[Depth] = stack[Depth] /\ Depth \in Nat \ {0}
  BY TopIsFrame, Replaced DEF StackOK, Top
<1>2. \A j \in 1..Depth : Append(Outer, Top)[j] = stack[j]
  BY <1>1
<1> HIDE DEF Outer, Top
<1> QED BY <1>1, <1>2, SeqEqual DEF StackOK, Depth

\* A call begins, or begins anew, with handleUri on top of `below'.
LEMMA Handles ==
  ASSUME IInv, HistOK', history' # <<>>,
         UNCHANGED <<historyEnabled, checkingQueue>>, ops' \in 0..MaxOps,
         NEW u \in Addresses, NEW call \in {"doUri", "move"},
         NEW below \in Seq(Frames), Len(below) < MaxDepth,
         OwnerOK(below, client, parsed),
         \A f : FrameOK(f) /\ stack' = Append(below, f)
                  => StackOK' /\ stack' # <<>>,
         NEW q \in Seq(Items), NEW stopped \in BOOLEAN,
         HandleUri(u, call, below, q, stopped)
  PROVE  IInv' /\ MixStep
<1>2. /\ DocOK' /\ ClientOK'
      /\ stop' \in BOOLEAN /\ redirected' \in 0..MaxRedirects
      /\ \E f : FrameOK(f) /\ stack' = Append(below, f)
      /\ OwnerInv'
      /\ ~Mixed(parsed')
  BY HandleUriKeeps DEF IInv
<1>4. StackOK' /\ stack' # <<>>
  BY <1>2
<1>5. FlagOK' BY <1>2 DEF FlagOK, IInv
<1> QED BY <1>2, <1>4, <1>5 DEF IInv, BaseInv, SettledWhenIdle, MixStep

\* It begins inside the calls in progress.
LEMMA HandlesInside ==
  ASSUME IInv, HistOK', history' # <<>>, Depth < MaxDepth,
         UNCHANGED <<historyEnabled, checkingQueue>>, ops' \in 0..MaxOps,
         NEW u \in Addresses, NEW call \in {"doUri", "move"},
         NEW q \in Seq(Items), NEW stopped \in BOOLEAN,
         HandleUri(u, call, stack, q, stopped)
  PROVE  IInv' /\ MixStep
<1>1. PICK below : below = stack OBVIOUS
<1>2. /\ below \in Seq(Frames) /\ Len(below) < MaxDepth
      /\ OwnerOK(below, client, parsed)
  BY <1>1 DEF IInv, StackOK, OwnerInv, Depth
<1>3. \A f : FrameOK(f) /\ stack' = Append(below, f)
               => StackOK' /\ stack' # <<>>
  BY <1>1, PushedStackOK DEF IInv
<1>4. HandleUri(u, call, below, q, stopped)
  BY <1>1
<1> QED BY <1>2, <1>3, <1>4, Handles

\* It begins anew.
LEMMA HandlesAgain ==
  ASSUME IInv, HistOK', history' # <<>>, stack # <<>>,
         UNCHANGED <<historyEnabled, checkingQueue>>, ops' \in 0..MaxOps,
         NEW u \in Addresses, NEW call \in {"doUri", "move"},
         NEW q \in Seq(Items), NEW stopped \in BOOLEAN,
         HandleUri(u, call, Outer, q, stopped)
  PROVE  IInv' /\ MixStep
<1>1. PICK below : below = Outer OBVIOUS
<1>2. Depth \in Nat \ {0} /\ Depth <= MaxDepth /\ Len(Outer) = Depth - 1
      /\ Outer \in Seq(Frames)
  BY Popped DEF IInv, StackOK
<1>3. /\ below \in Seq(Frames) /\ Len(below) < MaxDepth
      /\ OwnerOK(below, client, parsed)
  BY <1>1, <1>2, OwnerOfPopped, InACall, BoundsAssumption
<1>4. \A f : FrameOK(f) /\ stack' = Append(below, f)
               => StackOK' /\ stack' # <<>>
  BY <1>1, ReplacedStackOK DEF IInv
<1>5. HandleUri(u, call, below, q, stopped)
  BY <1>1
<1> QED BY <1>3, <1>4, <1>5, Handles

----------------------------------------------------------------------------
(* The user                                                                *)

LEMMA DoUriGood ==
  ASSUME IInv, NEW u \in Addresses, DoUri(u)
  PROVE  Good
<1>1. HistOK' /\ history' # <<>> /\ (Abstract!Visit(u) \/ UNCHANGED histVars)
  BY SetUriKeeps DEF DoUri, IInv
<1> DEFINE v == IF status = "REDIRECTED" THEN history'[pos'] ELSE u
<1>2. v \in Addresses BY <1>1 DEF HistOK
<1>3. /\ HandleUri(v, "doUri", stack, queue, stop) /\ Depth < MaxDepth
      /\ UNCHANGED <<historyEnabled, checkingQueue>> /\ ops' \in 0..MaxOps
  BY BoundsAssumption DEF DoUri, UserActs, IInv, FlagOK
<1> HIDE DEF v
<1>4. queue \in Seq(Items) /\ stop \in BOOLEAN
  BY DEF IInv, DocOK, FlagOK
<1>5. IInv' /\ MixStep
  BY <1>1, <1>2, <1>3, <1>4, HandlesInside
<1> QED BY <1>1, <1>5 DEF Good, HistoryStep, Abstract!Next

LEMMA MoveGood ==
  ASSUME IInv, NEW p \in 1..Len(history), Move(p),
         p = pos + 1 \/ (p = pos - 1 /\ pos > 1)
  PROVE  Good
<1>1. /\ HistOK' /\ history' # <<>> /\ history[pos'] \in Addresses
      /\ history' = history /\ pos' \in {p, pos}
  BY GotoKeeps DEF Move, IInv
<1>2. StoppedQueue \in Seq(Items) /\ queue \in Seq(Items)
  BY DEF StoppedQueue, IInv, DocOK
<1>3. PICK q \in Seq(Items), stopped \in BOOLEAN :
        HandleUri(history[pos'], "move", stack, q, stopped)
  <2>1. stop \in BOOLEAN BY DEF IInv, FlagOK
  <2> QED BY <1>2, <2>1 DEF Move
<1>4. /\ Depth < MaxDepth
      /\ UNCHANGED <<historyEnabled, checkingQueue>> /\ ops' \in 0..MaxOps
  BY BoundsAssumption DEF Move, UserActs, IInv, FlagOK
<1>5. IInv' /\ MixStep
  BY <1>1, <1>3, <1>4, HandlesInside
<1>6. HistoryStep
  BY <1>1 DEF HistoryStep, Abstract!Next, Abstract!Back, Abstract!Forward,
              histVars, IInv, HistOK
<1> QED BY <1>5, <1>6 DEF Good

LEMMA StopLoadingGood ==
  ASSUME IInv, StopLoading
  PROVE  Good
<1>1. FlagOK' /\ DocOK'
  BY BoundsAssumption DEF StopLoading, UserActs, StoppedQueue, IInv, FlagOK,
                          DocOK, docVars
<1>2. /\ UNCHANGED <<history, pos, historyEnabled, status, parsed, client, stack>>
      /\ status # "LOADED_PAGE"
  BY DEF StopLoading, histVars, docVars
<1>3. HistOK' /\ ClientOK' /\ StackOK' /\ BaseInv' /\ OwnerInv'
  BY <1>2 DEF IInv, HistOK, ClientOK, StackOK, Depth, BaseInv, OwnerInv
<1>4. SettledWhenIdle'
  BY <1>2 DEF SettledWhenIdle, IInv
<1> QED BY <1>1, <1>2, <1>3, <1>4
        DEF Good, IInv, HistoryStep, MixStep, histVars

LEMMA UserGood ==
  ASSUME IInv, User
  PROVE  Good
<1>1. CASE \E u \in Addresses : DoUri(u)
  BY <1>1, DoUriGood
<1>2. CASE Previous
  <2>1. pos > 1 /\ pos - 1 \in 1..Len(history) /\ Move(pos - 1)
    BY <1>2 DEF Previous, HasPrevious, IInv, HistOK
  <2> QED BY <2>1, MoveGood
<1>3. CASE Forward
  <2>1. pos + 1 \in 1..Len(history) /\ Move(pos + 1)
    BY <1>3 DEF Forward, HasNext, IInv, HistOK
  <2> QED BY <2>1, MoveGood
<1>4. CASE StopLoading
  BY <1>4, StopLoadingGood
<1>5. CASE Reload
  <2>1. Uri \in Addresses /\ DoUri(Uri)
    BY <1>5, UriIsAddress DEF Reload, IInv
  <2> QED BY <2>1, DoUriGood
<1> QED BY <1>1, <1>2, <1>3, <1>4, <1>5 DEF User

----------------------------------------------------------------------------
(* The calls in progress                                                   *)

\* A step that leaves the history alone.
LEMMA HistoryUnchanged ==
  ASSUME HistOK, history # <<>>, UNCHANGED histVars
  PROVE  HistOK' /\ history' # <<>> /\ HistoryStep
BY DEF HistOK, histVars, HistoryStep

\* One that redirects, or not.
LEMMA HistoryRedirected ==
  ASSUME HistOK, history # <<>>, NEW s, HeadersRedirect(s)
  PROVE  /\ HistOK' /\ history' # <<>> /\ HistoryStep
         /\ s \in {"INPROGRESS", "REDIRECTED"}
BY RedirectKeeps DEF HistoryStep, Abstract!Next

\* A step that adds no page of the network.
LEMMA NothingAdded ==
  ASSUME parsed' \cap HttpPages \in {{}, parsed \cap HttpPages}
  PROVE  MixStep
BY NotMixedLocally DEF MixStep, Mixed

\* What the call that the client works for, on top, can rely on.
LEMMA TopOwner ==
  ASSUME IInv, stack # <<>>, client.by = Depth
  PROVE  /\ Top.item => client.uri \in Items
         /\ ~Top.item /\ \/ Top.at \in {"load", "headers", "copy"}
                         \/ Top.at = "loop" /\ client.phase = "busy"
              => parsed \cap HttpPages = {}
         /\ Top.at = "error" => client.phase = "error"
BY InACall, TopIsFrame DEF IInv, OwnerInv, OwnerOK, Top, Depth

\* What is parsed in a call that is its client's is one page at most.
LEMMA ParseAddsOne ==
  ASSUME NEW u, NEW page, NEW m, Parse(u, page, m),
         u \notin HttpPages \/ parsed \cap HttpPages = {}
  PROVE  page \cap HttpPages = parsed \cap HttpPages \/ ~Mixed(page)
<1>1. page \cap HttpPages \subseteq {u} \cup (parsed \cap HttpPages)
  BY DEF Parse
<1>2. CASE u \notin HttpPages
  BY <1>2 DEF Parse
<1>3. CASE parsed \cap HttpPages = {}
  BY <1>1, <1>3, NotMixed
<1> QED BY <1>2, <1>3

\* The top call moves to another place, and others do not notice.
LEMMA TopMoves ==
  ASSUME IInv, stack # <<>>,
         NEW place \in {"headers", "copy", "body", "fed", "loop", "answer",
                        "error", "again", "queue"},
         stack' = GoTo(place),
         HistOK', history' # <<>>, FlagOK', DocOK', ClientOK',
         client'.by = client.by, client'.uri = client.uri,
         place \in Settled \/ Top.at \notin Settled,
         place \in Settled => /\ client' = client
                              /\ parsed' \cap HttpPages \subseteq parsed,
         client.by = Depth =>
           /\ ~Top.item /\ \/ place \in {"headers", "copy"}
                           \/ place = "loop" /\ client'.phase = "busy"
                => parsed' \cap HttpPages = {}
           /\ place = "error" => client'.phase = "error"
  PROVE  IInv'
<1> DEFINE f == [Top EXCEPT !.at = place]
<1>1. FrameOK(f) /\ f.at = place /\ f.item = Top.item
  BY GoesTo, InACall
<1>2. stack' = Append(Outer, f) BY DEF GoTo
<1>3. client.by < Depth => place \in Settled
  BY InACall
<1> HIDE DEF f
<1> QED BY <1>1, <1>2, <1>3, TopOwner, Continues

\* The top call, in fetchHttp's loop, stays there.
LEMMA TopStays ==
  ASSUME IInv, stack # <<>>, Top.at = "loop", UNCHANGED stack,
         HistOK', history' # <<>>, FlagOK', DocOK', ClientOK',
         client'.by = client.by, client'.uri = client.uri,
         client'.phase # "busy"
  PROVE  IInv'
<1>1. stack' = Append(Outer, Top) /\ FrameOK(Top)
  BY TopAgain, InACall
<1>2. client.by >= Depth /\ client.by \in Nat /\ Depth \in Nat
  BY InACall DEF Settled
<1> QED BY <1>1, <1>2, TopOwner, Continues

LEMMA ClientGetsPageGood ==
  ASSUME IInv, ClientGetsPage
  PROVE  Good
<1>1. /\ stack # <<>> /\ Top.at = "loop" /\ client.phase = "busy"
      /\ UNCHANGED <<flagVars, stop, redirected, ops>>
      /\ Parse(client.uri, parsed', mime')
  BY DEF ClientGetsPage, Waiting, At
<1>2. HistOK' /\ history' # <<>> /\ HistoryStep /\ status' \in Statuses
  BY <1>1, InACall, HistoryRedirected DEF ClientGetsPage, Statuses
<1>3. FlagOK' /\ DocOK'
  BY <1>1, <1>2, InACall DEF flagVars, FlagOK, DocOK, ClientOK, Parse, Addresses
<1>4. MixStep
  <2>1. CASE client.by # Depth
    BY <2>1 DEF MixStep, Overtaken
  <2>2. CASE client.by = Depth
    <3>1. client.uri \notin HttpPages \/ parsed \cap HttpPages = {}
      BY <1>1, <2>2, TopOwner, PagesAssumption DEF Addresses
    <3> QED BY <1>1, <3>1, ParseAddsOne, NothingAdded DEF MixStep
  <2> QED BY <2>1, <2>2
<1>5. CASE client' = [client EXCEPT !.phase = "page"] /\ UNCHANGED stack
  <2>1. ClientOK' /\ client'.by = client.by /\ client'.uri = client.uri
        /\ client'.phase = "page"
    BY <1>1, <1>5, InACall DEF ClientOK
  <2> QED BY <1>1, <1>2, <1>3, <1>4, <1>5, <2>1, TopStays DEF Good
<1>6. CASE stack' = GoTo("answer") /\ UNCHANGED client
  <2>1. ClientOK' BY <1>1, <1>6, InACall DEF ClientOK
  <2> QED BY <1>1, <1>2, <1>3, <1>4, <1>6, <2>1, TopMoves DEF Good, Settled
<1> QED BY <1>5, <1>6 DEF ClientGetsPage

LEMMA AnswerEndsGood ==
  ASSUME IInv, AnswerEnds
  PROVE  Good
<1>1. /\ stack # <<>> /\ Top.at = "answer"
      /\ client' = [client EXCEPT !.phase = "page"] /\ stack' = GoTo("loop")
      /\ UNCHANGED <<histVars, docVars, flagVars, stop, redirected, ops>>
  BY DEF AnswerEnds, At
<1>2. HistOK' /\ history' # <<>> /\ HistoryStep
  BY <1>1, InACall, HistoryUnchanged
<1>3. FlagOK' /\ DocOK' /\ MixStep
  BY <1>1, InACall DEF docVars, flagVars, FlagOK, DocOK, MixStep
<1>4. ClientOK' /\ client'.by = client.by /\ client'.uri = client.uri
      /\ client'.phase = "page"
  BY <1>1, InACall DEF ClientOK
<1> QED BY <1>1, <1>2, <1>3, <1>4, TopMoves DEF Good, Settled

LEMMA ClientTimesOutGood ==
  ASSUME IInv, ClientTimesOut
  PROVE  Good
<1>1. /\ stack # <<>> /\ Top.at = "loop"
      /\ client' = [client EXCEPT !.phase = "page"]
      /\ status' \in {status, "INPROGRESS"}
      /\ UNCHANGED <<histVars, parsed, mime, flagVars, stop, redirected, stack,
                     ops>>
  BY DEF ClientTimesOut, Waiting, At
<1>2. HistOK' /\ history' # <<>> /\ HistoryStep
  BY <1>1, InACall, HistoryUnchanged
<1>3. FlagOK' /\ DocOK' /\ MixStep
  BY <1>1, InACall DEF flagVars, FlagOK, DocOK, Statuses, MixStep
<1>4. ClientOK' /\ client'.by = client.by /\ client'.uri = client.uri
      /\ client'.phase = "page"
  BY <1>1, InACall DEF ClientOK
<1> QED BY <1>1, <1>2, <1>3, <1>4, TopStays DEF Good

LEMMA ClientFailsGood ==
  ASSUME IInv, ClientFails
  PROVE  Good
<1>1. /\ stack # <<>> /\ Top.at = "loop"
      /\ client' = [client EXCEPT !.phase = "error"]
      /\ UNCHANGED <<histVars, historyEnabled, checkingQueue, stop, redirected,
                     ops>>
  BY DEF ClientFails, Waiting, At
<1>2. HistOK' /\ history' # <<>> /\ HistoryStep
  BY <1>1, InACall, HistoryUnchanged
<1>3. parsed' = {ErrorPage} /\ DocOK'
  <2>1. queue \in Seq(Items) BY <1>1, InACall DEF DocOK
  <2>2. CASE historyEnabled
    <3>1. Loaded({ErrorPage}, "html", queue) BY <2>2 DEF ClientFails
    <3> QED BY <2>1, <3>1, LoadedKeeps DEF Loaded
  <2>3. CASE ~historyEnabled
    BY <2>1, <2>3 DEF ClientFails, DocOK, Statuses
  <2> QED BY <2>2, <2>3
<1>4. FlagOK' BY <1>1, InACall DEF FlagOK
<1>5. MixStep BY <1>3, NotMixed DEF MixStep
<1>6. ClientOK' /\ client'.by = client.by /\ client'.uri = client.uri
      /\ client'.phase = "error"
  BY <1>1, InACall DEF ClientOK
<1>7. CASE UNCHANGED stack
  BY <1>1, <1>2, <1>3, <1>4, <1>5, <1>6, <1>7, TopStays DEF Good
<1>8. CASE stack' = GoTo("error")
  BY <1>1, <1>2, <1>3, <1>4, <1>5, <1>6, <1>8, TopMoves DEF Good, Settled
<1> QED BY <1>7, <1>8 DEF ClientFails

LEMMA ErrorEndsGood ==
  ASSUME IInv, ErrorEnds
  PROVE  Good
<1>1. /\ stack # <<>> /\ Top.at = "error" /\ stack' = GoTo("loop")
      /\ Loaded(parsed, mime, queue)
      /\ UNCHANGED <<histVars, historyEnabled, checkingQueue, client, stop,
                     redirected, ops>>
  BY DEF ErrorEnds, At
<1>2. HistOK' /\ history' # <<>> /\ HistoryStep
  BY <1>1, InACall, HistoryUnchanged
<1>3. DocOK' /\ MixStep
  BY <1>1, InACall, LoadedKeeps DEF DocOK, Loaded, MixStep
<1>4. FlagOK' /\ ClientOK' BY <1>1, InACall DEF FlagOK, ClientOK
<1>5. client.by = Depth => client'.phase = "error"
  BY <1>1, TopOwner
<1> QED BY <1>1, <1>2, <1>3, <1>4, <1>5, TopMoves DEF Good, Settled

\* The end of a fetch, with the document finished or not.
LEMMA FetchEnds ==
  ASSUME IInv, stack # <<>>, stack' = GoTo(AfterFetch),
         \/ FinishFetch(status, parsed, mime)
         \/ UNCHANGED <<docVars, queue, redirected>>,
         UNCHANGED <<histVars, historyEnabled, checkingQueue, client, stop, ops>>
  PROVE  Good
<1>1. HistOK' /\ history' # <<>> /\ HistoryStep
  BY InACall, HistoryUnchanged
<1>2. /\ DocOK' /\ redirected' \in 0..MaxRedirects
      /\ parsed' \in {{}, parsed}
  BY InACall, FinishFetchKeeps DEF DocOK, FlagOK, docVars
<1>3. FlagOK' /\ ClientOK' BY <1>2, InACall DEF FlagOK, ClientOK
<1>4. MixStep BY <1>2, NothingAdded
<1>5. PICK place \in {"again", "queue"} : stack' = GoTo(place)
  BY DEF AfterFetch
<1>6. IInv'
  BY <1>1, <1>2, <1>3, <1>5, TopMoves DEF Settled
<1> QED BY <1>1, <1>4, <1>6 DEF Good

LEMMA CopyHasHeadersGood ==
  ASSUME IInv, CopyHasHeaders
  PROVE  Good
<1>1. /\ stack # <<>> /\ Top.at = "load"
      /\ stop' \in {stop, TRUE}
      /\ UNCHANGED <<parsed, mime, flagVars, client, redirected, ops>>
  BY DEF CopyHasHeaders, At
<1>2. HistOK' /\ history' # <<>> /\ HistoryStep /\ status' \in Statuses
  BY <1>1, InACall, HistoryRedirected DEF CopyHasHeaders, Statuses
<1>3. FlagOK' /\ DocOK' /\ ClientOK' /\ MixStep
  BY <1>1, <1>2, InACall DEF flagVars, FlagOK, DocOK, ClientOK, MixStep
<1>4. PICK place \in {"headers", "copy"} : stack' = GoTo(place)
  BY DEF CopyHasHeaders
<1>5. client.by = Depth => (~Top.item => parsed' \cap HttpPages = {})
  BY <1>1, TopOwner
<1>6. IInv'
  BY <1>1, <1>2, <1>3, <1>4, <1>5, TopMoves DEF Settled
<1> QED BY <1>2, <1>3, <1>6 DEF Good

LEMMA CopyIsStaleGood ==
  ASSUME IInv, CopyIsStale
  PROVE  Good
<1>1. /\ stack # <<>> /\ Top.at \in {"headers", "copy"} /\ stack' = GoTo("loop")
      /\ status' \in {status, "NOTHING"} /\ parsed' \in {{}, parsed}
      /\ UNCHANGED <<histVars, mime, flagVars, client, stop, redirected, ops>>
  BY DEF CopyIsStale, At
<1>2. HistOK' /\ history' # <<>> /\ HistoryStep
  BY <1>1, InACall, HistoryUnchanged
<1>3. FlagOK' /\ DocOK' /\ ClientOK'
  BY <1>1, InACall DEF flagVars, FlagOK, DocOK, ClientOK, Statuses
<1>4. MixStep BY <1>1, NothingAdded
<1>5. client.by = Depth => (~Top.item => parsed' \cap HttpPages = {})
  BY <1>1, TopOwner
<1>6. IInv'
  BY <1>1, <1>2, <1>3, <1>5, TopMoves DEF Settled
<1> QED BY <1>2, <1>4, <1>6 DEF Good

LEMMA CopyIsFedGood ==
  ASSUME IInv, CopyIsFed
  PROVE  Good
<1>1. /\ stack # <<>> /\ Top.at \in {"headers", "copy"}
      /\ \/ Parse(Top.uri, parsed', mime')
         \/ UNCHANGED <<parsed, mime>>
      /\ UNCHANGED <<flagVars, client, stop, redirected, ops>>
  BY DEF CopyIsFed, At
<1>2. HistOK' /\ history' # <<>> /\ HistoryStep /\ status' \in Statuses
  BY <1>1, InACall, HistoryRedirected DEF CopyIsFed, Statuses
<1>3. Top.uri \in Addresses \cup Items /\ (Top.item => Top.uri \in Items)
  BY <1>1, InACall DEF FrameOK, Frames, Addresses
<1>4. FlagOK' /\ DocOK' /\ ClientOK'
  BY <1>1, <1>2, <1>3, InACall DEF flagVars, FlagOK, DocOK, ClientOK, Parse
<1>5. MixStep
  <2>1. CASE client.by # Depth
    BY <2>1 DEF MixStep, Overtaken
  <2>2. CASE client.by = Depth
    <3>1. Top.uri \notin HttpPages \/ parsed \cap HttpPages = {}
      BY <1>1, <1>3, <2>2, TopOwner, PagesAssumption DEF Addresses
    <3> QED BY <1>1, <3>1, ParseAddsOne, NothingAdded DEF MixStep
  <2> QED BY <2>1, <2>2
<1>6. PICK place \in {"body", "fed"} : stack' = GoTo(place)
  BY DEF CopyIsFed
<1>7. IInv'
  BY <1>1, <1>2, <1>4, <1>6, TopMoves DEF Settled
<1> QED BY <1>2, <1>5, <1>7 DEF Good

LEMMA LocalEndsGood ==
  ASSUME IInv, LocalEnds
  PROVE  Good
<1>1. /\ stack # <<>> /\ Top.at = "local" /\ stack' = GoTo("again")
      /\ UNCHANGED <<histVars, historyEnabled, checkingQueue, client, stop,
                     redirected, ops>>
  BY DEF LocalEnds, At
<1>2. HistOK' /\ history' # <<>> /\ HistoryStep
  BY <1>1, InACall, HistoryUnchanged
<1>3. PICK page \in {parsed, parsed \cup {Top.uri}} : Loaded(page, "html", queue)
  BY DEF LocalEnds
<1>4. Top.uri \in LocalPages BY <1>1, InACall DEF FrameOK
<1>5. DocOK' /\ parsed' = page
  <2>1. queue \in Seq(Items) BY <1>1, InACall DEF DocOK
  <2>2. page \subseteq Addresses \cup Items \cup {ErrorPage}
    BY <1>1, <1>3, <1>4, InACall DEF DocOK, Addresses
  <2> QED BY <1>3, <2>1, <2>2, LoadedKeeps DEF Loaded
<1>6. parsed' \cap HttpPages = parsed \cap HttpPages
  BY <1>3, <1>4, <1>5, PagesAssumption
<1>7. FlagOK' /\ ClientOK' BY <1>1, InACall DEF FlagOK, ClientOK
<1>8. IInv'
  BY <1>1, <1>2, <1>5, <1>6, <1>7, TopMoves DEF Settled
<1> QED BY <1>2, <1>6, <1>8, NothingAdded DEF Good

LEMMA FollowRedirectGood ==
  ASSUME IInv, FollowRedirect
  PROVE  Good
<1>1. /\ stack # <<>>
      /\ HandleUri(Uri, "doUri", Outer, queue, stop)
      /\ UNCHANGED <<histVars, historyEnabled, checkingQueue, ops>>
  BY DEF FollowRedirect, At
<1>2. HistOK' /\ history' # <<>> /\ HistoryStep /\ Uri \in Addresses
  BY <1>1, InACall, HistoryUnchanged, UriIsAddress
<1>3. queue \in Seq(Items) /\ stop \in BOOLEAN /\ ops' \in 0..MaxOps
  BY <1>1, InACall DEF DocOK, FlagOK
<1>4. IInv' /\ MixStep
  BY <1>1, <1>2, <1>3, HandlesAgain
<1> QED BY <1>2, <1>4 DEF Good

LEMMA BeginQueueGood ==
  ASSUME IInv, BeginQueue
  PROVE  Good
<1>1. /\ stack # <<>> /\ Top.at = "again" /\ stack' = GoTo("queue")
      /\ historyEnabled' = FALSE /\ checkingQueue' = TRUE
      /\ UNCHANGED <<histVars, docVars, queue, client, stop, redirected, ops>>
  BY DEF BeginQueue, At
<1>2. HistOK' /\ history' # <<>> /\ HistoryStep
  BY <1>1, InACall, HistoryUnchanged
<1>3. FlagOK' /\ DocOK' /\ ClientOK' /\ MixStep
  BY <1>1, InACall DEF docVars, FlagOK, DocOK, ClientOK, MixStep
<1>4. IInv'
  BY <1>1, <1>2, <1>3, TopMoves DEF Settled, docVars
<1> QED BY <1>2, <1>3, <1>4 DEF Good

LEMMA FetchItemGood ==
  ASSUME IInv, FetchItem
  PROVE  Good
<1>1. /\ stack # <<>> /\ queue # <<>>
      /\ queue' = Tail(queue)
      /\ FetchHttp(Head(queue), Top.call, TRUE, Outer, status, parsed)
      /\ UNCHANGED <<histVars, historyEnabled, checkingQueue, ops>>
  BY DEF FetchItem, At
<1>2. HistOK' /\ history' # <<>> /\ HistoryStep
  BY <1>1, InACall, HistoryUnchanged
<1>3. Head(queue) \in Items /\ queue' \in Seq(Items)
  BY <1>1, InACall, HeadTailProperties DEF DocOK
<1>4. Outer \in Seq(Frames) /\ Len(Outer) < MaxDepth
  <2>1. Depth \in Nat \ {0} /\ Depth <= MaxDepth /\ Len(Outer) = Depth - 1
        /\ Outer \in Seq(Frames)
    BY <1>1, Popped DEF IInv, StackOK
  <2> QED BY <2>1, BoundsAssumption
<1>5. PICK u \in Items, call \in {"doUri", "move"}, below \in Seq(Frames) :
        /\ below = Outer
        /\ FetchHttp(u, call, TRUE, below, status, parsed)
  BY <1>1, <1>3, <1>4, InACall DEF FrameOK, Frames
<1>6. /\ ClientOK' /\ stop' = FALSE
      /\ status' \in {"NOTHING", status} /\ parsed' \in {{}, parsed}
      /\ UNCHANGED <<mime, redirected>>
      /\ \E f : FrameOK(f) /\ stack' = Append(Outer, f)
      /\ OwnerInv'
  BY <1>4, <1>5, FetchHttpKeeps
<1>7. StackOK' /\ stack' # <<>>
  BY <1>1, <1>6, ReplacedStackOK DEF IInv
<1>8. FlagOK' /\ DocOK'
  BY <1>1, <1>3, <1>6, InACall DEF FlagOK, DocOK, Statuses
<1>9. IInv'
  BY <1>2, <1>6, <1>7, <1>8 DEF IInv, BaseInv, SettledWhenIdle
<1> QED BY <1>2, <1>6, <1>9, NothingAdded DEF Good

LEMMA EndQueueGood ==
  ASSUME IInv, EndQueue
  PROVE  Good
<1>1. /\ stack # <<>> /\ queue = <<>> /\ stack' = Outer
      /\ historyEnabled' = TRUE /\ checkingQueue' = FALSE
      /\ status' = "LOADED_PAGE"
      /\ UNCHANGED <<histVars, parsed, mime, queue, client, stop, redirected,
                     ops>>
  BY DEF EndQueue, At
<1>2. HistOK' /\ history' # <<>> /\ HistoryStep
  BY <1>1, InACall, HistoryUnchanged
<1>3. FlagOK' /\ DocOK' /\ ClientOK' /\ MixStep
  BY <1>1, InACall DEF FlagOK, DocOK, ClientOK, Statuses, MixStep
<1>4. StackOK' BY <1>1, InACall, PoppedStackOK
<1>5. OwnerInv' BY <1>1, InACall, OwnerOfPopped DEF OwnerInv
<1>6. BaseInv' /\ SettledWhenIdle'
  BY <1>1, <1>2 DEF BaseInv, SettledWhenIdle
<1> QED BY <1>2, <1>3, <1>4, <1>5, <1>6 DEF Good, IInv

LEMMA ProgramGood ==
  ASSUME IInv, Program
  PROVE  Good
<1>1. CASE LoopEnds
  <2>1. /\ stack # <<>> /\ stack' = GoTo(AfterFetch)
        /\ \/ FinishFetch(status, parsed, mime)
           \/ UNCHANGED <<docVars, queue, redirected>>
        /\ UNCHANGED <<histVars, historyEnabled, checkingQueue, client, stop, ops>>
    BY <1>1 DEF LoopEnds, At
  <2> QED BY <2>1, FetchEnds
<1>2. CASE LoopStops
  <2>1. /\ stack # <<>> /\ stack' = GoTo(AfterFetch)
        /\ UNCHANGED <<docVars, queue, redirected>>
        /\ UNCHANGED <<histVars, historyEnabled, checkingQueue, client, stop, ops>>
    BY <1>2 DEF LoopStops, At, flagVars
  <2> QED BY <2>1, FetchEnds
<1>3. CASE CopyEnds
  BY <1>3, FetchEnds DEF CopyEnds, At
<1> QED
  BY <1>1, <1>2, <1>3, ClientGetsPageGood, AnswerEndsGood, ClientTimesOutGood,
     ClientFailsGood, ErrorEndsGood, CopyHasHeadersGood, CopyIsStaleGood,
     CopyIsFedGood, LocalEndsGood, FollowRedirectGood, BeginQueueGood,
     FetchItemGood, EndQueueGood
     DEF Program

LEMMA NextGood ==
  ASSUME IInv, [Next]_vars
  PROVE  Good
<1>1. CASE Next
  BY <1>1, UserGood, ProgramGood DEF Next
<1>2. CASE UNCHANGED vars
  <2>1. UNCHANGED <<history, pos, historyEnabled, status, parsed, mime, client,
                    stop, redirected, queue, checkingQueue, stack, ops>>
    BY <1>2 DEF vars, histVars, docVars, flagVars
  <2>2. HistOK' /\ FlagOK' /\ DocOK' /\ ClientOK' /\ StackOK'
    BY <2>1 DEF IInv, HistOK, FlagOK, DocOK, ClientOK, StackOK, Depth
  <2>3. BaseInv' /\ SettledWhenIdle' /\ OwnerInv'
    BY <2>1 DEF IInv, BaseInv, SettledWhenIdle, OwnerInv
  <2> QED BY <2>1, <2>2, <2>3 DEF Good, IInv, HistoryStep, MixStep, histVars
<1> QED BY <1>1, <1>2

----------------------------------------------------------------------------
(* The theorems                                                            *)

LEMMA InitIInv == Init => IInv
<1> SUFFICES ASSUME Init PROVE IInv
  OBVIOUS
<1>1. HistOK /\ DocOK
  BY DEF Init, HistOK, DocOK, Statuses
<1>2. FlagOK
  <2>1. historyEnabled \in BOOLEAN /\ checkingQueue \in BOOLEAN
        /\ stop \in BOOLEAN
    BY DEF Init
  <2>2. redirected \in 0..MaxRedirects /\ ops \in 0..MaxOps
    BY BoundsAssumption DEF Init
  <2> QED BY <2>1, <2>2 DEF FlagOK
<1>3. ClientOK
  BY PagesAssumption, BoundsAssumption DEF Init, ClientOK
<1>4. StackOK /\ OwnerInv
  BY BoundsAssumption DEF Init, StackOK, Depth, OwnerInv, OwnerOK
<1>5. BaseInv /\ SettledWhenIdle
  BY DEF Init, BaseInv, SettledWhenIdle
<1> QED BY <1>1, <1>2, <1>3, <1>4, <1>5 DEF IInv

THEOREM InvariantHolds == Spec => []IInv
<1>1. IInv /\ [Next]_vars => IInv'
  BY NextGood DEF Good
<1> QED BY <1>1, InitIInv, PTL DEF Spec

\* Every variable keeps to its type, in any nesting of calls.
THEOREM TypeCorrect == Spec => []TypeInvariant
<1>1. IInv => TypeInvariant
  BY DEF IInv, HistOK, FlagOK, DocOK, ClientOK, StackOK, TypeInvariant
<1> QED BY <1>1, InvariantHolds, PTL

\* When the last call returns, what checkDownloadQueue borrowed is given back
\* and its queue is empty, whatever the user did while it loaded.
THEOREM SettlesWhenIdle == Spec => []SettledWhenIdle
<1>1. IInv => SettledWhenIdle
  BY DEF IInv
<1> QED BY <1>1, InvariantHolds, PTL

\* What was still to come for one page is added to another only by a call
\* that a nested one has overtaken: its own fetch never adds it.
THEOREM MixingNeedsOvertaking == Spec => PagesMixOnlyWhenOvertaken
<1>1. IInv /\ [Next]_vars
        => [Mixed(parsed') => Mixed(parsed) \/ Overtaken]_vars
  BY NextGood DEF Good, MixStep
<1> QED BY <1>1, InvariantHolds, PTL DEF Spec, PagesMixOnlyWhenOvertaken

\* Controller and Document keep the history that BrowsingHistory promises:
\* each step of theirs is one visit, one step back or forward, one redirect
\* of the current entry, or nothing at all to it.
THEOREM HistoryImplemented == Spec => ImplementsHistory
<1>1. Init => Abstract!Init
  BY DEF Init, Abstract!Init
<1>2. IInv /\ [Next]_vars => [Abstract!Next]_(Abstract!history)
  BY NextGood DEF Good, HistoryStep, Abstract!history, histVars
<1> QED
  BY <1>1, <1>2, InvariantHolds, PTL DEF Spec, ImplementsHistory, Abstract!Spec
=============================================================================
