--------------------------- MODULE InterfaceProofs ---------------------------
(***************************************************************************)
(* The user of Interface is never stuck, for any number of sites and       *)
(* bookmarks and however many handlers run in one touch.  Only the steps   *)
(* at the end of View::tick take a view out of a state that waits for the  *)
(* keyboard, one state each: between them the view may wait in the states  *)
(* whose step is still to come.                                            *)
(*                                                                         *)
(* The settings leave nothing in the history.  A handler leaves it alone,  *)
(* adds an address to it, or ends the settings: what it is made of, the    *)
(* addresses up to the position and those behind it, tells what is left.   *)
(* No link may wait in the settings, or the one that is followed when they *)
(* end would be another than the page under them.                          *)
(*                                                                         *)
(* The icons of Toolbars are seen as they have to be.  Each operation on a *)
(* toolbar is described by what it gives first, then by what it keeps of   *)
(* what is right of each toolbar.                                          *)
(***************************************************************************)
EXTENDS Interface, Toolbars, SequenceTheorems, TLAPS

Fields == {"state", "toolbar", "bar", "keyboard", "popup", "chosen", "history", "position",
           "enabled", "updater", "asked", "shown", "href", "loading", "form"}

\* A state in which only one of waiting may wait for a keyboard that is closed.
Usable(s, waiting) ==
  /\ DOMAIN s = Fields
  /\ s.keyboard = "none" => s.state \in waiting \/ (s.state \notin Entering /\ s.bar)
  /\ s.loading => s.state \notin {"ENTER_URL", "EDIT_BOOKMARK"}

\* Between two touches nothing is still to come.
IInv == Usable(ui, {})

----------------------------------------------------------------------------
(* The handlers                                                            *)

LEMMA SetUriUsable ==
  ASSUME NEW s, NEW w, Usable(s, w), NEW address
  PROVE  Usable(SetUri(s, address), w)
  BY DEF Usable, SetUri, Fields

LEMMA SetToolbarUsable ==
  ASSUME NEW s, NEW w, Usable(s, w), NEW toolbar
  PROVE  Usable(SetToolbar(s, toolbar), w) /\ SetToolbar(s, toolbar).bar
  BY DEF Usable, SetToolbar, Fields

LEMMA ClearConfigHistoryUsable ==
  ASSUME NEW s, NEW w, Usable(s, w)
  PROVE  Usable(ClearConfigHistory(s), w)
  BY DEF Usable, ClearConfigHistory, Forget, Fields

LEMMA QueueUsable ==
  ASSUME NEW s, NEW w, Usable(s, w)
  PROVE  Usable(Queue(s), w)
  BY DEF Usable, Queue, Fields

\* The state becomes BROWSE with its toolbar.
LEMMA EndBookmarkUsable ==
  ASSUME NEW s, NEW w, Usable(s, w)
  PROVE  Usable(EndBookmark(s), w)
<1> DEFINE t == ClearConfigHistory(s)
<1> DEFINE u == SetToolbar(t, "browse")
<1>1. Usable(t, w)
  BY ClearConfigHistoryUsable
<1>2. Usable(u, w) /\ u.bar
  BY <1>1, SetToolbarUsable
<1>3. EndBookmark(s) =
        [u EXCEPT !.href    = IF @ = Nothing THEN Uri(t) ELSE @,
                  !.enabled = TRUE, !.state = "BROWSE", !.updater = "none", !.asked = FALSE]
  BY DEF EndBookmark, Browse
<1> HIDE DEF t, u
<1> QED BY <1>2, <1>3 DEF Usable, Fields, Entering

LEMMA AskUpdateUsable ==
  ASSUME NEW s, NEW w, Usable(s, w), NEW ok
  PROVE  Usable(AskUpdate(s, ok), w)
  BY DEF Usable, AskUpdate, Fields

LEMMA GetZipUsable ==
  ASSUME NEW s, NEW w, Usable(s, w), NEW found
  PROVE  Usable(GetZip(s, found), w)
<1> DEFINE t == [s EXCEPT !.updater = "GOT_ZIP", !.enabled = TRUE]
<1>1. Usable(t, w)
  BY DEF Usable, Fields
<1>2. \A u : Usable([s EXCEPT !.updater = u], w)
  BY DEF Usable, Fields
<1>3. GetZip(s, found) \in {[s EXCEPT !.updater = "CANCELLED"], t,
                            AskUpdate(t, found = "zip"), [s EXCEPT !.updater = "INI_FAIL"]}
  BY DEF GetZip
<1> QED BY <1>1, <1>2, <1>3, AskUpdateUsable

LEMMA ShowUsable ==
  ASSUME NEW s, NEW w, Usable(s, w), NEW page, NEW found
  PROVE  Usable(Show(s, page, found), w)
<1> DEFINE t == [s EXCEPT !.shown = "updater"]
<1>1. Usable(t, w) /\ Usable([s EXCEPT !.shown = page], w)
  BY DEF Usable, Fields
<1>2. Show(s, page, found) \in {[s EXCEPT !.shown = page], GetZip(t, found),
                                AskUpdate(t, found = "zip"), EndBookmark(t), t}
  BY DEF Show
<1> QED BY <1>1, <1>2, GetZipUsable, AskUpdateUsable, EndBookmarkUsable

LEMMA LoadedHtmlUsable ==
  ASSUME NEW s, NEW w, Usable(s, w), NEW page, NEW found
  PROVE  Usable(LoadedHtml(s, page, found), w)
<1>1. Usable([s EXCEPT !.popup = "none", !.chosen = 0], w)
  BY DEF Usable, Fields
<1> QED BY <1>1, ShowUsable DEF LoadedHtml

\* A download that asks for its name opens the keyboard for it.
LEMMA AsksForName ==
  ASSUME NEW s, NEW w, Usable(s, w)
  PROVE  Usable([SaveAs(s, "SAVE_DOWNLOADING") EXCEPT !.loading = TRUE, !.popup = "none"], w)
  BY DEF Usable, SaveAs, Fields, Entering

LEMMA FetchUsable ==
  ASSUME NEW s, NEW w, Usable(s, w), NEW address, NEW found
  PROVE  Usable(Fetch(s, address, found), w)
<1>1. Usable([s EXCEPT !.popup = "none", !.chosen = 0], w)
  BY DEF Usable, Fields
<1>2. \/ Fetch(s, address, found) = Queue([s EXCEPT !.popup = "none", !.chosen = 0])
      \/ Fetch(s, address, found) = Queue(LoadedHtml(s, address, found))
      \/ Fetch(s, address, found) =
           [SaveAs(s, "SAVE_DOWNLOADING") EXCEPT !.loading = TRUE, !.popup = "none"]
  <2> DEFINE a == found = "stopped" /\ address \in Sites \cup {"download"}
  <2> DEFINE b == address = "download" /\ found # "error"
  <2>1. CASE a
    BY <2>1 DEF Fetch
  <2>2. CASE ~a /\ b
    BY <2>2 DEF Fetch
  <2>3. CASE ~a /\ ~b
    BY <2>3 DEF Fetch
  <2> QED BY <2>1, <2>2, <2>3
<1>3. /\ Usable(Queue([s EXCEPT !.popup = "none", !.chosen = 0]), w)
      /\ Usable(Queue(LoadedHtml(s, address, found)), w)
  BY Zenon, <1>1, QueueUsable, LoadedHtmlUsable
<1>4. Usable([SaveAs(s, "SAVE_DOWNLOADING") EXCEPT !.loading = TRUE, !.popup = "none"], w)
  BY Zenon, AsksForName
<1> QED BY Zenon, <1>2, <1>3, <1>4

LEMMA CheckUpdatesUsable ==
  ASSUME NEW s, NEW w, Usable(s, w), NEW found
  PROVE  Usable(CheckUpdates(s, found), w)
<1> DEFINE t == [s EXCEPT !.updater = "GOT_INI", !.enabled = FALSE]
<1>1. Usable(t, w)
  BY DEF Usable, Fields
<1>2. CheckUpdates(s, found) \in {s, Queue(t), Queue(LoadedHtml(t, "ini", found))}
  BY DEF CheckUpdates
<1> QED BY <1>1, <1>2, QueueUsable, LoadedHtmlUsable

LEMMA HandleUriUsable ==
  ASSUME NEW s, NEW w, Usable(s, w), NEW address, NEW found
  PROVE  Usable(HandleUri(s, address, found), w)
<1>1. HandleUri(s, address, found) \in
        {Queue(EndBookmark(s)), Queue(CheckUpdates(s, found)), Fetch(s, address, found)}
  BY DEF HandleUri
<1> QED BY <1>1, QueueUsable, EndBookmarkUsable, CheckUpdatesUsable, FetchUsable

LEMMA DoUriUsable ==
  ASSUME NEW s, NEW w, Usable(s, w), NEW address, NEW found
  PROVE  Usable(DoUri(s, address, found), w)
  BY SetUriUsable, HandleUriUsable DEF DoUri

LEMMA ShowBookmarkPageUsable ==
  ASSUME NEW s, NEW w, Usable(s, w), NEW found
  PROVE  Usable(ShowBookmarkPage(s, found), w)
<1>1. Usable([s EXCEPT !.enabled = FALSE], w)
  BY DEF Usable, Fields
<1> QED BY <1>1, DoUriUsable DEF ShowBookmarkPage

\* Whatever the state was: it becomes BOOKMARK, with that toolbar.
LEMMA BookmarkUrlUsable ==
  ASSUME NEW s, NEW w, Usable(s, w), NEW found, NEW v
  PROVE  Usable(BookmarkUrl(s, found), v)
<1> DEFINE t == [SetToolbar(s, "bookmark") EXCEPT !.state = "BOOKMARK"]
<1>1. Usable(t, v)
  BY SetToolbarUsable DEF Usable, SetToolbar, Fields, Entering
<1> HIDE DEF t
<1>2. Usable(ShowBookmarkPage(t, found), v)
  BY <1>1, ShowBookmarkPageUsable
<1> QED BY <1>2 DEF BookmarkUrl, t

LEMMA PreferencesUsable ==
  ASSUME NEW s, NEW w, Usable(s, w), NEW found
  PROVE  Usable(Preferences(s, found), w)
  BY SetToolbarUsable, DoUriUsable DEF Preferences

LEMMA MoveUsable ==
  ASSUME NEW s, NEW w, Usable(s, w), NEW by, NEW found
  PROVE  Usable(Move(s, by, found), w)
<1> DEFINE t == [s EXCEPT !.position = IF s.enabled THEN @ + by ELSE @]
<1>1. Usable(t, w)
  BY DEF Usable, Fields
<1>2. Move(s, by, found) \in {HandleUri(t, Uri(t), found), s}
  BY DEF Move
<1> QED BY <1>1, <1>2, HandleUriUsable

LEMMA AddCookieUsable ==
  ASSUME NEW s, NEW w, Usable(s, w)
  PROVE  Usable(AddCookie(s), w)
<1> DEFINE c == ClearConfigHistory(s)
<1>1. Usable(c, w)
  BY ClearConfigHistoryUsable
<1> HIDE DEF c
<1> DEFINE t == [c EXCEPT !.enabled = FALSE]
<1>2. Usable(t, w) /\ Usable([t EXCEPT !.shown = "cookie"], w)
  BY <1>1 DEF Usable, Fields
<1>3. AddCookie(s) \in {t, [t EXCEPT !.shown = "cookie"]}
  BY DEF AddCookie, c
<1> QED BY <1>2, <1>3

----------------------------------------------------------------------------
(* The end of View::tick: after each step one state less may wait          *)

LEMMA EnterStepUsable ==
  ASSUME NEW s, Usable(s, Entering), NEW input, NEW found
  PROVE  Usable(EnterStep(s, input, found), Entering \ {"ENTER_URL"})
<1>1. CASE ~Answered(s, "ENTER_URL")
  BY <1>1 DEF EnterStep, Answered, Usable
<1>2. CASE Answered(s, "ENTER_URL")
  <2> DEFINE t == [s EXCEPT !.bar = TRUE, !.state = "BROWSE"]
  <2>1. Usable(t, Entering \ {"ENTER_URL"})
    BY DEF Usable, Fields, Entering
  <2>2. EnterStep(s, input, found) \in {t, DoUri(t, input, found)}
    BY <1>2 DEF EnterStep
  <2> QED BY <2>1, <2>2, DoUriUsable
<1> QED BY <1>1, <1>2

LEMMA EditStepUsable ==
  ASSUME NEW s, Usable(s, Entering \ {"ENTER_URL"}), NEW found
  PROVE  Usable(EditStep(s, found), {"SAVE_CURRENT_FILE", "SAVE_DOWNLOADING"})
<1>1. CASE ~Answered(s, "EDIT_BOOKMARK")
  BY <1>1 DEF EditStep, Answered, Usable, Entering
<1>2. CASE Answered(s, "EDIT_BOOKMARK")
  <2> DEFINE t == [s EXCEPT !.bar = TRUE]
  <2>1. Usable(t, Entering \ {"ENTER_URL"})
    BY DEF Usable, Fields
  <2>2. EditStep(s, found) = BookmarkUrl(t, found)
    BY <1>2 DEF EditStep
  <2> QED BY <2>1, <2>2, BookmarkUrlUsable
<1> QED BY <1>1, <1>2

LEMMA SaveStepUsable ==
  ASSUME NEW s, Usable(s, {"SAVE_CURRENT_FILE", "SAVE_DOWNLOADING"})
  PROVE  /\ Usable(SaveStep(s), {})
         /\ SaveStep(s).state \in {s.state, "BROWSE"}
  BY DEF SaveStep, DoSaveAs, Answered, Usable, Fields, Entering

LEMMA LinkStepUsable ==
  ASSUME NEW s, Usable(s, {}), NEW found
  PROVE  Usable(LinkStep(s, found), {})
<1> DEFINE t == IF s.state = "BOOKMARK" THEN EndBookmark(s) ELSE s
<1>1. Usable(t, {})
  BY EndBookmarkUsable
<1> HIDE DEF t
<1>2. Usable([t EXCEPT !.href = Nothing], {})
  BY <1>1 DEF Usable, Fields
<1>3. LinkStep(s, found) \in {s, t, DoUri([t EXCEPT !.href = Nothing], s.href, found)}
  BY DEF LinkStep, t
<1> QED BY <1>1, <1>2, <1>3, DoUriUsable

LEMMA FormStepUsable ==
  ASSUME NEW s, Usable(s, {}), NEW form, NEW found
  PROVE  Usable(FormStep(s, form, found), {})
<1> DEFINE t == DoUri(s, form, found)
<1>1. Usable(t, {})
  BY DoUriUsable
<1>2. FormStep(s, form, found) \in {s, [t EXCEPT !.form = TRUE], [t EXCEPT !.state = "BROWSE"]}
  BY DEF FormStep
<1> HIDE DEF t
<1>3. Usable([t EXCEPT !.form = TRUE], {}) /\ Usable([t EXCEPT !.state = "BROWSE"], {})
  BY <1>1 DEF Usable, Fields, Entering
<1> QED BY <1>2, <1>3

LEMMA TickUsable ==
  ASSUME NEW s, Usable(s, Entering), NEW input, NEW form, NEW found
  PROVE  Usable(Tick(s, input, form, found), {})
  BY EnterStepUsable, EditStepUsable, SaveStepUsable, LinkStepUsable, FormStepUsable DEF Tick

\* A tick after a handler that leaves nothing waiting.
LEMMA TickAfter ==
  ASSUME NEW s, Usable(s, {}), NEW input, NEW form, NEW found
  PROVE  Usable(Tick(s, input, form, found), {})
<1>1. Usable(s, Entering)
  BY DEF Usable
<1> QED BY <1>1, TickUsable

----------------------------------------------------------------------------
(* The user's actions                                                      *)

\* What opens the keyboard.
LEMMA KeyboardOpens ==
  ASSUME NEW s, Usable(s, {}), ~s.loading
  PROVE  /\ Usable(EnterUrl(s), {}) /\ Usable(EditBookmark(s), {})
         /\ Usable(SaveAs(s, "SAVE_CURRENT_FILE"), {})
  BY DEF Usable, EnterUrl, EditBookmark, SaveAs, Fields, Entering

LEMMA EntrySet ==
  ASSUME NEW s, NEW w, Usable(s, w)
  PROVE  /\ \A to : Usable([s EXCEPT !.href = to], w) /\ Usable([s EXCEPT !.popup = to], w)
         /\ \A to, p : Usable([s EXCEPT !.href = to, !.popup = p], w)
         /\ \A to, p : Usable([s EXCEPT !.popup = to, !.chosen = p], w)
         /\ \A to, p : Usable([s EXCEPT !.updater = to, !.asked = p], w)
         /\ \A to : Usable([s EXCEPT !.shown = to], w)
  BY DEF Usable, Fields

\* OK and Cancel close the keyboard: the state may now wait.
LEMMA ClosedUsable ==
  ASSUME IInv
  PROVE  /\ Usable(Closed, Entering)
         /\ ui.loading => Usable(Closed, {"SAVE_CURRENT_FILE", "SAVE_DOWNLOADING"})
         /\ Closed.loading = ui.loading /\ Closed.state = ui.state
  BY DEF IInv, Usable, Closed, Fields, Entering

LEMMA KeysOK == IInv /\ Keys => IInv'
<1> SUFFICES ASSUME IInv, Keys PROVE IInv'
  OBVIOUS
<1>1. Usable(ui, {}) /\ ~ui.loading
  BY DEF IInv, Keys, Browsing
<1>2. \A found, by :
        /\ Usable(EnterUrl(ui), {})
        /\ Usable(BookmarkUrl(ui, found), {})
        /\ Usable(DoUri(Preferences(ui, found), "index", found), {})
        /\ Usable(DoUri(ui, Uri(ui), found), {})
        /\ Usable(Move(ui, by, found), {})
  BY <1>1, KeyboardOpens, BookmarkUrlUsable, PreferencesUsable, DoUriUsable, MoveUsable
<1> QED BY <1>2, TickAfter DEF Keys, Become, IInv

LEMMA ButtonsOK ==
  IInv /\ (BrowseButton \/ BookmarkButton \/ PrefsButton \/ CookieButton) => IInv'
<1> SUFFICES ASSUME IInv PROVE BrowseButton \/ BookmarkButton \/ PrefsButton \/ CookieButton => IInv'
  OBVIOUS
<1>1. \A found :
        /\ Usable(Preferences(ui, found), {}) /\ Usable(EndBookmark(ui), {})
        /\ Usable(ShowBookmarkPage(ui, found), {}) /\ Usable(AddCookie(ui), {})
  BY PreferencesUsable, EndBookmarkUsable, ShowBookmarkPageUsable, AddCookieUsable DEF IInv
<1>2. ASSUME BrowseButton PROVE IInv'
  <2>1. Usable(SaveAs(ui, "SAVE_CURRENT_FILE"), {})
    BY <1>2, KeyboardOpens DEF IInv, BrowseButton, Browsing
  <2> QED BY <1>1, <1>2, <2>1, TickAfter DEF BrowseButton, Become, IInv
<1>3. ASSUME BookmarkButton PROVE IInv'
  BY <1>1, <1>3, TickAfter DEF BookmarkButton, Become, IInv
<1>4. ASSUME PrefsButton PROVE IInv'
  <2>1. Usable(EditCookie(ui), {})
    BY EntrySet DEF IInv, EditCookie
  <2> QED BY <1>1, <1>4, <2>1, TickAfter DEF PrefsButton, Become, IInv
<1>5. ASSUME CookieButton PROVE IInv'
  BY <1>1, <1>5, TickAfter DEF CookieButton, Become, IInv
<1> QED BY <1>2, <1>3, <1>4, <1>5

LEMMA UpdaterButtonOK == IInv /\ UpdaterButton => IInv'
<1> SUFFICES ASSUME IInv, UpdaterButton PROVE IInv'
  OBVIOUS
<1>1. Usable([ui EXCEPT !.updater = "DO_UPDATE", !.asked = FALSE], {}) /\ Usable(EndBookmark(ui), {})
  BY EntrySet, EndBookmarkUsable DEF IInv
<1>2. \/ ui' = [ui EXCEPT !.updater = "DO_UPDATE", !.asked = FALSE]
      \/ \E found : ui' = Tick(EndBookmark(ui), Nothing, Nothing, found)
  BY Zenon DEF UpdaterButton, Become
<1>3. \A found : Usable(Tick(EndBookmark(ui), Nothing, Nothing, found), {})
  BY <1>1, TickAfter
<1> QED BY Zenon, <1>1, <1>2, <1>3 DEF IInv

LEMMA LinksOK == IInv /\ (ClickLink \/ LinkPopup \/ HoldLink \/ HidePopup \/ Frame) => IInv'
<1> SUFFICES ASSUME IInv, ClickLink \/ LinkPopup \/ HoldLink \/ HidePopup \/ Frame PROVE IInv'
  OBVIOUS
<1>1. \/ \E to, found : ui' = Tick([ui EXCEPT !.href = to, !.popup = "none"], Nothing, Nothing, found)
      \/ \E to, found : ui' = Tick([ui EXCEPT !.href = to], Nothing, Nothing, found)
      \/ \E to : ui' = [ui EXCEPT !.popup = to]
      \/ \E to, i : ui' = [ui EXCEPT !.popup = to, !.chosen = i]
  BY Zenon DEF ClickLink, LinkPopup, HoldLink, HidePopup, Frame, Become
<1>2. /\ \A to : Usable([ui EXCEPT !.href = to], {}) /\ Usable([ui EXCEPT !.popup = to], {})
      /\ \A to, p : Usable([ui EXCEPT !.href = to, !.popup = p], {})
      /\ \A to, p : Usable([ui EXCEPT !.popup = to, !.chosen = p], {})
  BY EntrySet DEF IInv
<1>3. \A to, found : /\ Usable(Tick([ui EXCEPT !.href = to, !.popup = "none"], Nothing, Nothing, found), {})
                     /\ Usable(Tick([ui EXCEPT !.href = to], Nothing, Nothing, found), {})
  BY Zenon, <1>2, TickAfter
<1>4. ASSUME NEW to, NEW found, ui' = Tick([ui EXCEPT !.href = to, !.popup = "none"], Nothing, Nothing, found)
      PROVE  IInv'
  BY Zenon, <1>3, <1>4 DEF IInv
<1>5. ASSUME NEW to, NEW found, ui' = Tick([ui EXCEPT !.href = to], Nothing, Nothing, found)
      PROVE  IInv'
  BY Zenon, <1>3, <1>5 DEF IInv
<1>6. ASSUME NEW to, ui' = [ui EXCEPT !.popup = to] PROVE IInv'
  BY Zenon, <1>2, <1>6 DEF IInv
<1>7. ASSUME NEW to, NEW i, ui' = [ui EXCEPT !.popup = to, !.chosen = i] PROVE IInv'
  BY Zenon, <1>2, <1>7 DEF IInv
<1> QED BY Zenon, <1>1, <1>4, <1>5, <1>6, <1>7

LEMMA EditPopupOK == IInv /\ EditPopup => IInv'
<1> SUFFICES ASSUME IInv, EditPopup PROVE IInv'
  OBVIOUS
<1>1. \/ ui' = [EditBookmark(ui) EXCEPT !.popup = "none"]
      \/ \E found : ui' = Tick(BookmarkUrl([ui EXCEPT !.popup = "none"], found), Nothing, Nothing, found)
  BY Zenon DEF EditPopup, Become
<1>2. Usable([EditBookmark(ui) EXCEPT !.popup = "none"], {})
  BY KeyboardOpens, EntrySet DEF IInv, EditPopup, Browsing
<1>3. Usable([ui EXCEPT !.popup = "none"], {})
  BY EntrySet DEF IInv
<1>4. \A found : Usable(BookmarkUrl([ui EXCEPT !.popup = "none"], found), {})
  BY Zenon, <1>3, BookmarkUrlUsable
<1>5. \A found : Usable(Tick(BookmarkUrl([ui EXCEPT !.popup = "none"], found), Nothing, Nothing, found), {})
  BY Zenon, <1>4, TickAfter
<1> QED BY Zenon, <1>1, <1>2, <1>5 DEF IInv

LEMMA FormsOK == IInv /\ (SubmitForm \/ EditField) => IInv'
<1> SUFFICES ASSUME IInv PROVE SubmitForm \/ EditField => IInv'
  OBVIOUS
<1>1. Usable([ui EXCEPT !.keyboard = "form", !.bar = FALSE], {})
  BY DEF IInv, Usable, Fields
<1>2. SubmitForm => IInv'
  BY TickAfter DEF SubmitForm, Become, IInv
<1>3. EditField => IInv'
  BY Zenon, <1>1 DEF EditField, Become, IInv
<1> QED BY <1>2, <1>3

LEMMA CloseKeyboardOK == IInv /\ CloseKeyboard => IInv'
  BY ClosedUsable, TickUsable DEF CloseKeyboard, Become, IInv

\* A name for a download: nothing else can wait for the keyboard then.
LEMMA NameDownloadOK == IInv /\ NameDownload => IInv'
<1> SUFFICES ASSUME IInv, NameDownload PROVE IInv'
  OBVIOUS
<1> DEFINE t == SaveStep(Closed)
<1>1. /\ Usable(t, {}) /\ t.state \in {ui.state, "BROWSE"}
      /\ ui.state \notin {"ENTER_URL", "EDIT_BOOKMARK"}
  BY ClosedUsable, SaveStepUsable DEF NameDownload, IInv, Usable
<1>2. PICK stop \in BOOLEAN :
        ui' = [t EXCEPT !.loading = ~stop, !.form = @ /\ ~stop, !.enabled = @ \/ stop]
  BY DEF NameDownload, Become
<1> HIDE DEF t
<1> QED BY <1>1, <1>2 DEF IInv, Usable, Fields

LEMMA DownloadEndsOK == IInv /\ DownloadEnds => IInv'
<1> SUFFICES ASSUME IInv, DownloadEnds PROVE IInv'
  OBVIOUS
<1>1. PICK found \in Found(ui) :
        LET t == Queue(LoadedHtml(ui, "download", found))
        IN ui' = [t EXCEPT !.loading = FALSE, !.form = FALSE,
                           !.state = IF ui.form THEN "BROWSE" ELSE @]
  BY DEF DownloadEnds, Become
<1> DEFINE t == Queue(LoadedHtml(ui, "download", found))
<1>2. Usable(t, {})
  BY QueueUsable, LoadedHtmlUsable DEF IInv
<1>3. ui' = [t EXCEPT !.loading = FALSE, !.form = FALSE,
                      !.state = IF ui.form THEN "BROWSE" ELSE @]
  BY <1>1
<1> HIDE DEF t
<1> QED BY <1>2, <1>3 DEF IInv, Usable, Fields, Entering

LEMMA InitOK == Init => IInv
<1> SUFFICES ASSUME Init PROVE IInv
  OBVIOUS
<1>1. DOMAIN ui = Fields
  BY DEF Init, Fields
<1>2. ui.state = "BROWSE" /\ ui.bar /\ ~ui.loading
  BY DEF Init
<1> QED BY <1>1, <1>2 DEF IInv, Usable, Entering

LEMMA StepOK == IInv /\ [Next]_vars => IInv'
<1> SUFFICES ASSUME IInv, [Next]_vars PROVE IInv'
  OBVIOUS
<1>1. CASE UNCHANGED vars
  BY <1>1 DEF vars, IInv
<1>2. CASE Next
  BY <1>2, KeysOK, ButtonsOK, UpdaterButtonOK, LinksOK, EditPopupOK, FormsOK, CloseKeyboardOK,
     NameDownloadOK, DownloadEndsOK DEF Next
<1> QED BY <1>1, <1>2

\* Whatever keys, icons, links, forms, names and notifications come in whatever
\* order, and however many handlers one touch runs: what waits for the keyboard
\* has it, and without the keyboard there is a toolbar.
THEOREM UserNeverStuck == Spec => []NeverStuck
<1>1. IInv => NeverStuck
  BY DEF IInv, Usable, NeverStuck
<1> QED BY <1>1, InitOK, StepOK, PTL DEF Spec

----------------------------------------------------------------------------
(* The settings in the history: Document::clearConfigHistory as a fold      *)

Keeps == INSTANCE FoldTheorems WITH Op <- Keep

\* None of these addresses is of the settings.
Free(addresses) == \A i \in 1 .. Len(addresses) : ~IsConfig(addresses[i])

\* WithoutConfig is a fold, with its steps.
LEMMA WithoutSteps ==
  ASSUME NEW S, NEW h \in Seq(S)
  PROVE  \E f : /\ f[0] = <<>>
                /\ \A k \in 1 .. Len(h) : f[k] = Keep(f[k - 1], h[k])
                /\ WithoutConfig(h) = f[Len(h)]
<1>1. WithoutConfig(h) = Keeps!Folded(<<>>, h)
  BY DEF WithoutConfig, FoldLeft, MapThenFoldSet, Max, Keeps!Folded, Keeps!FoldLeft, Keeps!MapThenFoldSet, Keeps!Max
<1>2. \E f : /\ f[0] = <<>>
             /\ \A k \in 1 .. Len(h) : f[k] = Keep(f[k - 1], h[k])
             /\ Keeps!Folded(<<>>, h) = f[Len(h)]
  BY Keeps!FoldSteps
<1> QED BY <1>1, <1>2

\* One address more.
LEMMA WithoutAppend ==
  ASSUME NEW S, NEW x \in Seq(S), NEW a \in S
  PROVE  WithoutConfig(Append(x, a)) = Keep(WithoutConfig(x), a)
<1> DEFINE z == Append(x, a)
           n == Len(x)
<1>1. z \in Seq(S) /\ Len(z) = n + 1 /\ n \in Nat /\ z[n + 1] = a /\ \A i \in 1 .. n : z[i] = x[i]
  BY AppendProperties, LenProperties
<1> HIDE DEF z
<1>2. PICK f : f[0] = <<>> /\ (\A k \in 1 .. n : f[k] = Keep(f[k - 1], x[k])) /\ WithoutConfig(x) = f[n]
  BY WithoutSteps
<1>3. PICK g : /\ g[0] = <<>> /\ \A k \in 1 .. n + 1 : g[k] = Keep(g[k - 1], z[k])
               /\ WithoutConfig(z) = g[n + 1]
  BY <1>1, WithoutSteps
<1> HIDE DEF n
<1> DEFINE T == {k \in Nat : k <= n => f[k] = g[k]}
<1>4. 0 \in T
  BY <1>2, <1>3
<1>5. ASSUME NEW k \in Nat, k \in T PROVE k + 1 \in T
  <2> SUFFICES ASSUME k + 1 <= n PROVE f[k + 1] = g[k + 1]
    OBVIOUS
  <2>1. k + 1 \in 1 .. n /\ k + 1 \in 1 .. n + 1 /\ (k + 1) - 1 = k
    BY <1>1
  <2>2. f[k] = g[k]
    BY <1>1, <1>5
  <2>3. f[k + 1] = Keep(f[k], x[k + 1]) /\ g[k + 1] = Keep(g[k], z[k + 1])
    BY <1>2, <1>3, <2>1
  <2> QED BY <1>1, <2>1, <2>2, <2>3
<1> HIDE DEF T
<1>6. n \in T
  BY <1>1, <1>4, <1>5, Keeps!SetInduction
<1>7. f[n] = g[n]
  BY <1>1, <1>6 DEF T
<1>8. g[n + 1] = Keep(g[n], a)
  BY <1>1, <1>3
<1> QED BY <1>2, <1>3, <1>7, <1>8 DEF z

\* What is left is free of the settings, and no more than there was.
LEMMA WithoutIsFree ==
  ASSUME NEW S, NEW x \in Seq(S)
  PROVE  WithoutConfig(x) \in Seq(S) /\ Free(WithoutConfig(x)) /\ Len(WithoutConfig(x)) <= Len(x)
<1> DEFINE Good == [k \in 0 .. Len(x) |-> {s \in Seq(S) : Len(s) <= k /\ Free(s)}]
<1>1. <<>> \in Good[0]
  BY DEF Free
<1>2. ASSUME NEW k \in 1 .. Len(x), NEW s \in Good[k - 1] PROVE Keep(s, x[k]) \in Good[k]
  <2>1. s \in Seq(S) /\ Len(s) <= k - 1 /\ Free(s) /\ x[k] \in S
    OBVIOUS
  <2>2. CASE IsConfig(x[k])
    BY <2>1, <2>2 DEF Keep
  <2>3. CASE ~IsConfig(x[k])
    <3>1. Keep(s, x[k]) = Append(s, x[k])
      BY <2>3 DEF Keep
    <3>2. /\ Append(s, x[k]) \in Seq(S) /\ Len(Append(s, x[k])) = Len(s) + 1
          /\ \A i \in 1 .. Len(s) : Append(s, x[k])[i] = s[i]
          /\ Append(s, x[k])[Len(s) + 1] = x[k]
      BY <2>1, AppendProperties
    <3>3. Free(Append(s, x[k]))
      BY <2>1, <2>3, <3>2, LenProperties DEF Free
    <3>4. Len(Append(s, x[k])) <= k
      BY <2>1, <3>2, LenProperties
    <3>5. k \in 0 .. Len(x) /\ Append(s, x[k]) \in {r \in Seq(S) : Len(r) <= k /\ Free(r)}
      BY <3>2, <3>3, <3>4, LenProperties
    <3> QED BY <3>1, <3>5
  <2> QED BY <2>2, <2>3
<1> HIDE DEF Good
<1>3. Keeps!Folded(<<>>, x) \in Good[Len(x)]
  BY <1>1, <1>2, Keeps!FoldStaysGood
<1>4. WithoutConfig(x) = Keeps!Folded(<<>>, x)
  BY DEF WithoutConfig, FoldLeft, MapThenFoldSet, Max, Keeps!Folded, Keeps!FoldLeft, Keeps!MapThenFoldSet, Keeps!Max
<1>5. WithoutConfig(x) \in Good[Len(x)] /\ Len(x) \in 0 .. Len(x)
  BY <1>3, <1>4, LenProperties
<1> QED BY <1>5 DEF Good

\* One element more behind.
LEMMA ConcatAppend ==
  ASSUME NEW S, NEW x \in Seq(S), NEW v \in Seq(S), NEW e \in S
  PROVE  x \o Append(v, e) = Append(x \o v, e)
<1> DEFINE a == x \o Append(v, e)
           b == Append(x \o v, e)
<1>1. Append(v, e) \in Seq(S) /\ x \o v \in Seq(S)
  BY AppendProperties, ConcatProperties
<1>2. a \in Seq(S) /\ b \in Seq(S) /\ Len(v) \in Nat /\ Len(x) \in Nat
  BY <1>1, AppendProperties, ConcatProperties, LenProperties
<1>3. Len(Append(v, e)) = Len(v) + 1 /\ Len(x \o v) = Len(x) + Len(v)
  BY AppendProperties, ConcatProperties
<1>4. Len(a) = Len(x) + Len(v) + 1 /\ Len(b) = Len(x) + Len(v) + 1
  BY <1>1, <1>2, <1>3, AppendProperties, ConcatProperties
<1>5. ASSUME NEW i \in 1 .. Len(a) PROVE a[i] = b[i]
  BY <1>1, <1>2, <1>3, <1>4, AppendProperties, ConcatProperties
<1> QED BY <1>2, <1>4, <1>5, SeqEqual

\* Addresses that are free of the settings stay.
LEMMA WithoutConcat ==
  ASSUME NEW S, NEW x \in Seq(S), NEW y \in Seq(S), Free(y)
  PROVE  WithoutConfig(x \o y) = WithoutConfig(x) \o y
<1> DEFINE w == WithoutConfig(x)
           T == {n \in Nat : \A z \in Seq(S) : Len(z) = n /\ Free(z) => WithoutConfig(x \o z) = w \o z}
<1>0. w \in Seq(S)
  BY WithoutIsFree
<1>1. 0 \in T
  <2> SUFFICES ASSUME NEW z \in Seq(S), Len(z) = 0 PROVE WithoutConfig(x \o z) = w \o z
    OBVIOUS
  <2>1. z = <<>>
    BY EmptySeq
  <2> QED BY <1>0, <2>1, ConcatEmptySeq
<1>2. ASSUME NEW n \in Nat, n \in T PROVE n + 1 \in T
  <2> SUFFICES ASSUME NEW z \in Seq(S), Len(z) = n + 1, Free(z) PROVE WithoutConfig(x \o z) = w \o z
    OBVIOUS
  <2>1. z # <<>>
    BY EmptySeq
  <2>2. PICK v \in Seq(S), e \in S : z = Append(v, e)
    BY <2>1, SequenceEmptyOrAppend
  <2>3. /\ Len(z) = Len(v) + 1 /\ Len(v) \in Nat /\ z[Len(v) + 1] = e
        /\ \A i \in 1 .. Len(v) : z[i] = v[i]
    BY <2>2, AppendProperties, LenProperties
  <2>4. Free(v) /\ ~IsConfig(e) /\ Len(v) = n
    BY <2>3 DEF Free
  <2>5. WithoutConfig(x \o v) = w \o v
    BY <1>2, <2>4
  <2>6. x \o z = Append(x \o v, e) /\ w \o z = Append(w \o v, e)
    BY <1>0, <2>2, ConcatAppend
  <2>7. WithoutConfig(x \o z) = Keep(w \o v, e)
    <3>1. x \o v \in Seq(S)
      BY ConcatProperties
    <3> HIDE DEF w
    <3> QED BY <2>5, <2>6, <3>1, WithoutAppend
  <2> QED BY <2>4, <2>6, <2>7 DEF Keep
<1> HIDE DEF T
<1>3. Len(y) \in T
  BY <1>1, <1>2, LenProperties, Keeps!SetInduction
<1> QED BY <1>3 DEF T

\* Addresses without the settings are all kept.
LEMMA WithoutNone ==
  ASSUME NEW S, NEW y \in Seq(S), Free(y)
  PROVE  WithoutConfig(y) = y
<1>1. <<>> \in Seq(S) /\ <<>> \o y = y
  BY EmptySeq, ConcatEmptySeq
<1>2. WithoutConfig(<<>>) = <<>>
  <2>1. Len(WithoutConfig(<<>>)) <= 0 /\ WithoutConfig(<<>>) \in Seq(S)
    BY <1>1, WithoutIsFree, EmptySeq
  <2> QED BY <2>1, EmptySeq, LenProperties
<1>3. WithoutConfig(<<>> \o y) = <<>> \o y
  BY <1>1, <1>2, WithoutConcat
<1> QED BY <1>1, <1>3

----------------------------------------------------------------------------
(* What the handlers leave alone                                           *)

\* A handler leaves a link to be edited as it is, or forgets it.
SamePopup(s, t) == t.popup = "none" \/ (t.popup = s.popup /\ t.chosen = s.chosen)

\* The history and the toolbar stay as they are.
Calm(s, t) ==
  /\ DOMAIN t = Fields /\ SamePopup(s, t)
  /\ t.history = s.history /\ t.position = s.position /\ t.toolbar = s.toolbar /\ t.href = s.href
  /\ t.state \in {s.state, "BROWSE", "SAVE_DOWNLOADING"}

\* The settings are left: what EndBookmark does.
Ending(s, t) ==
  /\ DOMAIN t = Fields /\ SamePopup(s, t)
  /\ t.history = WithoutConfig(s.history)
  /\ t.position = s.position - (Len(s.history) - Len(WithoutConfig(s.history)))
  /\ t.toolbar = "browse" /\ t.updater = "none" /\ t.state = "BROWSE"
  /\ t.href = IF s.href = Nothing THEN Uri(t) ELSE s.href

\* What a page or a load makes of a state: it ends the settings of an updater that was not
\* needed, and nothing else does.
Shows(s, t) ==
  /\ Calm(s, t) \/ Ending(s, t)
  /\ s.updater # "CANCELLED" => Calm(s, t)

\* One after the other.
LEMMA CalmThen ==
  ASSUME NEW r, NEW s, NEW t, Calm(r, s)
  PROVE  (Calm(s, t) => Calm(r, t)) /\ (Ending(s, t) => Ending(r, t))
BY DEF Calm, Ending, SamePopup

LEMMA QueueCalm ==
  ASSUME NEW s, DOMAIN s = Fields
  PROVE  Calm(s, Queue(s)) /\ Queue(s).updater = s.updater
BY DEF Calm, Queue, SamePopup, Fields

LEMMA QueueEnds ==
  ASSUME NEW s, NEW v, Ending(s, v)
  PROVE  Ending(s, Queue(v))
<1> DEFINE q == Queue(v)
<1>1. q = [v EXCEPT !.enabled = TRUE]
  BY DEF Queue
<1>2. /\ DOMAIN q = Fields /\ q.popup = v.popup /\ q.chosen = v.chosen /\ q.history = v.history
      /\ q.position = v.position /\ q.toolbar = v.toolbar /\ q.updater = v.updater
      /\ q.state = v.state /\ q.href = v.href
  BY <1>1 DEF Ending, Fields
<1> HIDE DEF q
<1> QED BY <1>2 DEF Ending, SamePopup, InHistory, Uri, q

\* The link and the popup are hidden.
LEMMA HiddenCalm ==
  ASSUME NEW s, DOMAIN s = Fields
  PROVE  LET t == [s EXCEPT !.popup = "none", !.chosen = 0]
         IN Calm(s, t) /\ t.updater = s.updater
BY DEF Calm, SamePopup, Fields

LEMMA AskUpdateCalm ==
  ASSUME NEW s, DOMAIN s = Fields, NEW ok
  PROVE  Calm(s, AskUpdate(s, ok))
BY DEF Calm, AskUpdate, SamePopup, Fields

LEMMA EndBookmarkEnds ==
  ASSUME NEW s, DOMAIN s = Fields
  PROVE  Ending(s, EndBookmark(s))
<1> DEFINE kept == WithoutConfig(s.history)
           lost == Len(s.history) - Len(kept)
           c == ClearConfigHistory(s)
           b == SetToolbar(c, "browse")
           t == EndBookmark(s)
<1>1. c = [s EXCEPT !.history = kept, !.position = @ - lost]
  BY DEF ClearConfigHistory, Forget
<1> HIDE DEF kept, lost, c
<1>2. /\ DOMAIN c = Fields /\ c.history = kept /\ c.position = s.position - lost
      /\ c.href = s.href /\ c.popup = s.popup /\ c.chosen = s.chosen
  BY <1>1 DEF Fields
<1>3. b = [c EXCEPT !.toolbar = "browse", !.bar = TRUE]
  BY DEF SetToolbar
<1> HIDE DEF b
<1>4. /\ DOMAIN b = Fields /\ b.history = kept /\ b.position = s.position - lost
      /\ b.href = s.href /\ b.popup = s.popup /\ b.chosen = s.chosen /\ b.toolbar = "browse"
  BY <1>2, <1>3 DEF Fields
<1> DEFINE h == IF s.href = Nothing THEN Uri(c) ELSE s.href
<1>5. t = [b EXCEPT !.href = h, !.enabled = TRUE, !.state = "BROWSE", !.updater = "none", !.asked = FALSE]
  BY <1>4 DEF EndBookmark, Browse, b, c
<1> HIDE DEF h, t
<1>6. /\ DOMAIN t = Fields /\ t.history = kept /\ t.position = s.position - lost
      /\ t.popup = s.popup /\ t.chosen = s.chosen /\ t.toolbar = "browse"
      /\ t.href = h /\ t.state = "BROWSE" /\ t.updater = "none"
  BY <1>4, <1>5 DEF Fields
<1>7. InHistory(c) = InHistory(t) /\ Uri(c) = Uri(t)
  BY <1>2, <1>6 DEF InHistory, Uri
<1> QED BY <1>6, <1>7 DEF Ending, SamePopup, kept, lost, h, t

LEMMA GetZipCalm ==
  ASSUME NEW s, DOMAIN s = Fields, NEW found
  PROVE  Calm(s, GetZip(s, found))
<1> DEFINE t == [s EXCEPT !.updater = "GOT_ZIP", !.enabled = TRUE]
<1>1. Calm(s, t)
  BY DEF Calm, SamePopup, Fields
<1>2. \A u : Calm(s, [s EXCEPT !.updater = u])
  BY DEF Calm, SamePopup, Fields
<1>3. GetZip(s, found) \in {[s EXCEPT !.updater = "CANCELLED"], t,
                            AskUpdate(t, found = "zip"), [s EXCEPT !.updater = "INI_FAIL"]}
  BY DEF GetZip
<1> HIDE DEF t
<1>4. Calm(s, AskUpdate(t, found = "zip"))
  BY <1>1, CalmThen, AskUpdateCalm DEF Calm
<1> QED BY Zenon, <1>1, <1>2, <1>3, <1>4

LEMMA ShowShows ==
  ASSUME NEW s, DOMAIN s = Fields, NEW page, NEW found
  PROVE  Shows(s, Show(s, page, found))
<1> DEFINE t == [s EXCEPT !.shown = "updater"]
           v == Show(s, page, found)
<1>1. Calm(s, t) /\ Calm(s, [s EXCEPT !.shown = page]) /\ [s EXCEPT !.shown = page].updater = s.updater
      /\ t.updater = s.updater /\ DOMAIN t = Fields
  BY DEF Calm, SamePopup, Fields
<1>2. CASE s.updater = "none"
  BY <1>1, <1>2 DEF Show, Shows
<1>3. CASE s.updater = "GOT_INI"
  <2>1. v = GetZip(t, found)
    BY <1>3 DEF Show
  <2> HIDE DEF t, v
  <2>2. Calm(s, v)
    BY <1>1, <2>1, CalmThen, GetZipCalm
  <2> QED BY <1>3, <2>2 DEF Shows, v
<1>4. CASE s.updater = "GOT_ZIP"
  <2>1. v = AskUpdate(t, found = "zip")
    BY <1>4 DEF Show
  <2> HIDE DEF t, v
  <2>2. Calm(s, v)
    BY <1>1, <2>1, CalmThen, AskUpdateCalm
  <2> QED BY <1>4, <2>2 DEF Shows, v
<1>5. CASE s.updater = "CANCELLED"
  <2>1. v = EndBookmark(t)
    BY <1>5 DEF Show
  <2> HIDE DEF t, v
  <2>2. Ending(s, v)
    BY <1>1, <2>1, CalmThen, EndBookmarkEnds
  <2> QED BY <1>5, <2>2 DEF Shows, v
<1>6. CASE s.updater \notin {"none", "GOT_INI", "GOT_ZIP", "CANCELLED"}
  <2>1. v = t
    BY <1>6 DEF Show
  <2> QED BY <1>1, <1>6, <2>1 DEF Shows
<1> QED BY <1>2, <1>3, <1>4, <1>5, <1>6

LEMMA LoadedHtmlShows ==
  ASSUME NEW s, DOMAIN s = Fields, NEW page, NEW found
  PROVE  Shows(s, Queue(LoadedHtml(s, page, found)))
<1> DEFINE t == [s EXCEPT !.popup = "none", !.chosen = 0]
           v == Show(t, page, found)
<1>1. Calm(s, t) /\ t.updater = s.updater /\ DOMAIN t = Fields
  BY HiddenCalm DEF Calm
<1> HIDE DEF t
<1>2. Shows(t, v)
  BY <1>1, ShowShows
<1>3. DOMAIN v = Fields
  BY <1>2 DEF Shows, Calm, Ending
<1> HIDE DEF v
<1>4. Calm(v, Queue(v)) /\ Queue(v).updater = v.updater
  BY <1>3, QueueCalm
<1>5. Shows(s, v)
  BY <1>1, <1>2, CalmThen DEF Shows
<1>6. Calm(s, v) => Calm(s, Queue(v))
  BY <1>4, CalmThen
<1>7. Ending(s, v) => Ending(s, Queue(v))
  BY QueueEnds
<1>8. Shows(s, Queue(v))
  BY <1>4, <1>5, <1>6, <1>7 DEF Shows
<1> QED BY <1>8 DEF LoadedHtml, v, t

LEMMA FetchShows ==
  ASSUME NEW s, DOMAIN s = Fields, NEW address, NEW found
  PROVE  Shows(s, Fetch(s, address, found))
<1> DEFINE hidden == [s EXCEPT !.popup = "none", !.chosen = 0]
           named == [SaveAs(s, "SAVE_DOWNLOADING") EXCEPT !.loading = TRUE, !.popup = "none"]
           loaded == Queue(LoadedHtml(s, address, found))
<1>1. Fetch(s, address, found) \in {Queue(hidden), loaded, named}
  <2> DEFINE a == found = "stopped" /\ address \in Sites \cup {"download"}
  <2> DEFINE b == address = "download" /\ found # "error"
  <2>1. CASE a
    BY <2>1 DEF Fetch
  <2>2. CASE ~a /\ b
    BY <2>2 DEF Fetch
  <2>3. CASE ~a /\ ~b
    BY <2>3 DEF Fetch
  <2> QED BY <2>1, <2>2, <2>3
<1>2. Shows(s, Queue(hidden))
  <2>1. Calm(s, hidden) /\ hidden.updater = s.updater /\ DOMAIN hidden = Fields
    BY HiddenCalm DEF Calm
  <2> HIDE DEF hidden
  <2> QED BY <2>1, QueueCalm, CalmThen DEF Shows
<1>3. Shows(s, named)
  BY DEF SaveAs, Shows, Calm, SamePopup, Fields
<1>4. Shows(s, loaded)
  BY LoadedHtmlShows
<1> QED BY Zenon, <1>1, <1>2, <1>3, <1>4

LEMMA CheckUpdatesCalm ==
  ASSUME NEW s, DOMAIN s = Fields, NEW found
  PROVE  Calm(s, Queue(CheckUpdates(s, found)))
<1> DEFINE t == [s EXCEPT !.updater = "GOT_INI", !.enabled = FALSE]
           loaded == Queue(LoadedHtml(t, "ini", found))
<1>1. Calm(s, t) /\ t.updater = "GOT_INI" /\ DOMAIN t = Fields
  BY DEF Calm, SamePopup, Fields
<1>2. CheckUpdates(s, found) \in {s, Queue(t), loaded}
  BY DEF CheckUpdates
<1> HIDE DEF t
<1>3. Calm(s, Queue(t)) /\ Calm(s, s)
  BY <1>1, QueueCalm, CalmThen DEF Calm, SamePopup
<1>4. Calm(s, loaded)
  BY <1>1, LoadedHtmlShows, CalmThen DEF Shows
<1>5. Calm(s, CheckUpdates(s, found))
  BY Zenon, <1>2, <1>3, <1>4
<1> HIDE DEF loaded
<1> QED BY <1>5, QueueCalm, CalmThen DEF Calm

\* Sending the form of the settings ends them, and a page only that is the last of an
\* updater's.
LEMMA HandleUriGives ==
  ASSUME NEW s, DOMAIN s = Fields, NEW address, NEW found
  PROVE  LET t == HandleUri(s, address, found)
         IN /\ Calm(s, t) \/ Ending(s, t)
            /\ address = "post" => Ending(s, t)
            /\ address # "post" /\ s.updater # "CANCELLED" => Calm(s, t)
<1>1. CASE address = "post"
  <2>1. HandleUri(s, address, found) = Queue(EndBookmark(s))
    BY <1>1 DEF HandleUri
  <2>2. Ending(s, Queue(EndBookmark(s)))
    BY EndBookmarkEnds, QueueEnds
  <2> QED BY <1>1, <2>1, <2>2
<1>2. CASE address = "update"
  <2>1. HandleUri(s, address, found) = Queue(CheckUpdates(s, found))
    BY <1>2 DEF HandleUri
  <2> QED BY <1>2, <2>1, CheckUpdatesCalm
<1>3. CASE address \notin {"post", "update"}
  <2>1. HandleUri(s, address, found) = Fetch(s, address, found)
    BY <1>3 DEF HandleUri
  <2> QED BY <1>3, <2>1, FetchShows DEF Shows
<1> QED BY <1>1, <1>2, <1>3

\* Only the history changes, and only if the address is another one.
LEMMA SetUriGives ==
  ASSUME NEW s, DOMAIN s = Fields, NEW address
  PROVE  LET t == SetUri(s, address)
         IN /\ DOMAIN t = Fields /\ t.toolbar = s.toolbar /\ t.href = s.href /\ t.state = s.state
            /\ t.updater = s.updater /\ t.popup = s.popup /\ t.chosen = s.chosen
            /\ \/ t = s
               \/ /\ InHistory(s) /\ t.position = s.position + 1
                  /\ t.history = Append(SubSeq(s.history, 1, s.position), address)
<1>1. CASE s.enabled /\ InHistory(s) /\ address # Uri(s)
  <2>1. SetUri(s, address) = [s EXCEPT !.history  = Append(SubSeq(@, 1, s.position), address),
                                       !.position = @ + 1]
    BY <1>1 DEF SetUri
  <2> QED BY <1>1, <2>1 DEF Fields
<1>2. CASE ~(s.enabled /\ InHistory(s) /\ address # Uri(s))
  BY <1>2 DEF SetUri
<1> QED BY <1>1, <1>2
----------------------------------------------------------------------------
(* What becomes of the history, when under is what is under the settings   *)
(* and behind what is behind the position                                  *)

\* The settings may be in what is up to the position, and nowhere else.
Left(s, under, behind) ==
  \E x \in Seq(Pages), y \in {<<>>, behind} :
     s.history = x \o y /\ s.position = Len(x) /\ WithoutConfig(x) = under

\* They are left, and no link has been followed since, or one has.
Settled(s, under, behind) == s.history \in {under, under \o behind} /\ s.position = Len(under)
Followed(s, under) == \E a \in Pages : s.history = Append(under, a) /\ s.position = Len(under) + 1

\* They are, and only a link may be left to follow.
AtRest(s, under, behind) ==
  /\ DOMAIN s = Fields /\ Settled(s, under, behind)
  /\ s.updater = "none" /\ s.state = "BROWSE" /\ s.href \in Pages \cup {Nothing}

\* Two histories of addresses that are free of the settings.
Apart(under, behind) == under \in Seq(Pages) /\ behind \in Seq(Pages) /\ Free(under) /\ Free(behind)

LEMMA LeftEnds ==
  ASSUME NEW u, NEW b, Apart(u, b), NEW s, NEW t, Left(s, u, b), Ending(s, t)
  PROVE  Settled(t, u, b)
<1>1. PICK x \in Seq(Pages), y \in {<<>>, b} :
        s.history = x \o y /\ s.position = Len(x) /\ WithoutConfig(x) = u
  BY DEF Left
<1>2. y \in Seq(Pages) /\ Free(y)
  <2>1. CASE y = <<>>
    BY <2>1, EmptySeq DEF Free
  <2>2. CASE y = b
    BY <2>2 DEF Apart
  <2> QED BY <1>1, <2>1, <2>2
<1>3. WithoutConfig(s.history) = u \o y
  BY <1>1, <1>2, WithoutConcat
<1>4. u \in Seq(Pages) /\ Len(x \o y) = Len(x) + Len(y) /\ Len(u \o y) = Len(u) + Len(y)
  BY <1>2, ConcatProperties DEF Apart
<1>5. Len(x) \in Nat /\ Len(y) \in Nat /\ Len(u) \in Nat
  BY <1>2, <1>4, LenProperties
<1>6. t.history = u \o y /\ t.position = Len(u)
  BY <1>1, <1>3, <1>4, <1>5 DEF Ending
<1>7. u \o <<>> = u
  BY <1>4, ConcatEmptySeq
<1> QED BY <1>6, <1>7 DEF Settled

LEMMA SettledIsLeft ==
  ASSUME NEW u, NEW b, Apart(u, b), NEW s, Settled(s, u, b)
  PROVE  Left(s, u, b)
<1>1. u \in Seq(Pages) /\ WithoutConfig(u) = u /\ u \o <<>> = u
  BY WithoutNone, ConcatEmptySeq DEF Apart
<1>2. PICK y \in {<<>>, b} : s.history = u \o y /\ s.position = Len(u)
  BY <1>1 DEF Settled
<1> QED BY <1>1, <1>2 DEF Left

\* The addresses up to the position.
LEMMA UpToPosition ==
  ASSUME NEW x \in Seq(Pages), NEW y \in Seq(Pages), NEW s, s.history = x \o y,
         s.position = Len(x), InHistory(s)
  PROVE  SubSeq(s.history, 1, s.position) = x
<1>1. Len(x) \in Nat /\ x \o y \in Seq(Pages)
  BY LenProperties, ConcatProperties
<1>2. Len(x) \in 1 .. Len(x) /\ 1 \in 1 .. Len(x)
  BY <1>1, LenProperties DEF InHistory
<1>3. SubSeq(x \o y, 1, Len(x)) = SubSeq(x, 1, Len(x))
  BY <1>2, SubSeqOfConcat1
<1> QED BY <1>3, SubSeqFull

\* One more page of the settings.
LEMMA SetUriLeft ==
  ASSUME NEW u, NEW b, Apart(u, b), NEW s, DOMAIN s = Fields, Left(s, u, b),
         NEW a \in Pages, IsConfig(a)
  PROVE  Left(SetUri(s, a), u, b)
<1> DEFINE t == SetUri(s, a)
<1>1. PICK x \in Seq(Pages), y \in {<<>>, b} :
        s.history = x \o y /\ s.position = Len(x) /\ WithoutConfig(x) = u
  BY DEF Left
<1>2. y \in Seq(Pages)
  BY EmptySeq DEF Apart
<1>3. CASE t = s
  BY <1>3
<1>4. CASE t # s
  <2>1. InHistory(s) /\ t.position = s.position + 1
        /\ t.history = Append(SubSeq(s.history, 1, s.position), a)
    BY <1>4, SetUriGives
  <2>2. t.history = Append(x, a)
    BY <1>1, <1>2, <2>1, UpToPosition
  <2>3. Append(x, a) \in Seq(Pages) /\ Len(Append(x, a)) = Len(x) + 1
    BY AppendProperties
  <2>4. WithoutConfig(Append(x, a)) = u
    BY <1>1, WithoutAppend DEF Keep
  <2>5. Append(x, a) \o <<>> = Append(x, a)
    BY <2>3, ConcatEmptySeq
  <2> HIDE DEF t
  <2>6. Left(t, u, b)
    BY <1>1, <2>1, <2>2, <2>3, <2>4, <2>5 DEF Left
  <2> QED BY <2>6 DEF t
<1> QED BY <1>3, <1>4

LEMMA SetUriFollows ==
  ASSUME NEW u, NEW b, Apart(u, b), NEW s, DOMAIN s = Fields, Settled(s, u, b), NEW a \in Pages
  PROVE  Settled(SetUri(s, a), u, b) \/ Followed(SetUri(s, a), u)
<1> DEFINE t == SetUri(s, a)
<1>1. CASE t = s
  BY <1>1
<1>2. CASE t # s
  <2>1. InHistory(s) /\ t.position = s.position + 1
        /\ t.history = Append(SubSeq(s.history, 1, s.position), a)
    BY <1>2, SetUriGives
  <2>2. u \in Seq(Pages) /\ b \in Seq(Pages) /\ u \o <<>> = u /\ <<>> \in Seq(Pages)
    BY ConcatEmptySeq, EmptySeq DEF Apart
  <2>3. SubSeq(s.history, 1, s.position) = u
    BY <2>1, <2>2, UpToPosition DEF Settled
  <2> HIDE DEF t
  <2>4. Followed(t, u)
    BY <2>1, <2>3 DEF Followed, Settled
  <2> QED BY <2>4 DEF t
<1> QED BY <1>1, <1>2

----------------------------------------------------------------------------
(* Loads and ticks                                                         *)

\* What has ended is settled.
LEMMA EndsSettled ==
  ASSUME NEW u, NEW b, Apart(u, b), NEW s, NEW t, Left(s, u, b), Ending(s, t),
         s.href \in Pages \cup {Nothing}
  PROVE  AtRest(t, u, b)
<1>1. Settled(t, u, b)
  BY LeftEnds
<1>2. t.href \in Pages \cup {Nothing}
  <2>1. CASE InHistory(t)
    <3>1. t.history \in Seq(Pages)
      <4>1. u \o b \in Seq(Pages) /\ u \in Seq(Pages)
        BY ConcatProperties DEF Apart
      <4> QED BY <1>1, <4>1 DEF Settled
    <3>2. Uri(t) \in Pages
      BY <2>1, <3>1, ElementOfSeq DEF InHistory, Uri
    <3> QED BY <3>2 DEF Ending
  <2>2. CASE ~InHistory(t)
    BY <2>2 DEF Ending, Uri
  <2> QED BY <2>1, <2>2
<1> QED BY <1>1, <1>2 DEF AtRest, Ending

\* A page of the settings, which may end them.
LEMMA DoConfigLeft ==
  ASSUME NEW u, NEW b, Apart(u, b), NEW s, DOMAIN s = Fields, Left(s, u, b),
         s.href \in Pages \cup {Nothing}, NEW a \in Pages, IsConfig(a), NEW found
  PROVE  LET t == DoUri(s, a, found)
         IN \/ AtRest(t, u, b)
            \/ /\ a # "post"
               /\ DOMAIN t = Fields /\ t.toolbar = s.toolbar /\ t.href = s.href /\ Left(t, u, b)
<1> DEFINE r == SetUri(s, a)
           t == HandleUri(r, a, found)
<1>1. DOMAIN r = Fields /\ r.toolbar = s.toolbar /\ r.href = s.href /\ Left(r, u, b)
  BY SetUriGives, SetUriLeft
<1> HIDE DEF r
<1>2. (Calm(r, t) /\ a # "post") \/ Ending(r, t)
  BY <1>1, HandleUriGives
<1> HIDE DEF t
<1>3. CASE Calm(r, t) /\ a # "post"
  <2>1. DOMAIN t = Fields /\ t.toolbar = s.toolbar /\ t.href = s.href /\ Left(t, u, b)
    BY <1>1, <1>3 DEF Calm, Left
  <2> QED BY <1>3, <2>1 DEF DoUri, t, r
<1>4. CASE Ending(r, t)
  <2>1. AtRest(t, u, b)
    BY <1>1, <1>4, EndsSettled
  <2> QED BY <2>1 DEF DoUri, t, r
<1> QED BY <1>2, <1>3, <1>4

\* A load in the settings, which ends them when it sends their form.
LEMMA DoUriLeft ==
  ASSUME NEW u, NEW b, Apart(u, b), NEW s, DOMAIN s = Fields, Left(s, u, b),
         s.href \in Pages \cup {Nothing}, s.updater # "CANCELLED", NEW a \in Pages, NEW found
  PROVE  LET t == DoUri(s, a, found)
         IN AtRest(t, u, b) \/ (DOMAIN t = Fields /\ t.toolbar = s.toolbar /\ t.href = s.href)
<1>1. CASE a = "post"
  BY <1>1, DoConfigLeft DEF IsConfig, Settings
<1>2. CASE a # "post"
  <2> DEFINE r == SetUri(s, a)
             t == HandleUri(r, a, found)
  <2>1. DOMAIN r = Fields /\ r.toolbar = s.toolbar /\ r.href = s.href /\ r.updater = s.updater
    BY SetUriGives
  <2> HIDE DEF r
  <2>2. Calm(r, t)
    BY <1>2, <2>1, HandleUriGives
  <2> HIDE DEF t
  <2>3. DOMAIN t = Fields /\ t.toolbar = s.toolbar /\ t.href = s.href
    BY <2>1, <2>2 DEF Calm
  <2> QED BY <2>3 DEF DoUri, t, r
<1> QED BY <1>1, <1>2

\* A load after them.
LEMMA DoUriFollows ==
  ASSUME NEW u, NEW b, Apart(u, b), NEW s, DOMAIN s = Fields, Settled(s, u, b),
         s.updater = "none", NEW a \in Pages, NEW found
  PROVE  Settled(DoUri(s, a, found), u, b) \/ Followed(DoUri(s, a, found), u)
<1> DEFINE r == SetUri(s, a)
           t == HandleUri(r, a, found)
<1>1. DOMAIN r = Fields /\ r.updater = "none"
  BY SetUriGives
<1>2. Left(s, u, b)
  BY SettledIsLeft
<1>3. Settled(r, u, b) \/ Followed(r, u)
  BY SetUriFollows
<1>4. CASE a = "post"
  <2>1. Left(r, u, b)
    BY <1>2, <1>4, SetUriLeft DEF IsConfig, Settings
  <2> HIDE DEF r
  <2>2. Ending(r, t)
    BY <1>1, <1>4, HandleUriGives
  <2> HIDE DEF t
  <2>3. Settled(t, u, b)
    BY <2>1, <2>2, LeftEnds
  <2> QED BY <2>3 DEF DoUri, t, r
<1>5. CASE a # "post"
  <2> HIDE DEF r
  <2>1. Calm(r, t)
    BY <1>1, <1>5, HandleUriGives
  <2> HIDE DEF t
  <2>2. Settled(t, u, b) \/ Followed(t, u)
    BY <1>3, <2>1 DEF Calm, Settled, Followed
  <2> QED BY <2>2 DEF DoUri, t, r
<1> QED BY <1>4, <1>5

\* A tick in which nothing was left to do.
LEMMA TickQuiet ==
  ASSUME NEW s, Usable(s, {}), s.href = Nothing, NEW input, NEW found
  PROVE  Tick(s, input, Nothing, found) = s
<1>1. EnterStep(s, input, found) = s
  BY DEF EnterStep, Answered, Usable, Entering
<1>2. EditStep(s, found) = s
  BY DEF EditStep, Answered, Usable, Entering
<1>3. SaveStep(s) = s
  BY DEF SaveStep, Answered, Usable, Entering
<1>4. LinkStep(s, found) = s
  BY DEF LinkStep
<1>5. FormStep(s, Nothing, found) = s
  BY DEF FormStep
<1> QED BY <1>1, <1>2, <1>3, <1>4, <1>5 DEF Tick

\* What nothing waits for is not asked.
LEMMA QuietSteps ==
  ASSUME NEW s, Usable(s, {}), NEW input, NEW found
  PROVE  EnterStep(s, input, found) = s /\ EditStep(s, found) = s /\ SaveStep(s) = s
BY DEF EnterStep, EditStep, SaveStep, Answered, Usable, Entering

\* Without a form, and with nothing entered, only a link may be left to follow.
LEMMA TickLink ==
  ASSUME NEW s, s.state \notin Entering, NEW input, NEW found
  PROVE  Tick(s, input, Nothing, found) = LinkStep(s, found)
<1>1. EnterStep(s, input, found) = s
  BY DEF EnterStep, Answered, Entering
<1>2. EditStep(s, found) = s
  BY DEF EditStep, Answered, Entering
<1>3. SaveStep(s) = s
  BY DEF SaveStep, Answered, Entering
<1> QED BY <1>1, <1>2, <1>3 DEF Tick, FormStep

\* The tick in which the settings are left may follow a link.
LEMMA TickSettled ==
  ASSUME NEW u, NEW b, Apart(u, b), NEW s, AtRest(s, u, b), NEW input, NEW found
  PROVE  LET t == Tick(s, input, Nothing, found) IN Settled(t, u, b) \/ Followed(t, u)
<1>1. Tick(s, input, Nothing, found) = LinkStep(s, found)
  BY TickLink DEF Entering, AtRest
<1> DEFINE r == [s EXCEPT !.href = Nothing]
           t == DoUri(r, s.href, found)
<1>2. LinkStep(s, found) = s \/ (s.href \in Pages /\ LinkStep(s, found) = t)
  <2>1. s.state # "BOOKMARK" /\ (s.href = Nothing \/ s.href \in Pages)
    BY DEF AtRest
  <2>2. CASE s.href = Nothing
    BY <2>2 DEF LinkStep
  <2>3. CASE s.href # Nothing /\ InHistory(s)
    BY <2>1, <2>3 DEF LinkStep
  <2>4. CASE s.href # Nothing /\ ~InHistory(s)
    BY <2>1, <2>4 DEF LinkStep
  <2> QED BY <2>2, <2>3, <2>4
<1>3. DOMAIN r = Fields /\ r.updater = "none" /\ Settled(r, u, b)
  BY DEF Fields, Settled, AtRest
<1> HIDE DEF r
<1>4. s.href \in Pages => Settled(t, u, b) \/ Followed(t, u)
  BY <1>3, DoUriFollows
<1> HIDE DEF t
<1> QED BY <1>1, <1>2, <1>4 DEF AtRest

----------------------------------------------------------------------------
(* The user's actions in the settings                                      *)

\* The settings or the bookmarks are shown, and nothing waits.
Within(s, under, behind) ==
  /\ Usable(s, {}) /\ Left(s, under, behind)
  /\ s.toolbar # "browse" /\ s.href = Nothing

\* When they are left, the history is what it has to be.
Outcome(t, under, behind) == t.toolbar = "browse" => Settled(t, under, behind) \/ Followed(t, under)

\* The tick after a handler that has left the settings, or has not.
LEMMA TickOutcome ==
  ASSUME NEW u, NEW b, Apart(u, b), NEW s, NEW input, NEW found,
         AtRest(s, u, b) \/ (Usable(s, {}) /\ s.toolbar # "browse" /\ s.href = Nothing)
  PROVE  Outcome(Tick(s, input, Nothing, found), u, b)
<1>1. CASE AtRest(s, u, b)
  BY <1>1, TickSettled DEF Outcome
<1>2. CASE Usable(s, {}) /\ s.toolbar # "browse" /\ s.href = Nothing
  BY <1>2, TickQuiet DEF Outcome
<1> QED BY <1>1, <1>2

\* A load.
LEMMA LoadOutcome ==
  ASSUME NEW u, NEW b, Apart(u, b), NEW s, Within(s, u, b), s.updater # "CANCELLED",
         NEW a \in Pages, NEW input, NEW found
  PROVE  Outcome(Tick(DoUri(s, a, found), input, Nothing, found), u, b)
<1> DEFINE t == DoUri(s, a, found)
<1>1. Usable(t, {})
  BY DoUriUsable DEF Within
<1>2. AtRest(t, u, b) \/ (t.toolbar = s.toolbar /\ t.href = s.href)
  BY DoUriLeft DEF Within, Usable
<1> HIDE DEF t
<1>3. AtRest(t, u, b) \/ (Usable(t, {}) /\ t.toolbar # "browse" /\ t.href = Nothing)
  BY <1>1, <1>2 DEF Within
<1>4. Outcome(Tick(t, input, Nothing, found), u, b)
  BY <1>3, TickOutcome
<1> QED BY <1>4 DEF t

\* The settings end.
LEMMA EndOutcome ==
  ASSUME NEW u, NEW b, Apart(u, b), NEW s, Within(s, u, b), NEW input, NEW found
  PROVE  Outcome(Tick(EndBookmark(s), input, Nothing, found), u, b)
<1> DEFINE t == EndBookmark(s)
<1>1. Ending(s, t)
  BY EndBookmarkEnds DEF Within, Usable
<1> HIDE DEF t
<1>2. AtRest(t, u, b)
  BY <1>1, EndsSettled DEF Within
<1>3. Outcome(Tick(t, input, Nothing, found), u, b)
  BY <1>2, TickOutcome
<1> QED BY <1>3 DEF t

\* Another page that is not sent.
LEMMA CalmLoad ==
  ASSUME NEW s, Usable(s, {}), s.updater # "CANCELLED", NEW a, a # "post", NEW found
  PROVE  LET t == DoUri(s, a, found)
         IN Usable(t, {}) /\ t.toolbar = s.toolbar /\ t.href = s.href
<1> DEFINE r == SetUri(s, a)
           t == HandleUri(r, a, found)
<1>1. DOMAIN r = Fields /\ r.toolbar = s.toolbar /\ r.href = s.href /\ r.updater = s.updater
  BY SetUriGives DEF Usable
<1> HIDE DEF r
<1>2. Calm(r, t)
  BY <1>1, HandleUriGives
<1> HIDE DEF t
<1>3. t.toolbar = s.toolbar /\ t.href = s.href
  BY <1>1, <1>2 DEF Calm
<1>4. Usable(DoUri(s, a, found), {})
  BY DoUriUsable
<1> QED BY <1>3, <1>4 DEF DoUri, t, r

\* The bookmarks are shown with their toolbar.
LEMMA BookmarksShown ==
  ASSUME NEW s, NEW w, Usable(s, w), s.updater # "CANCELLED", NEW found
  PROVE  /\ BookmarkUrl(s, found).toolbar = "bookmark" /\ BookmarkUrl(s, found).href = s.href
         /\ Usable(s, {}) => /\ ShowBookmarkPage(s, found).toolbar = s.toolbar
                             /\ ShowBookmarkPage(s, found).href = s.href
<1>1. ASSUME NEW r, Usable(r, {}), r.updater # "CANCELLED"
      PROVE  ShowBookmarkPage(r, found).toolbar = r.toolbar /\ ShowBookmarkPage(r, found).href = r.href
  <2> DEFINE t == [r EXCEPT !.enabled = FALSE]
  <2>1. Usable(t, {}) /\ t.updater = r.updater /\ t.toolbar = r.toolbar /\ t.href = r.href
    BY <1>1 DEF Usable, Fields
  <2> HIDE DEF t
  <2>2. DoUri(t, "bookmarks", found).toolbar = r.toolbar /\ DoUri(t, "bookmarks", found).href = r.href
    BY <1>1, <2>1, CalmLoad
  <2> QED BY <2>2 DEF ShowBookmarkPage, t
<1> DEFINE c == SetToolbar(s, "bookmark")
           m == [c EXCEPT !.state = "BOOKMARK"]
<1>2. Usable(c, w) /\ c.bar /\ c.toolbar = "bookmark" /\ c.href = s.href /\ c.updater = s.updater
  BY SetToolbarUsable DEF SetToolbar, Usable, Fields
<1> HIDE DEF c
<1>3. Usable(m, {}) /\ m.toolbar = "bookmark" /\ m.href = s.href /\ m.updater = s.updater
  BY <1>2 DEF Usable, Fields, Entering
<1> HIDE DEF m
<1>4. ShowBookmarkPage(m, found).toolbar = "bookmark" /\ ShowBookmarkPage(m, found).href = s.href
  BY <1>1, <1>3
<1> QED BY <1>1, <1>4 DEF BookmarkUrl, m, c

\* A link is followed, from the bookmarks as well.
LEMMA LinkOutcome ==
  ASSUME NEW u, NEW b, Apart(u, b), NEW s, Usable(s, {}), Left(s, u, b), s.toolbar # "browse",
         s.keyboard = "none", InHistory(s), s.updater # "CANCELLED",
         s.href \in Pages \cup {Nothing}, NEW input, NEW found
  PROVE  Outcome(Tick(s, input, Nothing, found), u, b)
<1>1. CASE s.href = Nothing
  BY <1>1, TickOutcome
<1>2. CASE s.href # Nothing /\ s.state = "BOOKMARK"
  <2> DEFINE t == EndBookmark(s)
             r == [t EXCEPT !.href = Nothing]
             v == DoUri(r, s.href, found)
  <2>1. Tick(s, input, Nothing, found) = LinkStep(s, found)
    BY <1>2, TickLink DEF Entering
  <2>2. LinkStep(s, found) \in {v, t}
    BY <1>2 DEF LinkStep
  <2>3. Ending(s, t)
    BY EndBookmarkEnds DEF Usable
  <2> HIDE DEF t
  <2>4. AtRest(t, u, b)
    BY <2>3, EndsSettled
  <2>5. DOMAIN r = Fields /\ Settled(r, u, b) /\ r.updater = "none"
    BY <2>4 DEF AtRest, Settled, Fields
  <2> HIDE DEF r
  <2>6. Settled(v, u, b) \/ Followed(v, u)
    BY <1>2, <2>5, DoUriFollows
  <2> HIDE DEF v
  <2> QED BY Zenon, <2>1, <2>2, <2>4, <2>6 DEF Outcome, AtRest
<1>3. CASE s.href # Nothing /\ s.state # "BOOKMARK"
  <2> DEFINE r == [s EXCEPT !.href = Nothing]
             v == DoUri(r, s.href, found)
  <2>1. Tick(s, input, Nothing, found) = LinkStep(s, found)
    BY TickLink DEF Usable
  <2>2. LinkStep(s, found) = v
    BY <1>3 DEF LinkStep
  <2>3. /\ DOMAIN r = Fields /\ Left(r, u, b) /\ r.updater # "CANCELLED" /\ r.toolbar = s.toolbar
        /\ r.href = Nothing
    BY DEF Usable, Fields, Left
  <2> HIDE DEF r
  <2>4. AtRest(v, u, b) \/ v.toolbar = s.toolbar
    BY <1>3, <2>3, DoUriLeft
  <2> HIDE DEF v
  <2> QED BY <2>1, <2>2, <2>4 DEF Outcome, AtRest
<1> QED BY <1>1, <1>2, <1>3

\* Between two touches, in the settings.
InSettings(under, behind) ==
  /\ Apart(under, behind) /\ Within(ui, under, behind)
  /\ InHistory(ui) /\ ui.history \in Seq(Pages) /\ ui.updater # "CANCELLED"

\* What the history is made of.
LEMMA SettingsSplit ==
  ASSUME Usable(ui, {}), ui.toolbar # "browse", ui.href = Nothing, InHistory(ui),
         ui.history \in Seq(Pages), ui.updater # "CANCELLED",
         NEW u, u = WithoutConfig(SubSeq(ui.history, 1, ui.position)),
         NEW b, b = SubSeq(ui.history, ui.position + 1, Len(ui.history)), Free(b)
  PROVE  InSettings(u, b)
<1> DEFINE h == ui.history
           n == ui.position
           x == SubSeq(h, 1, n)
<1>1. n \in 1 .. Len(h) /\ Len(h) \in Nat
  BY LenProperties DEF InHistory
<1>2. x \in Seq(Pages) /\ Len(x) = n
  <2>1. \A i \in 1 .. n : h[i] \in Pages
    BY <1>1, ElementOfSeq
  <2>2. 1 \in Int /\ n \in Int /\ Len(x) = n
    BY <1>1, SubSeqProperties
  <2> QED BY <1>1, <2>1, <2>2, SubSeqProperties
<1>3. b \in Seq(Pages) /\ x \o b = h
  <2>1. \A i \in n + 1 .. Len(h) : h[i] \in Pages
    BY <1>1, ElementOfSeq
  <2>2. b \in Seq(Pages)
    BY <1>1, <2>1, SubSeqProperties
  <2>3. h = SubSeq(h, 1, Len(h))
    BY SubSeqFull
  <2>4. SubSeq(h, 1, n) \o SubSeq(h, n + 1, Len(h)) = SubSeq(h, 1, Len(h))
    <3> DEFINE l == Len(h)
    <3>1. h \in Seq(Pages) /\ 1 \in 1 .. l + 1 /\ n \in 1 - 1 .. l /\ l \in n .. l
      BY <1>1
    <3> HIDE DEF h, n
    <3> QED BY <3>1, ConcatAdjacentSubSeq
  <2> QED BY <2>2, <2>3, <2>4
<1>4. u \in Seq(Pages) /\ Free(u)
  BY <1>2, WithoutIsFree
<1>5. Left(ui, u, b)
  BY <1>2, <1>3 DEF Left
<1> QED BY <1>3, <1>4, <1>5 DEF InSettings, Apart, Within

LEMMA KeysOutcome ==
  ASSUME NEW u, NEW b, InSettings(u, b), Keys
  PROVE  Outcome(ui', u, b)
<1>1. /\ Apart(u, b) /\ Usable(ui, {}) /\ Within(ui, u, b) /\ ui.updater # "CANCELLED"
      /\ ui.toolbar # "browse" /\ ui.href = Nothing /\ Uri(ui) \in Pages
  BY ElementOfSeq DEF InSettings, Within, Uri, InHistory
<1>2. PICK found \in Found(ui) :
        \/ ui' = EnterUrl(ui)
        \/ ui' = Tick(BookmarkUrl(ui, found), Nothing, Nothing, found)
        \/ ui' = Tick(DoUri(Preferences(ui, found), "index", found), Nothing, Nothing, found)
        \/ ui' = Tick(DoUri(ui, Uri(ui), found), Nothing, Nothing, found)
  BY <1>1 DEF Keys, Become
<1>3. CASE ui' = EnterUrl(ui)
  <2>1. ui'.toolbar = ui.toolbar
    BY <1>1, <1>3 DEF EnterUrl, Usable, Fields
  <2> QED BY <1>1, <2>1 DEF Outcome
<1>4. CASE ui' = Tick(BookmarkUrl(ui, found), Nothing, Nothing, found)
  <2> DEFINE t == BookmarkUrl(ui, found)
  <2>1. Usable(t, {}) /\ t.toolbar = "bookmark" /\ t.href = Nothing
    BY <1>1, BookmarksShown, BookmarkUrlUsable
  <2> HIDE DEF t
  <2>2. Outcome(Tick(t, Nothing, Nothing, found), u, b)
    BY <1>1, <2>1, TickOutcome
  <2> QED BY <1>4, <2>2 DEF t
<1>5. CASE ui' = Tick(DoUri(Preferences(ui, found), "index", found), Nothing, Nothing, found)
  <2> DEFINE s == SetToolbar(ui, "prefs")
             r == DoUri(s, "index", found)
             t == DoUri(r, "index", found)
  <2>0. "index" \in Pages /\ IsConfig("index") /\ "index" # "post"
    BY DEF Pages, Settings, IsConfig
  <2>1. /\ Usable(s, {}) /\ s.toolbar = "prefs" /\ s.href = Nothing /\ Left(s, u, b)
        /\ s.updater # "CANCELLED" /\ DOMAIN s = Fields
    BY <1>1, SetToolbarUsable DEF SetToolbar, Within, Left, Usable, Fields
  <2> HIDE DEF s
  <2>2. Usable(r, {}) /\ r.toolbar = "prefs" /\ r.href = Nothing
    BY <2>0, <2>1, CalmLoad
  <2>3. AtRest(r, u, b) \/ Left(r, u, b)
    BY <1>1, <2>0, <2>1, DoConfigLeft
  <2>4. Left(r, u, b) /\ DOMAIN r = Fields
    BY <1>1, <2>2, <2>3, SettledIsLeft DEF AtRest, Usable
  <2> HIDE DEF r
  <2>5. AtRest(t, u, b) \/ (t.toolbar = "prefs" /\ t.href = Nothing)
    BY <1>1, <2>0, <2>2, <2>4, DoConfigLeft
  <2>6. Usable(t, {})
    BY <2>2, DoUriUsable
  <2> HIDE DEF t
  <2>7. Outcome(Tick(t, Nothing, Nothing, found), u, b)
    BY <1>1, <2>5, <2>6, TickOutcome
  <2> QED BY <1>5, <2>7 DEF Preferences, t, r, s
<1>6. CASE ui' = Tick(DoUri(ui, Uri(ui), found), Nothing, Nothing, found)
  <2>1. \A a \in Pages : Outcome(Tick(DoUri(ui, a, found), Nothing, Nothing, found), u, b)
    BY <1>1, LoadOutcome
  <2> QED BY <1>1, <1>6, <2>1
<1> QED BY <1>2, <1>3, <1>4, <1>5, <1>6

LEMMA ButtonsOutcome ==
  ASSUME NEW u, NEW b, InSettings(u, b),
         BrowseButton \/ BookmarkButton \/ PrefsButton \/ CookieButton \/ UpdaterButton
  PROVE  Outcome(ui', u, b)
<1>1. /\ Apart(u, b) /\ Usable(ui, {}) /\ Within(ui, u, b) /\ ui.updater # "CANCELLED"
      /\ ui.toolbar # "browse" /\ ui.href = Nothing
  BY DEF InSettings, Within
<1>2. \/ \E found : ui' = Tick(EndBookmark(ui), Nothing, Nothing, found)
      \/ \E found : ui' = Tick(ShowBookmarkPage(ui, found), Nothing, Nothing, found)
      \/ ui' \in {AddCookie(ui), EditCookie(ui), [ui EXCEPT !.updater = "DO_UPDATE", !.asked = FALSE]}
  BY <1>1 DEF BrowseButton, BookmarkButton, PrefsButton, CookieButton, UpdaterButton, Become
<1>3. ASSUME NEW found PROVE Outcome(Tick(EndBookmark(ui), Nothing, Nothing, found), u, b)
  BY <1>1, EndOutcome
<1>4. ASSUME NEW found PROVE Outcome(Tick(ShowBookmarkPage(ui, found), Nothing, Nothing, found), u, b)
  <2> DEFINE t == ShowBookmarkPage(ui, found)
  <2>1. Usable(t, {}) /\ t.toolbar # "browse" /\ t.href = Nothing
    BY <1>1, BookmarksShown, ShowBookmarkPageUsable
  <2> HIDE DEF t
  <2>2. Outcome(Tick(t, Nothing, Nothing, found), u, b)
    BY <1>1, <2>1, TickOutcome
  <2> QED BY <2>2 DEF t
<1>5. AddCookie(ui).toolbar = ui.toolbar
  BY <1>1 DEF AddCookie, ClearConfigHistory, Forget, Usable, Fields
<1>6. EditCookie(ui).toolbar = ui.toolbar
  BY <1>1 DEF EditCookie, Usable, Fields
<1>7. [ui EXCEPT !.updater = "DO_UPDATE", !.asked = FALSE].toolbar = ui.toolbar
  BY <1>1 DEF Usable, Fields
<1>8. CASE ui' \in {AddCookie(ui), EditCookie(ui), [ui EXCEPT !.updater = "DO_UPDATE", !.asked = FALSE]}
  <2>1. ui'.toolbar = ui.toolbar
    BY Zenon, <1>5, <1>6, <1>7, <1>8
  <2> QED BY <1>1, <2>1 DEF Outcome
<1> QED BY <1>2, <1>3, <1>4, <1>8

LEMMA LinksOutcome ==
  ASSUME NEW u, NEW b, InSettings(u, b), bookmarks \in Seq(Pages),
         ClickLink \/ LinkPopup \/ Frame
  PROVE  Outcome(ui', u, b)
<1>1. /\ Apart(u, b) /\ Usable(ui, {}) /\ Left(ui, u, b) /\ ui.updater # "CANCELLED"
      /\ ui.toolbar # "browse" /\ ui.href = Nothing /\ InHistory(ui)
  BY DEF InSettings, Within
<1>2. ui.keyboard = "none"
  BY DEF ClickLink, LinkPopup, Frame, Browsing
<1>3. Targets \subseteq Pages
  <2>1. ToSet(bookmarks) \subseteq Pages
    BY ElementOfSeq DEF ToSet
  <2> QED BY <2>1 DEF Targets, Pages
<1>4. \/ \E to \in Pages : \E found : ui' = Tick([ui EXCEPT !.href = to, !.popup = "none"], Nothing, Nothing, found)
      \/ \E to \in Pages \cup {Nothing} : \E found : ui' = Tick([ui EXCEPT !.href = to], Nothing, Nothing, found)
      \/ ui' = [ui EXCEPT !.popup = "link"]
  <2>1. CASE ClickLink
    BY <1>3, <2>1 DEF ClickLink, Become
  <2>2. CASE LinkPopup
    BY <2>2 DEF LinkPopup, Become, Pages
  <2>3. CASE Frame
    BY <1>1, <2>3 DEF Frame, Become, Pages
  <2> QED BY <2>1, <2>2, <2>3
<1>5. ASSUME NEW s, DOMAIN s = Fields, s.history = ui.history, s.position = ui.position, s.toolbar = ui.toolbar,
             s.keyboard = "none", s.updater = ui.updater, s.href \in Pages \cup {Nothing}, Usable(s, {}),
             NEW found
      PROVE  Outcome(Tick(s, Nothing, Nothing, found), u, b)
  <2>1. Left(s, u, b) /\ InHistory(s)
    BY <1>1, <1>5 DEF Left, InHistory
  <2> QED BY <1>1, <1>5, <2>1, LinkOutcome
<1>6. ASSUME NEW to \in Pages, NEW found,
             ui' = Tick([ui EXCEPT !.href = to, !.popup = "none"], Nothing, Nothing, found)
      PROVE  Outcome(ui', u, b)
  <2> DEFINE s == [ui EXCEPT !.href = to, !.popup = "none"]
  <2>1. /\ DOMAIN s = Fields /\ s.history = ui.history /\ s.position = ui.position /\ s.toolbar = ui.toolbar
        /\ s.keyboard = "none" /\ s.updater = ui.updater /\ s.href \in Pages
    BY <1>1, <1>2 DEF Usable, Fields
  <2>2. Usable(s, {})
    BY <1>1, EntrySet
  <2> HIDE DEF s
  <2>3. Outcome(Tick(s, Nothing, Nothing, found), u, b)
    BY <1>5, <2>1, <2>2
  <2> QED BY <1>6, <2>3 DEF s
<1>7. ASSUME NEW to \in Pages \cup {Nothing}, NEW found,
             ui' = Tick([ui EXCEPT !.href = to], Nothing, Nothing, found)
      PROVE  Outcome(ui', u, b)
  <2> DEFINE s == [ui EXCEPT !.href = to]
  <2>1. /\ DOMAIN s = Fields /\ s.history = ui.history /\ s.position = ui.position /\ s.toolbar = ui.toolbar
        /\ s.keyboard = "none" /\ s.updater = ui.updater /\ s.href \in Pages \cup {Nothing}
    BY <1>1, <1>2 DEF Usable, Fields
  <2>2. Usable(s, {})
    BY <1>1, EntrySet
  <2> HIDE DEF s
  <2>3. Outcome(Tick(s, Nothing, Nothing, found), u, b)
    BY <1>5, <2>1, <2>2
  <2> QED BY <1>7, <2>3 DEF s
<1>8. CASE ui' = [ui EXCEPT !.popup = "link"]
  <2>1. ui'.toolbar = ui.toolbar
    BY <1>1, <1>8 DEF Usable, Fields
  <2> QED BY <1>1, <2>1 DEF Outcome
<1> QED BY <1>4, <1>6, <1>7, <1>8

\* The popups, the fields, and a download that goes on.
LEMMA OthersOutcome ==
  ASSUME NEW u, NEW b, InSettings(u, b),
         HoldLink \/ EditPopup \/ HidePopup \/ EditField \/ NameDownload \/ DownloadEnds
  PROVE  Outcome(ui', u, b)
<1>1. /\ Apart(u, b) /\ Usable(ui, {}) /\ DOMAIN ui = Fields /\ ui.updater # "CANCELLED"
      /\ ui.toolbar # "browse" /\ ui.href = Nothing
  BY DEF InSettings, Within, Usable
<1>2. ui'.toolbar = ui.toolbar => Outcome(ui', u, b)
  BY <1>1 DEF Outcome
<1>3. CASE HoldLink \/ HidePopup \/ EditField
  <2>1. ui'.toolbar = ui.toolbar
    BY <1>1, <1>3 DEF HoldLink, HidePopup, EditField, Become, Fields
  <2> QED BY <1>2, <2>1
<1>4. CASE EditPopup
  <2> DEFINE s == [ui EXCEPT !.popup = "none"]
  <2>1. Usable(s, {}) /\ s.updater # "CANCELLED" /\ s.href = Nothing
    BY <1>1, EntrySet DEF Fields
  <2>2. CASE ui' = [EditBookmark(ui) EXCEPT !.popup = "none"]
    <3>1. ui'.toolbar = ui.toolbar
      BY <1>1, <2>2 DEF EditBookmark, EnterUrl, Fields
    <3> QED BY <1>2, <3>1
  <2>3. ASSUME NEW found, ui' = Tick(BookmarkUrl(s, found), Nothing, Nothing, found)
        PROVE  Outcome(ui', u, b)
    <3> DEFINE t == BookmarkUrl(s, found)
    <3> HIDE DEF s
    <3>1. Usable(t, {}) /\ t.toolbar = "bookmark" /\ t.href = Nothing
      BY <2>1, BookmarksShown, BookmarkUrlUsable
    <3> HIDE DEF t
    <3>2. Outcome(Tick(t, Nothing, Nothing, found), u, b)
      BY <1>1, <3>1, TickOutcome
    <3> QED BY <2>3, <3>2 DEF t
  <2> QED BY <1>4, <2>2, <2>3 DEF EditPopup, Become
<1>5. CASE NameDownload
  <2>1. DOMAIN Closed = Fields /\ Closed.toolbar = ui.toolbar
    BY <1>1 DEF Closed, Fields
  <2>2. DOMAIN SaveStep(Closed) = Fields /\ SaveStep(Closed).toolbar = ui.toolbar
    BY <2>1 DEF SaveStep, DoSaveAs, Fields
  <2>3. ui'.toolbar = ui.toolbar
    BY <1>5, <2>2 DEF NameDownload, Become, Fields
  <2> QED BY <1>2, <2>3
<1>6. CASE DownloadEnds
  <2>1. PICK found : LET t == Queue(LoadedHtml(ui, "download", found))
                     IN ui' = [t EXCEPT !.loading = FALSE, !.form = FALSE,
                                        !.state = IF ui.form THEN "BROWSE" ELSE @]
    BY <1>6 DEF DownloadEnds, Become
  <2> DEFINE t == Queue(LoadedHtml(ui, "download", found))
  <2>2. Calm(ui, t)
    BY <1>1, LoadedHtmlShows DEF Shows
  <2>3. ui' = [t EXCEPT !.loading = FALSE, !.form = FALSE, !.state = IF ui.form THEN "BROWSE" ELSE @]
    BY <2>1
  <2> HIDE DEF t
  <2>4. ui'.toolbar = ui.toolbar
    BY <2>2, <2>3 DEF Calm, Fields
  <2> QED BY <1>2, <2>4
<1> QED BY <1>3, <1>4, <1>5, <1>6

\* What a form asks for, in the settings or under them.
LEMMA FormOutcome ==
  ASSUME NEW u, NEW b, InSettings(u, b), SubmitForm
  PROVE  Outcome(ui', u, b)
<1>1. /\ Apart(u, b) /\ Usable(ui, {}) /\ Left(ui, u, b) /\ ui.updater # "CANCELLED"
      /\ ui.toolbar # "browse" /\ ui.href = Nothing /\ DOMAIN ui = Fields
  BY DEF InSettings, Within, Usable
<1>2. PICK form \in Pages, found \in Loads \cup Updates : ui' = Tick(ui, Nothing, form, found)
  BY DEF SubmitForm, Become, Pages, Settings, Found
<1> DEFINE t == DoUri(ui, form, found)
<1>3. CASE form = Nothing
  BY <1>1, <1>2, <1>3, TickOutcome
<1>4. CASE form # Nothing
  <2>1. Tick(ui, Nothing, form, found) = FormStep(ui, form, found)
    <3>1. EnterStep(ui, Nothing, found) = ui /\ EditStep(ui, found) = ui /\ SaveStep(ui) = ui
      BY <1>1, QuietSteps
    <3>2. LinkStep(ui, found) = ui
      BY <1>1 DEF LinkStep
    <3> QED BY <3>1, <3>2 DEF Tick
  <2>2. ui' \in {[t EXCEPT !.form = TRUE], [t EXCEPT !.state = "BROWSE"]}
    BY <1>2, <1>4, <2>1 DEF FormStep
  <2>3. AtRest(t, u, b) \/ (DOMAIN t = Fields /\ t.toolbar = ui.toolbar)
    BY <1>1, DoUriLeft
  <2> HIDE DEF t
  <2>4. ui'.toolbar = t.toolbar /\ ui'.history = t.history /\ ui'.position = t.position
    BY <2>2, <2>3 DEF AtRest, Fields
  <2> QED BY <1>1, <2>3, <2>4 DEF Outcome, AtRest, Settled
<1> QED BY <1>3, <1>4

\* The keyboard closes.
LEMMA CloseOutcome ==
  ASSUME NEW u, NEW b, InSettings(u, b), CloseKeyboard
  PROVE  Outcome(ui', u, b)
<1>1. /\ Apart(u, b) /\ Usable(ui, {}) /\ Left(ui, u, b) /\ ui.updater # "CANCELLED"
      /\ ui.toolbar # "browse" /\ ui.href = Nothing /\ DOMAIN ui = Fields
  BY DEF InSettings, Within, Usable
<1>2. PICK input \in Pages \cup {Nothing}, found \in Loads \cup Updates : ui' = Tick(Closed, input, Nothing, found)
  BY DEF CloseKeyboard, Become, Pages, Settings, Found
<1> DEFINE s == Closed
<1>3. /\ DOMAIN s = Fields /\ s.toolbar # "browse" /\ s.href = Nothing /\ s.updater # "CANCELLED"
      /\ s.state = ui.state /\ s.keyboard = "none" /\ Left(s, u, b)
  BY <1>1 DEF Closed, Fields, Left
<1>4. s.loading = FALSE /\ (s.state \notin Entering => s.bar)
  BY <1>1 DEF Closed, Fields, CloseKeyboard, Usable
<1>5. ui' = Tick(s, input, Nothing, found)
  BY <1>2
<1> HIDE DEF s
<1>6. ASSUME NEW r, Usable(r, {}), ui' = Tick(r, input, Nothing, found),
             AtRest(r, u, b) \/ (r.toolbar # "browse" /\ r.href = Nothing)
      PROVE  Outcome(ui', u, b)
  BY <1>1, <1>6, TickOutcome
<1>7. CASE s.state \notin Entering
  <2>1. Usable(s, {})
    BY <1>3, <1>4, <1>7 DEF Usable
  <2> QED BY <1>3, <1>5, <1>6, <2>1
<1>8. CASE s.state = "ENTER_URL"
  <2> DEFINE t == [s EXCEPT !.bar = TRUE, !.state = "BROWSE"]
             r == EnterStep(s, input, found)
             v == DoUri(t, input, found)
  <2>1. /\ Usable(t, {}) /\ t.toolbar # "browse" /\ t.href = Nothing /\ t.updater # "CANCELLED"
        /\ DOMAIN t = Fields /\ Left(t, u, b)
    BY <1>3, <1>4 DEF Usable, Fields, Entering, Left
  <2>2. (input = Nothing /\ r = t) \/ (input \in Pages /\ r = v)
    BY <1>3, <1>8 DEF EnterStep, Answered
  <2> HIDE DEF t
  <2>3. Usable(v, {}) /\ (input \in Pages => AtRest(v, u, b) \/ (v.toolbar = t.toolbar /\ v.href = t.href))
    BY <1>1, <2>1, DoUriLeft, DoUriUsable
  <2> HIDE DEF v
  <2>4. Usable(r, {}) /\ (AtRest(r, u, b) \/ (r.toolbar # "browse" /\ r.href = Nothing))
    BY <2>1, <2>2, <2>3
  <2>5. Tick(s, input, Nothing, found) = FormStep(LinkStep(SaveStep(EditStep(r, found)), found), Nothing, found)
    BY DEF Tick
  <2> HIDE DEF r
  <2>6. Tick(s, input, Nothing, found) = Tick(r, input, Nothing, found)
    BY <2>4, <2>5, QuietSteps DEF Tick
  <2> QED BY <1>5, <1>6, <2>4, <2>6
<1>9. CASE s.state = "EDIT_BOOKMARK"
  <2> DEFINE t == [s EXCEPT !.bar = TRUE]
             r == BookmarkUrl(t, found)
  <2>1. Usable(t, Entering) /\ t.href = Nothing /\ t.updater # "CANCELLED"
    BY <1>3, <1>4, <1>9 DEF Usable, Fields, Entering
  <2>2. EnterStep(s, input, found) = s /\ EditStep(s, found) = r
    BY <1>3, <1>9 DEF EnterStep, EditStep, Answered
  <2> HIDE DEF t
  <2>3. Usable(r, {}) /\ r.toolbar # "browse" /\ r.href = Nothing
    BY <2>1, BookmarksShown, BookmarkUrlUsable
  <2> HIDE DEF r
  <2>4. Tick(s, input, Nothing, found) = Tick(r, input, Nothing, found)
    BY <2>2, <2>3, QuietSteps DEF Tick
  <2> QED BY <1>5, <1>6, <2>3, <2>4
<1>10. CASE s.state \in {"SAVE_CURRENT_FILE", "SAVE_DOWNLOADING"}
  <2> DEFINE r == [s EXCEPT !.bar = TRUE, !.state = "BROWSE"]
  <2>1. Usable(r, {}) /\ r.toolbar # "browse" /\ r.href = Nothing
    BY <1>3, <1>4 DEF Usable, Fields, Entering
  <2>2. EnterStep(s, input, found) = s /\ EditStep(s, found) = s
    BY <1>10 DEF EnterStep, EditStep, Answered
  <2>3. SaveStep(s) = r
    BY <1>3, <1>10 DEF SaveStep, DoSaveAs, Answered
  <2> HIDE DEF r
  <2>4. Tick(s, input, Nothing, found) = Tick(r, input, Nothing, found)
    BY <2>1, <2>2, <2>3, QuietSteps DEF Tick
  <2> QED BY <1>5, <1>6, <2>1, <2>4
<1> QED BY <1>7, <1>8, <1>9, <1>10 DEF Entering

\* Every step.
LEMMA SettingsOutcome ==
  ASSUME NEW u, NEW b, InSettings(u, b), bookmarks \in Seq(Pages), [Next]_vars
  PROVE  Outcome(ui', u, b)
<1>1. CASE UNCHANGED vars
  BY <1>1 DEF vars, Outcome, InSettings, Within
<1>2. CASE Keys
  BY <1>2, KeysOutcome
<1>3. CASE BrowseButton \/ BookmarkButton \/ PrefsButton \/ CookieButton \/ UpdaterButton
  BY <1>3, ButtonsOutcome
<1>4. CASE ClickLink \/ LinkPopup \/ Frame
  BY <1>4, LinksOutcome
<1>5. CASE HoldLink \/ EditPopup \/ HidePopup \/ EditField \/ NameDownload \/ DownloadEnds
  BY <1>5, OthersOutcome
<1>6. CASE SubmitForm
  BY <1>6, FormOutcome
<1>7. CASE CloseKeyboard
  BY <1>7, CloseOutcome
<1> QED BY <1>1, <1>2, <1>3, <1>4, <1>5, <1>6, <1>7 DEF Next

----------------------------------------------------------------------------
(* The invariant                                                           *)

\* A view with n bookmarks.  Between EditPopup and the end of the keyboard it is not one of
\* these, nor when addCookie finds nothing under the settings.
Sound(s, n) ==
  /\ DOMAIN s = Fields
  /\ s.history \in Seq(Pages) /\ s.href \in Pages \cup {Nothing}
  /\ s.popup = "edit" => s.chosen \in 1 .. n
  /\ s.state # "EDIT_BOOKMARK"
  /\ s.toolbar # "browse" => InHistory(s)

\* No link is left to follow in the settings.
NoLink(s) == s.toolbar # "browse" => s.href = Nothing

\* Both, when they held before.
Stays(s, t, n) == Sound(s, n) => Sound(t, n) /\ (NoLink(s) => NoLink(t))

LEMMA CalmStays ==
  ASSUME NEW s, NEW t, NEW n, Calm(s, t)
  PROVE  Stays(s, t, n)
BY DEF Calm, SamePopup, Stays, Sound, NoLink, InHistory

LEMMA EndingStays ==
  ASSUME NEW s, NEW t, NEW n, Ending(s, t)
  PROVE  Stays(s, t, n) /\ NoLink(t)
<1> SUFFICES ASSUME Sound(s, n) PROVE Sound(t, n)
  BY DEF Ending, Stays, NoLink
<1>1. t.history \in Seq(Pages)
  BY WithoutIsFree DEF Ending, Sound
<1>2. Uri(t) \in Pages \cup {Nothing}
  BY <1>1, ElementOfSeq DEF InHistory, Uri
<1>3. t.href \in Pages \cup {Nothing}
  BY <1>2 DEF Ending, Sound
<1>4. t.popup = "edit" => t.chosen \in 1 .. n
  BY DEF Ending, SamePopup, Sound
<1> QED BY <1>1, <1>3, <1>4 DEF Ending, Sound

LEMMA SetUriStays ==
  ASSUME NEW s, NEW n, NEW a \in Pages
  PROVE  Stays(s, SetUri(s, a), n)
<1> SUFFICES ASSUME Sound(s, n)
             PROVE  Sound(SetUri(s, a), n) /\ (NoLink(s) => NoLink(SetUri(s, a)))
  BY DEF Stays
<1> DEFINE t == SetUri(s, a)
           x == SubSeq(s.history, 1, s.position)
<1>1. /\ DOMAIN t = Fields /\ t.toolbar = s.toolbar /\ t.href = s.href /\ t.state = s.state
      /\ t.popup = s.popup /\ t.chosen = s.chosen
  BY SetUriGives DEF Sound
<1>2. \/ t = s
      \/ InHistory(s) /\ t.position = s.position + 1 /\ t.history = Append(x, a)
  BY SetUriGives DEF Sound
<1> HIDE DEF t
<1>3. CASE t = s
  BY <1>3 DEF t
<1>4. CASE InHistory(s) /\ t.position = s.position + 1 /\ t.history = Append(x, a)
  <2>1. x \in Seq(Pages) /\ Len(x) = s.position /\ s.position \in Nat
    <3>1. s.position \in 1 .. Len(s.history) /\ Len(s.history) \in Nat
      BY <1>4, LenProperties DEF InHistory, Sound
    <3>2. \A i \in 1 .. s.position : s.history[i] \in Pages
      BY <3>1, ElementOfSeq DEF Sound
    <3>3. s.position \in Int /\ 1 \in Int
      BY <3>1
    <3> QED BY <3>1, <3>2, <3>3, SubSeqProperties
  <2> HIDE DEF x
  <2>2. t.history \in Seq(Pages) /\ Len(t.history) = s.position + 1
    BY <1>4, <2>1, AppendProperties
  <2>3. InHistory(t)
    BY <1>4, <2>1, <2>2, LenProperties DEF InHistory
  <2>4. Sound(t, n) /\ (NoLink(s) => NoLink(t))
    BY <1>1, <2>2, <2>3 DEF Sound, NoLink
  <2> QED BY <2>4 DEF t
<1> QED BY <1>2, <1>3, <1>4

LEMMA HandleUriStays ==
  ASSUME NEW s, NEW n, NEW address, NEW found
  PROVE  Stays(s, HandleUri(s, address, found), n)
<1> SUFFICES ASSUME DOMAIN s = Fields PROVE Stays(s, HandleUri(s, address, found), n)
  BY DEF Stays, Sound
<1> DEFINE t == HandleUri(s, address, found)
<1>1. Calm(s, t) \/ Ending(s, t)
  BY HandleUriGives
<1> HIDE DEF t
<1>2. Stays(s, t, n)
  BY <1>1, CalmStays, EndingStays
<1> QED BY <1>2 DEF t

LEMMA DoUriStays ==
  ASSUME NEW s, NEW n, NEW a \in Pages, NEW found
  PROVE  Stays(s, DoUri(s, a, found), n)
<1> DEFINE r == SetUri(s, a)
<1>1. Stays(s, r, n)
  BY SetUriStays
<1> HIDE DEF r
<1>2. Stays(r, HandleUri(r, a, found), n)
  BY HandleUriStays
<1> QED BY <1>1, <1>2 DEF DoUri, Stays, r

LEMMA EndBookmarkStays ==
  ASSUME NEW s, NEW n
  PROVE  Stays(s, EndBookmark(s), n)
BY EndBookmarkEnds, EndingStays DEF Stays, Sound

\* The bookmarks, or the settings, of a page.
LEMMA ShownStays ==
  ASSUME NEW s, NEW n, Sound(s, n), NEW found
  PROVE  /\ Sound(ShowBookmarkPage(s, found), n)
         /\ InHistory(s) => Sound(BookmarkUrl(s, found), n) /\ Sound(Preferences(s, found), n)
<1>1. ASSUME NEW r, Sound(r, n) PROVE Sound(ShowBookmarkPage(r, found), n)
  <2> DEFINE t == [r EXCEPT !.enabled = FALSE]
  <2>1. Sound(t, n)
    BY <1>1 DEF Sound, Fields, InHistory
  <2> HIDE DEF t
  <2>2. "bookmarks" \in Pages
    BY DEF Pages
  <2>3. Sound(DoUri(t, "bookmarks", found), n)
    BY <2>1, <2>2, DoUriStays DEF Stays
  <2> QED BY <2>3 DEF ShowBookmarkPage, t
<1>2. ASSUME InHistory(s) PROVE Sound(BookmarkUrl(s, found), n)
  <2> DEFINE t == [SetToolbar(s, "bookmark") EXCEPT !.state = "BOOKMARK"]
  <2>1. Sound(t, n)
    BY <1>2 DEF SetToolbar, Sound, Fields, InHistory
  <2> HIDE DEF t
  <2> QED BY <1>1, <2>1 DEF BookmarkUrl, t
<1>3. ASSUME InHistory(s) PROVE Sound(Preferences(s, found), n)
  <2> DEFINE t == SetToolbar(s, "prefs")
  <2>1. Sound(t, n)
    BY <1>3 DEF SetToolbar, Sound, Fields, InHistory
  <2> HIDE DEF t
  <2>2. "index" \in Pages
    BY DEF Pages, Settings
  <2>3. Sound(DoUri(t, "index", found), n)
    BY <2>1, <2>2, DoUriStays DEF Stays
  <2> QED BY <2>3 DEF Preferences, t
<1> QED BY <1>1, <1>2, <1>3

LEMMA MoveStays ==
  ASSUME NEW s, NEW n, Sound(s, n), s.toolbar = "browse", NEW by, NEW found
  PROVE  Sound(Move(s, by, found), n)
<1> DEFINE t == [s EXCEPT !.position = IF s.enabled THEN @ + by ELSE @]
<1>1. Sound(t, n)
  BY DEF Sound, Fields
<1>2. Move(s, by, found) \in {HandleUri(t, Uri(t), found), s}
  BY DEF Move
<1> HIDE DEF t
<1>3. Sound(HandleUri(t, Uri(t), found), n)
  BY <1>1, HandleUriStays DEF Stays
<1> QED BY <1>2, <1>3

\* After the link none is left in the settings.
LEMMA LinkStepSound ==
  ASSUME NEW s, NEW n, Sound(s, n), NEW found
  PROVE  Sound(LinkStep(s, found), n) /\ NoLink(LinkStep(s, found))
<1> DEFINE t == IF s.state = "BOOKMARK" THEN EndBookmark(s) ELSE s
           r == [t EXCEPT !.href = Nothing]
           v == DoUri(r, s.href, found)
<1>1. CASE s.href = Nothing
  BY <1>1 DEF LinkStep, NoLink
<1>2. CASE s.href # Nothing
  <2>1. s.href \in Pages
    BY <1>2 DEF Sound
  <2>2. Sound(t, n) /\ (t.toolbar = "browse" \/ t = s)
    BY EndBookmarkStays, EndBookmarkEnds DEF Stays, Sound, Ending
  <2>3. LinkStep(s, found) = IF InHistory(t) THEN v ELSE t
    BY <1>2 DEF LinkStep
  <2> HIDE DEF t
  <2>4. Sound(r, n) /\ NoLink(r)
    BY <2>2 DEF Sound, NoLink, Fields, InHistory
  <2> HIDE DEF r
  <2>5. Sound(v, n) /\ NoLink(v)
    BY <2>1, <2>4, DoUriStays DEF Stays
  <2> HIDE DEF v
  <2>6. ~InHistory(t) => NoLink(t)
    BY <2>2 DEF Sound, NoLink
  <2> QED BY <2>2, <2>3, <2>5, <2>6
<1> QED BY <1>1, <1>2

LEMMA FormStepSound ==
  ASSUME NEW s, NEW n, Sound(s, n), NoLink(s), NEW form \in Pages \cup {Nothing}, NEW found
  PROVE  Sound(FormStep(s, form, found), n) /\ NoLink(FormStep(s, form, found))
<1> DEFINE t == DoUri(s, form, found)
<1>1. CASE form = Nothing
  BY <1>1 DEF FormStep
<1>2. CASE form # Nothing
  <2>1. Sound(t, n) /\ NoLink(t)
    BY <1>2, DoUriStays DEF Stays
  <2>2. FormStep(s, form, found) \in {[t EXCEPT !.form = TRUE], [t EXCEPT !.state = "BROWSE"]}
    BY <1>2 DEF FormStep
  <2> HIDE DEF t
  <2>3. /\ Sound([t EXCEPT !.form = TRUE], n) /\ NoLink([t EXCEPT !.form = TRUE])
        /\ Sound([t EXCEPT !.state = "BROWSE"], n) /\ NoLink([t EXCEPT !.state = "BROWSE"])
    BY <2>1 DEF Sound, NoLink, Fields, InHistory
  <2> QED BY <2>2, <2>3
<1> QED BY <1>1, <1>2

\* A tick with nothing entered.
LEMMA TickSound ==
  ASSUME NEW s, NEW n, Sound(s, n), Usable(s, {}), NEW input, NEW form \in Pages \cup {Nothing}, NEW found
  PROVE  Sound(Tick(s, input, form, found), n) /\ NoLink(Tick(s, input, form, found))
<1> DEFINE r == LinkStep(s, found)
<1>1. Tick(s, input, form, found) = FormStep(r, form, found)
  BY QuietSteps DEF Tick
<1>2. Sound(r, n) /\ NoLink(r)
  BY LinkStepSound
<1> HIDE DEF r
<1> QED BY <1>1, <1>2, FormStepSound

\* Between two touches: in the settings the page is one of the history and no link waits,
\* unless nothing is under them and nothing can be done any more.
SettingsInv ==
  /\ IInv
  /\ bookmarks \in Seq(Pages)
  /\ ui.history \in Seq(Pages) /\ ui.href \in Pages \cup {Nothing}
  /\ ui.popup = "edit" => ui.chosen \in 1 .. Len(bookmarks)
  /\ ui.state = "EDIT_BOOKMARK" => InHistory(ui)
  /\ ui.toolbar # "browse" =>
       \/ ui.href = Nothing /\ InHistory(ui)
       \/ ui.keyboard = "none" /\ ~ui.loading /\ ~InHistory(ui)

LEMMA SettingsInvFrom ==
  ASSUME SettingsInv
  PROVE  /\ Usable(ui, {}) /\ DOMAIN ui = Fields /\ Len(bookmarks) \in Nat /\ DOMAIN bookmarks = 1 .. Len(bookmarks)
         /\ Browsing \/ ui.loading => Sound(ui, Len(bookmarks)) /\ NoLink(ui)
         /\ Browsing => InHistory(ui) /\ Uri(ui) \in Pages
<1>1. Usable(ui, {}) /\ DOMAIN ui = Fields /\ Len(bookmarks) \in Nat /\ DOMAIN bookmarks = 1 .. Len(bookmarks)
  BY LenProperties DEF SettingsInv, IInv, Usable
<1>2. Browsing \/ ui.loading => ui.state # "EDIT_BOOKMARK"
  BY <1>1 DEF Usable, Browsing, Entering
<1>3. Browsing \/ ui.loading => (ui.toolbar # "browse" => ui.href = Nothing /\ InHistory(ui))
  BY DEF Browsing, SettingsInv
<1>4. Browsing => InHistory(ui) /\ Uri(ui) \in Pages
  BY ElementOfSeq DEF Browsing, InHistory, Uri, SettingsInv
<1> QED BY <1>1, <1>2, <1>3, <1>4 DEF SettingsInv, Sound, NoLink

\* An action of which both hold after.
LEMMA SettingsInvOf ==
  ASSUME SettingsInv, Next, bookmarks' \in Seq(Pages), NEW n \in Nat, n <= Len(bookmarks'),
         Sound(ui', n), NoLink(ui')
  PROVE  SettingsInv'
<1>1. IInv'
  BY StepOK DEF SettingsInv
<1>2. Len(bookmarks') \in Nat
  BY LenProperties
<1>3. ui'.popup = "edit" => ui'.chosen \in 1 .. Len(bookmarks')
  BY <1>2 DEF Sound
<1>4. ui'.toolbar # "browse" => ui'.href = Nothing /\ InHistory(ui)'
  BY DEF Sound, NoLink, InHistory
<1> QED BY <1>1, <1>3, <1>4 DEF SettingsInv, Sound

\* One that ends with a tick.
LEMMA TickInv ==
  ASSUME SettingsInv, Next, bookmarks' \in Seq(Pages), NEW n \in Nat, n <= Len(bookmarks'),
         NEW s, Sound(s, n), Usable(s, {}), NEW input, NEW form \in Pages \cup {Nothing}, NEW found,
         ui' = Tick(s, input, form, found)
  PROVE  SettingsInv'
<1>1. Sound(ui', n) /\ NoLink(ui')
  BY TickSound
<1> QED BY <1>1, SettingsInvOf

LEMMA KeysSettings ==
  ASSUME SettingsInv, Keys
  PROVE  SettingsInv'
<1> DEFINE n == Len(bookmarks)
<1>1. /\ Usable(ui, {}) /\ DOMAIN ui = Fields /\ n \in Nat /\ Sound(ui, n) /\ NoLink(ui)
      /\ InHistory(ui) /\ Uri(ui) \in Pages
  BY SettingsInvFrom DEF Keys
<1>2. Next /\ bookmarks' = bookmarks /\ bookmarks' \in Seq(Pages) /\ n <= Len(bookmarks')
  BY <1>1 DEF Next, Keys, SettingsInv
<1> HIDE DEF n
<1>3. ASSUME NEW s, NEW found, Sound(s, n), Usable(s, {}), ui' = Tick(s, Nothing, Nothing, found)
      PROVE  SettingsInv'
  BY <1>1, <1>2, <1>3, TickInv
<1>4. PICK found \in Found(ui) :
        \/ ui' = EnterUrl(ui)
        \/ ui' = Tick(BookmarkUrl(ui, found), Nothing, Nothing, found)
        \/ ui' = Tick(DoUri(Preferences(ui, found), "index", found), Nothing, Nothing, found)
        \/ ui' = Tick(DoUri(ui, Uri(ui), found), Nothing, Nothing, found)
        \/ ui.toolbar = "browse" /\ \E by \in {-1, 1} : ui' = Tick(Move(ui, by, found), Nothing, Nothing, found)
  BY DEF Keys, Become
<1>5. CASE ui' = EnterUrl(ui)
  <2>1. Sound(EnterUrl(ui), n) /\ NoLink(EnterUrl(ui))
    BY <1>1 DEF EnterUrl, Sound, NoLink, Fields, InHistory
  <2> QED BY <1>1, <1>2, <1>5, <2>1, SettingsInvOf
<1>6. CASE ui' = Tick(BookmarkUrl(ui, found), Nothing, Nothing, found)
  <2>1. Sound(BookmarkUrl(ui, found), n) /\ Usable(BookmarkUrl(ui, found), {})
    BY <1>1, ShownStays, BookmarkUrlUsable
  <2> QED BY <1>3, <1>6, <2>1
<1>7. CASE ui' = Tick(DoUri(Preferences(ui, found), "index", found), Nothing, Nothing, found)
  <2> DEFINE s == Preferences(ui, found)
  <2>1. Sound(s, n) /\ Usable(s, {})
    BY <1>1, ShownStays, PreferencesUsable
  <2> HIDE DEF s
  <2>2. "index" \in Pages
    BY DEF Pages, Settings
  <2>3. Sound(DoUri(s, "index", found), n) /\ Usable(DoUri(s, "index", found), {})
    BY <2>1, <2>2, DoUriStays, DoUriUsable DEF Stays
  <2>4. ui' = Tick(DoUri(s, "index", found), Nothing, Nothing, found)
    BY <1>7 DEF s
  <2> QED BY <1>3, <2>3, <2>4
<1>8. CASE ui' = Tick(DoUri(ui, Uri(ui), found), Nothing, Nothing, found)
  <2>1. Sound(DoUri(ui, Uri(ui), found), n) /\ Usable(DoUri(ui, Uri(ui), found), {})
    BY <1>1, DoUriStays, DoUriUsable DEF Stays
  <2> QED BY <1>3, <1>8, <2>1
<1>9. ASSUME NEW by, ui.toolbar = "browse", ui' = Tick(Move(ui, by, found), Nothing, Nothing, found)
      PROVE  SettingsInv'
  <2>1. Sound(Move(ui, by, found), n) /\ Usable(Move(ui, by, found), {})
    BY <1>1, <1>9, MoveStays, MoveUsable
  <2> QED BY <1>3, <1>9, <2>1
<1> QED BY Zenon, <1>4, <1>5, <1>6, <1>7, <1>8, <1>9

LEMMA ButtonsSettings ==
  ASSUME SettingsInv, BrowseButton \/ BookmarkButton \/ PrefsButton \/ CookieButton \/ UpdaterButton
  PROVE  SettingsInv'
<1> DEFINE n == Len(bookmarks)
<1>1. /\ Usable(ui, {}) /\ DOMAIN ui = Fields /\ n \in Nat /\ Sound(ui, n) /\ NoLink(ui)
      /\ InHistory(ui) /\ Uri(ui) \in Pages /\ Browsing
  BY SettingsInvFrom DEF BrowseButton, BookmarkButton, PrefsButton, CookieButton, UpdaterButton
<1>2. Next
  BY DEF Next
<1>3. bookmarks' \in Seq(Pages) /\ n <= Len(bookmarks')
  <2>1. bookmarks \in Seq(Pages)
    BY DEF SettingsInv
  <2>2. bookmarks' \in {bookmarks, Append(bookmarks, Uri(ui))}
    BY DEF BrowseButton, BookmarkButton, PrefsButton, CookieButton, UpdaterButton
  <2>3. /\ Append(bookmarks, Uri(ui)) \in Seq(Pages)
        /\ Len(Append(bookmarks, Uri(ui))) = n + 1
    BY <1>1, <2>1, AppendProperties
  <2> QED BY <1>1, <2>1, <2>2, <2>3
<1> HIDE DEF n
<1>4. ASSUME NEW s, NEW found, Sound(s, n), Usable(s, {}), ui' = Tick(s, Nothing, Nothing, found)
      PROVE  SettingsInv'
  BY <1>1, <1>2, <1>3, <1>4, TickInv
<1>5. ASSUME Sound(ui', n), NoLink(ui') PROVE SettingsInv'
  BY <1>1, <1>2, <1>3, <1>5, SettingsInvOf
<1>6. ASSUME NEW found, ui' = Tick(EndBookmark(ui), Nothing, Nothing, found) PROVE SettingsInv'
  <2>1. Sound(EndBookmark(ui), n) /\ Usable(EndBookmark(ui), {})
    BY <1>1, EndBookmarkStays, EndBookmarkUsable DEF Stays
  <2> QED BY <1>4, <1>6, <2>1
<1>7. ASSUME NEW found, ui' = Tick(ShowBookmarkPage(ui, found), Nothing, Nothing, found) PROVE SettingsInv'
  <2>1. Sound(ShowBookmarkPage(ui, found), n) /\ Usable(ShowBookmarkPage(ui, found), {})
    BY <1>1, ShownStays, ShowBookmarkPageUsable
  <2> QED BY <1>4, <1>7, <2>1
<1>8. ASSUME NEW found, ui' = Tick(Preferences(ui, found), Nothing, Nothing, found) PROVE SettingsInv'
  <2>1. Sound(Preferences(ui, found), n) /\ Usable(Preferences(ui, found), {})
    BY <1>1, ShownStays, PreferencesUsable
  <2> QED BY <1>4, <1>8, <2>1
<1>9. CASE ui' = SaveAs(ui, "SAVE_CURRENT_FILE")
  <2>1. Sound(ui', n) /\ NoLink(ui')
    BY <1>1, <1>9 DEF SaveAs, Sound, NoLink, Fields, InHistory
  <2> QED BY <1>5, <2>1
<1>10. CASE ui' = EditCookie(ui)
  <2>1. Sound(ui', n) /\ NoLink(ui')
    BY <1>1, <1>10 DEF EditCookie, Sound, NoLink, Fields, InHistory
  <2> QED BY <1>5, <2>1
<1>11. CASE ui' = [ui EXCEPT !.updater = "DO_UPDATE", !.asked = FALSE]
  <2>1. Sound(ui', n) /\ NoLink(ui')
    BY <1>1, <1>11 DEF Sound, NoLink, Fields, InHistory
  <2> QED BY <1>5, <2>1
<1>12. CASE ui' = AddCookie(ui)
  <2> DEFINE kept == WithoutConfig(ui.history)
             c == ClearConfigHistory(ui)
             t == [c EXCEPT !.enabled = FALSE]
  <2>1. kept \in Seq(Pages)
    BY <1>1, WithoutIsFree DEF Sound
  <2>2. /\ DOMAIN c = Fields /\ c.history = kept /\ c.href = ui.href /\ c.popup = ui.popup
        /\ c.chosen = ui.chosen /\ c.state = ui.state /\ c.toolbar = ui.toolbar
        /\ c.keyboard = ui.keyboard /\ c.loading = ui.loading
    BY <1>1 DEF ClearConfigHistory, Forget, Fields
  <2>3. ui' \in {t, [t EXCEPT !.shown = "cookie"]}
    BY <1>12 DEF AddCookie
  <2> HIDE DEF c, kept
  <2>4. /\ DOMAIN ui' = Fields /\ ui'.history = kept /\ ui'.href = ui.href /\ ui'.popup = ui.popup
        /\ ui'.chosen = ui.chosen /\ ui'.state = ui.state /\ ui'.toolbar = ui.toolbar
        /\ ui'.keyboard = ui.keyboard /\ ui'.loading = ui.loading
    BY <2>2, <2>3 DEF Fields
  <2>5. CASE InHistory(ui')
    <3>1. Sound(ui', n) /\ NoLink(ui')
      BY <1>1, <2>1, <2>4, <2>5 DEF Sound, NoLink
    <3> QED BY <1>5, <3>1
  <2>6. CASE ~InHistory(ui')
    <3>1. IInv'
      BY <1>2, StepOK DEF SettingsInv
    <3>2. ui'.popup = "edit" => ui'.chosen \in 1 .. Len(bookmarks')
      BY <1>1, <1>3, <2>4, LenProperties DEF Sound
    <3>3. ui'.keyboard = "none" /\ ~ui'.loading /\ ui'.state # "EDIT_BOOKMARK"
      BY <1>1, <2>4 DEF Browsing, Sound
    <3>4. ~InHistory(ui)'
      BY <2>6 DEF InHistory
    <3>5. ui'.href \in Pages \cup {Nothing}
      BY <1>1, <2>4 DEF Sound
    <3> QED BY <1>3, <2>1, <2>4, <3>1, <3>2, <3>3, <3>4, <3>5 DEF SettingsInv
  <2> QED BY <2>5, <2>6
<1>13. \/ \E found : ui' = Tick(EndBookmark(ui), Nothing, Nothing, found)
       \/ \E found : ui' = Tick(ShowBookmarkPage(ui, found), Nothing, Nothing, found)
       \/ \E found : ui' = Tick(Preferences(ui, found), Nothing, Nothing, found)
       \/ ui' = SaveAs(ui, "SAVE_CURRENT_FILE")
       \/ ui' = EditCookie(ui)
       \/ ui' = [ui EXCEPT !.updater = "DO_UPDATE", !.asked = FALSE]
       \/ ui' = AddCookie(ui)
  BY Zenon DEF BrowseButton, BookmarkButton, PrefsButton, CookieButton, UpdaterButton, Become
<1> QED BY Zenon, <1>6, <1>7, <1>8, <1>9, <1>10, <1>11, <1>12, <1>13

LEMMA LinksSettings ==
  ASSUME SettingsInv, ClickLink \/ LinkPopup \/ HoldLink \/ HidePopup \/ Frame \/ EditField
  PROVE  SettingsInv'
<1> DEFINE n == Len(bookmarks)
<1>1. /\ Usable(ui, {}) /\ DOMAIN ui = Fields /\ n \in Nat /\ Sound(ui, n) /\ NoLink(ui)
      /\ DOMAIN bookmarks = 1 .. n
  BY SettingsInvFrom DEF ClickLink, LinkPopup, HoldLink, HidePopup, Frame, EditField
<1>2. Next /\ bookmarks' = bookmarks /\ bookmarks' \in Seq(Pages) /\ n <= Len(bookmarks')
  <2>1. Next
    BY DEF Next
  <2>2. bookmarks' = bookmarks
    BY Zenon DEF ClickLink, LinkPopup, HoldLink, HidePopup, Frame, EditField
  <2> QED BY <1>1, <2>1, <2>2 DEF SettingsInv
<1>3. Targets \subseteq Pages
  <2>1. ToSet(bookmarks) \subseteq Pages
    BY ElementOfSeq DEF ToSet, SettingsInv
  <2> QED BY <2>1 DEF Targets, Pages
<1> HIDE DEF n
<1>4. ASSUME Sound(ui', n), NoLink(ui') PROVE SettingsInv'
  BY <1>1, <1>2, <1>4, SettingsInvOf
<1>5. ASSUME NEW to \in Pages \cup {Nothing}, NEW found,
             ui' = Tick([ui EXCEPT !.href = to, !.popup = "none"], Nothing, Nothing, found)
      PROVE  SettingsInv'
  <2> DEFINE s == [ui EXCEPT !.href = to, !.popup = "none"]
  <2>1. Sound(s, n) /\ Usable(s, {})
    BY <1>1, EntrySet DEF Sound, Fields, InHistory
  <2>2. ui' = Tick(s, Nothing, Nothing, found)
    BY <1>5
  <2> HIDE DEF s
  <2> QED BY <1>1, <1>2, <2>1, <2>2, TickInv
<1>6. ASSUME NEW to \in Pages \cup {Nothing}, NEW found,
             ui' = Tick([ui EXCEPT !.href = to], Nothing, Nothing, found)
      PROVE  SettingsInv'
  <2> DEFINE s == [ui EXCEPT !.href = to]
  <2>1. Sound(s, n) /\ Usable(s, {})
    BY <1>1, EntrySet DEF Sound, Fields, InHistory
  <2>2. ui' = Tick(s, Nothing, Nothing, found)
    BY <1>6
  <2> HIDE DEF s
  <2> QED BY <1>1, <1>2, <2>1, <2>2, TickInv
<1>7. ASSUME NEW p \in {"none", "link"}, ui' = [ui EXCEPT !.popup = p]
      PROVE  SettingsInv'
  <2>1. Sound(ui', n) /\ NoLink(ui')
    BY <1>1, <1>7 DEF Sound, NoLink, Fields, InHistory
  <2> QED BY <1>4, <2>1
<1>8. ASSUME NEW i \in DOMAIN bookmarks, ui' = [ui EXCEPT !.popup = "edit", !.chosen = i]
      PROVE  SettingsInv'
  <2>1. Sound(ui', n) /\ NoLink(ui')
    BY <1>1, <1>8 DEF Sound, NoLink, Fields, InHistory
  <2> QED BY <1>4, <2>1
<1>9. CASE EditField
  <2>1. ui' = [ui EXCEPT !.keyboard = "form", !.bar = FALSE]
    BY <1>9 DEF EditField, Become
  <2>2. Sound(ui', n) /\ NoLink(ui')
    BY <1>1, <2>1 DEF Sound, NoLink, Fields, InHistory
  <2> QED BY <1>4, <2>2
<1>10. CASE ClickLink
  <2>1. \/ \E to \in Targets : \E found : ui' = Tick([ui EXCEPT !.href = to, !.popup = "none"], Nothing, Nothing, found)
        \/ ui' = [ui EXCEPT !.popup = "link"]
    BY Zenon, <1>10 DEF ClickLink, Become
  <2> QED BY <1>3, <1>5, <1>7, <2>1
<1>11. CASE LinkPopup
  <2>1. \E to \in Pages : \E found : ui' = Tick([ui EXCEPT !.href = to, !.popup = "none"], Nothing, Nothing, found)
    BY <1>11 DEF LinkPopup, Become, Pages
  <2> QED BY <1>5, <2>1
<1>12. CASE Frame
  <2>1. \E to \in Pages \cup {Nothing} : \E found : ui' = Tick([ui EXCEPT !.href = to], Nothing, Nothing, found)
    <3>1. ui.href \in Pages \cup {Nothing} /\ Sites \subseteq Pages
      BY DEF SettingsInv, Pages
    <3> QED BY <1>12, <3>1 DEF Frame, Become
  <2> QED BY <1>6, <2>1
<1>13. CASE HoldLink \/ HidePopup
  BY <1>7, <1>8, <1>13 DEF HoldLink, HidePopup, Become
<1> QED BY <1>9, <1>10, <1>11, <1>12, <1>13

\* A bookmark to be edited waits for the keyboard, on a page of the history.
LEMMA EditPopupSettings ==
  ASSUME SettingsInv, EditPopup
  PROVE  SettingsInv'
<1> DEFINE n == Len(bookmarks)
<1>1. /\ Usable(ui, {}) /\ DOMAIN ui = Fields /\ n \in Nat /\ Sound(ui, n) /\ NoLink(ui) /\ InHistory(ui)
      /\ bookmarks \in Seq(Pages) /\ ui.popup = "edit"
  BY SettingsInvFrom DEF EditPopup, SettingsInv
<1>2. Next /\ IInv'
  BY StepOK DEF Next, SettingsInv
<1>3. CASE ui' = [EditBookmark(ui) EXCEPT !.popup = "none"] /\ bookmarks' = bookmarks
  <2>1. /\ ui'.history = ui.history /\ ui'.position = ui.position /\ ui'.href = ui.href
        /\ ui'.toolbar = ui.toolbar /\ ui'.popup = "none"
    BY <1>1, <1>3 DEF EditBookmark, EnterUrl, Fields
  <2>2. InHistory(ui)'
    BY <1>1, <2>1 DEF InHistory
  <2> QED BY <1>1, <1>2, <1>3, <2>1, <2>2 DEF SettingsInv, Sound, NoLink
<1>4. ASSUME bookmarks' = RemoveAt(bookmarks, ui.chosen), NEW found,
             ui' = Tick(BookmarkUrl([ui EXCEPT !.popup = "none"], found), Nothing, Nothing, found)
      PROVE  SettingsInv'
  <2> DEFINE s == [ui EXCEPT !.popup = "none"]
             t == BookmarkUrl(s, found)
  <2>1. bookmarks' \in Seq(Pages)
    <3> DEFINE i == ui.chosen
    <3>1. i \in 1 .. n
      BY <1>1 DEF SettingsInv
    <3>2. /\ \A j \in 1 .. i - 1 : bookmarks[j] \in Pages
          /\ \A j \in i + 1 .. n : bookmarks[j] \in Pages
      BY <1>1, <3>1, ElementOfSeq
    <3>3. 1 \in Int /\ i - 1 \in Int /\ i + 1 \in Int /\ n \in Int
      BY <1>1, <3>1
    <3>4. SubSeq(bookmarks, 1, i - 1) \in Seq(Pages) /\ SubSeq(bookmarks, i + 1, n) \in Seq(Pages)
      BY <3>2, <3>3, SubSeqProperties
    <3>5. bookmarks' = SubSeq(bookmarks, 1, i - 1) \o SubSeq(bookmarks, i + 1, n)
      BY <1>4 DEF RemoveAt
    <3> QED BY <3>4, <3>5, ConcatProperties
  <2>2. Len(bookmarks') \in Nat
    BY <2>1, LenProperties
  <2>3. Sound(s, 0) /\ Usable(s, {}) /\ InHistory(s)
    BY <1>1, EntrySet DEF Sound, Fields, InHistory
  <2> HIDE DEF s
  <2>4. Sound(t, 0) /\ Usable(t, {})
    BY <2>3, ShownStays, BookmarkUrlUsable
  <2>5. ui' = Tick(t, Nothing, Nothing, found)
    BY <1>4 DEF s
  <2> HIDE DEF t
  <2> QED BY <1>2, <2>1, <2>2, <2>4, <2>5, TickInv
<1> QED BY <1>3, <1>4 DEF EditPopup, Become

LEMMA FormSettings ==
  ASSUME SettingsInv, SubmitForm
  PROVE  SettingsInv'
<1> DEFINE n == Len(bookmarks)
<1>1. /\ Usable(ui, {}) /\ n \in Nat /\ Sound(ui, n)
  BY SettingsInvFrom DEF SubmitForm
<1>2. Next /\ bookmarks' \in Seq(Pages) /\ n <= Len(bookmarks')
  BY <1>1 DEF Next, SubmitForm, SettingsInv
<1> HIDE DEF n
<1>3. PICK form \in Pages, found \in Loads \cup Updates : ui' = Tick(ui, Nothing, form, found)
  BY DEF SubmitForm, Become, Pages, Settings, Found
<1> QED BY <1>1, <1>2, <1>3, TickInv

\* Whatever the keyboard was open for.
LEMMA CloseSettings ==
  ASSUME SettingsInv, CloseKeyboard
  PROVE  SettingsInv'
<1> DEFINE n == Len(bookmarks)
           s == Closed
<1>1. Usable(ui, {}) /\ DOMAIN ui = Fields /\ n \in Nat /\ bookmarks \in Seq(Pages)
  BY SettingsInvFrom DEF SettingsInv
<1>2. Next
  BY DEF Next
<1>3. bookmarks' \in Seq(Pages) /\ n <= Len(bookmarks')
  <2>1. ASSUME NEW i \in DOMAIN bookmarks, NEW href \in Sites, bookmarks' = [bookmarks EXCEPT ![i] = href]
        PROVE  bookmarks' \in Seq(Pages) /\ Len(bookmarks') = n
    <3>1. href \in Pages /\ i \in 1 .. Len(bookmarks)
      BY <1>1, LenProperties DEF Pages
    <3> QED BY <1>1, <2>1, <3>1, ExceptSeq
  <2> QED BY <1>1, <2>1 DEF CloseKeyboard, Edited
<1>4. PICK input \in Pages \cup {Nothing}, found \in Loads \cup Updates : ui' = Tick(s, input, Nothing, found)
  BY DEF CloseKeyboard, Become, Pages, Settings, Found
<1>5. /\ DOMAIN s = Fields /\ s.history = ui.history /\ s.position = ui.position /\ s.href = ui.href
      /\ s.popup = ui.popup /\ s.chosen = ui.chosen /\ s.toolbar = ui.toolbar
      /\ s.state = ui.state /\ s.keyboard = "none"
  BY <1>1 DEF Closed, Fields
<1>6. s.loading = FALSE /\ (s.state \notin Entering => s.bar)
  BY <1>1 DEF Closed, Fields, CloseKeyboard, Usable
<1> HIDE DEF s
<1>7. InHistory(s) = InHistory(ui)
  BY <1>5 DEF InHistory
<1>8. /\ s.history \in Seq(Pages) /\ s.href \in Pages \cup {Nothing}
      /\ s.popup = "edit" => s.chosen \in 1 .. n
      /\ s.toolbar # "browse" => s.href = Nothing /\ InHistory(s)
      /\ s.state = "EDIT_BOOKMARK" => InHistory(s)
  BY <1>5, <1>7 DEF SettingsInv, CloseKeyboard
<1> HIDE DEF n
<1>9. ASSUME NEW r, Usable(r, {}), Sound(r, n), ui' = Tick(r, input, Nothing, found)
      PROVE  SettingsInv'
  BY <1>1, <1>2, <1>3, <1>9, TickInv
<1>10. CASE s.state \notin Entering
  <2>1. Usable(s, {}) /\ Sound(s, n)
    BY <1>5, <1>6, <1>8, <1>10 DEF Usable, Sound, Entering
  <2> QED BY <1>4, <1>9, <2>1
<1>11. CASE s.state = "ENTER_URL"
  <2> DEFINE t == [s EXCEPT !.bar = TRUE, !.state = "BROWSE"]
             r == EnterStep(s, input, found)
             v == DoUri(t, input, found)
  <2>1. Usable(t, {}) /\ Sound(t, n)
    BY <1>5, <1>6, <1>8 DEF Usable, Sound, Fields, Entering, InHistory
  <2>2. (input = Nothing /\ r = t) \/ (input \in Pages /\ r = v)
    BY <1>5, <1>11 DEF EnterStep, Answered
  <2> HIDE DEF t
  <2>3. Usable(v, {}) /\ (input \in Pages => Sound(v, n))
    BY <2>1, DoUriStays, DoUriUsable DEF Stays
  <2> HIDE DEF v
  <2>4. Usable(r, {}) /\ Sound(r, n)
    BY <2>1, <2>2, <2>3
  <2>5. Tick(s, input, Nothing, found) = FormStep(LinkStep(SaveStep(EditStep(r, found)), found), Nothing, found)
    BY DEF Tick
  <2> HIDE DEF r
  <2>6. Tick(s, input, Nothing, found) = Tick(r, input, Nothing, found)
    BY <2>4, <2>5, QuietSteps DEF Tick
  <2> QED BY <1>4, <1>9, <2>4, <2>6
<1>12. CASE s.state = "EDIT_BOOKMARK"
  <2> DEFINE t == [s EXCEPT !.bar = TRUE]
             m == [SetToolbar(t, "bookmark") EXCEPT !.state = "BOOKMARK"]
             r == BookmarkUrl(t, found)
  <2>1. Usable(t, Entering)
    BY <1>5, <1>6, <1>12 DEF Usable, Fields, Entering
  <2>2. Sound(m, n)
    BY <1>5, <1>8, <1>12 DEF SetToolbar, Sound, Fields, InHistory
  <2>3. EnterStep(s, input, found) = s /\ EditStep(s, found) = r
    BY <1>5, <1>12 DEF EnterStep, EditStep, Answered
  <2>4. r = ShowBookmarkPage(m, found)
    BY DEF BookmarkUrl
  <2> HIDE DEF t, m
  <2>5. Usable(r, {}) /\ Sound(r, n)
    <3>1. Usable(r, {})
      BY <2>1, BookmarkUrlUsable
    <3> HIDE DEF r
    <3> QED BY <2>2, <2>4, <3>1, ShownStays
  <2> HIDE DEF r
  <2>6. Tick(s, input, Nothing, found) = Tick(r, input, Nothing, found)
    BY <2>3, <2>5, QuietSteps DEF Tick
  <2> QED BY <1>4, <1>9, <2>5, <2>6
<1>13. CASE s.state \in {"SAVE_CURRENT_FILE", "SAVE_DOWNLOADING"}
  <2> DEFINE r == [s EXCEPT !.bar = TRUE, !.state = "BROWSE"]
  <2>1. Usable(r, {}) /\ Sound(r, n)
    BY <1>5, <1>6, <1>8 DEF Usable, Sound, Fields, Entering, InHistory
  <2>2. EnterStep(s, input, found) = s /\ EditStep(s, found) = s
    BY <1>13 DEF EnterStep, EditStep, Answered
  <2>3. SaveStep(s) = r
    BY <1>5, <1>13 DEF SaveStep, DoSaveAs, Answered
  <2> HIDE DEF r
  <2>4. Tick(s, input, Nothing, found) = Tick(r, input, Nothing, found)
    BY <2>1, <2>2, <2>3, QuietSteps DEF Tick
  <2> QED BY <1>4, <1>9, <2>1, <2>4
<1> QED BY <1>10, <1>11, <1>12, <1>13 DEF Entering

\* A download that is named, and one that ends.
LEMMA DownloadSettings ==
  ASSUME SettingsInv, NameDownload \/ DownloadEnds
  PROVE  SettingsInv'
<1> DEFINE n == Len(bookmarks)
<1>1. Usable(ui, {}) /\ DOMAIN ui = Fields /\ n \in Nat /\ Sound(ui, n) /\ NoLink(ui)
  BY SettingsInvFrom DEF NameDownload, DownloadEnds
<1>2. Next /\ bookmarks' \in Seq(Pages) /\ n <= Len(bookmarks')
  <2>1. Next
    BY DEF Next
  <2>2. bookmarks' = bookmarks
    BY Zenon DEF NameDownload, DownloadEnds
  <2> QED BY <1>1, <2>1, <2>2 DEF SettingsInv
<1> HIDE DEF n
<1>3. ASSUME Sound(ui', n), NoLink(ui') PROVE SettingsInv'
  BY <1>1, <1>2, <1>3, SettingsInvOf
<1>4. CASE NameDownload
  <2> DEFINE s == Closed
             t == SaveStep(s)
  <2>1. Sound(s, n) /\ NoLink(s)
    BY <1>1 DEF Closed, Sound, NoLink, Fields, InHistory
  <2> HIDE DEF s
  <2>2. Sound(t, n) /\ NoLink(t)
    BY <2>1 DEF SaveStep, DoSaveAs, Sound, NoLink, Fields, InHistory
  <2>3. \E stop \in BOOLEAN : ui' = [t EXCEPT !.loading = ~stop, !.form = @ /\ ~stop, !.enabled = @ \/ stop]
    BY <1>4 DEF NameDownload, Become, s
  <2> HIDE DEF t
  <2>4. Sound(ui', n) /\ NoLink(ui')
    BY <2>2, <2>3 DEF Sound, NoLink, Fields, InHistory
  <2> QED BY <1>3, <2>4
<1>5. CASE DownloadEnds
  <2>1. PICK found : LET t == Queue(LoadedHtml(ui, "download", found))
                     IN ui' = [t EXCEPT !.loading = FALSE, !.form = FALSE,
                                        !.state = IF ui.form THEN "BROWSE" ELSE @]
    BY <1>5 DEF DownloadEnds, Become
  <2> DEFINE t == Queue(LoadedHtml(ui, "download", found))
  <2>2. Calm(ui, t) \/ Ending(ui, t)
    BY <1>1, LoadedHtmlShows DEF Shows
  <2>3. ui' = [t EXCEPT !.loading = FALSE, !.form = FALSE, !.state = IF ui.form THEN "BROWSE" ELSE @]
    BY <2>1
  <2> HIDE DEF t
  <2>4. Sound(t, n) /\ NoLink(t)
    BY <1>1, <2>2, CalmStays, EndingStays DEF Stays
  <2>5. Sound(ui', n) /\ NoLink(ui')
    BY <2>3, <2>4 DEF Sound, NoLink, Fields, InHistory
  <2> QED BY <1>3, <2>5
<1> QED BY <1>4, <1>5

LEMMA SettingsInitOK == Init => SettingsInv
<1> SUFFICES ASSUME Init PROVE SettingsInv
  OBVIOUS
<1>1. IInv /\ bookmarks = <<>> /\ bookmarks \in Seq(Pages)
  BY InitOK, EmptySeq DEF Init
<1>2. PICK home \in Sites : /\ ui.history = <<home>> /\ ui.popup = "none" /\ ui.state = "BROWSE"
                            /\ ui.toolbar = "browse" /\ ui.href = Nothing
  BY DEF Init
<1>3. ui.history \in Seq(Pages)
  BY <1>2 DEF Pages
<1> QED BY <1>1, <1>2, <1>3 DEF SettingsInv

LEMMA SettingsStepOK == SettingsInv /\ [Next]_vars => SettingsInv'
<1> SUFFICES ASSUME SettingsInv, [Next]_vars PROVE SettingsInv'
  OBVIOUS
<1>1. CASE UNCHANGED vars
  <2>1. IInv'
    BY StepOK DEF SettingsInv
  <2> QED BY <1>1, <2>1 DEF vars, SettingsInv, InHistory
<1>2. CASE Next
  BY <1>2, KeysSettings, ButtonsSettings, LinksSettings, EditPopupSettings, FormSettings, CloseSettings,
     DownloadSettings DEF Next
<1> QED BY <1>1, <1>2

\* The step of the property.
LEMMA SettingsStepLeaves ==
  ASSUME SettingsInv, [Next]_vars,
         NEW u, u = WithoutConfig(SubSeq(ui.history, 1, ui.position)),
         NEW b, b = SubSeq(ui.history, ui.position + 1, Len(ui.history)),
         ui.toolbar # "browse", ui'.toolbar = "browse", ~\E i \in DOMAIN b : IsConfig(b[i]),
         ui.updater # "CANCELLED"
  PROVE  \/ ui'.history \in {u, u \o b} /\ ui'.position = Len(u)
         \/ \E a \in Pages : ui'.history = Append(u, a) /\ ui'.position = Len(u) + 1
<1>1. CASE ~InHistory(ui)
  <2>1. ui.keyboard = "none" /\ ~ui.loading
    BY <1>1 DEF SettingsInv
  <2>2. ~Next
    BY <1>1, <2>1 DEF Next, Keys, BrowseButton, BookmarkButton, PrefsButton, CookieButton, UpdaterButton,
      ClickLink, LinkPopup, HoldLink, EditPopup, HidePopup, SubmitForm, EditField, CloseKeyboard,
      NameDownload, DownloadEnds, Frame, Browsing
  <2> QED BY <2>2 DEF vars
<1>2. CASE InHistory(ui)
  <2>1. /\ Usable(ui, {}) /\ ui.href = Nothing /\ ui.history \in Seq(Pages) /\ bookmarks \in Seq(Pages)
    BY <1>2, SettingsInvFrom DEF SettingsInv
  <2>2. Free(b)
    <3>1. ui.position \in 1 .. Len(ui.history) /\ Len(ui.history) \in Nat
      BY <1>2, <2>1, LenProperties DEF InHistory
    <3>2. \A i \in ui.position + 1 .. Len(ui.history) : ui.history[i] \in Pages
      BY <2>1, <3>1, ElementOfSeq
    <3>3. ui.position + 1 \in Int /\ Len(ui.history) \in Int
      BY <3>1
    <3>4. b \in Seq(Pages)
      BY <3>2, <3>3, SubSeqProperties
    <3> QED BY <3>4, LenProperties DEF Free
  <2>3. InSettings(u, b)
    BY <1>2, <2>1, <2>2, SettingsSplit
  <2>4. Outcome(ui', u, b)
    BY <2>1, <2>3, SettingsOutcome
  <2> QED BY <2>4 DEF Outcome, Settled, Followed
<1> QED BY <1>1, <1>2

\* For any sites and bounds, and however many handlers one touch runs: when the toolbar of
\* the browser is back, clearConfigHistory has taken all pages of the settings out of the
\* history, and the position is that of the page under them or of a link that was followed.
THEOREM SettingsAreLeft == Spec => SettingsLeaveHistory
<1> DEFINE Step == LET under  == WithoutConfig(SubSeq(ui.history, 1, ui.position))
                       behind == SubSeq(ui.history, ui.position + 1, Len(ui.history))
                   IN /\ ui.toolbar # "browse" /\ ui'.toolbar = "browse"
                      /\ ~\E i \in DOMAIN behind : IsConfig(behind[i])
                      /\ ui.updater # "CANCELLED"
                      => \/ ui'.history \in {under, under \o behind} /\ ui'.position = Len(under)
                         \/ \E a \in Pages : ui'.history = Append(under, a) /\ ui'.position = Len(under) + 1
<1>1. SettingsInv /\ [Next]_vars => [Step]_vars
  BY SettingsStepLeaves
<1>2. [][Step]_vars => SettingsLeaveHistory
  BY PTL DEF SettingsLeaveHistory
<1> QED BY <1>1, <1>2, SettingsInitOK, SettingsStepOK, PTL DEF Spec

----------------------------------------------------------------------------
(* Toolbars: the sprites and the toolbars as records                       *)

PartsOfSprite == {"x", "y", "double", "rotateScale", "rotate", "tile"}
PartsOfBars == {"visible", "position", "icons", "oam", "current", "hidden", "unseen"}

IsSprite(p) ==
  /\ DOMAIN p = PartsOfSprite
  /\ p.double \in BOOLEAN /\ p.rotateScale \in BOOLEAN /\ p.rotate \in Nat
AreIcons(f, b) == DOMAIN f = DOMAIN Icons[b] /\ \A i \in DOMAIN Icons[b] : IsSprite(f[i])
Shape(s) ==
  /\ DOMAIN s = PartsOfBars
  /\ s.visible \in [Bars -> BOOLEAN]
  /\ DOMAIN s.position = Bars /\ DOMAIN s.icons = Bars /\ DOMAIN s.oam = Bars
  /\ \A b \in Bars : AreIcons(s.icons[b], b)
  /\ s.current \in Bars /\ s.hidden \in BOOLEAN /\ s.unseen \in BOOLEAN

\* There are three toolbars; the first one has the icon that hides it, and the spinner.
LEMMA BarsAre ==
  /\ Bars = {"browse", "bookmark", "prefs"}
  /\ Hide \in DOMAIN Icons["browse"] /\ Spinner \in DOMAIN Icons["browse"] /\ Hide # Spinner
BY DEF Bars, Icons, Hide, Spinner

\* Sprite::setEnabled changes what is enabled and rotated, and nothing else.
LEMMA SetEnabledGives ==
  ASSUME NEW p, IsSprite(p), NEW e \in BOOLEAN
  PROVE  /\ IsSprite(SetEnabled(p, e))
         /\ SetEnabled(p, e).x = p.x /\ SetEnabled(p, e).y = p.y /\ SetEnabled(p, e).tile = p.tile
         /\ SetEnabled(p, e).rotate = p.rotate
         /\ SetEnabled(p, e).double = ~e /\ ~SetEnabled(p, e).rotateScale
BY DEF IsSprite, SetEnabled, PartsOfSprite

\* Sprite::setHflip changes the flip, and nothing else, for any rotation before.
LEMMA SetHflipGives ==
  ASSUME NEW p, IsSprite(p), NEW b \in BOOLEAN
  PROVE  /\ IsSprite(SetHflip(p, b)) /\ Hflip(SetHflip(p, b)) = b
         /\ SetHflip(p, b).x = p.x /\ SetHflip(p, b).y = p.y /\ SetHflip(p, b).tile = p.tile
         /\ SetHflip(p, b).double = p.double /\ SetHflip(p, b).rotateScale = p.rotateScale
<1> DEFINE r == (p.rotate % 8) + IF b THEN 8 ELSE 0
<1>1. r \in Nat /\ (r >= 8) = b
  BY DEF IsSprite, PartsOfSprite
<1>2. SetHflip(p, b) = [p EXCEPT !.rotate = r]
  BY DEF SetHflip
<1> HIDE DEF r
<1>3. SetHflip(p, b).rotate = r
  BY <1>2 DEF IsSprite, PartsOfSprite
<1> QED BY <1>1, <1>2, <1>3 DEF IsSprite, Hflip, PartsOfSprite

\* What BrowseToolbar::setHidden makes of its first icon.
LEMMA FoldedGives ==
  ASSUME NEW p, IsSprite(p), NEW s, NEW h \in BOOLEAN
  PROVE  /\ IsSprite(Folded(p, s, h)) /\ Hflip(Folded(p, s, h)) = h
         /\ Folded(p, s, h).x = (IF h THEN 0 ELSE X(s.position["browse"], Hide))
         /\ Folded(p, s, h).y = p.y /\ Folded(p, s, h).tile = p.tile
         /\ ~Folded(p, s, h).double /\ ~Folded(p, s, h).rotateScale
<1> DEFINE r == SetEnabled(p, TRUE)
           q == SetHflip(r, h)
           x == IF h THEN 0 ELSE X(s.position["browse"], Hide)
<1>0. IsSprite(r) /\ r.y = p.y /\ r.tile = p.tile /\ ~r.double /\ ~r.rotateScale
  BY SetEnabledGives
<1> HIDE DEF r
<1>1. /\ IsSprite(q) /\ Hflip(q) = h /\ q.y = p.y /\ q.tile = p.tile
      /\ ~q.double /\ ~q.rotateScale
  BY <1>0, SetHflipGives
<1>2. Folded(p, s, h) = [q EXCEPT !.x = x]
  BY DEF Folded, r
<1> HIDE DEF q, x
<1>3. Folded(p, s, h).x = x
  BY <1>1, <1>2 DEF IsSprite, PartsOfSprite
<1>4. x = (IF h THEN 0 ELSE X(s.position["browse"], Hide))
  BY DEF x
<1>5. Folded(p, s, h).rotate = q.rotate
  BY <1>1, <1>2 DEF IsSprite, PartsOfSprite
<1>6. Hflip(Folded(p, s, h)) = h
  BY <1>1, <1>5 DEF Hflip
<1>7. IsSprite(Folded(p, s, h)) /\ Folded(p, s, h).y = p.y /\ Folded(p, s, h).tile = p.tile
  BY <1>1, <1>2 DEF IsSprite, PartsOfSprite
<1>8. ~Folded(p, s, h).double /\ ~Folded(p, s, h).rotateScale
  BY <1>1, <1>2 DEF IsSprite, PartsOfSprite
<1> QED BY <1>3, <1>4, <1>6, <1>7, <1>8

\* An icon is put at its place, and not flipped.
LEMMA PutAtGives ==
  ASSUME NEW p, IsSprite(p), NEW position, NEW i
  PROVE  /\ IsSprite(PutAt(p, position, i)) /\ Hflip(PutAt(p, position, i)) = Hflip(p)
         /\ PutAt(p, position, i).x = X(position, i) /\ PutAt(p, position, i).y = Y(position, i)
         /\ PutAt(p, position, i).tile = p.tile /\ PutAt(p, position, i).rotateScale = p.rotateScale
BY DEF IsSprite, PutAt, Hflip, PartsOfSprite

\* The spinner keeps its place and is not flipped; while it turns it is enabled.
LEMMA SpunGives ==
  ASSUME NEW p, IsSprite(p), NEW loading, ~Hflip(p)
  PROVE  /\ IsSprite(Spun(p, loading)) /\ ~Hflip(Spun(p, loading))
         /\ Spun(p, loading).x = p.x /\ Spun(p, loading).y = p.y
         /\ Spun(p, loading).tile = IF loading THEN "SPINNER" ELSE p.tile
         /\ Spun(p, loading).double \in {FALSE, p.double}
<1>1. CASE loading BY <1>1 DEF IsSprite, Spun, Hflip, PartsOfSprite
<1>2. CASE ~loading BY <1>2 DEF IsSprite, Spun, Hflip, PartsOfSprite
<1> QED BY <1>1, <1>2

\* A new picture changes nothing else.
LEMMA RepaintGives ==
  ASSUME NEW p, IsSprite(p), NEW tile
  PROVE  LET q == [p EXCEPT !.tile = tile]
         IN IsSprite(q) /\ Hflip(q) = Hflip(p) /\ q.x = p.x /\ q.y = p.y /\ q.tile = tile
            /\ q.double = p.double /\ q.rotateScale = p.rotateScale
BY DEF IsSprite, Hflip, PartsOfSprite

----------------------------------------------------------------------------
(* What an operation on a toolbar changes, and what it does not              *)

Kept(t, s) ==
  t.position = s.position /\ t.current = s.current /\ t.hidden = s.hidden /\ t.unseen = s.unseen
KeptBut(t, s, b) ==
  \A c \in Bars \ {b} : t.icons[c] = s.icons[c] /\ t.oam[c] = s.oam[c] /\ t.visible[c] = s.visible[c]

\* New icons of one toolbar leave the others, and the OAM, as they are.
LEMMA WithIconsGives ==
  ASSUME NEW s, Shape(s), NEW b \in Bars, NEW f, AreIcons(f, b)
  PROVE  /\ Shape(WithIcons(s, b, f)) /\ Kept(WithIcons(s, b, f), s) /\ KeptBut(WithIcons(s, b, f), s, b)
         /\ WithIcons(s, b, f).icons[b] = f /\ WithIcons(s, b, f).oam[b] = s.oam[b]
         /\ WithIcons(s, b, f).visible = s.visible
<1> DEFINE icons == [s.icons EXCEPT ![b] = f]
<1>1. /\ DOMAIN icons = Bars /\ icons[b] = f /\ \A c \in Bars \ {b} : icons[c] = s.icons[c]
  BY DEF Shape, PartsOfBars
<1>2. WithIcons(s, b, f) = [s EXCEPT !.icons = icons]
  BY DEF WithIcons
<1> HIDE DEF icons
<1>3. /\ WithIcons(s, b, f).icons = icons /\ Kept(WithIcons(s, b, f), s)
      /\ WithIcons(s, b, f).oam = s.oam /\ WithIcons(s, b, f).visible = s.visible
  BY <1>2 DEF Shape, Kept, PartsOfBars
<1>4. Shape(WithIcons(s, b, f))
  BY <1>1, <1>2, <1>3 DEF Shape, Kept, PartsOfBars
<1> QED BY <1>1, <1>3, <1>4 DEF KeptBut

\* Sprite::update copies one toolbar to the OAM.
LEMMA UpdateGives ==
  ASSUME NEW s, Shape(s), NEW b \in Bars
  PROVE  /\ Shape(Update(s, b)) /\ Kept(Update(s, b), s) /\ KeptBut(Update(s, b), s, b)
         /\ Update(s, b).oam[b] = s.icons[b] /\ Update(s, b).icons = s.icons
         /\ Update(s, b).visible = s.visible
<1> DEFINE oam == [s.oam EXCEPT ![b] = s.icons[b]]
<1>1. /\ DOMAIN oam = Bars /\ oam[b] = s.icons[b] /\ \A c \in Bars \ {b} : oam[c] = s.oam[c]
  BY DEF Shape, PartsOfBars
<1>2. Update(s, b) = [s EXCEPT !.oam = oam]
  BY DEF Update
<1> HIDE DEF oam
<1>3. /\ Update(s, b).oam = oam /\ Kept(Update(s, b), s)
      /\ Update(s, b).icons = s.icons /\ Update(s, b).visible = s.visible
  BY <1>2 DEF Shape, Kept, PartsOfBars
<1>4. Shape(Update(s, b))
  BY <1>1, <1>2, <1>3 DEF Shape, Kept, PartsOfBars
<1> QED BY <1>1, <1>3, <1>4 DEF KeptBut

\* All icons of one toolbar are enabled or disabled, and copied.
LEMMA EnableAllGives ==
  ASSUME NEW s, Shape(s), NEW b \in Bars, NEW e \in BOOLEAN
  PROVE  LET t == Update(EnableAll(s, b, e), b)
         IN /\ Shape(t) /\ Kept(t, s) /\ KeptBut(t, s, b) /\ t.visible = s.visible /\ t.oam[b] = t.icons[b]
            /\ \A i \in DOMAIN Icons[b] : t.icons[b][i] = SetEnabled(s.icons[b][i], e)
<1> DEFINE f == [i \in DOMAIN Icons[b] |-> SetEnabled(s.icons[b][i], e)]
<1>1. \A i \in DOMAIN Icons[b] : IsSprite(f[i]) /\ f[i] = SetEnabled(s.icons[b][i], e)
  BY SetEnabledGives DEF Shape, AreIcons
<1>2. DOMAIN f = DOMAIN Icons[b]
  OBVIOUS
<1>3. EnableAll(s, b, e) = WithIcons(s, b, f)
  BY DEF EnableAll
<1> HIDE DEF f
<1>4. AreIcons(f, b)
  BY <1>1, <1>2 DEF AreIcons
<1> DEFINE u == WithIcons(s, b, f)
<1>5. /\ Shape(u) /\ Kept(u, s) /\ KeptBut(u, s, b) /\ u.icons[b] = f /\ u.visible = s.visible
  BY <1>4, WithIconsGives
<1> HIDE DEF u
<1> DEFINE t == Update(u, b)
<1>6. /\ Shape(t) /\ Kept(t, u) /\ KeptBut(t, u, b) /\ t.oam[b] = u.icons[b] /\ t.icons = u.icons /\ t.visible = u.visible
  BY <1>5, UpdateGives
<1> HIDE DEF t
<1>7. Kept(t, s) /\ KeptBut(t, s, b)
  BY <1>5, <1>6 DEF Kept, KeptBut
<1>8. t = Update(EnableAll(s, b, e), b)
  BY <1>3 DEF t, u
<1>9. Shape(t) /\ t.visible = s.visible /\ t.oam[b] = t.icons[b] /\ \A i \in DOMAIN Icons[b] : t.icons[b][i] = SetEnabled(s.icons[b][i], e)
  BY <1>1, <1>5, <1>6
<1> QED BY <1>7, <1>8, <1>9

\* Toolbar::setVisible.
LEMMA ToolbarSetVisibleGives ==
  ASSUME NEW s, Shape(s), NEW b \in Bars, NEW v \in BOOLEAN
  PROVE  LET t == ToolbarSetVisible(s, b, v)
         IN /\ Shape(t) /\ Kept(t, s) /\ KeptBut(t, s, b) /\ t.visible[b] = v /\ t.oam[b] = t.icons[b]
            /\ \A i \in DOMAIN Icons[b] : t.icons[b][i] = SetEnabled(s.icons[b][i], v)
<1> DEFINE visible == [s.visible EXCEPT ![b] = v]
           u == [s EXCEPT !.visible = visible]
<1>1. visible \in [Bars -> BOOLEAN] /\ visible[b] = v /\ \A c \in Bars \ {b} : visible[c] = s.visible[c]
  BY DEF Shape
<1> HIDE DEF visible
<1>2. /\ Shape(u) /\ Kept(u, s) /\ u.visible = visible /\ u.icons = s.icons /\ u.oam = s.oam
  BY <1>1 DEF Shape, Kept, PartsOfBars
<1> DEFINE t == Update(EnableAll(u, b, v), b)
<1>3. t = ToolbarSetVisible(s, b, v)
  BY DEF ToolbarSetVisible, visible
<1> HIDE DEF u
<1>4. /\ Shape(t) /\ Kept(t, u) /\ KeptBut(t, u, b) /\ t.visible = u.visible /\ t.oam[b] = t.icons[b]
      /\ \A i \in DOMAIN Icons[b] : t.icons[b][i] = SetEnabled(u.icons[b][i], v)
  BY <1>2, EnableAllGives
<1> HIDE DEF t
<1>5. Kept(t, s)
  BY <1>2, <1>4 DEF Kept
<1>6. KeptBut(t, s, b) /\ t.visible[b] = v
  BY <1>1, <1>2, <1>4 DEF KeptBut
<1>7. \A i \in DOMAIN Icons[b] : t.icons[b][i] = SetEnabled(s.icons[b][i], v)
  BY <1>2, <1>4
<1> QED BY <1>3, <1>4, <1>5, <1>6, <1>7

\* BrowseToolbar::setHidden copies the icons before it changes the first one.
LEMMA SetHiddenGives ==
  ASSUME NEW s, Shape(s), NEW h \in BOOLEAN
  PROVE  LET t == SetHidden(s, h)
         IN /\ Shape(t) /\ KeptBut(t, s, "browse") /\ t.visible = s.visible
            /\ t.position = s.position /\ t.current = s.current /\ t.unseen = s.unseen /\ t.hidden = h
            /\ \A i \in DOMAIN Icons["browse"] :
                 /\ t.oam["browse"][i] = SetEnabled(s.icons["browse"][i], ~h)
                 /\ t.icons["browse"][i] = IF i = Hide THEN Folded(SetEnabled(s.icons["browse"][i], ~h), s, h)
                                          ELSE SetEnabled(s.icons["browse"][i], ~h)
<1> DEFINE off == ~h
           t == Update(EnableAll(s, "browse", off), "browse")
<1>0. off \in BOOLEAN /\ "browse" \in Bars
  BY BarsAre
<1> HIDE DEF off
<1>1. /\ Shape(t) /\ Kept(t, s) /\ KeptBut(t, s, "browse") /\ t.visible = s.visible /\ t.oam["browse"] = t.icons["browse"]
      /\ \A i \in DOMAIN Icons["browse"] : t.icons["browse"][i] = SetEnabled(s.icons["browse"][i], off)
  BY <1>0, EnableAllGives
<1> HIDE DEF t
<1> DEFINE p == Folded(t.icons["browse"][Hide], s, h)
           f == [t.icons["browse"] EXCEPT ![Hide] = p]
<1>2. IsSprite(t.icons["browse"][Hide])
  BY <1>0, <1>1, BarsAre DEF Shape, AreIcons
<1>3. IsSprite(p)
  BY <1>2, FoldedGives
<1> HIDE DEF p
<1>4. AreIcons(f, "browse") /\ \A i \in DOMAIN Icons["browse"] : f[i] = IF i = Hide THEN p ELSE t.icons["browse"][i]
  BY <1>0, <1>1, <1>3, BarsAre DEF Shape, AreIcons
<1> HIDE DEF f
<1> DEFINE u == WithIcons(t, "browse", f)
<1>5. /\ Shape(u) /\ Kept(u, t) /\ KeptBut(u, t, "browse")
      /\ u.icons["browse"] = f /\ u.oam["browse"] = t.oam["browse"] /\ u.visible = t.visible
  BY <1>0, <1>1, <1>4, WithIconsGives
<1> HIDE DEF u
<1> DEFINE w == [u EXCEPT !.hidden = h]
<1>6. /\ Shape(w) /\ w.position = u.position /\ w.current = u.current /\ w.unseen = u.unseen /\ w.hidden = h
      /\ w.visible = u.visible /\ w.icons = u.icons /\ w.oam = u.oam
  BY <1>5 DEF Shape, PartsOfBars
<1>7. w = SetHidden(s, h)
  BY DEF SetHidden, u, f, p, t, off
<1> HIDE DEF w
<1>8. KeptBut(w, s, "browse")
  BY <1>1, <1>5, <1>6 DEF KeptBut
<1>9. w.position = s.position /\ w.current = s.current /\ w.unseen = s.unseen
  BY <1>1, <1>5, <1>6 DEF Kept
<1>10. \A i \in DOMAIN Icons["browse"] :
          /\ w.oam["browse"][i] = SetEnabled(s.icons["browse"][i], off)
          /\ w.icons["browse"][i] = IF i = Hide THEN p ELSE SetEnabled(s.icons["browse"][i], off)
  BY <1>1, <1>4, <1>5, <1>6
<1>11. p = Folded(SetEnabled(s.icons["browse"][Hide], off), s, h)
  BY <1>1, BarsAre DEF p
<1>12. w.visible = s.visible
  BY <1>1, <1>5, <1>6
<1> QED BY <1>6, <1>7, <1>8, <1>9, <1>10, <1>11, <1>12 DEF off

----------------------------------------------------------------------------
(* Where icons are, and what is shown of them                              *)

Upright(p, s, b, i) ==
  /\ Hflip(p) = (b = "browse" /\ i = Hide /\ s.hidden)
  /\ p.rotateScale => b = "browse" /\ i = Spinner
Sits(p, s, b, i) ==
  /\ p.x = IF b = "browse" /\ i = Hide /\ s.hidden THEN 0 ELSE X(s.position[b], i)
  /\ p.y = Y(s.position[b], i)
  /\ Upright(p, s, b, i)
\* Of the first toolbar, while it is visible: what is enabled.
Lit(p, s, i) == IF s.hidden /\ i # Hide THEN i = Spinner \/ (p.double /\ ~p.rotateScale) ELSE ~p.double

\* The icons of a toolbar: in their place, not flipped, where the layout puts them.
SeatedAt(s, b) == \A i \in DOMAIN Icons[b] : Sits(s.icons[b][i], s, b, i)
UprightAt(s, b) == \A i \in DOMAIN Icons[b] : Upright(s.icons[b][i], s, b, i)
PlacedAt(s, b) == \A i \in DOMAIN Icons[b] :
  /\ s.icons[b][i].y = Y(s.position[b], i)
  /\ s.icons[b][i].x = X(s.position[b], i) \/ (b = "browse" /\ i = Hide)
LitAt(s) == \A i \in DOMAIN Icons["browse"] : Lit(s.icons["browse"][i], s, i)
\* In the OAM: nothing of a toolbar that is not visible, all of the others that are.
UnseenAt(s, b) ==
  ~s.visible[b] /\ ~(b = "browse" /\ s.unseen) => \A i \in DOMAIN Icons[b] : ~Enabled(s.oam[b][i])
SeenAt(s, b) == \A i \in DOMAIN Icons[b] : Sits(s.oam[b][i], s, b, i) /\ ~s.oam[b][i].double

BarAt(s, b) ==
  /\ SeatedAt(s, b) /\ UnseenAt(s, b)
  /\ s.visible[b] => IF b = "browse" THEN LitAt(s) ELSE SeenAt(s, b)
PaintedAt(s, b) == b # "browse" =>
  \A i \in DOMAIN Icons[b] : /\ s.icons[b][i].tile = Icons[b][i]
                             /\ s.visible[b] => s.oam[b][i].tile = Icons[b][i]

\* What is right of a toolbar stays so while it is not touched.
LEMMA BarKept ==
  ASSUME NEW s, NEW t, NEW b \in Bars, BarAt(s, b), b = "browse" => t.hidden = s.hidden /\ t.unseen = s.unseen,
         t.icons[b] = s.icons[b], t.oam[b] = s.oam[b], t.visible[b] = s.visible[b], t.position[b] = s.position[b]
  PROVE  BarAt(t, b)
<1>1. SeatedAt(t, b)
  BY DEF BarAt, SeatedAt, Sits, Upright
<1>2. UnseenAt(t, b)
  BY DEF BarAt, UnseenAt
<1>3. b = "browse" /\ t.visible[b] => LitAt(t)
  BY DEF BarAt, LitAt, Lit
<1>4. b # "browse" /\ t.visible[b] => SeenAt(t, b)
  BY DEF BarAt, SeenAt, Sits, Upright
<1> QED BY <1>1, <1>2, <1>3, <1>4 DEF BarAt

\* Hiding puts every icon of the first toolbar in its place, wherever the first was.
LEMMA SetHiddenSeats ==
  ASSUME NEW s, Shape(s), NEW h \in BOOLEAN, PlacedAt(s, "browse"), UprightAt(s, "browse")
  PROVE  SeatedAt(SetHidden(s, h), "browse") /\ LitAt(SetHidden(s, h))
<1> DEFINE t == SetHidden(s, h)
           off == ~h
<1>0. off \in BOOLEAN /\ off = ~h
  OBVIOUS
<1>1. /\ t.position = s.position /\ t.hidden = h
      /\ \A i \in DOMAIN Icons["browse"] :
           t.icons["browse"][i] = IF i = Hide THEN Folded(SetEnabled(s.icons["browse"][i], off), s, h)
                                  ELSE SetEnabled(s.icons["browse"][i], off)
  BY SetHiddenGives
<1> HIDE DEF t, off
<1> SUFFICES ASSUME NEW i \in DOMAIN Icons["browse"]
             PROVE  Sits(t.icons["browse"][i], t, "browse", i) /\ Lit(t.icons["browse"][i], t, i)
  BY DEF t, SeatedAt, LitAt
<1> DEFINE p == s.icons["browse"][i]
           q == SetEnabled(p, off)
<1>2. IsSprite(p)
  BY BarsAre DEF Shape, AreIcons
<1>3. /\ p.y = Y(s.position["browse"], i) /\ (p.x = X(s.position["browse"], i) \/ i = Hide)
      /\ (Hflip(p) = (i = Hide /\ s.hidden))
  BY DEF PlacedAt, UprightAt, Upright
<1> HIDE DEF p
<1>4. /\ IsSprite(q) /\ q.x = p.x /\ q.y = p.y /\ q.rotate = p.rotate
      /\ q.double = ~off /\ ~q.rotateScale
  BY <1>0, <1>2, SetEnabledGives
<1> HIDE DEF q
<1>5. CASE i = Hide
  <2>1. t.icons["browse"][i] = Folded(q, s, h)
    BY <1>1, <1>5 DEF q, p
  <2>2. /\ Hflip(Folded(q, s, h)) = h
        /\ Folded(q, s, h).x = (IF h THEN 0 ELSE X(s.position["browse"], Hide))
        /\ Folded(q, s, h).y = q.y
        /\ ~Folded(q, s, h).double /\ ~Folded(q, s, h).rotateScale
    BY <1>4, FoldedGives
  <2>3. Sits(t.icons["browse"][i], t, "browse", i)
    BY <1>1, <1>3, <1>4, <1>5, <2>1, <2>2 DEF Sits, Upright
  <2>4. Lit(t.icons["browse"][i], t, i)
    BY <1>5, <2>1, <2>2 DEF Lit
  <2> QED BY <2>3, <2>4
<1>6. CASE i # Hide
  <2>1. t.icons["browse"][i] = q
    BY <1>1, <1>6 DEF q, p
  <2>2. Hflip(q) = FALSE
    BY <1>3, <1>4, <1>6 DEF Hflip
  <2>3. Sits(q, t, "browse", i)
    BY <1>1, <1>3, <1>4, <1>6, <2>2 DEF Sits, Upright
  <2>4. Lit(q, t, i)
    BY <1>0, <1>1, <1>4, <1>6 DEF Lit
  <2> QED BY <2>1, <2>3, <2>4
<1> QED BY <1>5, <1>6

\* The other toolbars are seen as soon as they are shown, and no more when they are not.
LEMMA ToolbarSetVisibleBar ==
  ASSUME NEW s, Shape(s), NEW b \in Bars \ {"browse"}, NEW v \in BOOLEAN, SeatedAt(s, b)
  PROVE  BarAt(ToolbarSetVisible(s, b, v), b)
<1> DEFINE t == ToolbarSetVisible(s, b, v)
<1>1. /\ Kept(t, s) /\ t.visible[b] = v /\ t.oam[b] = t.icons[b]
      /\ \A i \in DOMAIN Icons[b] : t.icons[b][i] = SetEnabled(s.icons[b][i], v)
  BY ToolbarSetVisibleGives
<1> HIDE DEF t
<1>2. ASSUME NEW i \in DOMAIN Icons[b]
      PROVE  /\ Sits(t.icons[b][i], t, b, i) /\ t.icons[b][i].double = ~v /\ ~t.icons[b][i].rotateScale
  <2> DEFINE p == s.icons[b][i]
             q == SetEnabled(p, v)
  <2>1. IsSprite(p)
    BY DEF Shape, AreIcons
  <2>2. /\ p.y = Y(s.position[b], i) /\ p.x = X(s.position[b], i) /\ ~Hflip(p)
    BY DEF SeatedAt, Sits, Upright
  <2> HIDE DEF p
  <2>3. /\ q.x = p.x /\ q.y = p.y /\ q.rotate = p.rotate /\ q.double = ~v /\ ~q.rotateScale
    BY <2>1, SetEnabledGives
  <2> HIDE DEF q
  <2>4. t.icons[b][i] = q
    BY <1>1 DEF q, p
  <2>5. Hflip(q) = FALSE
    BY <2>2, <2>3 DEF Hflip
  <2>6. Upright(q, t, b, i)
    BY <2>3, <2>5 DEF Upright
  <2>7. Sits(q, t, b, i)
    BY <1>1, <2>2, <2>3, <2>6 DEF Sits, Kept
  <2> QED BY <2>3, <2>4, <2>7
<1>3. SeatedAt(t, b)
  BY <1>2 DEF SeatedAt
<1>4. UnseenAt(t, b)
  BY <1>1, <1>2 DEF UnseenAt, Enabled
<1>5. t.visible[b] => SeenAt(t, b)
  BY <1>1, <1>2 DEF SeenAt
<1> QED BY <1>3, <1>4, <1>5 DEF BarAt, t

SameFrame(t, s) == t.position = s.position /\ t.current = s.current /\ t.hidden = s.hidden

\* Enabling moves and flips no icon.
LEMMA EnabledStays ==
  ASSUME NEW s, NEW t, NEW b \in Bars, NEW e \in BOOLEAN, Shape(s), t.position = s.position, t.hidden = s.hidden,
         \A i \in DOMAIN Icons[b] : t.icons[b][i] = SetEnabled(s.icons[b][i], e)
  PROVE  /\ PlacedAt(s, b) => PlacedAt(t, b)
         /\ UprightAt(s, b) => UprightAt(t, b)
         /\ SeatedAt(s, b) => SeatedAt(t, b)
         /\ \A i \in DOMAIN Icons[b] : t.icons[b][i].double = ~e /\ ~t.icons[b][i].rotateScale
<1>1. ASSUME NEW i \in DOMAIN Icons[b]
      PROVE  /\ t.icons[b][i].x = s.icons[b][i].x /\ t.icons[b][i].y = s.icons[b][i].y
             /\ t.icons[b][i].rotate = s.icons[b][i].rotate
             /\ t.icons[b][i].double = ~e /\ ~t.icons[b][i].rotateScale
  <2>1. IsSprite(s.icons[b][i])
    BY DEF Shape, AreIcons
  <2> QED BY <2>1, SetEnabledGives
<1>2. PlacedAt(s, b) => PlacedAt(t, b)
  BY <1>1 DEF PlacedAt
<1>3. UprightAt(s, b) => UprightAt(t, b)
  BY <1>1 DEF UprightAt, Upright, Hflip
<1>4. SeatedAt(s, b) => SeatedAt(t, b)
  BY <1>1 DEF SeatedAt, Sits, Upright, Hflip
<1> QED BY <1>1, <1>2, <1>3, <1>4

\* An icon in its place is where the layout puts it.
LEMMA SeatedIsPlaced ==
  ASSUME NEW s, NEW b, SeatedAt(s, b)
  PROVE  PlacedAt(s, b) /\ UprightAt(s, b)
BY DEF SeatedAt, Sits, PlacedAt, UprightAt

\* BrowseToolbar::setVisible; only when it is shown is the first icon put back.
LEMMA BrowseSetVisible ==
  ASSUME NEW s, Shape(s), NEW v \in BOOLEAN, PlacedAt(s, "browse"), UprightAt(s, "browse")
  PROVE  LET t == SetVisible(s, "browse", v)
         IN /\ Shape(t) /\ SameFrame(t, s) /\ KeptBut(t, s, "browse") /\ t.visible["browse"] = v
            /\ PlacedAt(t, "browse") /\ UprightAt(t, "browse")
            /\ UnseenAt(t, "browse") /\ (v => LitAt(t))
            /\ v \/ SeatedAt(s, "browse") => SeatedAt(t, "browse")
<1> DEFINE a == ToolbarSetVisible(s, "browse", v)
<1>0. "browse" \in Bars
  BY BarsAre
<1>1. /\ Shape(a) /\ Kept(a, s) /\ KeptBut(a, s, "browse") /\ a.visible["browse"] = v /\ a.oam["browse"] = a.icons["browse"]
      /\ \A i \in DOMAIN Icons["browse"] : a.icons["browse"][i] = SetEnabled(s.icons["browse"][i], v)
  BY <1>0, ToolbarSetVisibleGives
<1> HIDE DEF a
<1> DEFINE u == [a EXCEPT !.unseen = FALSE]
<1>2. /\ Shape(u) /\ SameFrame(u, a) /\ u.icons = a.icons /\ u.oam = a.oam /\ u.visible = a.visible
  BY <1>1 DEF Shape, SameFrame, PartsOfBars
<1>3. SetVisible(s, "browse", v) = IF v THEN SetHidden(u, s.hidden) ELSE u
  BY DEF SetVisible, a
<1> HIDE DEF u
<1>4. SameFrame(u, s) /\ KeptBut(u, s, "browse") /\ u.visible["browse"] = v
  BY <1>1, <1>2 DEF SameFrame, Kept, KeptBut
<1>5. \A i \in DOMAIN Icons["browse"] : u.icons["browse"][i] = SetEnabled(s.icons["browse"][i], v)
  BY <1>1, <1>2
<1>6. /\ PlacedAt(u, "browse") /\ UprightAt(u, "browse") /\ (SeatedAt(s, "browse") => SeatedAt(u, "browse"))
      /\ \A i \in DOMAIN Icons["browse"] : u.icons["browse"][i].double = ~v /\ ~u.icons["browse"][i].rotateScale
  <2>1. u.position = s.position /\ u.hidden = s.hidden
    BY <1>4 DEF SameFrame
  <2> QED BY <1>0, <1>5, <2>1, EnabledStays
<1>7. CASE v
  <2> DEFINE t == SetHidden(u, s.hidden)
  <2>0. s.hidden \in BOOLEAN
    BY DEF Shape
  <2>1. /\ Shape(t) /\ KeptBut(t, u, "browse") /\ t.visible = u.visible
        /\ t.position = u.position /\ t.current = u.current /\ t.hidden = s.hidden
    BY <1>2, <2>0, SetHiddenGives
  <2>2. SeatedAt(t, "browse") /\ LitAt(t)
    BY <1>2, <1>6, <2>0, SetHiddenSeats
  <2> HIDE DEF t
  <2>3. SameFrame(t, s) /\ KeptBut(t, s, "browse") /\ t.visible["browse"] = v
    BY <1>4, <2>1 DEF SameFrame, KeptBut
  <2>4. UnseenAt(t, "browse")
    BY <1>7, <2>3 DEF UnseenAt
  <2>5. PlacedAt(t, "browse") /\ UprightAt(t, "browse")
    BY <2>2, SeatedIsPlaced
  <2>6. t = SetVisible(s, "browse", v)
    BY <1>3, <1>7 DEF t
  <2> QED BY <1>7, <2>1, <2>2, <2>3, <2>4, <2>5, <2>6
<1>8. CASE ~v
  <2>1. u = SetVisible(s, "browse", v)
    BY <1>3, <1>8
  <2>2. UnseenAt(u, "browse")
    BY <1>1, <1>2, <1>6, <1>8 DEF UnseenAt, Enabled
  <2> QED BY <1>2, <1>4, <1>6, <1>8, <2>1, <2>2
<1> QED BY <1>7, <1>8

\* Whichever toolbar is shown or not: all is right of it, and the others are not touched.
LEMMA SetVisibleGives ==
  ASSUME NEW s, Shape(s), NEW b \in Bars, NEW v \in BOOLEAN, SeatedAt(s, b)
  PROVE  LET t == SetVisible(s, b, v)
         IN /\ Shape(t) /\ SameFrame(t, s) /\ KeptBut(t, s, b) /\ t.visible[b] = v
            /\ b # "browse" => t.unseen = s.unseen
            /\ BarAt(t, b)
<1> DEFINE t == SetVisible(s, b, v)
<1>1. CASE b = "browse"
  <2>1. PlacedAt(s, "browse") /\ UprightAt(s, "browse")
    BY <1>1, SeatedIsPlaced
  <2> DEFINE w == SetVisible(s, "browse", v)
  <2>2. /\ Shape(w) /\ SameFrame(w, s) /\ KeptBut(w, s, "browse") /\ w.visible["browse"] = v
        /\ UnseenAt(w, "browse") /\ (v => LitAt(w)) /\ SeatedAt(w, "browse")
    BY <1>1, <2>1, BrowseSetVisible
  <2> HIDE DEF w
  <2>3. BarAt(w, "browse")
    BY <2>2 DEF BarAt
  <2>4. t = w
    BY <1>1 DEF w
  <2> QED BY <1>1, <2>2, <2>3, <2>4
<1>2. CASE b # "browse"
  <2>1. t = ToolbarSetVisible(s, b, v)
    BY <1>2 DEF SetVisible
  <2>2. BarAt(t, b)
    BY <1>2, <2>1, ToolbarSetVisibleBar
  <2>3. /\ Shape(t) /\ Kept(t, s) /\ KeptBut(t, s, b) /\ t.visible[b] = v
    BY <2>1, ToolbarSetVisibleGives
  <2>4. SameFrame(t, s) /\ t.unseen = s.unseen
    BY <2>3 DEF SameFrame, Kept
  <2> QED BY <1>2, <2>2, <2>3, <2>4
<1> QED BY <1>1, <1>2

\* A change of one toolbar leaves right what is right of the others.
LEMMA OthersKept ==
  ASSUME NEW s, NEW t, NEW b \in Bars, SameFrame(t, s), KeptBut(t, s, b), b # "browse" => t.unseen = s.unseen
  PROVE  /\ \A c \in Bars \ {b} : BarAt(s, c) => BarAt(t, c)
         /\ \A c \in Bars \ {b} : PaintedAt(s, c) => PaintedAt(t, c)
<1>1. ASSUME NEW c \in Bars \ {b}, BarAt(s, c) PROVE BarAt(t, c)
  <2>1. /\ (c = "browse" => t.hidden = s.hidden /\ t.unseen = s.unseen) /\ t.icons[c] = s.icons[c]
        /\ t.oam[c] = s.oam[c] /\ t.visible[c] = s.visible[c] /\ t.position[c] = s.position[c]
    BY DEF SameFrame, KeptBut
  <2> QED BY <1>1, <2>1, BarKept
<1>2. ASSUME NEW c \in Bars \ {b}, PaintedAt(s, c) PROVE PaintedAt(t, c)
  BY <1>2 DEF PaintedAt, KeptBut
<1> QED BY <1>1, <1>2

\* Showing a toolbar copies the pictures.
LEMMA SetVisiblePaints ==
  ASSUME NEW s, Shape(s), NEW b \in Bars, NEW v \in BOOLEAN, PaintedAt(s, b)
  PROVE  PaintedAt(SetVisible(s, b, v), b)
<1> SUFFICES ASSUME b # "browse" PROVE PaintedAt(SetVisible(s, b, v), b)
  BY DEF PaintedAt
<1> DEFINE t == ToolbarSetVisible(s, b, v)
<1>1. /\ t.oam[b] = t.icons[b]
      /\ \A i \in DOMAIN Icons[b] : t.icons[b][i] = SetEnabled(s.icons[b][i], v)
  BY ToolbarSetVisibleGives
<1>2. t = SetVisible(s, b, v)
  BY DEF SetVisible
<1> HIDE DEF t
<1>3. ASSUME NEW i \in DOMAIN Icons[b] PROVE t.icons[b][i].tile = Icons[b][i]
  <2>1. IsSprite(s.icons[b][i]) /\ s.icons[b][i].tile = Icons[b][i]
    BY DEF Shape, AreIcons, PaintedAt
  <2> QED BY <1>1, <2>1, SetEnabledGives
<1> QED BY <1>1, <1>2, <1>3 DEF PaintedAt

\* Toolbar::layout, of a toolbar whose icons may be anywhere.
LEMMA ToolbarLayoutGives ==
  ASSUME NEW s, Shape(s), NEW b \in Bars, UprightAt(s, b)
  PROVE  LET t == ToolbarLayout(s, b)
         IN /\ Shape(t) /\ SameFrame(t, s) /\ KeptBut(t, s, b) /\ t.visible[b] = s.visible[b]
            /\ PlacedAt(t, b) /\ UprightAt(t, b)
            /\ b # "browse" => BarAt(t, b) /\ t.unseen = s.unseen
            /\ PaintedAt(s, b) => PaintedAt(t, b)
<1> DEFINE f == [i \in DOMAIN Icons[b] |-> PutAt(s.icons[b][i], s.position[b], i)]
           w == WithIcons(s, b, f)
           v == s.visible[b]
           t == SetVisible(w, b, v)
<1>0. v \in BOOLEAN
  BY DEF Shape
<1>1. DOMAIN f = DOMAIN Icons[b] /\ \A i \in DOMAIN Icons[b] : f[i] = PutAt(s.icons[b][i], s.position[b], i)
  OBVIOUS
<1>2. t = ToolbarLayout(s, b)
  BY DEF ToolbarLayout
<1> HIDE DEF f, v
<1>3. ASSUME NEW i \in DOMAIN Icons[b]
      PROVE  /\ IsSprite(f[i]) /\ Hflip(f[i]) = Hflip(s.icons[b][i])
             /\ f[i].x = X(s.position[b], i) /\ f[i].y = Y(s.position[b], i)
             /\ f[i].tile = s.icons[b][i].tile /\ f[i].rotateScale = s.icons[b][i].rotateScale
  <2>1. IsSprite(s.icons[b][i])
    BY DEF Shape, AreIcons
  <2> QED BY <1>1, <2>1, PutAtGives
<1>4. AreIcons(f, b)
  BY <1>1, <1>3 DEF AreIcons
<1>5. /\ Shape(w) /\ Kept(w, s) /\ KeptBut(w, s, b) /\ w.icons[b] = f /\ w.oam[b] = s.oam[b]
      /\ w.visible = s.visible
  BY <1>4, WithIconsGives
<1> HIDE DEF w
<1>6. UprightAt(w, b)
  BY <1>3, <1>5 DEF UprightAt, Upright, Kept
<1>7. PlacedAt(w, b)
  BY <1>3, <1>5 DEF PlacedAt, Kept
<1>8. b # "browse" => SeatedAt(w, b)
  BY <1>3, <1>5, <1>6 DEF SeatedAt, Sits, UprightAt, Kept
<1>9. PaintedAt(s, b) => PaintedAt(w, b)
  BY <1>3, <1>5 DEF PaintedAt
<1>10. PaintedAt(s, b) => PaintedAt(t, b)
  BY <1>0, <1>5, <1>9, SetVisiblePaints
<1>11. CASE b = "browse"
  <2> DEFINE u == SetVisible(w, "browse", v)
  <2>1. /\ Shape(u) /\ SameFrame(u, w) /\ KeptBut(u, w, "browse") /\ u.visible["browse"] = v
        /\ PlacedAt(u, "browse") /\ UprightAt(u, "browse")
    BY <1>0, <1>5, <1>6, <1>7, <1>11, BrowseSetVisible
  <2> HIDE DEF u
  <2>2. SameFrame(u, s) /\ KeptBut(u, s, "browse")
    BY <1>5, <1>11, <2>1 DEF SameFrame, KeptBut, Kept
  <2>3. u = t
    BY <1>11 DEF u
  <2>4. u.visible[b] = s.visible[b]
    BY <1>11, <2>1 DEF v
  <2> HIDE DEF t
  <2> QED BY <1>2, <1>10, <1>11, <2>1, <2>2, <2>3, <2>4
<1>12. CASE b # "browse"
  <2>1. /\ Shape(t) /\ SameFrame(t, w) /\ KeptBut(t, w, b) /\ t.visible[b] = v
        /\ t.unseen = w.unseen /\ BarAt(t, b)
    BY <1>0, <1>5, <1>8, <1>12, SetVisibleGives
  <2> HIDE DEF t
  <2>2. SameFrame(t, s) /\ KeptBut(t, s, b) /\ t.unseen = s.unseen
    BY <1>5, <2>1 DEF SameFrame, KeptBut, Kept
  <2>3. PlacedAt(t, b) /\ UprightAt(t, b)
    BY <2>1, SeatedIsPlaced DEF BarAt
  <2>4. t.visible[b] = s.visible[b]
    BY <2>1 DEF v
  <2> QED BY <1>2, <1>10, <1>12, <2>1, <2>2, <2>3, <2>4
<1> QED BY <1>11, <1>12

\* The layout makes all right of a toolbar, wherever its icons were.
LEMMA LayoutGives ==
  ASSUME NEW s, Shape(s), NEW b \in Bars, UprightAt(s, b)
  PROVE  LET t == Layout(s, b)
         IN /\ Shape(t) /\ SameFrame(t, s) /\ KeptBut(t, s, b) /\ t.visible[b] = s.visible[b]
            /\ b # "browse" => t.unseen = s.unseen
            /\ BarAt(t, b) /\ (PaintedAt(s, b) => PaintedAt(t, b))
<1>1. CASE b # "browse"
  <2>1. Layout(s, b) = ToolbarLayout(s, b)
    BY <1>1 DEF Layout
  <2> QED BY <1>1, <2>1, ToolbarLayoutGives
<1>2. CASE b = "browse"
  <2> DEFINE a == ToolbarLayout(s, "browse")
  <2>1. /\ Shape(a) /\ SameFrame(a, s) /\ KeptBut(a, s, "browse") /\ a.visible["browse"] = s.visible["browse"]
        /\ PlacedAt(a, "browse") /\ UprightAt(a, "browse")
    BY <1>2, ToolbarLayoutGives
  <2> HIDE DEF a
  <2> DEFINE u == SetHidden(a, s.hidden)
  <2>2. s.hidden \in BOOLEAN /\ s.visible["browse"] \in BOOLEAN
    BY <1>2 DEF Shape
  <2>3. /\ Shape(u) /\ KeptBut(u, a, "browse") /\ u.visible = a.visible
        /\ u.position = a.position /\ u.current = a.current /\ u.hidden = s.hidden
    BY <2>1, <2>2, SetHiddenGives
  <2>4. SeatedAt(u, "browse") /\ LitAt(u)
    BY <2>1, <2>2, SetHiddenSeats
  <2> HIDE DEF u
  <2> DEFINE n == ~s.visible["browse"]
  <2>5. n \in BOOLEAN /\ (n <=> ~s.visible["browse"])
    OBVIOUS
  <2> HIDE DEF n
  <2> DEFINE t == [u EXCEPT !.unseen = n]
  <2>6. /\ Shape(t) /\ SameFrame(t, u) /\ t.icons = u.icons /\ t.oam = u.oam /\ t.visible = u.visible /\ t.unseen = n
    BY <2>3, <2>5 DEF Shape, SameFrame, PartsOfBars
  <2>7. t = Layout(s, "browse")
    BY DEF Layout, u, a, n
  <2> HIDE DEF t
  <2>8. SameFrame(t, s) /\ KeptBut(t, s, "browse") /\ t.visible["browse"] = s.visible["browse"]
    BY <2>1, <2>3, <2>6 DEF SameFrame, KeptBut
  <2>9. SeatedAt(t, "browse")
    BY <2>4, <2>6 DEF SeatedAt, Sits, Upright, SameFrame
  <2>10. LitAt(t)
    BY <2>4, <2>6 DEF LitAt, Lit, SameFrame
  <2>11. UnseenAt(t, "browse")
    BY <2>5, <2>6, <2>8 DEF UnseenAt
  <2>12. BarAt(t, "browse")
    BY <2>9, <2>10, <2>11 DEF BarAt
  <2>13. PaintedAt(t, "browse")
    BY DEF PaintedAt
  <2> QED BY <1>2, <2>6, <2>7, <2>8, <2>12, <2>13
<1> QED BY <1>1, <1>2

----------------------------------------------------------------------------
(* All toolbars                                                            *)

OneShown(s) == \A b \in Bars : s.visible[b] => b = s.current
Whole(s) == Shape(s) /\ OneShown(s) /\ \A b \in Bars : BarAt(s, b) /\ PaintedAt(s, b)

\* The first toolbar has the pictures, and the OAM has them too.
Told(s, d, w) == \A i \in DOMAIN Icons["browse"] : s.icons["browse"][i].tile = Picture("browse", i, d, w)
Seen(s, d, w) == \A i \in DOMAIN Icons["browse"] :
  /\ Sits(s.oam["browse"][i], s, "browse", i) /\ Lit(s.oam["browse"][i], s, i)
  /\ s.oam["browse"][i].tile = Picture("browse", i, d, w)

\* Showing or not the toolbar in use keeps all right.
LEMMA ShowCurrent ==
  ASSUME NEW s, Whole(s), NEW v \in BOOLEAN
  PROVE  LET t == SetVisible(s, s.current, v)
         IN Whole(t) /\ t.current = s.current /\ t.visible[s.current] = v
<1> DEFINE b == s.current
           t == SetVisible(s, b, v)
<1>1. b \in Bars /\ Shape(s) /\ SeatedAt(s, b) /\ PaintedAt(s, b)
  BY DEF Whole, Shape, BarAt
<1>2. b = s.current
  OBVIOUS
<1> HIDE DEF b
<1>3. /\ Shape(t) /\ SameFrame(t, s) /\ KeptBut(t, s, b) /\ t.visible[b] = v
      /\ b # "browse" => t.unseen = s.unseen
      /\ BarAt(t, b)
  BY <1>1, SetVisibleGives
<1>4. PaintedAt(t, b)
  BY <1>1, SetVisiblePaints
<1> HIDE DEF t
<1>5. \A c \in Bars : BarAt(t, c) /\ PaintedAt(t, c)
  <2>1. /\ \A c \in Bars \ {b} : BarAt(s, c) => BarAt(t, c)
        /\ \A c \in Bars \ {b} : PaintedAt(s, c) => PaintedAt(t, c)
    BY <1>1, <1>3, OthersKept
  <2> QED BY <1>3, <1>4, <2>1 DEF Whole
<1>6. OneShown(t)
  BY <1>2, <1>3 DEF OneShown, SameFrame, KeptBut, Whole
<1> QED BY <1>2, <1>3, <1>5, <1>6 DEF Whole, SameFrame, t, b

\* View::setToolbar keeps all right.
LEMMA SetToolbarWhole ==
  ASSUME NEW s, Whole(s), NEW b \in Bars
  PROVE  Whole(BarsSetToolbar(s, b))
<1> DEFINE t == SetVisible(s, s.current, FALSE)
<1>1. Whole(t) /\ t.current = s.current /\ t.visible[s.current] = FALSE
  BY ShowCurrent
<1> HIDE DEF t
<1> DEFINE u == [t EXCEPT !.current = b]
<1>2. /\ Shape(u) /\ u.position = t.position /\ u.icons = t.icons /\ u.oam = t.oam /\ u.visible = t.visible
      /\ u.hidden = t.hidden /\ u.unseen = t.unseen /\ u.current = b
  BY <1>1 DEF Whole, Shape, PartsOfBars
<1>3. BarsSetToolbar(s, b) = SetVisible(u, b, TRUE)
  BY DEF BarsSetToolbar, t
<1> HIDE DEF u
<1>4. ASSUME NEW c \in Bars PROVE BarAt(u, c) /\ PaintedAt(u, c)
  <2>1. BarAt(t, c) /\ PaintedAt(t, c)
    BY <1>1 DEF Whole
  <2>2. BarAt(u, c)
    BY <1>2, <2>1, BarKept
  <2> QED BY <1>2, <2>1, <2>2 DEF PaintedAt
<1>5. OneShown(u)
  BY <1>1, <1>2 DEF OneShown, Whole
<1>6. Whole(u)
  BY <1>2, <1>4, <1>5 DEF Whole
<1> QED BY <1>2, <1>3, <1>6, ShowCurrent

\* The first icon hides the others and brings them back.
LEMMA HideWhole ==
  ASSUME NEW s, Whole(s), s.visible["browse"], NEW h \in BOOLEAN
  PROVE  Whole(SetHidden(s, h))
<1> DEFINE t == SetHidden(s, h)
<1>1. Shape(s) /\ SeatedAt(s, "browse") /\ "browse" \in Bars
  BY BarsAre DEF Whole, BarAt
<1>2. PlacedAt(s, "browse") /\ UprightAt(s, "browse")
  BY <1>1, SeatedIsPlaced
<1>3. SeatedAt(t, "browse") /\ LitAt(t)
  BY <1>1, <1>2, SetHiddenSeats
<1>4. /\ Shape(t) /\ KeptBut(t, s, "browse") /\ t.visible = s.visible
      /\ t.position = s.position /\ t.current = s.current
  BY <1>1, SetHiddenGives
<1> HIDE DEF t
<1>5. BarAt(t, "browse") /\ PaintedAt(t, "browse")
  BY <1>3, <1>4 DEF BarAt, UnseenAt, PaintedAt
<1>6. ASSUME NEW c \in Bars \ {"browse"} PROVE BarAt(t, c) /\ PaintedAt(t, c)
  <2>1. BarAt(s, c) /\ PaintedAt(s, c) /\ t.icons[c] = s.icons[c] /\ t.oam[c] = s.oam[c]
    BY <1>4 DEF Whole, KeptBut
  <2>2. BarAt(t, c)
    BY <1>4, <2>1, BarKept
  <2> QED BY <1>4, <2>1, <2>2 DEF PaintedAt
<1>7. OneShown(t)
  BY <1>4 DEF OneShown, Whole
<1> QED BY <1>4, <1>5, <1>6, <1>7 DEF Whole, t

\* Select moves the toolbar to the next side, visible or not.
LEMMA CycleWhole ==
  ASSUME NEW s, Whole(s)
  PROVE  Whole(CyclePosition(s))
<1> DEFINE b == s.current
           position == [s.position EXCEPT ![b] = NextPosition[s.position[b]]]
           u == [s EXCEPT !.position = position]
           t == Layout(u, b)
<1>1. b \in Bars /\ Shape(s) /\ UprightAt(s, b) /\ PaintedAt(s, b)
  BY SeatedIsPlaced DEF Whole, Shape, BarAt
<1>2. DOMAIN position = Bars /\ \A c \in Bars \ {b} : position[c] = s.position[c]
  BY <1>1 DEF Shape
<1>3. t = CyclePosition(s)
  BY DEF CyclePosition
<1> HIDE DEF position
<1>4. /\ Shape(u) /\ u.position = position /\ u.icons = s.icons /\ u.oam = s.oam /\ u.visible = s.visible
      /\ u.hidden = s.hidden /\ u.unseen = s.unseen /\ u.current = s.current
  BY <1>1, <1>2 DEF Shape, PartsOfBars
<1>5. b = s.current
  OBVIOUS
<1> HIDE DEF b, u
<1>6. UprightAt(u, b) /\ PaintedAt(u, b)
  BY <1>1, <1>4 DEF UprightAt, Upright, PaintedAt
<1>7. /\ Shape(t) /\ SameFrame(t, u) /\ KeptBut(t, u, b) /\ t.visible[b] = u.visible[b]
      /\ b # "browse" => t.unseen = u.unseen
      /\ BarAt(t, b) /\ PaintedAt(t, b)
  BY <1>1, <1>4, <1>6, LayoutGives
<1> HIDE DEF t
<1>8. ASSUME NEW c \in Bars \ {b} PROVE BarAt(t, c) /\ PaintedAt(t, c)
  <2>1. BarAt(s, c) /\ PaintedAt(s, c)
    BY DEF Whole
  <2>2. u.position[c] = s.position[c]
    BY <1>2, <1>4
  <2>3. BarAt(u, c)
    BY <1>4, <2>1, <2>2, BarKept
  <2>4. PaintedAt(u, c)
    BY <1>4, <2>1 DEF PaintedAt
  <2> QED BY <1>1, <1>7, <2>3, <2>4, OthersKept
<1>9. OneShown(t)
  BY <1>4, <1>5, <1>7 DEF OneShown, SameFrame, KeptBut, Whole
<1> QED BY <1>3, <1>7, <1>8, <1>9 DEF Whole

\* updateIcons paints the icons of one toolbar, which are not yet seen.
LEMMA UpdateIconsGives ==
  ASSUME NEW s, Shape(s), NEW b \in Bars, NEW d, NEW w, BarAt(s, b)
  PROVE  LET t == UpdateIcons(s, b, d, w)
         IN /\ Shape(t) /\ Kept(t, s) /\ KeptBut(t, s, b) /\ t.visible = s.visible /\ t.oam[b] = s.oam[b]
            /\ \A i \in DOMAIN Icons[b] : t.icons[b][i].tile = Picture(b, i, d, w)
            /\ BarAt(t, b)
<1> DEFINE p(i) == [s.icons[b][i] EXCEPT !.tile = Picture(b, i, d, w)]
           f == [i \in DOMAIN Icons[b] |-> IF b = "browse" /\ i = Hide THEN SetHflip(p(i), s.hidden) ELSE p(i)]
           t == WithIcons(s, b, f)
<1>1. t = UpdateIcons(s, b, d, w)
  BY DEF UpdateIcons
<1>2. ASSUME NEW i \in DOMAIN Icons[b]
      PROVE  /\ IsSprite(p(i)) /\ Hflip(p(i)) = Hflip(s.icons[b][i]) /\ p(i).x = s.icons[b][i].x
             /\ p(i).y = s.icons[b][i].y /\ p(i).tile = Picture(b, i, d, w)
             /\ p(i).double = s.icons[b][i].double /\ p(i).rotateScale = s.icons[b][i].rotateScale
  <2>1. IsSprite(s.icons[b][i])
    BY DEF Shape, AreIcons
  <2> QED BY <2>1, RepaintGives
<1>3. DOMAIN f = DOMAIN Icons[b]
      /\ \A i \in DOMAIN Icons[b] : f[i] = IF b = "browse" /\ i = Hide THEN SetHflip(p(i), s.hidden) ELSE p(i)
  OBVIOUS
<1> HIDE DEF f, p
<1>4. s.hidden \in BOOLEAN
  BY DEF Shape
<1>5. ASSUME NEW i \in DOMAIN Icons[b]
      PROVE  /\ IsSprite(f[i]) /\ f[i].x = s.icons[b][i].x
             /\ f[i].y = s.icons[b][i].y /\ f[i].tile = Picture(b, i, d, w)
             /\ f[i].double = s.icons[b][i].double /\ f[i].rotateScale = s.icons[b][i].rotateScale
             /\ Upright(f[i], s, b, i)
  <2>1. Upright(s.icons[b][i], s, b, i)
    BY DEF BarAt, SeatedAt, Sits
  <2>2. CASE b = "browse" /\ i = Hide
    <3>1. f[i] = SetHflip(p(i), s.hidden)
      BY <1>3, <2>2
    <3>2. /\ IsSprite(f[i]) /\ Hflip(f[i]) = s.hidden /\ f[i].x = p(i).x /\ f[i].y = p(i).y /\ f[i].tile = p(i).tile
          /\ f[i].double = p(i).double /\ f[i].rotateScale = p(i).rotateScale
      BY <1>2, <1>4, <3>1, SetHflipGives
    <3>3. f[i].rotateScale => b = "browse" /\ i = Spinner
      BY <1>2, <2>1, <3>2 DEF Upright
    <3>4. Hflip(f[i]) = (b = "browse" /\ i = Hide /\ s.hidden)
      <4>1. (b = "browse" /\ i = Hide /\ s.hidden) = s.hidden
        BY <1>4, <2>2
      <4> QED BY <3>2, <4>1
    <3>5. Upright(f[i], s, b, i)
      BY <3>3, <3>4 DEF Upright
    <3> QED BY <1>2, <3>2, <3>5
  <2>3. CASE ~(b = "browse" /\ i = Hide)
    <3>1. f[i] = p(i)
      BY <1>3, <2>3
    <3>2. Upright(f[i], s, b, i)
      BY <1>2, <2>1, <3>1 DEF Upright
    <3> QED BY <1>2, <3>1, <3>2
  <2> QED BY <2>2, <2>3
<1>6. AreIcons(f, b)
  BY <1>3, <1>5 DEF AreIcons
<1>7. /\ Shape(t) /\ Kept(t, s) /\ KeptBut(t, s, b) /\ t.icons[b] = f /\ t.oam[b] = s.oam[b] /\ t.visible = s.visible
  BY <1>6, WithIconsGives
<1> HIDE DEF t
<1>8. SeatedAt(t, b)
  <2> SUFFICES ASSUME NEW i \in DOMAIN Icons[b] PROVE Sits(f[i], t, b, i)
    BY <1>7 DEF SeatedAt
  <2>1. Sits(s.icons[b][i], s, b, i)
    BY DEF BarAt, SeatedAt
  <2>2. Upright(f[i], t, b, i)
    BY <1>5, <1>7 DEF Upright, Kept
  <2> QED BY <1>5, <1>7, <2>1, <2>2 DEF Sits, Kept
<1>9. UnseenAt(t, b)
  BY <1>7 DEF UnseenAt, BarAt, Kept
<1>10. b = "browse" /\ t.visible[b] => LitAt(t)
  BY <1>5, <1>7 DEF LitAt, Lit, BarAt, Kept
<1>11. b # "browse" /\ t.visible[b] => SeenAt(t, b)
  BY <1>7 DEF SeenAt, Sits, Upright, BarAt, Kept
<1>12. BarAt(t, b)
  BY <1>8, <1>9, <1>10, <1>11 DEF BarAt
<1> QED BY <1>1, <1>5, <1>7, <1>12

\* The pictures of the other toolbars never change.
LEMMA PictureOfOthers ==
  ASSUME NEW b, b # "browse", NEW i, NEW d, NEW w
  PROVE  Picture(b, i, d, w) = Icons[b][i]
BY DEF Picture

\* What is seen depends on the OAM, the place and what is hidden.
LEMMA SeenKept ==
  ASSUME NEW s, NEW t, t.position = s.position, t.hidden = s.hidden, t.oam["browse"] = s.oam["browse"],
         NEW d, NEW w, Seen(s, d, w)
  PROVE  Seen(t, d, w)
BY DEF Seen, Sits, Upright, Lit

\* updateIcons, with what it leaves alone.
LEMMA UpdateIconsBars ==
  ASSUME NEW s, Shape(s), OneShown(s), \A c \in Bars : BarAt(s, c), NEW b \in Bars, NEW d, NEW w,
         b # "browse" /\ s.visible[b] => PaintedAt(s, b)
  PROVE  LET t == UpdateIcons(s, b, d, w)
         IN /\ Shape(t) /\ OneShown(t) /\ t.current = s.current /\ t.visible = s.visible
            /\ \A c \in Bars : BarAt(t, c) /\ (PaintedAt(s, c) \/ c = b => PaintedAt(t, c))
            /\ b = "browse" => Told(t, d, w)
            /\ \A e, v : Seen(s, e, v) => Seen(t, e, v)
<1> DEFINE t == UpdateIcons(s, b, d, w)
<1>1. /\ Shape(t) /\ Kept(t, s) /\ KeptBut(t, s, b) /\ t.visible = s.visible /\ t.oam[b] = s.oam[b]
      /\ \A i \in DOMAIN Icons[b] : t.icons[b][i].tile = Picture(b, i, d, w)
      /\ BarAt(t, b)
  BY UpdateIconsGives
<1> HIDE DEF t
<1>2. SameFrame(t, s) /\ t.unseen = s.unseen
  BY <1>1 DEF Kept, SameFrame
<1>3. PaintedAt(t, b)
  BY <1>1, PictureOfOthers DEF PaintedAt
<1>4. \A c \in Bars : BarAt(t, c) /\ (PaintedAt(s, c) \/ c = b => PaintedAt(t, c))
  <2>1. /\ \A c \in Bars \ {b} : BarAt(s, c) => BarAt(t, c)
        /\ \A c \in Bars \ {b} : PaintedAt(s, c) => PaintedAt(t, c)
    BY <1>1, <1>2, OthersKept
  <2> QED BY <1>1, <1>3, <2>1
<1>5. OneShown(t)
  BY <1>1 DEF OneShown, Kept
<1>6. b = "browse" => Told(t, d, w)
  BY <1>1 DEF Told
<1>7. t.oam["browse"] = s.oam["browse"]
  BY <1>1, BarsAre DEF KeptBut
<1>8. \A e, v : Seen(s, e, v) => Seen(t, e, v)
  BY <1>2, <1>7, SeenKept DEF SameFrame
<1> QED BY <1>1, <1>2, <1>4, <1>5, <1>6, <1>8 DEF SameFrame, t

\* updateIcons keeps all right.
LEMMA UpdateIconsWhole ==
  ASSUME NEW s, Whole(s), NEW b \in Bars, NEW d, NEW w
  PROVE  LET t == UpdateIcons(s, b, d, w)
         IN /\ Whole(t) /\ t.current = s.current /\ t.visible = s.visible
            /\ b = "browse" => Told(t, d, w)
            /\ \A e, v : Seen(s, e, v) => Seen(t, e, v)
<1>1. /\ Shape(s) /\ OneShown(s) /\ \A c \in Bars : BarAt(s, c)
      /\ \A c \in Bars : PaintedAt(s, c)
  BY DEF Whole
<1> DEFINE t == UpdateIcons(s, b, d, w)
<1>2. /\ Shape(t) /\ OneShown(t) /\ t.current = s.current /\ t.visible = s.visible
      /\ \A c \in Bars : BarAt(t, c) /\ (PaintedAt(s, c) \/ c = b => PaintedAt(t, c))
      /\ b = "browse" => Told(t, d, w)
      /\ \A e, v : Seen(s, e, v) => Seen(t, e, v)
  BY <1>1, UpdateIconsBars
<1> HIDE DEF t
<1>3. Whole(t)
  BY <1>1, <1>2 DEF Whole
<1> QED BY <1>2, <1>3 DEF t

\* All toolbars are told; the first time, none but the first is visible.
LEMMA NotifiedWhole ==
  ASSUME NEW s, Shape(s), OneShown(s), \A c \in Bars : BarAt(s, c),
         NEW d, NEW w, \A c \in Bars \ {"browse"} : s.visible[c] => PaintedAt(s, c)
  PROVE  LET t == Notified(s, d, w)
         IN /\ Whole(t) /\ t.visible = s.visible /\ Told(t, d, w)
            /\ \A e, v : Seen(s, e, v) => Seen(t, e, v)
<1> DEFINE t1 == UpdateIcons(s, "prefs", d, w)
           t2 == UpdateIcons(t1, "bookmark", d, w)
           t3 == UpdateIcons(t2, "browse", d, w)
<1>1. /\ Shape(t1) /\ OneShown(t1) /\ t1.visible = s.visible
      /\ \A c \in Bars : BarAt(t1, c) /\ (PaintedAt(s, c) \/ c = "prefs" => PaintedAt(t1, c))
      /\ \A e, v : Seen(s, e, v) => Seen(t1, e, v)
  <2>1. "prefs" \in Bars /\ ("prefs" # "browse" /\ s.visible["prefs"] => PaintedAt(s, "prefs"))
    BY BarsAre
  <2> QED BY <2>1, UpdateIconsBars
<1> HIDE DEF t1
<1>2. /\ Shape(t2) /\ OneShown(t2) /\ t2.visible = t1.visible
      /\ \A c \in Bars : BarAt(t2, c) /\ (PaintedAt(t1, c) \/ c = "bookmark" => PaintedAt(t2, c))
      /\ \A e, v : Seen(t1, e, v) => Seen(t2, e, v)
  <2>1. "bookmark" \in Bars /\ ("bookmark" # "browse" /\ t1.visible["bookmark"] => PaintedAt(t1, "bookmark"))
    BY <1>1, BarsAre
  <2> QED BY <1>1, <2>1, UpdateIconsBars
<1> HIDE DEF t2
<1>3. /\ Shape(t3) /\ OneShown(t3) /\ t3.visible = t2.visible
      /\ \A c \in Bars : BarAt(t3, c) /\ (PaintedAt(t2, c) \/ c = "browse" => PaintedAt(t3, c))
      /\ Told(t3, d, w)
      /\ \A e, v : Seen(t2, e, v) => Seen(t3, e, v)
  <2>1. "browse" \in Bars
    BY BarsAre
  <2> QED BY <1>2, <2>1, UpdateIconsBars
<1>4. t3 = Notified(s, d, w)
  BY DEF Notified, t1, t2
<1> HIDE DEF t3
<1>5. \A c \in Bars : PaintedAt(t3, c)
  BY <1>1, <1>2, <1>3, BarsAre
<1>6. Whole(t3)
  BY <1>3, <1>5 DEF Whole
<1> QED BY <1>1, <1>2, <1>3, <1>4, <1>6

\* BrowseToolbar::tick brings the icons to the screen; the spinner ends with the right picture.
LEMMA BarTickGives ==
  ASSUME NEW s, Whole(s), NEW d
  PROVE  LET t == BarTick(s, d)
         IN /\ Whole(t) /\ t.current = s.current /\ t.visible = s.visible
            /\ \A w : s.visible["browse"] /\ Told(s, d, w) => Seen(t, d, w)
<1>1. CASE ~s.visible["browse"]
  <2>1. BarTick(s, d) = s
    BY <1>1 DEF BarTick
  <2> QED BY <1>1, <2>1
<1>2. CASE s.visible["browse"]
  <2>0. "browse" \in Bars /\ Spinner \in DOMAIN Icons["browse"] /\ Hide # Spinner
    BY BarsAre
  <2>1. s.current = "browse" /\ Shape(s) /\ SeatedAt(s, "browse") /\ LitAt(s)
    BY <1>2, <2>0 DEF Whole, OneShown, BarAt
  <2> DEFINE p == s.icons["browse"][Spinner]
             q == Spun(p, d.loading)
             f == [s.icons["browse"] EXCEPT ![Spinner] = q]
  <2>2. IsSprite(p) /\ Sits(p, s, "browse", Spinner) /\ Lit(p, s, Spinner) /\ Hflip(p) = FALSE
    BY <2>0, <2>1 DEF Shape, AreIcons, SeatedAt, LitAt, Sits, Upright
  <2>3. BarTick(s, d) = Update(WithIcons(s, "browse", f), "browse")
    BY <1>2, <2>1 DEF BarTick
  <2> HIDE DEF p
  <2>4. /\ IsSprite(q) /\ ~Hflip(q) /\ q.x = p.x /\ q.y = p.y
        /\ q.tile = IF d.loading THEN "SPINNER" ELSE p.tile
        /\ q.double \in {FALSE, p.double}
    BY <2>2, SpunGives
  <2> HIDE DEF q
  <2>5. /\ AreIcons(f, "browse") /\ f[Spinner] = q
        /\ \A i \in DOMAIN Icons["browse"] : i # Spinner => f[i] = s.icons["browse"][i]
    BY <2>0, <2>1, <2>4 DEF Shape, AreIcons
  <2> HIDE DEF f
  <2> DEFINE u == WithIcons(s, "browse", f)
             t == Update(u, "browse")
  <2>6. /\ Shape(u) /\ Kept(u, s) /\ KeptBut(u, s, "browse") /\ u.icons["browse"] = f /\ u.visible = s.visible
    BY <2>0, <2>1, <2>5, WithIconsGives
  <2> HIDE DEF u
  <2>7. /\ Shape(t) /\ Kept(t, u) /\ KeptBut(t, u, "browse") /\ t.oam["browse"] = u.icons["browse"]
        /\ t.icons = u.icons /\ t.visible = u.visible
    BY <2>0, <2>6, UpdateGives
  <2>8. t = BarTick(s, d)
    BY <2>3 DEF u
  <2> HIDE DEF t
  <2>9. Kept(t, s) /\ KeptBut(t, s, "browse") /\ t.icons["browse"] = f /\ t.oam["browse"] = f /\ t.visible = s.visible
    BY <2>6, <2>7 DEF Kept, KeptBut
  <2>10. Sits(q, t, "browse", Spinner) /\ Lit(q, t, Spinner)
    <3>1. Hflip(q) = FALSE
      BY <2>4 DEF Hflip
    <3>2. Upright(q, t, "browse", Spinner)
      BY <2>0, <3>1 DEF Upright
    <3>3. Sits(q, t, "browse", Spinner)
      BY <2>0, <2>2, <2>4, <2>9, <3>2 DEF Sits, Kept
    <3>4. Lit(q, t, Spinner)
      BY <2>0, <2>2, <2>4, <2>9 DEF Lit, Kept
    <3> QED BY <3>3, <3>4
  <2>11. ASSUME NEW i \in DOMAIN Icons["browse"] PROVE Sits(f[i], t, "browse", i) /\ Lit(f[i], t, i)
    <3>1. CASE i = Spinner
      BY <2>5, <2>10, <3>1
    <3>2. CASE i # Spinner
      <4>1. f[i] = s.icons["browse"][i] /\ t.position = s.position /\ t.hidden = s.hidden
        BY <2>5, <2>9, <3>2 DEF Kept
      <4>2. Sits(f[i], s, "browse", i) /\ Lit(f[i], s, i)
        BY <2>1, <4>1 DEF SeatedAt, LitAt
      <4> QED BY <4>1, <4>2 DEF Sits, Lit, Upright
    <3> QED BY <3>1, <3>2
  <2>12. BarAt(t, "browse") /\ PaintedAt(t, "browse")
    <3>1. SeatedAt(t, "browse") /\ LitAt(t)
      BY <2>9, <2>11 DEF SeatedAt, LitAt
    <3>2. UnseenAt(t, "browse") /\ PaintedAt(t, "browse")
      BY <1>2, <2>9 DEF UnseenAt, PaintedAt
    <3> QED BY <3>1, <3>2 DEF BarAt
  <2>13. Whole(t) /\ t.current = s.current
    <3>1. SameFrame(t, s) /\ t.unseen = s.unseen
      BY <2>9 DEF SameFrame, Kept
    <3>2. /\ \A c \in Bars \ {"browse"} : BarAt(s, c) => BarAt(t, c)
          /\ \A c \in Bars \ {"browse"} : PaintedAt(s, c) => PaintedAt(t, c)
      BY <2>0, <2>9, <3>1, OthersKept
    <3>3. OneShown(t) /\ t.current = s.current
      BY <2>9, <3>1 DEF OneShown, Whole, SameFrame
    <3>4. \A c \in Bars : BarAt(t, c) /\ PaintedAt(t, c)
      BY <2>12, <3>2 DEF Whole
    <3> QED BY <2>7, <3>3, <3>4 DEF Whole
  <2>14. ASSUME NEW w, Told(s, d, w) PROVE Seen(t, d, w)
    <3>1. Picture("browse", Spinner, d, w) = IF d.loading THEN "SPINNER" ELSE w
      BY DEF Picture, Spinner, Hide
    <3>2. q.tile = Picture("browse", Spinner, d, w)
      BY <2>0, <2>4, <2>14, <3>1 DEF Told, p
    <3>3. \A i \in DOMAIN Icons["browse"] : f[i].tile = Picture("browse", i, d, w)
      BY <2>5, <2>14, <3>2 DEF Told
    <3> QED BY <2>9, <2>11, <3>3 DEF Seen
  <2> QED BY <2>8, <2>9, <2>13, <2>14
<1> QED BY <1>1, <1>2

----------------------------------------------------------------------------
(* The steps.  What was painted is seen one frame later: only when two     *)
(* frames have passed is the OAM that of the icons, and Notify between     *)
(* them changes the icons again, to the same.                              *)

IconsInv ==
  /\ Whole(toolbars) /\ still \in 0..2
  /\ toolbars.visible["browse"] => /\ still >= 1 => Told(toolbars, doc, wifi)
                                   /\ still = 2 => Seen(toolbars, doc, wifi)

\* The layouts of View::View and the first notification make all right.
LEMMA IconsInitOK == BarsInit => IconsInv
<1> SUFFICES ASSUME BarsInit PROVE IconsInv
  OBVIOUS
<1> DEFINE sprites == [b \in Bars |-> [i \in DOMAIN Icons[b] |-> Sprite]]
           none == [b \in Bars |-> FALSE]
           bottom == [b \in Bars |-> "BOTTOM"]
           s == [visible |-> none, position |-> bottom, icons |-> sprites, oam |-> sprites,
                 current |-> "browse", hidden |-> FALSE, unseen |-> FALSE]
           t1 == ToolbarLayout(s, "prefs")
           t2 == ToolbarLayout(t1, "bookmark")
           t3 == Layout(t2, "browse")
           t4 == SetVisible(t3, "browse", TRUE)
<1>1. toolbars = Notified(t4, doc, wifi) /\ still = 0
  BY DEF BarsInit
<1>2. /\ none \in [Bars -> BOOLEAN] /\ \A b \in Bars : none[b] = FALSE
  OBVIOUS
<1>3. DOMAIN bottom = Bars
  OBVIOUS
<1>4. /\ DOMAIN sprites = Bars
      /\ \A b \in Bars : DOMAIN sprites[b] = DOMAIN Icons[b] /\ \A i \in DOMAIN Icons[b] : sprites[b][i] = Sprite
  OBVIOUS
<1>5. IsSprite(Sprite) /\ Hflip(Sprite) = FALSE /\ ~Sprite.rotateScale
  BY DEF IsSprite, Sprite, Hflip, PartsOfSprite
<1>6. "browse" \in Bars /\ "prefs" \in Bars /\ "bookmark" \in Bars
  BY BarsAre
<1> HIDE DEF sprites, none, bottom
<1>7. /\ DOMAIN s = PartsOfBars /\ s.visible = none /\ s.icons = sprites /\ s.oam = sprites /\ s.position = bottom
      /\ s.current = "browse" /\ s.hidden = FALSE /\ s.unseen = FALSE
  BY DEF PartsOfBars
<1> HIDE DEF s
<1>8. \A b \in Bars : AreIcons(s.icons[b], b)
  BY <1>4, <1>5, <1>7 DEF AreIcons
<1>9. Shape(s)
  BY <1>2, <1>3, <1>4, <1>6, <1>7, <1>8 DEF Shape
<1>10. \A b \in Bars : UprightAt(s, b)
  <2> SUFFICES ASSUME NEW b \in Bars, NEW i \in DOMAIN Icons[b] PROVE Upright(Sprite, s, b, i)
    BY <1>4, <1>7 DEF UprightAt
  <2> QED BY <1>5, <1>7 DEF Upright
<1>11. /\ Shape(t1) /\ SameFrame(t1, s) /\ KeptBut(t1, s, "prefs") /\ t1.visible["prefs"] = s.visible["prefs"]
       /\ BarAt(t1, "prefs") /\ t1.unseen = s.unseen
  BY <1>6, <1>9, <1>10, ToolbarLayoutGives
<1> HIDE DEF t1
<1>12. UprightAt(t1, "bookmark") /\ UprightAt(t1, "browse")
  BY <1>6, <1>10, <1>11 DEF UprightAt, Upright, SameFrame, KeptBut
<1>13. /\ Shape(t2) /\ SameFrame(t2, t1) /\ KeptBut(t2, t1, "bookmark") /\ t2.visible["bookmark"] = t1.visible["bookmark"]
       /\ BarAt(t2, "bookmark") /\ t2.unseen = t1.unseen
  BY <1>6, <1>11, <1>12, ToolbarLayoutGives
<1> HIDE DEF t2
<1>14. UprightAt(t2, "browse")
  BY <1>6, <1>12, <1>13 DEF UprightAt, Upright, SameFrame, KeptBut
<1>15. BarAt(t2, "prefs")
  BY <1>6, <1>11, <1>13, OthersKept
<1>16. /\ Shape(t3) /\ SameFrame(t3, t2) /\ KeptBut(t3, t2, "browse") /\ t3.visible["browse"] = t2.visible["browse"]
       /\ BarAt(t3, "browse")
  BY <1>6, <1>13, <1>14, LayoutGives
<1> HIDE DEF t3
<1>17. BarAt(t3, "prefs") /\ BarAt(t3, "bookmark")
  BY <1>6, <1>13, <1>15, <1>16, OthersKept
<1>18. SeatedAt(t3, "browse")
  BY <1>16 DEF BarAt
<1>19. /\ Shape(t4) /\ SameFrame(t4, t3) /\ KeptBut(t4, t3, "browse") /\ t4.visible["browse"] = TRUE
       /\ BarAt(t4, "browse")
  BY <1>6, <1>16, <1>18, SetVisibleGives
<1> HIDE DEF t4
<1>20. BarAt(t4, "prefs") /\ BarAt(t4, "bookmark")
  BY <1>6, <1>17, <1>19, OthersKept
<1>21. t4.current = "browse"
  BY <1>7, <1>11, <1>13, <1>16, <1>19 DEF SameFrame
<1>22. ~t4.visible["prefs"] /\ ~t4.visible["bookmark"]
  BY <1>2, <1>6, <1>7, <1>11, <1>13, <1>16, <1>19 DEF KeptBut
<1>23. OneShown(t4) /\ \A c \in Bars : BarAt(t4, c)
  BY <1>19, <1>20, <1>21, <1>22, BarsAre DEF OneShown
<1>24. \A c \in Bars \ {"browse"} : t4.visible[c] => PaintedAt(t4, c)
  BY <1>22, BarsAre
<1>25. Whole(toolbars)
  BY <1>1, <1>19, <1>23, <1>24, NotifiedWhole
<1> QED BY <1>1, <1>25 DEF IconsInv

\* When something was done in a frame, nothing is claimed of the pictures of the first toolbar.
LEMMA StillInv ==
  ASSUME Whole(toolbars'), still' = 0
  PROVE  IconsInv'
BY DEF IconsInv, Whole, Shape, OneShown, BarAt, PaintedAt, SeatedAt, UnseenAt, SeenAt, LitAt, Sits, Lit, Upright, Told, Seen,
  AreIcons, IsSprite, Enabled, Hflip

\* Every icon that can be pressed.
LEMMA PressOK ==
  ASSUME IconsInv, NEW i, Press(i)
  PROVE  IconsInv'
<1>1. Whole(toolbars) /\ toolbars.current \in Bars /\ toolbars.hidden \in BOOLEAN
  BY DEF IconsInv, Whole, Shape
<1>2. still' = 0
  BY DEF Press, Done, StartsFrame
<1>3. "prefs" \in Bars /\ "bookmark" \in Bars /\ "browse" \in Bars
  BY BarsAre
<1>4. CASE toolbars' = toolbars
  BY <1>1, <1>2, <1>4, StillInv
<1>5. CASE toolbars.current = "browse" /\ toolbars' = SetHidden(toolbars, ~toolbars.hidden)
  <2>1. toolbars.visible["browse"]
    BY <1>5 DEF Press
  <2>2. Whole(toolbars')
    BY <1>1, <1>5, <2>1, HideWhole
  <2> QED BY <1>2, <2>2, StillInv
<1>6. CASE toolbars' = SetVisible(toolbars, toolbars.current, FALSE)
  BY <1>1, <1>2, <1>6, ShowCurrent, StillInv
<1>7. CASE \E b \in Bars : toolbars' = BarsSetToolbar(toolbars, b)
  BY <1>1, <1>2, <1>7, SetToolbarWhole, StillInv
<1> QED BY <1>3, <1>4, <1>5, <1>6, <1>7 DEF Press, AsksForUrl

\* The toolbars are told between two frames, which does not count as something done.
LEMMA NotifyOK ==
  ASSUME IconsInv, Notify
  PROVE  IconsInv'
<1> DEFINE t == Notified(toolbars, doc, wifi)
<1>1. /\ Shape(toolbars) /\ OneShown(toolbars) /\ \A c \in Bars : BarAt(toolbars, c) /\ PaintedAt(toolbars, c)
  BY DEF IconsInv, Whole
<1>2. /\ Whole(t) /\ t.visible = toolbars.visible /\ Told(t, doc, wifi)
      /\ \A e, v : Seen(toolbars, e, v) => Seen(t, e, v)
  BY <1>1, NotifiedWhole
<1>3. toolbars' = t /\ doc' = doc /\ wifi' = wifi /\ still' = still
  BY DEF Notify
<1> HIDE DEF t
<1>4. /\ Whole(t) /\ still \in 0..2
      /\ t.visible["browse"] => (still >= 1 => Told(t, doc, wifi)) /\ (still = 2 => Seen(t, doc, wifi))
  BY <1>2 DEF IconsInv
<1> QED BY <1>3, <1>4 DEF IconsInv

\* Of two frames in which nothing is done, the first paints the icons and the second shows them.
LEMMA FrameOK ==
  ASSUME IconsInv, NEW touched \in BOOLEAN, NEW return \in BOOLEAN, BarsFrame(touched, return)
  PROVE  IconsInv'
<1>1. Whole(toolbars) /\ toolbars.current \in Bars
  BY DEF IconsInv, Whole, Shape
<1> DEFINE off == ~keyboard
           s == IF state = "BROWSE" /\ touched THEN SetVisible(toolbars, toolbars.current, off) ELSE toolbars
           a == BarTick(s, doc)
           t == UpdateIcons(a, toolbars.current, doc, wifi)
           ends == state = "ENTERING" /\ ~keyboard'
<1>2. /\ toolbars' = (IF ends THEN SetVisible(t, t.current, TRUE) ELSE t)
      /\ still' = (IF touched \/ return \/ ends \/ turn # 0 THEN 0 ELSE IF still = 2 THEN 2 ELSE still + 1)
      /\ doc' = doc /\ wifi' = wifi
  BY DEF BarsFrame
<1>3. off \in BOOLEAN
  OBVIOUS
<1> HIDE DEF off
<1>4. Whole(s) /\ s.current = toolbars.current
  <2>1. CASE state = "BROWSE" /\ touched
    <3>1. s = SetVisible(toolbars, toolbars.current, off)
      BY <2>1
    <3> HIDE DEF s
    <3> QED BY <1>1, <1>3, <3>1, ShowCurrent
  <2>2. CASE ~(state = "BROWSE" /\ touched)
    BY <1>1, <2>2
  <2> QED BY <2>1, <2>2
<1>5. ~touched => s = toolbars
  OBVIOUS
<1> HIDE DEF s
<1>6. /\ Whole(a) /\ a.current = s.current /\ a.visible = s.visible
      /\ \A w : s.visible["browse"] /\ Told(s, doc, w) => Seen(a, doc, w)
  BY <1>4, BarTickGives
<1> HIDE DEF a
<1>7. /\ Whole(t) /\ t.current = a.current /\ t.visible = a.visible
      /\ toolbars.current = "browse" => Told(t, doc, wifi)
      /\ \A e, v : Seen(a, e, v) => Seen(t, e, v)
  BY <1>1, <1>6, UpdateIconsWhole
<1> HIDE DEF t
<1>8. CASE ends
  <2>1. Whole(SetVisible(t, t.current, TRUE))
    BY <1>7, ShowCurrent
  <2>2. toolbars' = SetVisible(t, t.current, TRUE) /\ still' = 0
    BY <1>2, <1>8
  <2> QED BY <2>1, <2>2, StillInv
<1>9. CASE ~ends
  <2>1. toolbars' = t
    BY <1>2, <1>9
  <2> HIDE DEF ends
  <2>2. CASE still' = 0
    BY <1>7, <2>1, <2>2, StillInv
  <2>3. CASE still' # 0
    <3>1. ~touched /\ s = toolbars /\ still' = (IF still = 2 THEN 2 ELSE still + 1)
      BY <1>2, <1>5, <2>3
    <3>2. still \in 0..2 /\ still' \in 0..2 /\ (still' = 2 => still >= 1)
      BY <3>1 DEF IconsInv
    <3>3. ASSUME t.visible["browse"] PROVE Told(t, doc, wifi) /\ (still' = 2 => Seen(t, doc, wifi))
      <4>1. toolbars.visible["browse"] /\ toolbars.current = "browse"
        BY <1>1, <1>6, <1>7, <3>1, <3>3, BarsAre DEF Whole, OneShown
      <4>2. Told(t, doc, wifi)
        BY <1>7, <4>1
      <4>3. still' = 2 => Told(toolbars, doc, wifi)
        BY <3>2, <4>1 DEF IconsInv
      <4>4. still' = 2 => Seen(t, doc, wifi)
        BY <1>6, <1>7, <3>1, <4>1, <4>3
      <4> QED BY <4>2, <4>4
    <3> QED BY <1>2, <1>7, <2>1, <3>2, <3>3 DEF IconsInv
  <2> QED BY <2>2, <2>3
<1> QED BY <1>8, <1>9

\* Every step.
LEMMA IconsStepOK == IconsInv /\ [BarsNext]_barVars => IconsInv'
<1> SUFFICES ASSUME IconsInv, [BarsNext]_barVars PROVE IconsInv'
  OBVIOUS
<1>1. Whole(toolbars)
  BY DEF IconsInv
<1>2. CASE \E i \in DOMAIN CurrentIcons : Press(i)
  BY <1>2, PressOK
<1>3. CASE FieldTouched \/ KeyboardCloses \/ Change
  <2>1. toolbars' = toolbars /\ still' = 0
    BY <1>3 DEF FieldTouched, KeyboardCloses, Change, Done
  <2> QED BY <1>1, <2>1, StillInv
<1>4. CASE KeyA \/ AskName
  <2>1. toolbars' = SetVisible(toolbars, toolbars.current, FALSE) /\ still' = 0
    BY <1>4 DEF KeyA, AskName, AsksForUrl, Done, StartsFrame
  <2> QED BY <1>1, <2>1, ShowCurrent, StillInv
<1>5. CASE KeySelect
  <2>1. toolbars' = CyclePosition(toolbars) /\ still' = 0
    BY <1>5 DEF KeySelect, Done
  <2> QED BY <1>1, <2>1, CycleWhole, StillInv
<1>6. CASE KeyY \/ KeyX \/ BookmarksEnd
  <2>1. \E b \in Bars : toolbars' = BarsSetToolbar(toolbars, b)
    BY <1>6, BarsAre DEF KeyY, KeyX, BookmarksEnd
  <2>2. still' = 0
    BY <1>6 DEF KeyY, KeyX, BookmarksEnd, StartsFrame
  <2> QED BY <1>1, <2>1, <2>2, SetToolbarWhole, StillInv
<1>7. CASE Notify
  BY <1>7, NotifyOK
<1>8. CASE \E touched, return \in BOOLEAN : BarsFrame(touched, return)
  BY <1>8, FrameOK
<1>9. CASE UNCHANGED barVars
  BY <1>9 DEF barVars, IconsInv
<1> QED BY <1>2, <1>3, <1>4, <1>5, <1>6, <1>7, <1>8, <1>9 DEF BarsNext

\* The invariant says what is seen.
LEMMA IconsFollow == IconsInv => IconsShowState
<1> SUFFICES ASSUME IconsInv, still = 2, NEW b \in Bars, NEW i \in DOMAIN Icons[b]
             PROVE  LET p == toolbars.oam[b][i]
                    IN \/ b = "browse" /\ (toolbars.unseen \/ (i = Spinner /\ toolbars.hidden /\ toolbars.visible[b]))
                       \/ ~IsShown(b, i) /\ ~Enabled(p)
                       \/ /\ IsShown(b, i) /\ Enabled(p) /\ b = toolbars.current
                          /\ <<p.x, p.y>> = Place(b, i)
                          /\ p.tile = Picture(b, i, doc, wifi)
                          /\ Hflip(p) = (b = "browse" /\ i = Hide /\ toolbars.hidden)
  BY DEF IconsShowState
<1> DEFINE p == toolbars.oam[b][i]
<1>1. BarAt(toolbars, b) /\ PaintedAt(toolbars, b) /\ (toolbars.visible[b] => b = toolbars.current)
  BY DEF IconsInv, Whole, OneShown
<1>2. CASE ~toolbars.visible[b]
  BY <1>1, <1>2 DEF BarAt, UnseenAt, IsShown
<1>3. CASE toolbars.visible[b]
  <2>1. Sits(p, toolbars, b, i)
    BY <1>1, <1>3 DEF BarAt, SeenAt, IconsInv, Seen
  <2>2. p.tile = Picture(b, i, doc, wifi)
    BY <1>1, <1>3, PictureOfOthers DEF PaintedAt, IconsInv, Seen
  <2>3. b = "browse" => Lit(p, toolbars, i)
    BY <1>3 DEF IconsInv, Seen
  <2>4. b # "browse" => ~p.double
    BY <1>1, <1>3 DEF BarAt, SeenAt
  <2> HIDE DEF p
  <2>5. <<p.x, p.y>> = Place(b, i)
    BY <2>1 DEF Sits, Place
  <2>6. Hflip(p) = (b = "browse" /\ i = Hide /\ toolbars.hidden)
    BY <2>1 DEF Sits, Upright
  <2>7. IsShown(b, i) => Enabled(p)
    BY <2>3, <2>4 DEF IsShown, Lit, Enabled
  <2>8. ~IsShown(b, i) => (b = "browse" /\ toolbars.hidden /\ i # Hide)
    BY <1>3 DEF IsShown
  <2>9. ~IsShown(b, i) => (i = Spinner \/ ~Enabled(p))
    BY <2>3, <2>8 DEF Lit, Enabled
  <2> QED BY <1>1, <1>3, <2>2, <2>5, <2>6, <2>7, <2>8, <2>9 DEF p
<1> QED BY <1>2, <1>3

\* For any documents, icons of the connection, moves and changes: two frames after
\* the last touch, key, load and notification of View, the OAM holds what the
\* program has to show, for each of the toolbars (Toolbar.cpp, BrowseToolbar.cpp,
\* View::tick).
THEOREM IconsAreSeen == BarsSpec => []IconsShowState
<1> QED BY IconsInitOK, IconsStepOK, IconsFollow, PTL DEF BarsSpec
=============================================================================
