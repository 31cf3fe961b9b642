------------------------------ MODULE Interface ------------------------------
(***************************************************************************)
(* What the user works with: View with its toolbars, its keyboard and its  *)
(* popups, Updater, the bookmarks, and what they do to the history of      *)
(* Document.  The handlers call one another many levels deep, so that each *)
(* is a function of the state before it.  A load is one step, but for a    *)
(* download, during which the keyboard asks for a name; Browser has the    *)
(* loads that run into each other.                                         *)
(***************************************************************************)
EXTENDS Naturals, Integers, Sequences, SequencesExt

CONSTANTS Sites,          \* pages of the web
          MaxHistory,     \* bound: entries of the history
          MaxBookmarks    \* bound: of the file

VARIABLES ui, bookmarks

vars == <<ui, bookmarks>>

\* Addresses: a page of a type that cannot be shown, the file of bookmarks, the
\* settings, what their two forms ask for, and the two files of an update.
Settings == {"index", "post", "update"}
Pages == Sites \cup Settings \cup {"download", "bookmarks"}
IsConfig(address) == address \in Settings

\* The empty string: no address was entered, or none is waiting to be opened.
Nothing == ""

Entering == {"ENTER_URL", "EDIT_BOOKMARK", "SAVE_CURRENT_FILE", "SAVE_DOWNLOADING"}
Toolbars == {"browse", "bookmark", "prefs"}

----------------------------------------------------------------------------
(* Document: the history *)

\* What comes of a position outside of the history is not looked at.
InHistory(s) == s.position \in DOMAIN s.history
Uri(s) == IF InHistory(s) THEN s.history[s.position] ELSE Nothing

SetUri(s, address) ==
  IF s.enabled /\ InHistory(s) /\ address # Uri(s)
  THEN [s EXCEPT !.history  = Append(SubSeq(@, 1, s.position), address),
                 !.position = @ + 1]
  ELSE s

\* The addresses that are not of the settings.
Keep(kept, address) == IF IsConfig(address) THEN kept ELSE Append(kept, address)
WithoutConfig(addresses) == FoldLeft(Keep, <<>>, addresses)

\* Mutant: the position is moved once.
ClearConfigHistoryOnce(s) ==
  LET kept == WithoutConfig(s.history)
  IN [s EXCEPT !.history = kept, !.position = IF kept = s.history THEN @ ELSE @ - 1]

\* clearConfigHistory: the position moves with every entry erased.
Forget(s, kept) == [s EXCEPT !.history = kept, !.position = @ - (Len(s.history) - Len(kept))]
ClearConfigHistory(s) == Forget(s, WithoutConfig(s.history))

----------------------------------------------------------------------------
(* View and Updater *)

SetToolbar(s, toolbar) == [s EXCEPT !.toolbar = toolbar, !.bar = TRUE]

\* endBookmark: the page under the settings is opened, unless a link was followed.
Browse(s) ==
  [SetToolbar(s, "browse") EXCEPT
     !.href    = IF @ = Nothing THEN Uri(s) ELSE @,
     !.enabled = TRUE, !.state = "BROWSE", !.updater = "none", !.asked = FALSE]
EndBookmark(s) == Browse(ClearConfigHistory(s))

\* askUpdate, which ViewRender::render calls when the zip, or what came instead
\* of it, is there.
AskUpdate(s, ok) == [s EXCEPT !.updater = IF ok THEN "GOT_ZIP" ELSE "ZIP_FAIL", !.asked = ok]

\* getZip: the download notifies, and that asks; a stopped one does not.
GetZip(s, found) ==
  LET t == [s EXCEPT !.updater = "GOT_ZIP", !.enabled = TRUE]
  IN CASE found = "same"        -> [s EXCEPT !.updater = "CANCELLED"]
       [] found = "zip stopped" -> t
       [] found \in {"zip", "no zip"} -> AskUpdate(t, found = "zip")
       [] OTHER                 -> [s EXCEPT !.updater = "INI_FAIL"]

\* ViewRender::render: with an updater, the page is what that has to say.
Show(s, page, found) ==
  LET t == [s EXCEPT !.shown = "updater"]
  IN CASE s.updater = "none"      -> [s EXCEPT !.shown = page]
       [] s.updater = "GOT_INI"   -> GetZip(t, found)
       [] s.updater = "GOT_ZIP"   -> AskUpdate(t, found = "zip")
       [] s.updater = "CANCELLED" -> EndBookmark(t)
       [] OTHER                   -> t

\* View::notify of LOADED_HTML.  A popup that is open stays so, about a link that
\* is no more; what comes of that is not looked at.
LoadedHtml(s, page, found) == Show([s EXCEPT !.popup = "none", !.chosen = 0], page, found)

\* checkDownloadQueue.
Queue(s) == [s EXCEPT !.enabled = TRUE]

\* View::saveAs.
SaveAs(s, state) == [s EXCEPT !.keyboard = "address", !.bar = FALSE, !.state = state]

\* A page that is loaded, that cannot be and gives the error page, or, unless it
\* is a file of the program, is stopped.
Fetch(s, address, found) ==
  CASE found = "stopped" /\ address \in Sites \cup {"download"} ->
         Queue([s EXCEPT !.popup = "none", !.chosen = 0])
    \* HAS_HEADERS of what cannot be shown: the page waits for a name.
    [] address = "download" /\ found # "error" ->
         IF s.state = "BROWSE" /\ Uri(s) # address
         THEN Queue(LoadedHtml(s, address, found))
         ELSE [SaveAs(s, "SAVE_DOWNLOADING") EXCEPT !.loading = TRUE, !.popup = "none"]
    [] OTHER -> Queue(LoadedHtml(s, address, found))

\* Updater::init; the page of the updater is not in the history.
CheckUpdates(s, found) ==
  LET t == [s EXCEPT !.updater = "GOT_INI", !.enabled = FALSE]
  IN IF found = "no cache" THEN s
     ELSE IF found = "stopped" THEN Queue(t)
     ELSE Queue(LoadedHtml(t, "ini", found))

\* Controller::handleUri and what follows it.
HandleUri(s, address, found) ==
  CASE address = "post"   -> Queue(EndBookmark(s))
    [] address = "update" -> Queue(CheckUpdates(s, found))
    [] OTHER              -> Fetch(s, address, found)

DoUri(s, address, found) == HandleUri(SetUri(s, address), address, found)

EnterUrl(s) == [s EXCEPT !.keyboard = "address", !.bar = FALSE, !.state = "ENTER_URL"]

\* editBookmark.
EditBookmark(s) == [EnterUrl(s) EXCEPT !.state = "EDIT_BOOKMARK"]

ShowBookmarkPage(s, found) == DoUri([s EXCEPT !.enabled = FALSE], "bookmarks", found)

BookmarkUrl(s, found) ==
  ShowBookmarkPage([SetToolbar(s, "bookmark") EXCEPT !.state = "BOOKMARK"], found)

Preferences(s, found) == DoUri(SetToolbar(s, "prefs"), "index", found)

\* addCookie asks about the page under the settings, if it is one of the web.
AddCookie(s) ==
  LET t == [ClearConfigHistory(s) EXCEPT !.enabled = FALSE]
  IN IF InHistory(t) /\ Uri(t) \in Sites \cup {"download"} THEN [t EXCEPT !.shown = "cookie"] ELSE t

EditCookie(s) == [s EXCEPT !.shown = "cookies"]

\* Controller::previous and next.
Move(s, by, found) ==
  LET t == [s EXCEPT !.position = IF s.enabled THEN @ + by ELSE @]
  IN IF s.position + by \in DOMAIN s.history THEN HandleUri(t, Uri(t), found) ELSE s

----------------------------------------------------------------------------
(* The end of View::tick *)

\* Mutant: the name is taken and the state left.
DoSaveAsStays(s) == s

\* doSaveAs: what is saved does not matter here.
DoSaveAs(s) == [s EXCEPT !.state = "BROWSE"]

Answered(s, state) == s.state = state /\ s.keyboard = "none"

EnterStep(s, input, found) ==
  IF ~Answered(s, "ENTER_URL") THEN s
  ELSE LET t == [s EXCEPT !.bar = TRUE, !.state = "BROWSE"]
       IN IF input = Nothing THEN t ELSE DoUri(t, input, found)

EditStep(s, found) ==
  IF Answered(s, "EDIT_BOOKMARK") THEN BookmarkUrl([s EXCEPT !.bar = TRUE], found) ELSE s

SaveStep(s) ==
  IF Answered(s, "SAVE_CURRENT_FILE") \/ Answered(s, "SAVE_DOWNLOADING")
  THEN DoSaveAs([s EXCEPT !.bar = TRUE])
  ELSE s

LinkStep(s, found) ==
  IF s.href = Nothing THEN s
  ELSE LET t == IF s.state = "BOOKMARK" THEN EndBookmark(s) ELSE s
       IN IF InHistory(t) THEN DoUri([t EXCEPT !.href = Nothing], s.href, found) ELSE t

\* A form's answer, and the state behind it.
FormStep(s, form, found) ==
  IF form = Nothing THEN s
  ELSE LET t == DoUri(s, form, found)
       IN IF t.loading THEN [t EXCEPT !.form = TRUE] ELSE [t EXCEPT !.state = "BROWSE"]

Tick(s, input, form, found) ==
  FormStep(LinkStep(SaveStep(EditStep(EnterStep(s, input, found), found)), found), form, found)

----------------------------------------------------------------------------
\* What comes of a load: the page, the error page, or nothing when it is stopped;
\* and of an update, which needs the cache, no newer version, or its zip or not.
Loads   == {"loaded", "error", "stopped"}
Updates == {"no cache", "stopped", "error", "same", "zip", "no zip", "zip stopped"}

Found(s) == IF s.updater \in {"GOT_INI", "GOT_ZIP"} THEN Updates ELSE Loads

Init ==
  /\ bookmarks = <<>>
  /\ \E home \in Sites :
       ui = [state |-> "BROWSE", toolbar |-> "browse", bar |-> TRUE,
             keyboard |-> "none", popup |-> "none", chosen |-> 0,
             history |-> <<home>>, position |-> 1, enabled |-> TRUE,
             updater |-> "none", asked |-> FALSE, shown |-> home, href |-> Nothing,
             loading |-> FALSE, form |-> FALSE]

Small(s) == Len(s.history) <= MaxHistory

Become(s) == Small(s) /\ ui' = s

Browsing == ui.keyboard = "none" /\ ~ui.loading /\ InHistory(ui)

\* View::browse: the keys.  X asks for the settings twice.
Keys ==
  /\ Browsing
  /\ \E found \in Found(ui) :
       \/ Become(EnterUrl(ui))
       \/ Become(Tick(BookmarkUrl(ui, found), Nothing, Nothing, found))
       \/ Become(Tick(DoUri(Preferences(ui, found), "index", found), Nothing, Nothing, found))
       \/ Become(Tick(DoUri(ui, Uri(ui), found), Nothing, Nothing, found))
       \/ ui.toolbar = "browse" /\ \E by \in {-1, 1} : Become(Tick(Move(ui, by, found), Nothing, Nothing, found))
  /\ UNCHANGED bookmarks

\* BrowseToolbar::handlePress; the icons that have no key.
BrowseButton ==
  /\ Browsing /\ ui.bar /\ ui.toolbar = "browse"
  /\ \/ Become(SaveAs(ui, "SAVE_CURRENT_FILE"))
     \/ \E found \in Found(ui) : Become(Tick(Preferences(ui, found), Nothing, Nothing, found))
  /\ UNCHANGED bookmarks

\* bookmarkCurrentPage.
BookmarkButton ==
  /\ Browsing /\ ui.bar /\ ui.toolbar = "bookmark"
  /\ \E found \in Found(ui) :
       \/ Become(Tick(EndBookmark(ui), Nothing, Nothing, found)) /\ UNCHANGED bookmarks
       \/ /\ Len(bookmarks) < MaxBookmarks
          /\ bookmarks' = Append(bookmarks, Uri(ui))
          /\ Become(Tick(ShowBookmarkPage(ui, found), Nothing, Nothing, found))

PrefsButton ==
  /\ Browsing /\ ui.bar /\ ui.toolbar = "prefs"
  /\ \/ \E found \in Found(ui) : Become(Tick(EndBookmark(ui), Nothing, Nothing, found))
     \/ Become(AddCookie(ui))
     \/ Become(EditCookie(ui))
  /\ UNCHANGED bookmarks

\* CookieHandler::pressed: OK and Cancel.
CookieButton ==
  /\ Browsing /\ ui.shown \in {"cookie", "cookies"}
  /\ \E found \in Found(ui) : Become(Tick(EndBookmark(ui), Nothing, Nothing, found))
  /\ UNCHANGED bookmarks

\* Updater::pressed: OK to what was asked, and Cancel.
UpdaterButton ==
  /\ Browsing /\ ui.shown = "updater"
  /\ \E found \in Found(ui) :
       \/ /\ ui.updater = "GOT_ZIP" /\ ui.asked
          /\ Become([ui EXCEPT !.updater = "DO_UPDATE", !.asked = FALSE])
       \/ /\ ui.updater = "GOT_ZIP" => ui.asked
          /\ ui.updater # "DO_UPDATE"
          /\ Become(Tick(EndBookmark(ui), Nothing, Nothing, found))
  /\ UNCHANGED bookmarks

\* linkClicked: a page leads to any other, the bookmarks to what they name.  An
\* image that is a link asks first which of the two is meant.
Targets == CASE ui.shown = "bookmarks" -> ToSet(bookmarks)
             [] ui.shown \in Sites     -> Sites \cup {"download"}
             [] OTHER                  -> {}

ClickLink ==
  /\ Browsing
  /\ \/ \E to \in Targets, found \in Found(ui) :
          Become(Tick([ui EXCEPT !.href = to, !.popup = "none"], Nothing, Nothing, found))
     \/ ui.shown \in Sites /\ Become([ui EXCEPT !.popup = "link"])
  /\ UNCHANGED bookmarks

\* LinkHandler: the page, or the image, of a link that is still there.
LinkPopup ==
  /\ Browsing /\ ui.popup = "link"
  /\ \E to \in Sites \cup {"download"}, found \in Found(ui) :
       Become(Tick([ui EXCEPT !.href = to, !.popup = "none"], Nothing, Nothing, found))
  /\ UNCHANGED bookmarks

\* linkPopup, and HrefFinder: the first bookmark with the link's address.
HoldLink ==
  /\ Browsing /\ ui.state = "BOOKMARK" /\ ui.shown = "bookmarks"
  /\ \E i \in DOMAIN bookmarks :
       /\ \A j \in 1..i - 1 : bookmarks[j] # bookmarks[i]
       /\ Become([ui EXCEPT !.popup = "edit", !.chosen = i])
  /\ UNCHANGED bookmarks

\* EditPopup: delElement writes the file and shows it.
EditPopup ==
  /\ Browsing /\ ui.popup = "edit"
  /\ \/ Become([EditBookmark(ui) EXCEPT !.popup = "none"]) /\ UNCHANGED bookmarks
     \/ /\ bookmarks' = RemoveAt(bookmarks, ui.chosen)
        /\ \E found \in Found(ui) :
             Become(Tick(BookmarkUrl([ui EXCEPT !.popup = "none"], found), Nothing, Nothing, found))

\* A touch elsewhere.
HidePopup ==
  /\ Browsing /\ ui.popup # "none"
  /\ Become([ui EXCEPT !.popup = "none"]) /\ UNCHANGED bookmarks

\* A form: what it asks for is named relative to the current address, which is
\* that of the settings as long as these are not left.
SubmitForm ==
  /\ Browsing /\ ui.shown \in Sites \cup {"index"}
  /\ \E form \in IF ui.shown = "index" /\ IsConfig(Uri(ui)) THEN {"post", "update"}
                 ELSE Sites \cup {"download"} :
       \E found \in IF form = "update" THEN Updates ELSE Found(ui) :
         Become(Tick(ui, Nothing, form, found))
  /\ UNCHANGED bookmarks

\* A field of a form is edited with the same keyboard.
EditField ==
  /\ Browsing /\ ui.shown \in Sites \cup {"index"}
  /\ Become([ui EXCEPT !.keyboard = "form", !.bar = FALSE]) /\ UNCHANGED bookmarks

\* OK and Cancel: in BROWSE the touch shows the toolbar again.
Closed == [ui EXCEPT !.keyboard = "none",
                     !.bar = IF ui.state \in Entering THEN @ ELSE TRUE]

\* postEdit takes an address and a title.
Edited ==
  \/ UNCHANGED bookmarks
  \/ /\ ui.state = "EDIT_BOOKMARK" /\ ui.chosen \in DOMAIN bookmarks
     /\ \E href \in Sites :
          bookmarks' = [bookmarks EXCEPT ![ui.chosen] = href]

CloseKeyboard ==
  /\ ui.keyboard # "none" /\ ~ui.loading
  /\ \E input \in IF ui.state = "ENTER_URL" THEN Sites \cup {Nothing, "download", "index"} ELSE {Nothing} :
       \E found \in Found(ui) :
         Become(Tick(Closed, input, Nothing, found))
  /\ Edited

\* The download goes on behind the keyboard, and stops when that is cancelled.
NameDownload ==
  /\ ui.loading /\ ui.keyboard # "none"
  /\ \E stop \in BOOLEAN :
       Become([SaveStep(Closed) EXCEPT !.loading = ~stop, !.form = @ /\ ~stop,
                                       !.enabled = @ \/ stop])
  /\ UNCHANGED bookmarks

\* It ends: a form leaves BROWSE, whatever the keyboard asks.
DownloadEnds ==
  /\ ui.loading
  /\ \E found \in Found(ui) :
       LET t == Queue(LoadedHtml(ui, "download", found))
       IN Become([t EXCEPT !.loading = FALSE, !.form = FALSE,
                           !.state = IF ui.form THEN "BROWSE" ELSE @])
  /\ UNCHANGED bookmarks

\* A frame without a touch: a form has left a link, or the time of a page's
\* refresh is over.
Frame ==
  /\ Browsing
  /\ \E to \in IF ui.shown \in Sites THEN Sites \cup {ui.href} ELSE {ui.href},
        found \in Found(ui) :
       Become(Tick([ui EXCEPT !.href = to], Nothing, Nothing, found))
  /\ UNCHANGED bookmarks

Next ==
  \/ Keys \/ BrowseButton \/ BookmarkButton \/ PrefsButton \/ CookieButton \/ UpdaterButton
  \/ ClickLink \/ LinkPopup \/ HoldLink \/ EditPopup \/ HidePopup \/ SubmitForm \/ EditField
  \/ CloseKeyboard \/ NameDownload \/ DownloadEnds \/ Frame

Spec == Init /\ [][Next]_vars

----------------------------------------------------------------------------
\* Whatever the order of keys, icons, links, forms and notifications, the user
\* can go on: what waits for the keyboard has it, and without it a toolbar shows.
NeverStuck ==
  /\ ui.state \in Entering => ui.keyboard # "none"
  /\ ui.keyboard = "none" => ui.bar

\* The settings leave nothing behind: when the toolbar of the browser is back, the
\* pages of theirs are out of the history and the position is that of the page
\* under them, or of the link that was followed.  (There may be none behind the
\* position, and X under an update that is not needed asks for them at once.)
SettingsLeaveHistory ==
  [][ LET under  == WithoutConfig(SubSeq(ui.history, 1, ui.position))
          behind == SubSeq(ui.history, ui.position + 1, Len(ui.history))
      IN /\ ui.toolbar # "browse" /\ ui'.toolbar = "browse"
         /\ ~\E i \in DOMAIN behind : IsConfig(behind[i])
         /\ ui.updater # "CANCELLED"
         => \/ ui'.history \in {under, under \o behind} /\ ui'.position = Len(under)
            \/ \E a \in Pages : ui'.history = Append(under, a) /\ ui'.position = Len(under) + 1 ]_vars
=============================================================================
