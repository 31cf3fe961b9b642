------------------------------ MODULE Archive ------------------------------
(***************************************************************************)
(* Unzipping: ZipViewer shows a box for each entry of an archive and a     *)
(* button, ZipFile::extract writes the entries whose boxes are on, and the *)
(* Updater unzips everything.  All of it runs in one thread, but ZipViewer *)
(* calls View::tick before and after every entry so that the progress bar  *)
(* moves, and in a tick the user may do anything: switch a box, press the  *)
(* button again, go to another page.                                       *)
(*                                                                         *)
(* The card is a tree of directories and files.  A directory and each 8K   *)
(* of a file take a block of the card, which has Space of them.            *)
(***************************************************************************)
EXTENDS Naturals, Sequences, SequencesExt, FiniteSetsExt

CONSTANTS Archives,     \* sequences of entries [path, dir, blocks, is]; is: good, locked, cut, crc
          Trees,        \* what is on the card already
          Space,        \* blocks of the card
          MaxPresses, MaxToggles      \* bounds

\* Paths are the names of their parts, from the root of the card; that has no entry.
Path == Seq(STRING)
Node == [dir : BOOLEAN, of : Nat, blocks : Nat]
Item == [path : Path \ {<<>>}, dir : BOOLEAN, blocks : Nat, is : {"good", "locked", "cut", "crc"}]

ASSUME ArchivesAssumption ==
  /\ Archives \subseteq Seq(Item)
  /\ \A t \in Trees : t \in [DOMAIN t -> Node] /\ DOMAIN t \subseteq Path

VARIABLES entries,      \* of the archive
          tree,         \* the card: from paths to nodes
          boxes,        \* m_checkboxes; none when the Updater unzips
          index,        \* m_index, the box of the next entry
          stack,        \* the extractions that run, the inner one last
          shown,        \* the page of the archive is
          presses, toggles, full    \* so far; full: something found no room

vars == <<entries, tree, boxes, index, stack, shown, presses, toggles, full>>

----------------------------------------------------------------------------
(* The card                                                                *)

Dir == [dir |-> TRUE, of |-> 0, blocks |-> 1]
Empty(e) == [dir |-> FALSE, of |-> e, blocks |-> 0]

Put(t, p, node) == [q \in DOMAIN t \cup {p} |-> IF q = p THEN node ELSE t[q]]

IsDir(t, p) == p = <<>> \/ (p \in DOMAIN t /\ t[p].dir)
IsFile(t, p) == p \in DOMAIN t /\ ~t[p].dir
Used(t) == MapThenSumSet(LAMBDA p : t[p].blocks, DOMAIN t)
Room(t) == Used(t) < Space

\* One directory, below one that is there.
MkdirOne(t, p) == IF p \notin DOMAIN t /\ IsDir(t, Front(p)) /\ Room(t) THEN Put(t, p, Dir) ELSE t

\* All directories of a path that are missing; makedir does no more.
Mkdir(t, p) == FoldLeft(MkdirOne, t, [n \in 1 .. Len(p) |-> SubSeq(p, 1, n)])

\* fopen(path, "wb")
CanOpen(t, p) == IsDir(t, Front(p)) /\ ~IsDir(t, p)

\* "some zipfile don't contain directory alone before file"
WithParent(t, p) == IF CanOpen(t, p) \/ Len(p) = 1 THEN t ELSE Mkdir(t, Front(p))

Missed(t, p) == ~Room(t) /\ ~IsDir(t, p) /\ ~\E n \in 1 .. Len(p) : IsFile(t, SubSeq(p, 1, n))

----------------------------------------------------------------------------
(* One extraction                                                          *)

Top == Last(stack)
SetTop(f) == stack' = Append(Front(stack), f)
At(step) == stack # <<>> /\ Top.step = step
Entry == entries[Top.entry]

\* ZipViewer::extract; the boxes of a page that is gone are read all the same.
Selected(i) == IF ~shown THEN BOOLEAN ELSE IF i < Len(boxes) THEN {boxes[i + 1]} ELSE {TRUE}

AfterChosen(f, err) ==
  /\ SetTop([f EXCEPT !.step = "after", !.err = err])
  /\ index' = IF f.entry \in f.chosen THEN index + 1 ELSE index

\* listener->after: the next box, then a tick
After(f, err) == SetTop([f EXCEPT !.step = "after", !.err = err]) /\ index' = index + 1

\* What the screen says of the entry whose turn it is.
Marked(f) == IF (boxes # <<>> /\ shown => boxes[f.entry]) THEN [f EXCEPT !.chosen = @ \cup {f.entry}] ELSE f

\* do_extract_currentfile: a box that is off, a directory, a file
Skip ==
  /\ At("before") /\ FALSE \in Selected(index)
  /\ After(Marked(Top), FALSE)
  /\ UNCHANGED <<entries, tree, boxes, shown, presses, toggles, full>>

MakeDirectory ==
  /\ At("before") /\ TRUE \in Selected(index) /\ Entry.dir
  /\ tree' = Mkdir(tree, Entry.path)
  /\ full' = (full \/ Missed(tree', Entry.path))
  /\ After(Marked(Top), FALSE)
  /\ UNCHANGED <<entries, boxes, shown, presses, toggles>>

\* A file that cannot be opened on the card is passed over, which is no error.
OpenFile ==
  /\ At("before") /\ TRUE \in Selected(index) /\ ~Entry.dir
  /\ IF Entry.is = "locked"
     THEN After(Marked(Top), TRUE) /\ UNCHANGED <<tree, full>>
     ELSE \E t \in {WithParent(tree, Entry.path)} :
       IF CanOpen(t, Entry.path)
       THEN /\ tree' = Put(t, Entry.path, Empty(Top.entry))
            /\ SetTop([Marked(Top) EXCEPT !.step = "writing"])
            /\ UNCHANGED <<index, full>>
       ELSE /\ tree' = t /\ full' = (full \/ Missed(t, Front(Entry.path)))
            /\ After(Marked(Top), FALSE)
  /\ UNCHANGED <<entries, boxes, shown, presses, toggles>>

\* unzReadCurrentFile and fwrite, 8K at a time
WriteBlock ==
  /\ At("writing") /\ tree[Entry.path].blocks < Entry.blocks
  /\ ~(Entry.is = "cut" /\ tree[Entry.path].blocks = 1)
  /\ IF Room(tree)
     THEN /\ tree' = Put(tree, Entry.path, [tree[Entry.path] EXCEPT !.blocks = @ + 1])
          /\ UNCHANGED <<stack, index, full>>
     ELSE full' = TRUE /\ After(Top, TRUE) /\ UNCHANGED tree
  /\ UNCHANGED <<entries, boxes, shown, presses, toggles>>

ReadFails ==
  /\ At("writing") /\ Entry.is = "cut" /\ tree[Entry.path].blocks = 1
  /\ After(Top, TRUE)
  /\ UNCHANGED <<entries, tree, boxes, shown, presses, toggles, full>>

\* The checksum is looked at when all has been written.
CloseFile ==
  /\ At("writing") /\ tree[Entry.path].blocks = Entry.blocks
  /\ After(Top, Entry.is = "crc")
  /\ UNCHANGED <<entries, tree, boxes, shown, presses, toggles, full>>

\* ZipFileImpl::extract ends at the first error.
NextEntry ==
  /\ At("after")
  /\ SetTop(IF Top.err \/ Top.entry = Len(entries)
            THEN [Top EXCEPT !.step = "done"]
            ELSE [Top EXCEPT !.step = "before", !.entry = @ + 1])
  /\ UNCHANGED <<entries, tree, boxes, index, shown, presses, toggles, full>>

\* ZipViewer::pressed hides the bar, ticks once more, and returns.
Return ==
  /\ At("done")
  /\ stack' = Front(stack)
  /\ UNCHANGED <<entries, tree, boxes, index, shown, presses, toggles, full>>

----------------------------------------------------------------------------
(* The user, between extractions and in their ticks                        *)

Ticking == stack # <<>> => Top.step \in {"before", "after", "done"}

Disturbed(s) == [n \in DOMAIN s |-> [s[n] EXCEPT !.disturbed = TRUE]]

AllOn(b) == [n \in DOMAIN b |-> TRUE]

Init ==
  /\ entries \in Archives /\ tree \in Trees
  /\ boxes \in {<<>>, [n \in DOMAIN entries |-> TRUE]}
  /\ index = 0 /\ stack = <<>> /\ shown = TRUE /\ presses = 0 /\ toggles = 0 /\ full = FALSE

\* ZipViewer::unzip; nothing stops a second one inside the first.  An archive without
\* entries has no first file.
Press ==
  /\ Ticking /\ shown /\ presses < MaxPresses
  /\ presses' = presses + 1
  /\ index' = 0
  /\ stack' = Append(Disturbed(stack),
       [entry |-> 1, step |-> IF entries = <<>> THEN "done" ELSE "before", err |-> FALSE,
        chosen |-> {}, old |-> tree, disturbed |-> FALSE])
  /\ full' = FALSE
  /\ UNCHANGED <<entries, tree, boxes, shown, toggles>>

Toggle ==
  /\ Ticking /\ shown /\ toggles < MaxToggles
  /\ \E n \in DOMAIN boxes : boxes' = [boxes EXCEPT ![n] = ~@]
  /\ toggles' = toggles + 1
  /\ UNCHANGED <<entries, tree, index, stack, shown, presses, full>>

\* Another page: the boxes are deleted, the viewer keeps its pointers to them.
LeavePage ==
  /\ Ticking /\ shown /\ boxes # <<>>
  /\ shown' = FALSE /\ stack' = Disturbed(stack)
  /\ UNCHANGED <<entries, tree, boxes, index, presses, toggles, full>>

\* ZipViewer::setFilename and show: all boxes are new, and on.
OpenPage ==
  /\ Ticking /\ ~shown
  /\ shown' = TRUE /\ boxes' = AllOn(boxes)
  /\ UNCHANGED <<entries, tree, index, stack, presses, toggles, full>>

\* The card keeps what was written; the user opens the page again.
PowerOff ==
  /\ stack # <<>>
  /\ stack' = <<>> /\ index' = 0 /\ shown' = TRUE /\ boxes' = AllOn(boxes)
  /\ UNCHANGED <<entries, tree, presses, toggles, full>>

Next == Skip \/ MakeDirectory \/ OpenFile \/ WriteBlock \/ ReadFails \/ CloseFile \/ NextEntry \/ Return
          \/ Press \/ Toggle \/ LeavePage \/ OpenPage \/ PowerOff

Spec == Init /\ [][Next]_vars

----------------------------------------------------------------------------
(* Properties                                                              *)

TypeInvariant ==
  /\ \A p \in DOMAIN tree : tree[p].blocks \in 0 .. Space /\ tree[p].of \in 0 .. Len(entries)
  /\ index \in 0 .. 2 * Len(entries)
  /\ \A n \in DOMAIN stack : stack[n].chosen \subseteq DOMAIN entries

Ancestors(p) == {SubSeq(p, 1, n) : n \in 0 .. Len(p) - 1}

\* A file where a directory is needed, or a directory where the file should be.
InTheWay(e) ==
  \/ \E q \in Ancestors(e.path) : IsFile(tree, q)
  \/ IF e.dir THEN IsFile(tree, e.path) ELSE IsDir(tree, e.path)

Unzipped(i, e) == IF e.dir THEN IsDir(tree, e.path) ELSE tree[e.path] = [Empty(i) EXCEPT !.blocks = e.blocks]

Overwritten(i, chosen) == \E j \in chosen : j > i /\ entries[j].path = entries[i].path

\* An extraction that the user has not disturbed has written each entry whose box
\* was on at its turn, whole, up to the one that failed, unless something is in its
\* way or the card is full; and it has changed nothing else but their directories
\* (ZipFile.cpp do_extract_currentfile, ZipViewer::extract and after).
UnzippedAsChosen ==
  At("done") /\ ~Top.disturbed =>
    /\ \A i \in Top.chosen :
         \/ (Top.err /\ i = Top.entry)
         \/ full \/ InTheWay(entries[i]) \/ Overwritten(i, Top.chosen)
         \/ (entries[i].path \in DOMAIN tree /\ Unzipped(i, entries[i]))
    /\ \A p \in DOMAIN tree :
         \/ (p \in DOMAIN Top.old /\ tree[p] = Top.old[p])
         \/ \E i \in Top.chosen : p = entries[i].path \/ (p \in Ancestors(entries[i].path) /\ tree[p].dir)
=============================================================================
