-------------------------- MODULE BrowsingHistory --------------------------
(***************************************************************************)
(* What the history of a browser promises: a line of visited addresses and *)
(* a place in it.  Visiting an address forgets what lay ahead; going back  *)
(* and forward changes the place and nothing else; a redirect replaces the *)
(* address at the place.                                                   *)
(***************************************************************************)
EXTENDS Naturals, Sequences

CONSTANT Addresses

VARIABLES entries, place

history == <<entries, place>>

Init == entries = <<>> /\ place = 0

Visit(a) ==
  /\ entries = <<>> \/ a # entries[place]
  /\ entries' = Append(SubSeq(entries, 1, place), a)
  /\ place' = place + 1

Back == /\ place > 1
        /\ place' = place - 1
        /\ UNCHANGED entries

Forward == /\ place < Len(entries)
           /\ place' = place + 1
           /\ UNCHANGED entries

Replace(a) == /\ place \in DOMAIN entries
              /\ entries' = [entries EXCEPT ![place] = a]
              /\ UNCHANGED place

Next == Back \/ Forward \/ \E a \in Addresses : Visit(a) \/ Replace(a)

Spec == Init /\ [][Next]_history
=============================================================================
