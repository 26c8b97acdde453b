------------------------------- MODULE LogModel -------------------------------
(***************************************************************************)
(* The list behind the console (src/src/logmodel.h): the newest lines, the *)
(* indices of those that pass the filters, and how many lines without a    *)
(* known format the filters hide.  The class is one value here and its     *)
(* operations are functions of it; the console's steps apply them.         *)
(***************************************************************************)
EXTENDS Integers, SequencesExt, Ordered, LogParser

CONSTANT Cap \* the history cap, 1000 in the code

ASSUME LogModelAssumption == Cap \in Nat \ {0}

EmptyLog == [entries |-> <<>>, visible |-> <<>>, hiddenUnparsed |-> 0, filter |-> NoFilter]

matchesFilter(e, f) == applyFilter(e.parsed, e.hit, f)

Trimmed(log) ==
  LET pos == IF Contains(log.visible, 1) THEN Tail(log.visible) ELSE log.visible
  IN  [log EXCEPT !.entries = Tail(@), !.visible = [i \in DOMAIN pos |-> pos[i] - 1]]

(* The oldest line makes room first.                                       *)
add(log, e) ==
  LET room == IF Len(log.entries) >= Cap THEN Trimmed(log) ELSE log
      hit == matchesFilter(e, log.filter)
  IN  [room EXCEPT !.entries = Append(@, e),
                   !.visible = IF hit = "Shown" THEN Append(@, Len(room.entries) + 1) ELSE @,
                   !.hiddenUnparsed = IF hit = "HiddenUnparsed" THEN @ + 1 ELSE @]

Passing(entries, f, hit) == InOrder({i \in DOMAIN entries : matchesFilter(entries[i], f) = hit})

rebuildVisible(log) ==
  [log EXCEPT !.visible = Passing(log.entries, log.filter, "Shown"),
              !.hiddenUnparsed = Len(Passing(log.entries, log.filter, "HiddenUnparsed"))]

clear(log) == [log EXCEPT !.entries = <<>>, !.visible = <<>>, !.hiddenUnparsed = 0]

Newest(s) == IF Len(s) > Cap THEN SubSeq(s, Len(s) - Cap + 1, Len(s)) ELSE s

addBatch(log, lines) ==
  IF lines = <<>> THEN log
  ELSE rebuildVisible([log EXCEPT !.entries = Newest(@ \o lines)])

setFilters(log, f) == rebuildVisible([log EXCEPT !.filter = f])

(* What count() and get() answer: the rows on screen.                      *)
Rows(log) == [i \in DOMAIN log.visible |-> log.entries[log.visible[i]]]

(* After any sequence of lines, refills and filters the rows are exactly   *)
(* the lines that pass, in their order, though every line that falls out   *)
(* at the cap moves all the indices; and no hidden line goes uncounted.    *)
RowsArePassing(log) ==
  /\ Len(log.entries) <= Cap
  /\ log.visible = Passing(log.entries, log.filter, "Shown")
  /\ log.hiddenUnparsed >= Len(Passing(log.entries, log.filter, "HiddenUnparsed"))
=============================================================================
