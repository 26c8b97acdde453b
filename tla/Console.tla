------------------------------- MODULE Console -------------------------------
(***************************************************************************)
(* The consoles of the dashboard (src/qml/Dashboard.qml, DetailPage.qml):  *)
(* every command keeps a history of lines cut into one segment per run;    *)
(* one command is selected, one segment of it fills the LogModel, and the  *)
(* detail page keeps a text of the model's rows, to which live rows are    *)
(* added by a timer.  Of the executor it takes the signals of the runs,    *)
(* in any order RunLifecycle allows.                                       *)
(***************************************************************************)
EXTENDS LogModel

CONSTANTS
  Runs,        \* launches, numbered in their order
  Keys,        \* full run keys, "project|command"
  NoKey,       \* the empty key
  KeyOf,       \* whose run each launch is
  OneAtATime,  \* the keys whose configuration does not allow several runs
  Kinds,       \* the lines programs print, as LogParser describes them
  Filters,     \* what the filter panel can ask for
  MaxSaid      \* bound on the lines printed

ASSUME ConsoleAssumption ==
  /\ Runs \subseteq Nat \ {0} /\ KeyOf \in [Runs -> Keys] /\ NoKey \notin Keys
  /\ OneAtATime \subseteq Keys /\ MaxSaid \in Nat

VARIABLES
  phase,   \* what the executor has told of each run
  opened,  \* the runs whose started() was emitted
  dash,    \* the dashboard's maps, the model and the page's text
  detail   \* detailCommandId
consoleVars == <<phase, opened, dash, detail>>

Live == {"pending", "up", "stopping"}
NoRun == 0

(* A segment remembers the run that opened it and the one whose end was    *)
(* put down to it; the code has its number, start time and exit code.      *)
ConsoleTypeOK ==
  /\ phase \in [Runs -> {"none", "pending", "up", "stopping", "finished", "failed"}]
  /\ opened \subseteq Runs
  /\ detail \in Keys \cup {NoKey} /\ dash.selected \in Keys \cup {NoKey}
  /\ \A k \in Keys : /\ Len(dash.histories[k]) <= Cap
                     /\ \A i \in DOMAIN dash.segments[k] :
                          dash.segments[k][i].closedBy \in Runs \cup {NoRun}
  /\ \A k \in DOMAIN dash.selection : dash.selection[k] \in 0..Len(dash.segments[k])

ConsoleInit ==
  /\ phase = [r \in Runs |-> "none"] /\ opened = {} /\ detail = NoKey
  /\ dash = [histories |-> [k \in Keys |-> <<>>], segments |-> [k \in Keys |-> <<>>],
             selection |-> [k \in {} |-> 0], selected |-> NoKey,
             log |-> EmptyLog, text |-> <<>>, pending |-> <<>>, said |-> 0]

-----------------------------------------------------------------------------
(* Bug: rows that wait for the timer stay.                                 *)
ResetKeeping(d, log) == [d EXCEPT !.log = log, !.text = Rows(log)]

(* The detail page follows the model: a reset rebuilds its text, a new row *)
(* waits for the timer; a row that leaves at the cap stays in the text.    *)
Reset(d, log) == [d EXCEPT !.log = log, !.text = Rows(log), !.pending = <<>>]

Added(d, e) ==
  [d EXCEPT !.log = add(@, e),
            !.pending = IF matchesFilter(e, d.log.filter) = "Shown" THEN Append(@, e) ELSE @]

latestRunSeq(d, k) == Len(d.segments[k])
selectedRunSeq(d, k) == IF k \in DOMAIN d.selection THEN d.selection[k] ELSE latestRunSeq(d, k)
runSlice(d, k, seq) ==
  Picked(d.histories[k], {i \in DOMAIN d.histories[k] : d.histories[k][i].run \in {seq, 0}})

refillRun(d, k, seq) ==
  LET empty == Reset([d EXCEPT !.selected = k], clear(d.log))
      slice == runSlice(d, k, seq)
  IN  IF slice = <<>> THEN empty ELSE Reset(empty, addBatch(empty.log, slice))

Selecting(d, k, seq) ==
  [d EXCEPT !.selection = [q \in DOMAIN @ \cup {k} |-> IF q = k THEN seq ELSE @[q]]]

showRun(d, k, seq) == refillRun(Selecting(d, k, seq), k, seq)

selectCommand(d, k) ==
  IF k = NoKey THEN Reset([d EXCEPT !.selected = NoKey], clear(d.log))
  ELSE showRun(d, k, latestRunSeq(d, k))

appendRunLine(d, k, kind, run) ==
  LET e == [n |-> d.said + 1, run |-> run, parsed |-> parse(kind), hit |-> kind.hit]
      kept == [d EXCEPT !.said = @ + 1, !.histories[k] = Newest(Append(@, e))]
  IN  IF k = d.selected /\ run = selectedRunSeq(d, k) THEN Added(kept, e) ELSE kept

startRun(d, r, echo) ==
  LET k == KeyOf[r]
      seq == latestRunSeq(d, k) + 1
      begun == Selecting([d EXCEPT !.segments[k] = Append(@, [of |-> r, closedBy |-> NoRun])], k, seq)
      filled == IF k = d.selected THEN refillRun(begun, k, seq) ELSE begun
  IN  appendRunLine(filled, k, echo, seq)

(* The last open segment is taken for that of the run that ended.          *)
OpenSegments(d, k) == {i \in DOMAIN d.segments[k] : d.segments[k][i].closedBy = NoRun}
Closing(d, r) == IF OpenSegments(d, KeyOf[r]) = {} THEN 0 ELSE Max(OpenSegments(d, KeyOf[r]))

finishRun(d, r) ==
  IF Closing(d, r) = 0 THEN d
  ELSE [d EXCEPT !.segments[KeyOf[r]][Closing(d, r)].closedBy = r]

(* The line that says why goes where the run was closed, or to the latest. *)
finishWithTail(d, r, tail) ==
  LET seq == IF Closing(d, r) = 0 THEN latestRunSeq(d, KeyOf[r]) ELSE Closing(d, r)
  IN  appendRunLine(finishRun(d, r), KeyOf[r], tail, seq)

-----------------------------------------------------------------------------
(* The executor.  A launch first stops the runs it may not join, and may   *)
(* fail right away.                                                        *)
Says == dash.said < MaxSaid

Launch(r) ==
  /\ phase[r] = "none" /\ \A q \in Runs : q < r => phase[q] # "none"
  /\ \E told \in {"pending", "failed"} :
       /\ phase' = [q \in Runs |->
            IF q = r THEN told
            ELSE IF KeyOf[q] = KeyOf[r] /\ KeyOf[r] \in OneAtATime /\ phase[q] \in {"pending", "up"}
            THEN "stopping" ELSE phase[q]]
       /\ IF told = "pending" THEN dash' = dash
          ELSE Says /\ \E kind \in Kinds : dash' = finishWithTail(dash, r, kind)
  /\ UNCHANGED <<opened, detail>>

Stop(r) ==
  /\ phase[r] \in {"pending", "up"}
  /\ phase' = [phase EXCEPT ![r] = "stopping"]
  /\ UNCHANGED <<opened, dash, detail>>

Started(r) ==
  /\ Says /\ r \notin opened
  /\ \/ phase[r] = "pending" /\ phase' = [phase EXCEPT ![r] = "up"]
     \/ phase[r] = "stopping" /\ phase' = phase
  /\ opened' = opened \cup {r}
  /\ \E kind \in Kinds : dash' = startRun(dash, r, kind)
  /\ UNCHANGED detail

OutputReceived(r) ==
  /\ Says /\ r \in opened /\ phase[r] \in Live
  /\ \E kind \in Kinds : dash' = appendRunLine(dash, KeyOf[r], kind, latestRunSeq(dash, KeyOf[r]))
  /\ UNCHANGED <<phase, opened, detail>>

(* Bug: what has failed already is told to have finished, too.             *)
FinishedTwice(r) ==
  /\ r \in opened /\ phase[r] \in {"up", "stopping", "failed"}
  /\ phase' = [phase EXCEPT ![r] = "finished"]
  /\ dash' = finishRun(dash, r)
  /\ UNCHANGED <<opened, detail>>

Finished(r) ==
  /\ r \in opened /\ phase[r] \in {"up", "stopping"}
  /\ phase' = [phase EXCEPT ![r] = "finished"]
  /\ dash' = finishRun(dash, r)
  /\ UNCHANGED <<opened, detail>>

Failed(r) ==
  /\ Says /\ phase[r] \in {"pending", "up"}
  /\ phase' = [phase EXCEPT ![r] = "failed"]
  /\ \E kind \in Kinds : dash' = finishWithTail(dash, r, kind)
  /\ UNCHANGED <<opened, detail>>

-----------------------------------------------------------------------------
(* The user.  Opening or leaving the page of a command resets its filters. *)
Unfiltered(d) == Reset(d, setFilters(d.log, NoFilter))

SelectCommand(k) ==
  /\ k # dash.selected
  /\ dash' = selectCommand(dash, k)
  /\ UNCHANGED <<phase, opened, detail>>

OpenDetail(k) ==
  /\ k # detail
  /\ detail' = k
  /\ dash' = selectCommand(Unfiltered(dash), k)
  /\ UNCHANGED <<phase, opened>>

CloseDetail ==
  /\ detail # NoKey
  /\ detail' = NoKey
  /\ dash' = Unfiltered(dash)
  /\ UNCHANGED <<phase, opened>>

ShowRun(seq) ==
  /\ detail # NoKey /\ seq \in DOMAIN dash.segments[detail]
  /\ dash' = showRun(dash, detail, seq)
  /\ UNCHANGED <<phase, opened, detail>>

SetFilters ==
  /\ detail # NoKey
  /\ \E f \in Filters : dash' = Reset(dash, setFilters(dash.log, f))
  /\ UNCHANGED <<phase, opened, detail>>

clearSelectedCommand ==
  /\ detail # NoKey /\ dash.selected # NoKey
  /\ LET k == dash.selected
     IN  dash' = Reset([dash EXCEPT !.histories[k] = <<>>, !.segments[k] = <<>>,
                                    !.selection = [q \in DOMAIN @ \ {k} |-> @[q]]],
                       clear(dash.log))
  /\ UNCHANGED <<phase, opened, detail>>

(* The commands of the open project change, after a scan or a discovery:   *)
(* when the selected one is gone the first takes its place.                *)
CommandsChanged ==
  /\ \E listed \in SUBSET (Keys \ {dash.selected}) :
       \E k \in IF listed = {} THEN {NoKey} ELSE listed : dash' = selectCommand(dash, k)
  /\ UNCHANGED <<phase, opened, detail>>

(* The timer that adds the waiting rows to the text.                       *)
Flush ==
  /\ dash.pending # <<>>
  /\ dash' = [dash EXCEPT !.text = @ \o dash.pending, !.pending = <<>>]
  /\ UNCHANGED <<phase, opened, detail>>

ConsoleNext ==
  \/ \E r \in Runs : Launch(r) \/ Stop(r) \/ Started(r) \/ OutputReceived(r) \/ Finished(r) \/ Failed(r)
  \/ \E k \in Keys : SelectCommand(k) \/ OpenDetail(k)
  \/ \E seq \in 1..Cardinality(Runs) : ShowRun(seq)
  \/ CloseDetail \/ SetFilters \/ clearSelectedCommand \/ CommandsChanged \/ Flush

ConsoleSpec == ConsoleInit /\ [][ConsoleNext]_consoleVars

-----------------------------------------------------------------------------
(* The model's rows stay right through every line, refill and filter.      *)
ConsoleRowsArePassing == RowsArePassing(dash.log)

(* What the model holds is the selected segment and nothing else, live     *)
(* lines included: the history may only have forgotten older lines of it.  *)
ConsoleShowsSegment ==
  LET k == dash.selected
      seq == selectedRunSeq(dash, k)
  IN  k # NoKey =>
        /\ IsSuffix(runSlice(dash, k, seq), dash.log.entries)
        /\ \A e \in ToSet(dash.log.entries) : e.run \in {seq, 0}

(* The text on the page, with what waits for the timer, ends in the rows   *)
(* of the model and shows no line twice, whatever reset or refill came     *)
(* between the arrival of a line and the timer.                            *)
TextShowsRows ==
  LET all == dash.text \o dash.pending
  IN  /\ IsSuffix(Rows(dash.log), all)
      /\ \A i, j \in DOMAIN all : i < j => all[i].n < all[j].n

(* No segment says "running" once no run of its command is left, though    *)
(* ends are put down to whatever segment is open.                          *)
NothingRunsForEver ==
  \A k \in Keys : (\A r \in Runs : KeyOf[r] = k => phase[r] \notin Live) => OpenSegments(dash, k) = {}

(* "A finished launch closes its open segment" (Dashboard.qml).            *)
FinishedClosesItsSegment ==
  \A k \in Keys : \A i \in DOMAIN dash.segments[k] :
    LET s == dash.segments[k][i] IN s.closedBy # NoRun => s.closedBy = s.of

(* The console is driven by nothing but what the executor promises: the    *)
(* runs go through the lifecycle that CommandExecutor implements.          *)
Lifecycle == INSTANCE RunLifecycle
ConsoleFollowsLifecycle == Lifecycle!Spec

(* The console tells the story of the selected run, in its model and on    *)
(* the page, and of no run that it still goes on after its end.            *)
ConsoleSound ==
  /\ ConsoleTypeOK
  /\ ConsoleRowsArePassing
  /\ ConsoleShowsSegment
  /\ TextShowsRows
  /\ NothingRunsForEver
=============================================================================
