------------------------------ MODULE OutputLines ------------------------------
(***************************************************************************)
(* What a program prints becomes lines (src/src/commandexecutor.cpp,       *)
(* flushReady): both of its channels arrive in pieces of any size, and a   *)
(* line is told when its end has arrived.  What is left without an end     *)
(* when the program is over is not told.                                   *)
(***************************************************************************)
EXTENDS Naturals, SequencesExt, Ordered

CONSTANT MaxPrinted \* bound on what is printed

ASSUME OutputAssumption == MaxPrinted \in Nat

VARIABLES
  printed,    \* per channel all the program has printed
  pipe,       \* per channel what has not been read yet
  remainder,  \* outRemainder and errRemainder
  told,       \* the lines of outputReceived, with their channels
  life        \* "up", "over" once the process has ended, "reaped" after finished()
outputVars == <<printed, pipe, remainder, told, life>>

Channels == {"stdout", "stderr"}
End == 0

OutputInit ==
  /\ printed = [c \in Channels |-> <<>>] /\ pipe = printed /\ remainder = printed
  /\ told = <<>> /\ life = "up"

(* Distinct numbers stand for the text, so that no two lines are alike.    *)
Total == Len(printed["stdout"]) + Len(printed["stderr"])
ProgramPrints(c) ==
  /\ life = "up" /\ Total < MaxPrinted
  /\ \E what \in {End, Total + 1} :
       /\ printed' = [printed EXCEPT ![c] = Append(@, what)]
       /\ pipe' = [pipe EXCEPT ![c] = Append(@, what)]
  /\ UNCHANGED <<remainder, told, life>>

ProcessEnds ==
  /\ life = "up" /\ life' = "over"
  /\ UNCHANGED <<printed, pipe, remainder, told>>

-----------------------------------------------------------------------------
Ends(text) == {i \in DOMAIN text : text[i] = End}
Behind(ends, k) == IF k = 0 THEN 1 ELSE ends[k] + 1
LinesIn(text) ==
  LET ends == InOrder(Ends(text))
  IN  [k \in DOMAIN ends |-> SubSeq(text, Behind(ends, k - 1), ends[k] - 1)]
RestOf(text) ==
  LET ends == InOrder(Ends(text)) IN SubSeq(text, Behind(ends, Len(ends)), Len(text))

(* A flush of one channel, as a function of [remainder, told].             *)
Flushed(s, c, chunk) ==
  LET text == s.remainder[c] \o chunk
      lines == LinesIn(text)
  IN  [remainder |-> [s.remainder EXCEPT ![c] = RestOf(text)],
       told |-> s.told \o [i \in DOMAIN lines |-> <<c, lines[i]>>]]

flushReady(c) ==
  /\ life = "up" /\ pipe[c] # <<>>
  /\ \E n \in 1..Len(pipe[c]) :
       LET s == Flushed([remainder |-> remainder, told |-> told], c, SubSeq(pipe[c], 1, n))
       IN  /\ remainder' = s.remainder /\ told' = s.told
           /\ pipe' = [pipe EXCEPT ![c] = SubSeq(@, n + 1, Len(@))]
  /\ UNCHANGED <<printed, life>>

(* Bug: only the standard output is read to its end.                       *)
FinishedHalfRead ==
  /\ life = "over" /\ life' = "reaped"
  /\ LET out == Flushed([remainder |-> remainder, told |-> told], "stdout", pipe["stdout"])
     IN  remainder' = out.remainder /\ told' = out.told
  /\ pipe' = [c \in Channels |-> <<>>]
  /\ UNCHANGED printed

(* finished(): what is still in the pipes is told before the run is.       *)
ProcessFinished ==
  /\ life = "over" /\ life' = "reaped"
  /\ LET out == Flushed([remainder |-> remainder, told |-> told], "stdout", pipe["stdout"])
         all == Flushed(out, "stderr", pipe["stderr"])
     IN  remainder' = all.remainder /\ told' = all.told
  /\ pipe' = [c \in Channels |-> <<>>]
  /\ UNCHANGED printed

OutputNext == (\E c \in Channels : ProgramPrints(c) \/ flushReady(c)) \/ ProcessEnds \/ ProcessFinished

OutputSpec == OutputInit /\ [][OutputNext]_outputVars

-----------------------------------------------------------------------------
(* The lines told of a channel are those that were printed to it, whole    *)
(* and in their order, however they came in pieces: none but the last is   *)
(* missing, and at the end none that has an end.                           *)
ToldOf(c) ==
  LET those == Picked(told, {i \in DOMAIN told : told[i][1] = c}) IN [i \in DOMAIN those |-> those[i][2]]
LinesAreWhole ==
  \A c \in Channels :
    /\ IsPrefix(ToldOf(c), LinesIn(printed[c]))
    /\ ToldOf(c) = LinesIn(SubSeq(printed[c], 1, Len(printed[c]) - Len(pipe[c])))
    /\ life = "reaped" => ToldOf(c) = LinesIn(printed[c])
=============================================================================
