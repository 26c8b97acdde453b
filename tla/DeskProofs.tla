------------------------------- MODULE DeskProofs -------------------------------
(***************************************************************************)
(* Theorems about the parts of the window: the processor's load, what a    *)
(* program prints, the commands that were run last, the consoles of the    *)
(* dashboard, the tree of the sidebar, the lines of a log, and the         *)
(* arguments of what is launched.                                          *)
(***************************************************************************)
EXTENDS MCDesk, McpProofs, OrderedProofs, FiniteSetTheorems, Integers, TLAPS

-----------------------------------------------------------------------------
(* The processor's load.                                                   *)
LEMMA ModFacts ==
  ASSUME NEW n \in Nat, NEW w \in Nat \ {0}
  PROVE  /\ n % w \in 0..(w - 1)
         /\ \E q \in Nat : n = q * w + (n % w)
<1>1. n % w \in 0..(w - 1)
  OBVIOUS
<1>2. n = (n \div w) * w + (n % w) /\ n \div w \in Int
  OBVIOUS
<1>3. \A q \in Int : q <= 0 - 1 => q * w <= 0 - w
  OBVIOUS
<1>4. n \div w >= 0
  BY <1>1, <1>2, <1>3
<1>5. n \div w \in Nat
  BY <1>2, <1>4
<1>6. QED
  BY <1>1, <1>2, <1>5

(* There is one remainder only.                                            *)
LEMMA ModUnique ==
  ASSUME NEW w \in Nat \ {0}, NEW p \in Nat, NEW q \in Nat,
         NEW r \in 0..(w - 1), NEW t \in 0..(w - 1), p * w + r = q * w + t
  PROVE  r = t
<1>1. (p - q) * w = t - r
  OBVIOUS
<1>2. p = q \/ p - q >= 1 \/ q - p >= 1
  OBVIOUS
<1>3. p - q >= 1 => (p - q) * w >= w
  OBVIOUS
<1>4. q - p >= 1 => (p - q) * w <= 0 - w
  OBVIOUS
<1>5. QED
  BY <1>1, <1>2, <1>3, <1>4

(* A counter that grows by less than its range runs over once at most.     *)
LEMMA RunsOverOnce ==
  ASSUME NEW n \in Nat, NEW d \in 0..MaxGrowth
  PROVE  /\ RunsOver(n) \in Nat /\ RunsOver(n + d) \in Nat
         /\ RunsOver(n + d) = RunsOver(n) + d \/ RunsOver(n + d) = RunsOver(n) + d - TickRange
<1>1. TickRange \in Nat \ {0} /\ MaxGrowth \in Nat /\ 2 * MaxGrowth <= TickRange
  BY StatsAssumption
<1>2. PICK q \in Nat : n = q * TickRange + RunsOver(n)
  BY <1>1, ModFacts DEF RunsOver
<1>3. n + d \in Nat
  BY <1>1
<1>4. PICK p \in Nat : n + d = p * TickRange + RunsOver(n + d)
  BY <1>1, <1>3, ModFacts DEF RunsOver
<1>5. RunsOver(n) \in 0..(TickRange - 1) /\ RunsOver(n + d) \in 0..(TickRange - 1)
  BY <1>1, <1>3, ModFacts DEF RunsOver
<1> DEFINE r == RunsOver(n)
<1> DEFINE t == RunsOver(n + d)
<1> HIDE DEF r, t
<1>6. r \in 0..(TickRange - 1) /\ t \in 0..(TickRange - 1)
      /\ n = q * TickRange + r /\ n + d = p * TickRange + t
  BY <1>2, <1>4, <1>5 DEF r, t
<1>7. CASE r + d < TickRange
  <2>1. r + d \in 0..(TickRange - 1)
    BY <1>1, <1>6, <1>7
  <2>2. q * TickRange + (r + d) = p * TickRange + t
    BY <1>1, <1>6
  <2>3. r + d = t
    BY <1>1, <1>6, <2>1, <2>2, ModUnique
  <2>4. QED
    BY <1>6, <2>3 DEF r, t
<1>8. CASE ~(r + d < TickRange)
  <2>1. r + d - TickRange \in 0..(TickRange - 1)
    BY <1>1, <1>6, <1>8
  <2>2. (q + 1) * TickRange = q * TickRange + TickRange
    BY <1>1
  <2>3. (q + 1) * TickRange + (r + d - TickRange) = p * TickRange + t
    BY <1>1, <1>6, <2>2
  <2>4. q + 1 \in Nat
    OBVIOUS
  <2>5. r + d - TickRange = t
    BY <1>1, <1>6, <2>1, <2>3, <2>4, ModUnique
  <2>6. QED
    BY <1>6, <2>5 DEF r, t
<1>9. QED
  BY <1>7, <1>8

(* What the next reading is compared with is the reading before it.        *)
StatsIInv ==
  /\ busyTicks \in Nat /\ idleTicks \in Nat
  /\ prevTotal = RunsOver(busyTicks) + RunsOver(idleTicks) /\ prevIdle = RunsOver(idleTicks)

(* A sample that changes the load shown shows the ticks since the last     *)
(* one.                                                                    *)
LEMMA SampleIsTrue ==
  ASSUME StatsIInv, sampleCpu
  PROVE  /\ StatsIInv'
         /\ load' # load =>
              load' = <<busyTicks' - busyTicks, busyTicks' + idleTicks' - busyTicks - idleTicks>>
<1>1. PICK b \in 0..MaxGrowth, i \in 0..MaxGrowth : busyTicks' = busyTicks + b /\ idleTicks' = idleTicks + i
  BY DEF sampleCpu
<1>2. TickRange \in Nat \ {0} /\ MaxGrowth \in Nat /\ 2 * MaxGrowth <= TickRange
  BY StatsAssumption
<1>3. busyTicks \in Nat /\ idleTicks \in Nat /\ busyTicks' \in Nat /\ idleTicks' \in Nat
  BY <1>1, <1>2 DEF StatsIInv
<1> DEFINE B == RunsOver(busyTicks) I == RunsOver(idleTicks)
           Bn == RunsOver(busyTicks') In == RunsOver(idleTicks')
<1>4. /\ B \in Nat /\ Bn \in Nat /\ (Bn = B + b \/ Bn = B + b - TickRange)
      /\ I \in Nat /\ In \in Nat /\ (In = I + i \/ In = I + i - TickRange)
  BY <1>1, <1>3, RunsOverOnce
<1>5. prevTotal' = Bn + In /\ prevIdle' = In /\ load' = Sample(Bn + In, In)
  BY DEF sampleCpu
<1>6. prevTotal = B + I /\ prevIdle = I
  BY DEF StatsIInv
<1>7. StatsIInv'
  BY <1>3, <1>5 DEF StatsIInv
<1> HIDE DEF B, I, Bn, In
<1>8. CASE Bn + In > B + I
  <2>1. b \in Nat /\ i \in Nat /\ b <= MaxGrowth /\ i <= MaxGrowth
    BY <1>2
  <2>2. Bn = B + b /\ In = I + i
    BY <1>2, <1>4, <1>8, <2>1
  <2>3. load' # load => load' = <<((Bn + In) - (B + I)) - (In - I), (Bn + In) - (B + I)>>
    BY <1>5, <1>6 DEF Sample, Share
  <2>4. (Bn + In) - (B + I) = b + i /\ In - I = i
    BY <1>4, <2>2
  <2>5. (b + i) - i = b /\ busyTicks' - busyTicks = b
        /\ busyTicks' + idleTicks' - busyTicks - idleTicks = b + i
    BY <1>1, <1>3
  <2>6. QED
    BY <1>7, <2>3, <2>4, <2>5
<1>9. CASE ~(Bn + In > B + I)
  BY <1>5, <1>6, <1>7, <1>9 DEF Sample
<1>10. QED
  BY <1>8, <1>9

(* A load that is shown is the true one of the last two seconds, however   *)
(* often the counters have run over, as long as two seconds' ticks fill no *)
(* more than half of their range.                                          *)
THEOREM LoadIsAlwaysTrue == StatsSpec => LoadIsTrue
<1>1. StatsInit => StatsIInv
  BY StatsAssumption DEF StatsInit, StatsIInv
<1>2. StatsIInv /\ [StatsNext]_statsVars => StatsIInv'
  <2> SUFFICES ASSUME StatsIInv, [StatsNext]_statsVars PROVE StatsIInv'
    OBVIOUS
  <2>1. CASE UNCHANGED statsVars
    BY <2>1 DEF statsVars, StatsIInv
  <2>2. QED
    BY <2>1, SampleIsTrue DEF StatsNext
<1>3. StatsIInv /\ [StatsNext]_statsVars
        => [load' # load =>
              load' = <<busyTicks' - busyTicks, busyTicks' + idleTicks' - busyTicks - idleTicks>>]_statsVars
  BY SampleIsTrue DEF StatsNext
<1>4. QED
  BY <1>1, <1>2, <1>3, PTL DEF StatsSpec, LoadIsTrue

PhasesOK == phase \in [Runs -> Lifecycle!Phase]

(* The console's runs take steps of the lifecycle and no others.           *)
LEMMA ConsoleStepIsLifecycleStep ==
  ASSUME PhasesOK, [ConsoleNext]_consoleVars
  PROVE  [Lifecycle!Next]_phase /\ PhasesOK'
<1> USE DEF PhasesOK
<1>1. ASSUME NEW r \in Runs, Launch(r) PROVE Lifecycle!Next
  <2>1. PICK how \in {"pending", "failed"} :
          phase' = [q \in Runs |->
            IF q = r THEN how
            ELSE IF KeyOf[q] = KeyOf[r] /\ KeyOf[r] \in OneAtATime /\ phase[q] \in {"pending", "up"}
            THEN "stopping" ELSE phase[q]]
    BY <1>1 DEF Launch
  <2>2. phase[r] = "none"
    BY <1>1 DEF Launch
  <2>3. phase' \in [Runs -> Lifecycle!Phase]
    BY <2>1 DEF Lifecycle!Phase
  <2>4. ASSUME NEW q \in Runs
        PROVE  phase'[q] = phase[q] \/ <<phase[q], phase'[q]>> \in Lifecycle!Steps
    <3>1. CASE q = r
      BY <2>1, <2>2, <3>1 DEF Lifecycle!Steps
    <3>2. CASE q # r
      BY <2>1, <3>2 DEF Lifecycle!Steps
    <3>3. QED
      BY <3>1, <3>2
  <2>5. QED
    BY <2>3, <2>4 DEF Lifecycle!Next
<1>2. ASSUME NEW r \in Runs, NEW next \in Lifecycle!Phase,
             <<phase[r], next>> \in Lifecycle!Steps, phase' = [phase EXCEPT ![r] = next]
      PROVE  Lifecycle!Next
  BY <1>2 DEF Lifecycle!Next
<1>3. ASSUME NEW r \in Runs, Stop(r) \/ Started(r) \/ Finished(r) \/ Failed(r)
      PROVE  [Lifecycle!Next]_phase
  BY <1>2, <1>3 DEF Stop, Started, Finished, Failed, Lifecycle!Phase, Lifecycle!Steps
<1>4. ASSUME NEW r \in Runs, OutputReceived(r) PROVE UNCHANGED phase
  BY <1>4 DEF OutputReceived
<1>5. ASSUME NEW k \in Keys, SelectCommand(k) \/ OpenDetail(k) PROVE UNCHANGED phase
  BY <1>5 DEF SelectCommand, OpenDetail
<1>6. ASSUME NEW seq \in 1..Cardinality(Runs), ShowRun(seq) PROVE UNCHANGED phase
  BY <1>6 DEF ShowRun
<1>7. CloseDetail \/ SetFilters \/ clearSelectedCommand \/ CommandsChanged \/ Flush => UNCHANGED phase
  BY DEF CloseDetail, SetFilters, clearSelectedCommand, CommandsChanged, Flush
<1>8. UNCHANGED consoleVars => UNCHANGED phase
  BY DEF consoleVars
<1>9. [Lifecycle!Next]_phase
  BY <1>1, <1>3, <1>4, <1>5, <1>6, <1>7, <1>8 DEF ConsoleNext
<1>10. QED
  BY <1>9 DEF Lifecycle!Next

(* The dashboard's consoles take the signals of the runs in an order in    *)
(* which RunLifecycle lets them come (Dashboard.qml, the handlers of the   *)
(* executor's signals).                                                    *)
THEOREM ConsoleImplementsLifecycle == ConsoleSpec => ConsoleFollowsLifecycle
<1>1. ConsoleInit => Lifecycle!Init /\ PhasesOK
  BY DEF PhasesOK, ConsoleInit, Lifecycle!Init, Lifecycle!Phase
<1>2. PhasesOK /\ [ConsoleNext]_consoleVars => [Lifecycle!Next]_phase /\ PhasesOK'
  BY ConsoleStepIsLifecycleStep
<1>3. QED
  BY <1>1, <1>2, PTL DEF ConsoleSpec, ConsoleFollowsLifecycle, Lifecycle!Spec

-----------------------------------------------------------------------------
(* One more number of text: it ends the line, or the line goes on.         *)
LEMMA NoText == LinesIn(<<>>) = <<>> /\ RestOf(<<>>) = <<>>
<1>1. Ends(<<>>) = {}
  BY DEF Ends
<1>2. InOrder({}) = <<>>
  BY InOrderNone
<1>3. LinesIn(<<>>) = <<>>
  BY <1>1, <1>2 DEF LinesIn
<1>4. RestOf(<<>>) = <<>>
  BY <1>1, <1>2 DEF RestOf, Behind
<1>5. QED
  BY <1>3, <1>4

(* The ends of a text, in their order, and what is behind each.            *)
LEMMA EndsAreIn ==
  ASSUME NEW t \in Seq(Nat)
  PROVE  /\ Ends(t) \in SUBSET (1..Len(t)) /\ Len(t) \in Nat
         /\ InOrder(Ends(t)) \in [1..Len(InOrder(Ends(t))) -> 1..Len(t)]
         /\ InOrder(Ends(t)) \in Seq(Nat)
         /\ Len(InOrder(Ends(t))) \in Nat
         /\ DOMAIN InOrder(Ends(t)) = 1..Len(InOrder(Ends(t)))
         /\ \A k \in 0..Len(InOrder(Ends(t))) : Behind(InOrder(Ends(t)), k) \in 1..(Len(t) + 1)
<1>1. Ends(t) \in SUBSET (1..Len(t)) /\ Len(t) \in Nat
  BY DEF Ends
<1> DEFINE v == InOrder(Ends(t))
<1>2. v \in [1..Len(v) -> Ends(t)] /\ v \in Seq(Nat) /\ Len(v) \in Nat /\ DOMAIN v = 1..Len(v)
  BY <1>1, InOrderList
<1> HIDE DEF v
<1>3. v \in [1..Len(v) -> 1..Len(t)]
  BY <1>1, <1>2
<1>4. ASSUME NEW k \in 0..Len(v) PROVE Behind(v, k) \in 1..(Len(t) + 1)
  <2>1. CASE k = 0
    BY <1>1, <2>1 DEF Behind
  <2>2. CASE k # 0
    <3>1. k \in 1..Len(v)
      BY <1>2, <2>2
    <3>2. v[k] \in 1..Len(t)
      BY <3>1, <1>3
    <3>3. QED
      BY <3>2, <2>2, <1>1 DEF Behind
  <2>3. QED
    BY <2>1, <2>2
<1>5. QED
  BY <1>1, <1>2, <1>3, <1>4 DEF v

(* Lines and what is left are text.                                        *)
LEMMA LinesAreText ==
  ASSUME NEW t \in Seq(Nat)
  PROVE  /\ LinesIn(t) \in Seq(Seq(Nat)) /\ Len(LinesIn(t)) = Len(InOrder(Ends(t)))
         /\ RestOf(t) \in Seq(Nat)
<1> DEFINE v == InOrder(Ends(t))
<1>1. /\ Len(t) \in Nat /\ v \in [1..Len(v) -> 1..Len(t)] /\ Len(v) \in Nat /\ DOMAIN v = 1..Len(v)
      /\ \A k \in 0..Len(v) : Behind(v, k) \in 1..(Len(t) + 1)
  BY EndsAreIn
<1> HIDE DEF v
<1>2. \A a \in 1..(Len(t) + 1), b \in 0..Len(t) : SubSeq(t, a, b) \in Seq(Nat)
  <2> SUFFICES ASSUME NEW a \in 1..(Len(t) + 1), NEW b \in 0..Len(t) PROVE SubSeq(t, a, b) \in Seq(Nat)
    OBVIOUS
  <2>1. a \in Int /\ b \in Int /\ \A i \in a..b : t[i] \in Nat
    BY <1>1
  <2>2. QED
    BY <2>1, SubSeqProperties
<1> DEFINE w == [k \in 1..Len(v) |-> SubSeq(t, Behind(v, k - 1), v[k] - 1)]
<1>3. w \in [1..Len(v) -> Seq(Nat)]
  <2> SUFFICES ASSUME NEW k \in 1..Len(v) PROVE SubSeq(t, Behind(v, k - 1), v[k] - 1) \in Seq(Nat)
    OBVIOUS
  <2>1. k - 1 \in 0..Len(v)
    BY <1>1
  <2>2. v[k] \in 1..Len(t)
    BY <1>1
  <2>3. v[k] - 1 \in 0..Len(t)
    BY <2>2, <1>1
  <2>4. Behind(v, k - 1) \in 1..(Len(t) + 1)
    BY <2>1, <1>1
  <2>5. QED
    BY <2>3, <2>4, <1>2
<1>4. LinesIn(t) = w
  BY <1>1 DEF LinesIn, v
<1> HIDE DEF w
<1>5. w \in Seq(Seq(Nat)) /\ Len(w) = Len(v)
  BY <1>1, <1>3, IsSeq
<1>6. RestOf(t) = SubSeq(t, Behind(v, Len(v)), Len(t))
  BY DEF RestOf, v
<1>7. Behind(v, Len(v)) \in 1..(Len(t) + 1) /\ Len(t) \in 0..Len(t)
  BY <1>1
<1>8. QED
  BY <1>2, <1>4, <1>5, <1>6, <1>7 DEF v

(* What ends no line makes no line: it waits with the rest.                *)
LEMMA TextGoesOn ==
  ASSUME NEW t \in Seq(Nat), NEW x \in Nat, x # End
  PROVE  LinesIn(Append(t, x)) = LinesIn(t) /\ RestOf(Append(t, x)) = Append(RestOf(t), x)
<1> DEFINE v == InOrder(Ends(t)) u == Append(t, x)
<1>1. /\ Len(t) \in Nat /\ v \in [1..Len(v) -> 1..Len(t)] /\ Len(v) \in Nat /\ DOMAIN v = 1..Len(v)
      /\ \A k \in 0..Len(v) : Behind(v, k) \in 1..(Len(t) + 1)
  BY EndsAreIn
<1>2. Ends(u) = Ends(t)
  BY DEF Ends, End
<1>3. Len(u) = Len(t) + 1
  OBVIOUS
<1>4. LinesIn(u) = [k \in DOMAIN v |-> SubSeq(u, Behind(v, k - 1), v[k] - 1)]
  BY <1>2 DEF LinesIn
<1>5. RestOf(u) = SubSeq(u, Behind(v, Len(v)), Len(t) + 1)
  BY <1>2, <1>3 DEF RestOf
<1>6. LinesIn(t) = [k \in DOMAIN v |-> SubSeq(t, Behind(v, k - 1), v[k] - 1)]
      /\ RestOf(t) = SubSeq(t, Behind(v, Len(v)), Len(t))
  BY DEF LinesIn, RestOf
<1> HIDE DEF v
<1>11. /\ \A a \in Nat \ {0}, b \in 0..Len(t) : SubSeq(u, a, b) = SubSeq(t, a, b)
       /\ \A a \in Nat \ {0} : a <= Len(t) + 1 =>
            SubSeq(u, a, Len(t) + 1) = Append(SubSeq(t, a, Len(t)), x)
  <2>1. ASSUME NEW a \in Nat \ {0}, NEW b \in 0..Len(t) PROVE SubSeq(u, a, b) = SubSeq(t, a, b)
    BY SubSeqAppend
  <2>2. ASSUME NEW a \in Nat \ {0}, a <= Len(t) + 1
        PROVE  SubSeq(u, a, Len(t) + 1) = Append(SubSeq(t, a, Len(t)), x)
    BY <2>2, SMTT(30)
  <2>3. QED
    BY <2>1, <2>2
<1> HIDE DEF u
<1>7. ASSUME NEW k \in 1..Len(v)
      PROVE  SubSeq(u, Behind(v, k - 1), v[k] - 1) = SubSeq(t, Behind(v, k - 1), v[k] - 1)
  <2>0. Len(t) \in Nat /\ Len(v) \in Nat /\ v \in [1..Len(v) -> 1..Len(t)]
    BY <1>1
  <2>1. k - 1 \in 0..Len(v) /\ v[k] \in 1..Len(t)
    BY <2>0, SMTT(30)
  <2>2. Behind(v, k - 1) \in Nat \ {0}
    <3>1. Behind(v, k - 1) \in 1..(Len(t) + 1)
      BY <2>1, <1>1
    <3>2. QED
      BY <2>0, <3>1
  <2>3. v[k] - 1 \in 0..Len(t)
    BY <2>1, <1>1
  <2>4. QED
    BY <2>2, <2>3, <1>11
<1>8. LinesIn(u) = LinesIn(t)
  BY <1>1, <1>4, <1>6, <1>7
<1>9. RestOf(u) = Append(RestOf(t), x)
  <2>1. Len(v) \in 0..Len(v)
    BY <1>1
  <2>2. Behind(v, Len(v)) \in 1..(Len(t) + 1)
    BY <2>1, <1>1
  <2>3. Behind(v, Len(v)) \in Nat \ {0} /\ Behind(v, Len(v)) <= Len(t) + 1 /\ Len(t) \in 0..Len(t)
    BY <2>2, <1>1
  <2>4. QED
    BY <2>3, <1>5, <1>6, <1>11
<1>10. QED
  BY <1>8, <1>9 DEF u

(* What ends a line makes one of what has waited.                          *)
LEMMA LineEnds ==
  ASSUME NEW t \in Seq(Nat)
  PROVE  LinesIn(Append(t, End)) = Append(LinesIn(t), RestOf(t)) /\ RestOf(Append(t, End)) = <<>>
<1> DEFINE v == InOrder(Ends(t)) u == Append(t, End) n == Len(v)
<1>1. /\ Len(t) \in Nat /\ v \in [1..n -> 1..Len(t)] /\ n \in Nat /\ DOMAIN v = 1..n
      /\ \A k \in 0..n : Behind(v, k) \in 1..(Len(t) + 1)
      /\ v \in Seq(Nat)
  BY EndsAreIn
<1>2. Ends(u) = Ends(t) \cup {Len(t) + 1} /\ Ends(t) \in SUBSET (1..Len(t)) /\ Len(u) = Len(t) + 1
  BY DEF Ends, End
<1>3. InOrder(Ends(u)) = Append(v, Len(t) + 1)
  BY <1>1, <1>2, InOrderAppend
<1>4. LinesIn(t) = [k \in 1..n |-> SubSeq(t, Behind(v, k - 1), v[k] - 1)]
      /\ RestOf(t) = SubSeq(t, Behind(v, n), Len(t))
  BY <1>1 DEF LinesIn, RestOf
<1> DEFINE w == Append(v, Len(t) + 1)
<1>5. LinesIn(u) = [k \in DOMAIN w |-> SubSeq(u, Behind(w, k - 1), w[k] - 1)]
      /\ RestOf(u) = SubSeq(u, Behind(w, Len(w)), Len(u))
  BY <1>3 DEF LinesIn, RestOf
<1> HIDE DEF v
<1>6. DOMAIN w = 1..(n + 1) /\ Len(w) = n + 1 /\ w[n + 1] = Len(t) + 1 /\ \A k \in 1..n : w[k] = v[k]
  BY <1>1
<1>13. \A a \in Nat \ {0}, b \in 0..Len(t) : SubSeq(u, a, b) = SubSeq(t, a, b)
  <2>1. End \in Nat
    BY DEF End
  <2>2. QED
    BY <2>1, SubSeqAppend
<1> HIDE DEF w, n, u
<1>7. \A k \in 0..n : Behind(w, k) = Behind(v, k)
  BY <1>1, <1>6 DEF Behind
<1>8. ASSUME NEW k \in 1..n
      PROVE  SubSeq(u, Behind(w, k - 1), w[k] - 1) = SubSeq(t, Behind(v, k - 1), v[k] - 1)
  <2>1. k - 1 \in 0..n /\ v[k] \in 1..Len(t) /\ w[k] = v[k]
    BY <1>1, <1>6
  <2>2. Behind(v, k - 1) \in Nat \ {0} /\ Behind(w, k - 1) = Behind(v, k - 1)
    <3>1. Behind(v, k - 1) \in 1..(Len(t) + 1) /\ Len(t) \in Nat
      BY <2>1, <1>1
    <3>2. Behind(w, k - 1) = Behind(v, k - 1)
      BY <2>1, <1>7
    <3>3. QED
      BY <3>1, <3>2
  <2>3. v[k] - 1 \in 0..Len(t)
    BY <2>1, <1>1, SMTT(30)
  <2>4. QED
    BY <2>1, <2>2, <2>3, <1>13
<1>9. SubSeq(u, Behind(w, (n + 1) - 1), w[n + 1] - 1) = RestOf(t)
  <2>1. (n + 1) - 1 = n /\ n \in 0..n /\ w[n + 1] - 1 = Len(t) /\ Len(t) \in 0..Len(t)
    BY <1>1, <1>6
  <2>2. Behind(v, n) \in Nat \ {0} /\ Behind(w, n) = Behind(v, n)
    BY <2>1, <1>1, <1>7
  <2>4. SubSeq(u, Behind(v, n), Len(t)) = SubSeq(t, Behind(v, n), Len(t))
    BY <2>1, <2>2, <1>13
  <2>5. QED
    BY <2>1, <2>2, <2>4, <1>4
<1>10. LinesIn(u) = Append(LinesIn(t), RestOf(t))
  <2> DEFINE a == LinesIn(u) b == LinesIn(t) r == RestOf(t)
  <2>1. DOMAIN a = 1..(n + 1) /\ (\A k \in 1..n : a[k] = b[k]) /\ a[n + 1] = r
        /\ a = [k \in 1..(n + 1) |-> a[k]]
    <3>1. a = [k \in 1..(n + 1) |-> SubSeq(u, Behind(w, k - 1), w[k] - 1)]
      BY <1>5, <1>6
    <3>2. \A k \in 1..n : b[k] = SubSeq(t, Behind(v, k - 1), v[k] - 1)
      BY <1>4
    <3>3. \A k \in 1..n : k \in 1..(n + 1)
      BY <1>1
    <3>4. n + 1 \in 1..(n + 1)
      BY <1>1
    <3> HIDE DEF a, b, r
    <3>5. a[n + 1] = r
      BY <3>1, <3>4, <1>9 DEF r
    <3>6. \A k \in 1..n : a[k] = b[k]
      BY <3>1, <3>2, <3>3, <1>8
    <3>7. QED
      BY <3>1, <3>5, <3>6
  <2>2. b \in Seq(Seq(Nat)) /\ r \in Seq(Nat) /\ Len(b) = n
    BY LinesAreText DEF v, n
  <2> HIDE DEF a, b, r
  <2>3. Append(b, r) \in Seq(Seq(Nat)) /\ Len(Append(b, r)) = n + 1
        /\ (\A k \in 1..n : Append(b, r)[k] = b[k]) /\ Append(b, r)[n + 1] = r
    BY <2>2, <1>1
  <2> DEFINE c == Append(b, r)
  <2> HIDE DEF c
  <2>4. c = [k \in 1..(n + 1) |-> c[k]]
    BY <2>3, SeqIs DEF c
  <2>5. \A k \in 1..(n + 1) : k \in 1..n \/ k = n + 1
    BY <1>1
  <2>6. \A k \in 1..(n + 1) : a[k] = c[k]
    BY <2>1, <2>3, <2>5 DEF c
  <2>7. a = c
    BY <2>1, <2>4, <2>6
  <2>8. QED
    BY <2>7 DEF a, b, c, r
<1>11. RestOf(u) = <<>>
  <2>1. Behind(w, n + 1) = Len(t) + 2
    BY <1>1, <1>6 DEF Behind
  <2>2. RestOf(u) = SubSeq(u, Len(t) + 2, Len(t) + 1)
    BY <1>2, <1>5, <1>6, <2>1
  <2>3. Len(t) + 2 \in Int /\ Len(t) + 1 \in Int /\ Len(t) + 1 < Len(t) + 2
    BY <1>1
  <2>4. QED
    BY <2>2, <2>3, SubSeqEmpty
<1>12. QED
  BY <1>10, <1>11 DEF u

(* What waits for its end holds no line, and is all that waits in it.      *)
LEMMA NoLineWaits ==
  ASSUME NEW t \in Seq(Nat)
  PROVE  LinesIn(RestOf(t)) = <<>> /\ RestOf(RestOf(t)) = RestOf(t)
<1> DEFINE T == {s \in Seq(Nat) : LinesIn(RestOf(s)) = <<>> /\ RestOf(RestOf(s)) = RestOf(s)}
<1>1. <<>> \in T
  <2>1. <<>> \in Seq(Nat)
    OBVIOUS
  <2>2. QED
    BY <2>1, NoText
<1>2. ASSUME NEW s \in Seq(Nat), NEW x \in Nat, s \in T PROVE Append(s, x) \in T
  <2>1. Append(s, x) \in Seq(Nat)
    OBVIOUS
  <2>2. CASE x = End
    <3>1. RestOf(Append(s, x)) = <<>>
      BY <2>2, LineEnds
    <3>2. QED
      BY <2>1, <3>1, NoText
  <2>3. CASE x # End
    <3> DEFINE r == RestOf(s)
    <3>1. r \in Seq(Nat)
      BY LinesAreText
    <3>2. RestOf(Append(s, x)) = Append(r, x)
      BY <2>3, TextGoesOn
    <3>3. LinesIn(r) = <<>> /\ RestOf(r) = r
      BY <1>2
    <3> HIDE DEF r
    <3>4. LinesIn(Append(r, x)) = LinesIn(r) /\ RestOf(Append(r, x)) = Append(RestOf(r), x)
      BY <2>3, <3>1, TextGoesOn
    <3>5. QED
      BY <2>1, <3>2, <3>3, <3>4
  <2>4. QED
    BY <2>2, <2>3
<1>3. Seq(Nat) \subseteq T
  <2> HIDE DEF T
  <2>1. QED
    BY <1>1, <1>2, SeqSet
<1>4. QED
  BY <1>3

(* Concatenation, of text and of lines.                                    *)
LEMMA OneMore ==
  ASSUME NEW s \in Seq(Nat), NEW t \in Seq(Nat), NEW x \in Nat
  PROVE  Append(t, x) \in Seq(Nat) /\ s \o t \in Seq(Nat) /\ s \o Append(t, x) = Append(s \o t, x)
BY ConcatRules

(* The same, of lines.                                                     *)
LEMMA OneLineMore ==
  ASSUME NEW s \in Seq(Seq(Nat)), NEW t \in Seq(Seq(Nat)), NEW x \in Seq(Nat)
  PROVE  s \o Append(t, x) = Append(s \o t, x)
BY ConcatRules, SMTT(30)

(* Two rules of concatenation, of text.                                    *)
LEMMA NatConcat ==
  ASSUME NEW s \in Seq(Nat), NEW t \in Seq(Nat), NEW u \in Seq(Nat)
  PROVE  (s \o t) \o u = s \o (t \o u) /\ SubSeq(s \o t, 1, Len(s)) = s
BY SMTT(30)

(* The beginning of a concatenation, of lines.                             *)
LEMMA LineConcat ==
  ASSUME NEW s \in Seq(Seq(Nat)), NEW t \in Seq(Seq(Nat))
  PROVE  Len(s) <= Len(s \o t) /\ SubSeq(s, 1, Len(s)) = s /\ SubSeq(s \o t, 1, Len(s)) = s
OBVIOUS

(* Reading goes on with what waits: the pieces make no difference.         *)
LEMMA PieceByPiece ==
  ASSUME NEW a \in Seq(Nat), NEW c \in Seq(Nat)
  PROVE  /\ LinesIn(a \o c) = LinesIn(a) \o LinesIn(RestOf(a) \o c)
         /\ RestOf(a \o c) = RestOf(RestOf(a) \o c)
<1> DEFINE r == RestOf(a) la == LinesIn(a)
<1> DEFINE Holds(s) == LinesIn(a \o s) = la \o LinesIn(r \o s) /\ RestOf(a \o s) = RestOf(r \o s)
<1> DEFINE T == {s \in Seq(Nat) : Holds(s)}
<1>1. r \in Seq(Nat) /\ la \in Seq(Seq(Nat))
  BY LinesAreText
<1>2. LinesIn(r) = <<>> /\ RestOf(r) = r
  BY NoLineWaits
<1>3. <<>> \in T
  <2> HIDE DEF r, la
  <2>1. <<>> \in Seq(Nat) /\ a \o <<>> = a /\ r \o <<>> = r /\ la \o <<>> = la
    BY <1>1
  <2>2. RestOf(a) = r /\ LinesIn(a) = la
    BY DEF r, la
  <2>3. QED
    BY <2>1, <2>2, <1>2
<1>4. ASSUME NEW s \in Seq(Nat), NEW x \in Nat, s \in T PROVE Append(s, x) \in T
  <2> HIDE DEF r, la
  <2> DEFINE as == a \o s rs == r \o s
  <2>1. /\ Append(s, x) \in Seq(Nat) /\ as \in Seq(Nat) /\ rs \in Seq(Nat)
        /\ a \o Append(s, x) = Append(as, x) /\ r \o Append(s, x) = Append(rs, x)
    BY <1>1, OneMore, ZenonT(60)
  <2>2. LinesIn(as) = la \o LinesIn(rs) /\ RestOf(as) = RestOf(rs)
    BY <1>4
  <2>3. LinesIn(rs) \in Seq(Seq(Nat)) /\ RestOf(rs) \in Seq(Nat)
    BY <2>1, LinesAreText
  <2> HIDE DEF as, rs
  <2>4. CASE x = End
    <3>1. /\ LinesIn(Append(as, x)) = Append(LinesIn(as), RestOf(as)) /\ RestOf(Append(as, x)) = <<>>
          /\ LinesIn(Append(rs, x)) = Append(LinesIn(rs), RestOf(rs)) /\ RestOf(Append(rs, x)) = <<>>
      BY <2>1, <2>4, LineEnds
    <3> DEFINE l == LinesIn(rs) q == RestOf(rs)
    <3> HIDE DEF l, q
    <3>2. l \in Seq(Seq(Nat)) /\ q \in Seq(Nat)
      BY <2>3 DEF l, q
    <3>3. Append(la \o l, q) = la \o Append(l, q)
      BY <1>1, <3>2, OneLineMore
    <3>4. QED
      BY <2>1, <2>2, <3>1, <3>3 DEF l, q
  <2>5. CASE x # End
    <3>1. /\ LinesIn(Append(as, x)) = LinesIn(as) /\ RestOf(Append(as, x)) = Append(RestOf(as), x)
          /\ LinesIn(Append(rs, x)) = LinesIn(rs) /\ RestOf(Append(rs, x)) = Append(RestOf(rs), x)
      BY <2>1, <2>5, TextGoesOn
    <3>2. QED
      BY <2>1, <2>2, <3>1
  <2>6. QED
    BY <2>4, <2>5
<1>5. Seq(Nat) \subseteq T
  <2> HIDE DEF T
  <2>1. QED
    BY <1>3, <1>4, SeqSet
<1>6. QED
  BY <1>5

-----------------------------------------------------------------------------
(* What was told of a channel, after lines of one channel were told.       *)
Tolds == Channels \X Seq(Nat)
ToldIn(t, c) ==
  LET those == Picked(t, {i \in DOMAIN t : t[i][1] = c}) IN [i \in DOMAIN those |-> those[i][2]]

(* What was told of a channel is a list of lines.                          *)
LEMMA ToldOfOne ==
  ASSUME NEW t \in Seq(Tolds), NEW c \in Channels
  PROVE  /\ Picked(t, {i \in DOMAIN t : t[i][1] = c}) \in Seq(Tolds)
         /\ ToldIn(t, c) \in Seq(Seq(Nat))
         /\ Len(ToldIn(t, c)) = Len(Picked(t, {i \in DOMAIN t : t[i][1] = c}))
<1> DEFINE I == {i \in DOMAIN t : t[i][1] = c} p == Picked(t, I)
<1>1. I \in SUBSET (1..Len(t))
  OBVIOUS
<1> HIDE DEF I
<1>2. p \in Seq(Tolds)
  BY <1>1, PickedFacts
<1>3. ToldIn(t, c) = [i \in DOMAIN p |-> p[i][2]]
  BY DEF ToldIn, I
<1> HIDE DEF p
<1>4. p \in [1..Len(p) -> Tolds] /\ Len(p) \in Nat /\ DOMAIN p = 1..Len(p)
  BY <1>2, SeqIs
<1> DEFINE w == [i \in 1..Len(p) |-> p[i][2]]
<1>5. w \in [1..Len(p) -> Seq(Nat)]
  BY <1>4 DEF Tolds
<1>6. w \in Seq(Seq(Nat)) /\ Len(w) = Len(p)
  <2> HIDE DEF w
  <2>1. QED
    BY <1>4, <1>5, IsSeq
<1>7. ToldIn(t, c) = w
  BY <1>3, <1>4
<1>8. QED
  BY <1>2, <1>6, <1>7 DEF p, I

(* Lines as they are told of a channel.                                    *)
Marked(more, c, lines) ==
  Len(more) = Len(lines) /\ \A i \in 1..Len(lines) : more[i] = <<c, lines[i]>>

(* More lines of one channel come behind what was told of it.              *)
LEMMA ToldMore ==
  ASSUME NEW t \in Seq(Tolds), NEW lines \in Seq(Seq(Nat)), NEW c \in Channels,
         NEW more \in Seq(Tolds), Marked(more, c, lines),
         NEW u, Joins(u, t, more)
  PROVE  /\ u \in Seq(Tolds)
         /\ Joins(ToldIn(u, c), ToldIn(t, c), lines)
         /\ \A d \in Channels : d # c => ToldIn(u, d) = ToldIn(t, d)
<1> DEFINE At(d) == {i \in DOMAIN t : t[i][1] = d}
<1>1. DOMAIN t = 1..Len(t) /\ Len(more) = Len(lines)
  BY DEF Marked
<1>2. /\ u \in Seq(Tolds) /\ DOMAIN u = 1..(Len(t) + Len(lines)) /\ Len(u) = Len(t) + Len(lines)
      /\ Len(t) \in Nat /\ Len(lines) \in Nat
      /\ \A k \in 1..Len(t) : u[k] = t[k]
      /\ \A k \in 1..Len(lines) : u[Len(t) + k] = more[k]
      /\ \A k \in 1..Len(u) :
           k \in 1..Len(t) \/ (k - Len(t) \in 1..Len(lines) /\ Len(t) + (k - Len(t)) = k)
  <2>1. /\ u \in Seq(Tolds) /\ DOMAIN u = 1..(Len(t) + Len(more)) /\ Len(u) = Len(t) + Len(more)
        /\ Len(t) \in Nat /\ Len(more) \in Nat
        /\ \A k \in 1..Len(t) : u[k] = t[k]
        /\ \A k \in 1..Len(more) : u[Len(t) + k] = more[k]
        /\ \A k \in 1..Len(u) :
             k \in 1..Len(t) \/ (k - Len(t) \in 1..Len(more) /\ Len(t) + (k - Len(t)) = k)
    BY JoinIs
  <2>2. QED
    BY <1>1, <2>1
<1>9. \A k \in 1..Len(lines) : more[k][1] = c /\ more[k][2] = lines[k]
  BY DEF Marked
<1>3. \A k \in 1..Len(lines) : u[Len(t) + k][1] = c /\ u[Len(t) + k][2] = lines[k]
  BY <1>2, <1>9, ZenonT(60)
<1>4. ASSUME NEW k \in 1..Len(u), k \notin 1..Len(t) PROVE u[k][1] = c
  <2>1. k - Len(t) \in 1..Len(lines) /\ Len(t) + (k - Len(t)) = k
    BY <1>2, <1>4
  <2>2. u[Len(t) + (k - Len(t))][1] = c
    BY <1>3, <2>1
  <2>3. QED
    BY <2>1, <2>2
<1>5. \A k \in 1..Len(t) : k \in 1..Len(u)
  BY <1>2
<1>6. ASSUME NEW d \in Channels, d # c PROVE ToldIn(u, d) = ToldIn(t, d)
  <2> DEFINE I == At(d)
  <2>1. I \in SUBSET (1..Len(t))
    BY <1>1
  <2>2. {i \in DOMAIN u : u[i][1] = d} = I
    BY <1>1, <1>2, <1>4, <1>5, <1>6
  <2> HIDE DEF I
  <2>3. Picked(u, I) = Picked(t, I)
    BY <2>1, PickedNot
  <2>4. QED
    BY <2>2, <2>3 DEF ToldIn, I
<1>7. Joins(ToldIn(u, c), ToldIn(t, c), lines)
  <2> DEFINE I == At(c) K == Joined(I, 1..Len(more), Len(t))
  <2>1. I \in SUBSET (1..Len(t))
    BY <1>1
  <2>2. {i \in DOMAIN u : u[i][1] = c} = K
    <3>1. ASSUME NEW k \in DOMAIN u, u[k][1] = c PROVE k \in K
      <4>1. CASE k \in 1..Len(t)
        BY <4>1, <3>1, <1>1, <1>2 DEF Joined
      <4>2. CASE k \notin 1..Len(t)
        <5>1. k \in 1..Len(u)
          BY <1>2
        <5>2. k - Len(t) \in 1..Len(more) /\ Len(t) + (k - Len(t)) = k
          BY <4>2, <5>1, <1>1, <1>2
        <5>3. QED
          BY <5>2 DEF Joined
      <4>3. QED
        BY <4>1, <4>2
    <3>2. ASSUME NEW k \in I PROVE k \in DOMAIN u /\ u[k][1] = c
      BY <1>1, <1>2, <1>5
    <3>3. ASSUME NEW k \in 1..Len(lines) PROVE Len(t) + k \in DOMAIN u /\ u[Len(t) + k][1] = c
      BY <1>2, <1>3
    <3>4. K = I \cup {Len(t) + j : j \in 1..Len(lines)}
      BY <1>1 DEF Joined
    <3>5. QED
      BY <3>1, <3>2, <3>3, <3>4
  <2>3. /\ Picked(t, I) \in Seq(Tolds) /\ ToldIn(t, c) \in Seq(Seq(Nat))
        /\ Len(ToldIn(t, c)) = Len(Picked(t, I))
    BY ToldOfOne
  <2>4. /\ Picked(u, K) \in Seq(Tolds) /\ ToldIn(u, c) \in Seq(Seq(Nat))
        /\ Len(ToldIn(u, c)) = Len(Picked(u, K))
    BY <1>2, <2>2, ToldOfOne
  <2> DEFINE p == Picked(t, I) q == Picked(u, K) a == ToldIn(t, c) b == ToldIn(u, c)
  <2>5. a = [i \in DOMAIN p |-> p[i][2]] /\ b = [i \in DOMAIN q |-> q[i][2]]
    BY <2>2 DEF ToldIn
  <2> HIDE DEF I, K
  <2>6. Joins(q, p, more)
    BY <2>1, PickedToo DEF K
  <2> HIDE DEF p, q, a, b
  <2>7. p \in Seq(Tolds) /\ q \in Seq(Tolds) /\ a \in Seq(Seq(Nat)) /\ b \in Seq(Seq(Nat))
        /\ Len(a) = Len(p) /\ Len(b) = Len(q)
    BY <2>3, <2>4 DEF p, q, a, b
  <2>8. /\ Len(q) = Len(p) + Len(more) /\ DOMAIN p = 1..Len(p) /\ DOMAIN q = 1..Len(q)
        /\ Len(p) \in Nat
        /\ \A k \in 1..Len(p) : q[k] = p[k]
        /\ \A k \in 1..Len(more) : q[Len(p) + k] = more[k]
    <3>1. /\ Len(q) = Len(p) + Len(more) /\ Len(p) \in Nat
          /\ \A k \in 1..Len(p) : q[k] = p[k]
          /\ \A k \in 1..Len(more) : q[Len(p) + k] = more[k]
      <4>1. p \in Seq(Tolds)
        BY <2>7
      <4>2. QED
        BY <2>6, <4>1, JoinIs
    <3>2. DOMAIN p = 1..Len(p) /\ DOMAIN q = 1..Len(q)
      BY <2>7, SeqIs
    <3>3. QED
      BY <3>1, <3>2
  <2>9. \A k \in 1..Len(a) : b[k] = a[k]
    <3>1. \A k \in 1..Len(p) : k \in 1..Len(q)
      BY <1>1, <1>2, <2>8
    <3>2. QED
      BY <2>5, <2>7, <2>8, <3>1
  <2>10. \A k \in 1..Len(lines) : b[Len(a) + k] = lines[k]
    <3>1. ASSUME NEW k \in 1..Len(lines) PROVE Len(p) + k \in DOMAIN q /\ q[Len(p) + k] = more[k]
      BY <1>1, <1>2, <2>8
    <3>2. ASSUME NEW k \in 1..Len(lines) PROVE b[Len(p) + k] = lines[k]
      BY <1>9, <2>5, <3>1
    <3>3. QED
      BY <2>7, <3>2
  <2>11. Len(b) = Len(a) + Len(lines)
    BY <1>1, <2>7, <2>8
  <2>12. Joins(b, a, lines)
    BY <2>7, <2>9, <2>10, <2>11, IsJoin
  <2>13. QED
    BY <2>12 DEF a, b
<1>8. QED
  BY <1>2, <1>6, <1>7

(* A flush keeps the channels right: r is what has been read of each.      *)
Fine(s, r) ==
  /\ s.remainder \in [Channels -> Seq(Nat)] /\ s.told \in Seq(Tolds)
  /\ \A c \in Channels : s.remainder[c] = RestOf(r[c]) /\ ToldIn(s.told, c) = LinesIn(r[c])

(* A flush reads on.                                                       *)
LEMMA FlushKeeps ==
  ASSUME NEW s, NEW r \in [Channels -> Seq(Nat)], Fine(s, r), NEW c \in Channels,
         NEW chunk \in Seq(Nat)
  PROVE  Fine(Flushed(s, c, chunk), [r EXCEPT ![c] = @ \o chunk])
<1> DEFINE text == s.remainder[c] \o chunk
           lines == LinesIn(text)
           more == [i \in DOMAIN lines |-> <<c, lines[i]>>]
           f == Flushed(s, c, chunk)
           now == r[c] \o chunk
           u == s.told \o more
<1>1. text \in Seq(Nat) /\ s.told \in Seq(Tolds) /\ s.remainder \in [Channels -> Seq(Nat)]
      /\ r[c] \in Seq(Nat) /\ now \in Seq(Nat) /\ s.remainder[c] = RestOf(r[c])
  <2>1. s.remainder[c] \in Seq(Nat) /\ r[c] \in Seq(Nat)
    BY DEF Fine
  <2>2. text \in Seq(Nat) /\ now \in Seq(Nat)
    BY <2>1
  <2>3. QED
    BY <2>1, <2>2 DEF Fine
<1>2. f.remainder = [s.remainder EXCEPT ![c] = RestOf(text)] /\ f.told = u
  BY DEF Flushed
<1>3. LinesIn(now) = LinesIn(r[c]) \o lines /\ RestOf(now) = RestOf(text)
  BY <1>1, PieceByPiece
<1> HIDE DEF text, f, now
<1>4. lines \in Seq(Seq(Nat)) /\ RestOf(text) \in Seq(Nat)
  BY <1>1, LinesAreText
<1> HIDE DEF lines
<1>5. more \in Seq(Tolds) /\ Marked(more, c, lines)
  <2>1. lines \in [1..Len(lines) -> Seq(Nat)] /\ Len(lines) \in Nat /\ DOMAIN lines = 1..Len(lines)
    BY <1>4, SeqIs
  <2>2. more \in [1..Len(lines) -> Tolds] /\ \A i \in 1..Len(lines) : more[i] = <<c, lines[i]>>
    BY <2>1 DEF Tolds
  <2> HIDE DEF more
  <2>3. QED
    BY <2>1, <2>2, IsSeq DEF Marked
<1>6. Joins(u, s.told, more)
  BY DEF Joins
<1> HIDE DEF more, u
<1> DEFINE t == s.told
<1>7. t \in Seq(Tolds) /\ Joins(u, t, more)
  BY <1>1, <1>6
<1> HIDE DEF t
<1>8. /\ u \in Seq(Tolds) /\ Joins(ToldIn(u, c), ToldIn(t, c), lines)
      /\ \A d \in Channels : d # c => ToldIn(u, d) = ToldIn(t, d)
  BY <1>4, <1>5, <1>7, ToldMore
<1>9. ToldIn(t, c) = LinesIn(r[c])
  BY DEF Fine, t
<1>10. ToldIn(u, c) = LinesIn(now)
  BY <1>3, <1>8, <1>9, Zenon DEF Joins
<1> DEFINE q == [r EXCEPT ![c] = now]
<1>11. ASSUME NEW d \in Channels
       PROVE  f.remainder[d] = RestOf(q[d]) /\ ToldIn(f.told, d) = LinesIn(q[d])
  <2>1. CASE d = c
    BY <2>1, <1>1, <1>2, <1>3, <1>10
  <2>2. CASE d # c
    BY <2>2, <1>1, <1>2, <1>8 DEF Fine, t
  <2>3. QED
    BY <2>1, <2>2
<1>12. f.remainder \in [Channels -> Seq(Nat)] /\ f.told \in Seq(Tolds)
  BY <1>1, <1>2, <1>4, <1>8
<1>13. Fine(f, q)
  BY <1>11, <1>12 DEF Fine
<1>14. QED
  BY <1>13 DEF f, now

-----------------------------------------------------------------------------
(* r is what has been read of each channel, and the pipe holds the rest.   *)
HasRead(r) == \A c \in Channels : Joins(printed[c], r[c], pipe[c])
SoFar == [remainder |-> remainder, told |-> told]
OutputIInv ==
  /\ printed \in [Channels -> Seq(Nat)] /\ pipe \in [Channels -> Seq(Nat)]
  /\ life \in {"up", "over", "reaped"}
  /\ life = "reaped" => \A c \in Channels : pipe[c] = <<>>
  /\ \E r \in [Channels -> Seq(Nat)] : Fine(SoFar, r) /\ HasRead(r)

(* Nothing has been read at first.                                         *)
LEMMA OutputStarts == OutputInit => OutputIInv
<1> SUFFICES ASSUME OutputInit PROVE OutputIInv
  OBVIOUS
<1> DEFINE r == [c \in Channels |-> <<>>]
<1>1. printed = r /\ pipe = r /\ remainder = r /\ told = <<>> /\ life = "up"
  BY DEF OutputInit
<1>2. r \in [Channels -> Seq(Nat)] /\ \A c \in Channels : r[c] = <<>>
  OBVIOUS
<1>3. told \in Seq(Tolds) /\ \A c \in Channels : ToldIn(told, c) = <<>>
  <2>1. told \in Seq(Tolds) /\ DOMAIN told = {}
    BY <1>1
  <2>2. ASSUME NEW c \in Channels PROVE ToldIn(told, c) = <<>>
    <3> DEFINE I == {i \in DOMAIN told : told[i][1] = c} those == Picked(told, I)
    <3>1. I = {}
      BY <2>1
    <3> HIDE DEF I
    <3>2. those = <<>>
      BY <3>1, PickedNone
    <3>3. ToldIn(told, c) = [i \in DOMAIN those |-> those[i][2]]
      BY DEF ToldIn, I
    <3> HIDE DEF those
    <3>4. QED
      BY <3>2, <3>3
  <2>3. QED
    BY <2>1, <2>2
<1> HIDE DEF r
<1>4. Fine(SoFar, r)
  BY <1>1, <1>2, <1>3, NoText DEF Fine, SoFar
<1>5. HasRead(r)
  <2>1. <<>> = <<>> \o <<>>
    OBVIOUS
  <2>2. QED
    BY <1>1, <1>2, <2>1, Zenon DEF HasRead, Joins
<1>6. QED
  BY <1>1, <1>2, <1>4, <1>5 DEF OutputIInv

(* What is printed goes into the pipe.                                     *)
LEMMA PrintingKeeps ==
  ASSUME OutputIInv, NEW c \in Channels, ProgramPrints(c)
  PROVE  OutputIInv'
<1>1. PICK what \in {End, Total + 1} :
        /\ printed' = [printed EXCEPT ![c] = Append(@, what)]
        /\ pipe' = [pipe EXCEPT ![c] = Append(@, what)]
  BY DEF ProgramPrints
<1>2. remainder' = remainder /\ told' = told /\ life' = life /\ life = "up"
  BY DEF ProgramPrints
<1>3. what \in Nat
  <2>1. "stdout" \in Channels /\ "stderr" \in Channels
    BY DEF Channels
  <2>2. Len(printed["stdout"]) \in Nat /\ Len(printed["stderr"]) \in Nat
    BY <2>1 DEF OutputIInv
  <2> DEFINE a == Len(printed["stdout"]) b == Len(printed["stderr"])
  <2>5. Total = a + b
    BY DEF Total
  <2>3. Total \in Nat
    <3> HIDE DEF a, b
    <3>1. a \in Nat /\ b \in Nat
      BY <2>2 DEF a, b
    <3>2. QED
      BY <2>5, <3>1
  <2>4. QED
    BY <1>1, <2>3 DEF End
<1>4. PICK r \in [Channels -> Seq(Nat)] : Fine(SoFar, r) /\ HasRead(r)
  BY DEF OutputIInv
<1>5. printed \in [Channels -> Seq(Nat)] /\ pipe \in [Channels -> Seq(Nat)]
  BY DEF OutputIInv
<1>6. printed' \in [Channels -> Seq(Nat)] /\ pipe' \in [Channels -> Seq(Nat)]
  BY <1>1, <1>3, <1>5
<1>7. ASSUME NEW d \in Channels PROVE Joins(printed'[d], r[d], pipe'[d])
  <2>1. CASE d = c
    <3> DEFINE a == r[c] b == pipe[c]
    <3>1. a \in Seq(Nat) /\ b \in Seq(Nat) /\ printed[c] = a \o b
      BY <1>4, <1>5 DEF HasRead, Joins
    <3>2. printed'[c] = Append(printed[c], what) /\ pipe'[c] = Append(b, what)
      BY <1>1, <1>5
    <3> HIDE DEF a, b
    <3>3. a \o Append(b, what) = Append(a \o b, what)
      BY <1>3, <3>1, OneMore
    <3>4. printed'[c] = a \o pipe'[c]
      BY <3>1, <3>2, <3>3
    <3>5. QED
      BY <2>1, <3>4, Zenon DEF Joins, a
  <2>2. CASE d # c
    <3>1. printed'[d] = printed[d] /\ pipe'[d] = pipe[d]
      BY <1>1, <1>5, <2>2
    <3>2. QED
      BY <3>1, <1>4 DEF HasRead
  <2>3. QED
    BY <2>1, <2>2
<1>8. HasRead(r)'
  BY <1>7 DEF HasRead
<1>9. Fine(SoFar, r)'
  BY <1>2, <1>4 DEF SoFar, Fine
<1>10. life' \in {"up", "over", "reaped"} /\ life' # "reaped"
  BY <1>2
<1>11. QED
  BY <1>6, <1>8, <1>9, <1>10 DEF OutputIInv

(* What is flushed is read out of the pipe.                                *)
LEMMA FlushingKeeps ==
  ASSUME OutputIInv, NEW c \in Channels, flushReady(c)
  PROVE  OutputIInv'
<1>1. PICK n \in 1..Len(pipe[c]) :
        /\ remainder' = Flushed(SoFar, c, SubSeq(pipe[c], 1, n)).remainder
        /\ told' = Flushed(SoFar, c, SubSeq(pipe[c], 1, n)).told
        /\ pipe' = [pipe EXCEPT ![c] = SubSeq(@, n + 1, Len(@))]
  BY DEF flushReady, SoFar
<1>2. printed' = printed /\ life' = life /\ life = "up"
  BY DEF flushReady
<1>3. PICK r \in [Channels -> Seq(Nat)] : Fine(SoFar, r) /\ HasRead(r)
  BY DEF OutputIInv
<1>4. printed \in [Channels -> Seq(Nat)] /\ pipe \in [Channels -> Seq(Nat)]
  BY DEF OutputIInv
<1> DEFINE p == pipe[c] chunk == SubSeq(p, 1, n) rest == SubSeq(p, n + 1, Len(p))
<1>5. p \in Seq(Nat) /\ n \in 0..Len(p)
  BY <1>4
<1> HIDE DEF p
<1>6. chunk \in Seq(Nat) /\ rest \in Seq(Nat) /\ p = chunk \o rest
  BY <1>5, SubSeqSplit
<1> HIDE DEF chunk, rest
<1> DEFINE q == [r EXCEPT ![c] = @ \o chunk] f == Flushed(SoFar, c, chunk)
<1>7. Fine(f, q)
  BY <1>3, <1>6, FlushKeeps
<1>8. q \in [Channels -> Seq(Nat)] /\ q[c] = r[c] \o chunk /\ \A d \in Channels : d # c => q[d] = r[d]
  BY <1>3, <1>6
<1>9. pipe' \in [Channels -> Seq(Nat)] /\ pipe'[c] = rest
      /\ \A d \in Channels : d # c => pipe'[d] = pipe[d]
  <2>1. pipe' = [pipe EXCEPT ![c] = rest]
    BY <1>1 DEF rest, p
  <2>2. QED
    BY <2>1, <1>4, <1>6
<1> HIDE DEF f, q
<1>10. Fine([remainder |-> remainder', told |-> told'], q)
  <2>1. f.remainder = remainder' /\ f.told = told'
    BY <1>1 DEF f, chunk, p
  <2>2. QED
    BY <1>7, <2>1 DEF Fine
<1>11. ASSUME NEW d \in Channels PROVE Joins(printed'[d], q[d], pipe'[d])
  <2>1. CASE d = c
    <3> DEFINE a == r[c]
    <3>1. a \in Seq(Nat) /\ printed[c] = a \o p
      BY <1>3 DEF HasRead, Joins, p
    <3> HIDE DEF a
    <3>2. (a \o chunk) \o rest = a \o (chunk \o rest)
      BY <1>6, <3>1, NatConcat
    <3>3. printed'[c] = (a \o chunk) \o rest
      BY <1>2, <1>6, <3>1, <3>2
    <3>4. QED
      BY <2>1, <1>8, <1>9, <3>3, Zenon DEF Joins, a
  <2>2. CASE d # c
    BY <2>2, <1>2, <1>3, <1>8, <1>9 DEF HasRead
  <2>3. QED
    BY <2>1, <2>2
<1>13. printed' \in [Channels -> Seq(Nat)] /\ life' \in {"up", "over", "reaped"} /\ life' # "reaped"
  BY <1>2, <1>4
<1>14. QED
  BY <1>8, <1>9, <1>10, <1>11, <1>13 DEF OutputIInv, SoFar, HasRead

(* Both pipes are read to their ends, one after the other.                 *)
LEMMA FinishingKeeps ==
  ASSUME OutputIInv, ProcessFinished
  PROVE  OutputIInv'
<1> DEFINE out == Flushed(SoFar, "stdout", pipe["stdout"])
           all == Flushed(out, "stderr", pipe["stderr"])
<1>1. remainder' = all.remainder /\ told' = all.told /\ printed' = printed /\ life' = "reaped"
      /\ pipe' = [c \in Channels |-> <<>>]
  BY DEF ProcessFinished, SoFar
<1>2. PICK r \in [Channels -> Seq(Nat)] : Fine(SoFar, r) /\ HasRead(r)
  BY DEF OutputIInv
<1>3. printed \in [Channels -> Seq(Nat)] /\ pipe \in [Channels -> Seq(Nat)]
  BY DEF OutputIInv
<1>4. "stdout" \in Channels /\ "stderr" \in Channels /\ "stdout" # "stderr"
      /\ \A c \in Channels : c \in {"stdout", "stderr"}
  BY DEF Channels
<1>5. pipe["stdout"] \in Seq(Nat) /\ pipe["stderr"] \in Seq(Nat)
  BY <1>3, <1>4
<1> DEFINE q == [r EXCEPT !["stdout"] = @ \o pipe["stdout"]]
           z == [q EXCEPT !["stderr"] = @ \o pipe["stderr"]]
<1>6. Fine(out, q)
  BY <1>2, <1>4, <1>5, FlushKeeps
<1>7. q \in [Channels -> Seq(Nat)] /\ q["stdout"] = r["stdout"] \o pipe["stdout"]
      /\ q["stderr"] = r["stderr"]
  BY <1>2, <1>4, <1>5
<1> HIDE DEF q, out
<1>8. Fine(all, z)
  BY <1>4, <1>5, <1>6, <1>7, FlushKeeps
<1>9. z \in [Channels -> Seq(Nat)] /\ z["stdout"] = r["stdout"] \o pipe["stdout"]
      /\ z["stderr"] = r["stderr"] \o pipe["stderr"]
  <2>1. q["stderr"] \o pipe["stderr"] \in Seq(Nat)
    <3>1. q["stderr"] \in Seq(Nat)
      BY <1>4, <1>7
    <3>2. QED
      BY <1>5, <3>1
  <2>2. z["stdout"] = q["stdout"] /\ z["stderr"] = q["stderr"] \o pipe["stderr"]
    BY <1>4, <1>7
  <2>3. z \in [Channels -> Seq(Nat)]
    BY <1>7, <2>1
  <2> HIDE DEF z
  <2>4. QED
    BY <1>7, <2>2, <2>3
<1> HIDE DEF z, all
<1>10. Fine([remainder |-> remainder', told |-> told'], z)
  BY <1>1, <1>8 DEF Fine
<1>11. ASSUME NEW c \in Channels PROVE Joins(printed'[c], z[c], pipe'[c])
  <2>1. z[c] = printed[c]
    BY <1>2, <1>4, <1>9 DEF HasRead, Joins
  <2>2. pipe'[c] = <<>> /\ printed[c] \in Seq(Nat)
    BY <1>1, <1>3
  <2> DEFINE a == printed[c]
  <2> HIDE DEF a
  <2>3. a \in Seq(Nat)
    BY <2>2 DEF a
  <2>4. a = a \o <<>>
    BY <2>3
  <2>5. QED
    BY <1>1, <2>1, <2>2, <2>4, Zenon DEF Joins, a
<1>13. pipe' \in [Channels -> Seq(Nat)] /\ (\A c \in Channels : pipe'[c] = <<>>)
       /\ printed' \in [Channels -> Seq(Nat)] /\ life' \in {"up", "over", "reaped"}
  BY <1>1, <1>3
<1>14. QED
  BY <1>9, <1>10, <1>11, <1>13 DEF OutputIInv, SoFar, HasRead

(* Every step keeps the invariant.                                         *)
LEMMA OutputStepKeeps == OutputIInv /\ [OutputNext]_outputVars => OutputIInv'
<1> SUFFICES ASSUME OutputIInv, [OutputNext]_outputVars PROVE OutputIInv'
  OBVIOUS
<1>1. ASSUME NEW c \in Channels, ProgramPrints(c) PROVE OutputIInv'
  BY <1>1, PrintingKeeps
<1>2. ASSUME NEW c \in Channels, flushReady(c) PROVE OutputIInv'
  BY <1>2, FlushingKeeps
<1>3. CASE ProcessEnds
  <2>1. life' = "over" /\ printed' = printed /\ pipe' = pipe /\ remainder' = remainder /\ told' = told
    BY <1>3 DEF ProcessEnds
  <2>2. QED
    BY <2>1 DEF OutputIInv, HasRead, SoFar
<1>4. CASE ProcessFinished
  BY <1>4, FinishingKeeps
<1>5. CASE UNCHANGED outputVars
  <2>1. life' = life /\ printed' = printed /\ pipe' = pipe /\ remainder' = remainder /\ told' = told
    BY <1>5 DEF outputVars
  <2>2. QED
    BY <2>1 DEF OutputIInv, HasRead, SoFar
<1>6. QED
  BY <1>1, <1>2, <1>3, <1>4, <1>5 DEF OutputNext

(* What was told, in the words of the invariant, is what the reader sees.  *)
LEMMA ReadIsWhole == OutputIInv => LinesAreWhole
<1> SUFFICES ASSUME OutputIInv, NEW c \in Channels
             PROVE  /\ IsPrefix(ToldOf(c), LinesIn(printed[c]))
                    /\ ToldOf(c) = LinesIn(SubSeq(printed[c], 1, Len(printed[c]) - Len(pipe[c])))
                    /\ life = "reaped" => ToldOf(c) = LinesIn(printed[c])
  BY DEF LinesAreWhole
<1>1. PICK r \in [Channels -> Seq(Nat)] : Fine(SoFar, r) /\ HasRead(r)
  BY DEF OutputIInv
<1> DEFINE a == r[c] b == pipe[c] p == printed[c]
<1>2. a \in Seq(Nat) /\ b \in Seq(Nat) /\ Joins(p, a, b)
  BY <1>1 DEF OutputIInv, HasRead
<1>3. ToldOf(c) = LinesIn(a)
  BY <1>1 DEF Fine, SoFar, ToldOf, ToldIn
<1>4. life = "reaped" => b = <<>>
  BY DEF OutputIInv
<1> HIDE DEF a, b, p
<1>5. p = a \o b /\ Len(p) = Len(a) + Len(b) /\ Len(a) \in Nat /\ Len(b) \in Nat
  <2>1. p = a \o b
    BY <1>2 DEF Joins
  <2>2. QED
    BY <1>2, <2>1, JoinIs
<1>6. SubSeq(p, 1, Len(p) - Len(b)) = a
  <2>1. Len(p) - Len(b) = Len(a)
    BY <1>5
  <2>2. SubSeq(a \o b, 1, Len(a)) = a
    BY <1>2, NatConcat
  <2>3. QED
    BY <1>5, <2>1, <2>2
<1> DEFINE l == LinesIn(a) m == LinesIn(RestOf(a) \o b)
<1>7. LinesIn(p) = l \o m
  BY <1>2, <1>5, PieceByPiece
<1>8. l \in Seq(Seq(Nat)) /\ m \in Seq(Seq(Nat))
  <2>1. RestOf(a) \in Seq(Nat)
    BY <1>2, LinesAreText
  <2>2. RestOf(a) \o b \in Seq(Nat)
    BY <1>2, <2>1
  <2> HIDE DEF l, m
  <2>3. QED
    BY <1>2, <2>2, LinesAreText DEF l, m
<1> HIDE DEF l, m
<1>9. IsPrefix(l, l \o m)
  <2>1. Len(l) <= Len(l \o m) /\ SubSeq(l, 1, Len(l)) = l /\ SubSeq(l \o m, 1, Len(l)) = l
    BY <1>8, LineConcat
  <2>2. QED
    BY <2>1 DEF IsPrefix
<1>10. life = "reaped" => p = a
  <2>1. a \o <<>> = a
    BY <1>2
  <2>2. QED
    BY <1>4, <1>5, <2>1
<1>11. QED
  BY <1>3, <1>6, <1>7, <1>9, <1>10 DEF l, p, b

(* Whatever the program prints and in whatever pieces it is read, the      *)
(* lines that are told are whole, complete and in order (flushReady and    *)
(* the finished handler).                                                  *)
THEOREM LinesStayWhole == OutputSpec => []LinesAreWhole
<1>1. OutputInit => OutputIInv
  BY OutputStarts
<1>2. OutputIInv /\ [OutputNext]_outputVars => OutputIInv'
  BY OutputStepKeeps
<1>3. OutputIInv => LinesAreWhole
  BY ReadIsWhole
<1>4. QED
  BY <1>1, <1>2, <1>3, PTL DEF OutputSpec

-----------------------------------------------------------------------------
(* The last place of a command in a list of runs.                          *)
LastIn(s, k) == Max({i \in DOMAIN s : s[i] = k})

(* Numbers that are bounded have a greatest one.                           *)
LEMMA GreatestNat ==
  ASSUME NEW n \in Nat, NEW S \in SUBSET (1..n), S # {}
  PROVE  \E x \in S : \A y \in S : y <= x
<1> DEFINE B == {b \in Nat : \A y \in S : y <= b}
<1>1. n \in B /\ B \in SUBSET Nat
  OBVIOUS
<1>2. PICK x \in B : \A b \in B : x <= b
  <2> HIDE DEF B
  <2>1. QED
    BY <1>1, LeastNat
<1>3. \A y \in S : y <= x /\ y \in Nat /\ y >= 1
  OBVIOUS
<1>4. ASSUME x \notin S PROVE FALSE
  <2>0. PICK z \in S : TRUE
    OBVIOUS
  <2>1. x \in Nat /\ x # 0
    BY <1>3, <2>0
  <2>2. x - 1 \in Nat /\ \A y \in S : y <= x - 1
    BY <1>3, <1>4, <2>1
  <2>3. x - 1 \in B
    BY <2>2
  <2>4. QED
    BY <1>2, <2>1, <2>3
<1>5. QED
  BY <1>3, <1>4

(* The last place of a command is one of its places, and no later one is.  *)
LEMMA LastInIs ==
  ASSUME NEW s \in Seq(RecentKeys), NEW m \in 1..Len(s),
         \A i \in 1..Len(s) : s[i] = s[m] => i <= m
  PROVE  LastIn(s, s[m]) = m
<1> DEFINE S == {i \in DOMAIN s : s[i] = s[m]}
<1>1. m \in S /\ \A y \in S : m >= y
  OBVIOUS
<1>2. \A x \in S : (\A y \in S : x >= y) => x = m
  BY <1>1
<1> HIDE DEF S
<1>3. Max(S) = m
  BY <1>1, <1>2 DEF Max
<1>4. QED
  BY <1>3 DEF LastIn, S

(* Every command of a list of runs has a last place in it.                 *)
LEMMA LastInFacts ==
  ASSUME NEW s \in Seq(RecentKeys), NEW k \in ToSet(s)
  PROVE  /\ LastIn(s, k) \in 1..Len(s) /\ s[LastIn(s, k)] = k /\ Len(s) \in Nat
         /\ \A i \in 1..Len(s) : s[i] = k => i <= LastIn(s, k)
<1> DEFINE S == {i \in DOMAIN s : s[i] = k}
<1>1. S \in SUBSET (1..Len(s)) /\ Len(s) \in Nat /\ DOMAIN s = 1..Len(s)
  OBVIOUS
<1>2. S # {}
  BY DEF ToSet
<1>5. S = {i \in 1..Len(s) : s[i] = k}
  BY <1>1
<1> HIDE DEF S
<1>3. PICK m \in S : \A y \in S : y <= m
  BY <1>1, <1>2, GreatestNat
<1>4. m \in 1..Len(s) /\ s[m] = k /\ \A i \in 1..Len(s) : s[i] = k => i <= m
  BY <1>3, <1>5
<1>6. LastIn(s, k) = m
  BY <1>4, LastInIs
<1>7. QED
  BY <1>1, <1>4, <1>6

(* A run that is added is the last one of its command.                     *)
LEMMA LastInAppend ==
  ASSUME NEW s \in Seq(RecentKeys), NEW k \in RecentKeys
  PROVE  /\ LastIn(Append(s, k), k) = Len(s) + 1
         /\ \A q \in ToSet(s) : q # k => LastIn(Append(s, k), q) = LastIn(s, q)
         /\ ToSet(Append(s, k)) = ToSet(s) \cup {k}
<1> DEFINE u == Append(s, k)
<1>1. u \in Seq(RecentKeys) /\ Len(u) = Len(s) + 1 /\ Len(s) \in Nat /\ u[Len(s) + 1] = k
      /\ DOMAIN s = 1..Len(s) /\ DOMAIN u = 1..(Len(s) + 1)
      /\ \A i \in 1..Len(s) : u[i] = s[i]
  OBVIOUS
<1> HIDE DEF u
<1>2. LastIn(u, k) = Len(s) + 1
  <2>1. Len(s) + 1 \in 1..Len(u) /\ \A i \in 1..Len(u) : i <= Len(s) + 1
    BY <1>1
  <2> DEFINE m == Len(s) + 1
  <2>2. m \in 1..Len(u) /\ (\A i \in 1..Len(u) : u[i] = u[m] => i <= m) /\ u[m] = k
    BY <1>1, <2>1
  <2> HIDE DEF m
  <2>3. LastIn(u, u[m]) = m
    BY <1>1, <2>2, LastInIs
  <2>4. QED
    BY <2>2, <2>3 DEF m
<1>3. ASSUME NEW q \in ToSet(s), q # k PROVE LastIn(u, q) = LastIn(s, q)
  <2> DEFINE m == LastIn(s, q)
  <2>1. m \in 1..Len(s) /\ s[m] = q /\ \A i \in 1..Len(s) : s[i] = q => i <= m
    BY LastInFacts
  <2> HIDE DEF m
  <2>2. m \in 1..Len(u) /\ u[m] = q
    BY <1>1, <2>1
  <2>3. ASSUME NEW i \in 1..Len(u), u[i] = q PROVE i <= m
    <3>1. i # Len(s) + 1
      BY <1>1, <1>3, <2>3
    <3>2. i \in 1..Len(s)
      BY <1>1, <3>1
    <3>3. QED
      BY <1>1, <2>1, <2>3, <3>2
  <2>4. LastIn(u, u[m]) = m
    BY <1>1, <2>2, <2>3, LastInIs
  <2>5. QED
    BY <2>2, <2>4 DEF m
<1>4. ToSet(u) = ToSet(s) \cup {k}
  <2>1. \A i \in 1..(Len(s) + 1) : i \in 1..Len(s) \/ i = Len(s) + 1
    BY <1>1
  <2>2. \A i \in 1..Len(s) : i \in 1..(Len(s) + 1)
    BY <1>1
  <2>3. Len(s) + 1 \in 1..(Len(s) + 1)
    BY <1>1
  <2>4. QED
    BY <1>1, <2>1, <2>2, <2>3 DEF ToSet
<1>5. QED
  BY <1>2, <1>3, <1>4 DEF u

-----------------------------------------------------------------------------
(* r lists the last commands of the runs s.                                *)
Listed(q, r) == \E i \in 1..Len(r) : r[i] = q
Descends(r, s) == \A i, j \in 1..Len(r) : i < j => LastIn(s, r[i]) > LastIn(s, r[j])
Fits(r, s) ==
  /\ r \in Seq(RecentKeys) /\ s \in Seq(RecentKeys) /\ Len(r) <= RecentCap
  /\ \A i \in 1..Len(r) : r[i] \in ToSet(s)
  /\ Descends(r, s)
  /\ \A q \in ToSet(s) :
       Listed(q, r) \/ (Len(r) = RecentCap /\ \A i \in 1..Len(r) : LastIn(s, r[i]) > LastIn(s, q))

(* Taking an element from a list leaves it one shorter.                    *)
LEMMA OneLess ==
  ASSUME NEW n \in Nat, NEW j \in 1..n
  PROVE  IsFiniteSet(1..n) /\ Cardinality((1..n) \ {j}) = n - 1
<1>1. IsFiniteSet(1..n) /\ Cardinality(1..n) = n
  BY FS_Interval
<1>2. QED
  BY <1>1, FS_RemoveElement

(* The list without a command keeps its order and all the others.          *)
LEMMA WithoutFacts ==
  ASSUME NEW r \in Seq(RecentKeys), NEW s, Descends(r, s), NEW k,
         \A i \in 1..Len(r) : LastIn(s, r[i]) \in Nat
  PROVE  /\ Without(k, r) \in Seq(RecentKeys) /\ Len(Without(k, r)) \in Nat
         /\ Descends(Without(k, r), s)
         /\ \A i \in 1..Len(Without(k, r)) : Without(k, r)[i] # k /\ Listed(Without(k, r)[i], r)
         /\ \A q : Listed(q, r) /\ q # k => Listed(q, Without(k, r))
         /\ Len(Without(k, r)) = IF Listed(k, r) THEN Len(r) - 1 ELSE Len(r)
<1> DEFINE I == {i \in DOMAIN r : r[i] # k} w == Without(k, r) at == InOrder(I)
<1>1. I \in SUBSET (1..Len(r)) /\ Len(r) \in Nat /\ DOMAIN r = 1..Len(r)
  OBVIOUS
<1>0. \A i \in 1..Len(r) : r[i] # k <=> i \in I
  BY <1>1
<1>00. I = {i \in 1..Len(r) : r[i] # k}
  BY <1>1
<1>01. Without(k, r) = Picked(r, I)
  BY DEF Without
<1> HIDE DEF I
<1>2. at \in [1..Len(at) -> I] /\ Len(at) \in Nat /\ DOMAIN at = 1..Len(at)
      /\ Len(at) = Cardinality(I) /\ Increasing(at) /\ {at[i] : i \in DOMAIN at} = I
  BY <1>1, InOrderList
<1>3. w \in Seq(RecentKeys) /\ Len(w) = Cardinality(I)
  BY <1>1, <1>01, PickedFacts
<1>4. w = [i \in 1..Len(at) |-> r[at[i]]]
  BY <1>2, <1>01 DEF Picked
<1> HIDE DEF at, w
<1>5. \A i \in 1..Len(w) : w[i] = r[at[i]] /\ at[i] \in 1..Len(r) /\ r[at[i]] # k
  BY <1>0, <1>1, <1>2, <1>3, <1>4
<1>6. Descends(w, s)
  <2> SUFFICES ASSUME NEW i \in 1..Len(w), NEW j \in 1..Len(w), i < j
               PROVE  LastIn(s, w[i]) > LastIn(s, w[j])
    BY DEF Descends
  <2>1. at[i] < at[j]
    BY <1>2, <1>3 DEF Increasing
  <2>2. LastIn(s, r[at[i]]) > LastIn(s, r[at[j]])
    BY <2>1, <1>5 DEF Descends
  <2>3. QED
    BY <2>2, <1>5
<1>7. ASSUME NEW q, Listed(q, r), q # k PROVE Listed(q, w)
  <2>1. PICK i \in 1..Len(r) : r[i] = q
    BY <1>7 DEF Listed
  <2>2. i \in I
    BY <1>0, <1>7, <2>1
  <2>3. PICK a \in 1..Len(at) : at[a] = i
    BY <1>2, <2>2
  <2>4. a \in 1..Len(w)
    BY <1>2, <1>3
  <2>5. w[a] = q
    BY <1>5, <2>1, <2>3, <2>4
  <2>6. QED
    BY <2>4, <2>5 DEF Listed
<1>8. Len(w) = IF Listed(k, r) THEN Len(r) - 1 ELSE Len(r)
  <2>1. CASE Listed(k, r)
    <3>1. PICK j \in 1..Len(r) : r[j] = k
      BY <2>1 DEF Listed
    <3>2. ASSUME NEW i \in 1..Len(r), r[i] = k PROVE i = j
      <4>1. LastIn(s, r[i]) = LastIn(s, r[j]) /\ LastIn(s, r[i]) \in Nat
        BY <3>1, <3>2
      <4>2. ~(i < j) /\ ~(j < i)
        BY <4>1 DEF Descends
      <4>3. QED
        BY <4>2, <1>1
    <3>3. I = (1..Len(r)) \ {j}
      BY <1>00, <3>1, <3>2
    <3>4. QED
      BY <1>1, <1>3, <2>1, <3>3, OneLess
  <2>2. CASE ~Listed(k, r)
    <3>1. I = 1..Len(r)
      BY <1>00, <2>2 DEF Listed
    <3>2. Cardinality(1..Len(r)) = Len(r)
      BY <1>1, FS_Interval, SMTT(30)
    <3>3. QED
      BY <1>3, <2>2, <3>1, <3>2
  <2>3. QED
    BY <2>1, <2>2
<1>9. \A i \in 1..Len(w) : w[i] # k /\ Listed(w[i], r)
  BY <1>5 DEF Listed
<1>10. Len(w) \in Nat
  BY <1>3, SeqIs
<1>11. QED
  BY <1>3, <1>6, <1>7, <1>8, <1>9, <1>10 DEF w

(* What is cut off the end is what was run longest ago.                    *)
LEMMA RecordFits ==
  ASSUME NEW r, NEW s, Fits(r, s), NEW k \in RecentKeys
  PROVE  Fits(Kept(<<k>> \o Without(k, r)), Append(s, k))
<1> DEFINE w == Without(k, r) u == <<k>> \o w v == Kept(u) t == Append(s, k)
<1>1. r \in Seq(RecentKeys) /\ s \in Seq(RecentKeys) /\ Len(r) <= RecentCap /\ Len(r) \in Nat
      /\ Len(s) \in Nat /\ Descends(r, s) /\ RecentCap \in Nat /\ RecentCap >= 1
  BY RecentAssumption DEF Fits
<1>2. \A i \in 1..Len(r) : r[i] \in ToSet(s) /\ LastIn(s, r[i]) \in Nat
  BY <1>1, LastInFacts DEF Fits
<1>3. /\ w \in Seq(RecentKeys) /\ Len(w) \in Nat /\ Descends(w, s)
      /\ \A i \in 1..Len(w) : w[i] # k /\ Listed(w[i], r)
      /\ \A q : Listed(q, r) /\ q # k => Listed(q, w)
      /\ Len(w) = IF Listed(k, r) THEN Len(r) - 1 ELSE Len(r)
  BY <1>1, <1>2, WithoutFacts
<1> HIDE DEF w
<1>4. u \in Seq(RecentKeys) /\ Len(u) = Len(w) + 1 /\ u[1] = k
      /\ \A i \in 1..Len(w) : u[i + 1] = w[i]
  BY <1>3
<1> HIDE DEF u
<1>5. /\ t \in Seq(RecentKeys) /\ Len(t) = Len(s) + 1 /\ LastIn(t, k) = Len(s) + 1
      /\ \A q \in ToSet(s) : q # k => LastIn(t, q) = LastIn(s, q)
      /\ ToSet(t) = ToSet(s) \cup {k}
  BY <1>1, LastInAppend
<1>6. \A q \in ToSet(s) : q # k => LastIn(t, q) \in 1..Len(s)
  BY <1>1, <1>5, LastInFacts
<1> HIDE DEF t
<1>7. /\ v \in Seq(RecentKeys) /\ Len(v) \in Nat /\ Len(v) <= RecentCap /\ Len(v) <= Len(u)
      /\ \A i \in 1..Len(v) : v[i] = u[i]
      /\ Len(v) < Len(u) => Len(v) = RecentCap
      /\ Len(u) >= RecentCap => Len(v) = RecentCap
  <2>1. CASE Len(u) > RecentCap
    <3>1. v = SubSeq(u, 1, RecentCap)
      BY <2>1 DEF Kept
    <3> HIDE DEF v
    <3>2. v \in Seq(RecentKeys) /\ Len(v) = RecentCap /\ \A i \in 1..RecentCap : v[i] = u[i]
      BY <1>1, <1>4, <2>1, <3>1
    <3>3. QED
      BY <1>1, <1>3, <1>4, <2>1, <3>2
  <2>2. CASE ~(Len(u) > RecentCap)
    <3>1. v = u
      BY <2>2 DEF Kept
    <3> HIDE DEF v
    <3>2. QED
      BY <1>1, <1>3, <1>4, <2>2, <3>1
  <2>3. QED
    BY <2>1, <2>2
<1> HIDE DEF v
<1>8. \A i \in 1..Len(w) : w[i] \in ToSet(s) /\ LastIn(t, w[i]) = LastIn(s, w[i])
  BY <1>2, <1>3, <1>5 DEF Listed
<1>9. \A i \in 1..Len(u) : i = 1 \/ (i - 1 \in 1..Len(w) /\ u[i] = w[i - 1])
  <2> SUFFICES ASSUME NEW i \in 1..Len(u), i # 1 PROVE i - 1 \in 1..Len(w) /\ u[i] = w[i - 1]
    OBVIOUS
  <2>1. i - 1 \in 1..Len(w) /\ (i - 1) + 1 = i
    BY <1>3, <1>4
  <2>2. QED
    BY <2>1, <1>4
<1>10. ASSUME NEW i \in 1..Len(u), NEW j \in 1..Len(u), i < j PROVE LastIn(t, u[i]) > LastIn(t, u[j])
  <2>1. j - 1 \in 1..Len(w) /\ u[j] = w[j - 1]
    BY <1>9, <1>10
  <2>2. CASE i = 1
    <3>1. LastIn(t, u[j]) \in 1..Len(s)
      BY <1>3, <1>6, <1>8, <2>1
    <3>2. LastIn(t, u[i]) = Len(s) + 1
      BY <1>4, <1>5, <2>2
    <3>3. QED
      BY <1>1, <3>1, <3>2
  <2>3. CASE i # 1
    <3>1. i - 1 \in 1..Len(w) /\ u[i] = w[i - 1] /\ i - 1 < j - 1
      BY <1>9, <1>10, <2>3
    <3>2. LastIn(s, w[i - 1]) > LastIn(s, w[j - 1])
      BY <1>3, <2>1, <3>1 DEF Descends
    <3>3. QED
      BY <1>8, <2>1, <3>1, <3>2
  <2>4. QED
    BY <2>2, <2>3
<1>11. \A i \in 1..Len(v) : i \in 1..Len(u)
  BY <1>3, <1>4, <1>7
<1>12. Descends(v, t)
  BY <1>7, <1>10, <1>11 DEF Descends
<1>13. \A i \in 1..Len(v) : v[i] \in ToSet(t)
  BY <1>4, <1>5, <1>7, <1>8, <1>9, <1>11
<1>14. ASSUME NEW q \in ToSet(t)
       PROVE  Listed(q, v) \/ (Len(v) = RecentCap /\ \A i \in 1..Len(v) : LastIn(t, v[i]) > LastIn(t, q))
  <2>1. CASE q = k
    <3>1. 1 \in 1..Len(v)
      BY <1>1, <1>3, <1>4, <1>7
    <3>2. QED
      BY <1>4, <1>7, <2>1, <3>1 DEF Listed
  <2>2. CASE q # k /\ Listed(q, r)
    <3>1. PICK a \in 1..Len(w) : w[a] = q
      BY <1>3, <2>2 DEF Listed
    <3>2. a + 1 \in 1..Len(u) /\ u[a + 1] = q
      BY <1>3, <1>4, <3>1
    <3>3. CASE a + 1 \in 1..Len(v)
      BY <1>7, <3>2, <3>3 DEF Listed
    <3>4. CASE a + 1 \notin 1..Len(v)
      <4>1. Len(v) < a + 1 /\ Len(v) = RecentCap
        BY <1>3, <1>4, <1>7, <3>2, <3>4
      <4>2. \A i \in 1..Len(v) : i < a + 1
        BY <1>7, <4>1
      <4>3. ASSUME NEW i \in 1..Len(v) PROVE LastIn(t, v[i]) > LastIn(t, q)
        BY <1>7, <1>10, <1>11, <3>2, <4>2
      <4>4. QED
        BY <4>1, <4>3
    <3>5. QED
      BY <3>3, <3>4
  <2>3. CASE q # k /\ ~Listed(q, r)
    <3>1. q \in ToSet(s)
      BY <1>5, <2>3
    <3>2. Len(r) = RecentCap /\ \A i \in 1..Len(r) : LastIn(s, r[i]) > LastIn(s, q)
      BY <2>3, <3>1 DEF Fits
    <3>3. Len(v) = RecentCap
      BY <1>1, <1>3, <1>4, <1>7, <3>2
    <3>4. LastIn(t, q) = LastIn(s, q) /\ LastIn(t, q) \in 1..Len(s)
      BY <1>5, <1>6, <2>3, <3>1
    <3>5. ASSUME NEW i \in 1..Len(v) PROVE LastIn(t, v[i]) > LastIn(t, q)
      <4>1. v[i] = u[i] /\ i \in 1..Len(u)
        BY <1>7, <1>11
      <4>2. CASE i = 1
        BY <1>1, <1>4, <1>5, <3>4, <4>1, <4>2
      <4>3. CASE i # 1
        <5>1. i - 1 \in 1..Len(w) /\ u[i] = w[i - 1]
          BY <1>9, <4>1, <4>3
        <5>2. PICK j \in 1..Len(r) : r[j] = w[i - 1]
          BY <1>3, <5>1 DEF Listed
        <5>3. LastIn(s, w[i - 1]) > LastIn(s, q)
          BY <3>2, <5>2
        <5>4. QED
          BY <1>8, <3>4, <4>1, <5>1, <5>3
      <4>4. QED
        BY <4>2, <4>3
    <3>6. QED
      BY <3>3, <3>5
  <2>4. QED
    BY <2>1, <2>2, <2>3
<1>15. Fits(v, t)
  BY <1>5, <1>7, <1>12, <1>13, <1>14 DEF Fits
<1>16. QED
  BY <1>15 DEF v, u, w, t

-----------------------------------------------------------------------------
RecentsIInv == Fits(recents, started) /\ recents = storedRecents

(* Before the first run the empty list fits.                               *)
LEMMA NothingFits == Fits(<<>>, <<>>)
<1>1. <<>> \in Seq(RecentKeys) /\ Len(<<>>) = 0 /\ ToSet(<<>>) = {} /\ 1..0 = {}
  BY DEF ToSet
<1>2. QED
  BY <1>1, RecentAssumption DEF Fits, Descends

(* As many elements as places, when no two are alike.                      *)
LEMMA CountDifferent ==
  ASSUME NEW r, NEW n \in Nat, \A i, j \in 1..n : i # j => r[i] # r[j]
  PROVE  Cardinality({r[i] : i \in 1..n}) = n /\ IsFiniteSet({r[i] : i \in 1..n})
<1> DEFINE f == [i \in 1..n |-> r[i]] R == {r[i] : i \in 1..n}
<1>1. f \in Bijection(1..n, R)
  <2>1. f \in [1..n -> R] /\ \A i, j \in 1..n : f[i] = f[j] => i = j
    OBVIOUS
  <2>2. \A x \in R : \E i \in 1..n : f[i] = x
    OBVIOUS
  <2> HIDE DEF f, R
  <2>3. QED
    BY <2>1, <2>2 DEF Bijection, Injection, Surjection, IsInjective
<1>2. ExistsBijection(1..n, R)
  BY <1>1 DEF ExistsBijection
<1> HIDE DEF R
<1>3. IsFiniteSet(R) /\ Cardinality(R) = n
  BY <1>2, FS_CountingElements, FS_NatBijection
<1>4. QED
  BY <1>3 DEF R

(* The commands of a list are finitely many.                               *)
LEMMA ListIsFinite ==
  ASSUME NEW s \in Seq(RecentKeys)
  PROVE  IsFiniteSet(ToSet(s))
<1>1. s \in [1..Len(s) -> ToSet(s)] /\ Len(s) \in Nat /\ \A x \in ToSet(s) : \E i \in 1..Len(s) : s[i] = x
  BY DEF ToSet
<1> DEFINE R == ToSet(s)
<1> HIDE DEF R
<1>2. s \in Surjection(1..Len(s), R)
  BY <1>1 DEF R, Surjection
<1>3. ExistsSurjection(1..Len(s), R)
  BY <1>2 DEF ExistsSurjection
<1>4. IsFiniteSet(R)
  BY <1>1, <1>3, FS_NatSurjection
<1>5. QED
  BY <1>4 DEF R

(* Every step keeps a list that fits the runs, and stores it.              *)
LEMMA RecentsStepKeeps == RecentsIInv /\ [RecentsNext]_recentVars => RecentsIInv'
<1> SUFFICES ASSUME RecentsIInv, [RecentsNext]_recentVars PROVE RecentsIInv'
  OBVIOUS
<1>1. ASSUME NEW k \in RecentKeys, StartedRun(k) PROVE RecentsIInv'
  <2>1. CASE "" \in {k[1], k[2]}
    BY <1>1, <2>1 DEF StartedRun, RecentsIInv, recentVars
  <2>2. CASE "" \notin {k[1], k[2]}
    <3>1. /\ recents' = Kept(<<k>> \o Without(k, recents)) /\ storedRecents' = recents'
          /\ started' = Append(started, k)
      BY <1>1, <2>2 DEF StartedRun, recordRecent, persistRecents
    <3>2. Fits(Kept(<<k>> \o Without(k, recents)), Append(started, k))
      BY RecordFits DEF RecentsIInv
    <3>3. QED
      BY <3>1, <3>2 DEF RecentsIInv
  <2>3. QED
    BY <2>1, <2>2
<1>2. CASE clearRecentCommands
  <2>1. recents' = <<>> /\ storedRecents' = <<>> /\ started' = <<>>
    BY <1>2 DEF clearRecentCommands, persistRecents
  <2>2. QED
    BY <2>1, NothingFits DEF RecentsIInv
<1>3. CASE Relaunched
  BY <1>3 DEF Relaunched, RecentsIInv
<1>4. CASE UNCHANGED recentVars
  BY <1>4 DEF recentVars, RecentsIInv
<1>5. QED
  BY <1>1, <1>2, <1>3, <1>4 DEF RecentsNext

(* The place of a command in the list is the number of those run since.    *)
LEMMA FitsAreLastRuns ==
  ASSUME Fits(recents, started)
  PROVE  /\ \A k \in ToSet(started) :
              IF Cardinality(Newer(k)) < RecentCap
              THEN Len(recents) > Cardinality(Newer(k)) /\ recents[Cardinality(Newer(k)) + 1] = k
              ELSE ~Contains(recents, k)
         /\ Len(recents) = Cardinality(ToSet(recents))
         /\ ToSet(recents) \subseteq ToSet(started)
<1> DEFINE r == recents s == started
<1>1. /\ r \in Seq(RecentKeys) /\ s \in Seq(RecentKeys) /\ Len(r) <= RecentCap /\ Len(r) \in Nat
      /\ Len(s) \in Nat /\ Descends(r, s) /\ RecentCap \in Nat /\ RecentCap >= 1
      /\ \A i \in 1..Len(r) : r[i] \in ToSet(s)
      /\ DOMAIN r = 1..Len(r) /\ DOMAIN s = 1..Len(s)
  BY RecentAssumption DEF Fits
<1>2. \A k : LastRunOf(k) = LastIn(s, k)
  BY DEF LastRunOf, LastIn
<1>3. \A q \in ToSet(s) : LastIn(s, q) \in 1..Len(s)
  BY <1>1, LastInFacts
<1>4. \A k : Newer(k) = {q \in ToSet(s) : q # k /\ LastIn(s, q) > LastIn(s, k)}
  BY <1>2 DEF Newer
<1>5. \A q \in ToSet(s) :
        Listed(q, r) \/ (Len(r) = RecentCap /\ \A i \in 1..Len(r) : LastIn(s, r[i]) > LastIn(s, q))
  BY DEF Fits
<1>6. IsFiniteSet(ToSet(s))
  BY <1>1, ListIsFinite
<1> HIDE DEF r, s
<1>7. \A i, j \in 1..Len(r) : i # j => r[i] # r[j]
  <2> SUFFICES ASSUME NEW i \in 1..Len(r), NEW j \in 1..Len(r), i # j PROVE r[i] # r[j]
    OBVIOUS
  <2>1. i < j \/ j < i
    BY <1>1
  <2>2. LastIn(s, r[i]) > LastIn(s, r[j]) \/ LastIn(s, r[j]) > LastIn(s, r[i])
    BY <2>1, <1>1 DEF Descends
  <2>3. LastIn(s, r[i]) \in Nat /\ LastIn(s, r[j]) \in Nat
    BY <1>1, <1>3
  <2>4. QED
    BY <2>2, <2>3
<1>8. \A n \in 0..Len(r) : Cardinality({r[i] : i \in 1..n}) = n /\ IsFiniteSet({r[i] : i \in 1..n})
  <2> SUFFICES ASSUME NEW n \in 0..Len(r)
               PROVE  Cardinality({r[i] : i \in 1..n}) = n /\ IsFiniteSet({r[i] : i \in 1..n})
    OBVIOUS
  <2>1. n \in Nat /\ \A i \in 1..n : i \in 1..Len(r)
    BY <1>1
  <2>2. \A i, j \in 1..n : i # j => r[i] # r[j]
    BY <1>7, <2>1
  <2>3. QED
    BY <2>1, <2>2, CountDifferent
<1>9. ASSUME NEW k \in ToSet(s)
      PROVE  IF Cardinality(Newer(k)) < RecentCap
             THEN Len(r) > Cardinality(Newer(k)) /\ r[Cardinality(Newer(k)) + 1] = k
             ELSE ~Contains(r, k)
  <2> DEFINE N == Newer(k)
  <2>1. N = {q \in ToSet(s) : q # k /\ LastIn(s, q) > LastIn(s, k)} /\ IsFiniteSet(N)
    BY <1>4, <1>6, FS_Subset
  <2> HIDE DEF N
  <2>2. CASE Listed(k, r)
    <3>1. PICK j \in 1..Len(r) : r[j] = k
      BY <2>2 DEF Listed
    <3>2. j - 1 \in 0..Len(r) /\ \A i \in 1..(j - 1) : i \in 1..Len(r) /\ i < j
      BY <1>1
    <3>3. ASSUME NEW i \in 1..(j - 1) PROVE r[i] \in N
      <4>1. i \in 1..Len(r) /\ i < j /\ r[i] \in ToSet(s)
        BY <1>1, <3>2
      <4>2. LastIn(s, r[i]) > LastIn(s, r[j])
        BY <1>1, <4>1 DEF Descends
      <4>3. r[i] # r[j]
        BY <1>1, <1>7, <4>1
      <4>4. QED
        BY <2>1, <3>1, <4>1, <4>2, <4>3
    <3>4. ASSUME NEW q \in N PROVE \E i \in 1..(j - 1) : r[i] = q
      <4>1. q \in ToSet(s) /\ q # k /\ LastIn(s, q) > LastIn(s, k)
        BY <2>1
      <4>2. LastIn(s, q) \in Nat /\ LastIn(s, k) \in Nat
        BY <1>3, <4>1
      <4>3. Listed(q, r)
        <5>1. ~(LastIn(s, r[j]) > LastIn(s, q))
          BY <3>1, <4>1, <4>2
        <5>2. QED
          BY <1>5, <4>1, <5>1
      <4>4. PICK i \in 1..Len(r) : r[i] = q
        BY <4>3 DEF Listed
      <4>5. ~(j < i)
        <5>1. j < i => LastIn(s, r[j]) > LastIn(s, r[i])
          BY <1>1 DEF Descends
        <5>2. QED
          BY <3>1, <4>1, <4>2, <4>4, <5>1
      <4>6. i # j
        BY <3>1, <4>1, <4>4
      <4>7. i \in 1..(j - 1)
        BY <1>1, <4>5, <4>6
      <4>8. QED
        BY <4>4, <4>7
    <3>5. N = {r[i] : i \in 1..(j - 1)}
      BY <3>3, <3>4
    <3>6. Cardinality(N) = j - 1
      BY <1>8, <3>2, <3>5
    <3>7. QED
      BY <1>1, <3>1, <3>6 DEF N
  <2>3. CASE ~Listed(k, r)
    <3>1. Len(r) = RecentCap /\ \A i \in 1..Len(r) : LastIn(s, r[i]) > LastIn(s, k)
      BY <1>5, <2>3
    <3> DEFINE R == {r[i] : i \in 1..Len(r)}
    <3>2. R \subseteq N
      BY <1>1, <2>1, <2>3, <3>1 DEF Listed
    <3>3. Len(r) \in 0..Len(r)
      BY <1>1
    <3>4. Cardinality(R) = RecentCap /\ IsFiniteSet(R)
      BY <1>8, <3>1, <3>3
    <3> HIDE DEF R
    <3>5. Cardinality(R) <= Cardinality(N) /\ Cardinality(N) \in Nat
      BY <2>1, <3>2, FS_Subset, FS_CardinalityType
    <3>6. ~(Cardinality(N) < RecentCap)
      BY <1>1, <3>4, <3>5
    <3>7. ~Contains(r, k)
      BY <2>3 DEF Listed, Contains
    <3>8. QED
      BY <3>6, <3>7 DEF N
  <2>4. QED
    BY <2>2, <2>3
<1>10. Len(r) = Cardinality(ToSet(r)) /\ ToSet(r) \subseteq ToSet(s)
  <2>1. ToSet(r) = {r[i] : i \in 1..Len(r)}
    BY <1>1 DEF ToSet
  <2>2. Len(r) \in 0..Len(r)
    BY <1>1
  <2>3. QED
    BY <1>1, <1>8, <2>1, <2>2
<1>11. QED
  BY <1>9, <1>10 DEF r, s

(* For any number of commands and any cap: the list is that of the         *)
(* commands that were run last, the newest first, each of them once.       *)
THEOREM RecentsStayLastRuns == RecentsSpec => []RecentsAreLastRuns
<1>1. RecentsInit => RecentsIInv
  BY NothingFits DEF RecentsInit, RecentsIInv
<1>2. RecentsIInv /\ [RecentsNext]_recentVars => RecentsIInv'
  BY RecentsStepKeeps
<1>3. RecentsIInv => RecentsAreLastRuns
  BY FitsAreLastRuns DEF RecentsIInv, RecentsAreLastRuns, Fits
<1>4. QED
  BY <1>1, <1>2, <1>3, PTL DEF RecentsSpec

(* Without the first place every other one moves down by one.              *)
Shifted(n, I, J) == I \in SUBSET (1..(n + 1)) /\ J = {i \in 1..n : i + 1 \in I}

(* The list of the places without the first is the old one, moved down.    *)
LEMMA InOrderShift ==
  ASSUME NEW n \in Nat, NEW I, NEW J, Shifted(n, I, J)
  PROVE  /\ InOrder(I) \in Seq(Nat) /\ InOrder(J) \in Seq(Nat)
         /\ Len(InOrder(I)) \in Nat /\ Len(InOrder(J)) \in Nat
         /\ 1 \in I => /\ Len(InOrder(I)) = Len(InOrder(J)) + 1 /\ InOrder(I)[1] = 1
                       /\ \A k \in 1..Len(InOrder(J)) : InOrder(I)[k + 1] = InOrder(J)[k] + 1
         /\ 1 \notin I => /\ Len(InOrder(I)) = Len(InOrder(J))
                          /\ \A k \in 1..Len(InOrder(J)) : InOrder(I)[k] = InOrder(J)[k] + 1
                          /\ \A k \in 1..Len(InOrder(I)) : InOrder(I)[k] # 1
<1> DEFINE K == I \cap {1} v == InOrder(I) w == InOrder(J)
<1>0. I \in SUBSET (1..(n + 1)) /\ J = {i \in 1..n : i + 1 \in I}
  BY DEF Shifted
<1>1. J \in SUBSET (1..n) /\ K \in SUBSET (1..1) /\ 1 \in Nat /\ n + 1 \in Nat
      /\ I \in SUBSET (1..(n + 1))
  BY <1>0
<1>2. I = K \cup {1 + j : j \in J}
  <2>1. ASSUME NEW i \in I, i # 1 PROVE i - 1 \in J /\ i = 1 + (i - 1)
    BY <1>0, <2>1
  <2>2. ASSUME NEW j \in J PROVE 1 + j \in I
    BY <1>0, <2>2
  <2>3. QED
    BY <2>1, <2>2
<1>3. w \in [1..Len(w) -> J] /\ Len(w) \in Nat /\ w \in Seq(Nat)
  BY <1>1, InOrderList
<1>4. v \in Seq(Nat) /\ Len(v) \in Nat /\ \A k \in 1..Len(v) : v[k] \in I
  BY <1>1, InOrderList
<1>5. v = InOrder(K) \o [k \in 1..Len(w) |-> 1 + w[k]]
  <2>1. InOrder(K \cup {1 + j : j \in J}) = InOrder(K) \o [k \in 1..Len(w) |-> 1 + w[k]]
    <3> HIDE DEF K
    <3>1. QED
      BY <1>1, InOrderConcat, ZenonT(60)
  <2>2. QED
    BY <1>2, <2>1, Zenon
<1> DEFINE z == [k \in 1..Len(w) |-> 1 + w[k]]
<1> HIDE DEF w, v
<1>6. z \in Seq(Nat) /\ Len(z) = Len(w) /\ \A k \in 1..Len(w) : z[k] = w[k] + 1
  <2>1. z \in [1..Len(w) -> Nat] /\ \A k \in 1..Len(w) : z[k] = w[k] + 1
    <3>1. \A k \in 1..Len(w) : w[k] \in Nat
      BY <1>1, <1>3, SMTT(30)
    <3>2. QED
      BY <3>1
  <2> HIDE DEF z
  <2>2. QED
    BY <2>1, <1>3, IsSeq
<1> HIDE DEF z, K
<1>7. CASE 1 \in I
  <2>1. InOrder(K) = <<1>>
    <3>1. K = {1}
      BY <1>7 DEF K
    <3>2. QED
      BY <3>1, InOrderOne
  <2>2. v = <<1>> \o z
    BY <1>5, <2>1 DEF z
  <2>3. Len(v) = Len(z) + 1 /\ v[1] = 1 /\ \A k \in 1..Len(z) : v[k + 1] = z[k]
    BY <1>6, <2>2
  <2>4. QED
    BY <1>3, <1>4, <1>6, <1>7, <2>3 DEF v, w
<1>8. CASE 1 \notin I
  <2>1. InOrder(K) = <<>>
    <3>1. K = {}
      BY <1>8 DEF K
    <3>2. QED
      BY <3>1, InOrderNone
  <2>2. v = <<>> \o z
    BY <1>5, <2>1 DEF z
  <2>3. v = z
    BY <1>6, <2>2
  <2>4. QED
    BY <1>3, <1>4, <1>6, <1>8, <2>3 DEF v, w
<1>9. QED
  BY <1>7, <1>8

-----------------------------------------------------------------------------
(* What a list ends in.                                                    *)
Entry == [n : Nat, run : Nat, parsed : {parse(kind) : kind \in Kinds}, hit : {kind.hit : kind \in Kinds}]

EndsIn(t, s) == Len(s) <= Len(t) /\ \A i \in 1..Len(s) : s[i] = t[(Len(t) - Len(s)) + i]

(* A list ends in itself.                                                  *)
LEMMA EndsItself ==
  ASSUME NEW s \in Seq(Entry)
  PROVE  EndsIn(s, s)
BY DEF EndsIn

(* What ends in what a list ends in, the list ends in.                     *)
LEMMA EndsTrans ==
  ASSUME NEW s \in Seq(Entry), NEW t \in Seq(Entry), NEW u \in Seq(Entry), EndsIn(t, s), EndsIn(u, t)
  PROVE  EndsIn(u, s)
<1>1. Len(s) \in Nat /\ Len(t) \in Nat /\ Len(u) \in Nat /\ Len(s) <= Len(t) /\ Len(t) <= Len(u)
  BY DEF EndsIn
<1>2. ASSUME NEW i \in 1..Len(s) PROVE s[i] = u[(Len(u) - Len(s)) + i]
  <2>1. (Len(t) - Len(s)) + i \in 1..Len(t)
    BY <1>1
  <2>2. (Len(u) - Len(t)) + ((Len(t) - Len(s)) + i) = (Len(u) - Len(s)) + i
    BY <1>1
  <2> DEFINE j == (Len(t) - Len(s)) + i
  <2>3. t[j] = u[(Len(u) - Len(t)) + j]
    BY <2>1 DEF EndsIn
  <2>4. s[i] = t[j]
    BY DEF EndsIn
  <2>5. QED
    BY <2>2, <2>3, <2>4
<1>3. QED
  BY <1>1, <1>2 DEF EndsIn

(* What a list is with one more line.                                      *)
LEMMA AppendIs ==
  ASSUME NEW s \in Seq(Entry), NEW e \in Entry
  PROVE  /\ Append(s, e) \in Seq(Entry) /\ Len(Append(s, e)) = Len(s) + 1 /\ Len(s) \in Nat
         /\ Append(s, e)[Len(s) + 1] = e
         /\ \A i \in 1..Len(s) : Append(s, e)[i] = s[i]
OBVIOUS

(* What a list is without its first line.                                  *)
LEMMA TailIs ==
  ASSUME NEW s \in Seq(Entry), s # <<>>
  PROVE  /\ Tail(s) \in Seq(Entry) /\ Len(s) = Len(Tail(s)) + 1 /\ Len(Tail(s)) \in Nat
         /\ \A i \in 1..Len(Tail(s)) : Tail(s)[i] = s[i + 1]
OBVIOUS

(* A line that is added to both keeps the one the end of the other.        *)
LEMMA EndsAppend ==
  ASSUME NEW s \in Seq(Entry), NEW t \in Seq(Entry), NEW e \in Entry, EndsIn(t, s)
  PROVE  EndsIn(Append(t, e), Append(s, e))
<1> DEFINE a == Append(s, e) b == Append(t, e)
<1>1. Len(s) \in Nat /\ Len(t) \in Nat /\ Len(s) <= Len(t)
  BY DEF EndsIn
<1>2. /\ Len(a) = Len(s) + 1 /\ a[Len(s) + 1] = e /\ \A i \in 1..Len(s) : a[i] = s[i]
      /\ Len(b) = Len(t) + 1 /\ b[Len(t) + 1] = e /\ \A i \in 1..Len(t) : b[i] = t[i]
  BY AppendIs
<1> HIDE DEF a, b
<1>3. ASSUME NEW i \in 1..Len(a) PROVE a[i] = b[(Len(b) - Len(a)) + i]
  <2>1. CASE i = Len(s) + 1
    <3>1. (Len(b) - Len(a)) + i = Len(t) + 1
      BY <1>1, <1>2, <2>1
    <3>2. QED
      BY <1>2, <2>1, <3>1
  <2>2. CASE i \in 1..Len(s)
    <3>1. (Len(b) - Len(a)) + i = (Len(t) - Len(s)) + i /\ (Len(t) - Len(s)) + i \in 1..Len(t)
      BY <1>1, <1>2, <2>2
    <3>2. s[i] = t[(Len(t) - Len(s)) + i]
      BY <2>2 DEF EndsIn
    <3>3. QED
      BY <1>2, <2>2, <3>1, <3>2
  <2>3. QED
    BY <1>1, <1>2, <2>1, <2>2
<1>4. Len(a) <= Len(b)
  BY <1>1, <1>2
<1>5. QED
  BY <1>3, <1>4 DEF EndsIn, a, b

(* A list ends in what is left without its first line.                     *)
LEMMA EndsTail ==
  ASSUME NEW s \in Seq(Entry), s # <<>>
  PROVE  EndsIn(s, Tail(s))
<1> DEFINE a == Tail(s)
<1>1. Len(s) = Len(a) + 1 /\ Len(a) \in Nat /\ \A i \in 1..Len(a) : a[i] = s[i + 1]
  BY TailIs
<1> HIDE DEF a
<1>2. \A i \in 1..Len(a) : (Len(s) - Len(a)) + i = i + 1
  BY <1>1
<1>3. QED
  BY <1>1, <1>2 DEF EndsIn, a

(* What is shorter than the list is the end of what is left of it, too.    *)
LEMMA EndsInTail ==
  ASSUME NEW s \in Seq(Entry), NEW t \in Seq(Entry), EndsIn(t, s), Len(s) < Len(t)
  PROVE  EndsIn(Tail(t), s)
<1> DEFINE a == Tail(t)
<1>1. t # <<>> /\ Len(s) \in Nat
  OBVIOUS
<1>2. Len(t) = Len(a) + 1 /\ Len(a) \in Nat /\ \A i \in 1..Len(a) : a[i] = t[i + 1]
  BY <1>1, TailIs
<1> HIDE DEF a
<1>3. ASSUME NEW i \in 1..Len(s) PROVE s[i] = a[(Len(a) - Len(s)) + i]
  <2>1. (Len(a) - Len(s)) + i \in 1..Len(a) /\ ((Len(a) - Len(s)) + i) + 1 = (Len(t) - Len(s)) + i
    BY <1>1, <1>2
  <2>2. s[i] = t[(Len(t) - Len(s)) + i]
    BY DEF EndsIn
  <2> DEFINE j == (Len(a) - Len(s)) + i
  <2>3. a[j] = t[j + 1]
    BY <1>2, <2>1
  <2>4. QED
    BY <2>1, <2>2, <2>3
<1>4. QED
  BY <1>1, <1>2, <1>3 DEF EndsIn, a

(* To be the end of a list is to be a suffix of it.                        *)
LEMMA EndsSuffix ==
  ASSUME NEW s \in Seq(Entry), NEW t \in Seq(Entry), EndsIn(t, s)
  PROVE  IsSuffix(s, t)
<1> DEFINE a == Reverse(s) b == Reverse(t)
<1>1. Len(s) \in Nat /\ Len(t) \in Nat /\ Len(s) <= Len(t)
  BY DEF EndsIn
<1>2. a = [i \in 1..Len(s) |-> s[(Len(s) - i) + 1]] /\ b = [i \in 1..Len(t) |-> t[(Len(t) - i) + 1]]
  BY DEF Reverse
<1> HIDE DEF a, b
<1>3. a \in Seq(Entry) /\ Len(a) = Len(s) /\ \A i \in 1..Len(s) : a[i] = s[(Len(s) - i) + 1]
  <2>1. \A i \in 1..Len(s) : (Len(s) - i) + 1 \in 1..Len(s)
    BY <1>1
  <2>2. a \in [1..Len(s) -> Entry] /\ \A i \in 1..Len(s) : a[i] = s[(Len(s) - i) + 1]
    BY <1>2, <2>1
  <2>3. QED
    BY <1>1, <2>2, IsSeq
<1>4. b \in Seq(Entry) /\ Len(b) = Len(t) /\ \A i \in 1..Len(t) : b[i] = t[(Len(t) - i) + 1]
  <2>1. \A i \in 1..Len(t) : (Len(t) - i) + 1 \in 1..Len(t)
    BY <1>1
  <2>2. b \in [1..Len(t) -> Entry] /\ \A i \in 1..Len(t) : b[i] = t[(Len(t) - i) + 1]
    BY <1>2, <2>1
  <2>3. QED
    BY <1>1, <2>2, IsSeq
<1>5. ASSUME NEW i \in 1..Len(s) PROVE a[i] = b[i]
  <2>1. (Len(s) - i) + 1 \in 1..Len(s) /\ i \in 1..Len(t)
    BY <1>1
  <2>2. (Len(t) - Len(s)) + ((Len(s) - i) + 1) = (Len(t) - i) + 1
    BY <1>1
  <2> DEFINE j == (Len(s) - i) + 1
  <2>3. s[j] = t[(Len(t) - Len(s)) + j]
    BY <2>1 DEF EndsIn
  <2>4. QED
    BY <1>3, <1>4, <2>1, <2>2, <2>3
<1>6. SubSeq(a, 1, Len(a)) = SubSeq(b, 1, Len(a))
  <2>1. SubSeq(a, 1, Len(s)) = [i \in 1..Len(s) |-> a[i]] /\ SubSeq(b, 1, Len(s)) = [i \in 1..Len(s) |-> b[i]]
    BY <1>1, <1>3, <1>4
  <2>2. QED
    BY <1>3, <1>5, <2>1
<1>7. IsPrefix(a, b)
  BY <1>1, <1>3, <1>4, <1>6 DEF IsPrefix
<1>8. QED
  BY <1>7 DEF IsSuffix, a, b

-----------------------------------------------------------------------------
(* The lines that pass a filter.                                           *)
Where(es, f, hit) == {i \in DOMAIN es : matchesFilter(es[i], f) = hit}

(* The indices of the lines that pass are places of the list.              *)
LEMMA PassingFacts ==
  ASSUME NEW es \in Seq(Entry), NEW f, NEW hit
  PROVE  /\ Passing(es, f, hit) = InOrder(Where(es, f, hit))
         /\ Where(es, f, hit) \in SUBSET (1..Len(es)) /\ Len(es) \in Nat
         /\ Passing(es, f, hit) \in [1..Len(Passing(es, f, hit)) -> 1..Len(es)]
         /\ Len(Passing(es, f, hit)) \in Nat /\ Passing(es, f, hit) \in Seq(Nat)
         /\ DOMAIN Passing(es, f, hit) = 1..Len(Passing(es, f, hit))
         /\ {Passing(es, f, hit)[i] : i \in DOMAIN Passing(es, f, hit)} = Where(es, f, hit)
<1>1. Passing(es, f, hit) = InOrder(Where(es, f, hit))
  BY DEF Passing, Where
<1>2. Where(es, f, hit) \in SUBSET (1..Len(es)) /\ Len(es) \in Nat
  BY DEF Where
<1> DEFINE I == Where(es, f, hit) v == InOrder(I)
<1> HIDE DEF I
<1>3. I \in SUBSET (1..Len(es))
  BY <1>2 DEF I
<1>4. v \in [1..Len(v) -> I] /\ Len(v) \in Nat /\ v \in Seq(Nat) /\ DOMAIN v = 1..Len(v)
      /\ {v[i] : i \in DOMAIN v} = I
  BY <1>2, <1>3, InOrderList
<1> HIDE DEF v
<1>5. v \in [1..Len(v) -> 1..Len(es)]
  BY <1>3, <1>4
<1>6. QED
  BY <1>1, <1>2, <1>4, <1>5 DEF v, I

(* One more line is one more index, when it passes.                        *)
LEMMA PassingAppend ==
  ASSUME NEW es \in Seq(Entry), NEW e \in Entry, NEW f, NEW hit
  PROVE  Passing(Append(es, e), f, hit)
           = IF matchesFilter(e, f) = hit THEN Append(Passing(es, f, hit), Len(es) + 1)
             ELSE Passing(es, f, hit)
<1> DEFINE u == Append(es, e) I == Where(es, f, hit)
<1>1. u \in Seq(Entry) /\ Len(u) = Len(es) + 1 /\ Len(es) \in Nat /\ u[Len(es) + 1] = e
      /\ \A i \in 1..Len(es) : u[i] = es[i]
  BY AppendIs
<1>2. Passing(es, f, hit) = InOrder(I) /\ I \in SUBSET (1..Len(es))
  BY PassingFacts
<1>3. Passing(u, f, hit) = InOrder(Where(u, f, hit))
  BY <1>1, PassingFacts
<1>4. Where(u, f, hit) = IF matchesFilter(e, f) = hit THEN I \cup {Len(es) + 1} ELSE I
  <2>1. DOMAIN u = 1..(Len(es) + 1) /\ DOMAIN es = 1..Len(es)
    BY <1>1
  <2>2. \A i \in 1..(Len(es) + 1) : i \in 1..Len(es) \/ i = Len(es) + 1
    BY <1>1
  <2>3. \A i \in 1..Len(es) : i \in 1..(Len(es) + 1)
    BY <1>1
  <2>4. Len(es) + 1 \in 1..(Len(es) + 1)
    BY <1>1
  <2> HIDE DEF u
  <2>5. QED
    BY <1>1, <2>1, <2>2, <2>3, <2>4 DEF Where
<1> HIDE DEF u, I
<1>5. InOrder(I \cup {Len(es) + 1}) = Append(InOrder(I), Len(es) + 1)
  BY <1>1, <1>2, InOrderAppend
<1>6. QED
  BY <1>2, <1>3, <1>4, <1>5 DEF u

(* Without the oldest line every index moves down by one, and its own,     *)
(* when it passed, is gone.                                                *)
LEMMA PassingTail ==
  ASSUME NEW es \in Seq(Entry), es # <<>>, NEW f, NEW hit
  PROVE  /\ Contains(Passing(es, f, hit), 1) =>
              /\ Passing(es, f, hit) # <<>> /\ Len(Passing(es, f, hit)) = Len(Passing(Tail(es), f, hit)) + 1
              /\ \A k \in 1..Len(Passing(Tail(es), f, hit)) :
                   Passing(es, f, hit)[k + 1] = Passing(Tail(es), f, hit)[k] + 1
         /\ ~Contains(Passing(es, f, hit), 1) =>
              /\ Len(Passing(es, f, hit)) = Len(Passing(Tail(es), f, hit))
              /\ \A k \in 1..Len(Passing(Tail(es), f, hit)) :
                   Passing(es, f, hit)[k] = Passing(Tail(es), f, hit)[k] + 1
<1> DEFINE t == Tail(es) I == Where(es, f, hit) J == Where(t, f, hit)
           v == Passing(es, f, hit) w == Passing(t, f, hit) n == Len(t)
<1>1. t \in Seq(Entry) /\ Len(es) = n + 1 /\ n \in Nat /\ \A i \in 1..n : t[i] = es[i + 1]
  BY TailIs
<1> HIDE DEF t
<1>2. v = InOrder(I) /\ I \in SUBSET (1..(n + 1)) /\ {v[i] : i \in DOMAIN v} = I
      /\ DOMAIN v = 1..Len(v) /\ v \in Seq(Nat) /\ Len(v) \in Nat
  BY <1>1, PassingFacts
<1>3. w = InOrder(J) /\ Len(w) \in Nat
  BY <1>1, PassingFacts
<1>4. Shifted(n, I, J)
  <2>1. DOMAIN t = 1..n /\ DOMAIN es = 1..(n + 1)
    BY <1>1
  <2>2. \A i \in 1..n : i + 1 \in 1..(n + 1)
    BY <1>1
  <2>3. QED
    BY <1>1, <1>2, <2>1, <2>2 DEF Where, Shifted
<1> HIDE DEF v, w, I, J, n
<1>5. /\ 1 \in I => Len(v) = Len(w) + 1 /\ v[1] = 1 /\ \A k \in 1..Len(w) : v[k + 1] = w[k] + 1
      /\ 1 \notin I => Len(v) = Len(w) /\ \A k \in 1..Len(w) : v[k] = w[k] + 1
  <2>1. n \in Nat
    BY <1>1
  <2> DEFINE a == InOrder(I) b == InOrder(J)
  <2>2. /\ 1 \in I => Len(a) = Len(b) + 1 /\ a[1] = 1 /\ \A k \in 1..Len(b) : a[k + 1] = b[k] + 1
        /\ 1 \notin I => Len(a) = Len(b) /\ \A k \in 1..Len(b) : a[k] = b[k] + 1
    BY <2>1, <1>4, InOrderShift
  <2>3. v = a /\ w = b
    BY <1>2, <1>3
  <2> HIDE DEF a, b
  <2>4. QED
    BY <2>2, <2>3
<1>6. Contains(v, 1) <=> 1 \in I
  BY <1>2 DEF Contains
<1>7. 1 \in I => v # <<>>
  BY <1>2, <1>3, <1>5
<1>8. QED
  BY <1>5, <1>6, <1>7 DEF v, w, t

-----------------------------------------------------------------------------
(* The list behind the console, when it is right.                          *)
LogFields == {"entries", "visible", "hiddenUnparsed", "filter"}
LogOK(log) ==
  /\ DOMAIN log = LogFields
  /\ log.entries \in Seq(Entry) /\ Len(log.entries) <= Cap
  /\ log.visible = Passing(log.entries, log.filter, "Shown")
  /\ log.hiddenUnparsed \in Nat
  /\ log.hiddenUnparsed >= Len(Passing(log.entries, log.filter, "HiddenUnparsed"))

(* Lines are numbered in their order, up to m.                             *)
InTime(s, m) ==
  /\ \A i, j \in 1..Len(s) : i < j => s[i].n < s[j].n
  /\ \A i \in 1..Len(s) : s[i].n <= m

(* The rows are lines of the model, in their order.                        *)
LEMMA RowsFacts ==
  ASSUME NEW log, LogOK(log)
  PROVE  /\ Rows(log) \in Seq(Entry) /\ Len(Rows(log)) = Len(log.visible) /\ Len(log.visible) \in Nat
         /\ \A i \in 1..Len(log.visible) :
              Rows(log)[i] = log.entries[log.visible[i]] /\ log.visible[i] \in 1..Len(log.entries)
         /\ \A m : InTime(log.entries, m) => InTime(Rows(log), m)
<1> DEFINE v == log.visible es == log.entries rows == Rows(log)
<1>1. es \in Seq(Entry) /\ v = Passing(es, log.filter, "Shown")
  BY DEF LogOK
<1>2. v \in [1..Len(v) -> 1..Len(es)] /\ Len(v) \in Nat /\ DOMAIN v = 1..Len(v) /\ v \in Seq(Nat)
      /\ Increasing(v) /\ Len(es) \in Nat
  <2> DEFINE I == Where(es, log.filter, "Shown")
  <2>1. v = InOrder(I) /\ I \in SUBSET (1..Len(es)) /\ Len(es) \in Nat
        /\ v \in [1..Len(v) -> 1..Len(es)] /\ Len(v) \in Nat /\ DOMAIN v = 1..Len(v) /\ v \in Seq(Nat)
    BY <1>1, PassingFacts
  <2>2. Increasing(InOrder(I))
    BY <2>1, InOrderList
  <2>3. QED
    BY <2>1, <2>2
<1>3. rows = [i \in 1..Len(v) |-> es[v[i]]]
  BY <1>2 DEF Rows
<1>4. \A i \in 1..Len(v) : v[i] \in 1..Len(es) /\ es[v[i]] \in Entry
  BY <1>1, <1>2
<1> HIDE DEF v, es, rows
<1>5. rows \in [1..Len(v) -> Entry]
  BY <1>3, <1>4
<1>6. rows \in Seq(Entry) /\ Len(rows) = Len(v)
  BY <1>2, <1>5, IsSeq
<1>7. \A i \in 1..Len(v) : rows[i] = es[v[i]]
  BY <1>3
<1>8. ASSUME NEW m, InTime(es, m) PROVE InTime(rows, m)
  <2>1. ASSUME NEW i \in 1..Len(v), NEW j \in 1..Len(v), i < j PROVE rows[i].n < rows[j].n
    <3>1. v[i] < v[j]
      BY <1>2, <2>1 DEF Increasing
    <3>2. es[v[i]].n < es[v[j]].n
      BY <1>4, <1>8, <3>1 DEF InTime
    <3>3. QED
      BY <1>7, <3>2
  <2>2. ASSUME NEW i \in 1..Len(v) PROVE rows[i].n <= m
    BY <1>4, <1>7, <1>8 DEF InTime
  <2>3. QED
    BY <1>6, <2>1, <2>2 DEF InTime
<1>9. QED
  BY <1>2, <1>4, <1>6, <1>7, <1>8 DEF v, es, rows

(* No more lines pass when the oldest is gone.                             *)
LEMMA FewerPassing ==
  ASSUME NEW es \in Seq(Entry), es # <<>>, NEW f, NEW hit
  PROVE  Len(Passing(Tail(es), f, hit)) <= Len(Passing(es, f, hit))
<1> DEFINE a == Passing(es, f, hit) b == Passing(Tail(es), f, hit)
<1>1. Contains(a, 1) => Len(a) = Len(b) + 1
  BY PassingTail
<1>2. ~Contains(a, 1) => Len(a) = Len(b)
  BY PassingTail
<1>3. Tail(es) \in Seq(Entry)
  BY TailIs
<1>4. Len(a) \in Nat
  BY PassingFacts
<1>5. Len(b) \in Nat
  BY <1>3, PassingFacts
<1> HIDE DEF a, b
<1>6. Len(b) <= Len(a)
  BY <1>1, <1>2, <1>4, <1>5
<1>7. QED
  BY <1>6 DEF a, b

(* Trimming the model by its oldest line keeps it right, and its rows are  *)
(* the end of the old ones (logmodel.h, trim).                             *)
LEMMA TrimFacts ==
  ASSUME NEW log, LogOK(log), log.entries # <<>>
  PROVE  /\ LogOK(Trimmed(log)) /\ Trimmed(log).entries = Tail(log.entries)
         /\ Trimmed(log).filter = log.filter
         /\ EndsIn(Rows(log), Rows(Trimmed(log)))
<1> DEFINE es == log.entries t == Tail(es) f == log.filter
           v == log.visible w == Passing(t, f, "Shown")
           pos == IF Contains(v, 1) THEN Tail(v) ELSE v
           down == [i \in DOMAIN pos |-> pos[i] - 1]
           new == Trimmed(log)
<1>1. es \in Seq(Entry) /\ es # <<>> /\ Len(es) <= Cap /\ v = Passing(es, f, "Shown")
      /\ log.hiddenUnparsed \in Nat /\ log.hiddenUnparsed >= Len(Passing(es, f, "HiddenUnparsed"))
      /\ DOMAIN log = LogFields /\ Cap \in Nat
  BY LogModelAssumption DEF LogOK
<1>2. /\ DOMAIN new = LogFields /\ new.entries = t /\ new.visible = down
      /\ new.hiddenUnparsed = log.hiddenUnparsed /\ new.filter = f
  BY <1>1 DEF Trimmed, LogFields
<1> HIDE DEF new
<1>3. t \in Seq(Entry) /\ Len(es) = Len(t) + 1 /\ Len(t) \in Nat /\ \A i \in 1..Len(t) : t[i] = es[i + 1]
  BY <1>1, TailIs
<1>4. /\ v \in Seq(Nat) /\ Len(v) \in Nat /\ DOMAIN v = 1..Len(v) /\ v \in [1..Len(v) -> 1..Len(es)]
      /\ w \in Seq(Nat) /\ Len(w) \in Nat /\ DOMAIN w = 1..Len(w) /\ w \in [1..Len(w) -> 1..Len(t)]
  <2> HIDE DEF t
  <2>1. QED
    BY <1>1, <1>3, PassingFacts
<1>5. /\ Contains(v, 1) =>
           v # <<>> /\ Len(v) = Len(w) + 1 /\ \A k \in 1..Len(w) : v[k + 1] = w[k] + 1
      /\ ~Contains(v, 1) => Len(v) = Len(w) /\ \A k \in 1..Len(w) : v[k] = w[k] + 1
  BY <1>1, PassingTail
<1> HIDE DEF v, w, t, es, f
<1>6. DOMAIN pos = 1..Len(w) /\ \A k \in 1..Len(w) : pos[k] = w[k] + 1
  <2>1. CASE Contains(v, 1)
    <3>1. pos = Tail(v) /\ v # <<>>
      BY <1>5, <2>1, SMTT(30)
    <3>2. v \in Seq(Nat) /\ Len(v) = Len(w) + 1 /\ Len(w) \in Nat
      BY <1>4, <1>5, <2>1
    <3>4. Len(Tail(v)) = Len(w) /\ DOMAIN Tail(v) = 1..Len(w) /\ \A k \in 1..Len(w) : Tail(v)[k] = v[k + 1]
      BY <3>1, <3>2, SMTT(30)
    <3>3. QED
      BY <1>5, <2>1, <3>1, <3>4
  <2>2. CASE ~Contains(v, 1)
    BY <1>4, <1>5, <2>2
  <2>3. QED
    BY <2>1, <2>2
<1> HIDE DEF pos
<1>7. down = w
  <2>1. \A k \in 1..Len(w) : w[k] \in Nat
    BY <1>3, <1>4
  <2>2. down = [k \in 1..Len(w) |-> w[k]]
    BY <1>6, <2>1
  <2>3. w = [k \in 1..Len(w) |-> w[k]]
    BY <1>4
  <2>4. QED
    BY <2>2, <2>3
<1>8. Len(Passing(t, f, "HiddenUnparsed")) <= Len(Passing(es, f, "HiddenUnparsed"))
  BY <1>1, FewerPassing DEF t
<1>9. LogOK(new)
  <2>1. Len(t) <= Cap
    BY <1>1, <1>3
  <2>2. Len(Passing(t, f, "HiddenUnparsed")) \in Nat /\ Len(Passing(es, f, "HiddenUnparsed")) \in Nat
    BY <1>1, <1>3, PassingFacts
  <2>3. log.hiddenUnparsed >= Len(Passing(t, f, "HiddenUnparsed"))
    BY <1>1, <1>8, <2>2
  <2>4. new.visible = Passing(new.entries, new.filter, "Shown")
    BY <1>2, <1>7 DEF w
  <2>5. QED
    BY <1>1, <1>2, <1>3, <2>1, <2>3, <2>4 DEF LogOK
<1>10. EndsIn(Rows(log), Rows(new))
  <2> DEFINE old == Rows(log) rows == Rows(new) n == Len(w) m == Len(v)
  <2>1. old \in Seq(Entry) /\ Len(old) = m /\ \A i \in 1..m : old[i] = es[v[i]]
    BY RowsFacts DEF v, es
  <2>2. rows \in Seq(Entry) /\ Len(rows) = n /\ \A i \in 1..n : rows[i] = t[w[i]]
    <3>1. new.visible = w /\ new.entries = t
      BY <1>2, <1>7
    <3>2. QED
      BY <1>9, <3>1, RowsFacts
  <2>3. n \in Nat /\ m \in Nat
    BY <1>4
  <2> HIDE DEF old, rows, n, m
  <2>4. ASSUME NEW i \in 1..n PROVE rows[i] = es[w[i] + 1]
    <3>1. w[i] \in 1..Len(t)
      BY <1>4 DEF n
    <3>2. QED
      BY <1>3, <2>2, <3>1
  <2>5. CASE Contains(v, 1)
    <3>1. m = n + 1
      BY <1>5, <2>5 DEF m, n
    <3>2. ASSUME NEW i \in 1..n PROVE rows[i] = old[(m - n) + i]
      <4>1. (m - n) + i = i + 1 /\ i + 1 \in 1..m
        BY <2>3, <3>1
      <4>2. old[i + 1] = es[v[i + 1]]
        BY <2>1, <4>1
      <4>3. v[i + 1] = w[i] + 1
        BY <1>5, <2>5 DEF n
      <4>4. QED
        BY <2>4, <4>1, <4>2, <4>3
    <3>3. n <= m
      BY <2>3, <3>1
    <3>4. QED
      BY <2>1, <2>2, <3>2, <3>3 DEF EndsIn, old, rows
  <2>6. CASE ~Contains(v, 1)
    <3>1. m = n
      BY <1>5, <2>6 DEF m, n
    <3>2. ASSUME NEW i \in 1..n PROVE rows[i] = old[(m - n) + i]
      <4>1. (m - n) + i = i /\ i \in 1..m
        BY <2>3, <3>1
      <4>2. old[i] = es[v[i]]
        BY <2>1, <4>1
      <4>3. v[i] = w[i] + 1
        BY <1>5, <2>6 DEF n
      <4>4. QED
        BY <2>4, <4>1, <4>2, <4>3
    <3>3. n <= m
      BY <2>3, <3>1
    <3>4. QED
      BY <2>1, <2>2, <3>2, <3>3 DEF EndsIn, old, rows
  <2>7. QED
    BY <2>5, <2>6
<1>11. QED
  BY <1>2, <1>9, <1>10 DEF new, t, es, f

(* Adding a line, at the cap or not, keeps the model right, and its rows   *)
(* are the end of the old ones with the new line.                          *)
LEMMA AddFacts ==
  ASSUME NEW log, LogOK(log), NEW e \in Entry
  PROVE  /\ LogOK(add(log, e)) /\ add(log, e).filter = log.filter
         /\ add(log, e).entries
              = Append(IF Len(log.entries) >= Cap THEN Tail(log.entries) ELSE log.entries, e)
         /\ EndsIn(IF matchesFilter(e, log.filter) = "Shown" THEN Append(Rows(log), e) ELSE Rows(log),
                   Rows(add(log, e)))
<1> DEFINE room == IF Len(log.entries) >= Cap THEN Trimmed(log) ELSE log
           f == log.filter hit == matchesFilter(e, f) new == add(log, e)
           es == room.entries
<1>1. log.entries \in Seq(Entry) /\ Cap \in Nat /\ Cap > 0
  BY LogModelAssumption DEF LogOK
<1>2. LogOK(room) /\ room.filter = f /\ EndsIn(Rows(log), Rows(room))
      /\ es = (IF Len(log.entries) >= Cap THEN Tail(log.entries) ELSE log.entries) /\ Len(es) < Cap
  <2>1. CASE Len(log.entries) >= Cap
    <3>1. log.entries # <<>>
      BY <1>1, <2>1
    <3>2. LogOK(Trimmed(log)) /\ Trimmed(log).entries = Tail(log.entries)
         /\ Trimmed(log).filter = f /\ EndsIn(Rows(log), Rows(Trimmed(log)))
      BY <3>1, TrimFacts
    <3>3. Len(log.entries) = Len(Tail(log.entries)) + 1 /\ Len(log.entries) <= Cap /\ Len(Tail(log.entries)) \in Nat
      BY <1>1, <3>1, TailIs DEF LogOK
    <3>4. Len(Tail(log.entries)) < Cap
      BY <1>1, <3>3
    <3>5. room = Trimmed(log)
      BY <2>1
    <3>6. es = Tail(log.entries)
      BY <3>2, <3>5
    <3>7. Len(es) < Cap
      BY <3>4, <3>6
    <3> HIDE DEF room, es, f
    <3>8. LogOK(room) /\ room.filter = f /\ EndsIn(Rows(log), Rows(room))
      BY <3>2, <3>5
    <3>9. QED
      BY <2>1, <3>6, <3>7, <3>8
  <2>2. CASE ~(Len(log.entries) >= Cap)
    <3>1. Rows(log) \in Seq(Entry)
      BY RowsFacts
    <3>2. QED
      BY <1>1, <2>2, <3>1, EndsItself
  <2>3. QED
    BY <2>1, <2>2
<1>3. new = [room EXCEPT !.entries = Append(@, e),
                         !.visible = IF hit = "Shown" THEN Append(@, Len(room.entries) + 1) ELSE @,
                         !.hiddenUnparsed = IF hit = "HiddenUnparsed" THEN @ + 1 ELSE @]
  BY DEF add
<1> HIDE DEF room, new, hit
<1>4. DOMAIN room = LogFields /\ es \in Seq(Entry) /\ Len(es) \in Nat
      /\ room.visible = Passing(es, f, "Shown") /\ room.hiddenUnparsed \in Nat
      /\ room.hiddenUnparsed >= Len(Passing(es, f, "HiddenUnparsed"))
  BY <1>2 DEF LogOK
<1>5. /\ DOMAIN new = LogFields /\ new.entries = Append(es, e) /\ new.filter = f
      /\ new.visible = (IF hit = "Shown" THEN Append(room.visible, Len(es) + 1) ELSE room.visible)
      /\ new.hiddenUnparsed = IF hit = "HiddenUnparsed" THEN room.hiddenUnparsed + 1 ELSE room.hiddenUnparsed
  BY <1>2, <1>3, <1>4 DEF LogFields
<1> HIDE DEF es, f
<1>6. Passing(Append(es, e), f, "Shown")
        = IF hit = "Shown" THEN Append(Passing(es, f, "Shown"), Len(es) + 1) ELSE Passing(es, f, "Shown")
  BY <1>4, PassingAppend DEF hit
<1>7. Len(Passing(Append(es, e), f, "HiddenUnparsed"))
        = Len(Passing(es, f, "HiddenUnparsed")) + (IF hit = "HiddenUnparsed" THEN 1 ELSE 0)
  <2> DEFINE a == Passing(es, f, "HiddenUnparsed")
  <2>1. Passing(Append(es, e), f, "HiddenUnparsed")
          = IF hit = "HiddenUnparsed" THEN Append(a, Len(es) + 1) ELSE a
    BY <1>4, PassingAppend DEF hit
  <2>2. a \in Seq(Nat) /\ Len(a) \in Nat
    BY <1>4, PassingFacts
  <2> HIDE DEF a
  <2>3. Len(Append(a, Len(es) + 1)) = Len(a) + 1
    BY <1>4, <2>2
  <2>4. QED
    BY <2>1, <2>2, <2>3 DEF a
<1>8. LogOK(new)
  <2> DEFINE p == Passing(es, f, "HiddenUnparsed")
  <2>1. Len(p) \in Nat
    BY <1>4, PassingFacts
  <2> DEFINE q == Passing(Append(es, e), f, "HiddenUnparsed")
  <2>2. Append(es, e) \in Seq(Entry) /\ Len(Append(es, e)) = Len(es) + 1
    BY <1>4, AppendIs
  <2> HIDE DEF p, q
  <2>3. new.hiddenUnparsed \in Nat /\ new.hiddenUnparsed >= Len(q)
    BY <1>4, <1>5, <1>7, <2>1 DEF p, q
  <2>4. new.visible = Passing(new.entries, new.filter, "Shown")
    BY <1>4, <1>5, <1>6
  <2>5. Len(new.entries) <= Cap /\ new.entries \in Seq(Entry)
    BY <1>1, <1>2, <1>4, <1>5, <2>2 DEF es
  <2>6. QED
    BY <1>5, <2>3, <2>4, <2>5 DEF LogOK, q
<1>9. Rows(new) = IF hit = "Shown" THEN Append(Rows(room), e) ELSE Rows(room)
  <2> DEFINE a == Rows(room) b == Rows(new) v == room.visible
  <2>1. a \in Seq(Entry) /\ Len(a) = Len(v) /\ Len(v) \in Nat
        /\ \A i \in 1..Len(v) : a[i] = es[v[i]] /\ v[i] \in 1..Len(es)
    BY <1>2, RowsFacts DEF es
  <2>2. b \in Seq(Entry) /\ Len(b) = Len(new.visible)
        /\ \A i \in 1..Len(new.visible) : b[i] = new.entries[new.visible[i]]
    BY <1>8, RowsFacts
  <2>3. v \in Seq(Nat)
    BY <1>4, PassingFacts
  <2> DEFINE u == Append(es, e)
  <2>4. u[Len(es) + 1] = e /\ \A i \in 1..Len(es) : u[i] = es[i]
    BY <1>4, AppendIs
  <2> HIDE DEF a, b, v, u
  <2>5. CASE hit = "Shown"
    <3> DEFINE x == Append(v, Len(es) + 1)
    <3>1. Len(x) = Len(v) + 1 /\ x[Len(v) + 1] = Len(es) + 1 /\ \A i \in 1..Len(v) : x[i] = v[i]
      BY <1>4, <2>3
    <3>2. new.visible = x /\ new.entries = u
      BY <1>5, <2>5 DEF v, u
    <3> HIDE DEF x
    <3>3. Len(b) = Len(a) + 1 /\ (\A i \in 1..Len(a) : b[i] = a[i]) /\ b[Len(a) + 1] = e
      <4>1. \A i \in 1..Len(v) : i \in 1..(Len(v) + 1)
        BY <2>1
      <4>2. Len(v) + 1 \in 1..(Len(v) + 1)
        BY <2>1
      <4>3. \A i \in 1..Len(a) : b[i] = a[i]
        BY <2>1, <2>2, <2>4, <3>1, <3>2, <4>1
      <4>4. b[Len(a) + 1] = e
        BY <2>1, <2>2, <2>4, <3>1, <3>2, <4>2
      <4>5. QED
        BY <2>1, <2>2, <3>1, <3>2, <4>3, <4>4
    <3> DEFINE c == Append(a, e)
    <3>4. c \in Seq(Entry) /\ Len(c) = Len(a) + 1 /\ (\A i \in 1..Len(a) : c[i] = a[i]) /\ c[Len(a) + 1] = e
      BY <2>1, AppendIs
    <3> HIDE DEF c
    <3>5. \A i \in 1..(Len(a) + 1) : i \in 1..Len(a) \/ i = Len(a) + 1
      BY <2>1
    <3>6. \A i \in 1..Len(b) : b[i] = c[i]
      BY <3>3, <3>4, <3>5
    <3>7. b = c
      BY <2>2, <3>3, <3>4, <3>6, SameSeq
    <3>8. QED
      BY <2>5, <3>7 DEF a, b, c
  <2>6. CASE hit # "Shown"
    <3>1. new.visible = v /\ new.entries = u
      BY <1>5, <2>6 DEF v, u
    <3>2. \A i \in 1..Len(b) : b[i] = a[i]
      BY <2>1, <2>2, <2>4, <3>1
    <3>3. Len(a) = Len(b)
      BY <2>1, <2>2, <3>1
    <3>4. b = a
      BY <2>1, <2>2, <3>2, <3>3, SameSeq
    <3>5. QED
      BY <2>6, <3>4 DEF a, b
  <2>7. QED
    BY <2>5, <2>6
<1>10. EndsIn(IF hit = "Shown" THEN Append(Rows(log), e) ELSE Rows(log), Rows(new))
  <2>1. Rows(log) \in Seq(Entry) /\ Rows(room) \in Seq(Entry)
    BY <1>2, RowsFacts
  <2>2. EndsIn(Append(Rows(log), e), Append(Rows(room), e))
    BY <1>2, <2>1, EndsAppend
  <2>3. QED
    BY <1>2, <1>9, <2>2
<1>11. QED
  <2>1. new.entries = Append(IF Len(log.entries) >= Cap THEN Tail(log.entries) ELSE log.entries, e)
    BY <1>2, <1>5
  <2>2. QED
    BY <2>1, <1>5, <1>8, <1>10 DEF new, hit, f

-----------------------------------------------------------------------------
(* Refills and filters.                                                    *)
LEMMA RebuiltFacts ==
  ASSUME NEW log, DOMAIN log = LogFields, log.entries \in Seq(Entry), Len(log.entries) <= Cap
  PROVE  /\ LogOK(rebuildVisible(log)) /\ rebuildVisible(log).entries = log.entries
         /\ rebuildVisible(log).filter = log.filter
<1> DEFINE new == rebuildVisible(log) p == Passing(log.entries, log.filter, "HiddenUnparsed")
<1>1. Len(p) \in Nat
  BY PassingFacts
<1>2. /\ DOMAIN new = LogFields /\ new.entries = log.entries /\ new.filter = log.filter
      /\ new.visible = Passing(log.entries, log.filter, "Shown") /\ new.hiddenUnparsed = Len(p)
  BY DEF rebuildVisible, LogFields
<1> HIDE DEF new, p
<1>3. LogOK(new)
  <2>1. new.hiddenUnparsed \in Nat /\ new.hiddenUnparsed >= Len(p)
    BY <1>1, <1>2
  <2>2. QED
    BY <1>2, <2>1 DEF LogOK, p
<1>4. QED
  BY <1>2, <1>3 DEF new

(* Other filters: the rows are found anew.                                 *)
LEMMA FilterFacts ==
  ASSUME NEW log, LogOK(log), NEW f
  PROVE  LogOK(setFilters(log, f)) /\ setFilters(log, f).entries = log.entries
<1> DEFINE new == [log EXCEPT !.filter = f]
<1>1. DOMAIN new = LogFields /\ new.entries = log.entries /\ new.entries \in Seq(Entry)
      /\ Len(new.entries) <= Cap
  BY DEF LogOK, LogFields
<1> HIDE DEF new
<1>2. LogOK(rebuildVisible(new)) /\ rebuildVisible(new).entries = new.entries
  BY <1>1, RebuiltFacts
<1>3. QED
  BY <1>1, <1>2 DEF setFilters, new

(* A cleared model is right.                                               *)
LEMMA ClearFacts ==
  ASSUME NEW log, DOMAIN log = LogFields
  PROVE  LogOK(clear(log)) /\ clear(log).entries = <<>>
<1> DEFINE new == clear(log)
<1>1. /\ DOMAIN new = LogFields /\ new.entries = <<>> /\ new.visible = <<>> /\ new.hiddenUnparsed = 0
  BY DEF clear, LogFields
<1> HIDE DEF new
<1>2. <<>> \in Seq(Entry) /\ Len(<<>>) = 0 /\ Cap \in Nat
  BY LogModelAssumption
<1>3. ASSUME NEW f, NEW hit PROVE Passing(<<>>, f, hit) = <<>>
  <2>1. Where(<<>>, f, hit) = {}
    BY DEF Where
  <2>2. Passing(<<>>, f, hit) = InOrder({})
    BY <1>2, <2>1, PassingFacts
  <2>3. QED
    BY <2>2, InOrderNone
<1>4. LogOK(new)
  BY <1>1, <1>2, <1>3 DEF LogOK
<1>5. QED
  BY <1>1, <1>4 DEF new

(* An empty model that takes a batch holds the batch.                      *)
LEMMA BatchFacts ==
  ASSUME NEW log, LogOK(log), log.entries = <<>>, NEW lines \in Seq(Entry), Len(lines) <= Cap
  PROVE  LogOK(addBatch(log, lines)) /\ addBatch(log, lines).entries = lines
<1>1. CASE lines = <<>>
  BY <1>1 DEF addBatch
<1>2. CASE lines # <<>>
  <2> DEFINE new == [log EXCEPT !.entries = lines]
  <2>1. Newest(<<>> \o lines) = lines
    <3>1. <<>> \o lines = lines /\ Len(lines) \in Nat /\ Cap \in Nat
      BY LogModelAssumption
    <3>2. QED
      BY <3>1 DEF Newest
  <2>2. addBatch(log, lines) = rebuildVisible([log EXCEPT !.entries = Newest(log.entries \o lines)])
    BY <1>2 DEF addBatch
  <2>3. [log EXCEPT !.entries = Newest(log.entries \o lines)] = new
    BY <2>1
  <2>4. DOMAIN new = LogFields /\ new.entries = lines
    BY DEF LogOK, LogFields
  <2> HIDE DEF new
  <2>5. LogOK(rebuildVisible(new)) /\ rebuildVisible(new).entries = new.entries
    BY <2>4, RebuiltFacts
  <2>6. QED
    BY <2>2, <2>3, <2>4, <2>5
<1>3. QED
  BY <1>1, <1>2

-----------------------------------------------------------------------------
(* The lines of one run in the history of its command.                     *)
OfRun(h, q) == {i \in DOMAIN h : h[i].run \in {q, 0}}
Slice(h, q) == Picked(h, OfRun(h, q))

(* A set of numbers up to n is finite and has n at most.                   *)
LEMMA UpToIs ==
  ASSUME NEW n \in Nat, NEW I \in SUBSET (1..n)
  PROVE  IsFiniteSet(I) /\ Cardinality(I) <= n /\ Cardinality(I) \in Nat
<1> DEFINE a == 1..n
<1>1. 1 \in Int /\ n \in Int
  OBVIOUS
<1>2. IsFiniteSet(a) /\ Cardinality(a) = IF 1 > n THEN 0 ELSE n - 1 + 1
  BY FS_Interval
<1>3. Cardinality(a) = n
  BY <1>2
<1> HIDE DEF a
<1>4. I \in SUBSET a
  BY DEF a
<1>5. IsFiniteSet(I) /\ Cardinality(I) <= Cardinality(a)
  BY <1>2, <1>4, FS_Subset
<1>6. Cardinality(I) \in Nat
  BY <1>5, FS_CardinalityType
<1>7. QED
  BY <1>3, <1>5, <1>6

(* The lines of a run are lines of the history, in their order.            *)
LEMMA SliceFacts ==
  ASSUME NEW h \in Seq(Entry), NEW q
  PROVE  /\ OfRun(h, q) \in SUBSET (1..Len(h))
         /\ Slice(h, q) \in Seq(Entry) /\ Len(Slice(h, q)) <= Len(h)
         /\ \A i \in 1..Len(Slice(h, q)) : Slice(h, q)[i].run \in {q, 0}
         /\ \A m : InTime(h, m) => InTime(Slice(h, q), m)
<1> DEFINE I == OfRun(h, q) s == Slice(h, q) at == InOrder(I)
<1>1. I \in SUBSET (1..Len(h)) /\ Len(h) \in Nat /\ DOMAIN h = 1..Len(h)
  BY DEF OfRun
<1>2. \A i \in I : h[i].run \in {q, 0}
  BY DEF OfRun
<1> HIDE DEF I
<1>3. s \in Seq(Entry) /\ Len(s) = Cardinality(I)
  BY <1>1, PickedFacts DEF I, Slice
<1>4. /\ at \in [1..Len(at) -> I] /\ Len(at) \in Nat /\ DOMAIN at = 1..Len(at) /\ Len(at) = Cardinality(I)
      /\ Increasing(at)
  BY <1>1, InOrderList
<1>5. Len(s) = Len(at) /\ \A k \in 1..Len(at) : s[k] = h[at[k]]
  <2>1. s = [k \in 1..Len(at) |-> h[at[k]]]
    BY <1>4 DEF Slice, Picked, I
  <2>2. QED
    BY <1>3, <1>4, <2>1
<1>6. Cardinality(I) <= Len(h)
  BY <1>1, UpToIs
<1> HIDE DEF s, at
<1>7. \A k \in 1..Len(s) : s[k].run \in {q, 0}
  BY <1>2, <1>4, <1>5
<1>8. ASSUME NEW m, InTime(h, m) PROVE InTime(s, m)
  <2>1. ASSUME NEW i \in 1..Len(s), NEW j \in 1..Len(s), i < j PROVE s[i].n < s[j].n
    <3>1. at[i] < at[j] /\ at[i] \in 1..Len(h) /\ at[j] \in 1..Len(h)
      BY <1>1, <1>4, <1>5, <2>1 DEF Increasing
    <3>2. h[at[i]].n < h[at[j]].n
      BY <1>8, <3>1 DEF InTime
    <3>3. QED
      BY <1>5, <3>2
  <2>2. ASSUME NEW i \in 1..Len(s) PROVE s[i].n <= m
    BY <1>1, <1>4, <1>5, <1>8 DEF InTime
  <2>3. QED
    BY <2>1, <2>2 DEF InTime
<1>9. QED
  BY <1>1, <1>3, <1>6, <1>7, <1>8 DEF s, I

(* A line of the run is added to its lines, any other is not.              *)
LEMMA SliceAppend ==
  ASSUME NEW h \in Seq(Entry), NEW e \in Entry, NEW q
  PROVE  Slice(Append(h, e), q) = IF e.run \in {q, 0} THEN Append(Slice(h, q), e) ELSE Slice(h, q)
<1> DEFINE u == Append(h, e) I == OfRun(h, q)
<1>1. u \in Seq(Entry) /\ Len(u) = Len(h) + 1 /\ Len(h) \in Nat /\ u[Len(h) + 1] = e
      /\ \A i \in 1..Len(h) : u[i] = h[i]
  BY AppendIs
<1>2. I \in SUBSET (1..Len(h))
  BY SliceFacts
<1>3. OfRun(u, q) = IF e.run \in {q, 0} THEN I \cup {Len(h) + 1} ELSE I
  <2>1. DOMAIN u = 1..(Len(h) + 1) /\ DOMAIN h = 1..Len(h)
    BY <1>1
  <2>2. \A i \in 1..(Len(h) + 1) : i \in 1..Len(h) \/ i = Len(h) + 1
    BY <1>1
  <2>3. \A i \in 1..Len(h) : i \in 1..(Len(h) + 1)
    BY <1>1
  <2>4. Len(h) + 1 \in 1..(Len(h) + 1)
    BY <1>1
  <2> HIDE DEF u
  <2>5. QED
    BY <1>1, <2>1, <2>2, <2>3, <2>4 DEF OfRun
<1> HIDE DEF I
<1>4. /\ Picked(u, I) = Picked(h, I)
      /\ Picked(u, I \cup {Len(h) + 1}) = Append(Picked(h, I), e)
  BY <1>2, PickedAppend
<1> HIDE DEF u
<1>5. QED
  BY <1>3, <1>4 DEF Slice, I, u

(* What falls out of the history falls out of the run's lines first.       *)
LEMMA SliceTail ==
  ASSUME NEW h \in Seq(Entry), h # <<>>, NEW q
  PROVE  EndsIn(Slice(h, q), Slice(Tail(h), q))
<1> DEFINE t == Tail(h) I == OfRun(h, q) J == OfRun(t, q) n == Len(t)
           v == InOrder(I) w == InOrder(J) s == Slice(h, q) r == Slice(t, q)
<1>1. t \in Seq(Entry) /\ Len(h) = n + 1 /\ n \in Nat /\ \A i \in 1..n : t[i] = h[i + 1]
  BY TailIs
<1> HIDE DEF t
<1>2. I \in SUBSET (1..(n + 1)) /\ J \in SUBSET (1..n) /\ s \in Seq(Entry) /\ r \in Seq(Entry)
  BY <1>1, SliceFacts
<1>3. Shifted(n, I, J)
  <2>1. DOMAIN t = 1..n /\ DOMAIN h = 1..(n + 1)
    BY <1>1
  <2>2. \A i \in 1..n : i + 1 \in 1..(n + 1)
    BY <1>1
  <2>3. QED
    BY <1>1, <1>2, <2>1, <2>2 DEF OfRun, Shifted
<1>4. /\ Len(v) \in Nat /\ Len(w) \in Nat /\ DOMAIN v = 1..Len(v) /\ DOMAIN w = 1..Len(w)
      /\ w \in [1..Len(w) -> J]
  <2>1. n \in Nat /\ n + 1 \in Nat
    BY <1>1
  <2> HIDE DEF n, I, J
  <2>2. Len(v) \in Nat /\ DOMAIN v = 1..Len(v)
    BY <1>2, <2>1, InOrderList
  <2>3. Len(w) \in Nat /\ DOMAIN w = 1..Len(w) /\ w \in [1..Len(w) -> J]
    BY <1>2, <2>1, InOrderList
  <2>4. QED
    BY <2>2, <2>3
<1>5. s = [k \in 1..Len(v) |-> h[v[k]]] /\ r = [k \in 1..Len(w) |-> t[w[k]]]
  BY <1>4 DEF Slice, Picked
<1> HIDE DEF v, w, I, J, n
<1>6. /\ 1 \in I => Len(v) = Len(w) + 1 /\ \A k \in 1..Len(w) : v[k + 1] = w[k] + 1
      /\ 1 \notin I => Len(v) = Len(w) /\ \A k \in 1..Len(w) : v[k] = w[k] + 1
  BY <1>1, <1>3, InOrderShift DEF v, w
<1> HIDE DEF s, r
<1>7. Len(s) = Len(v) /\ Len(r) = Len(w) /\ (\A k \in 1..Len(v) : s[k] = h[v[k]])
      /\ \A k \in 1..Len(w) : r[k] = h[w[k] + 1]
  <2>1. Len(s) = Len(v) /\ DOMAIN s = 1..Len(v)
    BY <1>2, <1>4, <1>5
  <2>2. Len(r) = Len(w) /\ DOMAIN r = 1..Len(w)
    BY <1>2, <1>4, <1>5
  <2>3. \A k \in 1..Len(w) : w[k] \in 1..n
    BY <1>2, <1>4
  <2>4. QED
    BY <1>1, <1>5, <2>1, <2>2, <2>3
<1>8. CASE 1 \in I
  <2>1. Len(s) = Len(r) + 1 /\ Len(r) \in Nat
    BY <1>4, <1>6, <1>7, <1>8
  <2>2. ASSUME NEW k \in 1..Len(r) PROVE r[k] = s[(Len(s) - Len(r)) + k]
    <3>1. (Len(s) - Len(r)) + k = k + 1 /\ k + 1 \in 1..Len(s)
      BY <2>1
    <3>2. k + 1 \in 1..Len(v) /\ k \in 1..Len(w)
      BY <1>7, <3>1
    <3>3. QED
      BY <1>6, <1>7, <1>8, <3>1, <3>2, SMTT(30)
  <2>3. QED
    BY <2>1, <2>2 DEF EndsIn, s, r, t
<1>9. CASE 1 \notin I
  <2>1. Len(s) = Len(r) /\ Len(r) \in Nat
    BY <1>4, <1>6, <1>7, <1>9
  <2>2. ASSUME NEW k \in 1..Len(r) PROVE r[k] = s[(Len(s) - Len(r)) + k]
    <3>1. (Len(s) - Len(r)) + k = k /\ k \in 1..Len(s)
      BY <2>1
    <3>2. k \in 1..Len(v) /\ k \in 1..Len(w)
      BY <1>7, <3>1
    <3>3. QED
      BY <1>6, <1>7, <1>9, <3>1, <3>2
  <2>3. QED
    BY <2>1, <2>2 DEF EndsIn, s, r, t
<1>10. QED
  BY <1>8, <1>9

(* One more line, after room was made for it.                              *)
Roomy(s) == IF Len(s) >= Cap THEN Tail(s) ELSE s

(* Room for one line: a list at the cap gives up its oldest.               *)
LEMMA RoomyIs ==
  ASSUME NEW s \in Seq(Entry), Len(s) <= Cap
  PROVE  /\ Roomy(s) \in Seq(Entry) /\ Len(Roomy(s)) < Cap /\ Len(Roomy(s)) \in Nat
         /\ EndsIn(s, Roomy(s))
         /\ \A m : InTime(s, m) => InTime(Roomy(s), m)
         /\ \A q : EndsIn(Slice(s, q), Slice(Roomy(s), q))
         /\ \A i \in 1..Len(Roomy(s)) : \E j \in 1..Len(s) : Roomy(s)[i] = s[j]
         /\ \A e \in Entry : Newest(Append(s, e)) = Append(Roomy(s), e)
<1>0. Cap \in Nat /\ Cap > 0 /\ Len(s) \in Nat
  BY LogModelAssumption
<1>1. CASE Len(s) >= Cap
  <2> DEFINE t == Tail(s)
  <2>1. s # <<>>
    BY <1>0, <1>1
  <2>2. t \in Seq(Entry) /\ Len(s) = Len(t) + 1 /\ Len(t) \in Nat /\ \A i \in 1..Len(t) : t[i] = s[i + 1]
    BY <2>1, TailIs
  <2>3. EndsIn(s, t) /\ \A q : EndsIn(Slice(s, q), Slice(t, q))
    BY <2>1, EndsTail, SliceTail
  <2>4. ASSUME NEW e \in Entry PROVE Newest(Append(s, e)) = Append(t, e)
    <3>1. Len(Append(s, e)) = Cap + 1
      BY <1>0, <1>1
    <3>2. Newest(Append(s, e)) = SubSeq(Append(s, e), 2, Cap + 1)
      BY <1>0, <3>1 DEF Newest
    <3>3. Len(s) = Cap
      BY <1>0, <1>1
    <3>4. SubSeq(Append(s, e), 2, Len(s) + 1) = Append(SubSeq(s, 2, Len(s)), e)
      BY <1>0, <3>3, SubSeqAppend
    <3>5. SubSeq(s, 2, Len(s)) = t
      BY <2>1
    <3>6. QED
      BY <3>2, <3>3, <3>4, <3>5
  <2>5. Roomy(s) = t
    BY <1>1 DEF Roomy
  <2> HIDE DEF t
  <2>6. Len(t) < Cap
    BY <1>0, <2>2
  <2>7. \A i \in 1..Len(t) : i + 1 \in 1..Len(s)
    BY <2>2
  <2>8. ASSUME NEW m, InTime(s, m) PROVE InTime(t, m)
    <3>1. ASSUME NEW i \in 1..Len(t), NEW j \in 1..Len(t), i < j PROVE t[i].n < t[j].n
      <4>1. i + 1 < j + 1
        BY <3>1
      <4>2. QED
        BY <2>2, <2>7, <2>8, <4>1 DEF InTime
    <3>2. ASSUME NEW i \in 1..Len(t) PROVE t[i].n <= m
      BY <2>2, <2>7, <2>8 DEF InTime
    <3>3. QED
      BY <3>1, <3>2 DEF InTime
  <2>9. QED
    BY <2>2, <2>3, <2>4, <2>5, <2>6, <2>7, <2>8
<1>2. CASE ~(Len(s) >= Cap)
  <2>1. Roomy(s) = s
    BY <1>2 DEF Roomy
  <2>2. EndsIn(s, s) /\ \A q : EndsIn(Slice(s, q), Slice(s, q))
    BY EndsItself, SliceFacts
  <2>3. ASSUME NEW e \in Entry PROVE Newest(Append(s, e)) = Append(s, e)
    <3>1. ~(Len(Append(s, e)) > Cap)
      BY <1>0, <1>2
    <3>2. QED
      BY <3>1 DEF Newest
  <2>4. Len(s) < Cap
    BY <1>0, <1>2
  <2>5. QED
    BY <1>0, <2>1, <2>2, <2>3, <2>4
<1>3. QED
  BY <1>1, <1>2

-----------------------------------------------------------------------------
(* The page: its text goes on in time and ends in the rows of the model.   *)
Paged(log, text, pending, said) ==
  /\ said \in Nat
  /\ LogOK(log) /\ InTime(log.entries, said)
  /\ text \in Seq(Entry) /\ pending \in Seq(Entry)
  /\ InTime(text \o pending, said)
  /\ EndsIn(text \o pending, Rows(log))

(* The lines of a list are lines.                                          *)
LEMMA EntriesAre ==
  ASSUME NEW s \in Seq(Entry), NEW i \in 1..Len(s)
  PROVE  s[i] \in Entry /\ s[i].n \in Nat /\ s[i].run \in Nat
<1>1. s[i] \in Entry
  BY SeqIs
<1>2. QED
  BY <1>1 DEF Entry

(* What was in time is in time later on.                                   *)
LEMMA InTimeLater ==
  ASSUME NEW s \in Seq(Entry), NEW m \in Nat, InTime(s, m)
  PROVE  InTime(s, m + 1)
<1>1. \A i \in 1..Len(s) : s[i].n \in Nat
  BY EntriesAre
<1>2. \A i \in 1..Len(s) : s[i].n <= m
  BY DEF InTime
<1>3. \A x \in Nat : x <= m => x <= m + 1
  OBVIOUS
<1>4. QED
  BY <1>1, <1>2, <1>3 DEF InTime

(* The next line comes after all the others.                               *)
LEMMA InTimeAppend ==
  ASSUME NEW s \in Seq(Entry), NEW m \in Nat, InTime(s, m), NEW e \in Entry, e.n = m + 1
  PROVE  InTime(Append(s, e), m + 1)
<1> DEFINE u == Append(s, e) n == Len(s)
<1>1. /\ u \in Seq(Entry) /\ Len(u) = n + 1 /\ n \in Nat /\ u[n + 1] = e
      /\ \A i \in 1..n : u[i] = s[i]
  BY AppendIs
<1>2. \A i \in 1..n : s[i].n \in Nat /\ s[i].n <= m
  BY EntriesAre DEF InTime
<1>3. \A i, j \in 1..n : i < j => s[i].n < s[j].n
  BY DEF InTime
<1> HIDE DEF u, n
<1>4. ASSUME NEW i \in 1..Len(u), NEW j \in 1..Len(u), i < j PROVE u[i].n < u[j].n
  <2>1. i \in 1..n
    BY <1>1, <1>4
  <2>2. CASE j = n + 1
    <3>1. u[j] = e /\ u[i] = s[i]
      BY <1>1, <2>1, <2>2
    <3>2. s[i].n \in Nat /\ s[i].n <= m
      BY <1>2, <2>1
    <3>3. QED
      BY <3>1, <3>2
  <2>3. CASE j # n + 1
    <3>1. j \in 1..n
      BY <1>1, <2>3
    <3>2. QED
      BY <1>1, <1>3, <1>4, <2>1, <3>1
  <2>4. QED
    BY <2>2, <2>3
<1>5. ASSUME NEW i \in 1..Len(u) PROVE u[i].n <= m + 1
  <2>1. CASE i = n + 1
    BY <1>1, <2>1
  <2>2. CASE i # n + 1
    <3>1. i \in 1..n
      BY <1>1, <2>2
    <3>2. u[i] = s[i] /\ s[i].n \in Nat /\ s[i].n <= m
      BY <1>1, <1>2, <3>1
    <3>3. QED
      BY <3>2
  <2>3. QED
    BY <2>1, <2>2
<1>6. QED
  BY <1>4, <1>5 DEF InTime, u

(* A reset page shows what the model holds.                                *)
LEMMA PagedReset ==
  ASSUME NEW log, LogOK(log), NEW said \in Nat, InTime(log.entries, said)
  PROVE  Paged(log, Rows(log), <<>>, said)
<1> DEFINE t == Rows(log)
<1>1. t \in Seq(Entry) /\ InTime(t, said)
  BY RowsFacts
<1>2. <<>> \in Seq(Entry)
  OBVIOUS
<1> HIDE DEF t
<1>3. t \o <<>> = t /\ EndsIn(t, t)
  BY <1>1, EndsItself
<1>4. InTime(t \o <<>>, said) /\ EndsIn(t \o <<>>, t)
  BY <1>1, <1>3
<1>5. Paged(log, t, <<>>, said) <=> TRUE
  BY <1>1, <1>2, <1>4 DEF Paged, t
<1>6. QED
  BY <1>5 DEF t

(* A line that is not shown leaves the page as it is.                      *)
LEMMA PagedLater ==
  ASSUME NEW log, NEW text, NEW pending, NEW said, Paged(log, text, pending, said)
  PROVE  Paged(log, text, pending, said + 1)
<1> DEFINE es == log.entries all == text \o pending
<1>1. /\ said \in Nat /\ said + 1 \in Nat /\ LogOK(log) /\ es \in Seq(Entry) /\ InTime(es, said)
      /\ text \in Seq(Entry) /\ pending \in Seq(Entry) /\ InTime(all, said) /\ EndsIn(all, Rows(log))
  BY DEF Paged, LogOK
<1>2. all \in Seq(Entry)
  BY <1>1
<1> HIDE DEF es, all
<1>3. InTime(es, said + 1) /\ InTime(all, said + 1)
  BY <1>1, <1>2, InTimeLater
<1>4. QED
  BY <1>1, <1>3 DEF Paged, es, all

(* The timer changes nothing of what the page will show.                   *)
LEMMA PagedFlush ==
  ASSUME NEW log, NEW text, NEW pending, NEW said, Paged(log, text, pending, said)
  PROVE  Paged(log, text \o pending, <<>>, said)
<1> DEFINE all == text \o pending
<1>1. /\ said \in Nat /\ LogOK(log) /\ InTime(log.entries, said)
      /\ text \in Seq(Entry) /\ pending \in Seq(Entry) /\ InTime(all, said) /\ EndsIn(all, Rows(log))
  BY DEF Paged
<1>2. all \in Seq(Entry) /\ <<>> \in Seq(Entry)
  BY <1>1
<1> HIDE DEF all
<1>3. all \o <<>> = all
  BY <1>2
<1>4. InTime(all \o <<>>, said) /\ EndsIn(all \o <<>>, Rows(log))
  BY <1>1, <1>3
<1>5. Paged(log, all, <<>>, said)
  BY <1>1, <1>2, <1>4 DEF Paged
<1>6. QED
  BY <1>5 DEF all

(* A line that the model takes waits for the timer, or is filtered away.   *)
LEMMA PagedAdd ==
  ASSUME NEW log, NEW text, NEW pending, NEW said, Paged(log, text, pending, said),
         NEW e \in Entry, e.n = said + 1
  PROVE  Paged(add(log, e), text,
               IF matchesFilter(e, log.filter) = "Shown" THEN Append(pending, e) ELSE pending, said + 1)
<1> DEFINE es == log.entries all == text \o pending new == add(log, e) rows == Rows(log)
           shown == matchesFilter(e, log.filter) = "Shown" 
           next == IF shown THEN Append(pending, e) ELSE pending
           then == IF shown THEN Append(all, e) ELSE all
           last == IF shown THEN Append(rows, e) ELSE rows
<1>1. /\ said \in Nat /\ said + 1 \in Nat /\ LogOK(log) /\ es \in Seq(Entry) /\ Len(es) <= Cap /\ InTime(es, said)
      /\ text \in Seq(Entry) /\ pending \in Seq(Entry) /\ InTime(all, said) /\ EndsIn(all, rows)
  BY DEF Paged, LogOK
<1>2. all \in Seq(Entry) /\ rows \in Seq(Entry)
  BY <1>1, RowsFacts
<1>3. LogOK(new) /\ EndsIn(last, Rows(new)) /\ new.entries = Append(Roomy(es), e)
  BY <1>1, AddFacts DEF Roomy
<1>4. next \in Seq(Entry) /\ text \o next = then
  <2> HIDE DEF shown
  <2>1. CASE shown
    BY <1>1, <2>1
  <2>2. CASE ~shown
    BY <1>1, <2>2
  <2>3. QED
    BY <2>1, <2>2
<1>5. Rows(new) \in Seq(Entry)
  BY <1>3, RowsFacts
<1> HIDE DEF es, all, new, rows, shown
<1>6. InTime(Append(Roomy(es), e), said + 1)
  <2>1. Roomy(es) \in Seq(Entry) /\ InTime(Roomy(es), said)
    BY <1>1, RoomyIs
  <2>2. QED
    BY <1>1, <2>1, InTimeAppend
<1>7. then \in Seq(Entry) /\ last \in Seq(Entry) /\ InTime(then, said + 1) /\ EndsIn(then, last)
  <2>1. CASE shown
    <3>1. then = Append(all, e) /\ last = Append(rows, e)
      BY <2>1
    <3>2. Append(all, e) \in Seq(Entry) /\ Append(rows, e) \in Seq(Entry)
      BY <1>2, AppendIs
    <3>3. InTime(Append(all, e), said + 1)
      BY <1>1, <1>2, InTimeAppend
    <3>4. EndsIn(Append(all, e), Append(rows, e))
      BY <1>1, <1>2, EndsAppend
    <3>5. QED
      BY <3>1, <3>2, <3>3, <3>4
  <2>2. CASE ~shown
    <3>1. then = all /\ last = rows
      BY <2>2
    <3>2. InTime(all, said + 1)
      BY <1>1, <1>2, InTimeLater
    <3>3. QED
      BY <1>1, <1>2, <3>1, <3>2
  <2>3. QED
    BY <2>1, <2>2
<1> HIDE DEF next, then, last
<1>8. EndsIn(then, Rows(new))
  BY <1>3, <1>5, <1>7, EndsTrans
<1>9. Paged(new, text, next, said + 1)
  <2>1. InTime(new.entries, said + 1)
    BY <1>3, <1>6
  <2>2. QED
    BY <1>1, <1>3, <1>4, <1>7, <1>8, <2>1 DEF Paged
<1>10. QED
  BY <1>9 DEF new, next, shown

(* The model holds the end of a run's story, and nothing else.             *)
Showing(es, h, q) ==
  /\ EndsIn(es, Slice(h, q))
  /\ \A i \in 1..Len(es) : es[i].run \in {q, 0}

(* A line of the shown run is taken by both history and model; what the    *)
(* cap takes from the model is no longer in the history's share.           *)
LEMMA ShowingAdd ==
  ASSUME NEW es \in Seq(Entry), Len(es) <= Cap, NEW h \in Seq(Entry), Len(h) <= Cap,
         NEW q, Showing(es, h, q), NEW e \in Entry, e.run \in {q, 0}
  PROVE  Showing(Append(Roomy(es), e), Append(Roomy(h), e), q)
<1> DEFINE r == Roomy(es) g == Roomy(h) s == Slice(h, q) t == Slice(g, q)
<1>1. r \in Seq(Entry) /\ Len(r) \in Nat /\ EndsIn(es, r) /\ \A i \in 1..Len(r) : \E j \in 1..Len(es) : r[i] = es[j]
  BY RoomyIs
<1>2. g \in Seq(Entry) /\ Len(g) < Cap /\ Len(g) \in Nat /\ EndsIn(s, t)
  BY RoomyIs
<1> HIDE DEF r, g
<1>3. s \in Seq(Entry) /\ t \in Seq(Entry) /\ Len(t) <= Len(g)
  BY <1>2, SliceFacts
<1>4. EndsIn(es, s) /\ \A i \in 1..Len(es) : es[i].run \in {q, 0}
  BY DEF Showing
<1> HIDE DEF s, t
<1>5. EndsIn(es, t)
  BY <1>2, <1>3, <1>4, EndsTrans
<1>6. EndsIn(r, t)
  <2>1. CASE Len(es) >= Cap
    <3>1. r = Tail(es)
      BY <2>1 DEF r, Roomy
    <3>2. Len(t) \in Nat /\ Len(es) \in Nat /\ Cap \in Nat
      BY <1>3, LogModelAssumption
    <3>3. Len(t) < Len(es)
      BY <1>2, <1>3, <2>1, <3>2
    <3>4. QED
      BY <1>3, <1>5, <3>1, <3>3, EndsInTail
  <2>2. CASE ~(Len(es) >= Cap)
    BY <1>5, <2>2 DEF r, Roomy
  <2>3. QED
    BY <2>1, <2>2
<1>7. Slice(Append(g, e), q) = Append(t, e)
  BY <1>2, SliceAppend DEF t
<1>8. EndsIn(Append(r, e), Append(t, e))
  BY <1>1, <1>3, <1>6, EndsAppend
<1> DEFINE a == Append(r, e)
<1>9. Len(a) = Len(r) + 1 /\ a[Len(r) + 1] = e /\ \A i \in 1..Len(r) : a[i] = r[i]
  BY <1>1, AppendIs
<1> HIDE DEF a
<1>10. ASSUME NEW i \in 1..Len(a) PROVE a[i].run \in {q, 0}
  <2>1. CASE i = Len(r) + 1
    BY <1>9, <2>1
  <2>2. CASE i # Len(r) + 1
    <3>1. i \in 1..Len(r)
      BY <1>1, <1>9, <2>2
    <3>2. PICK j \in 1..Len(es) : r[i] = es[j]
      BY <1>1, <3>1
    <3>3. QED
      BY <1>4, <1>9, <3>1, <3>2
  <2>3. QED
    BY <2>1, <2>2
<1>11. QED
  BY <1>7, <1>8, <1>10 DEF Showing, a, r, g

(* A line of another run can only make the history forget.                 *)
LEMMA ShowingOther ==
  ASSUME NEW es \in Seq(Entry), NEW h \in Seq(Entry), Len(h) <= Cap,
         NEW q, Showing(es, h, q), NEW e \in Entry, e.run \notin {q, 0}
  PROVE  Showing(es, Append(Roomy(h), e), q)
<1> DEFINE g == Roomy(h) s == Slice(h, q) t == Slice(g, q)
<1>1. g \in Seq(Entry) /\ EndsIn(s, t)
  BY RoomyIs
<1> HIDE DEF g
<1>2. s \in Seq(Entry) /\ t \in Seq(Entry)
  BY <1>1, SliceFacts
<1>3. EndsIn(es, s) /\ \A i \in 1..Len(es) : es[i].run \in {q, 0}
  BY DEF Showing
<1>4. Slice(Append(g, e), q) = t
  BY <1>1, SliceAppend
<1> HIDE DEF s, t
<1>5. EndsIn(es, t)
  BY <1>1, <1>2, <1>3, EndsTrans
<1>6. QED
  BY <1>3, <1>4, <1>5 DEF Showing, g

-----------------------------------------------------------------------------
(* The dashboard's maps.                                                   *)
DashFields == {"histories", "segments", "selection", "selected", "log", "text", "pending", "said"}
Segment == [of : Runs, closedBy : Runs \cup {NoRun}]
Story(h, said) == h \in Seq(Entry) /\ Len(h) <= Cap /\ InTime(h, said)
Stories(histories, said) ==
  DOMAIN histories = Keys /\ \A k \in Keys : Story(histories[k], said)
Segmented(segments, selection) ==
  /\ DOMAIN segments = Keys /\ \A k \in Keys : segments[k] \in Seq(Segment)
  /\ DOMAIN selection \subseteq Keys
  /\ \A k \in DOMAIN selection : selection[k] \in 0..Len(segments[k])
WellKept(d) ==
  /\ DOMAIN d = DashFields /\ d.said \in Nat
  /\ Stories(d.histories, d.said) /\ Segmented(d.segments, d.selection)
Chosen(d) ==
  /\ d.selected \in Keys \cup {NoKey}
  /\ d.selected # NoKey =>
       Showing(d.log.entries, d.histories[d.selected], selectedRunSeq(d, d.selected))
DashOK(d) == WellKept(d) /\ Paged(d.log, d.text, d.pending, d.said) /\ Chosen(d)

(* What a step leaves of the maps.                                         *)
SameMaps(d, new) ==
  /\ DOMAIN new = DashFields /\ new.histories = d.histories /\ new.segments = d.segments
  /\ new.selection = d.selection /\ new.said = d.said

(* A step that leaves the maps leaves them right.                          *)
LEMMA SameMapsKept ==
  ASSUME NEW d, NEW new, WellKept(d), SameMaps(d, new)
  PROVE  WellKept(new)
BY DEF WellKept, SameMaps

(* Two such steps are one.                                                 *)
LEMMA SameMapsTrans ==
  ASSUME NEW a, NEW b, NEW c, SameMaps(a, b), SameMaps(b, c)
  PROVE  SameMaps(a, c)
BY DEF SameMaps

(* A reset changes the model and the page and nothing else.                *)
LEMMA ResetFacts ==
  ASSUME NEW d, WellKept(d), NEW log, LogOK(log), InTime(log.entries, d.said)
  PROVE  /\ SameMaps(d, Reset(d, log)) /\ Reset(d, log).selected = d.selected
         /\ Reset(d, log).log = log
         /\ Paged(Reset(d, log).log, Reset(d, log).text, Reset(d, log).pending, Reset(d, log).said)
<1> DEFINE new == Reset(d, log) said == d.said t == Rows(log)
<1>1. SameMaps(d, new) /\ new.selected = d.selected /\ new.log = log /\ new.text = t
      /\ new.pending = <<>> /\ new.said = said
  BY DEF WellKept, SameMaps, Reset, DashFields
<1>2. said \in Nat
  BY DEF WellKept
<1> HIDE DEF new, said, t
<1>3. Paged(log, t, <<>>, said)
  BY <1>2, PagedReset DEF said, t
<1>4. QED
  BY <1>1, <1>3 DEF new

(* A refill shows the lines of the run it is asked for, and nothing else.  *)
LEMMA RefillFacts ==
  ASSUME NEW d, WellKept(d), LogOK(d.log), NEW k \in Keys, NEW q
  PROVE  /\ SameMaps(d, refillRun(d, k, q)) /\ refillRun(d, k, q).selected = k
         /\ Paged(refillRun(d, k, q).log, refillRun(d, k, q).text,
                  refillRun(d, k, q).pending, refillRun(d, k, q).said)
         /\ Showing(refillRun(d, k, q).log.entries, d.histories[k], q)
<1> DEFINE turned == [d EXCEPT !.selected = k]
           bare == clear(d.log) empty == Reset(turned, bare)
           h == d.histories[k] slice == Slice(h, q)
           full == addBatch(empty.log, slice) new == refillRun(d, k, q)
<1>1. SameMaps(d, turned) /\ turned.selected = k /\ turned.said = d.said
  BY DEF WellKept, SameMaps, DashFields
<1>2. WellKept(turned)
  <2> HIDE DEF turned
  <2>1. QED
    BY <1>1, SameMapsKept
<1>3. LogOK(bare) /\ bare.entries = <<>>
  BY ClearFacts DEF LogOK
<1>4. InTime(bare.entries, d.said)
  BY <1>3 DEF InTime
<1> HIDE DEF turned, bare
<1>5. SameMaps(turned, empty) /\ empty.selected = k /\ empty.log = bare
      /\ Paged(empty.log, empty.text, empty.pending, empty.said)
  BY <1>1, <1>2, <1>3, <1>4, ResetFacts
<1> HIDE DEF empty
<1>6. SameMaps(d, empty) /\ WellKept(empty) /\ empty.said = d.said
  <2>1. SameMaps(d, empty)
    BY <1>1, <1>5, SameMapsTrans
  <2>2. QED
    BY <2>1, SameMapsKept DEF SameMaps
<1>7. h \in Seq(Entry) /\ Len(h) <= Cap /\ InTime(h, d.said)
  BY DEF WellKept, Stories, Story
<1> HIDE DEF h
<1>8. slice \in Seq(Entry) /\ Len(slice) <= Len(h) /\ InTime(slice, d.said)
      /\ \A i \in 1..Len(slice) : slice[i].run \in {q, 0}
  BY <1>7, SliceFacts
<1>9. EndsIn(slice, slice) /\ Len(slice) <= Cap
  <2>1. Len(slice) \in Nat /\ Len(h) \in Nat /\ Cap \in Nat
    BY <1>7, <1>8, LogModelAssumption
  <2> HIDE DEF slice
  <2>2. QED
    BY <1>7, <1>8, <2>1, EndsItself
<1>10. runSlice(turned, k, q) = slice
  <2>1. turned.histories = d.histories
    BY <1>1 DEF SameMaps
  <2>2. QED
    BY <2>1 DEF runSlice, Slice, OfRun, h
<1>11. new = IF slice = <<>> THEN empty ELSE Reset(empty, full)
  <2>1. runSlice(d, k, q) = slice
    BY DEF runSlice, Slice, OfRun, h
  <2>2. QED
    BY <2>1 DEF refillRun, empty, turned, bare
<1>12. Showing(slice, h, q)
  BY <1>8, <1>9 DEF Showing
<1> HIDE DEF slice, new
<1>13. CASE slice = <<>>
  <2>1. new = empty /\ new.log.entries = slice
    BY <1>3, <1>5, <1>11, <1>13
  <2>2. QED
    BY <1>5, <1>6, <1>12, <2>1 DEF new, h
<1>14. CASE slice # <<>>
  <2>1. LogOK(full) /\ full.entries = slice
    BY <1>3, <1>5, <1>8, <1>9, BatchFacts
  <2>2. new = Reset(empty, full)
    BY <1>11, <1>14
  <2>3. InTime(full.entries, empty.said)
    BY <1>6, <1>8, <2>1
  <2> HIDE DEF full
  <2>4. SameMaps(empty, new) /\ new.selected = k /\ new.log = full
        /\ Paged(new.log, new.text, new.pending, new.said)
    BY <1>5, <1>6, <2>1, <2>2, <2>3, ResetFacts
  <2>5. SameMaps(d, new)
    BY <1>6, <2>4, SameMapsTrans
  <2>6. Showing(new.log.entries, h, q)
    BY <1>12, <2>1, <2>4
  <2>7. QED
    BY <2>4, <2>5, <2>6 DEF new, h
<1>15. QED
  BY <1>13, <1>14

(* Choosing a run changes the choice of its command only.                  *)
LEMMA SelectingFacts ==
  ASSUME NEW d, WellKept(d), NEW k \in Keys, NEW q \in 0..Len(d.segments[k])
  PROVE  /\ WellKept(Selecting(d, k, q)) /\ Selecting(d, k, q).histories = d.histories
         /\ Selecting(d, k, q).segments = d.segments /\ Selecting(d, k, q).said = d.said
         /\ Selecting(d, k, q).selected = d.selected /\ Selecting(d, k, q).log = d.log
         /\ Selecting(d, k, q).text = d.text /\ Selecting(d, k, q).pending = d.pending
         /\ \A p : selectedRunSeq(Selecting(d, k, q), p) = IF p = k THEN q ELSE selectedRunSeq(d, p)
<1> DEFINE new == Selecting(d, k, q) old == d.selection sel == new.selection
<1>1. /\ DOMAIN new = DashFields /\ new.histories = d.histories /\ new.segments = d.segments
      /\ new.said = d.said /\ new.selected = d.selected /\ new.log = d.log /\ new.text = d.text
      /\ new.pending = d.pending
      /\ sel = [p \in DOMAIN old \cup {k} |-> IF p = k THEN q ELSE old[p]]
  BY DEF WellKept, Selecting, DashFields
<1>2. /\ DOMAIN old \subseteq Keys /\ \A p \in DOMAIN old : old[p] \in 0..Len(d.segments[p])
      /\ DOMAIN d.segments = Keys /\ \A p \in Keys : d.segments[p] \in Seq(Segment)
  BY DEF WellKept, Segmented
<1> HIDE DEF new, old, sel
<1>3. Segmented(d.segments, sel)
  BY <1>1, <1>2 DEF Segmented
<1>4. WellKept(new)
  <2>1. d.said \in Nat /\ Stories(d.histories, d.said)
    BY DEF WellKept
  <2>2. Segmented(new.segments, new.selection)
    BY <1>1, <1>3 DEF sel
  <2>3. QED
    BY <1>1, <2>1, <2>2 DEF WellKept
<1>5. ASSUME NEW p PROVE selectedRunSeq(new, p) = IF p = k THEN q ELSE selectedRunSeq(d, p)
  <2>1. latestRunSeq(new, p) = latestRunSeq(d, p)
    BY <1>1 DEF latestRunSeq
  <2>2. QED
    BY <1>1, <2>1 DEF selectedRunSeq, sel, old
<1>6. QED
  BY <1>1, <1>4, <1>5 DEF new

(* Showing a run keeps the dashboard right.                                *)
LEMMA ShowRunFacts ==
  ASSUME NEW d, WellKept(d), LogOK(d.log), NEW k \in Keys, NEW q \in 0..Len(d.segments[k])
  PROVE  DashOK(showRun(d, k, q)) /\ showRun(d, k, q).segments = d.segments
<1> DEFINE at == Selecting(d, k, q) new == refillRun(at, k, q)
<1>1. WellKept(at) /\ LogOK(at.log) /\ at.segments = d.segments /\ selectedRunSeq(at, k) = q
  BY SelectingFacts
<1> HIDE DEF at
<1>2. /\ SameMaps(at, new) /\ new.selected = k
      /\ Paged(new.log, new.text, new.pending, new.said)
      /\ Showing(new.log.entries, at.histories[k], q)
  BY <1>1, RefillFacts
<1> HIDE DEF new
<1>3. WellKept(new)
  BY <1>1, <1>2, SameMapsKept
<1>4. new.segments = d.segments /\ new.histories = at.histories /\ selectedRunSeq(new, k) = q
  BY <1>1, <1>2 DEF SameMaps, selectedRunSeq, latestRunSeq
<1>5. Chosen(new)
  BY <1>2, <1>4 DEF Chosen
<1>6. DashOK(new)
  BY <1>2, <1>3, <1>5 DEF DashOK
<1>7. QED
  BY <1>4, <1>6 DEF showRun, new, at

(* So does selecting a command, or none.                                   *)
LEMMA SelectCommandFacts ==
  ASSUME NEW d, WellKept(d), LogOK(d.log), NEW k \in Keys \cup {NoKey}
  PROVE  DashOK(selectCommand(d, k)) /\ selectCommand(d, k).segments = d.segments
<1>1. CASE k = NoKey
  <2> DEFINE none == [d EXCEPT !.selected = NoKey] bare == clear(d.log) new == Reset(none, bare)
  <2>1. SameMaps(d, none) /\ none.selected = NoKey /\ none.said = d.said
    BY DEF WellKept, SameMaps, DashFields
  <2> HIDE DEF none
  <2>2. WellKept(none)
    BY <2>1, SameMapsKept
  <2>3. LogOK(bare) /\ bare.entries = <<>>
    BY ClearFacts DEF LogOK
  <2> HIDE DEF bare
  <2>4. InTime(bare.entries, none.said)
    BY <2>3 DEF InTime
  <2>5. /\ SameMaps(none, new) /\ new.selected = NoKey
        /\ Paged(new.log, new.text, new.pending, new.said)
    BY <2>1, <2>2, <2>3, <2>4, ResetFacts
  <2>6. selectCommand(d, k) = new
    BY <1>1 DEF selectCommand, none, bare
  <2> HIDE DEF new
  <2>7. WellKept(new)
    BY <2>2, <2>5, SameMapsKept
  <2>8. DashOK(new) /\ new.segments = d.segments
    BY <2>1, <2>5, <2>7 DEF DashOK, Chosen, SameMaps
  <2>9. QED
    BY <2>6, <2>8
<1>2. CASE k # NoKey
  <2> DEFINE q == latestRunSeq(d, k)
  <2>1. k \in Keys
    BY <1>2
  <2>2. q \in 0..Len(d.segments[k])
    <3>1. d.segments[k] \in Seq(Segment)
      BY <2>1 DEF WellKept, Segmented
    <3>2. Len(d.segments[k]) \in Nat
      BY <3>1
    <3>3. QED
      BY <3>2 DEF latestRunSeq
  <2> HIDE DEF q
  <2>3. DashOK(showRun(d, k, q)) /\ showRun(d, k, q).segments = d.segments
    BY <2>1, <2>2, ShowRunFacts
  <2>4. QED
    BY <1>2, <2>3 DEF selectCommand, q
<1>3. QED
  BY <1>1, <1>2

(* One more line leaves every history in its order and under the cap.      *)
LEMMA StoriesLater ==
  ASSUME NEW histories, NEW said \in Nat, Stories(histories, said), NEW k \in Keys,
         NEW e \in Entry, e.n = said + 1
  PROVE  Stories([histories EXCEPT ![k] = Newest(Append(@, e))], said + 1)
<1> DEFINE new == [histories EXCEPT ![k] = Newest(Append(@, e))]
<1>1. DOMAIN histories = Keys /\ \A p \in Keys : Story(histories[p], said)
  BY DEF Stories
<1>2. DOMAIN new = Keys /\ new[k] = Newest(Append(histories[k], e))
      /\ \A p \in Keys : p # k => new[p] = histories[p]
  BY <1>1
<1> HIDE DEF new
<1>3. ASSUME NEW p \in Keys PROVE Story(new[p], said + 1)
  <2> DEFINE h == histories[p]
  <2>1. h \in Seq(Entry) /\ Len(h) <= Cap /\ InTime(h, said)
    BY <1>1 DEF Story
  <2> HIDE DEF h
  <2>2. CASE p = k
    <3> DEFINE r == Roomy(h) a == Append(r, e)
    <3>1. r \in Seq(Entry) /\ Len(r) < Cap /\ Len(r) \in Nat /\ InTime(r, said)
          /\ Newest(Append(h, e)) = a
      BY <2>1, RoomyIs
    <3> HIDE DEF r
    <3>2. a \in Seq(Entry) /\ Len(a) = Len(r) + 1
      BY <3>1, AppendIs
    <3>3. InTime(a, said + 1)
      BY <3>1, InTimeAppend
    <3> HIDE DEF a
    <3>4. Len(a) <= Cap
      BY <3>1, <3>2, LogModelAssumption
    <3>5. new[p] = a
      BY <1>2, <2>2, <3>1 DEF h
    <3>6. QED
      BY <3>2, <3>3, <3>4, <3>5 DEF Story
  <2>3. CASE p # k
    <3>1. InTime(h, said + 1)
      BY <2>1, InTimeLater
    <3>2. QED
      BY <1>2, <2>1, <2>3, <3>1 DEF Story, h
  <2>4. QED
    BY <2>2, <2>3
<1>4. QED
  BY <1>2, <1>3 DEF Stories, new

(* appendRunLine keeps the dashboard right: a line goes to the model       *)
(* exactly when it is of the run the model shows.                          *)
LEMMA AppendLineFacts ==
  ASSUME NEW d, DashOK(d), NEW k \in Keys, NEW kind \in Kinds, NEW run \in Nat,
         run = 0 => selectedRunSeq(d, k) = 0
  PROVE  DashOK(appendRunLine(d, k, kind, run)) /\ appendRunLine(d, k, kind, run).segments = d.segments
<1> DEFINE said == d.said 
           e == [n |-> said + 1, run |-> run, parsed |-> parse(kind), hit |-> kind.hit]
           kept == [d EXCEPT !.said = @ + 1, !.histories[k] = Newest(Append(@, e))]
           more == Added(kept, e)
           q == selectedRunSeq(d, d.selected)
           log == d.log h == d.histories[d.selected]
           seen == IF matchesFilter(e, log.filter) = "Shown" THEN Append(d.pending, e) ELSE d.pending
           new == appendRunLine(d, k, kind, run)
<1>1. WellKept(d) /\ Paged(log, d.text, d.pending, said) /\ Chosen(d) /\ said \in Nat
  BY DEF DashOK, WellKept
<1>2. e \in Entry /\ e.n = said + 1 /\ e.run = run
  BY <1>1 DEF Entry
<1> HIDE DEF e
<1>3. /\ DOMAIN kept = DashFields /\ kept.said = said + 1
      /\ kept.histories = [d.histories EXCEPT ![k] = Newest(Append(@, e))]
      /\ kept.segments = d.segments /\ kept.selection = d.selection /\ kept.selected = d.selected
      /\ kept.log = log /\ kept.text = d.text /\ kept.pending = d.pending
  BY <1>1 DEF WellKept, DashFields
<1>4. new = IF k = d.selected /\ run = selectedRunSeq(d, k) THEN more ELSE kept
  BY DEF appendRunLine, e
<1> HIDE DEF kept, new
<1>5. /\ DOMAIN more = DashFields /\ more.said = said + 1 /\ more.histories = kept.histories
      /\ more.segments = d.segments /\ more.selection = d.selection /\ more.selected = d.selected
      /\ more.log = add(log, e) /\ more.text = d.text /\ more.pending = seen
  BY <1>3 DEF Added, DashFields
<1>6. Stories(d.histories, said) /\ Segmented(d.segments, d.selection)
  BY <1>1 DEF WellKept
<1>7. said + 1 \in Nat
  BY <1>1
<1>8. Stories(kept.histories, said + 1)
  BY <1>1, <1>2, <1>3, <1>6, StoriesLater
<1> HIDE DEF more, said
<1>9. WellKept(kept) /\ WellKept(more)
  BY <1>3, <1>5, <1>6, <1>7, <1>8 DEF WellKept
<1>10. LogOK(log) /\ log.entries \in Seq(Entry) /\ Len(log.entries) <= Cap
  BY <1>1 DEF Paged, LogOK
<1> HIDE DEF log, seen, q
<1>11. selectedRunSeq(kept, d.selected) = q /\ selectedRunSeq(more, d.selected) = q
  BY <1>3, <1>5 DEF selectedRunSeq, latestRunSeq, q
<1>12. ASSUME d.selected # NoKey
       PROVE  /\ d.selected \in Keys /\ h \in Seq(Entry) /\ Len(h) <= Cap /\ Showing(log.entries, h, q)
              /\ kept.histories[d.selected] = IF k = d.selected THEN Append(Roomy(h), e) ELSE h
  <2>1. d.selected \in Keys /\ Showing(log.entries, h, q)
    BY <1>1, <1>12 DEF Chosen, log, q
  <2>2. DOMAIN d.histories = Keys /\ Story(h, said)
    BY <1>6, <2>1 DEF Stories
  <2>3. h \in Seq(Entry) /\ Len(h) <= Cap
    BY <2>2 DEF Story
  <2>4. kept.histories[d.selected] = IF k = d.selected THEN Newest(Append(h, e)) ELSE h
    BY <1>3, <2>1, <2>2
  <2> HIDE DEF h
  <2>5. Newest(Append(h, e)) = Append(Roomy(h), e)
    BY <1>2, <2>3, RoomyIs
  <2>6. QED
    BY <2>1, <2>3, <2>4, <2>5
<1> HIDE DEF h
<1>13. CASE k = d.selected /\ run = selectedRunSeq(d, k)
  <2>1. new = more
    BY <1>4, <1>13
  <2>2. Paged(more.log, more.text, more.pending, more.said)
    <3>1. Paged(log, d.text, d.pending, said) /\ e \in Entry /\ e.n = said + 1
      BY <1>1, <1>2
    <3>2. Paged(add(log, e), d.text, seen, said + 1)
      BY <3>1, PagedAdd DEF seen
    <3>3. QED
      BY <1>5, <3>2
  <2>3. Chosen(more)
    <3>1. d.selected \in Keys \cup {NoKey}
      BY <1>1 DEF Chosen
    <3>2. ASSUME d.selected # NoKey PROVE Showing(add(log, e).entries, kept.histories[d.selected], q)
      <4>1. add(log, e).entries = Append(Roomy(log.entries), e)
        BY <1>2, <1>10, AddFacts DEF Roomy
      <4>2. e.run \in {q, 0}
        BY <1>2, <1>13 DEF q
      <4> DEFINE es == log.entries
      <4>3. es \in Seq(Entry) /\ Len(es) <= Cap /\ h \in Seq(Entry) /\ Len(h) <= Cap /\ Showing(es, h, q)
        BY <1>10, <1>12, <3>2
      <4> HIDE DEF es
      <4>4. Showing(Append(Roomy(es), e), Append(Roomy(h), e), q)
        BY <1>2, <4>2, <4>3, ShowingAdd
      <4>5. kept.histories[d.selected] = Append(Roomy(h), e)
        BY <1>12, <1>13, <3>2
      <4>6. QED
        BY <4>1, <4>4, <4>5 DEF es
    <3>3. QED
      BY <1>5, <1>11, <3>1, <3>2 DEF Chosen
  <2>4. QED
    BY <1>5, <1>9, <2>1, <2>2, <2>3 DEF DashOK, new
<1>14. CASE ~(k = d.selected /\ run = selectedRunSeq(d, k))
  <2>1. new = kept
    BY <1>4, <1>14
  <2>2. Paged(kept.log, kept.text, kept.pending, kept.said)
    <3>1. Paged(log, d.text, d.pending, said)
      BY <1>1
    <3>2. Paged(log, d.text, d.pending, said + 1)
      BY <3>1, PagedLater
    <3>3. QED
      BY <1>3, <3>2 DEF log
  <2>3. Chosen(kept)
    <3>1. d.selected \in Keys \cup {NoKey}
      BY <1>1 DEF Chosen
    <3>2. ASSUME d.selected # NoKey PROVE Showing(log.entries, kept.histories[d.selected], q)
      <4> DEFINE es == log.entries
      <4>1. es \in Seq(Entry) /\ Len(es) <= Cap /\ h \in Seq(Entry) /\ Len(h) <= Cap /\ Showing(es, h, q)
        BY <1>10, <1>12, <3>2
      <4> HIDE DEF es
      <4>2. CASE k = d.selected
        <5>1. run # q
          BY <1>14, <4>2 DEF q
        <5>2. run = 0 => q = 0
          BY <4>2 DEF q
        <5>3. e.run \notin {q, 0}
          BY <1>2, <5>1, <5>2
        <5>4. Showing(es, Append(Roomy(h), e), q)
          BY <1>2, <4>1, <5>3, ShowingOther
        <5>5. QED
          BY <1>12, <3>2, <4>2, <5>4 DEF es
      <4>3. CASE k # d.selected
        BY <1>12, <3>2, <4>1, <4>3 DEF es
      <4>4. QED
        BY <4>2, <4>3
    <3>3. QED
      BY <1>3, <1>11, <3>1, <3>2 DEF Chosen, log
  <2>4. QED
    BY <1>3, <1>9, <2>1, <2>2, <2>3 DEF DashOK, new
<1>15. QED
  BY <1>13, <1>14

-----------------------------------------------------------------------------
(* A run begins and ends.                                                  *)
OpenIn(segs) == {i \in DOMAIN segs : segs[i].closedBy = NoRun}

(* A new segment leaves everything else as it was.                         *)
LEMMA OpenedFacts ==
  ASSUME NEW d, WellKept(d), NEW k \in Keys, NEW s \in Segment
  PROVE  /\ WellKept([d EXCEPT !.segments[k] = Append(@, s)])
         /\ [d EXCEPT !.segments[k] = Append(@, s)].segments = [d.segments EXCEPT ![k] = Append(@, s)]
         /\ [d EXCEPT !.segments[k] = Append(@, s)].histories = d.histories
         /\ [d EXCEPT !.segments[k] = Append(@, s)].selection = d.selection
         /\ [d EXCEPT !.segments[k] = Append(@, s)].selected = d.selected
         /\ [d EXCEPT !.segments[k] = Append(@, s)].said = d.said
         /\ [d EXCEPT !.segments[k] = Append(@, s)].log = d.log
         /\ [d EXCEPT !.segments[k] = Append(@, s)].text = d.text
         /\ [d EXCEPT !.segments[k] = Append(@, s)].pending = d.pending
<1> DEFINE new == [d EXCEPT !.segments[k] = Append(@, s)]
           old == d.segments segs == new.segments
<1>4. /\ DOMAIN new = DashFields /\ new.histories = d.histories /\ new.selection = d.selection
      /\ new.said = d.said /\ segs = [old EXCEPT ![k] = Append(@, s)]
      /\ new.selected = d.selected /\ new.log = d.log /\ new.text = d.text /\ new.pending = d.pending
  BY DEF WellKept, DashFields
<1>5. /\ DOMAIN old = Keys /\ \A p \in Keys : old[p] \in Seq(Segment)
      /\ DOMAIN d.selection \subseteq Keys
      /\ \A p \in DOMAIN d.selection : d.selection[p] \in 0..Len(old[p])
  BY DEF WellKept, Segmented
<1> HIDE DEF new, old, segs
<1>6. DOMAIN segs = Keys /\ segs[k] = Append(old[k], s) /\ \A p \in Keys : p # k => segs[p] = old[p]
  BY <1>4, <1>5
<1>7. segs[k] \in Seq(Segment) /\ Len(segs[k]) = Len(old[k]) + 1 /\ Len(old[k]) \in Nat
  BY <1>5, <1>6
<1>8. \A p \in Keys : segs[p] \in Seq(Segment)
  BY <1>5, <1>6, <1>7
<1>9. ASSUME NEW p \in DOMAIN d.selection PROVE d.selection[p] \in 0..Len(segs[p])
  <2>1. d.selection[p] \in 0..Len(old[p]) /\ p \in Keys
    BY <1>5
  <2>2. CASE p = k
    BY <1>7, <2>1, <2>2
  <2>3. CASE p # k
    BY <1>6, <2>1, <2>3
  <2>4. QED
    BY <2>2, <2>3
<1>10. Segmented(segs, d.selection)
  BY <1>5, <1>6, <1>8, <1>9 DEF Segmented
<1>11. WellKept(new)
  <2>1. d.said \in Nat /\ Stories(d.histories, d.said)
    BY DEF WellKept
  <2>2. Segmented(new.segments, new.selection)
    BY <1>4, <1>10 DEF segs
  <2>3. QED
    BY <1>4, <2>1, <2>2 DEF WellKept
<1>12. QED
  BY <1>4, <1>11 DEF new, old, segs

(* startRun keeps the dashboard right, and opens one segment.              *)
LEMMA StartFacts ==
  ASSUME NEW d, DashOK(d), NEW r \in Runs, NEW echo \in Kinds
  PROVE  /\ DashOK(startRun(d, r, echo))
         /\ startRun(d, r, echo).segments
              = [d.segments EXCEPT ![KeyOf[r]] = Append(@, [of |-> r, closedBy |-> NoRun])]
<1> DEFINE k == KeyOf[r] s == [of |-> r, closedBy |-> NoRun] seq == latestRunSeq(d, k) + 1
           longer == [d EXCEPT !.segments[k] = Append(@, s)]
           begun == Selecting(longer, k, seq)
           filled == IF k = d.selected THEN refillRun(begun, k, seq) ELSE begun
           segs == [d.segments EXCEPT ![k] = Append(@, s)]
<1>0. startRun(d, r, echo) = appendRunLine(filled, k, echo, seq)
  BY DEF startRun
<1>1. k \in Keys /\ s \in Segment
  BY ConsoleAssumption DEF Segment
<1> HIDE DEF k, s
<1>2. WellKept(d) /\ Paged(d.log, d.text, d.pending, d.said) /\ Chosen(d) /\ LogOK(d.log)
  BY DEF DashOK, Paged
<1>3. WellKept(longer) /\ longer.segments = segs
      /\ longer.histories = d.histories /\ longer.selection = d.selection /\ longer.selected = d.selected
      /\ longer.said = d.said /\ longer.log = d.log /\ longer.text = d.text /\ longer.pending = d.pending
  BY <1>1, <1>2, OpenedFacts
<1>4. seq \in Nat /\ seq # 0 /\ seq = Len(longer.segments[k])
  <2> DEFINE old == d.segments[k]
  <2>1. old \in Seq(Segment) /\ DOMAIN d.segments = Keys
    BY <1>1, <1>2 DEF WellKept, Segmented
  <2>2. longer.segments[k] = Append(old, s)
    BY <1>1, <1>3, <2>1
  <2> HIDE DEF old
  <2>3. Len(Append(old, s)) = Len(old) + 1 /\ Len(old) \in Nat
    BY <1>1, <2>1
  <2>4. seq = Len(old) + 1
    BY DEF latestRunSeq, old
  <2>5. QED
    BY <2>2, <2>3, <2>4
<1> HIDE DEF longer, seq, segs
<1>5. /\ WellKept(begun) /\ begun.histories = d.histories /\ begun.segments = segs /\ begun.said = d.said
      /\ begun.selected = d.selected /\ begun.log = d.log /\ begun.text = d.text /\ begun.pending = d.pending
      /\ \A p : selectedRunSeq(begun, p) = IF p = k THEN seq ELSE selectedRunSeq(longer, p)
  <2>1. seq \in 0..Len(longer.segments[k])
    BY <1>4
  <2>2. QED
    BY <1>1, <1>3, <2>1, SelectingFacts
<1> HIDE DEF begun
<1>6. DashOK(filled) /\ filled.segments = segs
  <2>1. CASE k = d.selected
    <3> DEFINE new == refillRun(begun, k, seq)
    <3>1. /\ SameMaps(begun, new) /\ new.selected = k
          /\ Paged(new.log, new.text, new.pending, new.said)
          /\ Showing(new.log.entries, begun.histories[k], seq)
      BY <1>1, <1>2, <1>5, RefillFacts
    <3>2. filled = new
      BY <2>1
    <3> HIDE DEF new
    <3>3. WellKept(new)
      BY <1>5, <3>1, SameMapsKept
    <3>4. new.segments = segs /\ new.histories = begun.histories /\ selectedRunSeq(new, k) = seq
      <4>1. selectedRunSeq(begun, k) = seq
        BY <1>5
      <4>2. QED
        BY <1>5, <3>1, <4>1 DEF SameMaps, selectedRunSeq, latestRunSeq
    <3>5. Chosen(new)
      BY <1>1, <3>1, <3>4 DEF Chosen
    <3>6. QED
      BY <3>1, <3>2, <3>3, <3>4, <3>5 DEF DashOK
  <2>2. CASE k # d.selected
    <3>1. filled = begun
      BY <2>2
    <3>2. Paged(begun.log, begun.text, begun.pending, begun.said)
      BY <1>2, <1>5
    <3>3. ASSUME d.selected # NoKey PROVE selectedRunSeq(begun, d.selected) = selectedRunSeq(d, d.selected)
      <4>1. d.selected \in Keys
        BY <1>2, <3>3 DEF Chosen
      <4>2. selectedRunSeq(begun, d.selected) = selectedRunSeq(longer, d.selected)
        BY <1>5, <2>2
      <4>3. DOMAIN d.segments = Keys
        BY <1>2 DEF WellKept, Segmented
      <4>4. longer.segments[d.selected] = d.segments[d.selected]
        BY <1>3, <2>2, <4>1, <4>3 DEF segs
      <4>5. QED
        BY <1>3, <4>2, <4>4 DEF selectedRunSeq, latestRunSeq
    <3>4. Chosen(begun)
      BY <1>2, <1>5, <3>3 DEF Chosen
    <3>5. QED
      BY <1>5, <3>1, <3>2, <3>4 DEF DashOK
  <2>3. QED
    BY <2>1, <2>2
<1> HIDE DEF filled
<1>7. DashOK(appendRunLine(filled, k, echo, seq)) /\ appendRunLine(filled, k, echo, seq).segments = filled.segments
  BY <1>1, <1>4, <1>6, AppendLineFacts
<1>8. QED
  BY <1>0, <1>6, <1>7 DEF segs, k, s

(* The end of a run closes one open segment of its command, if there is.   *)
Closed(new, old, k) ==
  /\ \A p \in Keys : p # k => new[p] = old[p]
  /\ OpenIn(old[k]) = {} => OpenIn(new[k]) = {}
  /\ OpenIn(old[k]) # {} => \E c \in OpenIn(old[k]) : OpenIn(new[k]) = OpenIn(old[k]) \ {c}

(* The segment that an end is put down to is an open one, the last.        *)
LEMMA ClosingFacts ==
  ASSUME NEW d, WellKept(d), NEW r \in Runs
  PROVE  /\ OpenIn(d.segments[KeyOf[r]]) = {} => Closing(d, r) = 0
         /\ OpenIn(d.segments[KeyOf[r]]) # {} => Closing(d, r) \in OpenIn(d.segments[KeyOf[r]]) /\ Closing(d, r) # 0
         /\ Closing(d, r) \in 0..Len(d.segments[KeyOf[r]])
<1> DEFINE k == KeyOf[r] old == d.segments[k] S == OpenIn(old) n == Len(old)
<1>1. k \in Keys
  BY ConsoleAssumption
<1>2. old \in Seq(Segment)
  BY <1>1 DEF WellKept, Segmented
<1>3. Closing(d, r) = IF S = {} THEN 0 ELSE Max(S)
  BY DEF Closing, OpenSegments, OpenIn
<1> HIDE DEF k, old
<1>4. n \in Nat /\ S \in SUBSET (1..n)
  BY <1>2 DEF OpenIn
<1> HIDE DEF S, n
<1>5. S # {} => Max(S) \in S
  BY <1>4, GreatestNat DEF Max
<1>6. S # {} => Max(S) \in 1..n
  BY <1>4, <1>5
<1>7. QED
  BY <1>3, <1>4, <1>5, <1>6 DEF S, n, old, k

(* finishRun keeps the dashboard right, and closes one open segment.       *)
LEMMA FinishFacts ==
  ASSUME NEW d, DashOK(d), NEW r \in Runs
  PROVE  /\ DashOK(finishRun(d, r)) /\ Closed(finishRun(d, r).segments, d.segments, KeyOf[r])
         /\ \A p \in Keys : Len(finishRun(d, r).segments[p]) = Len(d.segments[p])
         /\ finishRun(d, r).selection = d.selection
<1> DEFINE k == KeyOf[r] c == Closing(d, r) old == d.segments was == old[k]
<1>1. k \in Keys /\ r # NoRun
  BY ConsoleAssumption DEF NoRun
<1>2. WellKept(d) /\ Paged(d.log, d.text, d.pending, d.said) /\ Chosen(d)
  BY DEF DashOK
<1>3. /\ OpenIn(was) = {} => c = 0
      /\ OpenIn(was) # {} => c \in OpenIn(was) /\ c # 0
  BY <1>2, ClosingFacts
<1>4. DOMAIN old = Keys /\ \A p \in Keys : old[p] \in Seq(Segment)
  BY <1>2 DEF WellKept, Segmented
<1> HIDE DEF c
<1>5. CASE c = 0
  <2>1. finishRun(d, r) = d
    BY <1>5 DEF finishRun, c
  <2>2. OpenIn(was) = {}
    BY <1>3, <1>5
  <2>3. QED
    BY <2>1, <2>2 DEF Closed
<1>6. CASE c # 0
  <2> DEFINE new == [d EXCEPT !.segments[k][c].closedBy = r] segs == new.segments
             now == [was EXCEPT ![c].closedBy = r]
  <2>1. finishRun(d, r) = new
    BY <1>6 DEF finishRun, c
  <2>2. c \in OpenIn(was)
    BY <1>3, <1>6
  <2>3. was \in Seq(Segment)
    BY <1>1, <1>4
  <2> HIDE DEF was, k
  <2>4. now \in Seq(Segment) /\ Len(now) = Len(was) /\ OpenIn(now) = OpenIn(was) \ {c}
    <3>1. was \in [1..Len(was) -> Segment] /\ Len(was) \in Nat /\ DOMAIN was = 1..Len(was) /\ c \in 1..Len(was)
      BY <2>2, <2>3 DEF OpenIn
    <3>2. [was[c] EXCEPT !.closedBy = r] \in Segment /\ [was[c] EXCEPT !.closedBy = r].closedBy = r
      BY <3>1 DEF Segment
    <3>3. now \in [1..Len(was) -> Segment]
      BY <3>1, <3>2
    <3>4. now \in Seq(Segment) /\ Len(now) = Len(was) /\ DOMAIN now = 1..Len(was)
      BY <3>1, <3>3, IsSeq
    <3>5. \A i \in 1..Len(was) : now[i].closedBy = IF i = c THEN r ELSE was[i].closedBy
      BY <3>1, <3>2
    <3> HIDE DEF now
    <3>6. QED
      BY <1>1, <3>1, <3>4, <3>5 DEF OpenIn
  <2>5. /\ DOMAIN new = DashFields /\ new.histories = d.histories /\ new.selection = d.selection
        /\ new.said = d.said /\ new.selected = d.selected /\ new.log = d.log /\ new.text = d.text
        /\ new.pending = d.pending /\ segs = [old EXCEPT ![k] = now]
    BY <1>2 DEF WellKept, DashFields, was
  <2> HIDE DEF new, segs, now, old
  <2>6. DOMAIN segs = Keys /\ segs[k] = now /\ \A p \in Keys : p # k => segs[p] = old[p]
    BY <1>1, <1>4, <2>5
  <2>7. was = old[k]
    BY DEF was, old
  <2>8. \A p \in Keys : segs[p] \in Seq(Segment) /\ Len(segs[p]) = Len(old[p])
    BY <1>4, <2>4, <2>6, <2>7
  <2>9. DOMAIN d.selection \subseteq Keys /\ \A p \in DOMAIN d.selection : d.selection[p] \in 0..Len(old[p])
    BY <1>2 DEF WellKept, Segmented, old
  <2>10. Segmented(segs, d.selection)
    BY <2>6, <2>8, <2>9 DEF Segmented
  <2>11. WellKept(new)
    <3>1. d.said \in Nat /\ Stories(d.histories, d.said)
      BY <1>2 DEF WellKept
    <3>2. Segmented(new.segments, new.selection)
      BY <2>5, <2>10 DEF segs
    <3>3. QED
      BY <2>5, <3>1, <3>2 DEF WellKept
  <2>12. Chosen(new)
    <3>1. ASSUME d.selected # NoKey PROVE selectedRunSeq(new, d.selected) = selectedRunSeq(d, d.selected)
      <4>1. d.selected \in Keys
        BY <1>2, <3>1 DEF Chosen
      <4>2. Len(new.segments[d.selected]) = Len(d.segments[d.selected])
        BY <2>8, <4>1 DEF segs, old
      <4>3. QED
        BY <2>5, <4>2 DEF selectedRunSeq, latestRunSeq
    <3>2. QED
      BY <1>2, <2>5, <3>1 DEF Chosen
  <2>13. DashOK(new)
    BY <1>2, <2>5, <2>11, <2>12 DEF DashOK
  <2>14. Closed(segs, old, k)
    BY <2>2, <2>4, <2>6, <2>7 DEF Closed
  <2>15. QED
    BY <2>1, <2>5, <2>8, <2>13, <2>14 DEF segs, old, k
<1>7. QED
  BY <1>5, <1>6

(* finishWithTail does so, too.                                            *)
LEMMA TailFacts ==
  ASSUME NEW d, DashOK(d), NEW r \in Runs, NEW tail \in Kinds
  PROVE  /\ DashOK(finishWithTail(d, r, tail))
         /\ Closed(finishWithTail(d, r, tail).segments, d.segments, KeyOf[r])
<1> DEFINE k == KeyOf[r] c == Closing(d, r) done == finishRun(d, r) 
           seq == IF c = 0 THEN latestRunSeq(d, k) ELSE c
<1>1. k \in Keys /\ WellKept(d)
  BY ConsoleAssumption DEF DashOK
<1>2. DashOK(done) /\ Closed(done.segments, d.segments, k) /\ done.selection = d.selection
      /\ \A p \in Keys : Len(done.segments[p]) = Len(d.segments[p])
  BY FinishFacts
<1>3. c \in 0..Len(d.segments[k])
  BY <1>1, ClosingFacts
<1>4. Len(d.segments[k]) \in Nat
  <2>1. d.segments[k] \in Seq(Segment)
    BY <1>1 DEF WellKept, Segmented
  <2>2. QED
    BY <2>1
<1> DEFINE n == Len(d.segments[k])
<1>5. seq \in Nat /\ (seq = 0 => n = 0)
  BY <1>3, <1>4 DEF latestRunSeq
<1>6. seq = 0 => selectedRunSeq(done, k) = 0
  <2>1. ASSUME n = 0 PROVE selectedRunSeq(done, k) = 0
    <3>1. latestRunSeq(done, k) = 0
      BY <1>1, <1>2, <2>1 DEF latestRunSeq
    <3>2. k \in DOMAIN d.selection => d.selection[k] \in 0..n
      BY <1>1 DEF WellKept, Segmented
    <3>3. k \in DOMAIN d.selection => d.selection[k] = 0
      BY <2>1, <3>2
    <3>4. QED
      BY <1>2, <3>1, <3>3 DEF selectedRunSeq
  <2>2. QED
    BY <1>5, <2>1
<1>7. finishWithTail(d, r, tail) = appendRunLine(done, k, tail, seq)
  BY DEF finishWithTail
<1> HIDE DEF done, seq, c, k, n
<1>8. DashOK(appendRunLine(done, k, tail, seq)) /\ appendRunLine(done, k, tail, seq).segments = done.segments
  BY <1>1, <1>2, <1>5, <1>6, AppendLineFacts
<1>9. QED
  BY <1>2, <1>7, <1>8 DEF k

-----------------------------------------------------------------------------
(* The user's steps.                                                       *)
LEMMA FilteredFacts ==
  ASSUME NEW d, DashOK(d), NEW f
  PROVE  /\ DashOK(Reset(d, setFilters(d.log, f)))
         /\ Reset(d, setFilters(d.log, f)).segments = d.segments
<1> DEFINE log == setFilters(d.log, f) new == Reset(d, log)
<1>1. WellKept(d) /\ Paged(d.log, d.text, d.pending, d.said) /\ Chosen(d) /\ LogOK(d.log)
      /\ InTime(d.log.entries, d.said)
  BY DEF DashOK, Paged
<1>2. LogOK(log) /\ log.entries = d.log.entries
  BY <1>1, FilterFacts
<1> HIDE DEF log
<1>3. InTime(log.entries, d.said)
  BY <1>1, <1>2
<1>4. /\ SameMaps(d, new) /\ new.selected = d.selected /\ new.log = log
      /\ Paged(new.log, new.text, new.pending, new.said)
  BY <1>1, <1>2, <1>3, ResetFacts
<1> HIDE DEF new
<1>5. WellKept(new) /\ new.segments = d.segments
  BY <1>1, <1>4, SameMapsKept DEF SameMaps
<1>6. selectedRunSeq(new, d.selected) = selectedRunSeq(d, d.selected) /\ new.histories = d.histories
  BY <1>4 DEF SameMaps, selectedRunSeq, latestRunSeq
<1>7. Chosen(new)
  BY <1>1, <1>2, <1>4, <1>6 DEF Chosen
<1>8. QED
  BY <1>4, <1>5, <1>7 DEF DashOK, new, log

(* The timer keeps the dashboard right.                                    *)
LEMMA FlushFacts ==
  ASSUME NEW d, DashOK(d)
  PROVE  /\ DashOK([d EXCEPT !.text = @ \o d.pending, !.pending = <<>>])
         /\ [d EXCEPT !.text = @ \o d.pending, !.pending = <<>>].segments = d.segments
<1> DEFINE new == [d EXCEPT !.text = @ \o d.pending, !.pending = <<>>]
<1>1. WellKept(d) /\ Paged(d.log, d.text, d.pending, d.said) /\ Chosen(d)
  BY DEF DashOK
<1>2. /\ SameMaps(d, new) /\ new.selected = d.selected /\ new.log = d.log
      /\ new.text = d.text \o d.pending /\ new.pending = <<>>
  BY <1>1 DEF WellKept, SameMaps, DashFields
<1> HIDE DEF new
<1>3. WellKept(new) /\ new.segments = d.segments /\ new.said = d.said
  BY <1>1, <1>2, SameMapsKept DEF SameMaps
<1>4. Paged(d.log, d.text \o d.pending, <<>>, d.said)
  BY <1>1, PagedFlush
<1>5. Paged(new.log, new.text, new.pending, new.said)
  BY <1>2, <1>3, <1>4
<1>6. selectedRunSeq(new, d.selected) = selectedRunSeq(d, d.selected) /\ new.histories = d.histories
  BY <1>2 DEF SameMaps, selectedRunSeq, latestRunSeq
<1>7. Chosen(new)
  BY <1>1, <1>2, <1>6 DEF Chosen
<1>8. QED
  BY <1>3, <1>5, <1>7 DEF DashOK, new

Cleared(d) ==
  [d EXCEPT !.histories[d.selected] = <<>>, !.segments[d.selected] = <<>>,
            !.selection = [q \in DOMAIN @ \ {d.selected} |-> @[q]]]

(* Clearing the selected command keeps the dashboard right.                *)
LEMMA ClearedFacts ==
  ASSUME NEW d, DashOK(d), d.selected # NoKey
  PROVE  /\ DashOK(Reset(Cleared(d), clear(d.log)))
         /\ Reset(Cleared(d), clear(d.log)).segments = [d.segments EXCEPT ![d.selected] = <<>>]
<1> DEFINE k == d.selected bare == clear(d.log) cut == Cleared(d) new == Reset(cut, bare)
           hs == d.histories segs == d.segments sel == d.selection said == d.said
<1>1. WellKept(d) /\ LogOK(d.log) /\ k \in Keys /\ DOMAIN d = DashFields /\ said \in Nat
  BY DEF DashOK, Paged, Chosen, WellKept
<1>2. /\ DOMAIN cut = DashFields /\ cut.histories = [hs EXCEPT ![k] = <<>>]
      /\ cut.segments = [segs EXCEPT ![k] = <<>>] /\ cut.selection = [q \in DOMAIN sel \ {k} |-> sel[q]]
      /\ cut.said = said /\ cut.selected = k
  BY <1>1 DEF Cleared, DashFields
<1>3. /\ DOMAIN hs = Keys /\ (\A p \in Keys : Story(hs[p], said))
      /\ DOMAIN segs = Keys /\ (\A p \in Keys : segs[p] \in Seq(Segment))
      /\ DOMAIN sel \subseteq Keys /\ \A p \in DOMAIN sel : sel[p] \in 0..Len(segs[p])
  BY <1>1 DEF WellKept, Stories, Segmented
<1> HIDE DEF cut, k, hs, segs, sel, said
<1>4. Story(<<>>, said)
  <2>1. <<>> \in Seq(Entry) /\ Len(<<>>) = 0 /\ Cap \in Nat
    BY LogModelAssumption
  <2>2. QED
    BY <2>1 DEF Story, InTime
<1>5. Stories(cut.histories, said)
  <2> DEFINE now == [hs EXCEPT ![k] = <<>>]
  <2>1. DOMAIN now = Keys /\ \A p \in Keys : now[p] = IF p = k THEN <<>> ELSE hs[p]
    BY <1>3
  <2> HIDE DEF now
  <2>2. \A p \in Keys : Story(now[p], said)
    BY <1>3, <1>4, <2>1
  <2>3. QED
    BY <1>2, <2>1, <2>2 DEF Stories, now
<1>6. Segmented(cut.segments, cut.selection)
  <2> DEFINE now == [segs EXCEPT ![k] = <<>>] left == [q \in DOMAIN sel \ {k} |-> sel[q]]
  <2>1. DOMAIN now = Keys /\ \A p \in Keys : now[p] = IF p = k THEN <<>> ELSE segs[p]
    BY <1>3
  <2>2. DOMAIN left = DOMAIN sel \ {k} /\ \A p \in DOMAIN left : left[p] = sel[p]
    OBVIOUS
  <2>3. <<>> \in Seq(Segment)
    OBVIOUS
  <2> HIDE DEF now, left
  <2>4. \A p \in Keys : now[p] \in Seq(Segment)
    BY <1>3, <2>1, <2>3
  <2>5. \A p \in DOMAIN left : p \in Keys /\ p # k /\ left[p] \in 0..Len(now[p])
    BY <1>3, <2>1, <2>2
  <2>6. QED
    BY <1>2, <2>1, <2>4, <2>5 DEF Segmented, now, left
<1>7. WellKept(cut)
  BY <1>1, <1>2, <1>5, <1>6 DEF WellKept
<1>8. LogOK(bare) /\ bare.entries = <<>>
  BY <1>1, ClearFacts DEF LogOK
<1> HIDE DEF bare
<1>9. InTime(bare.entries, cut.said)
  BY <1>8 DEF InTime
<1>10. /\ SameMaps(cut, new) /\ new.selected = cut.selected /\ new.log = bare
       /\ Paged(new.log, new.text, new.pending, new.said)
  BY <1>7, <1>8, <1>9, ResetFacts
<1> HIDE DEF new
<1>11. WellKept(new)
  BY <1>7, <1>10, SameMapsKept
<1>12. new.histories[k] = <<>> /\ new.selected = k /\ new.log.entries = <<>> /\ new.segments = [segs EXCEPT ![k] = <<>>]
  BY <1>1, <1>2, <1>3, <1>8, <1>10 DEF SameMaps
<1>13. ASSUME NEW q PROVE Showing(<<>>, <<>>, q)
  <2>1. <<>> \in Seq(Entry) /\ Len(<<>>) = 0
    OBVIOUS
  <2>2. Slice(<<>>, q) \in Seq(Entry) /\ Len(Slice(<<>>, q)) <= 0
    BY <2>1, SliceFacts
  <2>3. Len(Slice(<<>>, q)) = 0
    BY <2>2
  <2>4. QED
    BY <2>1, <2>3 DEF Showing, EndsIn
<1>14. Chosen(new)
  BY <1>1, <1>12, <1>13 DEF Chosen
<1>15. QED
  BY <1>10, <1>11, <1>12, <1>14 DEF DashOK, new, cut, bare, k, segs

-----------------------------------------------------------------------------
(* Every open segment stands for a run of its command that goes on.        *)
Phases == {"none", "pending", "up", "stopping", "finished", "failed"}
Going(op, ph, k) == {r \in op : KeyOf[r] = k /\ ph[r] \in Live}
Balanced(op, ph, segs) ==
  /\ op \in SUBSET Runs /\ IsFiniteSet(op) /\ ph \in [Runs -> Phases]
  /\ \A r \in op : ph[r] \notin {"none", "pending"}
  /\ \A k \in Keys : segs[k] \in Seq(Segment)
                     /\ Cardinality(OpenIn(segs[k])) <= Cardinality(Going(op, ph, k))

(* The runs that go on are finitely many.                                  *)
LEMMA GoingFinite ==
  ASSUME NEW op, IsFiniteSet(op), NEW ph, NEW k
  PROVE  IsFiniteSet(Going(op, ph, k)) /\ Cardinality(Going(op, ph, k)) \in Nat
<1>1. Going(op, ph, k) \in SUBSET op
  BY DEF Going
<1>2. IsFiniteSet(Going(op, ph, k))
  BY <1>1, FS_Subset
<1>3. QED
  BY <1>2, FS_CardinalityType

(* The open segments are finitely many.                                    *)
LEMMA OpenFinite ==
  ASSUME NEW s \in Seq(Segment)
  PROVE  IsFiniteSet(OpenIn(s)) /\ Cardinality(OpenIn(s)) \in Nat
<1>1. OpenIn(s) \in SUBSET (1..Len(s)) /\ Len(s) \in Nat
  BY DEF OpenIn
<1>2. QED
  BY <1>1, UpToIs

(* A step that lets every run go on, and opens nothing.                    *)
LEMMA BalanceStays ==
  ASSUME NEW op, NEW ph, NEW segs, Balanced(op, ph, segs), NEW ph2 \in [Runs -> Phases], NEW segs2,
         \A r \in op : ph2[r] \notin {"none", "pending"} /\ (ph[r] \in Live => ph2[r] \in Live),
         \A k \in Keys : segs2[k] \in Seq(Segment) /\ OpenIn(segs2[k]) \subseteq OpenIn(segs[k])
  PROVE  Balanced(op, ph2, segs2)
<1>1. ASSUME NEW k \in Keys PROVE Cardinality(OpenIn(segs2[k])) <= Cardinality(Going(op, ph2, k))
  <2> DEFINE a == OpenIn(segs[k]) b == OpenIn(segs2[k]) g == Going(op, ph, k) h == Going(op, ph2, k)
  <2>1. segs[k] \in Seq(Segment) /\ IsFiniteSet(op) /\ Cardinality(a) <= Cardinality(g)
    BY DEF Balanced
  <2>2. IsFiniteSet(a) /\ Cardinality(a) \in Nat
    BY <2>1, OpenFinite
  <2>3. IsFiniteSet(g) /\ Cardinality(g) \in Nat /\ IsFiniteSet(h) /\ Cardinality(h) \in Nat
    BY <2>1, GoingFinite
  <2>4. g \in SUBSET h
    BY DEF Going
  <2>5. b \in SUBSET a
    OBVIOUS
  <2>6. segs2[k] \in Seq(Segment)
    OBVIOUS
  <2>7. IsFiniteSet(b) /\ Cardinality(b) \in Nat
    BY <2>6, OpenFinite
  <2> HIDE DEF a, b, g, h
  <2>8. Cardinality(b) <= Cardinality(a)
    BY <2>2, <2>5, FS_Subset
  <2>9. Cardinality(g) <= Cardinality(h)
    BY <2>3, <2>4, FS_Subset
  <2>10. Cardinality(b) <= Cardinality(h)
    BY <2>1, <2>2, <2>3, <2>7, <2>8, <2>9
  <2>11. QED
    BY <2>10 DEF b, h
<1>2. QED
  BY <1>1 DEF Balanced

(* A run that begins opens one.                                            *)
LEMMA BalanceStarts ==
  ASSUME NEW op, NEW ph, NEW segs, Balanced(op, ph, segs), DOMAIN segs = Keys, NEW r \in Runs, r \notin op,
         NEW x \in {"up", "stopping"}
  PROVE  Balanced(op \cup {r}, [ph EXCEPT ![r] = x],
                  [segs EXCEPT ![KeyOf[r]] = Append(@, [of |-> r, closedBy |-> NoRun])])
<1> DEFINE s == [of |-> r, closedBy |-> NoRun] k == KeyOf[r] more == op \cup {r}
           ph2 == [ph EXCEPT ![r] = x] segs2 == [segs EXCEPT ![k] = Append(@, s)]
<1>1. k \in Keys /\ s \in Segment /\ s.closedBy = NoRun
  BY ConsoleAssumption DEF Segment
<1>2. op \in SUBSET Runs /\ IsFiniteSet(op) /\ ph \in [Runs -> Phases]
      /\ \A q \in op : ph[q] \notin {"none", "pending"}
  BY DEF Balanced
<1> HIDE DEF s
<1>3. segs2[k] = Append(segs[k], s) /\ \A p \in Keys : p # k => segs2[p] = segs[p]
  BY <1>1
<1>4. ph2 \in [Runs -> Phases] /\ ph2[r] = x /\ \A q \in Runs : q # r => ph2[q] = ph[q]
  BY <1>2 DEF Phases
<1>5. IsFiniteSet(more) /\ more \in SUBSET Runs
  BY <1>2, FS_AddElement
<1>6. \A q \in more : ph2[q] \notin {"none", "pending"}
  BY <1>2, <1>4
<1>7. x \in Live
  BY DEF Live
<1> HIDE DEF ph2, segs2
<1>8. ASSUME NEW p \in Keys
      PROVE  segs2[p] \in Seq(Segment)
             /\ Cardinality(OpenIn(segs2[p])) <= Cardinality(Going(more, ph2, p))
  <2> DEFINE a == OpenIn(segs[p]) b == OpenIn(segs2[p]) g == Going(op, ph, p) h == Going(more, ph2, p) 
             n == Len(segs[p])
  <2>1. segs[p] \in Seq(Segment) /\ Cardinality(a) <= Cardinality(g)
    BY DEF Balanced
  <2>2. IsFiniteSet(a) /\ Cardinality(a) \in Nat
    BY <2>1, OpenFinite
  <2>3. IsFiniteSet(g) /\ Cardinality(g) \in Nat
    BY <1>2, GoingFinite
  <2>4. CASE p = k
    <3>1. h = g \cup {r}
      BY <1>2, <1>4, <1>7, <2>4 DEF Going
    <3>2. r \notin g
      BY DEF Going
    <3>3. segs2[p] \in Seq(Segment) /\ Len(segs2[p]) = n + 1 /\ n \in Nat /\ segs2[p][n + 1] = s
          /\ \A i \in 1..n : segs2[p][i] = segs[p][i]
      BY <1>1, <1>3, <2>1, <2>4, SMTT(30)
    <3>4. b = a \cup {n + 1}
      <4>1. DOMAIN segs2[p] = 1..(n + 1) /\ DOMAIN segs[p] = 1..n
        BY <2>1, <3>3
      <4>2. \A i \in 1..(n + 1) : i \in 1..n \/ i = n + 1
        BY <3>3
      <4>3. (\A i \in 1..n : i \in 1..(n + 1)) /\ n + 1 \in 1..(n + 1)
        BY <3>3
      <4> HIDE DEF n
      <4>4. QED
        BY <1>1, <3>3, <4>1, <4>2, <4>3 DEF OpenIn
    <3> HIDE DEF a, b, g, h, n
    <3>5. Cardinality(h) = Cardinality(g) + 1
      BY <2>3, <3>1, <3>2, FS_AddElement
    <3>6. Cardinality(b) = Cardinality(a) \/ Cardinality(b) = Cardinality(a) + 1
      BY <2>2, <3>4, FS_AddElement
    <3>7. Cardinality(b) <= Cardinality(h)
      BY <2>1, <2>2, <2>3, <3>5, <3>6
    <3>8. QED
      BY <3>3, <3>7 DEF b, h
  <2>5. CASE p # k
    <3>1. h = g
      BY <1>2, <1>4, <2>5 DEF Going
    <3>2. segs2[p] = segs[p]
      BY <1>3, <2>5
    <3>3. QED
      BY <2>1, <3>1, <3>2
  <2>6. QED
    BY <2>4, <2>5
<1>9. QED
  BY <1>4, <1>5, <1>6, <1>8 DEF Balanced, ph2, segs2, s

(* A run that ends closes one, if there is one.                            *)
LEMMA BalanceEnds ==
  ASSUME NEW op, NEW ph, NEW segs, Balanced(op, ph, segs), NEW r \in Runs,
         NEW x \in {"finished", "failed"}, NEW segs2, \A p \in Keys : segs2[p] \in Seq(Segment),
         Closed(segs2, segs, KeyOf[r])
  PROVE  Balanced(op, [ph EXCEPT ![r] = x], segs2)
<1> DEFINE k == KeyOf[r] ph2 == [ph EXCEPT ![r] = x]
<1>1. k \in Keys
  BY ConsoleAssumption
<1>2. op \in SUBSET Runs /\ IsFiniteSet(op) /\ ph \in [Runs -> Phases]
      /\ \A q \in op : ph[q] \notin {"none", "pending"}
  BY DEF Balanced
<1>3. ph2 \in [Runs -> Phases] /\ ph2[r] = x /\ \A q \in Runs : q # r => ph2[q] = ph[q]
  BY <1>2 DEF Phases
<1>4. \A q \in op : ph2[q] \notin {"none", "pending"}
  BY <1>2, <1>3
<1>5. x \notin Live
  BY DEF Live
<1> HIDE DEF ph2
<1>6. ASSUME NEW p \in Keys PROVE Cardinality(OpenIn(segs2[p])) <= Cardinality(Going(op, ph2, p))
  <2> DEFINE a == OpenIn(segs[p]) b == OpenIn(segs2[p]) g == Going(op, ph, p) h == Going(op, ph2, p)
  <2>1. segs[p] \in Seq(Segment) /\ Cardinality(a) <= Cardinality(g)
    BY DEF Balanced
  <2>2. IsFiniteSet(a) /\ Cardinality(a) \in Nat
    BY <2>1, OpenFinite
  <2>3. IsFiniteSet(g) /\ Cardinality(g) \in Nat /\ Cardinality(h) \in Nat
    BY <1>2, GoingFinite
  <2>4. h = g \ {r}
    BY <1>2, <1>3, <1>5 DEF Going
  <2>5. CASE p # k
    <3>1. r \notin g
      BY <2>5 DEF Going
    <3>2. h = g /\ b = a
      BY <2>4, <2>5, <3>1 DEF Closed
    <3>3. QED
      BY <2>1, <3>2
  <2>6. CASE p = k /\ a = {}
    <3>1. b = {}
      BY <2>6 DEF Closed
    <3>2. Cardinality(b) = 0
      BY <3>1, FS_EmptySet
    <3> HIDE DEF a, b, g, h
    <3>3. Cardinality(b) <= Cardinality(h)
      BY <2>3, <3>2
    <3>4. QED
      BY <3>3 DEF b, h
  <2>7. CASE p = k /\ a # {}
    <3>1. PICK c \in a : b = a \ {c}
      BY <2>7 DEF Closed
    <3> HIDE DEF a, b, g, h
    <3>2. Cardinality(b) = Cardinality(a) - 1
      BY <2>2, <3>1, FS_RemoveElement
    <3>3. Cardinality(h) = Cardinality(g) \/ Cardinality(h) = Cardinality(g) - 1
      BY <2>3, <2>4, FS_RemoveElement
    <3>4. Cardinality(b) <= Cardinality(h)
      BY <2>1, <2>2, <2>3, <3>2, <3>3
    <3>5. QED
      BY <3>4 DEF b, h
  <2>8. QED
    BY <2>5, <2>6, <2>7
<1>7. QED
  BY <1>2, <1>3, <1>4, <1>6 DEF Balanced, ph2

ConsoleInv ==
  /\ detail \in Keys \cup {NoKey}
  /\ DashOK(dash)
  /\ Balanced(opened, phase, dash.segments)

(* The window opens on an empty dashboard.                                 *)
LEMMA ConsoleStarts == ConsoleInit => ConsoleInv
<1> SUFFICES ASSUME ConsoleInit PROVE ConsoleInv
  OBVIOUS
<1>1. /\ phase = [r \in Runs |-> "none"] /\ opened = {} /\ detail = NoKey
      /\ dash = [histories |-> [k \in Keys |-> <<>>], segments |-> [k \in Keys |-> <<>>],
                 selection |-> [k \in {} |-> 0], selected |-> NoKey,
                 log |-> EmptyLog, text |-> <<>>, pending |-> <<>>, said |-> 0]
  BY DEF ConsoleInit
<1> DEFINE d == dash
<1>2. /\ DOMAIN d = DashFields /\ d.histories = [k \in Keys |-> <<>>] /\ d.segments = [k \in Keys |-> <<>>]
      /\ DOMAIN d.selection = {} /\ d.selected = NoKey /\ d.log = EmptyLog /\ d.text = <<>>
      /\ d.pending = <<>> /\ d.said = 0
  BY <1>1 DEF DashFields
<1>3. <<>> \in Seq(Entry) /\ <<>> \in Seq(Segment) /\ Len(<<>>) = 0 /\ 0 \in Nat /\ Cap \in Nat
      /\ <<>> \o <<>> = <<>>
  BY LogModelAssumption
<1>4. InTime(<<>>, 0)
  BY <1>3 DEF InTime
<1> HIDE DEF d
<1>5. WellKept(d)
  <2>1. Story(<<>>, 0)
    BY <1>3, <1>4 DEF Story
  <2>2. Stories(d.histories, 0)
    BY <1>2, <2>1 DEF Stories
  <2>3. Segmented(d.segments, d.selection)
    BY <1>2, <1>3 DEF Segmented
  <2>4. QED
    BY <1>2, <1>3, <2>2, <2>3 DEF WellKept
<1>6. LogOK(EmptyLog) /\ EmptyLog.entries = <<>> /\ Rows(EmptyLog) = <<>>
  <2>1. /\ DOMAIN EmptyLog = LogFields /\ EmptyLog.entries = <<>> /\ EmptyLog.visible = <<>>
        /\ EmptyLog.hiddenUnparsed = 0
    BY DEF EmptyLog, LogFields
  <2>2. ASSUME NEW f, NEW hit PROVE Passing(<<>>, f, hit) = <<>>
    <3>1. Where(<<>>, f, hit) = {}
      BY DEF Where
    <3>2. Passing(<<>>, f, hit) = InOrder({})
      BY <1>3, <3>1, PassingFacts
    <3>3. QED
      BY <3>2, InOrderNone
  <2>3. Rows(EmptyLog) = <<>>
    BY <2>1 DEF Rows
  <2>4. LogOK(EmptyLog)
    BY <1>3, <2>1, <2>2 DEF LogOK
  <2>5. QED
    BY <2>1, <2>3, <2>4
<1>7. EndsIn(<<>>, <<>>)
  BY <1>3, EndsItself
<1>8. Paged(d.log, d.text, d.pending, d.said)
  BY <1>2, <1>3, <1>4, <1>6, <1>7 DEF Paged
<1>9. DashOK(d)
  BY <1>2, <1>5, <1>8 DEF DashOK, Chosen
<1>10. Balanced(opened, phase, d.segments)
  <2>1. IsFiniteSet({}) /\ Cardinality({}) = 0
    BY FS_EmptySet
  <2>2. OpenIn(<<>>) = {}
    BY DEF OpenIn
  <2>3. ASSUME NEW k PROVE Going({}, phase, k) = {}
    BY DEF Going
  <2>4. \A k \in Keys : d.segments[k] = <<>>
    BY <1>2
  <2>5. phase \in [Runs -> Phases]
    BY <1>1 DEF Phases
  <2>6. \A k \in Keys : d.segments[k] \in Seq(Segment)
                        /\ Cardinality(OpenIn(d.segments[k])) <= Cardinality(Going({}, phase, k))
    <3> TAKE k \in Keys
    <3>1. d.segments[k] = <<>> /\ d.segments[k] \in Seq(Segment)
      BY <1>3, <2>4
    <3>2. Cardinality(OpenIn(d.segments[k])) = 0
      BY <2>1, <2>2, <3>1
    <3>3. Cardinality(Going({}, phase, k)) = 0
      BY <2>1, <2>3
    <3>4. QED
      BY <3>1, <3>2, <3>3
  <2>7. QED
    BY <1>1, <2>1, <2>5, <2>6 DEF Balanced
<1>11. QED
  BY <1>1, <1>9, <1>10 DEF ConsoleInv, d

(* The segments of a right dashboard.                                      *)
LEMMA SegmentsAre ==
  ASSUME NEW d, DashOK(d)
  PROVE  DOMAIN d.segments = Keys /\ \A k \in Keys : d.segments[k] \in Seq(Segment)
BY DEF DashOK, WellKept, Segmented

(* An end opens nothing.                                                   *)
LEMMA ClosedShrinks ==
  ASSUME NEW new, NEW old, NEW k, Closed(new, old, k)
  PROVE  \A p \in Keys : OpenIn(new[p]) \subseteq OpenIn(old[p])
BY DEF Closed

(* A step of the user.                                                     *)
LEMMA UserStep ==
  ASSUME ConsoleInv, phase' = phase, opened' = opened, detail' \in Keys \cup {NoKey},
         DashOK(dash'), \A k \in Keys : OpenIn(dash'.segments[k]) \subseteq OpenIn(dash.segments[k])
  PROVE  ConsoleInv'
<1> DEFINE segs2 == dash'.segments segs == dash.segments
<1>1. Balanced(opened, phase, segs)
  BY DEF ConsoleInv
<1>2. phase \in [Runs -> Phases] /\ \A r \in opened : phase[r] \notin {"none", "pending"}
  BY <1>1 DEF Balanced
<1>3. \A k \in Keys : segs2[k] \in Seq(Segment) /\ OpenIn(segs2[k]) \subseteq OpenIn(segs[k])
  BY SegmentsAre
<1> HIDE DEF segs2, segs
<1>4. Balanced(opened, phase, segs2)
  BY <1>1, <1>2, <1>3, BalanceStays
<1>5. Balanced(opened', phase', dash'.segments)
  BY <1>4 DEF segs2
<1>6. QED
  BY <1>5 DEF ConsoleInv

(* A launch keeps the invariant, whether it fails right away or stops      *)
(* others.                                                                 *)
LEMMA LaunchKeeps ==
  ASSUME ConsoleInv, NEW r \in Runs, Launch(r)
  PROVE  ConsoleInv'
<1>1. /\ phase[r] = "none" /\ opened' = opened /\ detail' = detail
  BY DEF Launch
<1>2. PICK how \in {"pending", "failed"} :
        /\ phase' = [q \in Runs |->
             IF q = r THEN how
             ELSE IF KeyOf[q] = KeyOf[r] /\ KeyOf[r] \in OneAtATime /\ phase[q] \in {"pending", "up"}
             THEN "stopping" ELSE phase[q]]
        /\ IF how = "pending" THEN dash' = dash
           ELSE Says /\ \E kind \in Kinds : dash' = finishWithTail(dash, r, kind)
  BY DEF Launch
<1>3. DashOK(dash) /\ Balanced(opened, phase, dash.segments) /\ detail \in Keys \cup {NoKey}
  BY DEF ConsoleInv
<1>4. phase \in [Runs -> Phases] /\ opened \in SUBSET Runs
      /\ \A q \in opened : phase[q] \notin {"none", "pending"}
  BY <1>3 DEF Balanced
<1> DEFINE ph2 == phase' segs == dash.segments segs2 == dash'.segments
<1>5. ph2 \in [Runs -> Phases]
  BY <1>2, <1>4 DEF Phases
<1>6. ASSUME NEW q \in opened
      PROVE  ph2[q] \notin {"none", "pending"} /\ (phase[q] \in Live => ph2[q] \in Live)
  <2>1. q # r /\ q \in Runs
    BY <1>1, <1>4
  <2>2. ph2[q] = "stopping" \/ ph2[q] = phase[q]
    BY <1>2, <2>1
  <2>3. QED
    BY <1>4, <2>2 DEF Live
<1>7. DashOK(dash') /\ \A k \in Keys : OpenIn(segs2[k]) \subseteq OpenIn(segs[k])
  <2>1. CASE dash' = dash
    BY <1>3, <2>1
  <2>2. CASE \E kind \in Kinds : dash' = finishWithTail(dash, r, kind)
    <3>1. DashOK(dash') /\ Closed(dash'.segments, dash.segments, KeyOf[r])
      BY <1>3, <2>2, TailFacts
    <3>2. QED
      BY <3>1, ClosedShrinks
  <2>3. QED
    BY <1>2, <2>1, <2>2
<1>8. \A k \in Keys : segs2[k] \in Seq(Segment) /\ OpenIn(segs2[k]) \subseteq OpenIn(segs[k])
  BY <1>7, SegmentsAre
<1> HIDE DEF ph2, segs, segs2
<1>9. Balanced(opened, ph2, segs2)
  <2>1. Balanced(opened, phase, segs)
    BY <1>3 DEF segs
  <2>2. QED
    BY <2>1, <1>5, <1>6, <1>8, BalanceStays
<1>10. Balanced(opened', phase', dash'.segments)
  BY <1>1, <1>9 DEF ph2, segs2
<1>11. QED
  BY <1>1, <1>3, <1>7, <1>10 DEF ConsoleInv

(* A stop keeps it: the run goes on until it ends.                         *)
LEMMA StopKeeps ==
  ASSUME ConsoleInv, NEW r \in Runs, Stop(r)
  PROVE  ConsoleInv'
<1>1. /\ phase[r] \in {"pending", "up"} /\ phase' = [phase EXCEPT ![r] = "stopping"]
      /\ opened' = opened /\ dash' = dash /\ detail' = detail
  BY DEF Stop
<1>2. DashOK(dash) /\ Balanced(opened, phase, dash.segments) /\ detail \in Keys \cup {NoKey}
  BY DEF ConsoleInv
<1>3. phase \in [Runs -> Phases] /\ opened \in SUBSET Runs
      /\ \A q \in opened : phase[q] \notin {"none", "pending"}
  BY <1>2 DEF Balanced
<1> DEFINE ph2 == [phase EXCEPT ![r] = "stopping"] segs == dash.segments
<1>4. ph2 \in [Runs -> Phases]
  BY <1>3 DEF Phases
<1>5. \A q \in opened : ph2[q] \notin {"none", "pending"} /\ (phase[q] \in Live => ph2[q] \in Live)
  BY <1>3 DEF Live
<1>6. \A k \in Keys : segs[k] \in Seq(Segment) /\ OpenIn(segs[k]) \subseteq OpenIn(segs[k])
  BY <1>2, SegmentsAre
<1> HIDE DEF ph2, segs
<1>7. Balanced(opened, ph2, segs)
  <2>1. Balanced(opened, phase, segs)
    BY <1>2 DEF segs
  <2>2. QED
    BY <2>1, <1>4, <1>5, <1>6, BalanceStays
<1>8. Balanced(opened', phase', dash'.segments)
  BY <1>1, <1>7 DEF ph2, segs
<1>9. QED
  BY <1>1, <1>2, <1>8 DEF ConsoleInv

(* A start keeps it: one more run, one more open segment.                  *)
LEMMA StartedKeeps ==
  ASSUME ConsoleInv, NEW r \in Runs, Started(r)
  PROVE  ConsoleInv'
<1>1. /\ r \notin opened /\ opened' = opened \cup {r} /\ detail' = detail
  BY DEF Started
<1>2. DashOK(dash) /\ Balanced(opened, phase, dash.segments) /\ detail \in Keys \cup {NoKey}
  BY DEF ConsoleInv
<1>3. phase \in [Runs -> Phases]
  BY <1>2 DEF Balanced
<1>4. \E x \in {"up", "stopping"} : phase' = [phase EXCEPT ![r] = x]
  <2>1. CASE phase[r] = "pending" /\ phase' = [phase EXCEPT ![r] = "up"]
    BY <2>1
  <2>2. CASE phase[r] = "stopping" /\ phase' = phase
    <3>1. phase' = [phase EXCEPT ![r] = "stopping"]
      BY <1>3, <2>2
    <3>2. QED
      BY <3>1
  <2>3. QED
    BY <2>1, <2>2 DEF Started
<1>5. PICK x \in {"up", "stopping"} : phase' = [phase EXCEPT ![r] = x]
  BY <1>4
<1>6. PICK kind \in Kinds : dash' = startRun(dash, r, kind)
  BY DEF Started
<1> DEFINE segs == dash.segments s == [of |-> r, closedBy |-> NoRun]
<1>7. DashOK(dash') /\ dash'.segments = [segs EXCEPT ![KeyOf[r]] = Append(@, s)]
  BY <1>2, <1>6, StartFacts
<1>8. DOMAIN segs = Keys /\ Balanced(opened, phase, segs)
  BY <1>2, SegmentsAre
<1> HIDE DEF segs
<1>9. Balanced(opened \cup {r}, [phase EXCEPT ![r] = x], [segs EXCEPT ![KeyOf[r]] = Append(@, s)])
  BY <1>1, <1>8, BalanceStarts
<1>10. Balanced(opened', phase', dash'.segments)
  BY <1>1, <1>5, <1>7, <1>9
<1>11. QED
  BY <1>1, <1>2, <1>7, <1>10 DEF ConsoleInv

(* A line of output keeps it.                                              *)
LEMMA OutputKeeps ==
  ASSUME ConsoleInv, NEW r \in Runs, OutputReceived(r)
  PROVE  ConsoleInv'
<1> DEFINE k == KeyOf[r] q == latestRunSeq(dash, k)
<1>1. /\ opened' = opened /\ phase' = phase /\ detail' = detail
      /\ \E kind \in Kinds : dash' = appendRunLine(dash, k, kind, q)
  BY DEF OutputReceived
<1>2. DashOK(dash) /\ detail \in Keys \cup {NoKey}
  BY DEF ConsoleInv
<1>3. k \in Keys
  BY ConsoleAssumption
<1>4. q \in Nat /\ (q = 0 => selectedRunSeq(dash, k) = 0)
  <2>1. dash.segments[k] \in Seq(Segment)
    BY <1>2, <1>3, SegmentsAre
  <2>2. Len(dash.segments[k]) \in Nat
    BY <2>1
  <2>3. k \in DOMAIN dash.selection => dash.selection[k] \in 0..Len(dash.segments[k])
    BY <1>2 DEF DashOK, WellKept, Segmented
  <2>4. QED
    BY <2>2, <2>3 DEF selectedRunSeq, latestRunSeq
<1> HIDE DEF k, q
<1>5. DashOK(dash') /\ dash'.segments = dash.segments
  BY <1>1, <1>2, <1>3, <1>4, AppendLineFacts
<1>6. QED
  BY <1>1, <1>2, <1>5, UserStep

(* An end keeps it: one run less, and one open segment less.               *)
LEMMA EndKeeps ==
  ASSUME ConsoleInv, NEW r \in Runs, NEW x \in {"finished", "failed"}, phase' = [phase EXCEPT ![r] = x],
         opened' = opened, detail' = detail, DashOK(dash'),
         Closed(dash'.segments, dash.segments, KeyOf[r])
  PROVE  ConsoleInv'
<1> DEFINE segs == dash.segments segs2 == dash'.segments
<1>1. Balanced(opened, phase, segs) /\ detail \in Keys \cup {NoKey}
  BY DEF ConsoleInv
<1>2. \A p \in Keys : segs2[p] \in Seq(Segment)
  BY SegmentsAre
<1>3. Closed(segs2, segs, KeyOf[r])
  OBVIOUS
<1> HIDE DEF segs, segs2
<1>4. Balanced(opened, [phase EXCEPT ![r] = x], segs2)
  BY <1>1, <1>2, <1>3, BalanceEnds
<1>5. Balanced(opened', phase', dash'.segments)
  BY <1>4 DEF segs2
<1>6. QED
  BY <1>1, <1>5 DEF ConsoleInv

(* The end of a run keeps it.                                              *)
LEMMA FinishedKeeps ==
  ASSUME ConsoleInv, NEW r \in Runs, Finished(r)
  PROVE  ConsoleInv'
<1>1. /\ phase' = [phase EXCEPT ![r] = "finished"] /\ dash' = finishRun(dash, r)
      /\ opened' = opened /\ detail' = detail
  BY DEF Finished
<1>2. DashOK(dash)
  BY DEF ConsoleInv
<1>3. DashOK(dash') /\ Closed(dash'.segments, dash.segments, KeyOf[r])
  BY <1>1, <1>2, FinishFacts
<1>4. QED
  BY <1>1, <1>3, EndKeeps

(* The failure of a run keeps it.                                          *)
LEMMA FailedKeeps ==
  ASSUME ConsoleInv, NEW r \in Runs, Failed(r)
  PROVE  ConsoleInv'
<1>1. /\ phase' = [phase EXCEPT ![r] = "failed"] /\ opened' = opened /\ detail' = detail
      /\ \E kind \in Kinds : dash' = finishWithTail(dash, r, kind)
  BY DEF Failed
<1>2. DashOK(dash)
  BY DEF ConsoleInv
<1>3. DashOK(dash') /\ Closed(dash'.segments, dash.segments, KeyOf[r])
  BY <1>1, <1>2, TailFacts
<1>4. QED
  BY <1>1, <1>3, EndKeeps

(* Choosing, filtering, clearing, and the timer.                           *)
LEMMA ViewKeeps ==
  ASSUME ConsoleInv,
         \/ \E k \in Keys : SelectCommand(k) \/ OpenDetail(k)
         \/ \E seq \in 1..Cardinality(Runs) : ShowRun(seq)
         \/ CloseDetail \/ SetFilters \/ clearSelectedCommand \/ CommandsChanged \/ Flush
  PROVE  ConsoleInv'
<1>1. DashOK(dash) /\ detail \in Keys \cup {NoKey} /\ WellKept(dash) /\ LogOK(dash.log)
  BY DEF ConsoleInv, DashOK, Paged
<1>2. CASE \E k \in Keys : SelectCommand(k)
  <2>1. PICK k \in Keys : SelectCommand(k)
    BY <1>2
  <2>2. dash' = selectCommand(dash, k) /\ phase' = phase /\ opened' = opened /\ detail' = detail
    BY <2>1 DEF SelectCommand
  <2>3. DashOK(dash') /\ dash'.segments = dash.segments
    BY <1>1, <2>2, SelectCommandFacts
  <2>4. QED
    BY <1>1, <2>2, <2>3, UserStep
<1>3. CASE \E k \in Keys : OpenDetail(k)
  <2>1. PICK k \in Keys : OpenDetail(k)
    BY <1>3
  <2> DEFINE u == Unfiltered(dash)
  <2>2. dash' = selectCommand(u, k) /\ phase' = phase /\ opened' = opened /\ detail' = k
    BY <2>1 DEF OpenDetail
  <2>3. DashOK(u) /\ u.segments = dash.segments
    BY <1>1, FilteredFacts DEF Unfiltered
  <2> HIDE DEF u
  <2>4. WellKept(u) /\ LogOK(u.log)
    BY <2>3 DEF DashOK, Paged
  <2>5. DashOK(dash') /\ dash'.segments = u.segments
    BY <2>2, <2>4, SelectCommandFacts
  <2>6. QED
    BY <2>2, <2>3, <2>5, UserStep
<1>4. CASE \E seq \in 1..Cardinality(Runs) : ShowRun(seq)
  <2>1. PICK seq : ShowRun(seq)
    BY <1>4
  <2>2. /\ detail \in Keys /\ seq \in DOMAIN dash.segments[detail] /\ dash' = showRun(dash, detail, seq)
        /\ phase' = phase /\ opened' = opened /\ detail' = detail
    BY <1>1, <2>1 DEF ShowRun
  <2>3. dash.segments[detail] \in Seq(Segment)
    BY <1>1, <2>2, SegmentsAre
  <2>4. seq \in 0..Len(dash.segments[detail])
    BY <2>2, <2>3
  <2>5. DashOK(dash') /\ dash'.segments = dash.segments
    BY <1>1, <2>2, <2>4, ShowRunFacts
  <2>6. QED
    BY <1>1, <2>2, <2>5, UserStep
<1>5. CASE CloseDetail
  <2>1. dash' = Unfiltered(dash) /\ phase' = phase /\ opened' = opened /\ detail' = NoKey
    BY <1>5 DEF CloseDetail
  <2>2. DashOK(dash') /\ dash'.segments = dash.segments
    BY <1>1, <2>1, FilteredFacts DEF Unfiltered
  <2>3. QED
    BY <2>1, <2>2, UserStep
<1>6. CASE SetFilters
  <2>1. PICK f \in Filters : dash' = Reset(dash, setFilters(dash.log, f))
    BY <1>6 DEF SetFilters
  <2>2. DashOK(dash') /\ dash'.segments = dash.segments
    BY <1>1, <2>1, FilteredFacts
  <2>3. phase' = phase /\ opened' = opened /\ detail' = detail
    BY <1>6 DEF SetFilters
  <2>4. QED
    BY <1>1, <2>2, <2>3, UserStep
<1>7. CASE clearSelectedCommand
  <2> DEFINE k == dash.selected
  <2>1. /\ k # NoKey /\ phase' = phase /\ opened' = opened /\ detail' = detail
        /\ dash' = Reset(Cleared(dash), clear(dash.log))
    BY <1>7 DEF clearSelectedCommand, Cleared
  <2>2. DashOK(dash') /\ dash'.segments = [dash.segments EXCEPT ![k] = <<>>]
    BY <1>1, <2>1, ClearedFacts
  <2>3. DOMAIN dash.segments = Keys
    BY <1>1, SegmentsAre
  <2>4. OpenIn(<<>>) = {}
    BY DEF OpenIn
  <2>5. ASSUME NEW p \in Keys PROVE OpenIn(dash'.segments[p]) \subseteq OpenIn(dash.segments[p])
    <3>1. dash'.segments[p] = IF p = k THEN <<>> ELSE dash.segments[p]
      BY <2>2, <2>3
    <3>2. QED
      BY <2>4, <3>1
  <2>6. QED
    BY <1>1, <2>1, <2>2, <2>5, UserStep
<1>8. CASE CommandsChanged
  <2>1. PICK listed \in SUBSET (Keys \ {dash.selected}) :
          \E k \in IF listed = {} THEN {NoKey} ELSE listed : dash' = selectCommand(dash, k)
    BY <1>8 DEF CommandsChanged
  <2>2. PICK k \in Keys \cup {NoKey} : dash' = selectCommand(dash, k)
    BY <2>1
  <2>3. DashOK(dash') /\ dash'.segments = dash.segments
    BY <1>1, <2>2, SelectCommandFacts
  <2>4. phase' = phase /\ opened' = opened /\ detail' = detail
    BY <1>8 DEF CommandsChanged
  <2>5. QED
    BY <1>1, <2>3, <2>4, UserStep
<1>9. CASE Flush
  <2>1. dash' = [dash EXCEPT !.text = @ \o dash.pending, !.pending = <<>>]
        /\ phase' = phase /\ opened' = opened /\ detail' = detail
    BY <1>9 DEF Flush
  <2>2. DashOK(dash') /\ dash'.segments = dash.segments
    BY <1>1, <2>1, FlushFacts
  <2>3. QED
    BY <1>1, <2>1, <2>2, UserStep
<1>10. QED
  BY <1>2, <1>3, <1>4, <1>5, <1>6, <1>7, <1>8, <1>9

(* Every step keeps the invariant.                                         *)
LEMMA ConsoleStepKeeps == ConsoleInv /\ [ConsoleNext]_consoleVars => ConsoleInv'
<1> SUFFICES ASSUME ConsoleInv, [ConsoleNext]_consoleVars PROVE ConsoleInv'
  OBVIOUS
<1>1. CASE UNCHANGED consoleVars
  BY <1>1 DEF consoleVars, ConsoleInv
<1>2. CASE \E r \in Runs : Launch(r) \/ Stop(r) \/ Started(r) \/ OutputReceived(r) \/ Finished(r) \/ Failed(r)
  BY <1>2, LaunchKeeps, StopKeeps, StartedKeeps, OutputKeeps, FinishedKeeps, FailedKeeps
<1>3. CASE \/ \E k \in Keys : SelectCommand(k) \/ OpenDetail(k)
           \/ \E seq \in 1..Cardinality(Runs) : ShowRun(seq)
           \/ CloseDetail \/ SetFilters \/ clearSelectedCommand \/ CommandsChanged \/ Flush
  BY <1>3, ViewKeeps
<1>4. QED
  BY <1>1, <1>2, <1>3 DEF ConsoleNext

(* The invariant holds no more than a sound console.                       *)
LEMMA ConsoleInvIsSound == ConsoleInv => ConsoleSound
<1> SUFFICES ASSUME ConsoleInv PROVE ConsoleSound
  OBVIOUS
<1>1. /\ WellKept(dash) /\ Paged(dash.log, dash.text, dash.pending, dash.said) /\ Chosen(dash)
      /\ detail \in Keys \cup {NoKey} /\ Balanced(opened, phase, dash.segments)
  BY DEF ConsoleInv, DashOK
<1> DEFINE log == dash.log es == log.entries all == dash.text \o dash.pending
<1>2. LogOK(log) /\ all \in Seq(Entry) /\ InTime(all, dash.said) /\ EndsIn(all, Rows(log))
  BY <1>1 DEF Paged
<1>3. es \in Seq(Entry) /\ Len(es) <= Cap
  BY <1>2 DEF LogOK
<1>4. ConsoleTypeOK
  <2>1. phase \in [Runs -> {"none", "pending", "up", "stopping", "finished", "failed"}] /\ opened \subseteq Runs
    BY <1>1 DEF Balanced, Phases
  <2>2. dash.selected \in Keys \cup {NoKey}
    BY <1>1 DEF Chosen
  <2>3. ASSUME NEW k \in Keys
        PROVE  /\ Len(dash.histories[k]) <= Cap
               /\ \A i \in DOMAIN dash.segments[k] : dash.segments[k][i].closedBy \in Runs \cup {NoRun}
    <3>1. Len(dash.histories[k]) <= Cap
      BY <1>1 DEF WellKept, Stories, Story
    <3> DEFINE s == dash.segments[k]
    <3>2. s \in Seq(Segment)
      BY <1>1 DEF WellKept, Segmented
    <3> HIDE DEF s
    <3>3. \A i \in DOMAIN s : s[i] \in Segment
      BY <3>2
    <3>4. \A i \in DOMAIN s : s[i].closedBy \in Runs \cup {NoRun}
      BY <3>3 DEF Segment
    <3>5. QED
      BY <3>1, <3>4 DEF s
  <2>4. \A k \in DOMAIN dash.selection : dash.selection[k] \in 0..Len(dash.segments[k])
    BY <1>1 DEF WellKept, Segmented
  <2>5. QED
    BY <1>1, <2>1, <2>2, <2>3, <2>4 DEF ConsoleTypeOK
<1>5. ConsoleRowsArePassing
  BY <1>2 DEF ConsoleRowsArePassing, RowsArePassing, LogOK
<1>6. ConsoleShowsSegment
  <2> DEFINE k == dash.selected q == selectedRunSeq(dash, k) h == dash.histories[k]
  <2>1. ASSUME k # NoKey
        PROVE  IsSuffix(runSlice(dash, k, q), es) /\ \A e \in ToSet(es) : e.run \in {q, 0}
    <3>1. Showing(es, h, q) /\ k \in Keys
      BY <1>1, <2>1 DEF Chosen
    <3>2. h \in Seq(Entry)
      BY <1>1, <3>1 DEF WellKept, Stories, Story
    <3>3. Slice(h, q) \in Seq(Entry)
      BY <3>2, SliceFacts
    <3>4. EndsIn(es, Slice(h, q)) /\ \A i \in 1..Len(es) : es[i].run \in {q, 0}
      BY <3>1 DEF Showing
    <3>5. runSlice(dash, k, q) = Slice(h, q)
      BY DEF runSlice, Slice, OfRun
    <3> HIDE DEF es, h, q
    <3>6. IsSuffix(Slice(h, q), es)
      BY <1>3, <3>3, <3>4, EndsSuffix
    <3>7. \A e \in ToSet(es) : e.run \in {q, 0}
      BY <1>3, <3>4 DEF ToSet
    <3>8. QED
      BY <3>5, <3>6, <3>7
  <2>2. QED
    BY <2>1 DEF ConsoleShowsSegment
<1>7. TextShowsRows
  <2>1. Rows(log) \in Seq(Entry)
    BY <1>2, RowsFacts
  <2> DEFINE m == dash.said
  <2>2. InTime(all, m)
    BY <1>2
  <2>3. IsSuffix(Rows(log), all)
    <3> HIDE DEF all, log
    <3>1. QED
      BY <1>2, <2>1, EndsSuffix
  <2>4. \A i, j \in DOMAIN all : i < j => all[i].n < all[j].n
    <3> HIDE DEF all, m
    <3>1. DOMAIN all = 1..Len(all)
      BY <1>2
    <3>2. QED
      BY <2>2, <3>1 DEF InTime
  <2>5. QED
    BY <2>3, <2>4 DEF TextShowsRows
<1>8. NothingRunsForEver
  <2>1. ASSUME NEW k \in Keys, \A r \in Runs : KeyOf[r] = k => phase[r] \notin Live
        PROVE  OpenSegments(dash, k) = {}
    <3> DEFINE s == dash.segments[k] a == OpenIn(s) g == Going(opened, phase, k)
    <3>1. s \in Seq(Segment) /\ Cardinality(a) <= Cardinality(g) /\ opened \in SUBSET Runs
      BY <1>1 DEF Balanced
    <3>2. g = {}
      BY <2>1, <3>1 DEF Going
    <3>3. OpenSegments(dash, k) = a
      BY DEF OpenSegments, OpenIn
    <3> HIDE DEF s
    <3>4. IsFiniteSet(a) /\ Cardinality(a) \in Nat
      BY <3>1, OpenFinite
    <3> HIDE DEF a, g
    <3>5. Cardinality(g) = 0
      BY <3>2, FS_EmptySet
    <3>6. Cardinality(a) = 0
      BY <3>1, <3>4, <3>5
    <3>7. QED
      BY <3>3, <3>4, <3>6, FS_EmptySet
  <2>2. QED
    BY <2>1 DEF NothingRunsForEver
<1>9. QED
  BY <1>4, <1>5, <1>6, <1>7, <1>8 DEF ConsoleSound

(* For any runs, commands, filters and cap, and ends of runs in any order: *)
(* the model's rows are the lines that pass, the model holds the end of    *)
(* the selected run and nothing else, the text ends in the rows, and no    *)
(* segment runs for ever (Dashboard.qml, DetailPage.qml, logmodel.h).      *)
THEOREM ConsoleIsSound == ConsoleSpec => []ConsoleSound
<1>1. ConsoleSpec => []ConsoleInv
  BY ConsoleStarts, ConsoleStepKeeps, PTL DEF ConsoleSpec
<1>2. QED
  BY <1>1, ConsoleInvIsSound, PTL

-----------------------------------------------------------------------------
(* The folders on the way from a root to a folder in it.                   *)
Node(r, f, n) == <<r, SubSeq(f, 1, n)>>
WayTo(r, f) == {Node(r, f, n) : n \in Len(r)..Len(f)}

LEMMA NodeFacts ==
  ASSUME NEW r \in Seq(STRING), NEW f \in Seq(STRING), IsPrefix(r, f)
  PROVE  /\ Len(r) \in Nat /\ Len(f) \in Nat /\ Len(r) <= Len(f)
         /\ Node(r, f, Len(r)) = <<r, r>> /\ Node(r, f, Len(f)) = <<r, f>>
         /\ \A n \in (Len(r) + 1)..Len(f) : ~IsTop(Node(r, f, n)) /\ Up(Node(r, f, n)) = Node(r, f, n - 1)
<1>1. Len(r) \in Nat /\ Len(f) \in Nat /\ Len(r) <= Len(f) /\ SubSeq(f, 1, Len(r)) = SubSeq(r, 1, Len(r))
  BY DEF IsPrefix
<1>2. SubSeq(r, 1, Len(r)) = r /\ SubSeq(f, 1, Len(f)) = f
  OBVIOUS
<1>3. ASSUME NEW n \in (Len(r) + 1)..Len(f)
      PROVE  ~IsTop(Node(r, f, n)) /\ Up(Node(r, f, n)) = Node(r, f, n - 1)
  <2>1. Len(SubSeq(f, 1, n)) = n /\ n # Len(r)
    BY <1>1
  <2>2. ~IsTop(Node(r, f, n))
    BY <2>1 DEF IsTop, Node
  <2>3. SubSeq(SubSeq(f, 1, n), 1, n - 1) = SubSeq(f, 1, n - 1)
    <3> DEFINE s == SubSeq(f, 1, n)
    <3>1. s \in Seq(STRING) /\ Len(s) = n /\ \A i \in 1..n : s[i] = f[i]
      BY <1>1
    <3> HIDE DEF s
    <3>2. SubSeq(s, 1, n - 1) = [i \in 1..(n - 1) |-> s[i]]
      BY <1>1, <3>1
    <3>3. SubSeq(f, 1, n - 1) = [i \in 1..(n - 1) |-> f[i]]
      BY <1>1
    <3>4. \A i \in 1..(n - 1) : s[i] = f[i]
      BY <1>1, <3>1
    <3>5. QED
      BY <3>2, <3>3, <3>4 DEF s
  <2>4. Up(Node(r, f, n)) = Node(r, f, n - 1)
    BY <2>1, <2>3 DEF Up, Node, Front
  <2>5. QED
    BY <2>2, <2>4
<1>4. QED
  BY <1>1, <1>2, <1>3 DEF Node

(* The root of a folder is the deepest one that contains it.               *)
LEMMA RootFacts ==
  ASSUME NEW f \in Seq(STRING), NEW rs, \A r \in rs : r \in Seq(STRING), Above(f, rs) # {}
  PROVE  /\ RootFor(f, rs) \in Above(f, rs) /\ RootFor(f, rs) \in rs
         /\ RootFor(f, rs) \in Seq(STRING) /\ IsPrefix(RootFor(f, rs), f)
         /\ \A q \in Above(f, rs) : Len(q) <= Len(RootFor(f, rs))
<1> DEFINE A == Above(f, rs)
           L == {Len(r) + 1 : r \in A}
<1>1. \A r \in A : r \in rs /\ r \in Seq(STRING) /\ IsPrefix(r, f) /\ Len(r) \in Nat /\ Len(r) <= Len(f)
  BY DEF Above, IsPrefix
<1>2. Len(f) + 1 \in Nat /\ L \in SUBSET (1..(Len(f) + 1)) /\ L # {}
  BY <1>1
<1>3. PICK m \in L : \A y \in L : y <= m
  <2> HIDE DEF L
  <2>1. QED
    BY <1>2, GreatestNat
<1>4. PICK r \in A : m = Len(r) + 1
  BY <1>3
<1>5. \A q \in A : Len(q) <= Len(r)
  <2> SUFFICES ASSUME NEW q \in A PROVE Len(q) <= Len(r)
    OBVIOUS
  <2>1. Len(q) + 1 <= Len(r) + 1
    BY <1>3, <1>4
  <2>2. QED
    BY <1>1, <1>4, <2>1
<1> HIDE DEF A
<1>6. \E x \in A : \A q \in A : Len(q) <= Len(x)
  BY <1>5, <1>4
<1>7. RootFor(f, rs) \in A /\ \A q \in A : Len(q) <= Len(RootFor(f, rs))
  BY <1>6, Zenon DEF RootFor, A
<1>8. QED
  BY <1>1, <1>7 DEF A

(* The folders between a folder and its root have the same root, and so    *)
(* has a root itself.                                                      *)
LEMMA SameRoot ==
  ASSUME NEW f \in Seq(STRING), NEW rs, \A r \in rs : r \in Seq(STRING), Above(f, rs) # {},
         NEW n \in Len(RootFor(f, rs))..Len(f)
  PROVE  RootFor(SubSeq(f, 1, n), rs) = RootFor(f, rs)
<1> DEFINE r == RootFor(f, rs)
           g == SubSeq(f, 1, n)
           q == RootFor(g, rs)
<1>1. /\ r \in rs /\ r \in Seq(STRING) /\ Len(r) \in Nat /\ Len(r) <= Len(f) /\ IsPrefix(r, f)
      /\ SubSeq(f, 1, Len(r)) = r /\ \A p \in Above(f, rs) : Len(p) <= Len(r)
  <2>1. r \in rs /\ r \in Seq(STRING) /\ IsPrefix(r, f) /\ \A p \in Above(f, rs) : Len(p) <= Len(r)
    BY RootFacts
  <2> HIDE DEF r
  <2>2. SubSeq(r, 1, Len(r)) = r
    BY <2>1
  <2>3. QED
    BY <2>1, <2>2 DEF IsPrefix
<1>2. n \in Nat /\ n <= Len(f) /\ Len(r) <= n
  BY <1>1
<1> HIDE DEF r
<1>3. g \in Seq(STRING) /\ Len(g) = n /\ \A i \in 1..n : g[i] = f[i]
  BY <1>2
<1>4. ASSUME NEW m \in 0..n PROVE SubSeq(g, 1, m) = SubSeq(f, 1, m)
  <2> HIDE DEF g
  <2>1. SubSeq(g, 1, m) = [i \in 1..m |-> g[i]] /\ SubSeq(f, 1, m) = [i \in 1..m |-> f[i]]
    BY <1>2, <1>3
  <2>2. \A i \in 1..m : g[i] = f[i]
    BY <1>2, <1>3
  <2>3. QED
    BY <2>1, <2>2
<1> HIDE DEF g
<1>5. r \in Above(g, rs)
  <2>1. SubSeq(g, 1, Len(r)) = SubSeq(f, 1, Len(r))
    BY <1>1, <1>2, <1>4
  <2>2. SubSeq(r, 1, Len(r)) = SubSeq(g, 1, Len(r)) /\ Len(r) <= Len(g)
    <3>1. SubSeq(r, 1, Len(r)) = r
      BY <1>1
    <3>2. SubSeq(f, 1, Len(r)) = r
      BY <1>1
    <3>3. Len(r) <= Len(g)
      BY <1>2, <1>3
    <3>4. QED
      BY <2>1, <3>1, <3>2, <3>3
  <2>3. r \in rs
    BY <1>1
  <2>4. QED
    BY <2>2, <2>3, Zenon DEF Above, IsPrefix
<1>6. q \in rs /\ q \in Seq(STRING) /\ IsPrefix(q, g) /\ Len(r) <= Len(q)
  BY <1>3, <1>5, RootFacts
<1> HIDE DEF q
<1>7. Len(q) \in Nat /\ Len(q) <= n /\ SubSeq(g, 1, Len(q)) = q /\ SubSeq(q, 1, Len(q)) = q
  BY <1>3, <1>6 DEF IsPrefix
<1>8. SubSeq(f, 1, Len(q)) = q
  BY <1>4, <1>7
<1>9. q \in Above(f, rs)
  BY <1>2, <1>6, <1>7, <1>8 DEF Above, IsPrefix
<1>10. Len(q) = Len(r)
  <2>1. Len(q) <= Len(r)
    BY <1>1, <1>9
  <2>2. Len(r) \in Nat /\ Len(q) \in Nat /\ Len(r) <= Len(q)
    BY <1>1, <1>6, <1>7
  <2>3. QED
    BY <2>1, <2>2
<1>11. q = r
  BY <1>1, <1>8, <1>10
<1>12. QED
  BY <1>11 DEF q, r, g

LEMMA RootOfRoot ==
  ASSUME NEW rs, \A r \in rs : r \in Seq(STRING), NEW r \in rs
  PROVE  RootFor(r, rs) = r
<1>1. r \in Seq(STRING) /\ r \in Above(r, rs)
  BY DEF Above, IsPrefix
<1> DEFINE q == RootFor(r, rs)
<1>2. q \in Seq(STRING) /\ IsPrefix(q, r) /\ Len(r) <= Len(q)
  BY <1>1, RootFacts
<1> HIDE DEF q
<1>3. Len(q) = Len(r) /\ SubSeq(r, 1, Len(r)) = r /\ SubSeq(q, 1, Len(q)) = q
  BY <1>1, <1>2 DEF IsPrefix
<1>4. q = r
  BY <1>2, <1>3 DEF IsPrefix
<1>5. QED
  BY <1>4 DEF q

-----------------------------------------------------------------------------
(* What is said of a folder's entry, for the functions of a tree.          *)
Leads(N, n) == \E c \in DOMAIN N : ~IsTop(c) /\ Up(c) = n
Fitting(N, E, n) == /\ n \in DOMAIN E <=> N[n] # {} /\ (IsTop(n) \/ Leads(N, n))
                    /\ n \in DOMAIN E => E[n] = Single(N[n])

(* A tree in which every entry fits, and one that waits for an entry.      *)
Whole(t) ==
  /\ t = Tree(t.nodes, t.entries, t.branches)
  /\ DOMAIN t.branches = DOMAIN t.nodes /\ DOMAIN t.entries \subseteq DOMAIN t.nodes
  /\ \A n \in DOMAIN t.nodes : Fitting(t.nodes, t.entries, n)
AllBut(t, x) ==
  /\ t = Tree(t.nodes, t.entries, t.branches)
  /\ DOMAIN t.branches = DOMAIN t.nodes /\ DOMAIN t.entries \subseteq DOMAIN t.nodes
  /\ \A n \in DOMAIN t.nodes \ {x} : Fitting(t.nodes, t.entries, n)
  /\ x \in DOMAIN t.nodes
  /\ x \in DOMAIN t.entries => t.nodes[x] # {} /\ (IsTop(x) \/ Leads(t.nodes, x))

(* The folders of a tree, and what stays when it grows.                    *)
Grown(t, u, S) ==
  /\ Whole(u) /\ DOMAIN u.nodes = DOMAIN t.nodes \cup S
  /\ \A n \in DOMAIN t.nodes : t.nodes[n] \subseteq u.nodes[n]

(* syncManifestsEntry gives the folder the entry it should have.           *)
LEMMA SyncFacts ==
  ASSUME NEW t, NEW x, AllBut(t, x), NEW u, u = syncManifestsEntry(t, x)
  PROVE  Whole(u) /\ u.nodes = t.nodes
<1> DEFINE N == t.nodes
           E == t.entries
           B == t.branches
           due == N[x] # {} /\ (IsTop(x) \/ Leads(N, x))
<1>1. t = Tree(N, E, B) /\ DOMAIN B = DOMAIN N /\ DOMAIN E \subseteq DOMAIN N /\ x \in DOMAIN N
      /\ (\A n \in DOMAIN N \ {x} : Fitting(N, E, n)) /\ (x \in DOMAIN E => due)
  BY DEF AllBut
<1>2. HasFolders(t, x) <=> Leads(N, x)
  BY DEF HasFolders, Leads
<1>3. CASE ~due
  <2>1. u = t
    BY <1>2, <1>3 DEF syncManifestsEntry
  <2>2. Fitting(N, E, x)
    BY <1>1, <1>3 DEF Fitting
  <2>3. QED
    BY <1>1, <2>1, <2>2 DEF Whole
<1>4. CASE due
  <2> DEFINE F == Put(E, x, Single(N[x]))
  <2>1. u = Tree(N, F, B)
    BY <1>2, <1>4 DEF syncManifestsEntry
  <2>2. DOMAIN F = {x} \cup DOMAIN E /\ F[x] = Single(N[x]) /\ \A n \in DOMAIN E : n # x => F[n] = E[n]
    BY DEF Put
  <2> HIDE DEF F, N, E, B
  <2>4. u.nodes = N /\ u.entries = F /\ u.branches = B
    BY <2>1 DEF Tree
  <2>5. Fitting(N, F, x)
    BY <1>4, <2>2 DEF Fitting
  <2>6. \A n \in DOMAIN N \ {x} : Fitting(N, F, n)
    BY <1>1, <2>2 DEF Fitting
  <2>7. QED
    BY <1>1, <2>1, <2>2, <2>4, <2>5, <2>6 DEF Whole, N
<1> HIDE DEF due
<1>5. QED
  BY <1>3, <1>4

(* A folder below one of the tree is added, with the entry of the latter.  *)
LEMMA AddFolderFacts ==
  ASSUME NEW t, Whole(t), NEW node, ~IsTop(node), Up(node) \in DOMAIN t.nodes,
         NEW u, u = AddFolder(t, node)
  PROVE  Grown(t, u, {node})
<1> DEFINE N == t.nodes
           E == t.entries
           B == t.branches
           x == Up(node)
<1>1. t = Tree(N, E, B) /\ DOMAIN B = DOMAIN N /\ DOMAIN E \subseteq DOMAIN N /\ x \in DOMAIN N
      /\ \A n \in DOMAIN N : Fitting(N, E, n)
  BY DEF Whole
<1>2. CASE node \in DOMAIN N
  BY <1>2 DEF AddFolder, Grown
<1>3. CASE node \notin DOMAIN N
  <2> DEFINE M == Put(N, node, {})
             C == Put(B, node, BranchNow(node))
             v == Tree(M, E, C)
  <2>1. u = syncManifestsEntry(v, x)
    BY <1>3 DEF AddFolder
  <2>2. DOMAIN M = {node} \cup DOMAIN N /\ M[node] = {} /\ \A n \in DOMAIN N : n # node => M[n] = N[n]
    BY DEF Put
  <2>3. DOMAIN C = {node} \cup DOMAIN B
    BY DEF Put
  <2>4. v = Tree(M, E, C)
    OBVIOUS
  <2> HIDE DEF M, C, N, E, B, v, x
  <2>5. v.nodes = M /\ v.entries = E /\ v.branches = C
    BY <2>4 DEF Tree
  <2>6. ASSUME NEW n \in DOMAIN N PROVE M[n] = N[n] /\ (Leads(M, n) <=> Leads(N, n) \/ n = x)
    BY <1>3, <2>2 DEF Leads, x
  <2>7. ASSUME NEW n \in DOMAIN N, n # x PROVE Fitting(M, E, n)
    BY <1>1, <2>6, <2>7 DEF Fitting
  <2>8. Fitting(M, E, node)
    BY <1>1, <1>3, <2>2 DEF Fitting
  <2>9. x \in DOMAIN E => M[x] # {} /\ (IsTop(x) \/ Leads(M, x))
    BY <1>1, <2>6 DEF Fitting
  <2>10. AllBut(v, x)
    BY <1>1, <2>2, <2>3, <2>4, <2>5, <2>7, <2>8, <2>9 DEF AllBut
  <2>11. Whole(u) /\ u.nodes = M
    BY <2>1, <2>5, <2>10, SyncFacts
  <2>12. QED
    BY <2>2, <2>6, <2>11 DEF Grown, N
<1>4. QED
  BY <1>2, <1>3

(* A manifest is put into a folder of the tree.                            *)
LEMMA PutManifest ==
  ASSUME NEW t, Whole(t), NEW node \in DOMAIN t.nodes, NEW m,
         NEW u, u = syncManifestsEntry(Tree(Put(t.nodes, node, t.nodes[node] \cup {m}), t.entries, t.branches), node)
  PROVE  Grown(t, u, {}) /\ m \in u.nodes[node]
<1> DEFINE N == t.nodes
           E == t.entries
           B == t.branches
           M == Put(N, node, N[node] \cup {m})
           v == Tree(M, E, B)
<1>1. t = Tree(N, E, B) /\ DOMAIN B = DOMAIN N /\ DOMAIN E \subseteq DOMAIN N
      /\ \A n \in DOMAIN N : Fitting(N, E, n)
  BY DEF Whole
<1>2. u = syncManifestsEntry(v, node)
  OBVIOUS
<1>3. DOMAIN M = {node} \cup DOMAIN N /\ M[node] = N[node] \cup {m}
      /\ \A n \in DOMAIN N : n # node => M[n] = N[n]
  BY DEF Put
<1>4. v = Tree(M, E, B)
  OBVIOUS
<1>5. node \in DOMAIN N
  OBVIOUS
<1> HIDE DEF M, N, E, B, v
<1>6. v.nodes = M /\ v.entries = E /\ v.branches = B
  BY <1>4 DEF Tree
<1>7. DOMAIN M = DOMAIN N /\ \A n : Leads(M, n) <=> Leads(N, n)
  BY <1>3, <1>5 DEF Leads
<1>8. \A n \in DOMAIN N : n # node => Fitting(M, E, n)
  BY <1>1, <1>3, <1>7 DEF Fitting
<1>9. node \in DOMAIN E => M[node] # {} /\ (IsTop(node) \/ Leads(M, node))
  BY <1>1, <1>3, <1>5, <1>7 DEF Fitting
<1>10. AllBut(v, node)
  BY <1>1, <1>4, <1>5, <1>6, <1>7, <1>8, <1>9 DEF AllBut
<1>11. Whole(u) /\ u.nodes = M
  BY <1>2, <1>6, <1>10, SyncFacts
<1>12. QED
  BY <1>3, <1>7, <1>11 DEF Grown, N

LEMMA GrownOn ==
  ASSUME NEW t, NEW u, NEW v, NEW S, NEW R, Grown(t, u, S), Grown(u, v, R)
  PROVE  Grown(t, v, S \cup R)
<1>1. Whole(v) /\ DOMAIN v.nodes = DOMAIN t.nodes \cup (S \cup R)
  BY DEF Grown
<1>2. ASSUME NEW n \in DOMAIN t.nodes PROVE t.nodes[n] \subseteq v.nodes[n]
  BY DEF Grown
<1>3. QED
  BY <1>1, <1>2 DEF Grown

-----------------------------------------------------------------------------
(* The folders below a root are added one after the other.                 *)
Descent(g, t, r, f, m) ==
  /\ g = [n \in 0..m |-> g[n]] /\ g[0] = t
  /\ \A n \in 1..m : g[n] = AddFolder(g[n - 1], Node(r, f, Len(r) + n))

LEMMA DescentExists ==
  ASSUME NEW t, NEW r, NEW f, NEW k \in Nat
  PROVE  \E g : Descent(g, t, r, f, k)
<1> DEFINE I == {m \in Nat : \E g : Descent(g, t, r, f, m)}
<1>1. 0 \in I
  <2> DEFINE g == [n \in 0..0 |-> t]
  <2>1. g = [n \in 0..0 |-> g[n]] /\ g[0] = t /\ 1..0 = {}
    OBVIOUS
  <2>2. Descent(g, t, r, f, 0)
    BY <2>1 DEF Descent
  <2>3. QED
    BY <2>2
<1>2. ASSUME NEW m \in Nat, m \in I PROVE m + 1 \in I
  <2>1. PICK g : Descent(g, t, r, f, m)
    BY <1>2
  <2> DEFINE next == AddFolder(g[m], Node(r, f, Len(r) + (m + 1)))
             h == [n \in 0..(m + 1) |-> IF n = m + 1 THEN next ELSE g[n]]
  <2> HIDE DEF next
  <2>2. h = [n \in 0..(m + 1) |-> h[n]] /\ h[m + 1] = next /\ \A n \in 0..m : h[n] = g[n]
    OBVIOUS
  <2> HIDE DEF h
  <2>3. ASSUME NEW n \in 1..(m + 1) PROVE h[n] = AddFolder(h[n - 1], Node(r, f, Len(r) + n))
    <3>1. CASE n = m + 1
      <4>1. n - 1 = m /\ m \in 0..m
        BY <3>1
      <4>2. h[n - 1] = g[m] /\ h[n] = next
        BY <2>2, <3>1, <4>1
      <4>3. QED
        BY <3>1, <4>2, Zenon DEF next
    <3>2. CASE n \in 1..m
      <4>1. n - 1 \in 0..m /\ n \in 0..m
        BY <3>2
      <4>2. g[n] = AddFolder(g[n - 1], Node(r, f, Len(r) + n))
        BY <2>1, <3>2 DEF Descent
      <4>3. QED
        BY <2>2, <4>1, <4>2
    <3>3. QED
      BY <3>1, <3>2
  <2>4. h[0] = t
    <3>1. 0 \in 0..m
      OBVIOUS
    <3>2. QED
      BY <2>1, <2>2, <3>1 DEF Descent
  <2>5. Descent(h, t, r, f, m + 1)
    BY <2>2, <2>3, <2>4 DEF Descent
  <2>6. QED
    BY <2>5
<1> HIDE DEF I
<1>3. Nat \subseteq I
  BY <1>1, <1>2, NatSet
<1>4. QED
  BY <1>3 DEF I

(* The function that ensureFolder computes is that.                        *)
LEMMA EnsureIsDescent ==
  ASSUME NEW t, NEW r \in Seq(STRING), NEW f \in Seq(STRING), IsPrefix(r, f)
  PROVE  \E u : Descent(u, t, r, f, Len(f) - Len(r)) /\ ensureFolder(t, r, f) = u[Len(f) - Len(r)]
<1> DEFINE N == Len(f) - Len(r)
           Rec(g) == [n \in 0..N |-> IF n = 0 THEN t
                                     ELSE AddFolder(g[n - 1], <<r, SubSeq(f, 1, Len(r) + n)>>)]
           u == CHOOSE g : g = Rec(g)
<1>0. N \in Nat
  BY DEF IsPrefix
<1>1. PICK h : Descent(h, t, r, f, N)
  <2> HIDE DEF N
  <2>1. QED
    BY <1>0, DescentExists
<1>2. h = Rec(h)
  <2> HIDE DEF N
  <2>1. h = [n \in 0..N |-> h[n]]
    BY <1>1 DEF Descent
  <2>2. ASSUME NEW n \in 0..N PROVE h[n] = Rec(h)[n]
    <3>1. CASE n = 0
      BY <1>1, <3>1 DEF Descent
    <3>2. CASE n \in 1..N
      <4>1. h[n] = AddFolder(h[n - 1], Node(r, f, Len(r) + n))
        BY <1>1, <3>2 DEF Descent
      <4>2. n # 0
        BY <3>2
      <4>3. QED
        BY <4>1, <4>2 DEF Node
    <3>3. QED
      BY <1>0, <3>1, <3>2
  <2>3. QED
    BY <2>1, <2>2
<1>3. u = Rec(u)
  BY <1>2
<1>4. ensureFolder(t, r, f) = u[N]
  BY DEF ensureFolder
<1> HIDE DEF u, N
<1>5. Descent(u, t, r, f, N)
  <2>1. u = [n \in 0..N |-> u[n]]
    BY <1>3
  <2>2. u[0] = t
    BY <1>0, <1>3
  <2>3. ASSUME NEW n \in 1..N PROVE u[n] = AddFolder(u[n - 1], Node(r, f, Len(r) + n))
    <3>1. n \in 0..N /\ n # 0
      BY <1>0
    <3>2. QED
      BY <1>3, <3>1 DEF Node
  <2>4. QED
    BY <2>1, <2>2, <2>3 DEF Descent
<1>6. QED
  BY <1>4, <1>5 DEF N

LEMMA OneFurther ==
  ASSUME NEW a \in Nat, NEW m \in Nat
  PROVE  a..(a + (m + 1)) = (a..(a + m)) \cup {a + (m + 1)}
OBVIOUS

(* Afterwards the folders on the way stand in the tree.                    *)
LEMMA EnsureFacts ==
  ASSUME NEW t, Whole(t), NEW r \in Seq(STRING), NEW f \in Seq(STRING), IsPrefix(r, f),
         <<r, r>> \in DOMAIN t.nodes
  PROVE  Grown(t, ensureFolder(t, r, f), WayTo(r, f))
<1> DEFINE N == Len(f) - Len(r)
           Part(m) == {Node(r, f, n) : n \in Len(r)..(Len(r) + m)}
<1>0. /\ Len(r) \in Nat /\ Len(f) \in Nat /\ N \in Nat
      /\ Node(r, f, Len(r)) = <<r, r>> /\ Node(r, f, Len(f)) = <<r, f>>
      /\ \A n \in (Len(r) + 1)..Len(f) : ~IsTop(Node(r, f, n)) /\ Up(Node(r, f, n)) = Node(r, f, n - 1)
  BY NodeFacts
<1>1. PICK u : Descent(u, t, r, f, N) /\ ensureFolder(t, r, f) = u[N]
  BY EnsureIsDescent
<1>a. Len(r) + N = Len(f)
  BY <1>0
<1> HIDE DEF N
<1> DEFINE I == {m \in Nat : m <= N => Grown(t, u[m], Part(m))}
<1>2. 0 \in I
  <2>1. u[0] = t
    BY <1>1 DEF Descent
  <2>2. Part(0) = {<<r, r>>}
    <3>1. Len(r)..(Len(r) + 0) = {Len(r)}
      BY <1>0
    <3>2. QED
      BY <1>0, <3>1
  <2>3. Grown(t, t, {<<r, r>>})
    BY DEF Grown
  <2>4. QED
    BY <2>1, <2>2, <2>3
<1>3. ASSUME NEW m \in Nat, m \in I PROVE m + 1 \in I
  <2> SUFFICES ASSUME m + 1 <= N PROVE Grown(t, u[m + 1], Part(m + 1))
    OBVIOUS
  <2> DEFINE k == Len(r) + (m + 1)
             node == Node(r, f, k)
  <2>1. k \in (Len(r) + 1)..Len(f) /\ k - 1 = Len(r) + m /\ m + 1 \in 1..N /\ (m + 1) - 1 = m /\ m <= N
    BY <1>0, <1>a
  <2>2. Grown(t, u[m], Part(m))
    BY <1>3, <2>1
  <2>3. u[m + 1] = AddFolder(u[m], node)
    <3>1. u[m + 1] = AddFolder(u[(m + 1) - 1], Node(r, f, Len(r) + (m + 1)))
      BY <1>1, <2>1 DEF Descent
    <3>2. QED
      BY <2>1, <3>1
  <2>4. ~IsTop(node) /\ Up(node) = Node(r, f, k - 1)
    <3> HIDE DEF k
    <3>1. QED
      BY <1>0, <2>1
  <2>5. Node(r, f, k - 1) \in Part(m)
    <3>1. Len(r) + m \in Len(r)..(Len(r) + m)
      BY <1>0
    <3> HIDE DEF k
    <3>2. QED
      BY <2>1, <3>1
  <2>6. Part(m + 1) = Part(m) \cup {node}
    <3>1. Len(r)..k = (Len(r)..(Len(r) + m)) \cup {k}
      BY <1>0, OneFurther
    <3>2. QED
      BY <3>1
  <2> HIDE DEF node, Part
  <2>7. Whole(u[m]) /\ Up(node) \in DOMAIN u[m].nodes
    BY <2>2, <2>4, <2>5 DEF Grown
  <2>8. Grown(u[m], u[m + 1], {node})
    BY <2>3, <2>4, <2>7, AddFolderFacts
  <2>9. Grown(t, u[m + 1], Part(m) \cup {node})
    BY <2>2, <2>8, GrownOn
  <2>10. QED
    BY <2>6, <2>9
<1> HIDE DEF I
<1>4. Nat \subseteq I
  BY <1>2, <1>3, NatSet
<1>5. Grown(t, u[N], Part(N))
  <2>1. N \in Nat
    BY <1>0 DEF N
  <2>2. N \in I /\ N <= N
    BY <1>4, <2>1
  <2> HIDE DEF Part
  <2>3. QED
    BY <2>2 DEF I
<1>6. Part(N) = WayTo(r, f)
  BY <1>a DEF WayTo
<1>7. QED
  BY <1>1, <1>5, <1>6

-----------------------------------------------------------------------------
(* A project brings the folders from its root to it.                       *)
InRoots(rs, p) == Above(p[1], rs) # {}
Brings(rs, p) == IF InRoots(rs, p) THEN WayTo(RootFor(p[1], rs), p[1]) ELSE {}
RowOf(rs, p) == <<RootFor(p[1], rs), p[1]>>
Projects == Seq(STRING) \X STRING

LEMMA ProjectFacts ==
  ASSUME NEW rs, \A r \in rs : r \in Seq(STRING), NEW p \in Projects,
         NEW t, Whole(t), \A r \in rs : <<r, r>> \in DOMAIN t.nodes,
         NEW u, u = addProjectManifest(t, rs, p)
  PROVE  Grown(t, u, Brings(rs, p)) /\ (InRoots(rs, p) => p[2] \in u.nodes[RowOf(rs, p)])
<1>1. CASE ~InRoots(rs, p)
  <2>1. u = t
    BY <1>1 DEF addProjectManifest, InRoots
  <2>2. Grown(t, t, {})
    BY DEF Grown
  <2>3. QED
    BY <1>1, <2>1, <2>2 DEF Brings
<1>2. CASE InRoots(rs, p)
  <2> DEFINE f == p[1]
             r == RootFor(f, rs)
             node == <<r, f>>
             v == ensureFolder(t, r, f)
  <2>1. f \in Seq(STRING)
    BY DEF Projects
  <2>2. r \in rs /\ r \in Seq(STRING) /\ IsPrefix(r, f)
    BY <1>2, <2>1, RootFacts DEF InRoots
  <2>3. Grown(t, v, WayTo(r, f))
    <3> HIDE DEF f, r
    <3>1. QED
      BY <2>1, <2>2, EnsureFacts
  <2>4. node \in WayTo(r, f)
    <3> HIDE DEF f, r
    <3>1. Len(r) \in Nat /\ Len(f) \in Nat /\ Len(r) <= Len(f) /\ Node(r, f, Len(f)) = <<r, f>>
      BY <2>1, <2>2, NodeFacts
    <3>2. QED
      BY <3>1 DEF WayTo
  <2>5. u = syncManifestsEntry(Tree(Put(v.nodes, node, v.nodes[node] \cup {p[2]}), v.entries, v.branches), node)
    BY <1>2 DEF addProjectManifest, InRoots
  <2> HIDE DEF v, node, r, f
  <2>6. Whole(v) /\ node \in DOMAIN v.nodes
    BY <2>3, <2>4 DEF Grown
  <2>7. Grown(v, u, {}) /\ p[2] \in u.nodes[node]
    BY <2>5, <2>6, PutManifest
  <2>8. Grown(t, u, WayTo(r, f) \cup {})
    BY <2>3, <2>7, GrownOn
  <2>9. Brings(rs, p) = WayTo(r, f) \cup {} /\ RowOf(rs, p) = node
    BY <1>2 DEF Brings, RowOf, node, r, f
  <2>10. QED
    BY <2>7, <2>8, <2>9
<1>3. QED
  BY <1>1, <1>2

(* An empty workspace is a whole tree.                                     *)
LEMMA BareFacts ==
  ASSUME NEW rs
  PROVE  Whole(BareTree(rs)) /\ DOMAIN BareTree(rs).nodes = {<<r, r>> : r \in rs}
<1> DEFINE tops == {<<r, r>> : r \in rs}
           N == [n \in tops |-> {}]
           E == [n \in {} |-> ""]
           B == [n \in tops |-> branchForFolder(n[2], TRUE)]
           t == BareTree(rs)
<1>1. t = Tree(N, E, B)
  BY DEF BareTree
<1>2. DOMAIN N = tops /\ DOMAIN E = {} /\ DOMAIN B = tops /\ \A n \in tops : N[n] = {}
  OBVIOUS
<1> HIDE DEF N, E, B, t, tops
<1>3. t.nodes = N /\ t.entries = E /\ t.branches = B
  BY <1>1 DEF Tree
<1>4. \A n \in tops : Fitting(N, E, n)
  BY <1>2 DEF Fitting
<1>5. QED
  BY <1>1, <1>2, <1>3, <1>4 DEF Whole, t, tops

-----------------------------------------------------------------------------
(* The projects are added one after the other.                             *)
Growth(g, rs, ps, m) ==
  /\ g = [n \in 0..m |-> g[n]] /\ g[0] = BareTree(rs)
  /\ \A n \in 1..m : g[n] = addProjectManifest(g[n - 1], rs, ps[n])

LEMMA GrowthExists ==
  ASSUME NEW rs, NEW ps, NEW k \in Nat
  PROVE  \E g : Growth(g, rs, ps, k)
<1> DEFINE I == {m \in Nat : \E g : Growth(g, rs, ps, m)}
<1>1. 0 \in I
  <2> DEFINE g == [n \in 0..0 |-> BareTree(rs)]
  <2>1. g = [n \in 0..0 |-> g[n]] /\ g[0] = BareTree(rs) /\ 1..0 = {}
    OBVIOUS
  <2>2. Growth(g, rs, ps, 0)
    BY <2>1 DEF Growth
  <2>3. QED
    BY <2>2
<1>2. ASSUME NEW m \in Nat, m \in I PROVE m + 1 \in I
  <2>1. PICK g : Growth(g, rs, ps, m)
    BY <1>2
  <2> DEFINE next == addProjectManifest(g[m], rs, ps[m + 1])
             h == [n \in 0..(m + 1) |-> IF n = m + 1 THEN next ELSE g[n]]
  <2> HIDE DEF next
  <2>2. h = [n \in 0..(m + 1) |-> h[n]] /\ h[m + 1] = next /\ \A n \in 0..m : h[n] = g[n]
    OBVIOUS
  <2> HIDE DEF h
  <2>3. ASSUME NEW n \in 1..(m + 1) PROVE h[n] = addProjectManifest(h[n - 1], rs, ps[n])
    <3>1. CASE n = m + 1
      <4>1. n - 1 = m /\ m \in 0..m
        BY <3>1
      <4>2. h[n - 1] = g[m] /\ h[n] = next
        BY <2>2, <3>1, <4>1
      <4>3. QED
        BY <3>1, <4>2, Zenon DEF next
    <3>2. CASE n \in 1..m
      <4>1. n - 1 \in 0..m /\ n \in 0..m
        BY <3>2
      <4>2. g[n] = addProjectManifest(g[n - 1], rs, ps[n])
        BY <2>1, <3>2 DEF Growth
      <4>3. QED
        BY <2>2, <4>1, <4>2
    <3>3. QED
      BY <3>1, <3>2
  <2>4. h[0] = BareTree(rs)
    <3>1. 0 \in 0..m
      OBVIOUS
    <3>2. QED
      BY <2>1, <2>2, <3>1 DEF Growth
  <2>5. Growth(h, rs, ps, m + 1)
    BY <2>2, <2>3, <2>4 DEF Growth
  <2>6. QED
    BY <2>5
<1> HIDE DEF I
<1>3. Nat \subseteq I
  BY <1>1, <1>2, NatSet
<1>4. QED
  BY <1>3 DEF I

(* The function that the tree is built with is that.                       *)
LEMMA TreeIsGrowth ==
  ASSUME NEW rs, NEW ps \in Seq(Projects)
  PROVE  \E u : Growth(u, rs, ps, Len(ps)) /\ TreeOf(rs, ps) = u[Len(ps)]
<1> DEFINE N == Len(ps)
           Rec(g) == [n \in 0..N |-> IF n = 0 THEN BareTree(rs)
                                     ELSE addProjectManifest(g[n - 1], rs, ps[n])]
           u == CHOOSE g : g = Rec(g)
<1>0. N \in Nat
  OBVIOUS
<1>1. PICK h : Growth(h, rs, ps, N)
  <2> HIDE DEF N
  <2>1. QED
    BY <1>0, GrowthExists
<1>2. h = Rec(h)
  <2> HIDE DEF N
  <2>1. h = [n \in 0..N |-> h[n]]
    BY <1>1 DEF Growth
  <2>2. ASSUME NEW n \in 0..N PROVE h[n] = Rec(h)[n]
    <3>1. CASE n = 0
      BY <1>1, <3>1 DEF Growth
    <3>2. CASE n \in 1..N
      <4>1. h[n] = addProjectManifest(h[n - 1], rs, ps[n])
        BY <1>1, <3>2 DEF Growth
      <4>2. n # 0
        BY <3>2
      <4>3. QED
        BY <4>1, <4>2
    <3>3. QED
      BY <1>0, <3>1, <3>2
  <2>3. QED
    BY <2>1, <2>2
<1>3. u = Rec(u)
  BY <1>2
<1>4. TreeOf(rs, ps) = u[N]
  BY DEF TreeOf
<1> HIDE DEF u, N
<1>5. Growth(u, rs, ps, N)
  <2>1. u = [n \in 0..N |-> u[n]]
    BY <1>3
  <2>2. u[0] = BareTree(rs)
    BY <1>0, <1>3
  <2>3. ASSUME NEW n \in 1..N PROVE u[n] = addProjectManifest(u[n - 1], rs, ps[n])
    <3>1. n \in 0..N /\ n # 0
      BY <1>0
    <3>2. QED
      BY <1>3, <3>1
  <2>4. QED
    BY <2>1, <2>2, <2>3 DEF Growth
<1>6. QED
  BY <1>4, <1>5 DEF N

(* What a tree of the first m projects is.                                 *)
Standing(t, rs, ps, m) ==
  /\ Grown(BareTree(rs), t, UNION {Brings(rs, ps[i]) : i \in 1..m})
  /\ \A i \in 1..m : InRoots(rs, ps[i]) => ps[i][2] \in t.nodes[RowOf(rs, ps[i])]

LEMMA TreeOfFacts ==
  ASSUME NEW rs, \A r \in rs : r \in Seq(STRING), NEW ps \in Seq(Projects)
  PROVE  Standing(TreeOf(rs, ps), rs, ps, Len(ps))
<1> DEFINE N == Len(ps)
           b == BareTree(rs)
<1>0. N \in Nat /\ \A n \in 1..N : ps[n] \in Projects
  OBVIOUS
<1>1. PICK u : Growth(u, rs, ps, N) /\ TreeOf(rs, ps) = u[N]
  BY TreeIsGrowth
<1>2. Whole(b) /\ DOMAIN b.nodes = {<<r, r>> : r \in rs}
  BY BareFacts
<1> HIDE DEF N
<1> DEFINE I == {m \in Nat : m <= N => Standing(u[m], rs, ps, m)}
<1>3. 0 \in I
  <2>1. u[0] = b
    BY <1>1 DEF Growth
  <2>2. 1..0 = {}
    OBVIOUS
  <2>3. UNION {Brings(rs, ps[i]) : i \in 1..0} = {}
    BY <2>2
  <2>4. Grown(b, b, {})
    BY <1>2 DEF Grown
  <2>5. QED
    BY <2>1, <2>2, <2>3, <2>4 DEF Standing
<1>4. ASSUME NEW m \in Nat, m \in I PROVE m + 1 \in I
  <2> SUFFICES ASSUME m + 1 <= N PROVE Standing(u[m + 1], rs, ps, m + 1)
    OBVIOUS
  <2> DEFINE t == u[m]
             v == u[m + 1]
             p == ps[m + 1]
             S == UNION {Brings(rs, ps[i]) : i \in 1..m}
  <2>1. m + 1 \in 1..N /\ (m + 1) - 1 = m /\ m <= N /\ 1..(m + 1) = (1..m) \cup {m + 1}
    BY <1>0
  <2>2. Standing(t, rs, ps, m)
    BY <1>4, <2>1
  <2>3. v = addProjectManifest(t, rs, p)
    <3>1. u[m + 1] = addProjectManifest(u[(m + 1) - 1], rs, ps[m + 1])
      BY <1>1, <2>1 DEF Growth
    <3>2. QED
      BY <2>1, <3>1
  <2>4. p \in Projects
    BY <1>0, <2>1
  <2>5. UNION {Brings(rs, ps[i]) : i \in 1..(m + 1)} = S \cup Brings(rs, p)
    BY <2>1
  <2> HIDE DEF t, v, p, S, b
  <2>6. Grown(b, t, S)
    BY <2>2 DEF Standing, S, b
  <2>7. Whole(t) /\ \A r \in rs : <<r, r>> \in DOMAIN t.nodes
    BY <1>2, <2>6 DEF Grown
  <2>8. Grown(t, v, Brings(rs, p)) /\ (InRoots(rs, p) => p[2] \in v.nodes[RowOf(rs, p)])
    BY <2>3, <2>4, <2>7, ProjectFacts
  <2>9. Grown(b, v, S \cup Brings(rs, p))
    BY <2>6, <2>8, GrownOn
  <2>10. ASSUME NEW i \in 1..m, InRoots(rs, ps[i]) PROVE ps[i][2] \in v.nodes[RowOf(rs, ps[i])]
    <3>1. ps[i][2] \in t.nodes[RowOf(rs, ps[i])]
      BY <2>2, <2>10 DEF Standing
    <3>2. RowOf(rs, ps[i]) \in Brings(rs, ps[i])
      <4> DEFINE f == ps[i][1]
                 r == RootFor(f, rs)
      <4>1. f \in Seq(STRING)
        <5>1. i \in 1..N
          BY <1>0, <2>1
        <5>2. QED
          BY <1>0, <5>1 DEF Projects
      <4>2. r \in Seq(STRING) /\ IsPrefix(r, f)
        BY <2>10, <4>1, RootFacts DEF InRoots
      <4>3. Len(r) \in Nat /\ Len(f) \in Nat /\ Len(r) <= Len(f) /\ Node(r, f, Len(f)) = <<r, f>>
        <5> HIDE DEF f, r
        <5>1. QED
          BY <4>1, <4>2, NodeFacts
      <4>4. <<r, f>> \in WayTo(r, f)
        <5> HIDE DEF f, r
        <5>1. QED
          BY <4>3 DEF WayTo
      <4>5. QED
        BY <2>10, <4>4 DEF Brings, RowOf
    <3>3. RowOf(rs, ps[i]) \in DOMAIN t.nodes
      BY <2>6, <3>2 DEF Grown, S
    <3>4. QED
      BY <2>8, <3>1, <3>3 DEF Grown
  <2>11. ASSUME NEW i \in 1..(m + 1), InRoots(rs, ps[i]) PROVE ps[i][2] \in v.nodes[RowOf(rs, ps[i])]
    <3>1. CASE i \in 1..m
      BY <2>10, <2>11, <3>1
    <3>2. CASE i = m + 1
      BY <2>8, <2>11, <3>2 DEF p
    <3>3. QED
      BY <2>1, <3>1, <3>2
  <2>12. QED
    BY <2>5, <2>9, <2>11 DEF Standing, b, v
<1> HIDE DEF I
<1>5. Nat \subseteq I
  BY <1>3, <1>4, NatSet
<1>6. N \in I /\ N <= N
  BY <1>0, <1>5
<1>7. QED
  BY <1>1, <1>6 DEF I, N

-----------------------------------------------------------------------------
(* The tree is the one of the roots and projects it was built of.          *)
TreeIInv ==
  /\ (\A r \in roots : r \in Seq(STRING)) /\ found \in Seq(Projects)
  /\ DOMAIN branches = DOMAIN nodes /\ DOMAIN entries \subseteq DOMAIN nodes
  /\ \A n \in DOMAIN nodes : Fitting(nodes, entries, n)
  /\ DOMAIN nodes = {<<r, r>> : r \in roots} \cup UNION {Brings(roots, found[i]) : i \in 1..Len(found)}
  /\ \A i \in 1..Len(found) : InRoots(roots, found[i]) => found[i][2] \in nodes[RowOf(roots, found[i])]

LEMMA TreeStarts == TreeInit => TreeIInv
<1> SUFFICES ASSUME TreeInit PROVE TreeIInv
  OBVIOUS
<1> DEFINE b == BareTree({})
<1>1. Whole(b) /\ DOMAIN b.nodes = {<<r, r>> : r \in {}}
  BY BareFacts
<1>2. roots = {} /\ found = <<>> /\ nodes = b.nodes /\ entries = b.entries /\ branches = b.branches
  BY DEF TreeInit
<1> HIDE DEF b
<1>3. Len(found) = 0 /\ 1..0 = {} /\ found \in Seq(Projects)
  BY <1>2
<1>4. UNION {Brings(roots, found[i]) : i \in 1..Len(found)} = {}
  BY <1>3
<1>5. QED
  BY <1>1, <1>2, <1>3, <1>4 DEF TreeIInv, Whole

LEMMA RebuildKeeps ==
  ASSUME RebuildTree
  PROVE  TreeIInv'
<1>1. PICK rs \in RootSets, ps \in Scans : roots' = rs /\ found' = ps /\ Install(TreeOf(rs, ps))
  BY DEF RebuildTree
<1>2. (\A r \in rs : r \in Seq(STRING)) /\ ps \in Seq(Projects)
  BY TreeAssumption DEF Projects
<1> DEFINE t == TreeOf(rs, ps)
<1>3. Standing(t, rs, ps, Len(ps))
  BY <1>2, TreeOfFacts
<1>4. DOMAIN BareTree(rs).nodes = {<<r, r>> : r \in rs}
  BY BareFacts
<1>5. nodes' = t.nodes /\ entries' = t.entries /\ branches' = t.branches
  BY <1>1 DEF Install
<1> HIDE DEF t
<1>6. Whole(t) /\ DOMAIN t.nodes = {<<r, r>> : r \in rs} \cup UNION {Brings(rs, ps[i]) : i \in 1..Len(ps)}
  BY <1>3, <1>4 DEF Standing, Grown
<1>7. DOMAIN t.branches = DOMAIN t.nodes /\ DOMAIN t.entries \subseteq DOMAIN t.nodes
      /\ \A n \in DOMAIN t.nodes : Fitting(t.nodes, t.entries, n)
  BY <1>6 DEF Whole
<1>8. \A i \in 1..Len(ps) : InRoots(rs, ps[i]) => ps[i][2] \in t.nodes[RowOf(rs, ps[i])]
  BY <1>3 DEF Standing
<1>9. QED
  BY <1>1, <1>2, <1>5, <1>6, <1>7, <1>8 DEF TreeIInv

LEMMA TreeStepKeeps == TreeIInv /\ [TreeNext]_treeVars => TreeIInv'
<1> SUFFICES ASSUME TreeIInv, [TreeNext]_treeVars PROVE TreeIInv'
  OBVIOUS
<1>1. CASE RebuildTree
  BY <1>1, RebuildKeeps
<1>2. CASE refreshGitBranches
  <2>1. DOMAIN branches' = DOMAIN branches
    BY <1>2 DEF refreshGitBranches
  <2>2. QED
    BY <1>2, <2>1 DEF refreshGitBranches, TreeIInv
<1>3. CASE HeadMoves \/ UNCHANGED treeVars
  BY <1>3 DEF HeadMoves, treeVars, TreeIInv
<1>4. QED
  BY <1>1, <1>2, <1>3 DEF TreeNext

(* A node is a root's or stands on the way to a project.                   *)
LEMMA NodeKinds ==
  ASSUME TreeIInv, NEW n \in DOMAIN nodes
  PROVE  \/ \E r \in roots : n = <<r, r>>
         \/ \E i \in 1..Len(found) :
              /\ InRoots(roots, found[i])
              /\ \E k \in Len(RootFor(found[i][1], roots))..Len(found[i][1]) :
                   n = Node(RootFor(found[i][1], roots), found[i][1], k)
<1>1. n \in {<<r, r>> : r \in roots} \/ n \in UNION {Brings(roots, found[i]) : i \in 1..Len(found)}
  BY DEF TreeIInv
<1>2. CASE n \in {<<r, r>> : r \in roots}
  BY <1>2
<1>3. CASE n \in UNION {Brings(roots, found[i]) : i \in 1..Len(found)}
  <2>1. PICK i \in 1..Len(found) : n \in Brings(roots, found[i])
    BY <1>3, Zenon
  <2>2. InRoots(roots, found[i]) /\ n \in WayTo(RootFor(found[i][1], roots), found[i][1])
    BY <2>1 DEF Brings
  <2>3. QED
    BY <2>2, Zenon DEF WayTo
<1>4. QED
  BY <1>1, <1>2, <1>3

LEMMA NodeRoots ==
  ASSUME TreeIInv, NEW n \in DOMAIN nodes
  PROVE  /\ n = <<RootFor(n[2], roots), n[2]>>
         /\ IF IsTop(n) THEN n[1] \in roots ELSE Up(n) \in DOMAIN nodes
         /\ n[2] \in roots \cup UNION {{SubSeq(p[1], 1, i) : i \in Len(RootFor(p[1], roots))..Len(p[1])} :
                                         p \in {q \in ToSet(found) : Above(q[1], roots) # {}}}
<1>0. (\A r \in roots : r \in Seq(STRING)) /\ found \in Seq(Projects)
  BY DEF TreeIInv
<1>1. CASE \E r \in roots : n = <<r, r>>
  <2>1. PICK r \in roots : n = <<r, r>>
    BY <1>1
  <2>2. RootFor(r, roots) = r
    BY <1>0, RootOfRoot
  <2>3. n[1] = r /\ n[2] = r /\ IsTop(n)
    BY <2>1 DEF IsTop
  <2>4. QED
    BY <2>1, <2>2, <2>3
<1>2. CASE \E i \in 1..Len(found) :
              /\ InRoots(roots, found[i])
              /\ \E k \in Len(RootFor(found[i][1], roots))..Len(found[i][1]) :
                   n = Node(RootFor(found[i][1], roots), found[i][1], k)
  <2>1. PICK i \in 1..Len(found) :
              /\ InRoots(roots, found[i])
              /\ \E k \in Len(RootFor(found[i][1], roots))..Len(found[i][1]) :
                   n = Node(RootFor(found[i][1], roots), found[i][1], k)
    BY <1>2
  <2> DEFINE f == found[i][1]
             r == RootFor(f, roots)
  <2>2. PICK k \in Len(r)..Len(f) : n = Node(r, f, k)
    BY <2>1
  <2>3. found[i] \in Projects /\ f \in Seq(STRING) /\ Above(f, roots) # {}
    BY <1>0, <2>1 DEF Projects, InRoots
  <2>4. r \in roots /\ r \in Seq(STRING) /\ IsPrefix(r, f)
    <3> HIDE DEF f
    <3>1. QED
      BY <1>0, <2>3, RootFacts
  <2>5. RootFor(SubSeq(f, 1, k), roots) = r
    <3> HIDE DEF f
    <3>1. QED
      BY <1>0, <2>3, SameRoot
  <2>6. n = <<r, SubSeq(f, 1, k)>> /\ n[1] = r /\ n[2] = SubSeq(f, 1, k)
    BY <2>2 DEF Node
  <2>7. found[i] \in {q \in ToSet(found) : Above(q[1], roots) # {}}
    BY <2>3, <1>0 DEF ToSet
  <2>8. n[2] \in UNION {{SubSeq(p[1], 1, j) : j \in Len(RootFor(p[1], roots))..Len(p[1])} :
                          p \in {q \in ToSet(found) : Above(q[1], roots) # {}}}
    <3>1. n[2] \in {SubSeq(f, 1, j) : j \in Len(r)..Len(f)}
      BY <2>6
    <3>2. {SubSeq(f, 1, j) : j \in Len(r)..Len(f)} \in
            {{SubSeq(p[1], 1, j) : j \in Len(RootFor(p[1], roots))..Len(p[1])} :
               p \in {q \in ToSet(found) : Above(q[1], roots) # {}}}
      BY <2>7, Zenon
    <3>3. QED
      BY <3>1, <3>2, Zenon
  <2>9. Brings(roots, found[i]) = WayTo(r, f) /\ Brings(roots, found[i]) \subseteq DOMAIN nodes
    BY <2>1 DEF Brings, TreeIInv
  <2> HIDE DEF f, r
  <2>10. /\ Len(r) \in Nat /\ Len(f) \in Nat /\ Node(r, f, Len(r)) = <<r, r>>
         /\ \A j \in (Len(r) + 1)..Len(f) : ~IsTop(Node(r, f, j)) /\ Up(Node(r, f, j)) = Node(r, f, j - 1)
    BY <2>3, <2>4, NodeFacts
  <2>11. IF IsTop(n) THEN n[1] \in roots ELSE Up(n) \in DOMAIN nodes
    <3>1. CASE k = Len(r)
      <4>1. n = <<r, r>>
        BY <2>2, <2>10, <3>1
      <4>2. n[1] = r /\ IsTop(n)
        BY <4>1 DEF IsTop
      <4>3. QED
        BY <2>4, <4>2
    <3>2. CASE k # Len(r)
      <4>1. k \in (Len(r) + 1)..Len(f) /\ k - 1 \in Len(r)..Len(f)
        BY <2>10, <3>2
      <4>2. Node(r, f, k - 1) \in WayTo(r, f)
        BY <4>1 DEF WayTo
      <4>3. ~IsTop(n) /\ Up(n) = Node(r, f, k - 1)
        BY <2>2, <2>10, <4>1
      <4>4. QED
        BY <2>9, <4>2, <4>3
    <3>3. QED
      BY <3>1, <3>2
  <2>12. QED
    BY <2>5, <2>6, <2>8, <2>11
<1>3. QED
  BY <1>1, <1>2, NodeKinds

LEMMA TreeIInvIsRight == TreeIInv => FoldersStandOnce /\ ManifestsHaveTheirRow
<1> SUFFICES ASSUME TreeIInv PROVE FoldersStandOnce /\ ManifestsHaveTheirRow
  OBVIOUS
<1> DEFINE Ways == UNION {{SubSeq(p[1], 1, i) : i \in Len(RootFor(p[1], roots))..Len(p[1])} :
                            p \in {q \in ToSet(found) : Above(q[1], roots) # {}}}
<1>0. found \in Seq(Projects) /\ ToSet(found) = {found[i] : i \in 1..Len(found)}
  BY DEF TreeIInv, ToSet
<1>1. \A m, n \in DOMAIN nodes : m[2] = n[2] => m = n
  BY NodeRoots, Zenon
<1>2. \A n \in DOMAIN nodes : IF IsTop(n) THEN n[1] \in roots ELSE Up(n) \in DOMAIN nodes
  BY NodeRoots
<1>3. {n[2] : n \in DOMAIN nodes} \subseteq roots \cup Ways
  BY NodeRoots
<1>4. ASSUME NEW r \in roots PROVE r \in {n[2] : n \in DOMAIN nodes}
  <2>1. <<r, r>> \in DOMAIN nodes /\ <<r, r>>[2] = r
    BY DEF TreeIInv
  <2>2. QED
    BY <2>1, Zenon
<1>5. ASSUME NEW g \in Ways PROVE g \in {n[2] : n \in DOMAIN nodes}
  <2>1. PICK p \in ToSet(found) : Above(p[1], roots) # {} /\
             \E k \in Len(RootFor(p[1], roots))..Len(p[1]) : g = SubSeq(p[1], 1, k)
    BY Zenon
  <2>2. PICK k \in Len(RootFor(p[1], roots))..Len(p[1]) : g = SubSeq(p[1], 1, k)
    BY <2>1
  <2>3. PICK i \in 1..Len(found) : p = found[i]
    BY <1>0
  <2> DEFINE node == Node(RootFor(p[1], roots), p[1], k)
  <2>4. node \in Brings(roots, found[i])
    BY <2>1, <2>3, Zenon DEF Brings, InRoots, WayTo
  <2>5. node \in DOMAIN nodes
    BY <2>4, Zenon DEF TreeIInv
  <2>6. node[2] = g
    BY <2>2 DEF Node
  <2>7. QED
    BY <2>5, <2>6, Zenon
<1>6. {n[2] : n \in DOMAIN nodes} = roots \cup Ways
  <2> HIDE DEF Ways
  <2>1. QED
    BY <1>3, <1>4, <1>5
<1>7. FoldersStandOnce
  <2>1. DOMAIN branches = DOMAIN nodes
    BY DEF TreeIInv
  <2>2. QED
    BY <1>1, <1>2, <1>6, <2>1, Zenon DEF FoldersStandOnce
<1>8. \A p \in ToSet(found) : Above(p[1], roots) # {} => p[2] \in nodes[<<RootFor(p[1], roots), p[1]>>]
  BY <1>0 DEF TreeIInv, InRoots, RowOf
<1>9. \A n \in DOMAIN nodes :
        n \in DOMAIN entries <=> nodes[n] # {} /\ (IsTop(n) \/ \E c \in DOMAIN nodes : ~IsTop(c) /\ Up(c) = n)
  BY DEF TreeIInv, Fitting, Leads
<1>10. \A n \in DOMAIN entries : entries[n] = Single(nodes[n])
  BY DEF TreeIInv, Fitting
<1>11. QED
  BY <1>7, <1>8, <1>9, <1>10 DEF ManifestsHaveTheirRow

(* What TreeSound says of every state: each folder stands in the sidebar   *)
(* once, under the deepest root that contains it, and every manifest that  *)
(* was found can be opened from its row, whatever the projects, their      *)
(* order and the roots are (ProjectService::applyProjects, QmlTreeModel).  *)
THEOREM TreeStandsRight == TreeSpec => [](FoldersStandOnce /\ ManifestsHaveTheirRow)
<1>1. TreeInit => TreeIInv
  BY TreeStarts
<1>2. TreeIInv /\ [TreeNext]_treeVars => TreeIInv'
  BY TreeStepKeeps
<1>3. TreeIInv => FoldersStandOnce /\ ManifestsHaveTheirRow
  BY TreeIInvIsRight
<1>4. QED
  BY <1>1, <1>2, <1>3, PTL DEF TreeSpec

-----------------------------------------------------------------------------
(* What a command is started with.                                         *)

(* The spellings of names are told apart.                                  *)
LEMMA Spellings ==
  ASSUME NEW n, NEW k
  PROVE  /\ Bare(n) = Bare(k) => n = k
         /\ Dashed(n) = Dashed(k) => n = k
         /\ Bare(n) # Dashed(k)
         /\ Bare(n)[2] = n
<1> DEFINE e == "" d == "--"
<1>1. e # d
  BY Zenon
<1>2. Bare(n) = <<e, n>> /\ Bare(k) = <<e, k>> /\ Dashed(n) = <<d, n>> /\ Dashed(k) = <<d, k>>
  BY Zenon DEF Bare, Dashed
<1> HIDE DEF e, d
<1>3. QED
  BY <1>1, <1>2

(* A name is looked up bare or dashed.                                     *)
LEMMA KeysAre ==
  ASSUME NEW m, NEW k, k \in {Key(m), OtherKey(m)}
  PROVE  k \in {Bare(m.name), Dashed(m.name)}
BY DEF Key, OtherKey

(* What of the stored values is left when the residue is cleaned.          *)
LEMMA OfFacts ==
  ASSUME NEW M, NEW meta \in Seq(M), IsMeta(meta), NEW kind
  PROVE  /\ Of(meta, kind) \in Seq(M)
         /\ \A k \in DOMAIN Of(meta, kind) :
              Of(meta, kind)[k].kind = kind /\ \E i \in DOMAIN meta : Of(meta, kind)[k] = meta[i]
         /\ \A i \in DOMAIN meta : meta[i].kind = kind => \E k \in DOMAIN Of(meta, kind) : Of(meta, kind)[k] = meta[i]
         /\ \A j, k \in DOMAIN Of(meta, kind) :
              Of(meta, kind)[j].name = Of(meta, kind)[k].name => j = k
         /\ ToSet(Of(meta, kind)) = {meta[i] : i \in {h \in DOMAIN meta : meta[h].kind = kind}}
<1> DEFINE I == {i \in DOMAIN meta : meta[i].kind = kind}
           v == InOrder(I)
           o == Of(meta, kind)
<1>1. I \in SUBSET (1..Len(meta)) /\ Len(meta) \in Nat /\ DOMAIN meta = 1..Len(meta)
  OBVIOUS
<1>2. o = Picked(meta, I)
  BY DEF Of
<1>m. \A i \in I : i \in DOMAIN meta /\ meta[i].kind = kind
  OBVIOUS
<1>n. \A i \in DOMAIN meta : meta[i].kind = kind => i \in I
  OBVIOUS
<1> HIDE DEF I
<1>3. v \in [1..Len(v) -> I] /\ DOMAIN v = 1..Len(v) /\ Len(v) \in Nat /\ Increasing(v) /\ {v[i] : i \in DOMAIN v} = I
  BY <1>1, InOrderList
<1>4. DOMAIN o = DOMAIN v /\ \A k \in DOMAIN v : o[k] = meta[v[k]]
  BY <1>2 DEF Picked
<1>5. o \in Seq(M) /\ {o[k] : k \in DOMAIN o} = {meta[i] : i \in I}
  <2>1. Picked(meta, I) \in Seq(M) /\ {Picked(meta, I)[k] : k \in DOMAIN Picked(meta, I)} = {meta[i] : i \in I}
    BY <1>1, PickedFacts, ZenonT(30)
  <2> HIDE DEF o
  <2>2. QED
    BY <1>2, <2>1, Zenon
<1> HIDE DEF v, o
<1>6. \A k \in DOMAIN o : v[k] \in I /\ o[k] = meta[v[k]]
  BY <1>3, <1>4
<1>7. \A j, k \in DOMAIN o : o[j].name = o[k].name => j = k
  <2> SUFFICES ASSUME NEW j \in DOMAIN o, NEW k \in DOMAIN o, o[j].name = o[k].name PROVE j = k
    OBVIOUS
  <2>1. v[j] = v[k]
    BY <1>6, <1>m DEF IsMeta
  <2>2. v[j] \in Nat /\ v[k] \in Nat /\ j \in Nat /\ k \in Nat /\ j \in DOMAIN v /\ k \in DOMAIN v
    <3>1. j \in DOMAIN v /\ k \in DOMAIN v /\ v[j] \in 1..Len(meta) /\ v[k] \in 1..Len(meta)
      BY <1>1, <1>4, <1>6
    <3>2. QED
      BY <1>1, <1>3, <3>1
  <2>3. \A a, b \in DOMAIN v : a < b => v[a] < v[b]
    BY <1>3 DEF Increasing
  <2>4. QED
    BY <2>1, <2>2, <2>3
<1>8. ToSet(o) = {o[k] : k \in DOMAIN o}
  BY DEF ToSet
<1>9. \A i \in DOMAIN meta : meta[i].kind = kind => \E k \in DOMAIN o : o[k] = meta[i]
  BY <1>5, <1>n
<1>10. QED
  BY <1>5, <1>6, <1>7, <1>8, <1>9, <1>m DEF o, I

(* One option at most takes what is kept under a key.                      *)
LEMMA OneTakes ==
  ASSUME NEW M, NEW meta \in Seq(M), IsMeta(meta), NEW k
  PROVE  \A x, y \in Takes(meta, k) : x = y
<1> SUFFICES ASSUME NEW x \in Takes(meta, k), NEW y \in Takes(meta, k) PROVE x = y
  OBVIOUS
<1>1. k \in {Bare(x.name), Dashed(x.name)} /\ k \in {Bare(y.name), Dashed(y.name)}
  BY KeysAre DEF Takes, Key
<1>2. x.name = y.name
  BY <1>1, Spellings
<1>3. x \in ToSet(Of(meta, "option")) /\ y \in ToSet(Of(meta, "option"))
  BY DEF Takes
<1>4. ToSet(Of(meta, "option")) = {meta[j] : j \in {h \in DOMAIN meta : meta[h].kind = "option"}}
  BY OfFacts
<1>5. PICK i \in DOMAIN meta, j \in DOMAIN meta :
        x = meta[i] /\ y = meta[j] /\ meta[i].kind = "option" /\ meta[j].kind = "option"
  BY <1>3, <1>4
<1>6. QED
  BY <1>2, <1>5 DEF IsMeta

(* A value is stored once the residue is cleaned: whole, or the default    *)
(* of the option that takes it.                                            *)
LEMMA CleanedIs ==
  ASSUME NEW M, NEW meta \in Seq(M), IsMeta(meta), NEW values, NEW k
  PROVE  Stored(sanitizeConsoleValues(meta, values), k) =
           IF Takes(meta, k) # {} /\ Stored(values, k) = Value("on")
           THEN (CHOOSE o \in Takes(meta, k) : TRUE).default ELSE Stored(values, k)
<1> DEFINE O == Takes(meta, k)
           m == CHOOSE o \in O : TRUE
           on == O # {} /\ values[k] = Value("on")
           lost == {h \in DOMAIN values : \E r \in Residue(meta, values, h) : r.default = Blank}
           reset(h) == {r \in Residue(meta, values, h) : r.default # Blank}
           clean == sanitizeConsoleValues(meta, values)
<1>1. clean = [h \in DOMAIN values \ lost |->
                 IF reset(h) = {} THEN values[h] ELSE (CHOOSE r \in reset(h) : TRUE).default]
  BY DEF sanitizeConsoleValues
<1>2. Residue(meta, values, k) = IF on THEN {m} ELSE {}
  <2>1. Residue(meta, values, k) = {o \in O : values[k] = Value("on")}
    BY DEF Residue, Takes
  <2>2. \A x, y \in O : x = y
    BY OneTakes
  <2> HIDE DEF O
  <2>3. O # {} => m \in O
    OBVIOUS
  <2> HIDE DEF m
  <2>4. O # {} => O = {m}
    BY <2>2, <2>3
  <2>5. QED
    BY <2>1, <2>4
<1> SUFFICES Stored(clean, k) = IF O # {} /\ Stored(values, k) = Value("on") THEN m.default ELSE Stored(values, k)
  OBVIOUS
<1> HIDE DEF m, O
<1>3. Blank # Value("on")
  BY DEF Blank, Value
<1>4. k \in lost <=> k \in DOMAIN values /\ on /\ m.default = Blank
  BY <1>2
<1>5. reset(k) = IF on /\ m.default # Blank THEN {m} ELSE {}
  BY <1>2
<1>6. reset(k) = {m} => (CHOOSE r \in reset(k) : TRUE) = m
  OBVIOUS
<1>7. k \in DOMAIN clean <=> k \in DOMAIN values /\ k \notin lost
  BY <1>1
<1>8. k \in DOMAIN clean => clean[k] = IF reset(k) = {} THEN values[k] ELSE (CHOOSE r \in reset(k) : TRUE).default
  BY <1>1
<1>9. Stored(clean, k) = IF k \in DOMAIN clean THEN clean[k] ELSE Blank
  BY DEF Stored
<1>10. Stored(values, k) = IF k \in DOMAIN values THEN values[k] ELSE Blank
  BY DEF Stored
<1>11. CASE k \in DOMAIN values /\ on
  <2>1. Stored(values, k) = Value("on")
    BY <1>10, <1>11
  <2>2. CASE m.default = Blank
    <3>1. k \notin DOMAIN clean
      BY <1>4, <1>7, <1>11, <2>2
    <3> HIDE DEF clean
    <3>2. QED
      BY <1>9, <1>11, <2>1, <2>2, <3>1 DEF clean
  <2>3. CASE m.default # Blank
    <3>1. k \in DOMAIN clean /\ reset(k) = {m}
      BY <1>4, <1>5, <1>7, <1>11, <2>3
    <3>2. clean[k] = m.default
      <4>1. reset(k) # {} /\ (CHOOSE r \in reset(k) : TRUE) = m
        BY <1>6, <3>1
      <4> HIDE DEF reset, clean
      <4>2. QED
        BY <1>8, <3>1, <4>1
    <3> HIDE DEF clean
    <3>3. QED
      BY <1>9, <1>11, <2>1, <3>1, <3>2 DEF clean
  <2>4. QED
    BY <2>2, <2>3
<1>12. CASE k \in DOMAIN values /\ ~on
  <2>1. k \in DOMAIN clean /\ reset(k) = {}
    BY <1>4, <1>5, <1>7, <1>12
  <2>2. clean[k] = values[k]
    <3> HIDE DEF reset, clean
    <3>1. QED
      BY <1>8, <2>1
  <2> HIDE DEF clean
  <2>3. QED
    BY <1>9, <1>10, <1>12, <2>1, <2>2 DEF clean
<1>13. CASE k \notin DOMAIN values
  <2>1. k \notin DOMAIN clean
    BY <1>7, <1>13
  <2> HIDE DEF clean
  <2>2. QED
    BY <1>3, <1>9, <1>10, <1>13, <2>1 DEF clean
<1>14. QED
  BY <1>11, <1>12, <1>13

(* Whatever the key, what is left is a sequence of words.                  *)
LEMMA CleanedWords ==
  ASSUME NEW M, NEW meta \in Seq(M), IsMeta(meta), NEW values,
         \A k \in DOMAIN values : values[k] \in Seq(STRING), NEW k
  PROVE  Stored(sanitizeConsoleValues(meta, values), k) \in Seq(STRING)
<1> DEFINE lost == {h \in DOMAIN values : \E r \in Residue(meta, values, h) : r.default = Blank}
           reset(h) == {r \in Residue(meta, values, h) : r.default # Blank}
           clean == sanitizeConsoleValues(meta, values)
<1>1. clean = [h \in DOMAIN values \ lost |->
                 IF reset(h) = {} THEN values[h] ELSE (CHOOSE r \in reset(h) : TRUE).default]
  BY DEF sanitizeConsoleValues
<1>2. \A r \in reset(k) : r.default \in Seq(STRING)
  <2>1. \A r \in Residue(meta, values, k) : r \in ToSet(Of(meta, "option"))
    BY DEF Residue
  <2>2. \A r \in ToSet(Of(meta, "option")) : \E i \in DOMAIN meta : r = meta[i]
    BY OfFacts
  <2>3. QED
    BY <2>1, <2>2 DEF IsMeta
<1>3. reset(k) # {} => (CHOOSE r \in reset(k) : TRUE) \in reset(k)
  <2> DEFINE R == reset(k)
  <2> HIDE DEF R
  <2>1. R # {} => (CHOOSE r \in R : TRUE) \in R
    OBVIOUS
  <2>2. QED
    BY <2>1 DEF R
<1> DEFINE c == CHOOSE r \in reset(k) : TRUE
<1>4. k \in DOMAIN clean => k \in DOMAIN values /\ clean[k] = IF reset(k) = {} THEN values[k] ELSE c.default
  BY <1>1
<1>5. Blank \in Seq(STRING)
  BY DEF Blank
<1> HIDE DEF clean, reset, lost, c
<1>6. QED
  BY <1>2, <1>3, <1>4, <1>5 DEF Stored, c, clean

(* A value that was typed covers the one that is stored.                   *)
LEMMA OverIs ==
  ASSUME NEW values, NEW extra, NEW k
  PROVE  Stored(Over(values, extra), k) = IF k \in DOMAIN extra THEN extra[k] ELSE Stored(values, k)
BY DEF Stored, Over

(* The values of a launch.                                                 *)
ValuesOf(l) == Over(sanitizeConsoleValues(l.cmd.meta, l.config.values), l.extra)

(* What may be launched, part by part.                                     *)
LEMMA LaunchFacts ==
  ASSUME NEW l, Launchable(l)
  PROVE  /\ l.cmd.meta \in Seq(ToSet(l.cmd.meta)) /\ IsMeta(l.cmd.meta)
         /\ \A k \in DOMAIN l.config.values : l.config.values[k] \in Seq(STRING)
         /\ \A k \in DOMAIN l.extra : l.extra[k] \in Seq(STRING)
         /\ \A n : Dashed(n) \notin DOMAIN l.extra
         /\ \A n : Bare(n) \in DOMAIN l.extra => Stored(l.config.values, Dashed(n)) = Blank
<1>1. \A k \in DOMAIN l.extra : k = Bare(k[2]) /\ Stored(l.config.values, Dashed(k[2])) = Blank
  BY DEF Launchable
<1>2. \A n : Dashed(n) \notin DOMAIN l.extra
  BY <1>1, Spellings
<1>3. \A n : Bare(n) \in DOMAIN l.extra => Stored(l.config.values, Dashed(n)) = Blank
  <2> SUFFICES ASSUME NEW n, Bare(n) \in DOMAIN l.extra PROVE Stored(l.config.values, Dashed(n)) = Blank
    OBVIOUS
  <2>1. Bare(n)[2] = n
    BY Spellings
  <2>2. QED
    BY <1>1, <2>1
<1>4. QED
  BY <1>2, <1>3 DEF Launchable

(* The values of a launch are sequences of words.                          *)
LEMMA ValuesAreWords ==
  ASSUME NEW l, Launchable(l), NEW k
  PROVE  Stored(ValuesOf(l), k) \in Seq(STRING)
BY LaunchFacts, CleanedWords, OverIs DEF ValuesOf

(* What the assembly looks up for an argument is what is due to it.        *)
LEMMA DueIs ==
  ASSUME NEW l, Launchable(l), NEW i \in DOMAIN l.cmd.meta
  PROVE  ValueOf(ValuesOf(l), l.cmd.meta[i]) = Due(l, l.cmd.meta[i])
<1> DEFINE m == l.cmd.meta[i]
           V == ValuesOf(l)
           b == Bare(m.name)
           d == Dashed(m.name)
<1>1. /\ Stored(sanitizeConsoleValues(l.cmd.meta, l.config.values), b) = Saved(l, b)
      /\ Stored(sanitizeConsoleValues(l.cmd.meta, l.config.values), d) = Saved(l, d)
  BY LaunchFacts, CleanedIs DEF Saved
<1>2. Stored(V, b) = IF b \in DOMAIN l.extra THEN l.extra[b] ELSE Saved(l, b)
  BY <1>1, OverIs DEF ValuesOf
<1>3. Stored(V, d) = Saved(l, d)
  BY <1>1, OverIs, LaunchFacts DEF ValuesOf
<1>4. b \in DOMAIN l.extra => Saved(l, d) = Blank
  <2> SUFFICES ASSUME b \in DOMAIN l.extra PROVE Saved(l, d) = Blank
    OBVIOUS
  <2>1. Stored(l.config.values, d) = Blank
    BY LaunchFacts
  <2>2. Blank # Value("on")
    BY DEF Blank, Value
  <2>3. QED
    BY <2>1, <2>2 DEF Saved
<1>5. ValueOf(V, m) = IF m.dashed THEN lookup(V, d, b) ELSE lookup(V, b, d)
  BY DEF ValueOf, Key, OtherKey
<1>6. Key(m) = (IF m.dashed THEN d ELSE b) /\ OtherKey(m) = (IF m.dashed THEN b ELSE d)
  BY DEF Key, OtherKey
<1> HIDE DEF b, d, V, m
<1>7. QED
  BY <1>2, <1>3, <1>4, <1>5, <1>6 DEF lookup, Due, b, m, V

(* And so is what is due to an argument.                                   *)
LEMMA DueWords ==
  ASSUME NEW l, Launchable(l), NEW i \in DOMAIN l.cmd.meta
  PROVE  Due(l, l.cmd.meta[i]) \in Seq(STRING)
BY DueIs, ValuesAreWords DEF ValueOf, lookup

(* What stands in a command line: words, and flags with a name and maybe   *)
(* a value.                                                                *)
Tokens(N, W) == {Word(v) : v \in Seq(W)} \cup {FlagWith(n, v) : n \in N, v \in Seq(W)}
Named(n, T) == {t \in T : t.is = "flag" /\ t.name = n}
Wordy(T) == {t \in T : t.is = "word"}
FlagsOf(m) == IF ~m.acceptValue /\ m.name = "verbose" THEN {"-v", "-vv", "-vvv"} ELSE {m.name}

(* Words and flags are told apart, and keep what they are given.           *)
LEMMA TokenFacts ==
  /\ \A v : Word(v).is = "word" /\ Word(v).value = v
  /\ \A n, v : FlagWith(n, v).is = "flag" /\ FlagWith(n, v).name = n /\ FlagWith(n, v).value = v
  /\ \A n : Flag(n) = FlagWith(n, Blank)
  /\ "word" # "flag"
<1>1. \A v : Word(v).is = "word" /\ Word(v).value = v
  BY Zenon DEF Word
<1>2. QED
  BY <1>1 DEF FlagWith, Flag

(* Words and flags of given names stand in command lines.                  *)
LEMMA TokensAre ==
  ASSUME NEW N, NEW W
  PROVE  /\ \A v \in Seq(W) : Word(v) \in Tokens(N, W)
         /\ \A n \in N, v \in Seq(W) : FlagWith(n, v) \in Tokens(N, W)
         /\ \A n \in N : Flag(n) \in Tokens(N, W)
<1>1. Blank \in Seq(W)
  BY DEF Blank
<1>2. QED
  BY <1>1, TokenFacts DEF Tokens

(* What is given under a name, and the words, are parts of a command line. *)
LEMMA GivenIs ==
  ASSUME NEW T, NEW argv \in Seq(T), NEW n
  PROVE  Given(argv, n) = Among(argv, Named(n, T)) /\ WordsOf(argv) = Among(argv, Wordy(T))
<1>1. \A i \in DOMAIN argv : argv[i] \in T
  OBVIOUS
<1>2. {i \in DOMAIN argv : argv[i].is = "flag" /\ argv[i].name = n} = {i \in DOMAIN argv : argv[i] \in Named(n, T)}
  BY <1>1 DEF Named
<1>3. {i \in DOMAIN argv : argv[i].is = "word"} = {i \in DOMAIN argv : argv[i] \in Wordy(T)}
  BY <1>1 DEF Wordy
<1>4. QED
  BY <1>2, <1>3, Zenon DEF Given, WordsOf, Among

(* One token, given or not.                                                *)
LEMMA OneToken ==
  ASSUME NEW T, NEW t \in T, NEW P
  PROVE  <<t>> \in Seq(T) /\ Among(<<t>>, P) = IF t \in P THEN <<t>> ELSE <<>>
<1> DEFINE s == <<t>>
<1>1. s \in Seq(T) /\ Len(s) = 1 /\ \A i \in 1..Len(s) : s[i] = t
  OBVIOUS
<1> HIDE DEF s
<1>2. QED
  BY <1>1, AmongFacts DEF s

(* The flag that a switch is turned into.                                  *)
FlagFor(m, value) ==
  IF m.name # "verbose" THEN m.name
  ELSE IF value = Value("3") THEN "-vvv" ELSE IF value = Value("2") THEN "-vv" ELSE "-v"

(* What an option becomes: flags of its own, and what the console is given *)
(* in them.                                                                *)
LEMMA OptionIs ==
  ASSUME NEW N, NEW W, NEW m, FlagsOf(m) \subseteq N, NEW value \in Seq(W)
  PROVE  /\ Option(m, value) \in Seq(Tokens(N, W))
         /\ \A i \in 1..Len(Option(m, value)) :
              /\ Option(m, value)[i] \in Tokens(N, W)
              /\ Option(m, value)[i].is = "flag"
              /\ Option(m, value)[i].name \in FlagsOf(m) /\ m.name # "env"
<1> DEFINE T == Tokens(N, W)
           o == Option(m, value)
           Good(t) == t \in T /\ t.is = "flag" /\ t.name \in FlagsOf(m) /\ m.name # "env"
<1>1. CASE value = Blank \/ m.name = "env"
  <2>1. o = <<>>
    BY <1>1 DEF Option
  <2>2. QED
    BY <2>1
<1>2. CASE ~(value = Blank \/ m.name = "env") /\ ~m.acceptValue
  <2>1. o = <<Flag(FlagFor(m, value))>>
    BY <1>2 DEF Option, Switch, FlagFor
  <2>2. FlagFor(m, value) \in FlagsOf(m)
    BY <1>2 DEF FlagFor, FlagsOf
  <2> DEFINE t == Flag(FlagFor(m, value)) s == <<t>>
  <2>3. Good(t)
    BY <1>2, <2>2, TokenFacts, TokensAre
  <2> HIDE DEF t
  <2>4. s \in Seq(T) /\ Len(s) = 1 /\ \A i \in 1..Len(s) : s[i] = t
    BY <2>3
  <2> HIDE DEF s
  <2>5. o = s
    BY <2>1 DEF s, t
  <2> HIDE DEF o, T
  <2>6. o \in Seq(T) /\ \A i \in 1..Len(o) : Good(o[i])
    <3> DEFINE Proper(x) == Good(x)
    <3>0. Proper(t)
      BY <2>3, Zenon
    <3> HIDE DEF Proper
    <3>1. \A i \in 1..Len(s) : Proper(s[i])
      BY <2>4, <3>0, Zenon
    <3>2. o \in Seq(T) /\ \A i \in 1..Len(o) : Proper(o[i])
      BY <2>4, <2>5, <3>1, Zenon
    <3>3. QED
      BY <3>2, Zenon DEF Proper
  <2>7. QED
    BY <2>6 DEF o, T
<1>3. CASE ~(value = Blank \/ m.name = "env") /\ m.acceptValue /\ m.multiple
  <2>1. o = [i \in DOMAIN value |-> FlagWith(m.name, Value(value[i]))]
    BY <1>3 DEF Option
  <2>2. ASSUME NEW i \in DOMAIN value PROVE Good(FlagWith(m.name, Value(value[i])))
    <3>1. value[i] \in W
      OBVIOUS
    <3>2. Value(value[i]) \in Seq(W)
      BY <3>1 DEF Value
    <3>3. m.name \in FlagsOf(m)
      BY <1>3 DEF FlagsOf
    <3>4. QED
      BY <1>3, <3>2, <3>3, TokenFacts, TokensAre
  <2>3. DOMAIN value = 1..Len(value) /\ Len(value) \in Nat
    OBVIOUS
  <2> HIDE DEF T
  <2>4. o \in [1..Len(value) -> T] /\ \A i \in 1..Len(value) : Good(o[i])
    BY <2>1, <2>2, <2>3
  <2> HIDE DEF o
  <2>5. o \in Seq(T) /\ Len(o) = Len(value)
    BY <2>3, <2>4, IsSeq
  <2>6. QED
    BY <2>4, <2>5 DEF o, T
<1>4. CASE ~(value = Blank \/ m.name = "env") /\ m.acceptValue /\ ~m.multiple
  <2> DEFINE t == FlagWith(m.name, value) s == <<t>>
  <2>1. o = s
    BY <1>4 DEF Option
  <2>3. Good(t)
    <3>1. m.name \in FlagsOf(m)
      BY <1>4 DEF FlagsOf
    <3>2. QED
      BY <1>4, <3>1, TokenFacts, TokensAre
  <2> HIDE DEF t
  <2>4. s \in Seq(T) /\ Len(s) = 1 /\ \A i \in 1..Len(s) : s[i] = t
    BY <2>3
  <2> HIDE DEF s
  <2> HIDE DEF o, T
  <2>6. QED
    BY <2>1, <2>3, <2>4 DEF o, T
<1>5. QED
  BY <1>1, <1>2, <1>3, <1>4

(* What is given in the flags that an option becomes is what is due.       *)
LEMMA OptionReceives ==
  ASSUME NEW N, NEW W, NEW m, FlagsOf(m) \subseteq N, NEW due \in Seq(W), m.name # "env",
         NEW args, \A f \in FlagsOf(m) : Given(args, f) = Given(Option(m, due), f)
  PROVE  Receives(args, m, due)
<1> DEFINE T == Tokens(N, W)
           o == Option(m, due)
<1>1. /\ o \in Seq(T) /\ Len(o) \in Nat /\ DOMAIN o = 1..Len(o)
      /\ \A i \in 1..Len(o) : o[i] \in T /\ o[i].is = "flag" /\ o[i].name \in FlagsOf(m)
  BY OptionIs
<1>2. \A f : Given(o, f) = Among(o, Named(f, T))
  BY <1>1, GivenIs
<1>3. CASE m.acceptValue
  <2>1. FlagsOf(m) = {m.name}
    BY <1>3 DEF FlagsOf
  <2>2. Given(args, m.name) = o
    <3>1. \A i \in 1..Len(o) : o[i] \in Named(m.name, T)
      BY <1>1, <2>1 DEF Named
    <3> HIDE DEF o, T
    <3>2. Among(o, Named(m.name, T)) = o
      BY <1>1, <3>1, AmongFacts
    <3>3. QED
      BY <1>2, <2>1, <3>2 DEF o
  <2>3. GivenTo(args, m.name) = [i \in DOMAIN o |-> o[i].value]
    BY <2>2 DEF GivenTo
  <2>4. CASE due = Blank
    <3>1. o = <<>>
      BY <2>4 DEF Option
    <3>2. QED
      BY <1>3, <2>3, <2>4, <3>1 DEF Receives
  <2>5. CASE due # Blank /\ m.multiple
    <3>1. o = [i \in DOMAIN due |-> FlagWith(m.name, Value(due[i]))]
      BY <1>3, <2>5 DEF Option
    <3>2. [i \in DOMAIN o |-> o[i].value] = [i \in DOMAIN due |-> Value(due[i])]
      BY <3>1, TokenFacts
    <3> HIDE DEF o
    <3>3. QED
      BY <1>3, <2>3, <2>5, <3>2 DEF Receives
  <2>6. CASE due # Blank /\ ~m.multiple
    <3>1. o = <<FlagWith(m.name, due)>>
      BY <1>3, <2>6 DEF Option
    <3>2. [i \in DOMAIN o |-> o[i].value] = <<due>>
      BY <3>1, TokenFacts
    <3> HIDE DEF o
    <3>3. QED
      BY <1>3, <2>3, <2>6, <3>2 DEF Receives
  <2>7. QED
    BY <2>4, <2>5, <2>6
<1>4. CASE ~m.acceptValue
  <2> DEFINE x == FlagFor(m, due)
  <2>1. x \in FlagsOf(m)
    BY <1>4 DEF FlagFor, FlagsOf
  <2>2. ASSUME NEW f \in FlagsOf(m) PROVE GivenTo(args, f) # <<>> <=> due # Blank /\ f = x
    <3>1. DOMAIN GivenTo(args, f) = DOMAIN Given(o, f) /\ (GivenTo(args, f) = <<>> <=> DOMAIN GivenTo(args, f) = {})
      <4>1. GivenTo(args, f) = [i \in DOMAIN Given(o, f) |-> Given(o, f)[i].value]
        BY <2>2 DEF GivenTo
      <4> HIDE DEF o
      <4> DEFINE g == Given(o, f)
      <4>2. DOMAIN g = 1..Len(g) /\ Len(g) \in Nat
        BY <1>1, <1>2, AmongFacts
      <4> HIDE DEF g
      <4>3. [i \in DOMAIN g |-> g[i].value] = <<>> <=> DOMAIN g = {}
        BY <4>2
      <4>4. QED
        BY <4>1, <4>3 DEF g
    <3>2. CASE due = Blank
      <4>1. o = <<>>
        BY <3>2 DEF Option
      <4>2. Among(o, Named(f, T)) = <<>>
        <5>1. \A i \in 1..Len(o) : o[i] \notin Named(f, T)
          BY <4>1
        <5>2. QED
          BY <1>1, <5>1, AmongFacts
      <4>3. DOMAIN Given(o, f) = {}
        BY <1>2, <4>2
      <4>4. QED
        BY <3>1, <3>2, <4>3
    <3>3. CASE due # Blank
      <4>1. o = <<Flag(x)>>
        BY <1>4, <3>3 DEF Option, Switch, FlagFor
      <4>2. Flag(x) \in T
        BY <2>1, TokensAre
      <4>3. Flag(x) \in Named(f, T) <=> f = x
        BY <4>2, TokenFacts DEF Named
      <4>4. Given(o, f) = IF f = x THEN <<Flag(x)>> ELSE <<>>
        BY <1>2, <4>1, <4>2, <4>3, OneToken
      <4>5. DOMAIN Given(o, f) = {} <=> f # x
        BY <4>4
      <4>6. QED
        BY <3>1, <3>3, <4>5
    <3>4. QED
      BY <3>2, <3>3
  <2>3. QED
    BY <1>4, <2>2 DEF Receives, FlagsOf, FlagFor
<1>5. QED
  BY <1>3, <1>4

(* The names that options are given under are their own.                   *)
Names(meta) == {"env", "-n", "-v", "-vv", "-vvv"} \cup {meta[i].name : i \in DOMAIN meta}

(* Two options never share a flag, and none has those of the trailer.      *)
LEMMA FlagsApart ==
  ASSUME NEW meta, IsMeta(meta), NEW i \in DOMAIN meta, NEW j \in DOMAIN meta,
         meta[i].kind = "option", meta[j].kind = "option", meta[i].name # "env"
  PROVE  /\ FlagsOf(meta[i]) \subseteq Names(meta)
         /\ "env" \notin FlagsOf(meta[i]) /\ "-n" \notin FlagsOf(meta[i])
         /\ i # j => FlagsOf(meta[i]) \cap FlagsOf(meta[j]) = {}
<1>1. meta[i].name \notin {"-n", "-v", "-vv", "-vvv"} /\ meta[j].name \notin {"-n", "-v", "-vv", "-vvv"}
  BY DEF IsMeta
<1>2. i # j => meta[i].name # meta[j].name
  BY DEF IsMeta
<1>3. meta[i].name \in Names(meta)
  BY DEF Names
<1>4. QED
  BY <1>1, <1>2, <1>3 DEF FlagsOf, Names

(* The trailer: --env, maybe with its value, then -n.                      *)
LEMMA TrailerIs ==
  ASSUME NEW N, NEW W, {"env", "-n"} \subseteq N, NEW values,
         lookup(values, Bare("env"), Dashed("env")) \in Seq(W), NEW f
  PROVE  /\ Trailer(values) \in Seq(Tokens(N, W))
         /\ Among(Trailer(values), Named(f, Tokens(N, W)))
              = IF f = "env" THEN <<Flag("env")>> ELSE IF f = "-n" THEN <<Flag("-n")>> ELSE <<>>
         /\ Trailer(values)[Len(Trailer(values))] = Flag("-n") /\ Len(Trailer(values)) \in Nat \ {0}
<1> DEFINE T == Tokens(N, W)
           P == Named(f, T)
           env == lookup(values, Bare("env"), Dashed("env"))
           a == <<Flag("env")>>
           b == IF env = Blank THEN <<>> ELSE <<Word(env)>>
           c == <<Flag("-n")>>
<1>1. Trailer(values) = (a \o b) \o c
  BY DEF Trailer
<1>2. Flag("env") \in T /\ Flag("-n") \in T /\ Word(env) \in T
  BY TokensAre
<1>3. Flag("env") \in P <=> f = "env"
  BY <1>2, TokenFacts DEF Named
<1>4. Flag("-n") \in P <=> f = "-n"
  BY <1>2, TokenFacts DEF Named
<1>5. Word(env) \notin P
  BY TokenFacts DEF Named
<1> HIDE DEF T, P
<1>6. a \in Seq(T) /\ Among(a, P) = IF f = "env" THEN a ELSE <<>>
  BY <1>2, <1>3, OneToken
<1>7. c \in Seq(T) /\ Among(c, P) = IF f = "-n" THEN c ELSE <<>>
  BY <1>2, <1>4, OneToken
<1>8. b \in Seq(T) /\ Among(b, P) = <<>>
  <2>1. CASE env = Blank
    <3>1. b = <<>> /\ <<>> \in Seq(T) /\ \A i \in 1..Len(<<>>) : <<>>[i] \notin P
      BY <2>1
    <3>2. Among(<<>>, P) = <<>>
      BY <3>1, AmongFacts
    <3>3. QED
      BY <3>1, <3>2
  <2>2. CASE env # Blank
    BY <1>2, <1>5, <2>2, OneToken
  <2>3. QED
    BY <2>1, <2>2
<1>l. Len(c) = 1 /\ c[1] = Flag("-n")
  OBVIOUS
<1>e. "env" # "-n"
  OBVIOUS
<1> HIDE DEF a, b, c
<1>9. a \o b \in Seq(T) /\ (a \o b) \o c \in Seq(T)
  BY <1>6, <1>7, <1>8
<1>10. Among((a \o b) \o c, P) = (Among(a, P) \o Among(b, P)) \o Among(c, P)
  <2>0. a \in Seq(T) /\ b \in Seq(T) /\ c \in Seq(T)
    BY <1>6, <1>7, <1>8
  <2>1. AmongBoth(a, b, P)
    BY <2>0, AmongJoin
  <2> DEFINE ab == a \o b
  <2>2. ab \in Seq(T)
    BY <1>9
  <2> HIDE DEF ab
  <2>3. AmongBoth(ab, c, P)
    BY <2>0, <2>2, AmongJoin
  <2>4. QED
    BY <2>1, <2>3, Zenon DEF ab, AmongBoth
<1>11. \A x \in Seq(T) : x \o <<>> = x /\ <<>> \o x = x
  OBVIOUS
<1>12. <<>> \in Seq(T)
  OBVIOUS
<1>13. Among((a \o b) \o c, P) = IF f = "env" THEN a ELSE IF f = "-n" THEN c ELSE <<>>
  BY <1>6, <1>7, <1>8, <1>10, <1>11, <1>12, <1>e
<1> DEFINE u == (a \o b) \o c ab == a \o b
<1>14. Len(u) \in Nat \ {0} /\ u[Len(u)] = Flag("-n")
  <2> HIDE DEF ab
  <2>1. Len(ab \o c) = Len(ab) + 1 /\ Len(ab) \in Nat /\ (ab \o c)[Len(ab) + 1] = c[1]
    <3>1. ab \in Seq(T)
      BY <1>9 DEF ab
    <3>2. c \in Seq(T)
      BY <1>7
    <3> DEFINE w == ab \o c
    <3>3. Joins(w, ab, c)
      BY Zenon DEF Joins
    <3> HIDE DEF w
    <3>4. /\ Len(w) = Len(ab) + Len(c) /\ Len(ab) \in Nat
          /\ \A k \in 1..Len(c) : w[Len(ab) + k] = c[k]
      BY <3>1, <3>2, <3>3, JoinIs
    <3>5. Len(c) = 1
      BY <1>l
    <3>6. 1 \in 1..Len(c)
      BY <3>5
    <3>7. QED
      BY <3>4, <3>5, <3>6 DEF w
  <2>2. QED
    BY <1>l, <2>1 DEF ab
<1>15. QED
  BY <1>1, <1>9, <1>13, <1>14 DEF a, c, T, P

(* A sequence over a set is one over any larger set.                       *)
LEMMA MoreWords ==
  ASSUME NEW V, NEW W, V \subseteq W, NEW s \in Seq(V)
  PROVE  s \in Seq(W)
<1>1. s \in [1..Len(s) -> V] /\ Len(s) \in Nat
  BY SeqIs
<1>2. s \in [1..Len(s) -> W]
  BY <1>1
<1>3. QED
  BY <1>1, <1>2, IsSeq

(* What stands in the places of the arguments.                             *)
LEMMA PlacesAre ==
  ASSUME NEW N, NEW W, STRING \subseteq W, NEW l, Launchable(l)
  PROVE  LET p == Positionals(l.cmd.meta, ValuesOf(l))
             places == Of(l.cmd.meta, "positional")
         IN  /\ p \in Seq(Tokens(N, W))
             /\ \A i \in 1..Len(p) : p[i].is = "word"
             /\ \A k \in DOMAIN places : (\A j \in 1..k : Due(l, places[j]) # Blank) =>
                   k \in 1..Len(p) /\ p[k] = Word(Due(l, places[k]))
<1> DEFINE meta == l.cmd.meta
           V == ValuesOf(l)
           M == ToSet(meta)
           places == Of(meta, "positional")
           p == Positionals(meta, V)
           I == {i \in DOMAIN places : ValueOf(V, places[i]) # Blank}
           filled == Picked(places, I)
           T == Tokens(N, W)
<1>1. meta \in Seq(M) /\ IsMeta(meta)
  BY LaunchFacts
<1>2. /\ places \in Seq(M)
      /\ \A k \in DOMAIN places : \E i \in DOMAIN meta : places[k] = meta[i]
  <2> HIDE DEF M, meta
  <2>1. QED
    BY <1>1, OfFacts
<1>3. \A k \in DOMAIN places : ValueOf(V, places[k]) = Due(l, places[k]) /\ Due(l, places[k]) \in Seq(STRING)
  BY <1>2, DueIs, DueWords
<1>4. p = [i \in DOMAIN filled |-> Word(ValueOf(V, filled[i]))]
  BY DEF Positionals
<1> HIDE DEF meta, V, M, places, p
<1>5. I \in SUBSET (1..Len(places)) /\ DOMAIN places = 1..Len(places) /\ Len(places) \in Nat
  BY <1>2
<1> DEFINE F == {places[i] : i \in I}
<1>6. /\ DOMAIN filled = 1..Len(filled) /\ Len(filled) \in Nat
      /\ \A k \in DOMAIN filled : filled[k] \in F
  <2>1. filled \in Seq(M) /\ {filled[k] : k \in DOMAIN filled} = F
    <3> HIDE DEF I
    <3>0. places \in Seq(M)
      BY <1>2
    <3>1. /\ Picked(places, I) \in Seq(M)
          /\ {Picked(places, I)[k] : k \in DOMAIN Picked(places, I)} = {places[i] : i \in I}
      BY <1>5, <3>0, PickedFacts, ZenonT(30)
    <3>2. QED
      BY <3>1
  <2> HIDE DEF filled, F
  <2>2. QED
    BY <2>1
<1>7. \A x \in F : Word(ValueOf(V, x)) \in T
  <2> SUFFICES ASSUME NEW i \in I PROVE Word(ValueOf(V, places[i])) \in T
    OBVIOUS
  <2>1. ValueOf(V, places[i]) \in Seq(STRING)
    BY <1>3
  <2>2. ValueOf(V, places[i]) \in Seq(W)
    BY <2>1, MoreWords
  <2>3. QED
    BY <2>2, TokensAre
<1>8. \A k \in DOMAIN places : (\A j \in 1..k : Due(l, places[j]) # Blank) =>
        k \in DOMAIN filled /\ filled[k] = places[k]
  <2> SUFFICES ASSUME NEW k \in DOMAIN places, \A j \in 1..k : Due(l, places[j]) # Blank
               PROVE  k \in DOMAIN filled /\ filled[k] = places[k]
    OBVIOUS
  <2>1. 1..k \subseteq I
    BY <1>3, <1>5
  <2> HIDE DEF I
  <2>2. QED
    BY <1>2, <1>5, <2>1, PickedFirst
<1> HIDE DEF filled, F, T
<1>9. p \in [1..Len(filled) -> T] /\ \A k \in 1..Len(filled) : p[k] = Word(ValueOf(V, filled[k]))
  BY <1>4, <1>6, <1>7
<1>10. p \in Seq(T) /\ Len(p) = Len(filled)
  BY <1>6, <1>9, IsSeq
<1>11. \A i \in 1..Len(p) : p[i].is = "word"
  BY <1>9, <1>10, TokenFacts
<1>12. ASSUME NEW k \in DOMAIN places, \A j \in 1..k : Due(l, places[j]) # Blank
       PROVE  k \in 1..Len(p) /\ p[k] = Word(Due(l, places[k]))
  BY <1>3, <1>6, <1>8, <1>9, <1>10, <1>12
<1>13. QED
  BY <1>10, <1>11, <1>12 DEF T, p, places, meta, V

(* What the options become, one after the other.                           *)
Told(l) ==
  LET options == Of(l.cmd.meta, "option")
  IN  [k \in DOMAIN options |-> Option(options[k], ValueOf(ValuesOf(l), options[k]))]

ToldRight(l, meta, T) ==
  /\ Told(l) \in Seq(Seq(T))
  /\ Among(Flat(Told(l)), Named("env", T)) = <<>>
  /\ \A i \in DOMAIN meta : meta[i].kind = "option" /\ meta[i].name # "env" =>
       \A f \in FlagsOf(meta[i]) :
         Among(Flat(Told(l)), Named(f, T)) = Given(Option(meta[i], Due(l, meta[i])), f)

(* What the options become is what is due to each, and nothing of "env".   *)
LEMMA OptionsAre ==
  ASSUME NEW W, STRING \subseteq W, NEW l, Launchable(l)
  PROVE  ToldRight(l, l.cmd.meta, Tokens(Names(l.cmd.meta), W))
<1> DEFINE meta == l.cmd.meta
           M == ToSet(meta)
           T == Tokens(Names(meta), W)
           o == Of(meta, "option")
           V == ValuesOf(l)
           pieces == [k \in DOMAIN o |-> Option(o[k], ValueOf(V, o[k]))]
<1>1. meta \in Seq(M) /\ IsMeta(meta)
  BY LaunchFacts
<1>2. /\ o \in Seq(M)
      /\ \A k \in DOMAIN o : o[k].kind = "option" /\ \E i \in DOMAIN meta : o[k] = meta[i]
      /\ \A i \in DOMAIN meta : meta[i].kind = "option" => \E k \in DOMAIN o : o[k] = meta[i]
      /\ \A j, k \in DOMAIN o : o[j].name = o[k].name => j = k
  <2> HIDE DEF M, meta
  <2>1. QED
    BY <1>1, OfFacts
<1>3. \A i \in DOMAIN meta : ValueOf(V, meta[i]) = Due(l, meta[i]) /\ Due(l, meta[i]) \in Seq(W)
  BY DueIs, DueWords, MoreWords
<1>4. DOMAIN o = 1..Len(o) /\ Len(o) \in Nat
  BY <1>2
<1> HIDE DEF meta, M, o, V
<1>5. ASSUME NEW k \in DOMAIN o
      PROVE  /\ pieces[k] = Option(o[k], Due(l, o[k])) /\ pieces[k] \in Seq(T)
             /\ \A f : (o[k].name = "env" \/ f \notin FlagsOf(o[k])) => Among(pieces[k], Named(f, T)) = <<>>
             /\ \A f : Among(pieces[k], Named(f, T)) = Given(Option(o[k], Due(l, o[k])), f)
  <2>1. PICK i \in DOMAIN meta : o[k] = meta[i]
    BY <1>2
  <2>2. pieces[k] = Option(o[k], Due(l, o[k])) /\ Due(l, o[k]) \in Seq(W)
    BY <1>3, <2>1
  <2>3. FlagsOf(o[k]) \subseteq Names(meta)
    BY <2>1 DEF FlagsOf, Names
  <2> DEFINE t == Option(o[k], Due(l, o[k]))
  <2>4. /\ t \in Seq(T)
        /\ \A j \in 1..Len(t) : t[j] \in T /\ t[j].is = "flag" /\ t[j].name \in FlagsOf(o[k]) /\ o[k].name # "env"
    BY <2>2, <2>3, OptionIs
  <2> HIDE DEF t, T
  <2>5. \A f : Given(t, f) = Among(t, Named(f, T))
    BY <2>4, GivenIs
  <2>6. ASSUME NEW f, o[k].name = "env" \/ f \notin FlagsOf(o[k]) PROVE Among(t, Named(f, T)) = <<>>
    <3>1. \A j \in 1..Len(t) : t[j] \notin Named(f, T)
      BY <2>4, <2>6 DEF Named
    <3>2. t \in Seq(T)
      BY <2>4
    <3>3. QED
      BY <3>1, <3>2, AmongFacts
  <2>7. pieces[k] = t
    BY <2>2 DEF t
  <2> HIDE DEF pieces
  <2>8. QED
    BY <2>4, <2>5, <2>6, <2>7 DEF t
<1>6. pieces \in Seq(Seq(T))
  <2> DEFINE A == Seq(T)
  <2>1. \A k \in DOMAIN o : pieces[k] \in A
    BY <1>5
  <2> HIDE DEF A, T
  <2>2. pieces = [k \in 1..Len(o) |-> pieces[k]]
    BY <1>4
  <2>3. pieces \in [1..Len(o) -> A]
    BY <1>4, <2>1
  <2> HIDE DEF pieces
  <2>4. pieces \in Seq(A)
    BY <1>4, <2>3, IsSeq
  <2>5. QED
    BY <2>4 DEF A
<1>d. DOMAIN pieces = DOMAIN o
  OBVIOUS
<1> HIDE DEF pieces, T
<1>7. Among(Flat(pieces), Named("env", T)) = <<>>
  <2>1. ASSUME NEW k \in DOMAIN pieces PROVE Among(pieces[k], Named("env", T)) = <<>>
    <3>1. o[k].name = "env" \/ "env" \notin FlagsOf(o[k])
      BY DEF FlagsOf
    <3>2. QED
      BY <1>5, <1>d, <3>1
  <2>2. Only(pieces, Named("env", T), 0)
    BY <2>1 DEF Only
  <2>3. QED
    BY <1>6, <2>2, AmongFlat
<1>8. ASSUME NEW i \in DOMAIN meta, meta[i].kind = "option", meta[i].name # "env", NEW f \in FlagsOf(meta[i])
      PROVE  Among(Flat(pieces), Named(f, T)) = Given(Option(meta[i], Due(l, meta[i])), f)
  <2>1. PICK k \in DOMAIN o : o[k] = meta[i]
    BY <1>2, <1>8
  <2>2. ASSUME NEW j \in DOMAIN pieces, j # k PROVE Among(pieces[j], Named(f, T)) = <<>>
    <3>1. PICK h \in DOMAIN meta : o[j] = meta[h]
      BY <1>2, <1>d
    <3>2. h # i /\ meta[h].kind = "option"
      BY <1>2, <1>d, <2>1, <2>2, <3>1
    <3>3. f \notin FlagsOf(o[j])
      BY <1>1, <1>8, <3>1, <3>2, FlagsApart
    <3>4. QED
      BY <1>5, <1>d, <3>3
  <2>3. Only(pieces, Named(f, T), k)
    BY <2>2 DEF Only
  <2>4. Among(Flat(pieces), Named(f, T)) = Among(pieces[k], Named(f, T))
    BY <1>6, <1>d, <2>3, AmongFlat
  <2>5. QED
    BY <1>5, <2>1, <2>4
<1>9. pieces = Told(l)
  BY Zenon DEF pieces, o, V, meta, Told
<1>10. QED
  BY <1>6, <1>7, <1>8, <1>9 DEF T, meta, ToldRight

(* The command line as a whole: what is given by name, the words in front, *)
(* and the end.                                                            *)
LEMMA ArgumentsAre ==
  ASSUME NEW W, STRING \subseteq W, NEW l, Launchable(l), l.cmd.label \in W
  PROVE  LET meta == l.cmd.meta
             T == Tokens(Names(meta), W)
             places == Of(meta, "positional")
             args == assembleConsoleArgs(l.cmd.label, meta, ValuesOf(l))
         IN  /\ args \in Seq(T)
             /\ WordsOf(args)[1] = Word(Value(l.cmd.label))
             /\ \A k \in DOMAIN places : (\A j \in 1..k : Due(l, places[j]) # Blank) =>
                  WordsOf(args)[k + 1] = Word(Due(l, places[k]))
             /\ Given(args, "env") = <<Flag("env")>>
             /\ \A i \in DOMAIN meta : meta[i].kind = "option" /\ meta[i].name # "env" =>
                  \A f \in FlagsOf(meta[i]) : Given(args, f) = Given(Option(meta[i], Due(l, meta[i])), f)
             /\ args[Len(args)] = Flag("-n")
<1> DEFINE meta == l.cmd.meta
           V == ValuesOf(l)
           N == Names(meta)
           T == Tokens(N, W)
           places == Of(meta, "positional")
           o == Of(meta, "option")
           head == Word(Value(l.cmd.label))
           a == <<head>>
           p == Positionals(meta, V)
           pieces == Told(l)
           b == Flat(pieces)
           c == Trailer(V)
           args == assembleConsoleArgs(l.cmd.label, meta, V)
<1>1. args = ((a \o p) \o b) \o c
  BY Zenon DEF assembleConsoleArgs, Told
<1>2. head \in T
  <2>1. Value(l.cmd.label) \in Seq(W)
    BY DEF Value
  <2>2. QED
    BY <2>1, TokensAre
<1>3. /\ p \in Seq(T) /\ \A i \in 1..Len(p) : p[i].is = "word"
      /\ \A k \in DOMAIN places : (\A j \in 1..k : Due(l, places[j]) # Blank) =>
            k \in 1..Len(p) /\ p[k] = Word(Due(l, places[k]))
  BY PlacesAre
<1>4. /\ pieces \in Seq(Seq(T))
      /\ Among(b, Named("env", T)) = <<>>
      /\ \A i \in DOMAIN meta : meta[i].kind = "option" /\ meta[i].name # "env" =>
           \A f \in FlagsOf(meta[i]) : Among(b, Named(f, T)) = Given(Option(meta[i], Due(l, meta[i])), f)
  <2>1. ToldRight(l, meta, T)
    BY OptionsAre
  <2>2. QED
    BY <2>1, Zenon DEF ToldRight
<1>5. ASSUME NEW f
      PROVE  /\ c \in Seq(T)
             /\ Among(c, Named(f, T)) = IF f = "env" THEN <<Flag("env")>> ELSE IF f = "-n" THEN <<Flag("-n")>> ELSE <<>>
             /\ c[Len(c)] = Flag("-n") /\ Len(c) \in Nat \ {0}
  <2>1. lookup(V, Bare("env"), Dashed("env")) \in Seq(W)
    BY ValuesAreWords, MoreWords DEF lookup
  <2>2. {"env", "-n"} \subseteq N
    BY DEF Names
  <2> HIDE DEF V, N
  <2>3. QED
    BY <2>1, <2>2, TrailerIs
<1>m. IsMeta(meta)
  BY LaunchFacts
<1> HIDE DEF meta, V, N, places, o, head, p, pieces, c, args
<1>6. a \in Seq(T) /\ p \in Seq(T) /\ b \in Seq(T) /\ c \in Seq(T)
  <2>1. \A t \in Seq(Seq(T)) : Flat(t) \in Seq(T)
    <3> HIDE DEF T
    <3>1. QED
      BY FlatFacts
  <2>2. b \in Seq(T)
    BY <1>4, <2>1
  <2>3. a \in Seq(T)
    BY <1>2
  <2>4. QED
    BY <1>3, <1>5, <2>2, <2>3
<1>e. \A f : Among(a, Named(f, T)) = <<>> /\ Among(p, Named(f, T)) = <<>>
  <2> SUFFICES ASSUME NEW f PROVE Among(a, Named(f, T)) = <<>> /\ Among(p, Named(f, T)) = <<>>
    OBVIOUS
  <2>1. head \notin Named(f, T)
    BY TokenFacts DEF Named, head
  <2>2. \A i \in 1..Len(p) : p[i] \notin Named(f, T)
    BY <1>3, TokenFacts DEF Named
  <2> HIDE DEF T
  <2>3. QED
    BY <1>2, <1>6, <2>1, <2>2, OneToken, AmongFacts
<1>w. Among(a, Wordy(T)) = a /\ Among(p, Wordy(T)) = p
  <2>1. head \in Wordy(T)
    BY <1>2, TokenFacts DEF Wordy, head
  <2>2. \A i \in 1..Len(p) : p[i] \in Wordy(T)
    <3>1. \A i \in 1..Len(p) : p[i] \in T
      BY <1>3, SeqIs
    <3>2. QED
      BY <1>3, <3>1 DEF Wordy
  <2> HIDE DEF T
  <2>3. QED
    BY <1>2, <1>6, <2>1, <2>2, OneToken, AmongFacts
<1> HIDE DEF T, a, b
<1> DEFINE ap == a \o p apb == ap \o b
<1>7. ap \in Seq(T)
  BY <1>6
<1>8. apb \in Seq(T)
  <2> HIDE DEF ap
  <2>1. QED
    BY <1>6, <1>7
<1> HIDE DEF ap, apb
<1>9. args = apb \o c /\ args \in Seq(T)
  <2>1. args = apb \o c
    BY <1>1, Zenon DEF ap, apb
  <2>2. apb \o c \in Seq(T)
    BY <1>6, <1>8
  <2>3. QED
    BY <2>1, <2>2
<1>10. ASSUME NEW P
       PROVE  Among(args, P) = ((Among(a, P) \o Among(p, P)) \o Among(b, P)) \o Among(c, P)
  <2>1. AmongBoth(apb, c, P) /\ AmongBoth(ap, b, P) /\ AmongBoth(a, p, P)
    BY <1>6, <1>7, <1>8, AmongJoin
  <2>2. QED
    BY <1>9, <2>1, Zenon DEF AmongBoth, ap, apb
<1>n. \A x \in Seq(T) : x \o <<>> = x /\ <<>> \o x = x
  OBVIOUS
<1>11. ASSUME NEW f
       PROVE  Given(args, f) = Among(b, Named(f, T)) \o Among(c, Named(f, T))
  <2> DEFINE P == Named(f, T) x == Among(b, P) y == Among(c, P)
  <2>1. x \in Seq(T) /\ y \in Seq(T)
    BY <1>6, AmongFacts
  <2>2. Given(args, f) = Among(args, P)
    BY <1>9, GivenIs
  <2> HIDE DEF P, x, y
  <2>3. <<>> \o <<>> = <<>> /\ <<>> \o x = x
    BY <1>n, <2>1
  <2>4. Among(a, P) = <<>> /\ Among(p, P) = <<>>
    BY <1>e, Zenon DEF P
  <2>5. Among(args, P) = ((Among(a, P) \o Among(p, P)) \o Among(b, P)) \o Among(c, P)
    BY <1>10
  <2>6. Among(args, P) = ((<<>> \o <<>>) \o x) \o y
    BY <2>4, <2>5, Zenon DEF x, y
  <2>7. QED
    BY <2>2, <2>3, <2>6, Zenon DEF x, y, P
<1>12. Given(args, "env") = <<Flag("env")>>
  <2>1. Among(b, Named("env", T)) = <<>>
    BY <1>4
  <2>2. Among(c, Named("env", T)) = <<Flag("env")>>
    BY <1>5
  <2>3. <<Flag("env")>> \in Seq(T)
    <3>1. Among(c, Named("env", T)) \in Seq(T)
      BY <1>6, AmongFacts
    <3>2. QED
      BY <2>2, <3>1, Zenon
  <2>4. <<>> \o <<Flag("env")>> = <<Flag("env")>>
    BY <1>n, <2>3, Zenon
  <2>5. QED
    BY <1>11, <2>1, <2>2, <2>4, Zenon
<1>13. ASSUME NEW i \in DOMAIN meta, meta[i].kind = "option", meta[i].name # "env", NEW f \in FlagsOf(meta[i])
       PROVE  Given(args, f) = Given(Option(meta[i], Due(l, meta[i])), f)
  <2>1. f # "env" /\ f # "-n"
    BY <1>m, <1>13, FlagsApart
  <2>2. Among(c, Named(f, T)) = <<>>
    BY <1>5, <2>1
  <2>3. Among(b, Named(f, T)) = Given(Option(meta[i], Due(l, meta[i])), f)
    BY <1>4, <1>13
  <2> DEFINE x == Among(b, Named(f, T))
  <2>4. x \in Seq(T)
    BY <1>6, AmongFacts
  <2> HIDE DEF x
  <2>5. x \o <<>> = x
    BY <1>n, <2>4
  <2>6. Given(args, f) = x \o <<>>
    BY <1>11, <2>2, Zenon DEF x
  <2>7. QED
    BY <2>3, <2>5, <2>6, Zenon DEF x
<1> DEFINE P == Wordy(T) x == Among(b, P) y == Among(c, P) r == ((a \o p) \o x) \o y
<1>14. WordsOf(args) = r
  <2>1. WordsOf(args) = Among(args, P)
    BY <1>9, GivenIs
  <2>2. Among(args, P) = ((Among(a, P) \o Among(p, P)) \o Among(b, P)) \o Among(c, P)
    BY <1>10
  <2>3. QED
    BY <1>w, <2>1, <2>2, Zenon
<1>15. x \in Seq(T) /\ y \in Seq(T)
  BY <1>6, AmongFacts
<1> HIDE DEF P, x, y
<1>16. \A k \in 1..(1 + Len(p)) : r[k] = (a \o p)[k]
  <2> HIDE DEF r
  <2> DEFINE q == ap \o x
  <2>1. Len(ap) = 1 + Len(p) /\ Len(p) \in Nat
    <3>1. Joins(ap, a, p)
      BY Zenon DEF Joins, ap
    <3>2. Len(ap) = Len(a) + Len(p) /\ Len(p) \in Nat
      BY <1>6, <3>1, JoinIs
    <3>3. Len(a) = 1
      BY DEF a
    <3>4. QED
      BY <3>2, <3>3
  <2>2. Joins(q, ap, x) /\ Joins(r, q, y)
    BY Zenon DEF Joins, ap, r, q
  <2> HIDE DEF q
  <2>3. q \in Seq(T) /\ Len(q) = Len(ap) + Len(x) /\ Len(x) \in Nat /\ \A k \in 1..Len(ap) : q[k] = ap[k]
    BY <1>7, <1>15, <2>2, JoinIs
  <2>4. \A k \in 1..Len(q) : r[k] = q[k]
    <3>1. q \in Seq(T) /\ y \in Seq(T) /\ Joins(r, q, y)
      BY <1>15, <2>2, <2>3
    <3>2. QED
      BY <3>1, JoinIs
  <2>5. \A k \in 1..Len(ap) : k \in 1..Len(q)
    BY <2>1, <2>3
  <2>6. \A k \in 1..Len(ap) : r[k] = ap[k]
    BY <2>3, <2>4, <2>5
  <2>7. QED
    BY <2>1, <2>6 DEF ap
<1>17. (a \o p)[1] = head /\ Len(p) \in Nat /\ \A k \in 1..Len(p) : (a \o p)[k + 1] = p[k]
  <2>1. Joins(ap, a, p)
    BY Zenon DEF Joins, ap
  <2>2. Len(a) = 1 /\ a[1] = head
    BY DEF a
  <2>3. Len(p) \in Nat /\ (\A k \in 1..Len(a) : ap[k] = a[k]) /\ \A k \in 1..Len(p) : ap[Len(a) + k] = p[k]
    BY <1>6, <2>1, JoinIs
  <2>4. \A k \in 1..Len(p) : Len(a) + k = k + 1
    BY <2>2, <2>3
  <2>5. 1 \in 1..Len(a)
    BY <2>2
  <2>6. ap[1] = head /\ \A k \in 1..Len(p) : ap[k + 1] = p[k]
    BY <2>2, <2>3, <2>4, <2>5
  <2>7. QED
    BY <2>3, <2>6 DEF ap
<1> HIDE DEF r
<1>18. WordsOf(args)[1] = head
  <2>1. 1 \in 1..(1 + Len(p))
    BY <1>17
  <2>2. QED
    BY <1>14, <1>16, <1>17, <2>1
<1>19. ASSUME NEW k \in DOMAIN places, \A j \in 1..k : Due(l, places[j]) # Blank
       PROVE  WordsOf(args)[k + 1] = Word(Due(l, places[k]))
  <2>1. k \in 1..Len(p) /\ p[k] = Word(Due(l, places[k]))
    BY <1>3, <1>19
  <2>2. k + 1 \in 1..(1 + Len(p))
    BY <1>17, <2>1
  <2>3. r[k + 1] = (a \o p)[k + 1] /\ (a \o p)[k + 1] = p[k]
    BY <1>16, <1>17, <2>1, <2>2
  <2>4. QED
    BY <1>14, <2>1, <2>3, Zenon
<1>20. args[Len(args)] = Flag("-n")
  <2>1. Joins(args, apb, c)
    BY <1>9, Zenon DEF Joins
  <2>2. Len(args) = Len(apb) + Len(c) /\ Len(apb) \in Nat /\ \A k \in 1..Len(c) : args[Len(apb) + k] = c[k]
    BY <1>6, <1>8, <2>1, JoinIs
  <2>3. Len(c) \in 1..Len(c) /\ c[Len(c)] = Flag("-n")
    BY <1>5
  <2>4. QED
    BY <2>2, <2>3
<1>21. QED
  BY <1>9, <1>12, <1>13, <1>18, <1>19, <1>20 DEF args, T, N, meta, V, places, head

(* What follows the first part of a concatenation is the second.           *)
LEMMA SecondIs ==
  ASSUME NEW S, NEW s \in Seq(S), NEW t \in Seq(S), NEW u, Joins(u, s, t)
  PROVE  SubSeq(u, Len(s) + 1, Len(u)) = t
<1>1. /\ u \in Seq(S) /\ Len(u) = Len(s) + Len(t) /\ Len(s) \in Nat /\ Len(t) \in Nat
      /\ \A k \in 1..Len(t) : u[Len(s) + k] = t[k]
  BY JoinIs
<1> DEFINE v == SubSeq(u, Len(s) + 1, Len(u))
<1>2. v \in Seq(S) /\ Len(v) = Len(t) /\ \A k \in 1..Len(t) : v[k] = u[Len(s) + k]
  BY <1>1
<1> HIDE DEF v
<1>3. v = t
  BY <1>1, <1>2, SameSeq
<1>4. QED
  BY <1>3 DEF v

(* What is started with arguments that are in place has them in place.     *)
LEMMA BlankIs ==
  ASSUME NEW l, Launchable(l)
  PROVE  missing(l.cmd.meta, ValuesOf(l)) =
           {m.name : m \in {n \in ToSet(Of(l.cmd.meta, "positional")) : n.required /\ Due(l, n) = Blank}}
<1> DEFINE P == ToSet(Of(l.cmd.meta, "positional"))
<1>1. \A n \in P : \E i \in DOMAIN l.cmd.meta : n = l.cmd.meta[i]
  BY LaunchFacts, OfFacts
<1>2. \A n \in P : ValueOf(ValuesOf(l), n) = Due(l, n)
  BY <1>1, DueIs
<1> HIDE DEF P
<1>3. {n \in P : n.required /\ ValueOf(ValuesOf(l), n) = Blank} = {n \in P : n.required /\ Due(l, n) = Blank}
  BY <1>2
<1>4. QED
  BY <1>3, Zenon DEF missing, P

(* What is launched reaches its arguments, whatever is stored and typed.   *)
LEMMA LaunchReaches ==
  ASSUME NEW l, Launchable(l)
  PROVE  ValuesReachTheirArguments(l)
<1> DEFINE meta == l.cmd.meta
           V == ValuesOf(l)
           run == Effective(l.cmd, l.config, l.extra)
           own == l.config.executable \in {"", l.cmd.command}
           php == <<Word(Value("php")), Word(Value(l.cmd.command))>>
           other == <<Word(Value(l.config.executable))>>
           args == assembleConsoleArgs(l.cmd.label, meta, V)
           rest == SubSeq(run.argv, IF own THEN 3 ELSE 2, Len(run.argv))
           places == Of(meta, "positional")
           blank == {m.name : m \in {n \in ToSet(places) : n.required /\ Due(l, n) = Blank}}
           InPlace(a) ==
             /\ WordsOf(a)[1] = Word(Value(l.cmd.label))
             /\ \A k \in DOMAIN places : (\A j \in 1..k : Due(l, places[j]) # Blank) =>
                  WordsOf(a)[k + 1] = Word(Due(l, places[k]))
             /\ \A i \in DOMAIN meta : meta[i].kind = "option" /\ meta[i].name # "env" =>
                  Receives(a, meta[i], Due(l, meta[i]))
             /\ GivenTo(a, "env") = <<Blank>>
             /\ Last(a) = Flag("-n")
           W == STRING \cup {l.cmd.label}
           T == Tokens(Names(meta), W)
           S == T \cup {Word(Value("php")), Word(Value(l.cmd.command)), Word(Value(l.config.executable))}
<1>1. ValuesReachTheirArguments(l) <=>
        IF blank # {} THEN run.blocked = blank /\ run.argv = <<>>
        ELSE run.blocked = {} /\ InPlace(rest)
  BY Zenon DEF ValuesReachTheirArguments
<1>2. run = IF missing(meta, V) # {} THEN [blocked |-> missing(meta, V), argv |-> <<>>]
            ELSE [blocked |-> {}, argv |-> IF own THEN php \o args ELSE other \o args]
  BY Zenon DEF Effective, ValuesOf
<1>3. missing(meta, V) = blank
  BY BlankIs
<1>4. /\ args \in Seq(T)
      /\ WordsOf(args)[1] = Word(Value(l.cmd.label))
      /\ \A k \in DOMAIN places : (\A j \in 1..k : Due(l, places[j]) # Blank) =>
           WordsOf(args)[k + 1] = Word(Due(l, places[k]))
      /\ Given(args, "env") = <<Flag("env")>>
      /\ \A i \in DOMAIN meta : meta[i].kind = "option" /\ meta[i].name # "env" =>
           \A f \in FlagsOf(meta[i]) : Given(args, f) = Given(Option(meta[i], Due(l, meta[i])), f)
      /\ args[Len(args)] = Flag("-n")
  <2>1. STRING \subseteq W /\ l.cmd.label \in W
    OBVIOUS
  <2> HIDE DEF W
  <2>2. QED
    BY <2>1, ArgumentsAre
<1>5. InPlace(args)
  <2>1. GivenTo(args, "env") = <<Blank>>
    <3>1. GivenTo(args, "env") = [i \in DOMAIN <<Flag("env")>> |-> <<Flag("env")>>[i].value]
      BY <1>4, Zenon DEF GivenTo
    <3>2. Flag("env").value = Blank
      BY TokenFacts
    <3> DEFINE x == Flag("env")
    <3> HIDE DEF x
    <3>3. [i \in DOMAIN <<x>> |-> <<x>>[i].value] = <<x.value>>
      OBVIOUS
    <3>4. QED
      BY <3>1, <3>2, <3>3, Zenon DEF x
  <2>2. Last(args) = Flag("-n")
    BY <1>4, Zenon DEF Last
  <2>3. ASSUME NEW i \in DOMAIN meta, meta[i].kind = "option", meta[i].name # "env"
        PROVE  Receives(args, meta[i], Due(l, meta[i]))
    <3>1. FlagsOf(meta[i]) \subseteq Names(meta)
      BY <2>3, LaunchFacts, FlagsApart
    <3>2. Due(l, meta[i]) \in Seq(W)
      <4>1. Due(l, meta[i]) \in Seq(STRING)
        BY DueWords
      <4>2. QED
        BY <4>1, MoreWords
    <3>3. \A f \in FlagsOf(meta[i]) : Given(args, f) = Given(Option(meta[i], Due(l, meta[i])), f)
      BY <1>4, <2>3
    <3> DEFINE m == meta[i] due == Due(l, m)
    <3> HIDE DEF args, W, m, due
    <3>4. /\ FlagsOf(m) \subseteq Names(meta) /\ due \in Seq(W) /\ m.name # "env"
          /\ \A f \in FlagsOf(m) : Given(args, f) = Given(Option(m, due), f)
      BY <2>3, <3>1, <3>2, <3>3, Zenon DEF m, due
    <3>5. Receives(args, m, due)
      BY <3>4, OptionReceives
    <3>6. QED
      BY <3>5, Zenon DEF m, due
  <2> HIDE DEF args, meta, places
  <2>4. QED
    BY <1>4, <2>1, <2>2, <2>3, Zenon
<1>6. php \in Seq(S) /\ Len(php) = 2 /\ other \in Seq(S) /\ Len(other) = 1
  <2> DEFINE a == Word(Value("php")) b == Word(Value(l.cmd.command)) c == Word(Value(l.config.executable))
  <2> HIDE DEF a, b, c
  <2>1. S = T \cup {a, b, c} /\ php = <<a, b>> /\ other = <<c>>
    BY Zenon DEF a, b, c
  <2> HIDE DEF S, T, php, other
  <2>2. QED
    BY <2>1
<1>7. args \in Seq(S)
  <2>1. T \subseteq S
    OBVIOUS
  <2> HIDE DEF S, T, args
  <2>2. QED
    BY <1>4, <2>1, MoreWords
<1> HIDE DEF args, own, blank, InPlace, S, T, php, other, V, meta
<1>8. CASE blank # {}
  BY <1>1, <1>2, <1>3, <1>8
<1>9. CASE blank = {}
  <2>1. run.blocked = {} /\ run.argv = IF own THEN php \o args ELSE other \o args
    BY <1>2, <1>3, <1>9
  <2>2. rest = args
    <3> HIDE DEF run
    <3>1. CASE own
      <4> DEFINE u == php \o args
      <4>1. run.argv = u /\ Joins(u, php, args)
        BY <2>1, <3>1, Zenon DEF Joins
      <4> HIDE DEF u
      <4>2. SubSeq(u, Len(php) + 1, Len(u)) = args
        BY <1>6, <1>7, <4>1, SecondIs
      <4>3. Len(php) + 1 = 3
        BY <1>6
      <4>4. rest = SubSeq(u, 3, Len(u))
        BY <3>1, <4>1, Zenon
      <4>5. QED
        BY <4>2, <4>3, <4>4, Zenon
    <3>2. CASE ~own
      <4> DEFINE u == other \o args
      <4>1. run.argv = u /\ Joins(u, other, args)
        BY <2>1, <3>2, Zenon DEF Joins
      <4> HIDE DEF u
      <4>2. SubSeq(u, Len(other) + 1, Len(u)) = args
        BY <1>6, <1>7, <4>1, SecondIs
      <4>3. Len(other) + 1 = 2
        BY <1>6
      <4>4. rest = SubSeq(u, 2, Len(u))
        BY <3>2, <4>1, Zenon
      <4>5. QED
        BY <4>2, <4>3, <4>4, Zenon
    <3>3. QED
      BY <3>1, <3>2
  <2>3. QED
    BY <1>1, <1>5, <1>9, <2>1, <2>2, Zenon
<1>10. QED
  BY <1>8, <1>9

(* Whatever may be launched (projectservice.cpp, runCommandEffectiveImpl)  *)
(* receives in each argument what is due to it.                            *)
THEOREM LaunchesReach == \A l \in Launches : ValuesReachTheirArguments(l)
BY LaunchAssumption, LaunchReaches

-----------------------------------------------------------------------------
(* The lines of a log.                                                     *)

(* Which of the words that lines spell their level with name one.          *)
LEMMA LevelNames ==
  /\ \A w \in {"warn", "error", "info", "FATA", "WARN", "INFO"} : isLevelName(w)
  /\ ~isLevelName("ready")
<1> DEFINE D == {"warn", "error", "info", "debug", "http", "silly", "fatal", "ready"}
           S == {"WARN", "DEBU", "ERRO", "FATA", "FATAL", "PANI"}
<1>1. /\ DOMAIN Upper = D /\ Upper["warn"] = "WARN" /\ Upper["error"] = "ERROR" /\ Upper["info"] = "INFO"
      /\ Upper["ready"] = "READY"
  BY DEF Upper
<1>2. DOMAIN Short = S /\ Short["WARN"] = "WARNING" /\ Short["FATA"] = "CRITICAL"
  BY DEF Short
<1>3. /\ normalizeLevel("warn") = "WARNING" /\ normalizeLevel("WARN") = "WARNING"
      /\ normalizeLevel("error") = "ERROR" /\ normalizeLevel("FATA") = "CRITICAL"
      /\ normalizeLevel("info") = "INFO" /\ normalizeLevel("INFO") = "INFO"
      /\ normalizeLevel("ready") = "READY"
  BY <1>1, <1>2 DEF normalizeLevel
<1>4. QED
  BY <1>3 DEF isLevelName, Severities

(* What was read is read, and what was not is not.                         *)
LEMMA ReadOk ==
  /\ \A v, c : Read(v, c).ok /\ (ReadIfLevel(v, c).ok <=> isLevelName(v))
  /\ ~Unread.ok
BY DEF Read, Unread, ReadIfLevel

ConsoleOnes == {"symfony", "custom", "tracing", "tracingLocal", "envlogger", "envloggerColon",
                "uvicorn", "gunicorn", "logrus"}
ServerOnes == {"python", "syslog", "access", "apache"}

(* The formats that read a line, and those that read none.                 *)
LEMMA FormatsRead ==
  ASSUME NEW body
  PROVE  /\ consoleFormats(body).ok <=> body.format \in ConsoleOnes /\ isLevelName(body.word)
         /\ serverFormats(body).ok <=>
              \/ body.format = "python" /\ body.word \in {"WARNING", "INFO", "ERROR"}
              \/ body.format \in {"syslog", "access"}
              \/ body.format = "apache" /\ isLevelName(body.word)
         /\ npm(body).ok <=> body.format = "npm" /\ ~body.labelled
<1> DEFINE word == {"WARNING", "INFO", "ERROR"}
           c == consoleFormats(body)
           s == serverFormats(body)
<1>1. /\ body.format \in {"symfony", "custom", "tracing", "tracingLocal", "envlogger", "envloggerColon"}
           => c = ReadIfLevel(body.word, Channel)
      /\ body.format \in {"uvicorn", "gunicorn", "logrus"} => c = ReadIfLevel(body.word, NoChannel)
      /\ body.format \notin ConsoleOnes => c = Unread
  BY DEF consoleFormats, ConsoleOnes
<1>2. /\ body.format = "python" /\ body.word \in word => s = Read(body.word, Channel)
      /\ body.format = "syslog" => s = Read(severityToLevel(body.word), Channel)
      /\ body.format = "access" => s = Read(levelFromHttpStatus(body.word), NoChannel)
      /\ body.format = "apache" => s = ReadIfLevel(body.word, Channel)
      /\ (body.format \notin ServerOnes \/ (body.format = "python" /\ body.word \notin word)) => s = Unread
  BY DEF serverFormats, ServerOnes
<1> HIDE DEF c, s
<1>3. c.ok <=> body.format \in ConsoleOnes /\ isLevelName(body.word)
  BY <1>1, ReadOk DEF ConsoleOnes
<1>4. s.ok <=> \/ body.format = "python" /\ body.word \in word
               \/ body.format \in {"syslog", "access"}
               \/ body.format = "apache" /\ isLevelName(body.word)
  BY <1>2, ReadOk DEF ServerOnes
<1>5. npm(body).ok <=> body.format = "npm" /\ ~body.labelled
  BY ReadOk DEF npm
<1>6. QED
  BY <1>3, <1>4, <1>5 DEF c, s

(* What is left of a line when its prefixes are taken off.                 *)
LEMMA PrefixesGo ==
  ASSUME NEW f, NEW w, NEW d, NEW b, NEW l, l = [format |-> f, word |-> w, docker |-> d, labelled |-> b]
  PROVE  LET k == Unwrapped(l)
             body == layer1(k)
         IN  /\ k.format = (IF f = "tracing" /\ ~b THEN "text" ELSE f) /\ k.word = w /\ k.labelled = b
             /\ body.word = w
             /\ body.format = IF ~b /\ f \in {"tracing", "custom", "envloggerColon"} THEN "text" ELSE f
<1> DEFINE k == Unwrapped(l) body == layer1(k)
<1>1. l.format = f /\ l.word = w /\ l.labelled = b
  OBVIOUS
<1>2. k = [format |-> IF f = "tracing" /\ ~b THEN "text" ELSE f, word |-> w, docker |-> FALSE, labelled |-> b]
  BY <1>1 DEF Unwrapped, Stamped
<1>3. k.format = (IF f = "tracing" /\ ~b THEN "text" ELSE f) /\ k.word = w /\ k.labelled = b
  BY <1>2
<1>4. body.word = w /\ body.format = IF ~b /\ k.format \in {"custom", "envloggerColon"} THEN "text" ELSE k.format
  <2>1. CASE b
    BY <1>2, <1>3, <2>1 DEF layer1
  <2>2. CASE ~b
    BY <1>2, <1>3, <2>2 DEF layer1, TakenForLabel
  <2>3. QED
    BY <2>1, <2>2
<1> HIDE DEF k, body
<1>5. body.format = IF ~b /\ f \in {"tracing", "custom", "envloggerColon"} THEN "text" ELSE f
  BY <1>3, <1>4
<1>6. QED
  BY <1>3, <1>4, <1>5 DEF k, body

(* The formats and their words, as lines are made.                         *)
LEMMA WordsAre ==
  ASSUME NEW f \in WithLevel \cup {"text"}, NEW w \in Words(f)
  PROVE  /\ f = "python" => w \in {"WARNING", "WARN", "INFO"}
         /\ f = "apache" => w \in {"warn", "error", "ready"}
         /\ f = "text" => w = "ready"
         /\ f \in {"syslog", "access", "npm"} => w # "ready"
         /\ f \in {"tracing", "tracingLocal", "envlogger", "envloggerColon"} => w \in {"WARN", "INFO"}
         /\ f \in {"json", "monolog", "symfony", "custom", "uvicorn", "gunicorn", "logrus"}
              => w \in {"warn", "FATA", "info", "ready"}
<1>1. /\ f = "python" => Words(f) = {"WARNING", "WARN", "INFO"}
      /\ f = "apache" => Words(f) = {"warn", "error", "ready"}
      /\ f = "text" => Words(f) = {"ready"}
      /\ f = "syslog" => Words(f) = {"3", "4", "6"}
      /\ f = "access" => Words(f) = {"500", "404", "200"}
      /\ f = "npm" => Words(f) = {"warn", "http", "silly"}
      /\ f \in {"tracing", "tracingLocal", "envlogger", "envloggerColon"} => Words(f) = {"WARN", "INFO"}
      /\ f \in {"json", "monolog", "symfony", "custom", "uvicorn", "gunicorn", "logrus"}
           => Words(f) = {"warn", "FATA", "info", "ready"}
  BY DEF Words
<1>2. QED
  BY <1>1

(* When parse() has read a line.                                           *)
LEMMA ParseReads ==
  ASSUME NEW l
  PROVE  LET k == Unwrapped(l)
             body == layer1(k)
         IN  parse(l).ok <=> IF k.format \in {"json", "monolog"} /\ ~k.labelled THEN isLevelName(k.word)
                             ELSE consoleFormats(body).ok \/ serverFormats(body).ok \/ npm(k).ok
<1> DEFINE k == Unwrapped(l)
           body == layer1(k)
           c == consoleFormats(body)
           s == serverFormats(body)
           n == npm(k)
           reads == {r \in {c, s, n} : r.ok}
           one == CHOOSE r \in reads : TRUE
<1>1. parse(l) = IF k.format = "json" /\ ~k.labelled THEN tryJson(k)
                 ELSE IF k.format = "monolog" /\ ~k.labelled THEN monolog(k)
                 ELSE IF reads = {} THEN Unread ELSE one
  BY DEF parse
<1>2. reads # {} => one \in reads
  <2> HIDE DEF reads
  <2>1. QED
    OBVIOUS
<1>3. (tryJson(k).ok <=> isLevelName(k.word)) /\ (monolog(k).ok <=> isLevelName(k.word))
  BY ReadOk DEF tryJson, monolog
<1> HIDE DEF k, body, c, s, n
<1>4. (reads # {} <=> c.ok \/ s.ok \/ n.ok) /\ (one \in reads => one.ok)
  OBVIOUS
<1> HIDE DEF reads, one
<1>5. parse(l).ok <=> IF k.format \in {"json", "monolog"} /\ ~k.labelled THEN isLevelName(k.word)
                      ELSE c.ok \/ s.ok \/ n.ok
  BY <1>1, <1>2, <1>3, <1>4, ReadOk
<1>6. QED
  BY <1>5 DEF k, body, c, s, n

(* A line shows a level that is seen (logparser.cpp, parse), whatever its  *)
(* format, its word and what stands in front of it.                        *)
LEMMA LevelsSeen ==
  ASSUME NEW l \in Lines
  PROVE  LevelIsSeen(l)
<1>1. PICK f \in WithLevel \cup {"text"} : \E w \in Words(f), d \in BOOLEAN, b \in BOOLEAN :
             l = [format |-> f, word |-> w, docker |-> d, labelled |-> b]
  BY DEF Lines
<1>2. PICK w \in Words(f), d \in BOOLEAN, b \in BOOLEAN :
             l = [format |-> f, word |-> w, docker |-> d, labelled |-> b]
  BY <1>1
<1> DEFINE k == Unwrapped(l)
           body == layer1(k)
<1>3. /\ k.format = (IF f = "tracing" /\ ~b THEN "text" ELSE f) /\ k.word = w /\ k.labelled = b
      /\ body.word = w
      /\ body.format = IF ~b /\ f \in {"tracing", "custom", "envloggerColon"} THEN "text" ELSE f
  BY <1>2, PrefixesGo
<1>4. parse(l).ok <=> IF k.format \in {"json", "monolog"} /\ ~k.labelled THEN isLevelName(k.word)
                      ELSE consoleFormats(body).ok \/ serverFormats(body).ok \/ npm(k).ok
  BY ParseReads
<1>5. /\ consoleFormats(body).ok <=> body.format \in ConsoleOnes /\ isLevelName(body.word)
      /\ serverFormats(body).ok <=>
              \/ body.format = "python" /\ body.word \in {"WARNING", "INFO", "ERROR"}
              \/ body.format \in {"syslog", "access"}
              \/ body.format = "apache" /\ isLevelName(body.word)
      /\ npm(k).ok <=> k.format = "npm" /\ ~k.labelled
  BY FormatsRead
<1> HIDE DEF k, body
<1> DEFINE placed == IF ~b /\ f \in {"tracing", "custom", "envloggerColon"} THEN "text" ELSE f
           mistaken == \/ f \in {"tracing", "custom", "envloggerColon"} /\ ~b
                       \/ f \in {"json", "monolog", "npm"} /\ b
           nolevel == w = "ready" \/ (f = "python" /\ w = "WARN")
<1>6. parse(l).ok <=>
        IF f \in {"json", "monolog"} /\ ~b THEN isLevelName(w)
        ELSE \/ placed \in ConsoleOnes /\ isLevelName(w)
             \/ placed = "python" /\ w \in {"WARNING", "INFO", "ERROR"}
             \/ placed \in {"syslog", "access"}
             \/ placed = "apache" /\ isLevelName(w)
             \/ f = "npm" /\ ~b
  BY <1>3, <1>4, <1>5
<1>7. isLevelName(w) \in BOOLEAN
  BY DEF isLevelName
<1>8. parse(l).ok <=> ~mistaken /\ ~nolevel
  <2>1. CASE f \in {"json", "monolog"}
    BY <1>6, <2>1, WordsAre, LevelNames DEF ConsoleOnes
  <2>2. CASE f \in {"symfony", "custom", "uvicorn", "gunicorn", "logrus"}
    BY <1>6, <2>2, WordsAre, LevelNames DEF ConsoleOnes
  <2>3. CASE f \in {"tracing", "tracingLocal", "envlogger", "envloggerColon"}
    BY <1>6, <2>3, WordsAre, LevelNames DEF ConsoleOnes
  <2>4. CASE f \in {"python", "apache"}
    BY <1>6, <2>4, WordsAre, LevelNames DEF ConsoleOnes
  <2>5. CASE f \in {"syslog", "access", "npm", "text"}
    BY <1>6, <2>5, WordsAre, LevelNames DEF ConsoleOnes
  <2>6. QED
    BY <2>1, <2>2, <2>3, <2>4, <2>5 DEF WithLevel
<1>9. l.format = f /\ l.word = w /\ l.labelled = b
  BY <1>2
<1>10. QED
  BY <1>8, <1>9 DEF LevelIsSeen

-----------------------------------------------------------------------------
(* Lines and launches as the window is given them.                         *)

(* Nothing changes what is read and what is launched.                      *)
LEMMA PureStays ==
  ASSUME [DeskNext]_deskVars
  PROVE  focus' = focus /\ line' = line /\ launch' = launch
<1>1. CASE DeskNext
  <2>1. ConsoleOnly \/ RecentsOnly \/ McpOnly \/ AgentsOnly \/ TreeOnly \/ OutputOnly \/ StatsOnly
    BY <1>1, Zenon DEF DeskNext
  <2>2. UNCHANGED pureVars
    BY <2>1 DEF ConsoleOnly, RecentsOnly, McpOnly, AgentsOnly, TreeOnly, OutputOnly, StatsOnly
  <2>3. QED
    BY <2>2 DEF pureVars
<1>2. CASE UNCHANGED deskVars
  BY <1>2 DEF deskVars, pureVars
<1>3. QED
  BY <1>1, <1>2

(* Every log line that the window is given is read (logparser.cpp, parse   *)
(* and applyFilter): its level is seen, but where one prefix is mistaken   *)
(* for another, and the chip of that level selects it.                     *)
THEOREM LinesAreAllRead == DeskSpec => []LinesAreRead
<1> DEFINE GivenLine == Busy("lines") => line \in Lines
<1>1. DeskInit => GivenLine
  <2> SUFFICES ASSUME line \in IF Busy("lines") THEN Lines ELSE {AnyLine}
               PROVE  GivenLine
    BY Zenon DEF DeskInit
  <2>1. QED
    OBVIOUS
<1>2. GivenLine /\ [DeskNext]_deskVars => GivenLine'
  <2> SUFFICES ASSUME GivenLine, [DeskNext]_deskVars PROVE GivenLine'
    OBVIOUS
  <2>1. focus' = focus /\ line' = line
    BY PureStays
  <2>2. QED
    BY <2>1 DEF Busy
<1>3. GivenLine => LinesAreRead
  BY LevelsSeen, ChipsSelect DEF LinesAreRead, ChipsSelectTheirLines, LevelsAreSeen
<1>4. QED
  BY <1>1, <1>2, <1>3, PTL DEF DeskSpec

(* What the window starts (projectservice.cpp, runCommandEffectiveImpl and *)
(* assembleConsoleArgs) receives in each argument what is due to it.       *)
THEOREM ArgumentsArrive == DeskSpec => []ArgumentsAreReached
<1> DEFINE Ours == launch \in Launches
<1>1. DeskInit => Ours
  <2>1. Launches # {} => (CHOOSE l \in Launches : TRUE) \in Launches
    <3> DEFINE L == Launches
    <3> HIDE DEF L
    <3>1. L # {} => (CHOOSE l \in L : TRUE) \in L
      OBVIOUS
    <3>2. QED
      BY <3>1 DEF L
  <2>2. AnyLaunch \in Launches
    BY <2>1, LaunchAssumption DEF AnyLaunch
  <2> SUFFICES ASSUME launch \in IF Busy("launches") THEN Launches ELSE {AnyLaunch}
               PROVE  Ours
    BY Zenon DEF DeskInit
  <2>3. QED
    BY <2>2
<1>2. Ours /\ [DeskNext]_deskVars => Ours'
  BY PureStays
<1>3. Ours => ArgumentsAreReached
  BY LaunchesReach DEF ArgumentsAreReached
<1>4. QED
  BY <1>1, <1>2, <1>3, PTL DEF DeskSpec
=============================================================================
