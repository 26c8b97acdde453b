------------------------------ MODULE SystemStats ------------------------------
(***************************************************************************)
(* The processor's load in the status bar (src/src/systemstats.cpp): every *)
(* two seconds the ticks spent busy and idle are read, counters of a fixed *)
(* width that run over after some weeks, and the load is what they grew by *)
(* since the last reading.                                                 *)
(***************************************************************************)
EXTENDS Naturals

CONSTANTS
  TickRange,  \* the counters run over at TickRange, 2 ^ 32 in the kernel
  MaxGrowth,  \* the most one counter grows between two readings
  MaxTicks    \* bound on the ticks

ASSUME StatsAssumption ==
  /\ {TickRange, MaxGrowth} \subseteq Nat \ {0} /\ 2 * MaxGrowth <= TickRange /\ MaxTicks \in Nat

VARIABLES
  busyTicks, idleTicks,  \* the ticks spent since the machine started
  prevTotal, prevIdle,   \* m_prevCpuTotal, m_prevCpuIdle
  load                   \* m_cpuUsage as <<busy, of>>; <<>> before the first
statsVars == <<busyTicks, idleTicks, prevTotal, prevIdle, load>>

RunsOver(n) == n % TickRange

StatsInit ==
  /\ busyTicks \in 0..MaxTicks /\ idleTicks \in 0..MaxTicks
  /\ prevTotal = RunsOver(busyTicks) + RunsOver(idleTicks) /\ prevIdle = RunsOver(idleTicks)
  /\ load = <<>>

(* The counters run over each for itself and their sum does not; it is     *)
(* then smaller than before and this reading only starts the next.         *)
Share(dTotal, dIdle) == <<dTotal - dIdle, dTotal>>
(* Bug: a sum that has become smaller is taken for growth, too.            *)
SampleAnyway(total, idle) == IF prevTotal # 0 THEN Share(total - prevTotal, idle - prevIdle) ELSE load

Sample(total, idle) ==
  IF prevTotal # 0 /\ total > prevTotal THEN Share(total - prevTotal, idle - prevIdle) ELSE load

sampleCpu ==
  /\ \E b, i \in 0..MaxGrowth :
       /\ busyTicks + b <= MaxTicks /\ idleTicks + i <= MaxTicks
       /\ busyTicks' = busyTicks + b /\ idleTicks' = idleTicks + i
  /\ LET idle == RunsOver(idleTicks')
         total == RunsOver(busyTicks') + idle
     IN  load' = Sample(total, idle) /\ prevTotal' = total /\ prevIdle' = idle

StatsNext == sampleCpu

StatsSpec == StatsInit /\ [][StatsNext]_statsVars

(* A load that is shown is the true one of the last two seconds, even when *)
(* one counter or both have run over in them.                              *)
LoadIsTrue ==
  [][load' # load =>
       load' = <<busyTicks' - busyTicks, busyTicks' + idleTicks' - busyTicks - idleTicks>>]_statsVars
=============================================================================
