---------------------------- MODULE SessionProofs ----------------------------
(***************************************************************************)
(* Proofs about CommandExecutor and the sessions of the app, for every set *)
(* of commands and pids and every bound on the ids.  First one session:    *)
(* the invariants of the process table, and that it implements the life    *)
(* cycle RunLifecycle.  Then what holds of it in every session, however    *)
(* the sessions before it ended, crashes included; and what becomes of the *)
(* programs that trun launched, over all sessions.                         *)
(***************************************************************************)
EXTENDS Session, TLAPS

USE ConstantsAssumption

-----------------------------------------------------------------------------
(* What killing a set of runs leaves of the kernel's table.                *)
LEMMA AfterKillFacts ==
  ASSUME TypeOK, EntryMatchesKernel, NEW ids
  PROVE  /\ AfterKill(ids) \in [Pids -> OsState]
         /\ \A p \in Pids :
              \/ AfterKill(ids)[p] = os[p]
              \/ /\ os[p] \in {"forked", "live"}
                 /\ p \in HeldPids
                 /\ AfterKill(ids)[p] = "signalled"
              \/ /\ p \notin HeldPids
                 /\ AfterKill(ids)[p] = "free"
         /\ \A id \in DOMAIN processes \cap ids :
              processes[id].pid \in Pids =>
                AfterKill(ids)[processes[id].pid] \notin {"forked", "live"}
<1>1. AfterKill(ids) \in [Pids -> OsState]
  BY DEF AfterKill, TypeOK, OsState, Unreaped
<1>2. ASSUME NEW p \in Pids
      PROVE  \/ AfterKill(ids)[p] = os[p]
             \/ /\ os[p] \in {"forked", "live"}
                /\ p \in HeldPids
                /\ AfterKill(ids)[p] = "signalled"
             \/ /\ p \notin HeldPids
                /\ AfterKill(ids)[p] = "free"
  <2>1. p \in HeldPids => os[p] \notin Foreign
    <3>1. SUFFICES ASSUME NEW id \in DOMAIN processes, processes[id].pid = p
                   PROVE  os[p] \notin Foreign
      BY DEF HeldPids
    <3>2. processes[id] \in Proc
      BY DEF TypeOK
    <3>3. QED
      BY <3>1, <3>2 DEF EntryMatchesKernel, Proc, QState, Foreign, Unreaped
  <2>2. QED
    BY <2>1 DEF AfterKill
<1>3. ASSUME NEW id \in DOMAIN processes \cap ids, processes[id].pid \in Pids
      PROVE  AfterKill(ids)[processes[id].pid] \notin {"forked", "live"}
  BY <1>3 DEF AfterKill, PidsOf, HeldPids
<1>4. QED
  BY <1>1, <1>2, <1>3

(* Killing keeps each entry in step with the kernel, loses no child, and   *)
(* leaves no stopped run alive: what StopRuns and the launches share.      *)
LEMMA AfterKillShape ==
  ASSUME IInv, NEW ids, os' = AfterKill(ids), UNCHANGED processes, UNCHANGED deferred,
         killRequested' = killRequested \cup (ids \cap DOMAIN processes)
  PROVE  EntryMatchesKernel' /\ NoLostChild' /\ StopIsFinal'
<1> USE DEF IInv
<1>0. os' \in [Pids -> OsState]
  BY AfterKillFacts
<1>1. \A p \in Pids :
         \/ os'[p] = os[p]
         \/ os[p] \in {"forked", "live"} /\ p \in HeldPids /\ os'[p] = "signalled"
         \/ p \notin HeldPids /\ os'[p] = "free"
  BY AfterKillFacts
<1>2. \A id \in DOMAIN processes \cap ids :
         processes[id].pid \in Pids => os'[processes[id].pid] \notin {"forked", "live"}
  BY AfterKillFacts
<1>3. \A id \in DOMAIN processes : processes[id].pid \in Pids => processes[id].pid \in HeldPids
  BY DEF HeldPids
<1>4. EntryMatchesKernel'
  BY <1>1, <1>3 DEF EntryMatchesKernel, Unreaped, TypeOK, Proc
<1>5. NoLostChild'
  <2>1. ASSUME NEW p \in Pids, os'[p] \in Unreaped
        PROVE  \E id \in DOMAIN processes : processes[id].pid = p
    <3>1. CASE os'[p] = os[p]
      BY <3>1, <2>1 DEF NoLostChild
    <3>2. CASE p \in HeldPids
      BY <3>2 DEF HeldPids
    <3>3. QED
      BY <1>1, <2>1, <3>1, <3>2 DEF Unreaped
  <2>2. QED
    BY <2>1 DEF NoLostChild
<1>6. StopIsFinal'
  BY <1>1, <1>2, <1>3 DEF StopIsFinal
<1>7. QED
  BY <1>4, <1>5, <1>6

LEMMA EmitFacts ==
  ASSUME TypeOK, NEW kind \in Signals, NEW S, Emit(kind, S)
  PROVE  /\ heard' \in [RunIds -> [Signals -> Nat]]
         /\ \A id \in RunIds, s \in Signals :
              heard'[id][s] = IF s = kind /\ id \in S THEN heard[id][s] + 1 ELSE heard[id][s]
BY DEF Emit, TypeOK

(* The signals of stopping: the adopted processes of the set are over.     *)
LEMMA StopSignals ==
  ASSUME IInv, NEW ids, Emit("finished", ids \cap DOMAIN external),
         external' = Without(external, ids), UNCHANGED <<processes, nextId>>
  PROVE  SignalsMatchState' /\ ReportedOnce'
<1> USE DEF IInv
<1>1. /\ heard' \in [RunIds -> [Signals -> Nat]]
      /\ \A id \in RunIds, s \in Signals :
           heard'[id][s] = IF s = "finished" /\ id \in ids \cap DOMAIN external
                           THEN heard[id][s] + 1 ELSE heard[id][s]
  BY EmitFacts DEF Signals
<1>2. DOMAIN external' = DOMAIN external \ ids
  BY DEF Without, Restrict
<1>3. SignalsMatchState'
  BY <1>1, <1>2 DEF SignalsMatchState, TablesDisjoint, Ids, TypeOK, Signals
<1>4. ReportedOnce'
  BY <1>1, <1>2 DEF ReportedOnce, Ends, TablesDisjoint, TypeOK, Signals
<1>5. QED
  BY <1>3, <1>4

LEMMA StopRunsIInv ==
  ASSUME IInv, NEW ids, StopRuns(ids)
  PROVE  IInv'
<1> USE DEF IInv
<1>1. /\ killRequested' = killRequested \cup (ids \cap DOMAIN processes)
      /\ external' = Without(external, ids)
      /\ os' = AfterKill(ids)
      /\ Emit("finished", ids \cap DOMAIN external)
      /\ UNCHANGED <<processes, nextId, deferred>>
  BY DEF StopRuns, Stopped
<1>2. /\ DOMAIN external' = DOMAIN external \ ids
      /\ \A id \in DOMAIN external' : external'[id] = external[id]
      /\ external' = [id \in DOMAIN external' |-> external'[id]]
  BY <1>1 DEF Without, Restrict
<1>3. os' \in [Pids -> OsState]
  BY <1>1, AfterKillFacts
<1>4. heard' \in [RunIds -> [Signals -> Nat]]
  <2>1. Emit("finished", ids \cap DOMAIN external) /\ "finished" \in Signals
    BY <1>1 DEF Signals
  <2>2. QED
    BY <2>1, EmitFacts
<1>5. shown' = runningCommandIds'
  <2>1. CASE ids \cap DOMAIN external = {}
    <3>1. external' = external
      BY <2>1, <1>1 DEF Without, Restrict, TypeOK
    <3>2. QED
      BY <3>1, <2>1, <1>1 DEF StopRuns, BindingsFresh, runningCommandIds
  <2>2. CASE ids \cap DOMAIN external # {}
    BY <2>2 DEF StopRuns, Notify
  <2>3. QED
    BY <2>1, <2>2, SMTT(30)
<1>6. shown' \subseteq Commands
  BY <1>1, <1>2, <1>5 DEF runningCommandIds, CommandsOf, TypeOK, Proc, ExternalProc
<1>7. TypeOK'
  <2>1. external' \in [DOMAIN external' -> ExternalProc]
    BY <1>2 DEF TypeOK
  <2>2. QED
    BY <1>1, <1>2, <1>3, <1>4, <1>6, <2>1 DEF TypeOK
<1>8. TablesDisjoint'
  BY <1>1, <1>2 DEF TablesDisjoint, Ids
<1>9. EntryMatchesKernel' /\ NoLostChild' /\ StopIsFinal'
  BY <1>1, AfterKillShape
<1>10. SignalsMatchState' /\ ReportedOnce'
  BY <1>1, StopSignals
<1>11. QED
  BY <1>5, <1>7, <1>8, <1>9, <1>10 DEF BindingsFresh

-----------------------------------------------------------------------------
(* Launching.  A new entry takes the next id; stopping the earlier runs of *)
(* the command in the same handler touches none of the new entry.          *)
LEMMA StoppedTables ==
  ASSUME TypeOK, NEW S, Stopped(S)
  PROVE  /\ DOMAIN external' = DOMAIN external \ S
         /\ external' \in [DOMAIN external' -> ExternalProc]
         /\ killRequested' \subseteq killRequested \cup DOMAIN processes
BY DEF Stopped, Without, Restrict, TypeOK

LEMMA LaunchTables ==
  ASSUME IInv, NEW S, NEW entry \in Proc, Launch(S, entry), deferred' \subseteq deferred \cup {nextId}
  PROVE  /\ TablesDisjoint'
         /\ nextId \in RunIds
         /\ nextId' \in 1..(MaxRuns + 1)
         /\ processes' \in [DOMAIN processes \cup {nextId} -> Proc]
         /\ DOMAIN processes' = DOMAIN processes \cup {nextId}
         /\ processes'[nextId] = entry
         /\ nextId \notin DOMAIN processes
         /\ nextId \notin killRequested'
         /\ \A id \in DOMAIN processes : processes'[id] = processes[id]
         /\ killRequested' = killRequested \cup (S \cap DOMAIN processes)
         /\ deferred' \subseteq RunIds
         /\ shown' = runningCommandIds' /\ shown' \subseteq Commands
<1> USE DEF IInv
<1>1. nextId \in 1..(MaxRuns + 1) /\ nextId <= MaxRuns /\ nextId' = nextId + 1
  BY DEF Launch, TakeId, TypeOK
<1>2. nextId \in RunIds /\ nextId' \in 1..(MaxRuns + 1) /\ Ids' = Ids \cup {nextId}
      /\ nextId \notin Ids
  BY <1>1 DEF RunIds, Ids
<1>3. processes' = [x \in DOMAIN processes \cup {nextId} |->
                      IF x = nextId THEN entry ELSE processes[x]]
  BY DEF Launch, Put
<1>4. nextId \notin DOMAIN processes \cup DOMAIN external \cup killRequested
  BY <1>2 DEF TablesDisjoint
<1>5. processes' \in [DOMAIN processes \cup {nextId} -> Proc]
  BY <1>3 DEF TypeOK
<1>6. /\ DOMAIN external' = DOMAIN external \ S
      /\ external' \in [DOMAIN external' -> ExternalProc]
      /\ killRequested' = killRequested \cup (S \cap DOMAIN processes)
  BY StoppedTables DEF Launch, Stopped
<1>7. TablesDisjoint'
  BY <1>2, <1>3, <1>4, <1>6 DEF TablesDisjoint
<1>8. shown' = runningCommandIds'
  BY DEF Launch, Notify
<1>9. shown' \subseteq Commands
  BY <1>5, <1>6, <1>8 DEF runningCommandIds, CommandsOf, Proc, ExternalProc
<1>10. deferred' \subseteq RunIds
  BY <1>2 DEF TypeOK
<1>11. QED
  BY <1>2, <1>3, <1>4, <1>5, <1>6, <1>7, <1>8, <1>9, <1>10

LEMMA LaunchSignals ==
  ASSUME IInv, NEW S, NEW entry \in Proc, Launch(S, entry), deferred' \subseteq deferred \cup {nextId},
         entry.state # "Running"
  PROVE  SignalsMatchState' /\ ReportedOnce'
<1> USE DEF IInv
<1>1. /\ nextId \in RunIds
      /\ DOMAIN processes' = DOMAIN processes \cup {nextId}
      /\ processes'[nextId] = entry
      /\ \A id \in DOMAIN processes : processes'[id] = processes[id]
  BY LaunchTables
<1>2. /\ heard' \in [RunIds -> [Signals -> Nat]]
      /\ \A id \in RunIds, s \in Signals :
           heard'[id][s] = IF s = "finished" /\ id \in S \cap DOMAIN external
                           THEN heard[id][s] + 1 ELSE heard[id][s]
  BY EmitFacts DEF Signals, Launch
<1>3. DOMAIN external' = DOMAIN external \ S
  BY StoppedTables DEF Launch
<1>4. Ids' = Ids \cup {nextId} /\ nextId \notin Ids
  BY <1>1 DEF Launch, TakeId, Ids, RunIds
<1>5. SignalsMatchState'
  BY <1>1, <1>2, <1>3, <1>4 DEF SignalsMatchState, TablesDisjoint, TypeOK, Signals
<1>6. ReportedOnce'
  BY <1>1, <1>2, <1>3, <1>4 DEF ReportedOnce, Ends, SignalsMatchState, TablesDisjoint, TypeOK, Signals
<1>7. QED
  BY <1>5, <1>6

LEMMA RunNeverStartedIInv ==
  ASSUME IInv, NEW c \in Commands \cup {NoCommand}, RunNeverStarted(c)
  PROVE  IInv'
<1> USE DEF IInv
<1> DEFINE entry == [command |-> c, pid |-> NoPid, state |-> "NotRunning"]
<1>1. PICK S : /\ Launch(S, entry)
               /\ deferred' = deferred \cup {nextId}
               /\ os' = AfterKill(S)
  BY DEF RunNeverStarted
<1>2. entry \in Proc /\ entry.state = "NotRunning" /\ entry.pid = NoPid
  BY DEF Proc, QState
<1> HIDE DEF entry
<1>3. /\ TablesDisjoint'
      /\ nextId \in RunIds
      /\ nextId' \in 1..(MaxRuns + 1)
      /\ processes' \in [DOMAIN processes \cup {nextId} -> Proc]
      /\ DOMAIN processes' = DOMAIN processes \cup {nextId}
      /\ processes'[nextId] = entry
      /\ nextId \notin DOMAIN processes
      /\ nextId \notin killRequested'
      /\ \A id \in DOMAIN processes : processes'[id] = processes[id]
      /\ killRequested' = killRequested \cup (S \cap DOMAIN processes)
      /\ deferred' \subseteq RunIds
      /\ shown' = runningCommandIds' /\ shown' \subseteq Commands
  BY <1>1, <1>2, LaunchTables
<1>4. SignalsMatchState' /\ ReportedOnce'
  BY <1>1, <1>2, LaunchSignals
<1>5. TypeOK'
  <2>1. heard' \in [RunIds -> [Signals -> Nat]]
    BY <1>1, EmitFacts DEF Launch, Signals
  <2>2. os' \in [Pids -> OsState]
    BY <1>1, AfterKillFacts
  <2>3. external' \in [DOMAIN external' -> ExternalProc] /\ DOMAIN external' \subseteq RunIds
    BY <1>1, StoppedTables DEF Launch, TypeOK
  <2>4. DOMAIN processes' \subseteq RunIds /\ killRequested' \subseteq RunIds
    BY <1>3 DEF TypeOK
  <2>5. QED
    BY <1>3, <2>1, <2>2, <2>3, <2>4 DEF TypeOK
<1>6. \A p \in Pids :
         \/ os'[p] = os[p]
         \/ os[p] \in {"forked", "live"} /\ p \in HeldPids /\ os'[p] = "signalled"
         \/ p \notin HeldPids /\ os'[p] = "free"
  BY <1>1, AfterKillFacts
<1>7. \A id \in DOMAIN processes \cap S :
         processes[id].pid \in Pids => os'[processes[id].pid] \notin {"forked", "live"}
  BY <1>1, AfterKillFacts
<1>8. \A id \in DOMAIN processes : processes[id].pid \in Pids => processes[id].pid \in HeldPids
  BY DEF HeldPids
<1>9. EntryMatchesKernel'
  BY <1>1, <1>2, <1>3, <1>6, <1>8 DEF EntryMatchesKernel, Unreaped, TypeOK, Proc, TablesDisjoint
<1>10. NoLostChild'
  <2>1. ASSUME NEW p \in Pids, os'[p] \in Unreaped
        PROVE  \E id \in DOMAIN processes' : processes'[id].pid = p
    <3>1. \E id \in DOMAIN processes : processes[id].pid = p
      BY <1>6, <2>1 DEF NoLostChild, HeldPids, Unreaped
    <3>2. QED
      BY <3>1, <1>3
  <2>2. \A i, j \in DOMAIN processes' :
          processes'[i].pid = processes'[j].pid /\ processes'[i].pid # NoPid => i = j
    BY <1>2, <1>3 DEF NoLostChild
  <2>3. \A id \in DOMAIN processes' :
          processes'[id].state = "NotRunning" => id \in deferred' \cup killRequested'
    BY <1>1, <1>3 DEF NoLostChild
  <2>4. QED
    BY <2>1, <2>2, <2>3 DEF NoLostChild
<1>11. StopIsFinal'
  BY <1>3, <1>6, <1>7, <1>8 DEF StopIsFinal, TablesDisjoint
<1>12. QED
  BY <1>3, <1>4, <1>5, <1>9, <1>10, <1>11 DEF BindingsFresh

LEMMA RunForkedIInv ==
  ASSUME IInv, NEW c \in Commands \cup {NoCommand}, RunForked(c)
  PROVE  IInv'
<1> USE DEF IInv
<1>0. PICK S \in StoppedFirst(c), q \in Pids :
         /\ os[q] = "free"
         /\ Launch(S, [command |-> c, pid |-> q, state |-> "Starting"])
         /\ deferred' = deferred
         /\ os' = [AfterKill(S) EXCEPT ![q] = "forked"]
  BY DEF RunForked
<1> DEFINE entry == [command |-> c, pid |-> q, state |-> "Starting"]
<1>1. Launch(S, entry) /\ deferred' \subseteq deferred \cup {nextId}
  BY <1>0
<1>2. entry \in Proc /\ entry.state = "Starting" /\ entry.pid = q
  BY DEF Proc, QState
<1> HIDE DEF entry
<1>3. /\ TablesDisjoint'
      /\ nextId \in RunIds
      /\ nextId' \in 1..(MaxRuns + 1)
      /\ processes' \in [DOMAIN processes \cup {nextId} -> Proc]
      /\ DOMAIN processes' = DOMAIN processes \cup {nextId}
      /\ processes'[nextId] = entry
      /\ nextId \notin DOMAIN processes
      /\ nextId \notin killRequested'
      /\ \A id \in DOMAIN processes : processes'[id] = processes[id]
      /\ killRequested' = killRequested \cup (S \cap DOMAIN processes)
      /\ deferred' \subseteq RunIds
      /\ shown' = runningCommandIds' /\ shown' \subseteq Commands
  BY <1>1, <1>2, LaunchTables
<1>4. SignalsMatchState' /\ ReportedOnce'
  BY <1>1, <1>2, LaunchSignals
<1>5. TypeOK'
  <2>1. heard' \in [RunIds -> [Signals -> Nat]]
    BY <1>1, EmitFacts DEF Launch, Signals
  <2>2. os' \in [Pids -> OsState]
    BY <1>0, AfterKillFacts DEF OsState
  <2>3. external' \in [DOMAIN external' -> ExternalProc] /\ DOMAIN external' \subseteq RunIds
    BY <1>1, StoppedTables DEF Launch, TypeOK
  <2>4. DOMAIN processes' \subseteq RunIds /\ killRequested' \subseteq RunIds
    BY <1>3 DEF TypeOK
  <2>5. QED
    BY <1>3, <2>1, <2>2, <2>3, <2>4 DEF TypeOK
<1>8. /\ \A id \in DOMAIN processes : processes[id].pid \in Pids => processes[id].pid \in HeldPids
      /\ \A id \in DOMAIN processes : processes[id].pid # q
  BY <1>0 DEF HeldPids, EntryMatchesKernel, TypeOK, Proc, QState, Unreaped
<1>6. /\ \A p \in Pids \ {q} :
            \/ os'[p] = os[p]
            \/ os[p] \in {"forked", "live"} /\ p \in HeldPids /\ os'[p] = "signalled"
            \/ p \notin HeldPids /\ os'[p] = "free"
      /\ os'[q] = "forked"
  BY <1>0, AfterKillFacts
<1>7. \A id \in DOMAIN processes \cap S :
         processes[id].pid \in Pids => os'[processes[id].pid] \notin {"forked", "live"}
  BY <1>0, <1>8, AfterKillFacts
<1>13. nextId \notin deferred
  BY <1>3 DEF TablesDisjoint, Ids, RunIds
<1>9. EntryMatchesKernel'
  BY <1>0, <1>2, <1>3, <1>6, <1>8, <1>13 DEF EntryMatchesKernel, Unreaped, TypeOK, Proc, TablesDisjoint
<1>10. NoLostChild'
  <2>1. ASSUME NEW p \in Pids, os'[p] \in Unreaped
        PROVE  \E id \in DOMAIN processes' : processes'[id].pid = p
    <3>1. \E id \in DOMAIN processes : processes[id].pid = p
      <4>1. p # q
        BY <1>6, <2>1 DEF Unreaped
      <4>2. QED
        BY <1>6, <2>1, <4>1 DEF NoLostChild, HeldPids, Unreaped
    <3>2. QED
      BY <3>1, <1>3
  <2>2. \A i, j \in DOMAIN processes' :
          processes'[i].pid = processes'[j].pid /\ processes'[i].pid # NoPid => i = j
    BY <1>2, <1>3, <1>8 DEF NoLostChild
  <2>3. \A id \in DOMAIN processes' :
          processes'[id].state = "NotRunning" => id \in deferred' \cup killRequested'
    BY <1>0, <1>2, <1>3 DEF NoLostChild
  <2>4. QED
    BY <2>1, <2>2, <2>3 DEF NoLostChild
<1>11. StopIsFinal'
  BY <1>3, <1>6, <1>7, <1>8 DEF StopIsFinal, TablesDisjoint
<1>12. QED
  BY <1>3, <1>4, <1>5, <1>9, <1>10, <1>11 DEF BindingsFresh

LEMMA RunForkFailsIInv ==
  ASSUME IInv, NEW c \in Commands \cup {NoCommand}, RunForkFails(c)
  PROVE  IInv'
<1> USE DEF IInv
<1>1. PICK S :
         /\ TakeId
         /\ Stopped(S)
         /\ os' = AfterKill(S)
         /\ heard' = [id \in RunIds |-> [s \in Signals |->
                        IF \/ s = "failed" /\ id = nextId
                           \/ s = "finished" /\ id \in S \cap DOMAIN external
                        THEN heard[id][s] + 1 ELSE heard[id][s]]]
         /\ UNCHANGED <<processes, deferred>>
         /\ Notify
  BY DEF RunForkFails
<1>2. /\ nextId \in RunIds
      /\ nextId' \in 1..(MaxRuns + 1)
      /\ Ids' = Ids \cup {nextId}
      /\ nextId \notin Ids
  BY <1>1 DEF TakeId, TypeOK, RunIds, Ids
<1>3. /\ DOMAIN external' = DOMAIN external \ S
      /\ external' \in [DOMAIN external' -> ExternalProc]
      /\ killRequested' = killRequested \cup (S \cap DOMAIN processes)
  BY <1>1, StoppedTables DEF Stopped
<1>4. shown' = runningCommandIds' /\ shown' \subseteq Commands
  BY <1>1, <1>3 DEF Notify, runningCommandIds, CommandsOf, TypeOK, Proc, ExternalProc
<1>5. TypeOK'
  <2>1. heard' \in [RunIds -> [Signals -> Nat]]
    BY <1>1 DEF TypeOK
  <2>2. os' \in [Pids -> OsState]
    BY <1>1, AfterKillFacts
  <2>3. QED
    BY <1>1, <1>2, <1>3, <1>4, <2>1, <2>2 DEF TypeOK
<1>6. TablesDisjoint'
  BY <1>1, <1>2, <1>3 DEF TablesDisjoint
<1>7. EntryMatchesKernel' /\ NoLostChild' /\ StopIsFinal'
  BY <1>1, AfterKillShape DEF Stopped
<1>8. SignalsMatchState'
  BY <1>1, <1>2, <1>3 DEF SignalsMatchState, TablesDisjoint, TypeOK, Signals
<1>9. ReportedOnce'
  BY <1>1, <1>2, <1>3 DEF ReportedOnce, Ends, SignalsMatchState, TablesDisjoint, TypeOK, Signals
<1>10. QED
  BY <1>4, <1>5, <1>6, <1>7, <1>8, <1>9 DEF BindingsFresh

LEMMA AdoptExternalIInv ==
  ASSUME IInv, NEW p \in Pids, NEW c \in Commands, AdoptExternal(p, c)
  PROVE  IInv'
<1> USE DEF IInv
<1>1. /\ TakeId
      /\ external' = Put(external, nextId, [command |-> c, pid |-> p])
      /\ UNCHANGED <<processes, killRequested, deferred, os, heard>>
      /\ Notify
  BY DEF AdoptExternal
<1>2. /\ nextId \in RunIds
      /\ nextId' \in 1..(MaxRuns + 1)
      /\ Ids' = Ids \cup {nextId}
      /\ nextId \notin Ids
  BY <1>1 DEF TakeId, TypeOK, RunIds, Ids
<1>3. /\ DOMAIN external' = DOMAIN external \cup {nextId}
      /\ external' \in [DOMAIN external' -> ExternalProc]
  BY <1>1 DEF Put, TypeOK, ExternalProc
<1>4. shown' = runningCommandIds' /\ shown' \subseteq Commands
  BY <1>1, <1>3 DEF Notify, runningCommandIds, CommandsOf, TypeOK, Proc, ExternalProc
<1>5. TypeOK'
  BY <1>1, <1>2, <1>3, <1>4 DEF TypeOK
<1>6. TablesDisjoint'
  BY <1>1, <1>2, <1>3 DEF TablesDisjoint
<1>7. EntryMatchesKernel' /\ NoLostChild' /\ StopIsFinal'
  BY <1>1 DEF EntryMatchesKernel, NoLostChild, StopIsFinal
<1>8. SignalsMatchState' /\ ReportedOnce'
  BY <1>1, <1>2, <1>3 DEF SignalsMatchState, ReportedOnce, Ends, TablesDisjoint, TypeOK, Signals
<1>9. QED
  BY <1>4, <1>5, <1>6, <1>7, <1>8 DEF BindingsFresh

LEMMA DetachAllIInv ==
  ASSUME IInv, DetachAll
  PROVE  IInv'
<1> USE DEF IInv
<1>1. /\ DOMAIN processes' = {} /\ processes' \in [{} -> Proc]
      /\ DOMAIN external' = {} /\ external' \in [{} -> ExternalProc]
      /\ killRequested' = {}
      /\ os' = [p \in Pids |-> IF os[p] \in Unreaped THEN "free" ELSE os[p]]
      /\ UNCHANGED <<nextId, deferred, heard>>
      /\ shown' = runningCommandIds'
  BY DEF DetachAll, Without, Restrict, Notify
<1>2. shown' = {}
  BY <1>1 DEF runningCommandIds, CommandsOf
<1>3. TypeOK'
  BY <1>1, <1>2 DEF TypeOK, OsState
<1>4. TablesDisjoint' /\ EntryMatchesKernel'
  BY <1>1 DEF TablesDisjoint, EntryMatchesKernel, Ids
<1>5. SignalsMatchState' /\ ReportedOnce'
  BY <1>1 DEF SignalsMatchState, ReportedOnce, Ends, Ids
<1>6. NoLostChild' /\ StopIsFinal'
  BY <1>1 DEF NoLostChild, StopIsFinal, TypeOK, Unreaped
<1>7. QED
  BY <1>1, <1>3, <1>4, <1>5, <1>6 DEF BindingsFresh

-----------------------------------------------------------------------------
(* The event loop.  Concluding a run whose pid, if it has one, has just    *)
(* been reaped: both deferred failures and notifications end this way.     *)
LEMMA ConcludeIInv ==
  ASSUME IInv, NEW id \in DOMAIN processes, NEW kind \in {"finished", "failed"},
         Conclude(id, kind), UNCHANGED nextId,
         deferred' = deferred \/ deferred' = deferred \ {id},
         os' \in [Pids -> OsState],
         \A p \in Pids : os'[p] = IF p = processes[id].pid THEN "free" ELSE os[p]
  PROVE  IInv'
<1> USE DEF IInv
<1>1. /\ DOMAIN processes' = DOMAIN processes \ {id}
      /\ \A j \in DOMAIN processes' : processes'[j] = processes[j]
      /\ processes' \in [DOMAIN processes' -> Proc]
      /\ UNCHANGED external
      /\ killRequested' = killRequested \ {id}
      /\ shown' = runningCommandIds'
  BY DEF Conclude, Without, Restrict, TypeOK, Notify
<1>2. /\ heard' \in [RunIds -> [Signals -> Nat]]
      /\ \A j \in RunIds, s \in Signals :
           heard'[j][s] = IF s = kind /\ j = id THEN heard[j][s] + 1 ELSE heard[j][s]
  BY EmitFacts DEF Conclude, Signals
<1>3. shown' \subseteq Commands
  BY <1>1 DEF runningCommandIds, CommandsOf, TypeOK, Proc, ExternalProc
<1>4. TypeOK'
  BY <1>1, <1>2, <1>3 DEF TypeOK
<1>5. TablesDisjoint'
  BY <1>1 DEF TablesDisjoint, Ids
<1>6. ASSUME NEW j \in DOMAIN processes', processes[j].pid \in Pids
      PROVE  processes[j].pid # processes[id].pid
  BY <1>1, <1>6 DEF NoLostChild
<1>7. EntryMatchesKernel'
  BY <1>1, <1>6 DEF EntryMatchesKernel
<1>8. SignalsMatchState'
  BY <1>1, <1>2 DEF SignalsMatchState, Signals, TablesDisjoint, TypeOK, Ids
<1>9. ReportedOnce'
  <2>1. id \in RunIds /\ heard[id]["finished"] = 0 /\ heard[id]["failed"] = 0
    BY DEF ReportedOnce, Ends, Signals, TypeOK
  <2>2. Ends(id)' = 1
    BY <1>2, <2>1 DEF Ends, Signals
  <2>3. \A j \in RunIds \ {id} : Ends(j)' = Ends(j)
    BY <1>2 DEF Ends, Signals
  <2>4. \A j \in RunIds : heard'[j]["started"] = heard[j]["started"]
    BY <1>2 DEF Signals
  <2>5. id \notin DOMAIN processes' \cup DOMAIN external'
    BY <1>1 DEF TablesDisjoint
  <2>6. QED
    BY <1>1, <2>1, <2>2, <2>3, <2>4, <2>5 DEF ReportedOnce
<1>10. NoLostChild'
  <2>1. ASSUME NEW p \in Pids, os'[p] \in Unreaped
        PROVE  \E j \in DOMAIN processes' : processes'[j].pid = p
    BY <1>1, <2>1 DEF NoLostChild, Unreaped
  <2>2. QED
    BY <1>1, <2>1 DEF NoLostChild
<1>11. StopIsFinal'
  BY <1>1, <1>6 DEF StopIsFinal, TablesDisjoint
<1>12. QED
  BY <1>1, <1>4, <1>5, <1>7, <1>8, <1>9, <1>10, <1>11 DEF BindingsFresh

LEMMA DeferredFailureIInv ==
  ASSUME IInv, NEW id \in RunIds, DeferredFailure(id)
  PROVE  IInv'
<1> USE DEF IInv
<1>1. id \in deferred /\ deferred' = deferred \ {id} /\ UNCHANGED <<nextId, os>>
  BY DEF DeferredFailure
<1>2. CASE id \in DOMAIN processes \ killRequested
  <2>1. processes[id].pid = NoPid
    BY <1>1, <1>2 DEF EntryMatchesKernel
  <2>2. Conclude(id, "failed")
    BY <1>2 DEF DeferredFailure
  <2>3. QED
    BY <1>1, <1>2, <2>1, <2>2, ConcludeIInv DEF TypeOK
<1>3. CASE id \notin DOMAIN processes \ killRequested
  <2>1. UNCHANGED <<processes, external, killRequested, nextId, os, heard, shown>>
    BY <1>1, <1>3 DEF DeferredFailure
  <2>2. TypeOK' /\ TablesDisjoint' /\ EntryMatchesKernel' /\ SignalsMatchState'
    BY <1>1, <2>1 DEF TypeOK, TablesDisjoint, EntryMatchesKernel, SignalsMatchState, Ids
  <2>3. ReportedOnce' /\ StopIsFinal' /\ BindingsFresh'
    BY <2>1 DEF ReportedOnce, Ends, StopIsFinal, BindingsFresh, runningCommandIds
  <2>4. NoLostChild'
    BY <1>1, <1>3, <2>1 DEF NoLostChild
  <2>5. QED
    BY <2>2, <2>3, <2>4
<1>4. QED
  BY <1>2, <1>3

LEMMA StartNotificationIInv ==
  ASSUME IInv, NEW id \in RunIds, StartNotification(id)
  PROVE  IInv'
<1> USE DEF IInv
<1> DEFINE pid == processes[id].pid
<1>1. /\ id \in DOMAIN processes
      /\ processes[id].state = "Starting"
      /\ processes[id] \in Proc
      /\ pid \in Pids
      /\ os[pid] \in {"live"} \cup Unreaped
      /\ id \notin deferred
      /\ UNCHANGED <<nextId, deferred>>
  BY DEF StartNotification, EntryMatchesKernel, TypeOK
<1>2. CASE os[pid] = "noexec" /\ id \notin killRequested
  <2>1. os' = Reaped(id) /\ Conclude(id, "failed")
    BY <1>2 DEF StartNotification
  <2>2. /\ os' \in [Pids -> OsState]
        /\ \A p \in Pids : os'[p] = IF p = pid THEN "free" ELSE os[p]
    BY <1>1, <2>1 DEF Reaped, TypeOK, OsState
  <2>3. QED
    BY <1>1, <2>1, <2>2, ConcludeIInv
<1>3. CASE os[pid] = "noexec" /\ id \in killRequested
  <2>1. /\ os' = Reaped(id)
        /\ processes' = [processes EXCEPT ![id].pid = NoPid, ![id].state = "NotRunning"]
        /\ UNCHANGED <<external, killRequested, heard, shown>>
    BY <1>3 DEF StartNotification
  <2>2. /\ os' \in [Pids -> OsState]
        /\ \A p \in Pids : os'[p] = IF p = pid THEN "free" ELSE os[p]
    BY <1>1, <2>1 DEF Reaped, TypeOK, OsState
  <2>3. /\ DOMAIN processes' = DOMAIN processes
        /\ processes' \in [DOMAIN processes -> Proc]
        /\ processes'[id].pid = NoPid
        /\ processes'[id].state = "NotRunning"
        /\ processes'[id].command = processes[id].command
        /\ \A j \in DOMAIN processes \ {id} : processes'[j] = processes[j]
    BY <1>1, <2>1 DEF TypeOK, Proc, QState
  <2>4. \A j \in DOMAIN processes \ {id} : processes[j].pid # pid
    BY <1>1 DEF NoLostChild
  <2>5. TypeOK' /\ TablesDisjoint'
    BY <1>1, <2>1, <2>2, <2>3 DEF TypeOK, TablesDisjoint, Ids
  <2>6. EntryMatchesKernel'
    BY <1>1, <2>2, <2>3, <2>4 DEF EntryMatchesKernel
  <2>7. SignalsMatchState' /\ ReportedOnce'
    BY <1>1, <2>1, <2>3 DEF SignalsMatchState, ReportedOnce, Ends, Ids
  <2>8. NoLostChild'
    <3>1. ASSUME NEW p \in Pids, os'[p] \in Unreaped
          PROVE  \E j \in DOMAIN processes' : processes'[j].pid = p
      BY <2>2, <2>3, <3>1 DEF NoLostChild, Unreaped
    <3>2. QED
      BY <1>1, <1>3, <2>1, <2>3, <3>1 DEF NoLostChild
  <2>9. StopIsFinal'
    BY <2>1, <2>2, <2>3, <2>4 DEF StopIsFinal
  <2>10. BindingsFresh'
    <3>1. \A j \in DOMAIN processes : processes'[j].command = processes[j].command
      BY <2>3
    <3>2. CommandsOf(processes') = CommandsOf(processes)
      BY <2>3, <3>1 DEF CommandsOf
    <3>3. QED
      BY <2>1, <3>2 DEF BindingsFresh, runningCommandIds
  <2>11. QED
    BY <2>5, <2>6, <2>7, <2>8, <2>9, <2>10
<1>4. CASE os[pid] # "noexec"
  <2>1. /\ processes' = [processes EXCEPT ![id].state = "Running"]
        /\ Emit("started", {id})
        /\ UNCHANGED <<external, killRequested, os>>
        /\ shown' = runningCommandIds'
    BY <1>4 DEF StartNotification, Notify
  <2>2. /\ DOMAIN processes' = DOMAIN processes
        /\ processes' \in [DOMAIN processes -> Proc]
        /\ processes'[id].pid = pid
        /\ processes'[id].state = "Running"
        /\ \A j \in DOMAIN processes \ {id} : processes'[j] = processes[j]
    BY <1>1, <2>1 DEF TypeOK, Proc, QState
  <2>3. /\ heard' \in [RunIds -> [Signals -> Nat]]
        /\ \A j \in RunIds, s \in Signals :
             heard'[j][s] = IF s = "started" /\ j = id THEN heard[j][s] + 1 ELSE heard[j][s]
    BY <2>1, EmitFacts DEF Signals
  <2>4. shown' \subseteq Commands
    BY <2>1, <2>2 DEF runningCommandIds, CommandsOf, TypeOK, Proc, ExternalProc
  <2>5. TypeOK' /\ TablesDisjoint'
    BY <1>1, <2>1, <2>2, <2>3, <2>4 DEF TypeOK, TablesDisjoint, Ids
  <2>6. EntryMatchesKernel'
    BY <1>1, <1>4, <2>1, <2>2 DEF EntryMatchesKernel, Unreaped
  <2>7. heard[id]["started"] = 0
    BY <1>1 DEF SignalsMatchState
  <2>8. SignalsMatchState'
    BY <1>1, <2>1, <2>2, <2>3, <2>7 DEF SignalsMatchState, TablesDisjoint, Signals, Ids
  <2>9. ReportedOnce'
    BY <1>1, <2>1, <2>2, <2>3, <2>7 DEF ReportedOnce, Ends, Signals
  <2>10. NoLostChild'
    BY <1>1, <2>1, <2>2 DEF NoLostChild
  <2>11. StopIsFinal'
    BY <2>1, <2>2 DEF StopIsFinal
  <2>12. QED
    BY <2>1, <2>5, <2>6, <2>8, <2>9, <2>10, <2>11 DEF BindingsFresh
<1>5. QED
  BY <1>2, <1>3, <1>4

LEMMA DeathNotificationIInv ==
  ASSUME IInv, NEW id \in RunIds, DeathNotification(id)
  PROVE  IInv'
<1> USE DEF IInv
<1>1. /\ id \in DOMAIN processes
      /\ os' = Reaped(id)
      /\ UNCHANGED <<nextId, deferred>>
      /\ \E kind \in {"finished", "failed"} : Conclude(id, kind)
  BY DEF DeathNotification
<1>2. processes[id].pid \in Pids
  BY <1>1 DEF DeathNotification, EntryMatchesKernel
<1>3. /\ os' \in [Pids -> OsState]
      /\ \A p \in Pids : os'[p] = IF p = processes[id].pid THEN "free" ELSE os[p]
  BY <1>1, <1>2 DEF Reaped, TypeOK, OsState
<1>4. QED
  BY <1>1, <1>3, ConcludeIInv

-----------------------------------------------------------------------------
(* The kernel.                                                             *)
LEMMA KernelIInv ==
  ASSUME IInv, NEW p \in Pids, NEW st \in OsState, Kernel(p, st),
         \/ os[p] = "forked" /\ st \in {"live", "noexec"}
         \/ os[p] = "live" /\ st \in {"exited", "signalled"}
         \/ os[p] = "free" /\ st \in Foreign
         \/ os[p] \in Foreign /\ st = "free"
  PROVE  IInv'
<1> USE DEF IInv
<1>1. UNCHANGED <<processes, external, killRequested, nextId, deferred, heard, shown>>
  BY DEF Kernel
<1>2. /\ os' \in [Pids -> OsState]
      /\ \A q \in Pids \ {p} : os'[q] = os[q]
      /\ os'[p] = IF st \in Unreaped /\ p \notin HeldPids THEN "free" ELSE st
  BY DEF Kernel, TypeOK, OsState
<1>3. TypeOK' /\ TablesDisjoint' /\ SignalsMatchState' /\ ReportedOnce' /\ BindingsFresh'
  BY <1>1, <1>2 DEF TypeOK, TablesDisjoint, SignalsMatchState, ReportedOnce, Ends, Ids,
                    BindingsFresh, runningCommandIds
<1>4. EntryMatchesKernel'
  <2>1. ASSUME NEW id \in DOMAIN processes, processes[id].pid = p
        PROVE  /\ p \in HeldPids
               /\ os[p] \in {"forked", "live"}
    BY <2>1 DEF HeldPids, EntryMatchesKernel, TypeOK, Proc, QState, Unreaped, Foreign
  <2>2. QED
    BY <1>1, <1>2, <2>1 DEF EntryMatchesKernel, Unreaped, Foreign
<1>5. NoLostChild'
  BY <1>1, <1>2 DEF NoLostChild, HeldPids, Unreaped, Foreign
<1>6. StopIsFinal'
  <2>1. ASSUME NEW id \in killRequested, processes[id].pid = p
        PROVE  os[p] \notin {"forked", "free"}
    BY <2>1 DEF StopIsFinal, EntryMatchesKernel, TypeOK, Proc, QState, Unreaped, Foreign
  <2>2. QED
    BY <1>1, <1>2, <2>1 DEF StopIsFinal, Foreign
<1>7. QED
  BY <1>3, <1>4, <1>5, <1>6

-----------------------------------------------------------------------------
LEMMA InitIInv == Init => IInv
<1> SUFFICES ASSUME Init PROVE IInv
  OBVIOUS
<1> USE DEF Init
<1>1. TypeOK
  BY DEF TypeOK, OsState, Foreign, Signals
<1>2. TablesDisjoint /\ EntryMatchesKernel /\ SignalsMatchState /\ ReportedOnce
  BY DEF TablesDisjoint, EntryMatchesKernel, SignalsMatchState, ReportedOnce, Ends, Ids, Signals
<1>3. NoLostChild /\ StopIsFinal
  BY DEF NoLostChild, StopIsFinal, Unreaped, Foreign
<1>4. BindingsFresh
  BY DEF BindingsFresh, runningCommandIds, CommandsOf
<1>5. QED
  BY <1>1, <1>2, <1>3, <1>4 DEF IInv

LEMMA NextIInv == IInv /\ [Next]_vars => IInv'
<1> SUFFICES ASSUME IInv, [Next]_vars PROVE IInv'
  OBVIOUS
<1>1. ASSUME NEW c \in Commands \cup {NoCommand}, RunNeverStarted(c) \/ RunForked(c) \/ RunForkFails(c)
      PROVE  IInv'
  BY <1>1, RunNeverStartedIInv, RunForkedIInv, RunForkFailsIInv
<1>2. ASSUME NEW id \in RunIds, Stop(id) PROVE IInv'
  BY <1>2, StopRunsIInv DEF Stop
<1>3. ASSUME NEW c \in Commands, StopCommand(c) PROVE IInv'
  BY <1>3, StopRunsIInv DEF StopCommand
<1>4. CASE KillAll
  BY <1>4, StopRunsIInv DEF KillAll
<1>5. ASSUME NEW p \in Pids, NEW c \in Commands, AdoptExternal(p, c) PROVE IInv'
  BY <1>5, AdoptExternalIInv
<1>6. CASE DetachAll
  BY <1>6, DetachAllIInv
<1>7. ASSUME NEW id \in RunIds, EventLoop(id) PROVE IInv'
  BY <1>7, DeferredFailureIInv, StartNotificationIInv, DeathNotificationIInv DEF EventLoop
<1>8. ASSUME NEW p \in Pids, KillExternal(p) \/ Exec(p) \/ Exit(p) \/ StrangerComes(p) \/ StrangerGoes(p)
      PROVE  IInv'
  <2>1. PICK st \in OsState :
          /\ Kernel(p, st)
          /\ \/ os[p] = "forked" /\ st \in {"live", "noexec"}
             \/ os[p] = "live" /\ st \in {"exited", "signalled"}
             \/ os[p] = "free" /\ st \in Foreign
             \/ os[p] \in Foreign /\ st = "free"
    BY <1>8 DEF KillExternal, Exec, Exit, StrangerComes, StrangerGoes, OsState, Unreaped, Foreign
  <2>2. QED
    BY <2>1, KernelIInv
<1>9. CASE UNCHANGED vars
  BY <1>9 DEF vars, IInv, TypeOK, TablesDisjoint, EntryMatchesKernel, SignalsMatchState, Ids,
              ReportedOnce, Ends, NoLostChild, StopIsFinal, BindingsFresh, runningCommandIds
<1>10. QED
  BY <1>1, <1>2, <1>3, <1>4, <1>5, <1>6, <1>7, <1>8, <1>9 DEF Next, User, System

(* The inductive invariant holds in every reachable state: tables, signals *)
(* and the kernel's process table stay in step under every interleaving of *)
(* user, event loop and kernel.                                            *)
THEOREM InductiveInvariant == Spec => []IInv
<1>1. Init => IInv
  BY InitIInv
<1>2. IInv /\ [Next]_vars => IInv'
  BY NextIInv
<1>3. QED
  BY <1>1, <1>2, PTL DEF Spec

(* Type correctness of the process table.                                  *)
THEOREM TypeCorrect == Spec => []TypeOK
<1>1. IInv => TypeOK
  BY DEF IInv
<1>2. QED
  BY <1>1, InductiveInvariant, PTL

(* No id is ever reported as over twice, nor while still in the table.     *)
THEOREM EveryRunReportedOnce == Spec => []ReportedOnce
<1>1. IInv => ReportedOnce
  BY DEF IInv
<1>2. QED
  BY <1>1, InductiveInvariant, PTL

(* No dead child is left without an entry that will reap and report it.    *)
THEOREM NoChildLost == Spec => []NoLostChild
<1>1. IInv => NoLostChild
  BY DEF IInv
<1>2. QED
  BY <1>1, InductiveInvariant, PTL

(* From stop() on, the program of the stopped run does not run any more.   *)
THEOREM StoppedRunsAreDead == Spec => []StopIsFinal
<1>1. IInv => StopIsFinal
  BY DEF IInv
<1>2. QED
  BY <1>1, InductiveInvariant, PTL

(* No change to the tables escapes the bindings on runningCommandIds.      *)
THEOREM BindingsAlwaysFresh == Spec => []BindingsFresh
<1>1. IInv => BindingsFresh
  BY DEF IInv
<1>2. QED
  BY <1>1, InductiveInvariant, PTL

-----------------------------------------------------------------------------
(* A single-instance command: nothing but a launch adds a live program to  *)
(* it, and that launch stops all the others in the same handler.           *)
LEMMA AliveFacts ==
  ASSUME IInv, NEW ids, os' = [p \in Pids |-> os'[p]],
         \A p \in Pids : os'[p] = AfterKill(ids)[p]
                         \/ (\A id \in DOMAIN processes : processes[id].pid # p)
  PROVE  \A id \in DOMAIN processes :
           processes[id].pid \in Pids /\ os'[processes[id].pid] \in {"forked", "live"} =>
             Alive(id) /\ id \notin ids
<1>1. SUFFICES ASSUME NEW id \in DOMAIN processes, processes[id].pid \in Pids,
                      os'[processes[id].pid] \in {"forked", "live"}
               PROVE  Alive(id) /\ id \notin ids
  OBVIOUS
<1>2. os'[processes[id].pid] = AfterKill(ids)[processes[id].pid]
  BY <1>1
<1>3. QED
  BY <1>1, <1>2, AfterKillFacts DEF IInv, Alive

LEMMA LaunchSingle ==
  ASSUME IInv, SingleInstance, NEW c \in Commands \cup {NoCommand}, NEW S \in StoppedFirst(c),
         NEW entry \in Proc, entry.command = c, Launch(S, entry),
         deferred' \subseteq deferred \cup {nextId}, os' \in [Pids -> OsState],
         \A p \in Pids : os'[p] = AfterKill(S)[p]
                         \/ (\A id \in DOMAIN processes : processes[id].pid # p)
  PROVE  SingleInstance'
<1>1. /\ nextId \in RunIds
      /\ DOMAIN processes' = DOMAIN processes \cup {nextId}
      /\ processes'[nextId] = entry
      /\ nextId \notin DOMAIN processes
      /\ \A id \in DOMAIN processes : processes'[id] = processes[id]
  BY LaunchTables
<1>2. /\ DOMAIN external' = DOMAIN external \ S
      /\ \A id \in DOMAIN external' : external'[id] = external[id]
  BY DEF Launch, Stopped, Without, Restrict
<1>3. \A id \in DOMAIN processes : Alive(id)' => Alive(id) /\ id \notin S
  BY <1>1, AliveFacts DEF Alive
<1>4. SUFFICES ASSUME NEW d \in Single, NEW id \in Of(processes, d)', Alive(id)'
               PROVE  /\ \A other \in Of(processes, d)' : Alive(other)' => other = id
                      /\ Of(external, d)' = {}
  BY DEF SingleInstance
<1>5. CASE d = c
  <2>1. S = RunsOf(c)
    BY <1>5 DEF StoppedFirst
  <2>2. \A j \in DOMAIN processes : processes[j].command = c => ~Alive(j)'
    BY <1>3, <2>1 DEF RunsOf, Of
  <2>3. Of(external, d)' = {}
    BY <1>2, <1>5, <2>1 DEF RunsOf, Of
  <2>4. \A j \in Of(processes, d)' : Alive(j)' => j = nextId
    BY <1>1, <1>5, <2>2 DEF Of
  <2>5. QED
    BY <1>4, <2>3, <2>4
<1>6. CASE d # c
  <2>1. Of(processes, d)' = Of(processes, d)
    BY <1>1, <1>6 DEF Of
  <2>2. Of(external, d)' \subseteq Of(external, d)
    BY <1>2 DEF Of
  <2>3. QED
    BY <1>3, <1>4, <2>1, <2>2 DEF SingleInstance, Of
<1>7. QED
  BY <1>5, <1>6

(* Steps that launch nothing: runs only leave the tables or die.           *)
LEMMA ShrinkSingle ==
  ASSUME SingleInstance,
         \A c \in Single : Of(processes, c)' \subseteq Of(processes, c)
                           /\ Of(external, c)' \subseteq Of(external, c),
         \A id \in DOMAIN processes' : Alive(id)' => Alive(id)
  PROVE  SingleInstance'
<1>1. SUFFICES ASSUME NEW c \in Single, NEW id \in Of(processes, c)', Alive(id)'
               PROVE  /\ \A other \in Of(processes, c)' : Alive(other)' => other = id
                      /\ Of(external, c)' = {}
  BY DEF SingleInstance
<1>2. \A j \in Of(processes, c)' : j \in DOMAIN processes'
  BY DEF Of
<1>3. QED
  BY <1>1, <1>2 DEF SingleInstance

LEMMA NextSingle == IInv /\ SingleInstance /\ [Next]_vars => SingleInstance'
<1> SUFFICES ASSUME IInv, SingleInstance, [Next]_vars PROVE SingleInstance'
  OBVIOUS
<1>1. ASSUME NEW c \in Commands \cup {NoCommand}, RunNeverStarted(c) PROVE SingleInstance'
  <2>1. PICK S \in StoppedFirst(c) :
          /\ Launch(S, [command |-> c, pid |-> NoPid, state |-> "NotRunning"])
          /\ deferred' = deferred \cup {nextId}
          /\ os' = AfterKill(S)
    BY <1>1 DEF RunNeverStarted
  <2>2. os' \in [Pids -> OsState]
    BY <2>1, AfterKillFacts DEF IInv
  <2>3. QED
    BY <2>1, <2>2, LaunchSingle DEF Proc, QState
<1>2. ASSUME NEW c \in Commands \cup {NoCommand}, RunForked(c) PROVE SingleInstance'
  <2>1. PICK S \in StoppedFirst(c), q \in Pids :
          /\ os[q] = "free"
          /\ Launch(S, [command |-> c, pid |-> q, state |-> "Starting"])
          /\ deferred' = deferred
          /\ os' = [AfterKill(S) EXCEPT ![q] = "forked"]
    BY <1>2 DEF RunForked
  <2>2. /\ os' \in [Pids -> OsState]
        /\ \A p \in Pids \ {q} : os'[p] = AfterKill(S)[p]
    BY <2>1, AfterKillFacts DEF IInv, OsState
  <2>3. \A id \in DOMAIN processes : processes[id].pid # q
    BY <2>1 DEF IInv, EntryMatchesKernel, TypeOK, Proc, QState, Unreaped
  <2>4. QED
    BY <2>1, <2>2, <2>3, LaunchSingle DEF Proc, QState
<1>3. ASSUME NEW c \in Commands \cup {NoCommand}, RunForkFails(c) PROVE SingleInstance'
  <2>1. PICK S : Stopped(S) /\ os' = AfterKill(S) /\ UNCHANGED processes
    BY <1>3 DEF RunForkFails
  <2>2. \A id \in DOMAIN processes : Alive(id)' => Alive(id)
    BY <2>1, AfterKillFacts DEF Alive, IInv
  <2>3. \A c1 \in Single : Of(external, c1)' \subseteq Of(external, c1)
    BY <2>1 DEF Stopped, Without, Restrict, Of
  <2>4. QED
    BY <2>1, <2>2, <2>3, ShrinkSingle DEF Of
<1>4. ASSUME NEW ids, StopRuns(ids) PROVE SingleInstance'
  <2>1. Stopped(ids) /\ os' = AfterKill(ids) /\ UNCHANGED processes
    BY <1>4 DEF StopRuns
  <2>2. \A id \in DOMAIN processes : Alive(id)' => Alive(id)
    BY <2>1, AfterKillFacts DEF Alive, IInv
  <2>3. \A c1 \in Single : Of(external, c1)' \subseteq Of(external, c1)
    BY <2>1 DEF Stopped, Without, Restrict, Of
  <2>4. QED
    BY <2>1, <2>2, <2>3, ShrinkSingle DEF Of
<1>5. ASSUME NEW p \in Pids, NEW c \in Commands, AdoptExternal(p, c) PROVE SingleInstance'
  <2>1. DOMAIN processes = {} /\ UNCHANGED processes
    BY <1>5 DEF AdoptExternal, IInv, TablesDisjoint, Ids
  <2>2. QED
    BY <2>1 DEF SingleInstance, Of
<1>6. ASSUME DetachAll PROVE SingleInstance'
  BY <1>6 DEF DetachAll, Without, Restrict, SingleInstance, Of
<1>7. ASSUME NEW id \in RunIds, NEW kind \in Signals, Conclude(id, kind),
             \A p \in Pids : os'[p] \in {"forked", "live"} => os[p] \in {"forked", "live"}
      PROVE  SingleInstance'
  <2>1. /\ DOMAIN processes' = DOMAIN processes \ {id}
        /\ \A j \in DOMAIN processes' : processes'[j] = processes[j]
        /\ UNCHANGED external
    BY <1>7 DEF Conclude, Without, Restrict
  <2>2. QED
    BY <1>7, <2>1, ShrinkSingle DEF Of, Alive
<1>8. ASSUME NEW id \in RunIds, EventLoop(id) PROVE SingleInstance'
  <2>1. CASE DeferredFailure(id)
    <3>1. CASE Conclude(id, "failed")
      BY <1>7, <2>1, <3>1 DEF DeferredFailure, Signals
    <3>2. CASE UNCHANGED <<processes, external, os>>
      BY <3>2 DEF SingleInstance, Of, Alive
    <3>3. QED
      BY <2>1, <3>1, <3>2 DEF DeferredFailure
  <2>2. CASE StartNotification(id)
    <3>0. id \in DOMAIN processes /\ processes[id].pid \in Pids /\ processes[id] \in Proc
      BY <2>2 DEF StartNotification, IInv, EntryMatchesKernel, TypeOK
    <3>1. \A p \in Pids : os'[p] \in {"forked", "live"} => os[p] \in {"forked", "live"}
      BY <2>2, <3>0 DEF StartNotification, Reaped, IInv, TypeOK
    <3>2. CASE Conclude(id, "failed")
      BY <1>7, <3>1, <3>2 DEF Signals
    <3>3. CASE ~Conclude(id, "failed")
      <4>1. /\ DOMAIN processes' = DOMAIN processes
            /\ UNCHANGED external
            /\ \A j \in DOMAIN processes :
                 /\ processes'[j].command = processes[j].command
                 /\ processes'[j].pid \in {processes[j].pid, NoPid}
        <5>1. processes \in [DOMAIN processes -> Proc]
          BY DEF IInv, TypeOK
        <5>2. CASE os[processes[id].pid] = "noexec"
          <6>1. /\ processes' = [processes EXCEPT ![id].pid = NoPid, ![id].state = "NotRunning"]
                /\ UNCHANGED external
            BY <2>2, <3>3, <5>2 DEF StartNotification
          <6>2. QED
            BY <3>0, <5>1, <6>1 DEF Proc
        <5>3. CASE os[processes[id].pid] # "noexec"
          <6>1. /\ processes' = [processes EXCEPT ![id].state = "Running"]
                /\ UNCHANGED external
            BY <2>2, <5>3 DEF StartNotification
          <6>2. QED
            BY <3>0, <5>1, <6>1 DEF Proc
        <5>4. QED
          BY <5>2, <5>3
      <4>2. \A c \in Single : Of(processes, c)' = Of(processes, c) /\ Of(external, c)' = Of(external, c)
        BY <4>1 DEF Of
      <4>3. \A j \in DOMAIN processes' : Alive(j)' => Alive(j)
        BY <3>1, <4>1 DEF Alive
      <4>4. QED
        BY <4>2, <4>3, ShrinkSingle
    <3>4. QED
      BY <3>2, <3>3
  <2>3. CASE DeathNotification(id)
    <3>1. \A p \in Pids : os'[p] \in {"forked", "live"} => os[p] \in {"forked", "live"}
      BY <2>3 DEF DeathNotification, Reaped, IInv, TypeOK
    <3>2. QED
      BY <1>7, <2>3, <3>1 DEF DeathNotification, Signals
  <2>4. QED
    BY <1>8, <2>1, <2>2, <2>3 DEF EventLoop
<1>9. ASSUME NEW p \in Pids, NEW st, Kernel(p, st), os[p] \notin {"forked", "live"} => st \notin {"forked", "live"}
      PROVE  SingleInstance'
  <2>1. UNCHANGED <<processes, external>>
    BY <1>9 DEF Kernel
  <2>2. \A q \in Pids : os'[q] \in {"forked", "live"} => os[q] \in {"forked", "live"}
    BY <1>9 DEF Kernel, IInv, TypeOK
  <2>3. QED
    BY <2>1, <2>2, ShrinkSingle DEF Of, Alive
<1>10. ASSUME NEW p \in Pids, KillExternal(p) \/ Exec(p) \/ Exit(p) \/ StrangerComes(p) \/ StrangerGoes(p)
       PROVE  SingleInstance'
  BY <1>9, <1>10 DEF KillExternal, Exec, Exit, StrangerComes, StrangerGoes, Foreign
<1>11. CASE UNCHANGED vars
  BY <1>11 DEF vars, SingleInstance, Of, Alive
<1>12. QED
  BY <1>1, <1>2, <1>3, <1>4, <1>5, <1>6, <1>8, <1>10, <1>11
     DEF Next, User, System, Stop, StopCommand, KillAll

(* A command that may not run several times never has two live programs of *)
(* this session, nor a live one beside an adopted one.                     *)
THEOREM AtMostOneInstance == Spec => []SingleInstance
<1>1. Init => SingleInstance
  BY DEF Init, SingleInstance, Of
<1>2. IInv /\ SingleInstance /\ [Next]_vars => SingleInstance'
  BY NextSingle
<1>3. QED
  BY <1>1, <1>2, InductiveInvariant, PTL DEF Spec

-----------------------------------------------------------------------------
(* Ends are real: the signals that leave every own run's end counts alone, *)
(* and those that conclude one whose program is gone.                      *)
RealEnds == \A id \in DOMAIN processes : Ends(id)' > Ends(id) => ~Alive(id)

LEMMA QuietSignals ==
  ASSUME TypeOK, UNCHANGED heard
  PROVE  RealEnds
<1>1. \A id \in DOMAIN processes : Ends(id)' = Ends(id) /\ Ends(id) \in Nat
  BY DEF TypeOK, Ends, Signals
<1>2. QED
  BY <1>1 DEF RealEnds

LEMMA SignalsElsewhere ==
  ASSUME TypeOK, NEW kind \in Signals, NEW S, Emit(kind, S),
         kind = "started" \/ S \cap DOMAIN processes \subseteq {id \in RunIds : ~Alive(id)}
  PROVE  RealEnds
<1>1. \A id \in RunIds, s \in Signals :
        heard'[id][s] = IF s = kind /\ id \in S THEN heard[id][s] + 1 ELSE heard[id][s]
  BY EmitFacts
<1>2. \A id \in DOMAIN processes :
        id \in RunIds /\ heard[id]["finished"] \in Nat /\ heard[id]["failed"] \in Nat
  BY DEF TypeOK, Signals
<1>3. ASSUME NEW id \in DOMAIN processes, Alive(id) PROVE ~(Ends(id)' > Ends(id))
  <2>1. kind = "started" \/ id \notin S
    BY <1>2, <1>3
  <2>2. Ends(id)' = Ends(id)
    BY <1>1, <1>2, <2>1 DEF Ends, Signals
  <2>3. QED
    BY <1>2, <2>2 DEF Ends
<1>4. QED
  BY <1>3 DEF RealEnds

LEMMA NextRealEnds == IInv /\ [Next]_vars => RealEnds
<1> SUFFICES ASSUME IInv, [Next]_vars PROVE RealEnds
  OBVIOUS
<1> USE DEF IInv
<1>1. \A ids : ids \cap DOMAIN external \cap DOMAIN processes = {}
  BY DEF TablesDisjoint
<1>2. ASSUME NEW c \in Commands \cup {NoCommand}, RunNeverStarted(c) \/ RunForked(c)
      PROVE  RealEnds
  <2>1. PICK S : Emit("finished", S \cap DOMAIN external)
    BY <1>2 DEF RunNeverStarted, RunForked, Launch
  <2>2. QED
    BY <1>1, <2>1, SignalsElsewhere DEF Signals
<1>3. ASSUME NEW c \in Commands \cup {NoCommand}, RunForkFails(c) PROVE RealEnds
  <2>1. PICK S : heard' = [id \in RunIds |-> [s \in Signals |->
                             IF \/ s = "failed" /\ id = nextId
                                \/ s = "finished" /\ id \in S \cap DOMAIN external
                             THEN heard[id][s] + 1 ELSE heard[id][s]]]
    BY <1>3 DEF RunForkFails
  <2>2. \A id \in DOMAIN processes : id \in RunIds /\ id # nextId /\ id \notin S \cap DOMAIN external
    BY <1>1 DEF TypeOK, TablesDisjoint, Ids
  <2>3. \A id \in DOMAIN processes : heard'[id] = heard[id]
    BY <2>1, <2>2 DEF TypeOK
  <2>4. \A id \in DOMAIN processes : Ends(id)' = Ends(id) /\ Ends(id) \in Nat
    BY <2>3 DEF Ends, TypeOK, Signals
  <2>5. QED
    BY <2>4 DEF RealEnds
<1>4. ASSUME NEW ids, StopRuns(ids) PROVE RealEnds
  BY <1>1, <1>4, SignalsElsewhere DEF StopRuns, Signals
<1>5. ASSUME NEW id \in RunIds, EventLoop(id) PROVE RealEnds
  <2>1. CASE DeferredFailure(id)
    <3>1. CASE Conclude(id, "failed")
      <4>1. id \in DOMAIN processes => ~Alive(id)
        BY <2>1, ConstantsAssumption DEF DeferredFailure, EntryMatchesKernel, Alive
      <4>2. QED
        BY <3>1, <4>1, SignalsElsewhere DEF Conclude, Signals
    <3>2. QED
      BY <2>1, <3>1, QuietSignals DEF DeferredFailure
  <2>2. CASE StartNotification(id)
    <3>1. CASE os[processes[id].pid] = "noexec"
      BY <2>2, <3>1, QuietSignals, SignalsElsewhere
         DEF StartNotification, Conclude, Signals, Alive
    <3>2. CASE os[processes[id].pid] # "noexec"
      BY <2>2, <3>2, SignalsElsewhere DEF StartNotification, Signals
    <3>3. QED
      BY <3>1, <3>2
  <2>3. CASE DeathNotification(id)
    <3>1. ~Alive(id)
      BY <2>3 DEF DeathNotification, Alive
    <3>2. QED
      BY <2>3, <3>1, SignalsElsewhere DEF DeathNotification, Conclude, Signals
  <2>4. QED
    BY <1>5, <2>1, <2>2, <2>3 DEF EventLoop
<1>6. ASSUME UNCHANGED heard PROVE RealEnds
  BY <1>6, QuietSignals
<1>7. ASSUME NEW p \in Pids, KillExternal(p) \/ Exec(p) \/ Exit(p) \/ StrangerComes(p) \/ StrangerGoes(p)
      PROVE  RealEnds
  BY <1>6, <1>7 DEF KillExternal, Exec, Exit, StrangerComes, StrangerGoes, Kernel
<1>8. QED
  BY <1>2, <1>3, <1>4, <1>5, <1>6, <1>7
     DEF Next, User, System, Stop, StopCommand, KillAll, AdoptExternal, DetachAll, vars

(* No run is reported as over while its program runs.                      *)
THEOREM OnlyRealEnds == Spec => EndsAreReal
<1>1. IInv /\ [Next]_vars => [RealEnds]_vars
  BY NextRealEnds
<1>2. QED
  BY <1>1, InductiveInvariant, PTL DEF Spec, EndsAreReal, RealEnds


-----------------------------------------------------------------------------
(* CommandExecutor implements RunLifecycle: the phases its listeners can   *)
(* tell apart only ever move along the steps of the abstract life cycle.   *)

(* How the phase of a run follows from the tables alone.                   *)
PhaseReadOff(id) ==
  /\ \A s \in Signals : heard[id][s] \in Nat
  /\ heard[id]["failed"] > 0 => PhaseOf[id] = "failed"
  /\ heard[id]["finished"] > 0 => PhaseOf[id] = "finished"
  /\ id \in DOMAIN external => PhaseOf[id] = "up"
  /\ id \in DOMAIN processes =>
       PhaseOf[id] = IF id \in killRequested THEN "stopping"
                     ELSE IF processes[id].state = "Running" THEN "up" ELSE "pending"
  /\ id \in DOMAIN external \cup DOMAIN processes =>
       heard[id]["finished"] = 0 /\ heard[id]["failed"] = 0
  /\ ~(heard[id]["finished"] > 0 /\ heard[id]["failed"] > 0)
  /\ id \notin DOMAIN external \cup DOMAIN processes
       /\ heard[id]["finished"] = 0 /\ heard[id]["failed"] = 0 =>
       PhaseOf[id] = IF id < nextId THEN "left" ELSE "none"
  /\ id >= nextId => PhaseOf[id] = "none"
  /\ id \in DOMAIN external \cap DOMAIN processes => FALSE
  /\ id \in killRequested => id \in DOMAIN processes
  /\ nextId \in Nat

LEMMA PhaseFromTables == IInv => \A id \in RunIds : PhaseReadOff(id)
<1> SUFFICES ASSUME IInv, NEW id \in RunIds PROVE PhaseReadOff(id)
  OBVIOUS
<1> USE DEF IInv
<1>1. \A s \in Signals : heard[id][s] \in Nat
  BY DEF TypeOK
<1>2. Ends(id) <= 1 /\ (id \in DOMAIN processes \cup DOMAIN external => Ends(id) = 0)
  BY DEF ReportedOnce
<1>3. /\ id \in killRequested => id \in DOMAIN processes
      /\ id \in DOMAIN external => id \notin DOMAIN processes
      /\ id \in DOMAIN external \cup DOMAIN processes => id \in Ids
  BY DEF TablesDisjoint
<1>4. /\ id \in DOMAIN processes =>
           heard[id]["started"] = IF processes[id].state = "Running" THEN 1 ELSE 0
      /\ id \notin Ids => \A s \in Signals : heard[id][s] = 0
  BY DEF SignalsMatchState
<1>5. nextId \in Nat
  BY DEF TypeOK
<1>6. id >= nextId => PhaseOf[id] = "none"
  BY <1>1, <1>3, <1>4, <1>5 DEF PhaseOf, Ids, RunIds, Signals
<1>7. QED
  BY <1>1, <1>2, <1>3, <1>4, <1>5, <1>6 DEF PhaseReadOff, PhaseOf, Ends, Signals

LEMMA PhaseFromTablesNext == IInv' => (\A id \in RunIds : PhaseReadOff(id))'
BY PhaseFromTables, PTL

(* The move a run makes, without the tuples of the abstract step relation. *)
Moves(id) == PhaseOf'[id] = PhaseOf[id] \/ <<PhaseOf[id], PhaseOf'[id]>> \in Lifecycle!Steps

LEMMA StopMoves ==
  ASSUME IInv, IInv', NEW ids, NEW id \in RunIds,
         killRequested' = killRequested \cup (ids \cap DOMAIN processes),
         external' = Without(external, ids),
         Emit("finished", ids \cap DOMAIN external),
         id \in DOMAIN processes' <=> id \in DOMAIN processes,
         id \in DOMAIN processes => processes'[id] = processes[id],
         id < nextId => id < nextId',
         id >= nextId => id >= nextId'
  PROVE  Moves(id)
<1>1. PhaseReadOff(id) /\ PhaseReadOff(id)'
  BY PhaseFromTables, PhaseFromTablesNext
<1>2. \A s \in Signals :
        heard'[id][s] = IF s = "finished" /\ id \in ids \cap DOMAIN external
                        THEN heard[id][s] + 1 ELSE heard[id][s]
  BY EmitFacts DEF IInv, Signals
<1>3. id \in DOMAIN external' <=> id \in DOMAIN external /\ id \notin ids
  BY DEF Without, Restrict
<1>4. CASE id \in DOMAIN external \cap ids
  <2>1. PhaseOf[id] = "up" /\ PhaseOf'[id] = "finished"
    BY <1>1, <1>2, <1>4 DEF PhaseReadOff, Signals
  <2>2. QED
    BY <2>1 DEF Moves, Lifecycle!Steps
<1>5. CASE id \in DOMAIN external \ ids
  BY <1>1, <1>3, <1>5 DEF PhaseReadOff, Moves
<1>6. CASE id \in DOMAIN processes
  <2>1. /\ PhaseOf[id] \in {"pending", "up", "stopping"}
        /\ PhaseOf'[id] = PhaseOf[id] \/ PhaseOf'[id] = "stopping"
    BY <1>1, <1>6 DEF PhaseReadOff
  <2>2. QED
    BY <2>1 DEF Moves, Lifecycle!Steps
<1>7. CASE id \notin DOMAIN processes \cup DOMAIN external
  <2>1. /\ \A s \in Signals : heard'[id][s] = heard[id][s]
        /\ id \notin DOMAIN processes' \cup DOMAIN external'
    BY <1>2, <1>3, <1>7
  <2>2. QED
    BY <1>1, <1>7, <2>1 DEF PhaseReadOff, Moves, Signals, RunIds
<1>8. QED
  BY <1>4, <1>5, <1>6, <1>7

LEMMA LaunchMoves ==
  ASSUME IInv, IInv', NEW S, NEW entry \in Proc, entry.state # "Running", Launch(S, entry),
         deferred' \subseteq deferred \cup {nextId}, NEW id \in RunIds
  PROVE  Moves(id)
<1>1. PhaseReadOff(id) /\ PhaseReadOff(id)'
  BY PhaseFromTables, PhaseFromTablesNext
<1>0. nextId' = nextId + 1 /\ nextId \in Nat
  BY <1>1 DEF Launch, TakeId, PhaseReadOff
<1>2. /\ DOMAIN processes' = DOMAIN processes \cup {nextId}
      /\ processes'[nextId] = entry
      /\ nextId \notin killRequested'
      /\ \A j \in DOMAIN processes : processes'[j] = processes[j]
  BY LaunchTables
<1>3. CASE id = nextId
  <2>1. PhaseOf[id] = "none" /\ PhaseOf'[id] = "pending"
    BY <1>0, <1>1, <1>2, <1>3 DEF PhaseReadOff
  <2>2. QED
    BY <2>1 DEF Moves, Lifecycle!Steps
<1>4. CASE id # nextId
  <2>1. /\ id \in DOMAIN processes' <=> id \in DOMAIN processes
        /\ id \in DOMAIN processes => processes'[id] = processes[id]
        /\ id < nextId => id < nextId'
        /\ id >= nextId => id >= nextId'
    BY <1>0, <1>2, <1>4 DEF RunIds
  <2>2. QED
    BY <2>1, StopMoves DEF Launch, Stopped
<1>5. QED
  BY <1>3, <1>4

LEMMA RunMoves ==
  ASSUME IInv, IInv', NEW c \in Commands \cup {NoCommand}, NEW id \in RunIds,
         RunNeverStarted(c) \/ RunForked(c) \/ RunForkFails(c)
  PROVE  Moves(id)
<1>1. CASE RunNeverStarted(c)
  <2>1. PICK S : /\ Launch(S, [command |-> c, pid |-> NoPid, state |-> "NotRunning"])
                 /\ deferred' = deferred \cup {nextId}
    BY <1>1 DEF RunNeverStarted
  <2>2. QED
    BY <2>1, LaunchMoves DEF Proc, QState
<1>2. CASE RunForked(c)
  <2>1. PICK S \in StoppedFirst(c), p \in Pids :
          /\ Launch(S, [command |-> c, pid |-> p, state |-> "Starting"])
          /\ deferred' = deferred
    BY <1>2 DEF RunForked
  <2>2. QED
    BY <2>1, LaunchMoves DEF Proc, QState
<1>3. CASE RunForkFails(c)
  <2>0. PICK S :
          /\ TakeId
          /\ Stopped(S)
          /\ heard' = [j \in RunIds |-> [s \in Signals |->
                         IF \/ s = "failed" /\ j = nextId
                            \/ s = "finished" /\ j \in S \cap DOMAIN external
                         THEN heard[j][s] + 1 ELSE heard[j][s]]]
          /\ UNCHANGED processes
    BY <1>3 DEF RunForkFails
  <2>1. PhaseReadOff(id) /\ PhaseReadOff(id)'
    BY PhaseFromTables, PhaseFromTablesNext
  <2>2. nextId' = nextId + 1 /\ nextId \in Nat
    BY <2>0, <2>1 DEF TakeId, PhaseReadOff
  <2>3. CASE id = nextId
    <3>1. PhaseOf[id] = "none"
      BY <2>1, <2>2, <2>3 DEF PhaseReadOff
    <3>2. heard'[id]["failed"] = heard[id]["failed"] + 1
      BY <2>0, <2>3 DEF Signals
    <3>3. PhaseOf'[id] = "failed"
      BY <2>1, <3>2 DEF PhaseReadOff, Signals
    <3>4. QED
      BY <3>1, <3>3 DEF Moves, Lifecycle!Steps
  <2>4. CASE id # nextId
    <3>1. /\ \A s \in Signals :
               heard'[id][s] = IF s = "finished" /\ id \in S \cap DOMAIN external
                               THEN heard[id][s] + 1 ELSE heard[id][s]
          /\ id \in DOMAIN external' <=> id \in DOMAIN external /\ id \notin S
          /\ killRequested' = killRequested \cup (S \cap DOMAIN processes)
      <4>1. \A s \in Signals :
               heard'[id][s] = IF s = "finished" /\ id \in S \cap DOMAIN external
                               THEN heard[id][s] + 1 ELSE heard[id][s]
        BY <2>0, <2>4
      <4>2. id \in DOMAIN external' <=> id \in DOMAIN external /\ id \notin S
        BY <2>0, StoppedTables DEF IInv
      <4>3. killRequested' = killRequested \cup (S \cap DOMAIN processes)
        BY <2>0 DEF Stopped
      <4>4. QED
        BY <4>1, <4>2, <4>3
    <3>2. CASE id \in DOMAIN external \cap S
      <4>1. PhaseOf[id] = "up" /\ PhaseOf'[id] = "finished"
        BY <2>1, <3>1, <3>2 DEF PhaseReadOff, Signals
      <4>2. QED
        BY <4>1 DEF Moves, Lifecycle!Steps
    <3>3. CASE id \in DOMAIN external \ S
      BY <2>1, <3>1, <3>3 DEF PhaseReadOff, Moves
    <3>4. CASE id \in DOMAIN processes
      <4>1. /\ PhaseOf[id] \in {"pending", "up", "stopping"}
            /\ PhaseOf'[id] = PhaseOf[id] \/ PhaseOf'[id] = "stopping"
        BY <2>0, <2>1, <3>1, <3>4 DEF PhaseReadOff
      <4>2. QED
        BY <4>1 DEF Moves, Lifecycle!Steps
    <3>5. CASE id \notin DOMAIN processes \cup DOMAIN external
      <4>1. /\ \A s \in Signals : heard'[id][s] = heard[id][s]
            /\ id \notin DOMAIN processes' \cup DOMAIN external'
        BY <2>0, <3>1, <3>5
      <4>2. id < nextId <=> id < nextId'
        BY <2>2, <2>4 DEF RunIds
      <4>3. QED
        BY <2>1, <3>5, <4>1, <4>2 DEF PhaseReadOff, Moves, Signals, RunIds
    <3>6. QED
      BY <3>2, <3>3, <3>4, <3>5
  <2>5. QED
    BY <2>3, <2>4
<1>4. QED
  BY <1>1, <1>2, <1>3

LEMMA AdoptMoves ==
  ASSUME IInv, IInv', NEW p \in Pids, NEW c \in Commands, AdoptExternal(p, c), NEW id \in RunIds
  PROVE  Moves(id)
<1>1. PhaseReadOff(id) /\ PhaseReadOff(id)'
  BY PhaseFromTables, PhaseFromTablesNext
<1>2. /\ nextId' = nextId + 1
      /\ DOMAIN external' = DOMAIN external \cup {nextId}
      /\ UNCHANGED <<processes, killRequested, heard>>
  BY DEF AdoptExternal, TakeId, Put
<1>3. CASE id = nextId
  <2>1. PhaseOf[id] = "none" /\ PhaseOf'[id] = "up"
    BY <1>1, <1>2, <1>3 DEF PhaseReadOff
  <2>2. QED
    BY <2>1 DEF Moves, Lifecycle!Steps
<1>4. CASE id # nextId
  <2>1. id < nextId <=> id < nextId'
    BY <1>1, <1>2, <1>4 DEF RunIds, PhaseReadOff
  <2>2. QED
    BY <1>1, <1>2, <1>4, <2>1 DEF PhaseReadOff, Moves, Signals, RunIds
<1>5. QED
  BY <1>3, <1>4

LEMMA DetachMoves ==
  ASSUME IInv, IInv', DetachAll, NEW id \in RunIds
  PROVE  Moves(id)
<1>1. PhaseReadOff(id) /\ PhaseReadOff(id)'
  BY PhaseFromTables, PhaseFromTablesNext
<1>2. DOMAIN processes' = {} /\ DOMAIN external' = {} /\ UNCHANGED <<nextId, heard>>
  BY DEF DetachAll, Without, Restrict
<1>3. CASE id \in DOMAIN processes \cup DOMAIN external
  <2>1. PhaseOf[id] \in {"pending", "up", "stopping"}
    BY <1>1, <1>3 DEF PhaseReadOff
  <2>2. heard'[id]["finished"] = 0 /\ heard'[id]["failed"] = 0 /\ id < nextId'
    BY <1>1, <1>2, <1>3, <2>1 DEF PhaseReadOff, RunIds
  <2>3. PhaseOf'[id] = "left"
    BY <1>1, <1>2, <2>2 DEF PhaseReadOff
  <2>4. QED
    BY <2>1, <2>3 DEF Moves, Lifecycle!Steps
<1>4. CASE id \notin DOMAIN processes \cup DOMAIN external
  BY <1>1, <1>2, <1>4 DEF PhaseReadOff, Moves, Signals, RunIds
<1>5. QED
  BY <1>3, <1>4

(* A conclusion ends its own run and moves no other.                       *)
LEMMA ConcludeMoves ==
  ASSUME IInv, IInv', NEW i \in DOMAIN processes, NEW kind \in {"finished", "failed"},
         Conclude(i, kind), UNCHANGED nextId,
         \/ kind = "failed" /\ i \notin killRequested
         \/ kind = "finished" /\ processes[i].state = "Running",
         NEW id \in RunIds
  PROVE  Moves(id)
<1>1. PhaseReadOff(id) /\ PhaseReadOff(id)'
  BY PhaseFromTables, PhaseFromTablesNext
<1>2. /\ DOMAIN processes' = DOMAIN processes \ {i}
      /\ \A j \in DOMAIN processes' : processes'[j] = processes[j]
      /\ UNCHANGED external
      /\ killRequested' = killRequested \ {i}
  BY DEF Conclude, Without, Restrict
<1>3. \A s \in Signals :
        heard'[id][s] = IF s = kind /\ id = i THEN heard[id][s] + 1 ELSE heard[id][s]
  BY EmitFacts DEF Conclude, Signals, IInv
<1>4. CASE id = i
  <2>1. PhaseOf'[id] = kind
    BY <1>1, <1>3, <1>4 DEF PhaseReadOff, Signals
  <2>2. \/ kind = "failed" /\ PhaseOf[id] \in {"pending", "up"}
        \/ kind = "finished" /\ PhaseOf[id] \in {"up", "stopping"}
    BY <1>1, <1>4 DEF PhaseReadOff
  <2>3. QED
    BY <2>1, <2>2 DEF Moves, Lifecycle!Steps
<1>5. CASE id # i
  BY <1>1, <1>2, <1>3, <1>5 DEF PhaseReadOff, Moves, Signals, RunIds
<1>6. QED
  BY <1>4, <1>5

LEMMA EventMoves ==
  ASSUME IInv, IInv', NEW i \in RunIds, EventLoop(i), NEW id \in RunIds
  PROVE  Moves(id)
<1>1. PhaseReadOff(id) /\ PhaseReadOff(id)'
  BY PhaseFromTables, PhaseFromTablesNext
<1>2. CASE DeferredFailure(i)
  <2>1. CASE i \in DOMAIN processes \ killRequested
    BY <1>2, <2>1, ConcludeMoves DEF DeferredFailure
  <2>2. CASE i \notin DOMAIN processes \ killRequested
    <3>1. UNCHANGED <<processes, external, killRequested, heard, nextId>>
      BY <1>2, <2>2 DEF DeferredFailure
    <3>2. QED
      BY <3>1 DEF PhaseOf, Moves
  <2>3. QED
    BY <2>1, <2>2
<1>3. CASE StartNotification(i)
  <2>1. i \in DOMAIN processes /\ processes[i].state = "Starting" /\ UNCHANGED nextId
        /\ processes[i] \in Proc
    BY <1>3 DEF StartNotification, IInv, TypeOK
  <2>2. CASE os[processes[i].pid] = "noexec" /\ i \notin killRequested
    BY <1>3, <2>1, <2>2, ConcludeMoves DEF StartNotification
  <2>3. CASE os[processes[i].pid] = "noexec" /\ i \in killRequested
    <3>1. /\ DOMAIN processes' = DOMAIN processes
          /\ \A j \in DOMAIN processes : j # i => processes'[j] = processes[j]
          /\ UNCHANGED <<external, killRequested, heard>>
      BY <1>3, <2>3 DEF StartNotification
    <3>2. QED
      BY <1>1, <2>1, <2>3, <3>1 DEF PhaseReadOff, Moves, Signals, RunIds
  <2>4. CASE os[processes[i].pid] # "noexec"
    <3>1. /\ DOMAIN processes' = DOMAIN processes
          /\ \A j \in DOMAIN processes : j # i => processes'[j] = processes[j]
          /\ processes'[i].state = "Running"
          /\ Emit("started", {i})
          /\ UNCHANGED <<external, killRequested>>
      BY <1>3, <2>1, <2>4 DEF StartNotification, Proc
    <3>2. \A s \in {"finished", "failed"} : heard'[id][s] = heard[id][s]
      BY <3>1, EmitFacts DEF Signals, IInv
    <3>3. CASE id = i
      <4>1. \/ PhaseOf[id] = "pending" /\ PhaseOf'[id] = "up"
            \/ PhaseOf[id] = "stopping" /\ PhaseOf'[id] = "stopping"
        BY <1>1, <2>1, <3>1, <3>3 DEF PhaseReadOff
      <4>2. QED
        BY <4>1 DEF Moves, Lifecycle!Steps
    <3>4. CASE id # i
      BY <1>1, <2>1, <3>1, <3>2, <3>4 DEF PhaseReadOff, Moves, Signals, RunIds
    <3>5. QED
      BY <3>3, <3>4
  <2>5. QED
    BY <2>2, <2>3, <2>4
<1>4. CASE DeathNotification(i)
  <2>1. /\ i \in DOMAIN processes /\ processes[i].state = "Running" /\ UNCHANGED nextId
        /\ \/ i \notin killRequested /\ Conclude(i, "failed")
           \/ Conclude(i, "finished")
    BY <1>4 DEF DeathNotification
  <2>2. QED
    BY <2>1, ConcludeMoves
<1>5. QED
  BY <1>2, <1>3, <1>4 DEF EventLoop

LEMMA NextMoves ==
  ASSUME IInv, IInv', [Next]_vars, NEW id \in RunIds
  PROVE  Moves(id)
<1>1. ASSUME NEW ids, StopRuns(ids) PROVE Moves(id)
  <2>1. UNCHANGED <<processes, nextId>>
    BY <1>1 DEF StopRuns
  <2>2. QED
    BY <1>1, <2>1, StopMoves DEF StopRuns, Stopped
<1>2. ASSUME NEW p, NEW st, Kernel(p, st) PROVE Moves(id)
  BY <1>2 DEF Kernel, PhaseOf, Moves
<1>3. CASE UNCHANGED vars
  BY <1>3 DEF vars, PhaseOf, Moves
<1>4. CASE User
  BY <1>1, <1>2, <1>4, RunMoves, AdoptMoves, DetachMoves
     DEF User, Stop, StopCommand, KillAll, KillExternal
<1>5. CASE System
  BY <1>2, <1>5, EventMoves DEF System, Exec, Exit, StrangerComes, StrangerGoes
<1>6. QED
  BY <1>3, <1>4, <1>5 DEF Next

(* The process table implements the abstract life cycle: what a listener   *)
(* is told about a run never goes back, never ends twice, and a run asked  *)
(* to stop is never reported as failed.                                    *)
THEOREM Refinement == Spec => ImplementsLifecycle
<1>1. Init => Lifecycle!Init
  <2>1. SUFFICES ASSUME Init, NEW id \in RunIds PROVE PhaseOf[id] = "none"
    BY DEF Lifecycle!Init, PhaseOf
  <2>2. QED
    BY <2>1 DEF Init, PhaseOf, RunIds, Signals
<1>2. IInv /\ IInv' /\ [Next]_vars => [Lifecycle!Next]_PhaseOf
  <2>1. SUFFICES ASSUME IInv, IInv', [Next]_vars PROVE Lifecycle!Next
    OBVIOUS
  <2>2. PhaseOf' \in [RunIds -> Lifecycle!Phase]
    BY DEF PhaseOf, Lifecycle!Phase
  <2>3. \A id \in RunIds : Moves(id)
    BY <2>1, NextMoves
  <2>4. QED
    BY <2>2, <2>3 DEF Lifecycle!Next, Moves
<1>3. QED
  BY <1>1, <1>2, InductiveInvariant, PTL DEF Spec, ImplementsLifecycle, Lifecycle!Spec
-----------------------------------------------------------------------------
(* The end of the app leaves the tables and every signal count as a fresh  *)
(* executor starts with them, and no child of the dead process.            *)
LEMMA GoDownFresh ==
  ASSUME IInv, GoDown
  PROVE  /\ DOMAIN processes' = {} /\ DOMAIN external' = {}
         /\ killRequested' = {} /\ deferred' = {} /\ nextId' = 1 /\ shown' = {}
         /\ os' \in [Pids -> OsState]
         /\ \A p \in Pids : os'[p] \notin Unreaped
         /\ heard' = [id \in RunIds |-> [s \in Signals |-> 0]]
<1>1. DOMAIN processes' = {} /\ DOMAIN external' = {}
  BY DEF GoDown, Without, Restrict
<1>2. os' \in [Pids -> OsState] /\ \A p \in Pids : os'[p] \notin Unreaped
  BY DEF GoDown, IInv, TypeOK, OsState, Unreaped, Foreign
<1>3. QED
  BY <1>1, <1>2 DEF GoDown

LEMMA GoDownIInv ==
  ASSUME IInv, GoDown
  PROVE  IInv' /\ SingleInstance'
<1>1. TypeOK'
  <2>1. processes' \in [{} -> Proc] /\ external' \in [{} -> ExternalProc]
    BY GoDownFresh DEF GoDown, Without, Restrict
  <2>2. QED
    BY <2>1, GoDownFresh, ConstantsAssumption DEF TypeOK, Signals
<1>2. TablesDisjoint' /\ EntryMatchesKernel' /\ NoLostChild' /\ StopIsFinal'
  BY GoDownFresh DEF TablesDisjoint, EntryMatchesKernel, NoLostChild, StopIsFinal
<1>3. SignalsMatchState' /\ ReportedOnce'
  BY GoDownFresh DEF SignalsMatchState, ReportedOnce, Ends, Signals
<1>4. BindingsFresh'
  BY GoDownFresh DEF BindingsFresh, runningCommandIds, CommandsOf
<1>5. SingleInstance'
  BY GoDownFresh DEF SingleInstance, Of
<1>6. QED
  BY <1>1, <1>2, <1>3, <1>4, <1>5 DEF IInv

(* Every other step of a session is a step of the executor or leaves it    *)
(* alone.                                                                  *)
LEMMA SessionStep ==
  ASSUME SessionTypeOK, [SessionNext]_allVars
  PROVE  GoDown \/ [Next]_vars
<1>1. CASE UserStep
  BY <1>1 DEF UserStep, Next, User
<1>2. CASE LoopStep \/ KernelStep
  BY <1>2 DEF LoopStep, KernelStep, Next, System
<1>3. CASE QuitIdle \/ QuitKill \/ QuitLeave
  BY <1>3 DEF QuitIdle, QuitKill, QuitLeave, Next, User
<1>4. CASE Ended \/ Crash
  BY <1>4 DEF Ended, Crash
<1>5. CASE Start \/ Started
  BY <1>5 DEF Start, Started
<1>6. ASSUME NEW r \in todo, Adopt(r) PROVE [Next]_vars
  <2>1. r.pid \in Pids /\ r.command \in Commands
    BY <1>6 DEF Adopt, SessionTypeOK, Record
  <2>2. QED
    BY <1>6, <2>1 DEF Adopt, Next, User
<1>7. ASSUME NEW r \in todo, Skip(r) PROVE [Next]_vars
  BY <1>7 DEF Skip
<1>8. CASE UNCHANGED allVars
  BY <1>8 DEF allVars
<1>9. QED
  BY <1>1, <1>2, <1>3, <1>4, <1>5, <1>6, <1>7, <1>8 DEF SessionNext

(* The records a session keeps are typed as long as its tables are.        *)
LEMMA RecordsTyped ==
  ASSUME TypeOK
  PROVE  Records(processes) \subseteq Record /\ runningProcesses \subseteq Record
<1>1. \A e \in Range(processes) : e \in Proc
  BY DEF TypeOK, Range
<1>2. \A e \in Range(external) : e \in ExternalProc
  BY DEF TypeOK, Range
<1>3. Records(processes) \subseteq Record
  BY <1>1 DEF Records, Record, Proc
<1>4. Records(external) \subseteq Record
  BY <1>2 DEF Records, Record, ExternalProc
<1>5. QED
  BY <1>3, <1>4 DEF runningProcesses

LEMMA SessionTypeStep ==
  ASSUME SessionTypeOK, TypeOK, TypeOK', [SessionNext]_allVars
  PROVE  SessionTypeOK'
<1>1. ASSUME Track PROVE ours' \subseteq Record
  <2>1. Records(processes') \subseteq Record
    <3>1. \A e \in Range(processes') : e \in Proc
      BY DEF TypeOK, Range
    <3>2. QED
      BY <3>1 DEF Records, Record, Proc
  <2>2. QED
    BY <1>1, <2>1 DEF Track, SessionTypeOK
<1>2. CASE UserStep \/ LoopStep \/ KernelStep
  BY <1>1, <1>2 DEF UserStep, LoopStep, KernelStep, SessionTypeOK
<1>3. CASE QuitIdle
  BY <1>3 DEF QuitIdle, Quit, SessionTypeOK, App, vars
<1>4. CASE QuitKill
  BY <1>1, <1>4 DEF QuitKill, Quit, SessionTypeOK, App
<1>5. CASE QuitLeave
  BY <1>1, <1>5, RecordsTyped DEF QuitLeave, Quit, SessionTypeOK, App
<1>6. CASE Ended \/ Crash
  <2>1. ours' \subseteq Record
    BY <1>1, <1>6 DEF Ended, Crash, SessionTypeOK
  <2>2. QED
    BY <1>6, <2>1 DEF Ended, Crash, GoDown, SessionTypeOK, App
<1>7. CASE Start \/ Started
  BY <1>7, SessionAssumption DEF Start, Started, SessionTypeOK, App
<1>8. ASSUME NEW r \in todo, Adopt(r) PROVE SessionTypeOK'
  BY <1>1, <1>8 DEF Adopt, SessionTypeOK
<1>9. ASSUME NEW r \in todo, Skip(r) PROVE SessionTypeOK'
  BY <1>9 DEF Skip, SessionTypeOK
<1>10. CASE UNCHANGED allVars
  BY <1>10 DEF allVars, sessionVars, SessionTypeOK
<1>11. QED
  BY <1>2, <1>3, <1>4, <1>5, <1>6, <1>7, <1>8, <1>9, <1>10 DEF SessionNext

LEMMA SessionInduction ==
  /\ SessionInit => IInv /\ SingleInstance /\ SessionTypeOK
  /\ IInv /\ SingleInstance /\ SessionTypeOK /\ [SessionNext]_allVars
       => IInv' /\ SingleInstance' /\ SessionTypeOK'
<1>1. SessionInit => IInv /\ SingleInstance /\ SessionTypeOK
  <2>1. SessionInit => SessionTypeOK
    BY SessionAssumption DEF SessionInit, SessionTypeOK, App
  <2>2. QED
    BY <2>1, InitIInv DEF SessionInit, Init, SingleInstance, Of
<1>2. IInv /\ SingleInstance /\ SessionTypeOK /\ [SessionNext]_allVars
        => IInv' /\ SingleInstance'
  BY SessionStep, NextIInv, NextSingle, GoDownIInv
<1>3. IInv /\ IInv' /\ SessionTypeOK /\ [SessionNext]_allVars => SessionTypeOK'
  BY SessionTypeStep DEF IInv
<1>4. QED
  BY <1>1, <1>2, <1>3

(* In every session the process table keeps its inductive invariant: no    *)
(* child lost, no run reported twice, no stopped run alive, no stale       *)
(* binding, over starts, quits and crashes.                                *)
THEOREM TableSoundInEverySession == SessionSpec => []TableSound
<1>1. IInv => TableSound
  BY DEF TableSound
<1>2. QED
  BY <1>1, SessionInduction, PTL DEF SessionSpec

(* In every session a command that may not run several times has at most   *)
(* one live program launched by it.                                        *)
THEOREM SingleInEverySession == SessionSpec => []SingleInstance
  BY SessionInduction, PTL DEF SessionSpec

(* Type correctness of what surrounds the process table.                   *)
THEOREM SessionTypeCorrect == SessionSpec => []SessionTypeOK
  BY SessionInduction, PTL DEF SessionSpec

-----------------------------------------------------------------------------
(***************************************************************************)
(* What trun knows of the programs it launched, over all sessions.         *)
(***************************************************************************)
Live == {"forked", "live"}
Rec(e) == [command |-> e.command, pid |-> e.pid]

(* The app launches runs of commands only, and what it launched still runs *)
(* until it is no longer ours.                                             *)
RunsAreNamed == \A id \in DOMAIN processes : processes[id].command \in Commands
OursLive == \A r \in ours : os[r.pid] \in Live
OursNamed == \A r \in ours : r.command \in Commands
OwnRunsAreOurs == \A id \in DOMAIN processes : Alive(id) => Rec(processes[id]) \in ours

(* What the tables hold while the app is not in its event loop: a quit     *)
(* leaves own runs behind only when they were killed, and the start puts   *)
(* there what it adopted.                                                  *)
TablesOutside ==
  /\ app = "quitting" => DOMAIN external = {} /\ DOMAIN processes \subseteq killRequested
  /\ app \in {"starting", "down"} => DOMAIN processes = {}
  /\ app = "down" => DOMAIN external = {}
  /\ app = "starting" => survivors \subseteq Records(external)

SessionIInv ==
  /\ RunsAreNamed /\ OursNamed
  /\ OursLive /\ OwnRunsAreOurs
  /\ TablesOutside
  /\ NothingForgotten
  /\ SingleAcrossSessions

(* What a step of the app's event loop, its user or the kernel does to the *)
(* runs: whatever is listed and lives on stays listed, and what is new is  *)
(* one launch, which left no other run of a command that runs once.        *)
RunsStay ==
  \A r \in runningProcesses : os[r.pid] \in Live /\ os'[r.pid] \in Live => r \in runningProcesses'
OnlyLaunched ==
  \A id \in DOMAIN processes' : Alive(id)' =>
    \/ id \in DOMAIN processes /\ Alive(id) /\ Rec(processes'[id]) = Rec(processes[id])
    \/ /\ id = nextId
       /\ processes'[id].command \in Single =>
            \A r \in runningProcesses :
              r.command = processes'[id].command /\ os[r.pid] \in Live => os'[r.pid] \notin Live
TableStep == RunsStay /\ OnlyLaunched /\ RunsAreNamed'

LEMMA InRecords ==
  \A table, r : r \in Records(table) <=>
    \E id \in DOMAIN table : table[id].pid # NoPid /\ r = Rec(table[id])
BY DEF Records, Range, Rec

LEMMA InRunning ==
  ASSUME NEW r
  PROVE  r \in runningProcesses <=>
           \/ \E id \in DOMAIN processes : processes[id].pid # NoPid /\ r = Rec(processes[id])
           \/ \E id \in DOMAIN external : external[id].pid # NoPid /\ r = Rec(external[id])
BY InRecords DEF runningProcesses

LEMMA InRunningNext ==
  ASSUME NEW r
  PROVE  r \in runningProcesses' <=>
           \/ \E id \in DOMAIN processes' : processes'[id].pid # NoPid /\ r = Rec(processes'[id])
           \/ \E id \in DOMAIN external' : external'[id].pid # NoPid /\ r = Rec(external'[id])
BY InRecords DEF runningProcesses

(* What a set of runs is killed for: nothing in it lives on.               *)
LEMMA KillFacts ==
  ASSUME TypeOK, NEW ids
  PROVE  /\ \A p \in Pids : AfterKill(ids)[p] \in Live => os[p] \in Live
         /\ \A id \in DOMAIN processes \cap ids :
              processes[id].pid \in Pids => AfterKill(ids)[processes[id].pid] \notin Live
         /\ \A id \in DOMAIN external \cap ids :
              external[id].pid \in Pids /\ AfterKill(ids)[external[id].pid] \notin Live
<1>1. \A p \in Pids : AfterKill(ids)[p] \in Live => os[p] \in Live
  BY DEF AfterKill, Live
<1>2. \A p \in Pids : p \in PidsOf(processes, ids) \cup PidsOf(external, ids)
                        => AfterKill(ids)[p] \notin Live
  BY DEF AfterKill, Live
<1>3. \A id \in DOMAIN external \cap ids : external[id].pid \in Pids
  BY DEF TypeOK, ExternalProc
<1>4. \A id \in DOMAIN external \cap ids : external[id].pid \in PidsOf(external, ids)
  BY <1>3, ConstantsAssumption DEF PidsOf
<1>5. \A id \in DOMAIN processes \cap ids :
        processes[id].pid \in Pids => processes[id].pid \in PidsOf(processes, ids)
  BY ConstantsAssumption DEF PidsOf
<1>6. QED
  BY <1>1, <1>2, <1>3, <1>4, <1>5

(* Own runs keep their entries, and adopted ones are dropped only when     *)
(* they are killed.                                                        *)
LEMMA StopKeeps ==
  ASSUME IInv, NEW ids, external' = Without(external, ids),
         \A id \in DOMAIN processes :
           id \in DOMAIN processes' /\ Rec(processes'[id]) = Rec(processes[id]),
         \A id \in DOMAIN external \cap ids :
           os[external[id].pid] \in Live => os'[external[id].pid] \notin Live
  PROVE  RunsStay
<1> SUFFICES ASSUME NEW r \in runningProcesses, os[r.pid] \in Live, os'[r.pid] \in Live
             PROVE  r \in runningProcesses'
  BY DEF RunsStay
<1>1. ASSUME NEW id \in DOMAIN processes, processes[id].pid # NoPid, r = Rec(processes[id])
      PROVE  r \in runningProcesses'
  <2>1. id \in DOMAIN processes' /\ r = Rec(processes'[id])
    BY <1>1
  <2>2. processes'[id].pid # NoPid
    BY <1>1, <2>1 DEF Rec
  <2>3. QED
    BY <2>1, <2>2, InRunningNext
<1>2. ASSUME NEW id \in DOMAIN external, external[id].pid # NoPid, r = Rec(external[id])
      PROVE  r \in runningProcesses'
  <2>1. id \notin ids
    BY <1>2 DEF Rec
  <2>2. id \in DOMAIN external' /\ external'[id] = external[id]
    BY <1>2, <2>1 DEF Without, Restrict
  <2>3. QED
    BY <1>2, <2>2, InRunningNext DEF Rec
<1>3. QED
  BY <1>1, <1>2, InRunning

LEMMA StopRunsStep ==
  ASSUME IInv, RunsAreNamed, NEW ids, StopRuns(ids)
  PROVE  TableStep
<1>1. os' = AfterKill(ids) /\ external' = Without(external, ids) /\ UNCHANGED processes
  BY DEF StopRuns, Stopped
<1>2. TypeOK
  BY DEF IInv
<1>3. RunsStay
  BY <1>1, <1>2, KillFacts, StopKeeps
<1>4. \A p \in Pids : os'[p] \in Live => os[p] \in Live
  BY <1>1, <1>2, KillFacts
<1>5. OnlyLaunched
  BY <1>1, <1>4 DEF OnlyLaunched, Alive, Live
<1>6. QED
  BY <1>1, <1>3, <1>5 DEF TableStep, RunsAreNamed

(* A launch beside the runs it stops first.                                *)
LEMMA LaunchStep ==
  ASSUME IInv, RunsAreNamed, NEW c \in Commands, NEW S \in StoppedFirst(c),
         NEW entry \in Proc, entry.command = c, entry.pid \in Pids => os[entry.pid] = "free",
         Launch(S, entry), deferred' \subseteq deferred \cup {nextId},
         \A p \in Pids : p # entry.pid => os'[p] = AfterKill(S)[p]
  PROVE  TableStep
<1>1. TypeOK
  BY DEF IInv
<1>2. /\ DOMAIN processes' = DOMAIN processes \cup {nextId} /\ processes'[nextId] = entry
      /\ nextId \notin DOMAIN processes
      /\ \A id \in DOMAIN processes : processes'[id] = processes[id]
  BY LaunchTables
<1>3. external' = Without(external, S)
  BY DEF Launch, Stopped
<1>4. \A p \in Pids : os[p] \in Live => p # entry.pid
  BY DEF Live
<1>5. \A id \in DOMAIN external \cap S :
        os[external[id].pid] \in Live => os'[external[id].pid] \notin Live
  BY <1>1, <1>4, KillFacts
<1>6. RunsStay
  BY <1>2, <1>3, <1>5, StopKeeps
<1>7. ASSUME NEW id \in DOMAIN processes', Alive(id)', id # nextId
      PROVE  id \in DOMAIN processes /\ Alive(id) /\ Rec(processes'[id]) = Rec(processes[id])
  <2>1. id \in DOMAIN processes /\ processes'[id] = processes[id]
    BY <1>2, <1>7
  <2>2. processes[id].pid \in Pids /\ os'[processes[id].pid] \in Live
    BY <1>7, <2>1 DEF Alive, Live
  <2>3. processes[id] \in Proc
    BY <1>1, <2>1 DEF TypeOK
  <2>4. os[processes[id].pid] # "free"
    BY <2>1, <2>2, <2>3, ConstantsAssumption DEF IInv, EntryMatchesKernel, Proc, QState, Unreaped
  <2>5. os[processes[id].pid] \in Live
    BY <1>1, <2>2, <2>4, KillFacts
  <2>6. QED
    BY <2>1, <2>2, <2>5 DEF Alive, Live, Rec
<1>8. ASSUME c \in Single, NEW r \in runningProcesses, r.command = c, os[r.pid] \in Live
      PROVE  os'[r.pid] \notin Live
  <2>1. S = RunsOf(c)
    BY <1>8, ConstantsAssumption DEF StoppedFirst
  <2>2. ASSUME NEW id \in DOMAIN processes, processes[id].pid # NoPid, r = Rec(processes[id])
        PROVE  os'[r.pid] \notin Live
    <3>1. processes[id].pid \in Pids /\ id \in S
      BY <1>1, <1>8, <2>1, <2>2 DEF TypeOK, Proc, Rec, RunsOf, Of
    <3>2. QED
      BY <1>1, <1>4, <1>8, <2>2, <3>1, KillFacts DEF Rec
  <2>3. ASSUME NEW id \in DOMAIN external, r = Rec(external[id])
        PROVE  os'[r.pid] \notin Live
    <3>1. external[id].pid \in Pids /\ id \in S
      BY <1>1, <1>8, <2>1, <2>3 DEF TypeOK, ExternalProc, Rec, RunsOf, Of
    <3>2. QED
      BY <1>1, <1>4, <1>8, <2>3, <3>1, KillFacts DEF Rec
  <2>4. QED
    BY <2>2, <2>3, InRunning
<1>9. OnlyLaunched
  BY <1>2, <1>7, <1>8 DEF OnlyLaunched
<1>10. RunsAreNamed'
  BY <1>2 DEF RunsAreNamed
<1>11. QED
  BY <1>6, <1>9, <1>10 DEF TableStep

LEMMA RunStep ==
  ASSUME IInv, RunsAreNamed, NEW c \in Commands,
         RunNeverStarted(c) \/ RunForked(c) \/ RunForkFails(c)
  PROVE  TableStep
<1>1. TypeOK
  BY DEF IInv
<1>2. CASE RunNeverStarted(c)
  <2> DEFINE entry == [command |-> c, pid |-> NoPid, state |-> "NotRunning"]
  <2>1. PICK S \in StoppedFirst(c) : Launch(S, entry) /\ os' = AfterKill(S)
                                     /\ deferred' = deferred \cup {nextId}
    BY <1>2 DEF RunNeverStarted
  <2>2. entry \in Proc /\ entry.command = c /\ entry.pid \notin Pids
    BY ConstantsAssumption DEF Proc, QState
  <2> HIDE DEF entry
  <2>3. QED
    BY <2>1, <2>2, LaunchStep
<1>3. CASE RunForked(c)
  <2>1. PICK S \in StoppedFirst(c), p \in Pids :
          /\ os[p] = "free"
          /\ Launch(S, [command |-> c, pid |-> p, state |-> "Starting"])
          /\ os' = [AfterKill(S) EXCEPT ![p] = "forked"]
          /\ UNCHANGED deferred
    BY <1>3 DEF RunForked
  <2> DEFINE entry == [command |-> c, pid |-> p, state |-> "Starting"]
  <2>2. entry \in Proc /\ entry.command = c /\ entry.pid = p
    BY DEF Proc, QState
  <2>3. Launch(S, entry) /\ \A q \in Pids : q # p => os'[q] = AfterKill(S)[q]
    BY <2>1 DEF AfterKill
  <2> HIDE DEF entry
  <2>4. QED
    BY <2>1, <2>2, <2>3, LaunchStep
<1>4. CASE RunForkFails(c)
  <2>1. PICK S \in StoppedFirst(c) : Stopped(S) /\ os' = AfterKill(S) /\ UNCHANGED processes
    BY <1>4 DEF RunForkFails
  <2>2. external' = Without(external, S)
    BY <2>1 DEF Stopped
  <2>3. RunsStay
    BY <1>1, <2>1, <2>2, KillFacts, StopKeeps
  <2>4. \A p \in Pids : os'[p] \in Live => os[p] \in Live
    BY <1>1, <2>1, KillFacts
  <2>5. OnlyLaunched
    BY <2>1, <2>4 DEF OnlyLaunched, Alive, Live
  <2>6. QED
    BY <2>1, <2>3, <2>5 DEF TableStep, RunsAreNamed
<1>5. QED
  BY <1>2, <1>3, <1>4

(* What goes on in the kernel, and where a SIGTERM hits: no program of     *)
(* ours starts but where one was forked.                                   *)
LEMMA KernelTableStep ==
  ASSUME IInv, RunsAreNamed, NEW p \in Pids, NEW st, Kernel(p, st),
         st \in Live => os[p] \in Live
  PROVE  TableStep
<1>1. UNCHANGED <<processes, external>>
      /\ os' = [os EXCEPT ![p] = IF st \in Unreaped /\ p \notin HeldPids THEN "free" ELSE st]
  BY DEF Kernel
<1>2. \A q \in Pids : os'[q] \in Live => os[q] \in Live
  BY <1>1 DEF IInv, TypeOK, Live
<1>3. RunsStay
  BY <1>1 DEF RunsStay, runningProcesses, Records
<1>4. OnlyLaunched
  BY <1>1, <1>2 DEF OnlyLaunched, Alive, Live
<1>5. QED
  BY <1>1, <1>3, <1>4 DEF TableStep, RunsAreNamed

LEMMA KernelSteps ==
  ASSUME IInv, RunsAreNamed, NEW p \in Pids,
         Exec(p) \/ Exit(p) \/ StrangerComes(p) \/ StrangerGoes(p) \/ KillExternal(p)
  PROVE  TableStep
<1>1. PICK st : Kernel(p, st) /\ (st \in Live => os[p] \in Live)
  BY DEF Exec, Exit, StrangerComes, StrangerGoes, KillExternal, Live, Foreign
<1>2. QED
  BY <1>1, KernelTableStep

(* The event loop takes out of the table only what has ended.              *)
LEMMA LoopKeeps ==
  ASSUME IInv, RunsAreNamed, NEW id \in DOMAIN processes, ~Alive(id), UNCHANGED external,
         DOMAIN processes' \subseteq DOMAIN processes, DOMAIN processes \ {id} \subseteq DOMAIN processes',
         \A i \in DOMAIN processes' \ {id} : processes'[i] = processes[i],
         id \in DOMAIN processes' => processes'[id].command = processes[id].command
                                     /\ processes'[id].pid \in {processes[id].pid, NoPid},
         \A p \in Pids : os'[p] = os[p] \/ os'[p] = "free"
  PROVE  TableStep
<1>1. TypeOK /\ NoPid \notin Pids
  BY ConstantsAssumption DEF IInv
<1>2. \A p \in Pids : os'[p] \in Live => os[p] \in Live
  BY DEF Live
<1>3. RunsStay
  <2> SUFFICES ASSUME NEW r \in runningProcesses, os[r.pid] \in Live
               PROVE  r \in runningProcesses'
    BY DEF RunsStay
  <2>1. ASSUME NEW i \in DOMAIN processes, processes[i].pid # NoPid, r = Rec(processes[i])
        PROVE  r \in runningProcesses'
    <3>1. processes[i].pid \in Pids
      BY <1>1, <2>1 DEF TypeOK, Proc
    <3>2. i # id
      BY <2>1, <3>1 DEF Alive, Live, Rec
    <3>3. QED
      BY <2>1, <3>2, InRunningNext
  <2>2. CASE \E i \in DOMAIN external : external[i].pid # NoPid /\ r = Rec(external[i])
    BY <2>2, InRunningNext
  <2>3. QED
    BY <2>1, <2>2, InRunning
<1>4. ASSUME NEW i \in DOMAIN processes', Alive(i)'
      PROVE  i \in DOMAIN processes /\ Alive(i) /\ Rec(processes'[i]) = Rec(processes[i])
  <2>1. processes'[i].pid \in Pids /\ os[processes'[i].pid] \in Live
    BY <1>2, <1>4 DEF Alive, Live
  <2>2. i # id
    BY <1>1, <2>1 DEF Alive, Live
  <2>3. QED
    BY <2>1, <2>2 DEF Alive, Live, Rec
<1>5. OnlyLaunched
  BY <1>4 DEF OnlyLaunched
<1>6. RunsAreNamed'
  BY DEF RunsAreNamed
<1>7. QED
  BY <1>3, <1>5, <1>6 DEF TableStep

LEMMA StandStep == UNCHANGED <<processes, external, os>> /\ RunsAreNamed => TableStep
BY DEF TableStep, RunsStay, OnlyLaunched, RunsAreNamed, runningProcesses, Records, Alive

LEMMA QuietStep ==
  ASSUME RunsAreNamed, UNCHANGED <<external, os>>, DOMAIN processes' = DOMAIN processes,
         \A i \in DOMAIN processes :
           processes'[i].command = processes[i].command /\ processes'[i].pid = processes[i].pid
  PROVE  TableStep
<1>1. RunsStay
  <2> SUFFICES ASSUME NEW r \in runningProcesses PROVE r \in runningProcesses'
    BY DEF RunsStay
  <2>1. QED
    BY InRunning, InRunningNext DEF Rec
<1>2. OnlyLaunched
  BY DEF OnlyLaunched, Alive, Rec
<1>3. QED
  BY <1>1, <1>2 DEF TableStep, RunsAreNamed

LEMMA ConcludeTables ==
  ASSUME NEW id, NEW kind, Conclude(id, kind)
  PROVE  /\ DOMAIN processes' = DOMAIN processes \ {id} /\ UNCHANGED external
         /\ \A i \in DOMAIN processes' : processes'[i] = processes[i]
         /\ killRequested' = killRequested \ {id}
BY DEF Conclude, Without, Restrict

LEMMA LoopTableStep ==
  ASSUME IInv, RunsAreNamed, NEW id \in RunIds, EventLoop(id)
  PROVE  /\ TableStep
         /\ UNCHANGED external /\ DOMAIN processes' \subseteq DOMAIN processes
         /\ killRequested \cap DOMAIN processes' \subseteq killRequested'
<1> USE DEF IInv
<1>0. TypeOK /\ NoPid \notin Pids
  BY ConstantsAssumption
<1>1. CASE DeferredFailure(id)
  <2>1. CASE id \in DOMAIN processes \ killRequested
    <3>1. Conclude(id, "failed") /\ UNCHANGED os /\ processes[id].pid = NoPid
      BY <1>1, <2>1 DEF DeferredFailure, EntryMatchesKernel
    <3>2. ~Alive(id)
      BY <1>0, <3>1 DEF Alive
    <3>3. QED
      BY <2>1, <3>1, <3>2, ConcludeTables, LoopKeeps
  <2>2. CASE id \notin DOMAIN processes \ killRequested
    BY <1>1, <2>2, StandStep DEF DeferredFailure
  <2>3. QED
    BY <2>1, <2>2
<1>2. CASE StartNotification(id)
  <2> DEFINE pid == processes[id].pid
  <2>1. id \in DOMAIN processes /\ pid \in Pids /\ processes[id] \in Proc
    BY <1>2 DEF StartNotification, EntryMatchesKernel, TypeOK
  <2>2. CASE os[pid] = "noexec"
    <3>1. ~Alive(id) /\ \A p \in Pids : os'[p] = os[p] \/ os'[p] = "free"
      BY <1>2, <2>1, <2>2 DEF StartNotification, Reaped, TypeOK, Alive
    <3>2. CASE id \in killRequested
      <4>1. processes' = [processes EXCEPT ![id].pid = NoPid, ![id].state = "NotRunning"]
            /\ UNCHANGED <<external, killRequested>>
        BY <1>2, <2>2, <3>2 DEF StartNotification
      <4>2. /\ DOMAIN processes' = DOMAIN processes
            /\ \A i \in DOMAIN processes' \ {id} : processes'[i] = processes[i]
            /\ processes'[id].command = processes[id].command /\ processes'[id].pid = NoPid
        BY <2>1, <4>1 DEF Proc, TypeOK
      <4>3. QED
        BY <2>1, <3>1, <4>1, <4>2, LoopKeeps
    <3>3. CASE id \notin killRequested
      <4>1. Conclude(id, "failed")
        BY <1>2, <2>2, <3>3 DEF StartNotification
      <4>2. QED
        BY <2>1, <3>1, <4>1, ConcludeTables, LoopKeeps
    <3>4. QED
      BY <3>2, <3>3
  <2>3. CASE os[pid] # "noexec"
    <3>1. processes' = [processes EXCEPT ![id].state = "Running"]
          /\ UNCHANGED <<external, killRequested, os>>
      BY <1>2, <2>3 DEF StartNotification
    <3>2. DOMAIN processes' = DOMAIN processes
          /\ \A i \in DOMAIN processes :
               processes'[i].command = processes[i].command /\ processes'[i].pid = processes[i].pid
      BY <2>1, <3>1 DEF Proc, TypeOK
    <3>3. QED
      BY <3>1, <3>2, QuietStep
  <2>4. QED
    BY <2>2, <2>3
<1>3. CASE DeathNotification(id)
  <2>1. id \in DOMAIN processes /\ processes[id].pid \in Pids /\ os' = Reaped(id)
    BY <1>3 DEF DeathNotification, EntryMatchesKernel
  <2>2. ~Alive(id) /\ \A p \in Pids : os'[p] = os[p] \/ os'[p] = "free"
    BY <1>3, <2>1 DEF DeathNotification, Reaped, TypeOK, Alive
  <2>3. Conclude(id, "failed") \/ Conclude(id, "finished")
    BY <1>3 DEF DeathNotification
  <2>4. QED
    BY <2>1, <2>2, <2>3, ConcludeTables, LoopKeeps
<1>4. QED
  BY <1>1, <1>2, <1>3 DEF EventLoop

-----------------------------------------------------------------------------
LEMMA TrackFacts ==
  ASSUME Track, TypeOK'
  PROVE  /\ \A r \in ours' : os'[r.pid] \in Live
         /\ \A r \in ours' : r \in ours \/ \E id \in DOMAIN processes' : Alive(id)' /\ r = Rec(processes'[id])
         /\ \A id \in DOMAIN processes' : Alive(id)' => Rec(processes'[id]) \in ours'
<1>1. NoPid \notin Pids
  BY ConstantsAssumption
<1>2. ours' = {r \in ours \cup Records(processes') : os'[r.pid] \in Live}
  BY DEF Track, Live
<1>3. ASSUME NEW id \in DOMAIN processes', processes'[id].pid # NoPid
      PROVE  processes'[id].pid \in Pids
  BY <1>3 DEF TypeOK, Proc
<1>4. \A r : r \in Records(processes') <=>
        \E id \in DOMAIN processes' : processes'[id].pid # NoPid /\ r = Rec(processes'[id])
  BY InRecords
<1>5. \A r \in ours' : r \in ours \/ \E id \in DOMAIN processes' : Alive(id)' /\ r = Rec(processes'[id])
  <2> SUFFICES ASSUME NEW r \in ours', r \notin ours
               PROVE  \E id \in DOMAIN processes' : Alive(id)' /\ r = Rec(processes'[id])
    OBVIOUS
  <2>1. PICK id \in DOMAIN processes' : processes'[id].pid # NoPid /\ r = Rec(processes'[id])
    BY <1>2, <1>4
  <2>2. os'[r.pid] \in Live /\ r.pid = processes'[id].pid
    BY <1>2, <2>1 DEF Rec
  <2>3. QED
    BY <1>3, <2>1, <2>2 DEF Alive, Live
<1>6. ASSUME NEW id \in DOMAIN processes', Alive(id)' PROVE Rec(processes'[id]) \in ours'
  <2>1. processes'[id].pid # NoPid /\ os'[processes'[id].pid] \in Live
    BY <1>1, <1>6 DEF Alive, Live
  <2>2. QED
    BY <1>2, <1>4, <2>1 DEF Rec
<1>7. QED
  BY <1>2, <1>5, <1>6

(* While the loop runs: a program is on the list from its launch to its    *)
(* end, and what a launch leaves of its command is the new run.            *)
LEMMA RunningKeeps ==
  ASSUME SessionIInv, IInv, IInv', app = "running", app' = app, TableStep, Track
  PROVE  SessionIInv'
<1>1. /\ \A r \in ours' : os'[r.pid] \in Live
      /\ \A r \in ours' : r \in ours \/ \E id \in DOMAIN processes' : Alive(id)' /\ r = Rec(processes'[id])
      /\ \A id \in DOMAIN processes' : Alive(id)' => Rec(processes'[id]) \in ours'
  BY TrackFacts DEF IInv
<1>2. RunsStay /\ OnlyLaunched /\ RunsAreNamed'
  BY DEF TableStep
<1>3. OursLive' /\ OwnRunsAreOurs'
  BY <1>1 DEF OursLive, OwnRunsAreOurs
<1>4. TablesOutside'
  BY DEF TablesOutside
<1>5. \A r \in ours : r \in runningProcesses /\ os[r.pid] \in Live
  BY DEF SessionIInv, NothingForgotten, OursLive
<1>6. \A r \in ours' : r \in runningProcesses'
  <2>1. ASSUME NEW id \in DOMAIN processes', Alive(id)' PROVE Rec(processes'[id]) \in runningProcesses'
    <3>1. processes'[id].pid # NoPid
      BY <2>1, ConstantsAssumption DEF Alive
    <3>2. QED
      BY <3>1, InRunningNext
  <2>2. QED
    BY <1>1, <1>2, <1>5, <2>1 DEF RunsStay
<1>7. NothingForgotten'
  BY <1>6 DEF NothingForgotten
<1>8. ASSUME NEW r \in ours', r \notin ours
      PROVE  /\ nextId \in DOMAIN processes' /\ r = Rec(processes'[nextId])
             /\ r.command \in Single => \A s \in ours : s.command = r.command => s \notin ours'
  <2>1. PICK id \in DOMAIN processes' : Alive(id)' /\ r = Rec(processes'[id])
    BY <1>1, <1>8
  <2>2. ~(id \in DOMAIN processes /\ Alive(id) /\ Rec(processes'[id]) = Rec(processes[id]))
    BY <1>8, <2>1 DEF SessionIInv, OwnRunsAreOurs
  <2>3. /\ id = nextId
        /\ processes'[id].command \in Single =>
             \A s \in runningProcesses :
               s.command = processes'[id].command /\ os[s.pid] \in Live => os'[s.pid] \notin Live
    BY <1>2, <2>1, <2>2 DEF OnlyLaunched
  <2>4. QED
    BY <1>1, <1>5, <2>1, <2>3 DEF Rec
<1>9. SingleAcrossSessions'
  <2> SUFFICES ASSUME NEW r \in ours', NEW s \in ours', r.command = s.command, r.command \in Single
               PROVE  r = s
    BY DEF SingleAcrossSessions
  <2>1. CASE r \in ours /\ s \in ours
    BY <2>1 DEF SessionIInv, SingleAcrossSessions
  <2>2. CASE r \notin ours \/ s \notin ours
    BY <1>8, <2>2
  <2>3. QED
    BY <2>1, <2>2
<1>10. OursNamed'
  <2>1. \A r \in ours : r.command \in Commands
    BY DEF SessionIInv, OursNamed
  <2>2. \A id \in DOMAIN processes' : Rec(processes'[id]).command \in Commands
    BY <1>2 DEF RunsAreNamed, Rec
  <2>3. QED
    BY <1>1, <2>1, <2>2 DEF OursNamed
<1>11. QED
  BY <1>2, <1>3, <1>4, <1>7, <1>9, <1>10 DEF SessionIInv

(* Elsewhere nothing becomes ours.                                         *)
LEMMA ShrinkKeeps ==
  ASSUME SessionIInv, ours' \subseteq ours,
         RunsAreNamed', OursLive', OwnRunsAreOurs', TablesOutside', NothingForgotten'
  PROVE  SessionIInv'
BY DEF SessionIInv, SingleAcrossSessions, OursNamed

LEMMA OutsideKeeps ==
  ASSUME SessionIInv, SessionTypeOK, IInv', Track, UNCHANGED <<app, stored>>, app # "running",
         \A id \in DOMAIN processes' : ~Alive(id)',
         todo' \cup survivors' = todo \cup survivors,
         RunsAreNamed', TablesOutside'
  PROVE  SessionIInv'
<1>1. /\ \A r \in ours' : os'[r.pid] \in Live
      /\ \A r \in ours' : r \in ours \/ \E id \in DOMAIN processes' : Alive(id)' /\ r = Rec(processes'[id])
  BY TrackFacts DEF IInv
<1>2. ours' \subseteq ours
  BY <1>1
<1>3. OursLive' /\ OwnRunsAreOurs'
  BY <1>1 DEF OursLive, OwnRunsAreOurs
<1>4. NothingForgotten'
  BY <1>2 DEF SessionIInv, NothingForgotten
<1>5. QED
  BY <1>2, <1>3, <1>4, ShrinkKeeps

LEMMA UserKeeps ==
  ASSUME SessionIInv, IInv, IInv', UserStep
  PROVE  SessionIInv'
<1>1. app = "running" /\ app' = app /\ Track /\ RunsAreNamed
  BY DEF UserStep, SessionIInv
<1>2. TableStep
  <2>1. ASSUME NEW c \in Commands, RunNeverStarted(c) \/ RunForked(c) \/ RunForkFails(c)
        PROVE  TableStep
    BY <1>1, <2>1, RunStep
  <2>2. ASSUME NEW ids, StopRuns(ids) PROVE TableStep
    BY <1>1, <2>2, StopRunsStep
  <2>3. ASSUME NEW p \in Pids, KillExternal(p) PROVE TableStep
    BY <1>1, <2>3, KernelSteps
  <2>4. QED
    BY <2>1, <2>2, <2>3 DEF UserStep, Stop, StopCommand
<1>3. QED
  BY <1>1, <1>2, RunningKeeps

LEMMA LoopKeepsSession ==
  ASSUME SessionIInv, SessionTypeOK, IInv, IInv', LoopStep
  PROVE  SessionIInv'
<1>1. PICK id \in RunIds : EventLoop(id)
  BY DEF LoopStep
<1>2. app \in {"running", "quitting"} /\ app' = app /\ Track /\ UNCHANGED <<stored, todo, survivors>>
  BY DEF LoopStep
<1>3. /\ TableStep /\ RunsAreNamed'
      /\ UNCHANGED external /\ DOMAIN processes' \subseteq DOMAIN processes
      /\ killRequested \cap DOMAIN processes' \subseteq killRequested'
  BY <1>1, LoopTableStep DEF SessionIInv, TableStep
<1>4. CASE app = "running"
  BY <1>2, <1>3, <1>4, RunningKeeps
<1>5. CASE app = "quitting"
  <2>1. DOMAIN external' = {} /\ DOMAIN processes' \subseteq killRequested'
    BY <1>3, <1>5 DEF SessionIInv, TablesOutside
  <2>2. TablesOutside'
    BY <1>2, <1>5, <2>1 DEF TablesOutside
  <2>3. \A i \in DOMAIN processes' : ~Alive(i)'
    BY <2>1 DEF IInv, StopIsFinal, Alive
  <2>4. QED
    BY <1>2, <1>3, <1>5, <2>2, <2>3, OutsideKeeps
<1>6. QED
  BY <1>2, <1>4, <1>5

LEMMA KernelKeeps ==
  ASSUME SessionIInv, SessionTypeOK, IInv, IInv', KernelStep
  PROVE  SessionIInv'
<1>1. PICK p \in Pids : Exec(p) \/ Exit(p) \/ StrangerComes(p) \/ StrangerGoes(p)
  BY DEF KernelStep
<1>2. UNCHANGED <<app, stored, todo, survivors>> /\ Track
  BY DEF KernelStep
<1>3. UNCHANGED <<processes, external, killRequested>>
  BY <1>1 DEF Exec, Exit, StrangerComes, StrangerGoes, Kernel
<1>4. TableStep /\ RunsAreNamed'
  BY <1>1, KernelSteps DEF SessionIInv, TableStep
<1>5. CASE app = "running"
  BY <1>2, <1>4, <1>5, RunningKeeps
<1>6. CASE app # "running"
  <2>1. TablesOutside'
    BY <1>2, <1>3 DEF SessionIInv, TablesOutside, Records
  <2>2. \A i \in DOMAIN processes' : ~Alive(i)'
    BY <1>2, <1>3, <1>6 DEF SessionIInv, SessionTypeOK, App, TablesOutside, IInv, StopIsFinal, Alive
  <2>3. QED
    BY <1>2, <1>4, <1>6, <2>1, <2>2, OutsideKeeps
<1>7. QED
  BY <1>5, <1>6

(* The three ways to quit: what was left running is recorded, and what was *)
(* killed is nobody's.                                                     *)
LEMMA KillKillsAll ==
  ASSUME SessionIInv, IInv, IInv', QuitKill
  PROVE  ours' = {} /\ stored' = {} /\ RunsAreNamed' /\ TablesOutside'
<1>1. app = "running" /\ app' = "quitting" /\ stored' = {} /\ Track
  BY DEF QuitKill, Quit
<1>2. \A r \in ours : r \in runningProcesses
  BY <1>1 DEF SessionIInv, NothingForgotten
<1>3. \A r \in ours' : r \in ours \/ \E id \in DOMAIN processes' : Alive(id)' /\ r = Rec(processes'[id])
  BY <1>1, TrackFacts DEF IInv
<1>4. \A r \in ours' : os'[r.pid] \in Live
  BY <1>1, TrackFacts DEF IInv
<1>5. CASE KillAll
  <2> DEFINE ids == DOMAIN processes \cup DOMAIN external
  <2>1. /\ os' = AfterKill(ids) /\ external' = Without(external, ids) /\ UNCHANGED processes
        /\ killRequested' = killRequested \cup (ids \cap DOMAIN processes)
    BY <1>5 DEF KillAll, StopRuns, Stopped
  <2>2. DOMAIN external' = {} /\ DOMAIN processes' \subseteq killRequested'
    BY <2>1 DEF Without, Restrict
  <2>3. ASSUME NEW r \in runningProcesses PROVE os'[r.pid] \notin Live
    <3>1. ASSUME NEW id \in DOMAIN processes, processes[id].pid # NoPid, r = Rec(processes[id])
          PROVE  os'[r.pid] \notin Live
      <4>1. processes[id].pid \in Pids
        BY <3>1 DEF IInv, TypeOK, Proc
      <4>2. QED
        BY <2>1, <3>1, <4>1, KillFacts DEF IInv, Rec
    <3>2. ASSUME NEW id \in DOMAIN external, r = Rec(external[id])
          PROVE  os'[r.pid] \notin Live
      BY <2>1, <3>2, KillFacts DEF IInv, Rec
    <3>3. QED
      BY <3>1, <3>2, InRunning
  <2>4. \A id \in DOMAIN processes' : ~Alive(id)'
    BY <2>2 DEF IInv, StopIsFinal, Alive
  <2>5. ours' = {}
    BY <1>2, <1>3, <1>4, <2>3, <2>4
  <2>6. QED
    BY <1>1, <2>1, <2>2, <2>5 DEF SessionIInv, RunsAreNamed, TablesOutside
<1>6. CASE NothingTracked /\ UNCHANGED vars
  <2>1. DOMAIN processes = {} /\ DOMAIN external = {} /\ UNCHANGED <<processes, external, os>>
    BY <1>6 DEF NothingTracked, vars
  <2>2. runningProcesses = {}
    BY <2>1, InRunning
  <2>3. ours' = {}
    BY <1>2, <1>3, <2>1, <2>2
  <2>4. QED
    BY <1>1, <2>1, <2>3 DEF RunsAreNamed, TablesOutside
<1>7. QED
  BY <1>5, <1>6 DEF QuitKill

LEMMA QuitKeeps ==
  ASSUME SessionIInv, IInv, IInv', QuitIdle \/ QuitKill \/ QuitLeave
  PROVE  SessionIInv'
<1>1. app = "running" /\ app' = "quitting"
  BY DEF QuitIdle, QuitKill, QuitLeave, Quit
<1>2. \A r \in ours : r \in runningProcesses
  BY <1>1 DEF SessionIInv, NothingForgotten
<1>3. CASE QuitKill
  <2>1. ours' = {} /\ stored' = {} /\ RunsAreNamed' /\ TablesOutside'
    BY <1>3, KillKillsAll
  <2>2. \A id \in DOMAIN processes' : Alive(id)' => FALSE
    <3>1. Track
      BY <1>3 DEF QuitKill
    <3>2. QED
      BY <2>1, <3>1, TrackFacts DEF IInv
  <2>3. OursLive' /\ OwnRunsAreOurs' /\ NothingForgotten'
    BY <2>1, <2>2 DEF OursLive, OwnRunsAreOurs, NothingForgotten
  <2>4. QED
    BY <2>1, <2>3, ShrinkKeeps
<1>4. CASE QuitIdle
  <2>1. DOMAIN processes = {} /\ DOMAIN external = {} /\ UNCHANGED <<processes, external, os, ours>>
    BY <1>4 DEF QuitIdle, NothingTracked, vars
  <2>2. runningProcesses = {}
    BY <2>1, InRunning
  <2>3. ours' = {}
    BY <1>2, <2>1, <2>2
  <2>4. TablesOutside' /\ RunsAreNamed' /\ OwnRunsAreOurs'
    BY <1>1, <2>1 DEF TablesOutside, RunsAreNamed, OwnRunsAreOurs
  <2>5. OursLive' /\ NothingForgotten'
    BY <2>3 DEF OursLive, NothingForgotten
  <2>6. QED
    BY <2>1, <2>4, <2>5, ShrinkKeeps
<1>5. CASE QuitLeave
  <2>1. stored' = runningProcesses /\ Track
    BY <1>5 DEF QuitLeave
  <2>2. DOMAIN processes' = {} /\ DOMAIN external' = {}
    BY <1>5 DEF QuitLeave, DetachAll, NothingTracked, vars, Without, Restrict
  <2>3. ours' \subseteq ours /\ \A r \in ours' : os'[r.pid] \in Live
    BY <2>1, <2>2, TrackFacts DEF IInv
  <2>4. TablesOutside' /\ RunsAreNamed' /\ OwnRunsAreOurs'
    BY <1>1, <2>2 DEF TablesOutside, RunsAreNamed, OwnRunsAreOurs
  <2>5. OursLive' /\ NothingForgotten'
    BY <1>1, <1>2, <2>1, <2>3 DEF OursLive, NothingForgotten
  <2>6. QED
    BY <2>3, <2>4, <2>5, ShrinkKeeps
<1>6. QED
  BY <1>3, <1>4, <1>5

(* The end of the app, prepared or not.                                    *)
LEMMA EndKeeps ==
  ASSUME SessionIInv, IInv, IInv', Ended \/ Crash
  PROVE  SessionIInv'
<1>1. /\ DOMAIN processes' = {} /\ DOMAIN external' = {} /\ app' = "down" /\ UNCHANGED stored
  BY GoDownFresh DEF Ended, Crash, GoDown
<1>2. ours' \subseteq ours /\ ours' \subseteq stored /\ \A r \in ours' : os'[r.pid] \in Live
  <2>1. CASE Ended
    <3>1. ours' \subseteq ours /\ \A r \in ours' : os'[r.pid] \in Live
      BY <1>1, <2>1, TrackFacts DEF Ended, IInv
    <3>2. app = "quitting"
      BY <2>1 DEF Ended
    <3>3. QED
      BY <3>1, <3>2 DEF SessionIInv, NothingForgotten
  <2>2. CASE Crash
    BY <2>2 DEF Crash, Live
  <2>3. QED
    BY <2>1, <2>2
<1>3. TablesOutside' /\ RunsAreNamed' /\ OwnRunsAreOurs'
  BY <1>1 DEF TablesOutside, RunsAreNamed, OwnRunsAreOurs
<1>4. OursLive' /\ NothingForgotten'
  BY <1>1, <1>2 DEF OursLive, NothingForgotten
<1>5. QED
  BY <1>2, <1>3, <1>4, ShrinkKeeps

(* The start takes one record after the other from those to look at to     *)
(* those adopted, and drops only what no longer runs.                      *)
LEMMA StartKeeps ==
  ASSUME SessionIInv, SessionTypeOK, Start \/ Started
  PROVE  SessionIInv'
<1>1. UNCHANGED <<processes, external, killRequested, os, ours>>
  BY DEF Start, Started, vars
<1>2. OursLive' /\ RunsAreNamed' /\ OwnRunsAreOurs'
  BY <1>1 DEF SessionIInv, OursLive, RunsAreNamed, OwnRunsAreOurs, Alive
<1>3. CASE Start
  <2>1. app = "down" /\ app' = "starting" /\ todo' = stored /\ survivors' = {}
    BY <1>3 DEF Start, SessionTypeOK
  <2>2. TablesOutside'
    BY <1>1, <2>1 DEF SessionIInv, TablesOutside
  <2>3. NothingForgotten'
    BY <1>1, <2>1 DEF SessionIInv, NothingForgotten
  <2>4. QED
    BY <1>1, <1>2, <2>2, <2>3, ShrinkKeeps
<1>4. CASE Started
  <2>1. app = "starting" /\ app' = "running" /\ todo = {}
    BY <1>4 DEF Started
  <2>2. TablesOutside'
    BY <2>1 DEF TablesOutside
  <2>3. ours \subseteq survivors /\ survivors \subseteq Records(external)
    BY <2>1 DEF SessionIInv, NothingForgotten, TablesOutside
  <2>4. NothingForgotten'
    BY <1>1, <2>1, <2>3 DEF NothingForgotten, runningProcesses
  <2>5. QED
    BY <1>1, <1>2, <2>2, <2>4, ShrinkKeeps
<1>5. QED
  BY <1>3, <1>4

LEMMA AdoptKeeps ==
  ASSUME SessionIInv, SessionTypeOK, IInv, IInv', NEW r \in todo, Adopt(r)
  PROVE  SessionIInv'
<1>1. /\ app = "starting" /\ app' = app /\ Track /\ UNCHANGED <<stored, processes, killRequested>>
      /\ todo' \cup survivors' = todo \cup survivors
      /\ survivors' = survivors \cup {r}
  BY DEF Adopt, AdoptExternal
<1>2. DOMAIN processes' = {}
  BY <1>1 DEF SessionIInv, TablesOutside
<1>3. /\ DOMAIN external' = DOMAIN external \cup {nextId}
      /\ external'[nextId] = [command |-> r.command, pid |-> r.pid]
      /\ \A id \in DOMAIN external : external'[id] = external[id]
  <2>1. DOMAIN external = 1..(nextId - 1) /\ nextId \in Nat
        /\ external' = Put(external, nextId, [command |-> r.command, pid |-> r.pid])
    BY DEF Adopt, AdoptExternal, IInv, TypeOK
  <2>2. nextId \notin DOMAIN external
    BY <2>1
  <2>3. QED
    BY <2>1, <2>2 DEF Put
<1>4. r \in Record /\ r.pid # NoPid /\ r = [command |-> r.command, pid |-> r.pid]
  BY ConstantsAssumption DEF SessionTypeOK, Record
<1>5. survivors' \subseteq Records(external')
  <2>1. \A s : s \in Records(external) <=>
          \E id \in DOMAIN external : external[id].pid # NoPid /\ s = Rec(external[id])
    BY InRecords
  <2>2. \A s : s \in Records(external') <=>
          \E id \in DOMAIN external' : external'[id].pid # NoPid /\ s = Rec(external'[id])
    BY InRecords
  <2>3. r \in Records(external')
    BY <1>3, <1>4, <2>2 DEF Rec
  <2>4. Records(external) \subseteq Records(external')
    BY <1>3, <2>1, <2>2
  <2>5. QED
    BY <1>1, <2>3, <2>4 DEF SessionIInv, TablesOutside
<1>6. TablesOutside' /\ RunsAreNamed'
  BY <1>1, <1>2, <1>5 DEF TablesOutside, RunsAreNamed
<1>7. QED
  BY <1>1, <1>2, <1>6, OutsideKeeps

LEMMA SkipKeeps ==
  ASSUME SessionIInv, SessionTypeOK, NEW r \in todo, Skip(r)
  PROVE  SessionIInv'
<1>1. /\ app = "starting" /\ todo' = todo \ {r}
      /\ UNCHANGED <<processes, external, killRequested, os, app, stored, survivors, ours>>
  BY DEF Skip, vars
<1>2. r \notin ours
  <2>1. CASE r.command = NoCommand
    BY <2>1, ConstantsAssumption DEF SessionIInv, OursNamed
  <2>2. CASE os[r.pid] \in {"free", "stranger"}
    BY <2>2 DEF SessionIInv, OursLive, Live
  <2>3. QED
    BY <2>1, <2>2 DEF Skip
<1>3. NothingForgotten'
  BY <1>1, <1>2 DEF SessionIInv, NothingForgotten
<1>4. OursLive' /\ RunsAreNamed' /\ OwnRunsAreOurs' /\ TablesOutside'
  BY <1>1 DEF SessionIInv, OursLive, RunsAreNamed, OwnRunsAreOurs, Alive, TablesOutside, Records
<1>5. QED
  BY <1>1, <1>3, <1>4, ShrinkKeeps

LEMMA SessionKeeps ==
  /\ SessionInit => SessionIInv
  /\ IInv /\ IInv' /\ SessionTypeOK /\ SessionIInv /\ [SessionNext]_allVars => SessionIInv'
<1>1. SessionInit => SessionIInv
  BY DEF SessionInit, Init, SessionIInv, RunsAreNamed, OursNamed, OursLive, OwnRunsAreOurs,
         TablesOutside, NothingForgotten, SingleAcrossSessions
<1>2. ASSUME IInv, IInv', SessionTypeOK, SessionIInv, [SessionNext]_allVars PROVE SessionIInv'
  <2>1. CASE UserStep \/ LoopStep \/ KernelStep
    BY <1>2, <2>1, UserKeeps, LoopKeepsSession, KernelKeeps
  <2>2. CASE QuitIdle \/ QuitKill \/ QuitLeave \/ Ended \/ Crash
    BY <1>2, <2>2, QuitKeeps, EndKeeps
  <2>3. CASE Start \/ Started
    BY <1>2, <2>3, StartKeeps
  <2>4. CASE \E r \in todo : Adopt(r) \/ Skip(r)
    BY <1>2, <2>4, AdoptKeeps, SkipKeeps
  <2>5. CASE UNCHANGED allVars
    <3>1. UNCHANGED <<processes, external, killRequested, os, ours, app, stored, todo, survivors>>
      BY <2>5 DEF allVars, vars, sessionVars
    <3>2. OursLive' /\ OursNamed' /\ RunsAreNamed' /\ OwnRunsAreOurs' /\ SingleAcrossSessions'
      BY <1>2, <3>1 DEF SessionIInv, OursLive, OursNamed, RunsAreNamed, OwnRunsAreOurs, Alive,
                        SingleAcrossSessions
    <3>3. TablesOutside' /\ NothingForgotten'
      BY <1>2, <3>1 DEF SessionIInv, TablesOutside, NothingForgotten, runningProcesses, Records
    <3>4. QED
      BY <3>2, <3>3 DEF SessionIInv
  <2>6. QED
    BY <1>2, <2>1, <2>2, <2>3, <2>4, <2>5 DEF SessionNext
<1>3. QED
  BY <1>1, <1>2

(* What trun knows of the programs it launched, in every session: they are *)
(* in its tables, in the settings or in the list its start works off, and  *)
(* a quit leaves nothing behind that it did not record or kill.            *)
THEOREM SessionInvariant == SessionSpec => [](IInv /\ SessionTypeOK /\ SessionIInv)
  BY SessionInduction, SessionKeeps, PTL DEF SessionSpec

(* README "Leave running": no program trun launched gets out of its sight, *)
(* for any number of sessions and runs, however the sessions ended.        *)
THEOREM NothingIsForgotten == SessionSpec => []NothingForgotten
<1>1. SessionIInv => NothingForgotten
  BY DEF SessionIInv
<1>2. QED
  BY <1>1, SessionInvariant, PTL

(* A command that may not run several times has at most one program alive  *)
(* over all sessions, the one left running by an earlier session included. *)
THEOREM SingleOverSessions == SessionSpec => []SingleAcrossSessions
<1>1. SessionIInv => SingleAcrossSessions
  BY DEF SessionIInv
<1>2. QED
  BY <1>1, SessionInvariant, PTL

(* When the start is over, main() has reattached to every program that was *)
(* left running and still runs, each under its own command.                *)
THEOREM StartReattaches == SessionSpec => Reattached
<1>1. IInv /\ SessionTypeOK /\ SessionIInv => (Started => stored \cap ours \subseteq Range(external))
  <2> SUFFICES ASSUME IInv, SessionIInv, Started, NEW r \in ours PROVE r \in Range(external)
    OBVIOUS
  <2>1. r \in Records(external)
    BY DEF Started, SessionIInv, NothingForgotten, TablesOutside
  <2>2. PICK id \in DOMAIN external : r = Rec(external[id])
    BY <2>1, InRecords
  <2>3. external[id] \in ExternalProc
    BY DEF IInv, TypeOK
  <2>4. r = external[id]
    BY <2>2, <2>3 DEF Rec, ExternalProc
  <2>5. QED
    BY <2>4 DEF Range
<1>2. IInv /\ SessionTypeOK /\ SessionIInv /\ [SessionNext]_allVars
        => [Started => stored \cap ours \subseteq Range(external)]_allVars
  BY <1>1
<1>3. QED
  BY <1>2, SessionInvariant, PTL DEF SessionSpec, Reattached

(* The quit that kills leaves no program of trun's alive and no record of  *)
(* one, whichever session launched it.                                     *)
THEOREM KillIsComplete == SessionSpec => KillLeavesNothing
<1>1. IInv /\ IInv' /\ SessionIInv => (QuitKill => ours' = {} /\ stored' = {})
  BY KillKillsAll
<1>2. QED
  BY <1>1, SessionInvariant, PTL DEF SessionSpec, KillLeavesNothing
=============================================================================
