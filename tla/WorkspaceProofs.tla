---------------------------- MODULE WorkspaceProofs ----------------------------
(***************************************************************************)
(* The copies of the workspace agree, the user's commands are listed once, *)
(* and discoveries of a project never overlap: for any folders, edits,     *)
(* scans, starts and commands.                                             *)
(***************************************************************************)
EXTENDS Workspace, FiniteSetTheorems, WellFoundedInduction, TLAPS

(* The commands that project p has to list, when a scan found projects T.  *)
Owed(T, cs, p) == IF p = Target(T, p.folder) THEN IdsIn(cs, p.folder) ELSE {}

With(d, ids) == [d EXCEPT !.customs = ids]

(* What is shown lists what it owes; what a scan found never lists more.   *)
CustomsAtTarget ==
  /\ \A p \in DOMAIN scanned : scanned[p].customs \subseteq Owed(DOMAIN scanned, customs, p)
  /\ projects # Empty =>
       /\ \A p \in DOMAIN projects : projects[p].customs = Owed(DOMAIN scanned, customs, p)
       /\ \A c \in customs : Target(DOMAIN scanned, c.folder) \in DOMAIN projects

(* The settings hold none of them.                                         *)
StoredStripped == \A p \in DOMAIN stored.projects : stored.projects[p].customs = {}

(* An app that is down has nothing in memory, and nothing under way.       *)
DownIsEmpty ==
  app = "down" =>
    /\ projects = Empty /\ scanned = Empty /\ active = Empty /\ roots = {}
    /\ inFlight = {} /\ DOMAIN jobs = {} /\ DOMAIN processes = {}

(* The one discovery of each path in m_consoleInFlight.                    *)
OneDiscovery ==
  /\ \A j \in DOMAIN jobs : j[1] \in inFlight
  /\ \A i, j \in DOMAIN jobs : i[1] = j[1] => i = j
  /\ \A f \in inFlight : \E s \in Slots : <<f, s>> \in DOMAIN jobs
  /\ \A f \in DOMAIN processes : <<f, processes[f]>> \in DOMAIN jobs

WorkspaceIInv ==
  /\ WorkspaceTypeOK
  /\ IsFiniteSet(customs)
  /\ CopiesAgree /\ SelectionFresh /\ CacheCurrent
  /\ CustomsAtTarget /\ StoredStripped
  /\ DownIsEmpty
  /\ OneDiscovery

-----------------------------------------------------------------------------
(* The project that takes a folder's commands, which is made up only when  *)
(* the scan found none there.                                              *)
LEMMA TargetFacts ==
  ASSUME NEW T \in SUBSET Scannable, NEW f \in Folders
  PROVE  /\ Target(T, f) \in Projects /\ Target(T, f).folder = f
         /\ Target(T, f) \in Scannable => Target(T, f) \in T
<1>1. Package(f) \in Scannable /\ Composer(f) \in Scannable /\ Pseudo(f) \in Projects
      /\ Scannable \subseteq Projects
  BY DEF Scannable, Projects
<1>2. Pseudo(f) \notin Scannable
  BY DEF Pseudo, Scannable, Package, Composer
<1>3. Package(f).folder = f /\ Composer(f).folder = f /\ Pseudo(f).folder = f
  BY DEF Package, Composer, Pseudo
<1>4. Target(T, f) \in {Package(f), Composer(f), Pseudo(f)}
      /\ (Target(T, f) = Package(f) => Package(f) \in T)
      /\ (Target(T, f) = Composer(f) => Composer(f) \in T)
  <2>1. CASE Package(f) \in T
    BY <2>1 DEF Target, Package, Composer
  <2>2. CASE Package(f) \notin T /\ Composer(f) \in T
    BY <2>2 DEF Target, Package, Composer
  <2>3. CASE Package(f) \notin T /\ Composer(f) \notin T
    BY <2>3 DEF Target, Package, Composer, Pseudo
  <2>4. QED
    BY <2>1, <2>2, <2>3
<1>5. QED
  BY <1>1, <1>2, <1>3, <1>4

(* Every project is in one folder.                                         *)
LEMMA FolderOf == \A p \in Projects : p.folder \in Folders
BY DEF Projects, Scannable, Package, Composer, Pseudo

(* mergeCustomCommands() gives each project what it owes, and only that.   *)
LEMMA MergedFacts ==
  ASSUME NEW T \in SUBSET Scannable, NEW t \in [T -> Data], NEW cs \in SUBSET Custom,
         \A p \in T : t[p].customs \subseteq Owed(T, cs, p)
  PROVE  LET P == Merged(t, cs) IN
         /\ DOMAIN P \subseteq Projects /\ P \in [DOMAIN P -> Data]
         /\ DOMAIN P \cap Scannable = T
         /\ \A c \in cs : Target(T, c.folder) \in DOMAIN P
         /\ \A p \in DOMAIN P : P[p].customs = Owed(T, cs, p)
         /\ \A p \in T : P[p] = With(t[p], Owed(T, cs, p))
<1> DEFINE P == Merged(t, cs)
           targets == {Target(T, c.folder) : c \in cs}
           base(p) == IF p \in T THEN t[p] ELSE Found
<1>1. \A c \in cs : c.folder \in Folders /\ c.id \in CustomIds
  BY DEF Custom
<1>2. DOMAIN t = T
  OBVIOUS
<1>3. P = [p \in T \cup targets |->
             IF p \in targets THEN [base(p) EXCEPT !.customs = @ \cup IdsIn(cs, p.folder)]
                              ELSE base(p)]
  BY <1>2 DEF Merged
<1> HIDE DEF P
<1>4. DOMAIN P = T \cup targets
  BY <1>3
<1>5. targets \subseteq Projects /\ targets \cap Scannable \subseteq T
  BY <1>1, TargetFacts
<1>6. \A p \in targets : p = Target(T, p.folder)
  BY <1>1, TargetFacts
<1>7. \A p \in Projects : IdsIn(cs, p.folder) \in SUBSET CustomIds
                         /\ Owed(T, cs, p) \in SUBSET CustomIds
  BY <1>1 DEF IdsIn, Owed
<1>8. Found \in Data
  BY DiscoveryAssumption DEF Found, Data, NoList, NoCache, MaxVersion
<1>9. \A p \in DOMAIN P : base(p) \in Data /\ base(p).customs \subseteq Owed(T, cs, p)
  <2>1. \A p \in T : base(p) = t[p]
    OBVIOUS
  <2>2. \A p \in DOMAIN P \ T : base(p) = Found
    OBVIOUS
  <2>3. QED
    BY <1>8, <2>1, <2>2 DEF Found
<1>10. \A p \in DOMAIN P : P[p] = [base(p) EXCEPT !.customs = Owed(T, cs, p)]
  <2> SUFFICES ASSUME NEW p \in DOMAIN P
               PROVE  P[p] = [base(p) EXCEPT !.customs = Owed(T, cs, p)]
    OBVIOUS
  <2> HIDE DEF base
  <2>1. CASE p \in targets
    <3>1. Owed(T, cs, p) = IdsIn(cs, p.folder)
      BY <2>1, <1>6 DEF Owed
    <3>2. P[p] = [base(p) EXCEPT !.customs = base(p).customs \cup IdsIn(cs, p.folder)]
      BY <1>3, <1>4, <1>9, <2>1 DEF Data
    <3>3. base(p).customs \cup IdsIn(cs, p.folder) = Owed(T, cs, p)
      BY <1>9, <3>1
    <3>4. QED
      BY <3>2, <3>3
  <2>2. CASE p \notin targets
    <3>1. Owed(T, cs, p) = {}
      <4>1. p = Target(T, p.folder) => IdsIn(cs, p.folder) = {}
        BY <2>2 DEF IdsIn
      <4>2. QED
        BY <4>1 DEF Owed
    <3>2. P[p] = base(p) /\ base(p).customs = {}
      BY <1>3, <1>4, <1>9, <2>2, <3>1
    <3>3. [base(p) EXCEPT !.customs = {}] = base(p)
      BY <1>9, <3>2 DEF Data
    <3>4. QED
      BY <3>1, <3>2, <3>3
  <2>3. QED
    BY <2>1, <2>2
<1>11. DOMAIN P \subseteq Projects
  BY <1>4, <1>5 DEF Projects
<1>12. P \in [DOMAIN P -> Data]
  <2> HIDE DEF base
  <2>1. \A p \in DOMAIN P : P[p] \in Data
    BY <1>7, <1>9, <1>10, <1>11 DEF Data
  <2>2. P = [p \in DOMAIN P |-> P[p]]
    BY <1>3
  <2>3. QED
    BY <2>1, <2>2
<1>13. DOMAIN P \cap Scannable = T
  BY <1>4, <1>5
<1>14. \A p \in DOMAIN P : P[p].customs = Owed(T, cs, p)
  <2> HIDE DEF base
  <2>1. QED
    BY <1>9, <1>10 DEF Data
<1>15. \A p \in T : P[p] = With(t[p], Owed(T, cs, p))
  <2>1. \A p \in T : P[p] = [t[p] EXCEPT !.customs = Owed(T, cs, p)]
    BY <1>4, <1>10
  <2>2. QED
    BY <2>1 DEF With
<1>16. QED
  BY <1>4, <1>11, <1>12, <1>13, <1>14, <1>15 DEF P

(* refreshConsoleDiscovery() changes lists, marks and caches, of projects  *)
(* whose list is not valid or whose framework is gone.                     *)
LEMMA RefreshedFacts ==
  ASSUME NEW D \in SUBSET Projects, NEW P \in [D -> Data], NEW R, R = Refreshed(P)
  PROVE  /\ R \in [D -> Data]
         /\ \A p \in D : R[p].customs = P[p].customs
         /\ \A p \in D : p \notin Outdated(P) \cup Frameless(P) => R[p] = P[p]
         /\ Outdated(P) \cup Frameless(P) = {} => R = P
<1>1. DOMAIN P = D
  OBVIOUS
<1>2. R = [p \in D |-> IF p \in Outdated(P) \cup Frameless(P)
                      THEN [P[p] EXCEPT !.list = NoList, !.cache = NoCache,
                                        !.loading = p \in Outdated(P)]
                      ELSE P[p]]
  BY <1>1 DEF Refreshed
<1>3. NoList \in 0..MaxVersion /\ NoCache \in 0..MaxVersion
  BY DiscoveryAssumption DEF NoList, NoCache, MaxVersion
<1>4. \A p \in D : R[p] \in Data /\ R[p].customs = P[p].customs
  <2> SUFFICES ASSUME NEW p \in D PROVE R[p] \in Data /\ R[p].customs = P[p].customs
    OBVIOUS
  <2>1. PICK b \in BOOLEAN : b = (p \in Outdated(P))
    <3>1. CASE p \in Outdated(P)
      <4>1. TRUE = (p \in Outdated(P))
        BY <3>1
      <4>2. QED
        BY <4>1
    <3>2. CASE p \notin Outdated(P)
      <4>1. FALSE = (p \in Outdated(P))
        BY <3>2
      <4>2. QED
        BY <4>1
    <3>3. QED
      BY <3>1, <3>2
  <2>2. R[p] \in {P[p], [P[p] EXCEPT !.list = NoList, !.cache = NoCache, !.loading = b]}
    BY <1>2, <2>1
  <2>3. P[p] \in Data
    OBVIOUS
  <2>4. [P[p] EXCEPT !.list = NoList, !.cache = NoCache, !.loading = b] \in Data
        /\ [P[p] EXCEPT !.list = NoList, !.cache = NoCache, !.loading = b].customs = P[p].customs
    BY <1>3, <2>3 DEF Data
  <2>5. QED
    BY <2>2, <2>3, <2>4
<1>5. R \in [D -> Data]
  BY <1>2, <1>4
<1>6. \A p \in D : p \notin Outdated(P) \cup Frameless(P) => R[p] = P[p]
  BY <1>2
<1>7. Outdated(P) \cup Frameless(P) = {} => R = P
  BY <1>2
<1>8. QED
  BY <1>4, <1>5, <1>6, <1>7

(* Two tables that differ in the user's commands only are stored alike.    *)
LEMMA StrippedFacts ==
  ASSUME NEW D, NEW t \in [D -> Data]
  PROVE  /\ DOMAIN Stripped(t) = D \cap Scannable
         /\ Stripped(t) \in [D \cap Scannable -> Data]
         /\ \A p \in D \cap Scannable : Stripped(t)[p] = With(t[p], {})
         /\ \A p \in D \cap Scannable : Stripped(t)[p].customs = {}
<1>1. DOMAIN t = D
  OBVIOUS
<1>2. Stripped(t) = [p \in D \cap Scannable |-> [t[p] EXCEPT !.customs = {}]]
  BY <1>1 DEF Stripped
<1>3. \A p \in D : [t[p] EXCEPT !.customs = {}] \in Data /\ [t[p] EXCEPT !.customs = {}].customs = {}
  BY DEF Data
<1>4. QED
  BY <1>2, <1>3 DEF With

(* Projects that are equal without their commands stay so.                 *)
LEMMA StrippedEqual ==
  ASSUME NEW D, NEW E, NEW t \in [D -> Data], NEW u \in [E -> Data],
         D \cap Scannable = E \cap Scannable,
         \A p \in D \cap Scannable :
           With(t[p], {}) = With(u[p], {})
  PROVE  Stripped(t) = Stripped(u)
<1>1. Stripped(t) = [p \in D \cap Scannable |-> With(t[p], {})]
  BY DEF Stripped, With
<1>2. Stripped(u) = [p \in E \cap Scannable |-> With(u[p], {})]
  BY DEF Stripped, With
<1>3. QED
  BY <1>1, <1>2

(* The first free id: fewer commands than ids leave one.                   *)
LEMMA FreeIdFacts ==
  ASSUME IsFiniteSet(customs), Cardinality(customs) < MaxCustoms, NEW f,
         Taken(f) \subseteq {c.id : c \in customs}
  PROVE  FreeId(f) \in CustomIds /\ FreeId(f) \notin Taken(f)
<1> DEFINE Free == CustomIds \ Taken(f)
<1>1. Free # {}
  <2> SUFFICES ASSUME Free = {} PROVE FALSE
    OBVIOUS
  <2> DEFINE h == [k \in CustomIds |-> CHOOSE c \in customs : c.id = k]
  <2>1. \A k \in CustomIds : h[k] \in customs /\ h[k].id = k
    OBVIOUS
  <2>2. IsFiniteSet(CustomIds) /\ Cardinality(CustomIds) = MaxCustoms
    BY FS_Interval, WorkspaceAssumption DEF CustomIds
  <2>3. h \in [CustomIds -> customs]
    BY <2>1
  <2>4. \E x, y \in CustomIds : x # y /\ h[x] = h[y]
    <3> HIDE DEF h
    <3>1. QED
      BY <2>2, <2>3, FS_PigeonHole
  <2>5. QED
    BY <2>1, <2>4
<1>2. \E k \in Free : \A i \in Free : k <= i
  <2>1. Free \subseteq Nat
    BY DEF CustomIds
  <2>2. \E k \in Free : \A i \in Free : ~ (<<i, k>> \in OpToRel(<, Nat))
    <3> HIDE DEF Free
    <3>1. QED
      BY <1>1, <2>1, NatLessThanWellFounded, WFMin
  <2>3. PICK k \in Free : \A i \in Free : ~ (<<i, k>> \in OpToRel(<, Nat))
    BY <2>2
  <2>4. \A i \in Free : ~ (i < k)
    BY <2>1, <2>3 DEF OpToRel
  <2>5. QED
    BY <2>1, <2>4
<1>3. \E k \in CustomIds : k \notin Taken(f) /\ \A i \in CustomIds : i \notin Taken(f) => k <= i
  BY <1>2
<1>4. QED
  BY <1>3 DEF FreeId

(* A path without a discovery takes the first slot.                        *)
LEMMA FreeSlotFacts ==
  ASSUME NEW f, \A s \in Slots : <<f, s>> \notin DOMAIN jobs
  PROVE  FreeSlot(f) \in Slots
<1>1. 1 \in Slots /\ \A t \in Slots : 1 <= t
  BY DiscoveryAssumption DEF Slots
<1>2. \E s \in Slots :
        <<f, s>> \notin DOMAIN jobs /\ \A t \in Slots : <<f, t>> \notin DOMAIN jobs => s <= t
  BY <1>1
<1>3. QED
  BY <1>2 DEF FreeSlot

(* What every part of a table's type says, in one word.                    *)
InMemoryTypeOK ==
  /\ DOMAIN projects \subseteq Projects /\ projects \in [DOMAIN projects -> Data]
  /\ DOMAIN scanned \subseteq Scannable /\ scanned \in [DOMAIN scanned -> Data]
  /\ customs \subseteq Custom
  /\ pins \subseteq Projects \X Commands
  /\ DOMAIN active \subseteq Projects /\ active \in [DOMAIN active -> Data]
  /\ inFlight \subseteq Folders

(* What is selected anew is a project that is shown.                       *)
LEMMA ReselectedFacts ==
  ASSUME NEW D \in SUBSET Projects, NEW P \in [D -> Data], active' = Reselected(P)
  PROVE  /\ DOMAIN active' \subseteq D /\ active' \in [DOMAIN active' -> Data]
         /\ \A p \in DOMAIN active' : active'[p] = P[p]
<1>1. active' = [p \in DOMAIN active \cap D |-> P[p]]
  BY DEF Reselected
<1>2. QED
  BY <1>1

(* New discoveries are of paths that had none.                             *)
LEMMA StartAllFacts ==
  ASSUME ConsoleTypeOK, inFlight \subseteq Folders, OneDiscovery, NEW S \in SUBSET (Folders \ inFlight),
         StartAll(S), inFlight' = inFlight \cup S, UNCHANGED <<console, edits>>
  PROVE  ConsoleTypeOK' /\ OneDiscovery'
<1> DEFINE new == {<<f, FreeSlot(f)>> : f \in S}
<1>1. \A f \in S : FreeSlot(f) \in Slots
  <2>1. \A f \in S : \A s \in Slots : <<f, s>> \notin DOMAIN jobs
    BY DEF OneDiscovery
  <2>2. QED
    BY <2>1, FreeSlotFacts
<1>2. /\ DOMAIN processes' = DOMAIN processes \cup S
      /\ processes' = [f \in DOMAIN processes \cup S |->
                         IF f \in S THEN FreeSlot(f) ELSE processes[f]]
  BY DEF StartAll
<1>3. /\ DOMAIN jobs' = DOMAIN jobs \cup new
      /\ jobs' = [j \in DOMAIN jobs \cup new |->
                    IF j \in new THEN [stage |-> "running", list |-> NoList] ELSE jobs[j]]
  BY DEF StartAll
<1>4. ConsoleTypeOK'
  <2>1. processes' \in [DOMAIN processes' -> Slots] /\ DOMAIN processes' \subseteq Folders
    BY <1>1, <1>2 DEF ConsoleTypeOK
  <2>2. new \subseteq Folders \X Slots
    BY <1>1
  <2>3. [stage |-> "running", list |-> NoList] \in [stage : Stage, list : 0..MaxVersion]
    BY DiscoveryAssumption DEF Stage, NoList, MaxVersion
  <2>4. DOMAIN jobs' \subseteq Folders \X Slots
    BY <1>3, <2>2 DEF ConsoleTypeOK
  <2>5. jobs' \in [DOMAIN jobs' -> [stage : Stage, list : 0..MaxVersion]]
    <3> HIDE DEF new
    <3>1. \A j \in DOMAIN jobs' : jobs'[j] \in [stage : Stage, list : 0..MaxVersion]
      BY <1>3, <2>3 DEF ConsoleTypeOK
    <3>2. QED
      BY <1>3, <3>1
  <2>6. QED
    BY <2>1, <2>4, <2>5 DEF ConsoleTypeOK
<1>5. OneDiscovery'
  <2>1. \A j \in new : j[1] \in S /\ j = <<j[1], FreeSlot(j[1])>>
    OBVIOUS
  <2>2. \A j \in DOMAIN jobs : j[1] \in inFlight
    BY DEF OneDiscovery
  <2>3. \A j \in DOMAIN jobs' : j[1] \in inFlight'
    BY <1>3, <2>1, <2>2
  <2>4. ASSUME NEW i \in DOMAIN jobs', NEW j \in DOMAIN jobs', i[1] = j[1] PROVE i = j
    <3>1. CASE i \in new
      <4>1. j \in new
        BY <1>3, <2>1, <2>2, <2>4, <3>1
      <4>2. QED
        BY <2>1, <2>4, <3>1, <4>1
    <3>2. CASE i \notin new
      <4>1. i \in DOMAIN jobs /\ j \notin new
        BY <1>3, <2>1, <2>2, <2>4, <3>2
      <4>2. j \in DOMAIN jobs
        BY <1>3, <4>1
      <4>3. QED
        BY <2>4, <4>1, <4>2 DEF OneDiscovery
    <3>3. QED
      BY <3>1, <3>2
  <2>5. ASSUME NEW f \in inFlight' PROVE \E s \in Slots : <<f, s>> \in DOMAIN jobs'
    <3>1. CASE f \in S
      BY <1>1, <1>3, <3>1
    <3>2. CASE f \in inFlight
      BY <1>3, <3>2 DEF OneDiscovery
    <3>3. QED
      BY <2>5, <3>1, <3>2
  <2>6. ASSUME NEW f \in DOMAIN processes' PROVE <<f, processes'[f]>> \in DOMAIN jobs'
    <3>1. CASE f \in S
      BY <1>2, <1>3, <3>1
    <3>2. CASE f \notin S
      BY <1>2, <1>3, <2>6, <3>2 DEF OneDiscovery
    <3>3. QED
      BY <3>1, <3>2
  <2>7. QED
    BY <2>3, <2>4, <2>5, <2>6 DEF OneDiscovery
<1>6. QED
  BY <1>4, <1>5

(* applyProjects() and refreshConsoleDiscovery(), of the table of a scan   *)
(* or of the cache.                                                        *)
LEMMA ApplyAndRefreshFacts ==
  ASSUME InMemoryTypeOK, ConsoleTypeOK, OneDiscovery,
         NEW T \in SUBSET Scannable, NEW t \in [T -> Data],
         \A p \in T : t[p].customs \subseteq Owed(T, customs, p),
         ApplyAndRefresh(t)
  PROVE  /\ InMemoryTypeOK' /\ ConsoleTypeOK'
         /\ CopiesAgree' /\ SelectionFresh' /\ CustomsAtTarget' /\ OneDiscovery'
         /\ UNCHANGED customs
         /\ DOMAIN scanned' = T
<1> DEFINE P == Merged(t, customs)
           R == Refreshed(P)
<1>1. /\ DOMAIN P \subseteq Projects /\ P \in [DOMAIN P -> Data]
      /\ DOMAIN P \cap Scannable = T
      /\ \A c \in customs : Target(T, c.folder) \in DOMAIN P
      /\ \A p \in DOMAIN P : P[p].customs = Owed(T, customs, p)
      /\ \A p \in T : P[p] = With(t[p], Owed(T, customs, p))
  <2>1. customs \in SUBSET Custom
    BY DEF InMemoryTypeOK
  <2>2. DOMAIN P \subseteq Projects /\ P \in [DOMAIN P -> Data]
    BY <2>1, MergedFacts
  <2>3. DOMAIN P \cap Scannable = T
    BY <2>1, MergedFacts
  <2>4. \A c \in customs : Target(T, c.folder) \in DOMAIN P
    BY <2>1, MergedFacts
  <2>5. \A p \in DOMAIN P : P[p].customs = Owed(T, customs, p)
    BY <2>1, MergedFacts
  <2>6. \A p \in T : P[p] = With(t[p], Owed(T, customs, p))
    <3> HIDE DEF P
    <3>1. \A p \in T : Merged(t, customs)[p] = With(t[p], Owed(T, customs, p))
      BY <2>1, MergedFacts
    <3>2. QED
      BY <3>1 DEF P
  <2>7. QED
    BY <2>2, <2>3, <2>4, <2>5, <2>6
<1>2. /\ projects' = R /\ pins' = Pruned(P) /\ active' = Reselected(R)
      /\ scanned' = IF Outdated(P) \cup Frameless(P) = {} THEN t ELSE [p \in T |-> R[p]]
      /\ inFlight' = inFlight \cup ToDiscover(P) /\ StartAll(ToDiscover(P))
      /\ UNCHANGED <<console, edits, customs>>
  BY DEF ApplyAndRefresh
<1> HIDE DEF P
<1>3. /\ R \in [DOMAIN P -> Data]
      /\ \A p \in DOMAIN P : R[p].customs = P[p].customs
      /\ Outdated(P) \cup Frameless(P) = {} => R = P
  BY <1>1, RefreshedFacts
<1> HIDE DEF R
<1>4. ConsoleTypeOK' /\ OneDiscovery'
  <2>1. ToDiscover(P) \in SUBSET (Folders \ inFlight)
    BY DEF ToDiscover
  <2>2. QED
    BY <1>2, <2>1, StartAllFacts DEF InMemoryTypeOK
<1>5. DOMAIN R = DOMAIN P /\ T \subseteq DOMAIN P
  BY <1>1, <1>3
<1>6. DOMAIN scanned' = T /\ scanned' \in [T -> Data]
  <2>1. [p \in T |-> R[p]] \in [T -> Data]
    BY <1>3, <1>5
  <2>2. QED
    BY <1>2, <2>1
<1>7. SelectionFresh' /\ DOMAIN active' \subseteq DOMAIN R /\ active' \in [DOMAIN active' -> Data]
  <2>1. /\ DOMAIN active' \subseteq DOMAIN P /\ active' \in [DOMAIN active' -> Data]
        /\ \A p \in DOMAIN active' : active'[p] = R[p]
    <3>1. DOMAIN P \in SUBSET Projects /\ R \in [DOMAIN P -> Data] /\ active' = Reselected(R)
      BY <1>1, <1>2, <1>3
    <3>2. DOMAIN active' \subseteq DOMAIN P
      BY <3>1, ReselectedFacts
    <3>3. active' \in [DOMAIN active' -> Data]
      BY <3>1, ReselectedFacts
    <3>4. \A p \in DOMAIN active' : active'[p] = R[p]
      BY <3>1, ReselectedFacts
    <3>5. QED
      BY <3>2, <3>3, <3>4
  <2>2. QED
    BY <1>2, <1>5, <2>1 DEF SelectionFresh
<1>8. InMemoryTypeOK'
  <2>1. pins' \subseteq Projects \X Commands
    BY <1>2 DEF Pruned, InMemoryTypeOK
  <2>2. inFlight' \subseteq Folders
    BY <1>2 DEF ToDiscover, InMemoryTypeOK
  <2>3. QED
    BY <1>1, <1>2, <1>3, <1>5, <1>6, <1>7, <2>1, <2>2 DEF InMemoryTypeOK
<1>9. CopiesAgree'
  <2>1. DOMAIN scanned' = DOMAIN projects' \cap Scannable
    BY <1>1, <1>2, <1>5, <1>6
  <2>2. \A p \in T : With(scanned'[p], {}) = With(R[p], {})
    <3>1. CASE Outdated(P) \cup Frameless(P) = {}
      <4>1. scanned' = t /\ R = P
        BY <1>2, <1>3, <3>1
      <4>2. \A p \in T : With(t[p], {}) = With(P[p], {})
        BY <1>1, ZenonT(60) DEF Data, With
      <4>3. QED
        BY <4>1, <4>2
    <3>2. CASE Outdated(P) \cup Frameless(P) # {}
      BY <1>2, <3>2
    <3>3. QED
      BY <3>1, <3>2
  <2>3. Stripped(scanned') = Stripped(projects')
    <3>1. scanned' \in [T -> Data] /\ R \in [DOMAIN P -> Data]
      BY <1>3, <1>6
    <3>2. T \cap Scannable = T
      OBVIOUS
    <3>3. T \cap Scannable = DOMAIN P \cap Scannable
      BY <1>1, <3>2
    <3>4. Stripped(scanned') = Stripped(R)
      <4>1. \A p \in T \cap Scannable : With(scanned'[p], {}) = With(R[p], {})
        BY <2>2
      <4>2. QED
        BY <3>1, <3>3, <4>1, StrippedEqual
    <3>5. QED
      BY <1>2, <3>4
  <2>4. QED
    BY <2>1, <2>3 DEF CopiesAgree, Stripped
<1>10. CustomsAtTarget'
  <2>1. ASSUME NEW p \in T PROVE scanned'[p].customs \subseteq Owed(T, customs, p)
    <3>1. CASE Outdated(P) \cup Frameless(P) = {}
      BY <1>2, <3>1
    <3>2. CASE Outdated(P) \cup Frameless(P) # {}
      BY <1>1, <1>2, <1>3, <1>5, <3>2
    <3>3. QED
      BY <3>1, <3>2
  <2>2. \A p \in DOMAIN projects' : projects'[p].customs = Owed(T, customs, p)
    BY <1>1, <1>2, <1>3, <1>5
  <2>3. \A c \in customs : Target(T, c.folder) \in DOMAIN projects'
    BY <1>1, <1>2, <1>5
  <2>4. QED
    BY <1>2, <1>6, <2>1, <2>2, <2>3, ZenonT(60) DEF CustomsAtTarget, Owed, IdsIn, Target
<1>11. QED
  BY <1>2, <1>4, <1>6, <1>7, <1>8, <1>9, <1>10

-----------------------------------------------------------------------------
SessionTypeOK ==
  /\ app \in {"down", "restoring", "running"} /\ starts \in 0..MaxStarts
  /\ rescan \subseteq Folders /\ roots \subseteq Folders
  /\ stored.roots \subseteq Folders
  /\ DOMAIN stored.projects \subseteq Scannable
  /\ stored.projects \in [DOMAIN stored.projects -> Data]

(* The types, part by part.                                                *)
LEMMA TypeParts == WorkspaceTypeOK <=> ConsoleTypeOK /\ InMemoryTypeOK /\ SessionTypeOK
BY DEF WorkspaceTypeOK, InMemoryTypeOK, SessionTypeOK

(* persistWorkspace() saves what is on the screen, without the user's own. *)
LEMMA PersistFacts ==
  ASSUME InMemoryTypeOK', Persist, roots' \subseteq Folders
  PROVE  /\ stored'.roots \subseteq Folders
         /\ DOMAIN stored'.projects \subseteq Scannable
         /\ stored'.projects \in [DOMAIN stored'.projects -> Data]
         /\ StoredStripped' /\ CacheCurrent'
<1>1. stored'.roots = roots' /\ stored'.projects = Stripped(projects')
  BY DEF Persist
<1>2. projects' \in [DOMAIN projects' -> Data]
  BY DEF InMemoryTypeOK
<1>3. /\ DOMAIN stored'.projects = DOMAIN projects' \cap Scannable
      /\ stored'.projects \in [DOMAIN projects' \cap Scannable -> Data]
      /\ \A p \in DOMAIN stored'.projects : stored'.projects[p].customs = {}
  <2>1. DOMAIN Stripped(projects') = DOMAIN projects' \cap Scannable
    BY <1>2, StrippedFacts
  <2>2. Stripped(projects') \in [DOMAIN projects' \cap Scannable -> Data]
    BY <1>2, StrippedFacts
  <2>3. \A p \in DOMAIN projects' \cap Scannable : Stripped(projects')[p].customs = {}
    BY <1>2, StrippedFacts
  <2>4. QED
    BY <1>1, <2>1, <2>2, <2>3
<1>4. CacheCurrent'
  BY DEF Persist, CacheCurrent, Stripped
<1>5. QED
  BY <1>1, <1>3, <1>4 DEF StoredStripped

(* A scan replaces its own projects by what it finds, without commands.    *)
LEMMA RescannedFacts ==
  ASSUME InMemoryTypeOK, NEW r \in Folders
  PROVE  /\ Elsewhere(r) \cup FoundUnder(r) \in SUBSET Scannable
         /\ Rescanned(r) \in [Elsewhere(r) \cup FoundUnder(r) -> Data]
         /\ \A p \in Elsewhere(r) \cup FoundUnder(r) : Rescanned(r)[p].customs = {}
<1>1. Elsewhere(r) \subseteq DOMAIN projects /\ Elsewhere(r) \cup FoundUnder(r) \subseteq Scannable
  BY DEF Elsewhere, FoundUnder
<1>2. \A p \in Elsewhere(r) : [projects[p] EXCEPT !.customs = {}] \in Data
                            /\ [projects[p] EXCEPT !.customs = {}].customs = {}
  BY <1>1 DEF InMemoryTypeOK, Data
<1>3. Found \in Data /\ Found.customs = {}
  BY DiscoveryAssumption DEF Found, Data, NoList, NoCache, MaxVersion
<1>4. \A p \in Elsewhere(r) \cup FoundUnder(r) :
        Rescanned(r)[p] = IF p \in Elsewhere(r) THEN [projects[p] EXCEPT !.customs = {}] ELSE Found
  BY DEF Rescanned
<1>5. \A p \in Elsewhere(r) \cup FoundUnder(r) :
        Rescanned(r)[p] \in Data /\ Rescanned(r)[p].customs = {}
  BY <1>2, <1>3, <1>4
<1>6. Rescanned(r) \in [Elsewhere(r) \cup FoundUnder(r) -> Data]
  <2>1. Rescanned(r) = [p \in Elsewhere(r) \cup FoundUnder(r) |-> Rescanned(r)[p]]
    BY DEF Rescanned
  <2>2. QED
    BY <1>5, <2>1
<1>7. QED
  BY <1>1, <1>5, <1>6

(* A scan keeps the invariant.                                             *)
LEMMA ScanIInv ==
  ASSUME WorkspaceIInv, NEW r \in Folders, Scan(r), UNCHANGED starts,
         app' \in {"restoring", "running"}, rescan' \subseteq Folders
  PROVE  WorkspaceIInv'
<1> DEFINE T == Elsewhere(r) \cup FoundUnder(r)
<1>1. ConsoleTypeOK /\ InMemoryTypeOK /\ SessionTypeOK /\ OneDiscovery
  BY TypeParts DEF WorkspaceIInv
<1>2. T \in SUBSET Scannable /\ Rescanned(r) \in [T -> Data]
  BY <1>1, RescannedFacts
<1>3. \A p \in T : Rescanned(r)[p].customs \subseteq Owed(T, customs, p)
  <2>1. \A p \in T : Rescanned(r)[p].customs = {}
    BY <1>1, RescannedFacts
  <2>2. QED
    BY <2>1
<1>4. ApplyAndRefresh(Rescanned(r)) /\ roots' = roots \cup {r}
      /\ (DOMAIN projects' # {} => Persist) /\ (DOMAIN projects' = {} => UNCHANGED stored)
  BY DEF Scan
<1> HIDE DEF T
<1>5. /\ InMemoryTypeOK' /\ ConsoleTypeOK' /\ CopiesAgree' /\ SelectionFresh'
      /\ CustomsAtTarget' /\ OneDiscovery' /\ UNCHANGED customs
  BY <1>1, <1>2, <1>3, <1>4, ApplyAndRefreshFacts
<1>6. roots' \subseteq Folders
  BY <1>1, <1>4 DEF SessionTypeOK
<1>7. SessionTypeOK' /\ StoredStripped' /\ CacheCurrent'
  <2>1. CASE DOMAIN projects' # {}
    <3>1. /\ stored'.roots \subseteq Folders
          /\ DOMAIN stored'.projects \subseteq Scannable
          /\ stored'.projects \in [DOMAIN stored'.projects -> Data]
          /\ StoredStripped' /\ CacheCurrent'
      BY <1>4, <1>5, <1>6, <2>1, PersistFacts
    <3>2. QED
      BY <1>1, <1>6, <3>1 DEF SessionTypeOK
  <2>2. CASE DOMAIN projects' = {}
    BY <1>1, <1>4, <1>6, <2>2 DEF SessionTypeOK, WorkspaceIInv, StoredStripped, CacheCurrent
  <2>3. QED
    BY <2>1, <2>2
<1>8. DownIsEmpty'
  BY DEF DownIsEmpty
<1>9. IsFiniteSet(customs')
  BY <1>5 DEF WorkspaceIInv
<1>10. WorkspaceTypeOK'
  BY <1>5, <1>7, TypeParts DEF WorkspaceTypeOK, InMemoryTypeOK, SessionTypeOK
<1>11. QED
  BY <1>5, <1>7, <1>8, <1>9, <1>10 DEF WorkspaceIInv

(* What no step but a discovery's touches.                                 *)
LEMMA ConsoleKept ==
  ASSUME UNCHANGED consoleVars, UNCHANGED inFlight
  PROVE  /\ ConsoleTypeOK => ConsoleTypeOK'
         /\ OneDiscovery => OneDiscovery'
BY DEF consoleVars, ConsoleTypeOK, OneDiscovery

(* A command that is added by the user keeps it.                           *)
LEMMA AddCustomIInv ==
  ASSUME WorkspaceIInv, NEW f \in Folders, AddCustom(f)
  PROVE  WorkspaceIInv'
<1> DEFINE T == DOMAIN scanned
           P == Merged(scanned, customs')
<1>1. ConsoleTypeOK /\ InMemoryTypeOK /\ SessionTypeOK /\ OneDiscovery
  BY TypeParts DEF WorkspaceIInv
<1>2. /\ app = "running" /\ Cardinality(customs) < MaxCustoms
      /\ customs' = customs \cup
           {[nr |-> Cardinality(customs) + 1, folder |-> f, id |-> FreeId(f)]}
      /\ projects' = P /\ scanned' = scanned /\ pins' = Pruned(P) /\ active' = Reselected(P)
      /\ UNCHANGED <<consoleVars, app, starts, rescan, roots, inFlight, stored>>
  BY DEF AddCustom, Apply
<1>3. FreeId(f) \in CustomIds
  <2>1. ASSUME Target(DOMAIN projects, f) \in DOMAIN projects
        PROVE  Taken(f) \subseteq {c.id : c \in customs}
    <3>1. projects # Empty
      BY <2>1 DEF Empty
    <3>2. projects[Target(DOMAIN projects, f)].customs
            \subseteq IdsIn(customs, Target(DOMAIN projects, f).folder)
      BY <2>1, <3>1 DEF WorkspaceIInv, CustomsAtTarget, Owed
    <3>3. QED
      BY <2>1, <3>2 DEF Taken, IdsIn
  <2>2. Taken(f) \subseteq {c.id : c \in customs}
    BY <2>1 DEF Taken
  <2>3. IsFiniteSet(customs)
    BY DEF WorkspaceIInv
  <2>4. QED
    BY <1>2, <2>2, <2>3, FreeIdFacts
<1>4. customs' \in SUBSET Custom /\ IsFiniteSet(customs')
  <2>1. Cardinality(customs) + 1 \in CustomIds
    BY <1>2, FS_CardinalityType, WorkspaceAssumption DEF WorkspaceIInv, CustomIds
  <2>2. IsFiniteSet(customs')
    BY <1>2, FS_AddElement DEF WorkspaceIInv
  <2>3. QED
    BY <1>1, <1>2, <1>3, <2>1, <2>2 DEF InMemoryTypeOK, Custom
<1>5. T \in SUBSET Scannable /\ scanned \in [T -> Data]
  BY <1>1 DEF InMemoryTypeOK
<1>6. \A p \in T : scanned[p].customs \subseteq Owed(T, customs', p)
  <2>1. \A p \in T : scanned[p].customs \subseteq Owed(T, customs, p)
    BY DEF WorkspaceIInv, CustomsAtTarget
  <2>2. \A p \in T : Owed(T, customs, p) \subseteq Owed(T, customs', p)
    BY <1>2 DEF Owed, IdsIn
  <2>3. QED
    BY <2>1, <2>2
<1>7. DOMAIN P \subseteq Projects /\ P \in [DOMAIN P -> Data]
  BY <1>4, <1>5, <1>6, MergedFacts
<1>8. DOMAIN P \cap Scannable = T
  BY <1>4, <1>5, <1>6, MergedFacts
<1>9. \A c \in customs' : Target(T, c.folder) \in DOMAIN P
  BY <1>4, <1>5, <1>6, MergedFacts
<1>10. \A p \in DOMAIN P : P[p].customs = Owed(T, customs', p)
  BY <1>4, <1>5, <1>6, MergedFacts
<1> HIDE DEF P
<1>11. \A p \in T : P[p] = With(scanned[p], Owed(T, customs', p))
  <2>1. \A p \in T : Merged(scanned, customs')[p] = With(scanned[p], Owed(T, customs', p))
    BY <1>4, <1>5, <1>6, MergedFacts
  <2>2. QED
    BY <2>1 DEF P
<1>12. Stripped(P) = Stripped(scanned)
  <2>1. \A p \in T : With(P[p], {}) = With(scanned[p], {})
    BY <1>5, <1>11 DEF With, Data
  <2>2. T \cap Scannable = T /\ DOMAIN P \cap Scannable = T \cap Scannable
    BY <1>5, <1>8
  <2>3. \A p \in DOMAIN P \cap Scannable : With(P[p], {}) = With(scanned[p], {})
    BY <1>8, <2>1
  <2>4. QED
    BY <1>5, <1>7, <2>2, <2>3, StrippedEqual
<1>13. CopiesAgree'
  BY <1>2, <1>8, <1>12 DEF CopiesAgree, Stripped
<1>14. CacheCurrent'
  <2>1. Stripped(projects') = Stripped(projects) /\ DOMAIN projects' \cap Scannable = DOMAIN projects \cap Scannable
    BY <1>2, <1>8, <1>12 DEF WorkspaceIInv, CopiesAgree
  <2>2. CacheCurrent' <=> (app' # "down" /\ DOMAIN projects' \cap Scannable # {} =>
                             stored' = [roots |-> roots', projects |-> Stripped(projects')])
    BY DEF CacheCurrent, Stripped
  <2>3. CacheCurrent <=> (app # "down" /\ DOMAIN projects \cap Scannable # {} =>
                             stored = [roots |-> roots, projects |-> Stripped(projects)])
    BY DEF CacheCurrent
  <2>4. QED
    BY <1>2, <2>1, <2>2, <2>3 DEF WorkspaceIInv
<1>15. SelectionFresh' /\ DOMAIN active' \subseteq DOMAIN P /\ active' \in [DOMAIN active' -> Data]
  <2>1. DOMAIN P \in SUBSET Projects /\ active' = Reselected(P)
    BY <1>2, <1>7
  <2>2. DOMAIN active' \subseteq DOMAIN P
    BY <1>7, <2>1, ReselectedFacts
  <2>3. active' \in [DOMAIN active' -> Data]
    BY <1>7, <2>1, ReselectedFacts
  <2>4. \A p \in DOMAIN active' : active'[p] = P[p]
    BY <1>7, <2>1, ReselectedFacts
  <2>5. QED
    BY <1>2, <2>2, <2>3, <2>4 DEF SelectionFresh
<1>16. InMemoryTypeOK'
  <2>1. pins' \subseteq Projects \X Commands
    BY <1>1, <1>2 DEF Pruned, InMemoryTypeOK
  <2>2. QED
    BY <1>1, <1>2, <1>4, <1>7, <1>15, <2>1 DEF InMemoryTypeOK
<1>17. CustomsAtTarget'
  BY <1>2, <1>6, <1>9, <1>10 DEF CustomsAtTarget, Owed, IdsIn, Target
<1>18. SessionTypeOK' /\ StoredStripped' /\ DownIsEmpty'
  BY <1>1, <1>2 DEF SessionTypeOK, WorkspaceIInv, StoredStripped, DownIsEmpty
<1>19. ConsoleTypeOK' /\ OneDiscovery'
  BY <1>1, <1>2, ConsoleKept
<1>20. WorkspaceTypeOK'
  BY <1>16, <1>18, <1>19 DEF WorkspaceTypeOK, InMemoryTypeOK, SessionTypeOK
<1>21. QED
  BY <1>4, <1>13, <1>14, <1>15, <1>17, <1>18, <1>19, <1>20 DEF WorkspaceIInv

(* A pin that is set or taken off keeps it.                                *)
LEMMA SetPinnedIInv ==
  ASSUME WorkspaceIInv, NEW p \in Projects, NEW c \in Commands, SetPinned(p, c)
  PROVE  WorkspaceIInv'
<1>1. /\ pins' \subseteq Projects \X Commands
      /\ UNCHANGED <<consoleVars, app, starts, rescan, roots, projects, scanned,
                     customs, active, inFlight, stored>>
  BY DEF SetPinned, WorkspaceIInv, WorkspaceTypeOK
<1>2. ConsoleTypeOK' /\ OneDiscovery'
  BY <1>1, ConsoleKept DEF WorkspaceIInv, WorkspaceTypeOK
<1>3. WorkspaceTypeOK'
  BY <1>1, <1>2 DEF WorkspaceIInv, WorkspaceTypeOK
<1>4. CopiesAgree' /\ SelectionFresh' /\ CacheCurrent'
  BY <1>1 DEF WorkspaceIInv, CopiesAgree, SelectionFresh, CacheCurrent, Stripped
<1>5. CustomsAtTarget' /\ StoredStripped'
  BY <1>1 DEF WorkspaceIInv, CustomsAtTarget, StoredStripped, Owed, IdsIn, Target
<1>6. DownIsEmpty' /\ IsFiniteSet(customs')
  BY <1>1 DEF SetPinned, WorkspaceIInv, DownIsEmpty
<1>7. QED
  BY <1>2, <1>3, <1>4, <1>5, <1>6 DEF WorkspaceIInv

(* A selection keeps it.                                                   *)
LEMMA SelectProjectIInv ==
  ASSUME WorkspaceIInv, NEW p \in Projects, SelectProject(p)
  PROVE  WorkspaceIInv'
<1>1. /\ app = "running" /\ p \in DOMAIN projects /\ active' = [q \in {p} |-> projects[q]]
      /\ UNCHANGED <<consoleVars, app, starts, rescan, roots, projects, scanned,
                     customs, pins, inFlight, stored>>
  BY DEF SelectProject, Restrict
<1>2. ConsoleTypeOK' /\ OneDiscovery'
  BY <1>1, ConsoleKept DEF WorkspaceIInv, WorkspaceTypeOK
<1>3. DOMAIN active' \subseteq Projects /\ active' \in [DOMAIN active' -> Data]
  BY <1>1 DEF WorkspaceIInv, WorkspaceTypeOK
<1>4. WorkspaceTypeOK'
  BY <1>1, <1>2, <1>3 DEF WorkspaceIInv, WorkspaceTypeOK
<1>5. SelectionFresh'
  BY <1>1 DEF SelectionFresh
<1>6. CopiesAgree' /\ CacheCurrent'
  BY <1>1 DEF WorkspaceIInv, CopiesAgree, CacheCurrent, Stripped
<1>7. CustomsAtTarget' /\ StoredStripped' /\ DownIsEmpty' /\ IsFiniteSet(customs')
  BY <1>1 DEF WorkspaceIInv, CustomsAtTarget, StoredStripped, DownIsEmpty, Owed, IdsIn, Target
<1>8. QED
  BY <1>2, <1>4, <1>5, <1>6, <1>7 DEF WorkspaceIInv

(* Steps of the disk and of a php process leave the workspace alone.       *)
LEMMA WorkspaceKept ==
  ASSUME WorkspaceIInv, UNCHANGED workspaceVars, ConsoleTypeOK', DOMAIN jobs' = DOMAIN jobs,
         UNCHANGED processes
  PROVE  WorkspaceIInv'
<1>1. UNCHANGED <<app, starts, rescan, roots, projects, scanned, customs, pins, active,
                  inFlight, stored>>
  BY DEF workspaceVars
<1>2. WorkspaceTypeOK'
  BY <1>1 DEF WorkspaceIInv, WorkspaceTypeOK
<1>3. CopiesAgree' /\ SelectionFresh' /\ CacheCurrent'
  BY <1>1 DEF WorkspaceIInv, CopiesAgree, SelectionFresh, CacheCurrent, Stripped
<1>4. CustomsAtTarget' /\ StoredStripped' /\ DownIsEmpty' /\ IsFiniteSet(customs')
  BY <1>1 DEF WorkspaceIInv, CustomsAtTarget, StoredStripped, DownIsEmpty, Owed, IdsIn, Target
<1>5. OneDiscovery'
  BY <1>1 DEF WorkspaceIInv, OneDiscovery
<1>6. QED
  BY <1>2, <1>3, <1>4, <1>5 DEF WorkspaceIInv

(* A step of php keeps it.                                                 *)
LEMMA PhpStepIInv ==
  ASSUME WorkspaceIInv, PhpStep
  PROVE  WorkspaceIInv'
<1>1. PICK j \in DOMAIN jobs : PhpLists(j) \/ PhpFinished(j)
  BY DEF PhpStep
<1>2. ConsoleTypeOK
  BY DEF WorkspaceIInv, WorkspaceTypeOK
<1>3. DOMAIN jobs' = DOMAIN jobs /\ UNCHANGED <<console, edits, processes>>
  BY <1>1 DEF PhpLists, PhpFinished
<1>4. jobs' \in [DOMAIN jobs -> [stage : Stage, list : 0..MaxVersion]]
  <2>1. CASE PhpLists(j)
    <3>1. j[1] \in Folders
      BY <1>2 DEF ConsoleTypeOK
    <3>2. [stage |-> "listed", list |-> console[j[1]]] \in [stage : Stage, list : 0..MaxVersion]
      BY <1>2, <3>1 DEF ConsoleTypeOK, Stage
    <3>3. QED
      BY <1>2, <2>1, <3>2 DEF PhpLists, ConsoleTypeOK
  <2>2. CASE PhpFinished(j)
    BY <1>2, <2>2 DEF PhpFinished, ConsoleTypeOK, Stage
  <2>3. QED
    BY <1>1, <2>1, <2>2
<1>5. ConsoleTypeOK'
  BY <1>2, <1>3, <1>4 DEF ConsoleTypeOK
<1>6. QED
  BY <1>3, <1>5, WorkspaceKept DEF PhpStep

(* An edit of the disk keeps it.                                           *)
LEMMA EditDiskIInv ==
  ASSUME WorkspaceIInv, EditDisk
  PROVE  WorkspaceIInv'
<1>1. PICK f \in Folders : EditConsole(f)
  BY DEF EditDisk
<1>2. ConsoleTypeOK
  BY DEF WorkspaceIInv, WorkspaceTypeOK
<1>3. edits + 1 \in 0..MaxEdits /\ {NoManifest, NoFramework, edits + 3} \subseteq 0..MaxVersion
  BY <1>1, <1>2, DiscoveryAssumption
     DEF EditConsole, ConsoleTypeOK, NoManifest, NoFramework, MaxVersion
<1>4. ConsoleTypeOK'
  BY <1>1, <1>2, <1>3 DEF EditConsole, ConsoleTypeOK
<1>5. QED
  BY <1>1, <1>4, WorkspaceKept DEF EditConsole, EditDisk

(* The slot of a discovery that ends takes its path out of inFlight.       *)
LEMMA EndFacts ==
  ASSUME ConsoleTypeOK, OneDiscovery, NEW j \in DOMAIN jobs, End(j),
         inFlight' = inFlight \ {j[1]}
  PROVE  ConsoleTypeOK' /\ OneDiscovery'
<1>1. /\ DOMAIN processes' = DOMAIN processes \ {j[1]}
      /\ \A f \in DOMAIN processes' : processes'[f] = processes[f]
      /\ processes' = [f \in DOMAIN processes' |-> processes'[f]]
  BY DEF End, Restrict
<1>2. /\ DOMAIN jobs' = DOMAIN jobs \ {j}
      /\ \A i \in DOMAIN jobs' : jobs'[i] = jobs[i]
      /\ jobs' = [i \in DOMAIN jobs' |-> jobs'[i]]
  BY DEF End, Restrict
<1>3. ConsoleTypeOK'
  <2>1. processes' \in [DOMAIN processes' -> Slots] /\ DOMAIN processes' \subseteq Folders
    BY <1>1 DEF ConsoleTypeOK
  <2>2. DOMAIN jobs' \subseteq Folders \X Slots
    BY <1>2 DEF ConsoleTypeOK
  <2>3. jobs' \in [DOMAIN jobs' -> [stage : Stage, list : 0..MaxVersion]]
    BY <1>2 DEF ConsoleTypeOK
  <2>4. QED
    BY <2>1, <2>2, <2>3 DEF End, ConsoleTypeOK
<1>4. \A i \in DOMAIN jobs' : i[1] # j[1] /\ i[1] \in inFlight'
  BY <1>2 DEF OneDiscovery
<1>5. \A i, k \in DOMAIN jobs' : i[1] = k[1] => i = k
  BY <1>2 DEF OneDiscovery
<1>6. ASSUME NEW f \in inFlight' PROVE \E s \in Slots : <<f, s>> \in DOMAIN jobs'
  <2>1. PICK s \in Slots : <<f, s>> \in DOMAIN jobs
    BY <1>6 DEF OneDiscovery
  <2>2. <<f, s>> # j
    BY <1>6
  <2>3. QED
    BY <1>2, <2>1, <2>2
<1>7. ASSUME NEW f \in DOMAIN processes' PROVE <<f, processes'[f]>> \in DOMAIN jobs'
  <2>1. <<f, processes[f]>> \in DOMAIN jobs /\ f # j[1]
    BY <1>1, <1>7 DEF OneDiscovery
  <2>2. <<f, processes[f]>> # j
    BY <2>1
  <2>3. QED
    BY <1>1, <1>2, <2>1, <2>2
<1>8. QED
  BY <1>3, <1>4, <1>5, <1>6, <1>7 DEF OneDiscovery

(* A list that is discovered keeps it.                                     *)
LEMMA DiscoveredIInv ==
  ASSUME WorkspaceIInv, app = "running", NEW j \in DOMAIN jobs, End(j), UNCHANGED roots,
         NEW d \in Data, Discovered(j[1], d)
  PROVE  WorkspaceIInv'
<1> DEFINE f == j[1]
           p == Composer(f)
           new == With(d, projects[p].customs)
<1>1. ConsoleTypeOK /\ InMemoryTypeOK /\ SessionTypeOK /\ OneDiscovery
  BY TypeParts DEF WorkspaceIInv
<1>2. f \in Folders /\ p \in Scannable
  BY <1>1 DEF ConsoleTypeOK, Scannable
<1>3. /\ inFlight' = inFlight \ {f}
      /\ UNCHANGED <<app, starts, rescan, roots, customs, pins>>
  BY DEF Discovered
<1>4. ConsoleTypeOK' /\ OneDiscovery'
  BY <1>1, <1>3, EndFacts
<1>5. DownIsEmpty' /\ IsFiniteSet(customs')
  BY <1>3 DEF DownIsEmpty, WorkspaceIInv
<1>6. CASE p \notin DOMAIN projects
  <2>1. UNCHANGED <<projects, scanned, active, stored>>
    BY <1>6 DEF Discovered
  <2>2. InMemoryTypeOK' /\ SessionTypeOK'
    BY <1>1, <1>3, <2>1 DEF InMemoryTypeOK, SessionTypeOK
  <2>3. WorkspaceTypeOK'
    BY <1>4, <2>2 DEF WorkspaceTypeOK, InMemoryTypeOK, SessionTypeOK
  <2>4. CopiesAgree' /\ SelectionFresh' /\ CacheCurrent'
    BY <1>3, <2>1 DEF WorkspaceIInv, CopiesAgree, SelectionFresh, CacheCurrent, Stripped
  <2>5. CustomsAtTarget' /\ StoredStripped'
    BY <1>3, <2>1 DEF WorkspaceIInv, CustomsAtTarget, StoredStripped, Owed, IdsIn, Target
  <2>6. QED
    BY <1>4, <1>5, <2>3, <2>4, <2>5 DEF WorkspaceIInv
<1>7. CASE p \in DOMAIN projects
  <2>1. /\ projects' = [projects EXCEPT ![p] = new]
        /\ scanned' = [q \in DOMAIN scanned |-> IF q = p THEN new ELSE scanned[q]]
        /\ active' = Reselected(projects')
        /\ Persist
    BY <1>7 DEF Discovered, Synced, With
  <2>2. projects[p] \in Data /\ new \in Data /\ new.customs = projects[p].customs
    BY <1>1, <1>7 DEF InMemoryTypeOK, With, Data
  <2> HIDE DEF new, p
  <2>3. p \in DOMAIN scanned
    BY <1>2, <1>7 DEF WorkspaceIInv, CopiesAgree
  <2>4. DOMAIN projects' = DOMAIN projects /\ projects' \in [DOMAIN projects -> Data]
        /\ projects'[p] = new /\ \A q \in DOMAIN projects \ {p} : projects'[q] = projects[q]
    BY <1>1, <1>7, <2>1, <2>2 DEF InMemoryTypeOK
  <2>5. DOMAIN scanned' = DOMAIN scanned /\ scanned' \in [DOMAIN scanned -> Data]
        /\ scanned'[p] = new /\ \A q \in DOMAIN scanned \ {p} : scanned'[q] = scanned[q]
    BY <1>1, <2>1, <2>2, <2>3 DEF InMemoryTypeOK
  <2>6. SelectionFresh' /\ DOMAIN active' \subseteq Projects /\ active' \in [DOMAIN active' -> Data]
    <3>1. active' = [q \in DOMAIN active \cap DOMAIN projects' |-> projects'[q]]
      BY <2>1 DEF Reselected
    <3>2. SelectionFresh'
      BY <3>1 DEF SelectionFresh
    <3>3. QED
      BY <1>1, <2>4, <3>1, <3>2 DEF InMemoryTypeOK
  <2>7. InMemoryTypeOK'
    BY <1>1, <1>3, <2>4, <2>5, <2>6 DEF InMemoryTypeOK
  <2>8. CopiesAgree'
    <3>1. DOMAIN scanned' = DOMAIN projects' \cap Scannable
      BY <2>4, <2>5 DEF WorkspaceIInv, CopiesAgree
    <3>2. \A q \in DOMAIN scanned : With(scanned[q], {}) = With(projects[q], {})
      <4>1. \A q \in DOMAIN scanned : q \in DOMAIN projects \cap Scannable
        BY DEF WorkspaceIInv, CopiesAgree
      <4>2. \A q \in DOMAIN scanned : q \in DOMAIN scanned \cap Scannable
        BY <1>1 DEF InMemoryTypeOK
      <4>3. \A q \in DOMAIN scanned : Stripped(scanned)[q] = With(scanned[q], {})
        BY <4>2 DEF Stripped, With
      <4>4. \A q \in DOMAIN scanned : Stripped(projects)[q] = With(projects[q], {})
        BY <4>1 DEF Stripped, With
      <4>5. Stripped(scanned) = Stripped(projects)
        BY DEF WorkspaceIInv, CopiesAgree
      <4>6. QED
        BY <4>3, <4>4, <4>5
    <3>3. \A q \in DOMAIN scanned : With(scanned'[q], {}) = With(projects'[q], {})
      <4>1. \A q \in DOMAIN scanned : q \in DOMAIN projects
        BY DEF WorkspaceIInv, CopiesAgree
      <4>2. QED
        BY <2>4, <2>5, <3>2, <4>1
    <3>4. Stripped(scanned') = Stripped(projects')
      <4>1. scanned' \in [DOMAIN scanned -> Data] /\ projects' \in [DOMAIN projects -> Data]
        BY <2>4, <2>5
      <4>2. DOMAIN scanned \cap Scannable = DOMAIN projects \cap Scannable
        BY <1>1 DEF WorkspaceIInv, CopiesAgree, InMemoryTypeOK
      <4>3. \A q \in DOMAIN scanned \cap Scannable : With(scanned'[q], {}) = With(projects'[q], {})
        BY <3>3
      <4>4. QED
        BY <4>1, <4>2, <4>3, StrippedEqual
    <3>5. QED
      BY <3>1, <3>4 DEF CopiesAgree, Stripped
  <2>9. CustomsAtTarget'
    <3>1. projects # Empty /\ DOMAIN projects' = DOMAIN projects
      BY <1>7, <2>4 DEF Empty
    <3>2. \A q \in DOMAIN projects : projects'[q].customs = projects[q].customs
      BY <2>2, <2>4
    <3>3. \A q \in DOMAIN projects : projects[q].customs = Owed(DOMAIN scanned, customs, q)
      BY <3>1 DEF WorkspaceIInv, CustomsAtTarget
    <3>4. \A c \in customs : Target(DOMAIN scanned, c.folder) \in DOMAIN projects
      BY <3>1 DEF WorkspaceIInv, CustomsAtTarget
    <3>5. \A q \in DOMAIN scanned : scanned'[q].customs \subseteq Owed(DOMAIN scanned, customs, q)
      <4>1. new.customs \subseteq Owed(DOMAIN scanned, customs, p)
        BY <1>7, <2>2, <3>3
      <4>2. \A q \in DOMAIN scanned : scanned[q].customs \subseteq Owed(DOMAIN scanned, customs, q)
        BY DEF WorkspaceIInv, CustomsAtTarget
      <4>3. QED
        BY <2>5, <4>1, <4>2
    <3>6. \A q \in DOMAIN projects' : projects'[q].customs = Owed(DOMAIN scanned, customs, q)
      BY <3>1, <3>2, <3>3
    <3>7. QED
      BY <1>3, <2>5, <3>1, <3>4, <3>5, <3>6 DEF CustomsAtTarget, Owed, IdsIn, Target
  <2>10. SessionTypeOK' /\ StoredStripped' /\ CacheCurrent'
    <3>1. roots' \subseteq Folders
      BY <1>1, <1>3 DEF SessionTypeOK
    <3>2. /\ stored'.roots \subseteq Folders
          /\ DOMAIN stored'.projects \subseteq Scannable
          /\ stored'.projects \in [DOMAIN stored'.projects -> Data]
          /\ StoredStripped' /\ CacheCurrent'
      BY <2>1, <2>7, <3>1, PersistFacts
    <3>3. QED
      BY <1>1, <1>3, <3>1, <3>2 DEF SessionTypeOK
  <2>11. WorkspaceTypeOK'
    BY <1>4, <2>7, <2>10 DEF WorkspaceTypeOK, InMemoryTypeOK, SessionTypeOK
  <2>12. QED
    BY <1>4, <1>5, <2>6, <2>8, <2>9, <2>10, <2>11 DEF WorkspaceIInv
<1>8. QED
  BY <1>6, <1>7

(* The end of a discovery keeps it.                                        *)
LEMMA DiscoveryEndsIInv ==
  ASSUME WorkspaceIInv, NEW j \in DOMAIN jobs, OnDiscoveryFinished(j) \/ OnDiscoveryFailed(j)
  PROVE  WorkspaceIInv'
<1>1. app = "running" /\ End(j) /\ UNCHANGED roots
  BY DEF OnDiscoveryFinished, OnDiscoveryFailed, PhpFailed, Delivered
<1>2. jobs[j].list \in 0..MaxVersion /\ console[j[1]] \in 0..MaxVersion
  BY DEF WorkspaceIInv, WorkspaceTypeOK, ConsoleTypeOK
<1>3. Found \in Data /\ [Found EXCEPT !.list = jobs[j].list, !.cache = console[j[1]]] \in Data
  <2>1. Found \in Data
    BY DiscoveryAssumption DEF Found, Data, NoList, NoCache, MaxVersion
  <2>2. QED
    BY <1>2, <2>1 DEF Data
<1>4. CASE OnDiscoveryFinished(j)
  <2>1. Discovered(j[1], [Found EXCEPT !.list = jobs[j].list, !.cache = console[j[1]]])
    BY <1>4 DEF OnDiscoveryFinished
  <2>2. QED
    BY <1>1, <1>3, <2>1, DiscoveredIInv
<1>5. CASE OnDiscoveryFailed(j)
  <2>1. Discovered(j[1], Found)
    BY <1>5 DEF OnDiscoveryFailed
  <2>2. QED
    BY <1>1, <1>3, <2>1, DiscoveredIInv
<1>6. QED
  BY <1>4, <1>5

(* What an empty memory satisfies.                                         *)
LEMMA EmptyMemory ==
  ASSUME projects = Empty, scanned = Empty, active = Empty, inFlight = {},
         customs \subseteq Custom, pins \subseteq Projects \X Commands
  PROVE  InMemoryTypeOK /\ CopiesAgree /\ SelectionFresh /\ CacheCurrent /\ CustomsAtTarget
<1>1. DOMAIN Empty = {}
  BY DEF Empty
<1>2. InMemoryTypeOK
  BY <1>1 DEF InMemoryTypeOK, Empty
<1>3. QED
  BY <1>1, <1>2 DEF CopiesAgree, SelectionFresh, CacheCurrent, CustomsAtTarget

(* The first start satisfies it.                                           *)
LEMMA InitWorkspaceIInv == WorkspaceInit => WorkspaceIInv
<1> SUFFICES ASSUME WorkspaceInit PROVE WorkspaceIInv
  OBVIOUS
<1>1. InMemoryTypeOK /\ CopiesAgree /\ SelectionFresh /\ CacheCurrent /\ CustomsAtTarget
  BY EmptyMemory DEF WorkspaceInit
<1>2. {NoManifest, NoFramework, NoFramework + 1} \subseteq 0..MaxVersion /\ 0 \in 0..MaxEdits
  BY DiscoveryAssumption DEF NoManifest, NoFramework, MaxVersion
<1>3. ConsoleTypeOK /\ OneDiscovery
  BY <1>2 DEF WorkspaceInit, ConsoleInit, ConsoleTypeOK, OneDiscovery
<1>4. SessionTypeOK /\ StoredStripped
  BY WorkspaceAssumption DEF WorkspaceInit, SessionTypeOK, StoredStripped, Empty
<1>5. DownIsEmpty /\ IsFiniteSet(customs)
  BY FS_EmptySet DEF WorkspaceInit, ConsoleInit, DownIsEmpty
<1>6. QED
  BY <1>1, <1>3, <1>4, <1>5, TypeParts DEF WorkspaceIInv

(* The end of the app keeps it.                                            *)
LEMMA GoDownIInv ==
  ASSUME WorkspaceIInv, GoDown
  PROVE  WorkspaceIInv'
<1>1. ConsoleTypeOK /\ InMemoryTypeOK /\ SessionTypeOK
  BY TypeParts DEF WorkspaceIInv
<1>2. /\ app' = "down" /\ rescan' = {} /\ roots' = {} /\ projects' = Empty /\ scanned' = Empty
      /\ active' = Empty /\ inFlight' = {}
      /\ processes' = [x \in {} |-> processes[x]] /\ jobs' = [x \in {} |-> jobs[x]]
      /\ UNCHANGED <<console, edits, starts, customs, pins, stored>>
  BY DEF GoDown, Restrict
<1>3. DOMAIN Empty = {}
  BY DEF Empty
<1>4. InMemoryTypeOK'
  BY <1>1, <1>2, <1>3 DEF InMemoryTypeOK, Empty
<1>5. CopiesAgree' /\ SelectionFresh' /\ CacheCurrent' /\ CustomsAtTarget'
  BY <1>2, <1>3 DEF CopiesAgree, SelectionFresh, CacheCurrent, CustomsAtTarget, Stripped
<1>6. ConsoleTypeOK' /\ OneDiscovery'
  BY <1>1, <1>2 DEF ConsoleTypeOK, OneDiscovery
<1>7. SessionTypeOK' /\ StoredStripped' /\ DownIsEmpty' /\ IsFiniteSet(customs')
  BY <1>1, <1>2 DEF SessionTypeOK, StoredStripped, DownIsEmpty, WorkspaceIInv, Empty
<1>8. WorkspaceTypeOK'
  BY <1>4, <1>6, <1>7 DEF WorkspaceTypeOK, InMemoryTypeOK, SessionTypeOK
<1>9. QED
  BY <1>5, <1>6, <1>7, <1>8 DEF WorkspaceIInv

(* The starts that restore nothing yet.                                    *)
LEMMA StartBareIInv ==
  ASSUME WorkspaceIInv, StartEmpty \/ StartRescanning
  PROVE  WorkspaceIInv'
<1>1. ConsoleTypeOK /\ InMemoryTypeOK /\ SessionTypeOK /\ OneDiscovery
  BY TypeParts DEF WorkspaceIInv
<1>2. /\ app = "down" /\ starts' = starts + 1 /\ starts < MaxStarts
      /\ app' \in {"running", "restoring"}
      /\ stored' \in {stored, [roots |-> {}, projects |-> Empty]}
      /\ rescan' \in {rescan, stored.roots}
      /\ UNCHANGED <<consoleVars, roots, projects, scanned, customs, pins, active, inFlight>>
  BY DEF StartEmpty, StartRescanning, Starting
<1>3. projects = Empty /\ scanned = Empty /\ active = Empty /\ DOMAIN Empty = {}
  BY <1>2 DEF WorkspaceIInv, DownIsEmpty, Empty
<1>4. InMemoryTypeOK'
  BY <1>1, <1>2 DEF InMemoryTypeOK
<1>5. CopiesAgree' /\ SelectionFresh' /\ CacheCurrent'
  BY <1>2, <1>3 DEF CopiesAgree, SelectionFresh, CacheCurrent, Stripped
<1>6. CustomsAtTarget'
  BY <1>2, <1>3 DEF CustomsAtTarget
<1>7. SessionTypeOK' /\ StoredStripped'
  <2>1. starts' \in 0..MaxStarts
    BY <1>1, <1>2, WorkspaceAssumption DEF SessionTypeOK
  <2>2. stored'.roots \subseteq Folders /\ DOMAIN stored'.projects \subseteq Scannable
        /\ stored'.projects \in [DOMAIN stored'.projects -> Data]
        /\ \A p \in DOMAIN stored'.projects : stored'.projects[p].customs = {}
    <3>1. CASE stored' = stored
      BY <1>1, <3>1 DEF SessionTypeOK, WorkspaceIInv, StoredStripped
    <3>2. CASE stored' = [roots |-> {}, projects |-> Empty]
      BY <3>2 DEF Empty
    <3>3. QED
      BY <1>2, <3>1, <3>2
  <2>3. QED
    BY <1>1, <1>2, <2>1, <2>2 DEF SessionTypeOK, StoredStripped
<1>8. DownIsEmpty' /\ IsFiniteSet(customs')
  BY <1>2 DEF DownIsEmpty, WorkspaceIInv
<1>9. ConsoleTypeOK' /\ OneDiscovery'
  BY <1>1, <1>2, ConsoleKept
<1>10. WorkspaceTypeOK'
  BY <1>4, <1>7, <1>9 DEF WorkspaceTypeOK, InMemoryTypeOK, SessionTypeOK
<1>11. QED
  BY <1>5, <1>6, <1>7, <1>8, <1>9, <1>10 DEF WorkspaceIInv

(* A start from the cache keeps it.                                        *)
LEMMA StartFromCacheIInv ==
  ASSUME WorkspaceIInv, StartFromCache
  PROVE  WorkspaceIInv'
<1> DEFINE t == Restrict(stored.projects, Kept)
<1>1. ConsoleTypeOK /\ InMemoryTypeOK /\ SessionTypeOK /\ OneDiscovery
  BY TypeParts DEF WorkspaceIInv
<1>2. /\ starts' = starts + 1 /\ starts < MaxStarts /\ app' = "running" /\ roots' = stored.roots
      /\ ApplyAndRefresh(t) /\ Persist /\ UNCHANGED rescan
  BY DEF StartFromCache, Starting
<1>3. Kept \in SUBSET Scannable /\ t \in [Kept -> Data] /\ \A p \in Kept : t[p].customs = {}
  BY <1>1 DEF Kept, Restrict, SessionTypeOK, WorkspaceIInv, StoredStripped
<1>4. \A p \in Kept : t[p].customs \subseteq Owed(Kept, customs, p)
  BY <1>3
<1> HIDE DEF t
<1>5. /\ InMemoryTypeOK' /\ ConsoleTypeOK' /\ CopiesAgree' /\ SelectionFresh'
      /\ CustomsAtTarget' /\ OneDiscovery' /\ UNCHANGED customs
  BY <1>1, <1>2, <1>3, <1>4, ApplyAndRefreshFacts
<1>6. roots' \subseteq Folders /\ starts' \in 0..MaxStarts
  BY <1>1, <1>2, WorkspaceAssumption DEF SessionTypeOK
<1>7. SessionTypeOK' /\ StoredStripped' /\ CacheCurrent'
  <2>1. /\ stored'.roots \subseteq Folders
        /\ DOMAIN stored'.projects \subseteq Scannable
        /\ stored'.projects \in [DOMAIN stored'.projects -> Data]
        /\ StoredStripped' /\ CacheCurrent'
    BY <1>2, <1>5, <1>6, PersistFacts
  <2>2. QED
    BY <1>1, <1>2, <1>6, <2>1 DEF SessionTypeOK
<1>8. DownIsEmpty' /\ IsFiniteSet(customs')
  BY <1>2, <1>5 DEF DownIsEmpty, WorkspaceIInv
<1>9. WorkspaceTypeOK'
  BY <1>5, <1>7 DEF WorkspaceTypeOK, InMemoryTypeOK, SessionTypeOK
<1>10. QED
  BY <1>5, <1>7, <1>8, <1>9 DEF WorkspaceIInv

-----------------------------------------------------------------------------
(* The invariant of the workspace (projectservice.cpp), for any folders,   *)
(* edits, starts, commands and pins: its tables, the discoveries under way *)
(* and the settings fit together between any two handlers.                 *)
THEOREM WorkspaceInvariant == WorkspaceSpec => []WorkspaceIInv
<1>1. WorkspaceInit => WorkspaceIInv
  BY InitWorkspaceIInv
<1>2. WorkspaceIInv /\ [WorkspaceNext]_allVars => WorkspaceIInv'
  <2> SUFFICES ASSUME WorkspaceIInv, [WorkspaceNext]_allVars PROVE WorkspaceIInv'
    OBVIOUS
  <2>1. CASE User
    <3>1. ASSUME NEW f \in Folders, ScanFolder(f) PROVE WorkspaceIInv'
      <4>1. rescan' \subseteq Folders
        BY <3>1 DEF ScanFolder, WorkspaceIInv, WorkspaceTypeOK
      <4>2. QED
        BY <3>1, <4>1, ScanIInv DEF ScanFolder
    <3>2. QED
      BY <2>1, <3>1, AddCustomIInv, SelectProjectIInv, SetPinnedIInv DEF User
  <2>2. CASE Discovery
    BY <2>2, PhpStepIInv, DiscoveryEndsIInv DEF Discovery
  <2>3. CASE Session
    <3>1. ASSUME NEW r \in Folders, RescanRoot(r) PROVE WorkspaceIInv'
      <4>1. rescan' \subseteq Folders /\ app' \in {"restoring", "running"}
        BY <3>1 DEF RescanRoot, WorkspaceIInv, WorkspaceTypeOK
      <4>2. QED
        BY <3>1, <4>1, ScanIInv DEF RescanRoot
    <3>2. QED
      BY <2>3, <3>1, GoDownIInv, StartBareIInv, StartFromCacheIInv DEF Session
  <2>4. CASE EditDisk
    BY <2>4, EditDiskIInv
  <2>5. CASE UNCHANGED allVars
    <3>1. ConsoleTypeOK
      BY DEF WorkspaceIInv, WorkspaceTypeOK
    <3>2. ConsoleTypeOK' /\ DOMAIN jobs' = DOMAIN jobs /\ UNCHANGED processes
      BY <2>5, <3>1 DEF allVars, consoleVars, ConsoleTypeOK
    <3>3. QED
      BY <2>5, <3>2, WorkspaceKept DEF allVars
  <2>6. QED
    BY <2>1, <2>2, <2>3, <2>4, <2>5 DEF WorkspaceNext
<1>3. QED
  BY <1>1, <1>2, PTL DEF WorkspaceSpec

(* The scan, the screen, the selection and the settings never hold         *)
(* different copies of a project between two handlers (projectservice.cpp) *)
THEOREM CopiesNeverApart == WorkspaceSpec => []WorkspaceSound
<1>1. WorkspaceIInv => WorkspaceSound
  BY DEF WorkspaceIInv, WorkspaceSound
<1>2. QED
  BY <1>1, WorkspaceInvariant, PTL

(* A path in m_consoleInFlight has one discovery, another has none, and    *)
(* m_processes holds no deleted process: discoveries never overlap.        *)
THEOREM DiscoveriesTracked == WorkspaceSpec => []DiscoveryTracked
<1>1. WorkspaceIInv => DiscoveryTracked
  <2> SUFFICES ASSUME WorkspaceIInv PROVE DiscoveryTracked
    OBVIOUS
  <2>1. DOMAIN jobs \subseteq Folders \X Slots
    BY DEF WorkspaceIInv, WorkspaceTypeOK, ConsoleTypeOK
  <2>2. ASSUME NEW f \in Folders, f \in inFlight PROVE Cardinality(JobsOf(f)) = 1
    <3>1. PICK s \in Slots : <<f, s>> \in DOMAIN jobs
      BY <2>2 DEF WorkspaceIInv, OneDiscovery
    <3>2. JobsOf(f) = {<<f, s>>}
      BY <3>1 DEF JobsOf, WorkspaceIInv, OneDiscovery
    <3>3. QED
      BY <3>2, FS_Singleton
  <2>3. ASSUME NEW f \in Folders, f \notin inFlight PROVE Cardinality(JobsOf(f)) = 0
    <3>1. JobsOf(f) = {}
      BY <2>3 DEF JobsOf, WorkspaceIInv, OneDiscovery
    <3>2. QED
      BY <3>1, FS_EmptySet
  <2>4. \A f \in DOMAIN processes : <<f, processes[f]>> \in DOMAIN jobs
    BY DEF WorkspaceIInv, OneDiscovery
  <2>5. QED
    BY <2>2, <2>3, <2>4 DEF DiscoveryTracked
<1>2. QED
  BY <1>1, WorkspaceInvariant, PTL

(* Every command the user added is listed once (mergeCustomCommands), for  *)
(* any number of commands, folders, scans and restarts.                    *)
THEOREM CustomsOnce == WorkspaceSpec => []CustomsListedOnce
<1>1. WorkspaceIInv => CustomsListedOnce
  <2> SUFFICES ASSUME WorkspaceIInv, projects # Empty, NEW c \in customs
               PROVE  Cardinality({p \in DOMAIN projects :
                         p.folder = c.folder /\ c.id \in projects[p].customs}) = 1
    BY DEF CustomsListedOnce
  <2> DEFINE T == DOMAIN scanned
             q == Target(T, c.folder)
  <2>1. q \in DOMAIN projects /\ \A p \in DOMAIN projects : projects[p].customs = Owed(T, customs, p)
    BY DEF WorkspaceIInv, CustomsAtTarget
  <2>2. q.folder = c.folder
    BY TargetFacts DEF WorkspaceIInv, WorkspaceTypeOK, Custom
  <2> HIDE DEF T
  <2>3. \A p \in DOMAIN projects :
          (p.folder = c.folder /\ c.id \in projects[p].customs) <=> p = q
    <3>1. c.id \in IdsIn(customs, c.folder)
      BY DEF IdsIn
    <3>2. ASSUME NEW p \in DOMAIN projects, p.folder = c.folder, c.id \in projects[p].customs
          PROVE  p = q
      BY <2>1, <3>2 DEF Owed
    <3>3. c.id \in projects[q].customs
      BY <2>1, <2>2, <3>1 DEF Owed
    <3>4. QED
      BY <2>2, <3>2, <3>3
  <2>4. {p \in DOMAIN projects : p.folder = c.folder /\ c.id \in projects[p].customs} = {q}
    BY <2>1, <2>3
  <2>5. QED
    BY <2>4, FS_Singleton
<1>2. QED
  BY <1>1, WorkspaceInvariant, PTL

(* scanFolder()'s comment: a scan replaces the projects of its own root    *)
(* only, and all others stay as they are, with their valid lists.          *)
THEOREM ScansStayInTheirRoot == WorkspaceSpec => ScanTouchesOwnRoot
<1>1. ASSUME WorkspaceIInv, NEW r \in Folders, ScanFolder(r),
             NEW p \in DOMAIN projects \cap Scannable, p.folder \notin Under[r]
      PROVE  /\ p \in DOMAIN projects'
             /\ Detected(p.folder) /\ Valid(p, projects[p]) => projects'[p] = projects[p]
  <2> DEFINE T == Elsewhere(r) \cup FoundUnder(r)
             t == Rescanned(r)
             P == Merged(t, customs)
  <2>1. InMemoryTypeOK /\ customs \in SUBSET Custom
    BY <1>1, TypeParts DEF WorkspaceIInv, InMemoryTypeOK
  <2>2. T \in SUBSET Scannable /\ t \in [T -> Data]
    BY <2>1, RescannedFacts
  <2>3. \A q \in T : t[q].customs \subseteq Owed(T, customs, q)
    <3>1. \A q \in T : t[q].customs = {}
      BY <2>1, RescannedFacts
    <3>2. QED
      BY <3>1
  <2>4. projects' = Refreshed(P)
    BY <1>1 DEF ScanFolder, Scan, ApplyAndRefresh
  <2>5. p \in T /\ t[p] = With(projects[p], {})
    BY <1>1 DEF Elsewhere, Rescanned, With
  <2>6. \A q \in Scannable : q.folder = p.folder => (q \in T <=> q \in DOMAIN scanned)
    BY <1>1 DEF Elsewhere, FoundUnder, WorkspaceIInv, CopiesAgree
  <2> HIDE DEF T, t
  <2>7. DOMAIN P \subseteq Projects /\ P \in [DOMAIN P -> Data]
    BY <2>1, <2>2, <2>3, MergedFacts
  <2>8. DOMAIN P \cap Scannable = T
    BY <2>1, <2>2, <2>3, MergedFacts
  <2>9. P[p] = With(t[p], Owed(T, customs, p))
    <3>1. \A q \in T : Merged(t, customs)[q] = With(t[q], Owed(T, customs, q))
      BY <2>1, <2>2, <2>3, MergedFacts
    <3>2. QED
      BY <2>5, <3>1
  <2> HIDE DEF P
  <2>10. projects[p].customs = Owed(T, customs, p) /\ projects[p] \in Data
    <3>1. projects # Empty
      BY DEF Empty
    <3>2. projects[p].customs = Owed(DOMAIN scanned, customs, p)
      BY <1>1, <3>1 DEF WorkspaceIInv, CustomsAtTarget
    <3>3. Target(T, p.folder) = Target(DOMAIN scanned, p.folder)
      <4>1. p.folder \in Folders
        BY FolderOf DEF Projects
      <4>2. Package(p.folder) \in Scannable /\ Package(p.folder).folder = p.folder
            /\ Composer(p.folder) \in Scannable /\ Composer(p.folder).folder = p.folder
        BY <4>1 DEF Scannable, Package, Composer
      <4>3. (Package(p.folder) \in T <=> Package(p.folder) \in DOMAIN scanned)
            /\ (Composer(p.folder) \in T <=> Composer(p.folder) \in DOMAIN scanned)
        BY <2>6, <4>2
      <4>4. QED
        BY <4>3 DEF Target
    <3>4. QED
      BY <2>1, <3>2, <3>3 DEF Owed, InMemoryTypeOK
  <2>11. P[p] = projects[p]
    <3>1. With(With(projects[p], {}), projects[p].customs) = projects[p]
      BY <2>10 DEF With, Data
    <3>2. QED
      BY <2>5, <2>9, <2>10, <3>1
  <2>12. p \in DOMAIN projects'
    BY <2>4, <2>5, <2>7, <2>8, RefreshedFacts
  <2>13. ASSUME Detected(p.folder), Valid(p, projects[p]) PROVE projects'[p] = projects[p]
    <3>1. p \notin Outdated(P) \cup Frameless(P)
      BY <2>11, <2>13 DEF Outdated, Frameless
    <3>2. Refreshed(P)[p] = P[p]
      BY <2>5, <2>7, <2>8, <3>1, RefreshedFacts
    <3>3. QED
      BY <2>4, <2>11, <3>2
  <2>14. QED
    BY <2>12, <2>13
<1>2. WorkspaceIInv /\ [WorkspaceNext]_allVars =>
        [\A r \in Folders : ScanFolder(r) =>
           \A p \in DOMAIN projects \cap Scannable :
             p.folder \notin Under[r] =>
               /\ p \in DOMAIN projects'
               /\ Detected(p.folder) /\ Valid(p, projects[p]) => projects'[p] = projects[p]]_allVars
  BY <1>1
<1>3. QED
  BY <1>2, WorkspaceInvariant, PTL DEF WorkspaceSpec, ScanTouchesOwnRoot

-----------------------------------------------------------------------------
(* Once a start is over, a pin is of a project that is shown, or nothing   *)
(* is stored.                                                              *)
PinsShown ==
  app = "running" =>
    (\A x \in pins : x[1] \in DOMAIN projects) \/ DOMAIN stored.projects = {}

(* prunePins() takes no script off a project that was found.               *)
LEMMA PrunedScripts ==
  ASSUME NEW P, NEW T \in SUBSET Scannable, T \subseteq DOMAIN P
  PROVE  /\ Pruned(P) \subseteq pins /\ \A x \in Pruned(P) : x[1] \in DOMAIN P
         /\ \A x \in pins : x[2] = Script /\ x[1] \in T => x \in Pruned(P)
<1>1. \A p \in Scannable : p.manifest # "custom"
  BY DEF Scannable, Package, Composer
<1>2. QED
  BY <1>1 DEF Pruned, Has

(* A project that is on the disk is one a scan can find.                   *)
LEMMA ExistsScannable == ASSUME NEW p \in Projects, Exists(p) PROVE p \in Scannable
BY DEF Exists, Projects, Scannable, Pseudo

(* The same of a scan's and a start's tables.                              *)
LEMMA ApplyKeepsPins ==
  ASSUME InMemoryTypeOK, NEW T \in SUBSET Scannable, NEW t \in [T -> Data],
         \A p \in T : t[p].customs \subseteq Owed(T, customs, p),
         ApplyAndRefresh(t)
  PROVE  /\ \A x \in pins' : x[1] \in DOMAIN projects'
         /\ \A x \in pins : x[2] = Script /\ x[1] \in T => x \in pins'
         /\ UNCHANGED console
<1> DEFINE P == Merged(t, customs)
<1>1. customs \in SUBSET Custom
  BY DEF InMemoryTypeOK
<1>2. DOMAIN P \subseteq Projects /\ P \in [DOMAIN P -> Data]
  BY <1>1, MergedFacts
<1>3. DOMAIN P \cap Scannable = T
  BY <1>1, MergedFacts
<1>4. projects' = Refreshed(P) /\ pins' = Pruned(P) /\ UNCHANGED console
  BY DEF ApplyAndRefresh
<1> HIDE DEF P
<1>5. DOMAIN Refreshed(P) = DOMAIN P
  BY DEF Refreshed
<1>6. QED
  BY <1>3, <1>4, <1>5, PrunedScripts

(* A scan takes no pin off a script whose project is still there.          *)
LEMMA ScanKeepsPins ==
  ASSUME WorkspaceIInv, NEW r \in Folders, Scan(r)
  PROVE  /\ \A x \in pins' : x[1] \in DOMAIN projects'
         /\ \A x \in pins : x[2] = Script /\ x[1] \in DOMAIN projects /\ Exists(x[1])' => x \in pins'
<1> DEFINE T == Elsewhere(r) \cup FoundUnder(r)
           t == Rescanned(r)
<1>1. InMemoryTypeOK
  BY TypeParts DEF WorkspaceIInv
<1>2. T \in SUBSET Scannable /\ t \in [T -> Data]
  BY <1>1, RescannedFacts
<1>3. \A q \in T : t[q].customs \subseteq Owed(T, customs, q)
  <2>1. \A q \in T : t[q].customs = {}
    BY <1>1, RescannedFacts
  <2>2. QED
    BY <2>1
<1>4. ApplyAndRefresh(t)
  BY DEF Scan
<1>5. ASSUME NEW p \in DOMAIN projects, Exists(p)', console' = console PROVE p \in T
  <2>1. Exists(p)
    BY <1>5 DEF Exists
  <2>2. p \in Scannable
    BY <1>1, <2>1, ExistsScannable DEF InMemoryTypeOK
  <2>3. QED
    BY <2>1, <2>2 DEF Elsewhere, FoundUnder
<1> HIDE DEF T, t
<1>6. /\ \A x \in pins' : x[1] \in DOMAIN projects'
      /\ \A x \in pins : x[2] = Script /\ x[1] \in T => x \in pins'
      /\ UNCHANGED console
  BY <1>1, <1>2, <1>3, <1>4, ApplyKeepsPins
<1>7. QED
  BY <1>5, <1>6

(* A command that is added takes no pin off what is shown.                 *)
LEMMA AddCustomKeepsPins ==
  ASSUME WorkspaceIInv, NEW f \in Folders, AddCustom(f)
  PROVE  /\ \A x \in pins' : x[1] \in DOMAIN projects'
         /\ \A x \in pins : x[2] = Script /\ x[1] \in DOMAIN projects /\ Exists(x[1])' => x \in pins'
<1> DEFINE P == Merged(scanned, customs')
<1>1. projects' = P /\ pins' = Pruned(P) /\ UNCHANGED console
  BY DEF AddCustom, Apply, consoleVars
<1>2. DOMAIN scanned \subseteq DOMAIN P
  BY DEF Merged
<1> HIDE DEF P
<1>3. DOMAIN scanned = DOMAIN projects \cap Scannable /\ DOMAIN projects \subseteq Projects
  BY DEF WorkspaceIInv, CopiesAgree, WorkspaceTypeOK
<1>4. ASSUME NEW p \in DOMAIN projects, Exists(p)' PROVE p \in DOMAIN scanned
  <2>1. Exists(p)
    BY <1>1, <1>4 DEF Exists
  <2>2. QED
    BY <1>3, <2>1, ExistsScannable
<1>5. QED
  BY <1>1, <1>2, <1>3, <1>4, PrunedScripts

(* Nor does a start from the cache.                                        *)
LEMMA StartKeepsPins ==
  ASSUME WorkspaceIInv, StartFromCache
  PROVE  /\ \A x \in pins' : x[1] \in DOMAIN projects'
         /\ \A x \in pins :
              x[2] = Script /\ x[1] \in DOMAIN projects \cup DOMAIN stored.projects /\ Exists(x[1])'
                => x \in pins'
<1> DEFINE t == Restrict(stored.projects, Kept)
<1>1. InMemoryTypeOK /\ SessionTypeOK
  BY TypeParts DEF WorkspaceIInv
<1>2. ApplyAndRefresh(t) /\ app = "down"
  BY DEF StartFromCache, Starting
<1>3. Kept \in SUBSET Scannable /\ t \in [Kept -> Data] /\ \A p \in Kept : t[p].customs = {}
  BY <1>1 DEF Kept, Restrict, SessionTypeOK, WorkspaceIInv, StoredStripped
<1>4. \A p \in Kept : t[p].customs \subseteq Owed(Kept, customs, p)
  BY <1>3
<1> HIDE DEF t
<1>5. /\ \A x \in pins' : x[1] \in DOMAIN projects'
      /\ \A x \in pins : x[2] = Script /\ x[1] \in Kept => x \in pins'
      /\ UNCHANGED console
  BY <1>1, <1>2, <1>3, <1>4, ApplyKeepsPins
<1>6. DOMAIN projects = {}
  BY <1>2 DEF WorkspaceIInv, DownIsEmpty, Empty
<1>7. ASSUME NEW p \in DOMAIN stored.projects, Exists(p)' PROVE p \in Kept
  BY <1>5, <1>7 DEF Kept, Exists
<1>8. QED
  BY <1>5, <1>6, <1>7

(* A discovery that ends changes nothing of what is pinned or shown, and   *)
(* stores only where projects were stored.                                 *)
LEMMA DiscoveryKeepsPins ==
  ASSUME WorkspaceIInv, PinsShown, NEW j \in DOMAIN jobs, OnDiscoveryFinished(j) \/ OnDiscoveryFailed(j)
  PROVE  PinsShown' /\ UNCHANGED pins
<1>1. PICK d : app = "running" /\ Discovered(j[1], d) /\ UNCHANGED roots
  BY DEF OnDiscoveryFinished, OnDiscoveryFailed
<1>2. UNCHANGED <<app, pins>>
  BY <1>1 DEF Discovered
<1>3. CASE Composer(j[1]) \in DOMAIN projects
  <2>1. DOMAIN projects' = DOMAIN projects
    BY <1>1, <1>3 DEF Discovered
  <2>2. j[1] \in Folders
    BY DEF WorkspaceIInv, WorkspaceTypeOK, ConsoleTypeOK
  <2>3. Composer(j[1]) \in DOMAIN projects \cap Scannable
    BY <1>3, <2>2 DEF Scannable
  <2>4. stored = [roots |-> roots, projects |-> Stripped(projects)]
    BY <1>1, <2>3 DEF WorkspaceIInv, CacheCurrent
  <2>5. DOMAIN stored.projects # {}
    BY <2>3, <2>4 DEF Stripped
  <2>6. QED
    BY <1>1, <1>2, <2>1, <2>5 DEF PinsShown
<1>4. CASE Composer(j[1]) \notin DOMAIN projects
  BY <1>1, <1>2, <1>4 DEF Discovered, PinsShown
<1>5. QED
  BY <1>3, <1>4

(* Every step keeps that, and takes no script's pin but where the user or  *)
(* the scans of a start do.                                                *)
ScriptsStay == app # "restoring" => \A x \in pins : x[2] = Script => ~Lost(x)

(* Nor does any other step.                                                *)
LEMMA StepKeepsPins ==
  ASSUME WorkspaceIInv, PinsShown, [WorkspaceNext]_allVars
  PROVE  PinsShown' /\ ScriptsStay
<1>1. pins \subseteq Projects \X Commands
  BY DEF WorkspaceIInv, WorkspaceTypeOK
<1>2. ASSUME UNCHANGED pins PROVE ScriptsStay
  BY <1>2 DEF ScriptsStay, Lost
<1>3. ASSUME app = "running",
             \A x \in pins : x[2] = Script /\ x[1] \in DOMAIN projects /\ Exists(x[1])' => x \in pins'
      PROVE  ScriptsStay
  BY <1>3 DEF ScriptsStay, Lost, PinsShown
<1>4. ASSUME NEW f \in Folders, ScanFolder(f) PROVE PinsShown' /\ ScriptsStay
  BY <1>3, <1>4, ScanKeepsPins DEF ScanFolder, PinsShown
<1>5. ASSUME NEW f \in Folders, AddCustom(f) PROVE PinsShown' /\ ScriptsStay
  BY <1>3, <1>5, AddCustomKeepsPins DEF AddCustom, PinsShown
<1>6. ASSUME NEW p \in Projects, SelectProject(p) PROVE PinsShown' /\ ScriptsStay
  BY <1>2, <1>6 DEF SelectProject, PinsShown
<1>7. ASSUME NEW p \in Projects, NEW c \in Commands, SetPinned(p, c) PROVE PinsShown' /\ ScriptsStay
  <2>1. PinsShown'
    BY <1>7 DEF SetPinned, PinsShown
  <2>2. ASSUME NEW x \in pins, x \notin pins' PROVE SetPinned(x[1], x[2])
    <3>1. x = <<p, c>>
      BY <1>7, <2>2 DEF SetPinned
    <3>2. QED
      BY <1>7, <3>1
  <2>3. QED
    BY <2>1, <2>2 DEF ScriptsStay, Lost
<1>8. CASE Discovery
  <2>1. CASE PhpStep
    BY <1>2, <2>1 DEF PhpStep, workspaceVars, PinsShown
  <2>2. ASSUME NEW j \in DOMAIN jobs, OnDiscoveryFinished(j) \/ OnDiscoveryFailed(j)
        PROVE  PinsShown' /\ ScriptsStay
    BY <1>2, <2>2, DiscoveryKeepsPins
  <2>3. QED
    BY <1>8, <2>1, <2>2 DEF Discovery
<1>9. CASE GoDown
  BY <1>2, <1>9 DEF GoDown, PinsShown
<1>10. CASE StartEmpty
  <2>1. DOMAIN stored'.projects = {} /\ UNCHANGED pins
    BY <1>10 DEF StartEmpty, Empty
  <2>2. QED
    BY <1>2, <2>1 DEF PinsShown
<1>11. CASE StartFromCache
  BY <1>11, StartKeepsPins DEF ScriptsStay, Lost, PinsShown
<1>12. CASE StartRescanning
  BY <1>2, <1>12 DEF StartRescanning, PinsShown
<1>13. ASSUME NEW r \in Folders, RescanRoot(r) PROVE PinsShown' /\ ScriptsStay
  BY <1>13, ScanKeepsPins DEF RescanRoot, PinsShown, ScriptsStay
<1>14. CASE EditDisk
  BY <1>2, <1>14 DEF EditDisk, workspaceVars, PinsShown
<1>15. CASE UNCHANGED allVars
  BY <1>2, <1>15 DEF allVars, workspaceVars, PinsShown
<1>16. QED
  BY <1>4, <1>5, <1>6, <1>7, <1>8, <1>9, <1>10, <1>11, <1>12, <1>13, <1>14, <1>15
  DEF WorkspaceNext, User, Session

(* Pins are persisted in Settings: only the user takes one off a script of *)
(* a project that is still there (prunePins and its callers), but for the  *)
(* scans of a start that finds another cache format, in whatever order     *)
(* scans, restarts, edits of the disk and discoveries come.                *)
THEOREM ScriptPinsStay == WorkspaceSpec => ScriptPinsKept
<1>1. WorkspaceInit => PinsShown
  BY DEF WorkspaceInit, PinsShown
<1>2. WorkspaceIInv /\ PinsShown /\ [WorkspaceNext]_allVars => PinsShown'
  BY StepKeepsPins
<1>3. WorkspaceIInv /\ PinsShown /\ [WorkspaceNext]_allVars =>
        [app # "restoring" => \A x \in pins : x[2] = Script => ~Lost(x)]_allVars
  BY StepKeepsPins DEF ScriptsStay
<1>4. QED
  BY <1>1, <1>2, <1>3, WorkspaceInvariant, PTL DEF WorkspaceSpec, ScriptPinsKept
=============================================================================
