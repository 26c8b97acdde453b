------------------------------ MODULE TreeModel ------------------------------
(***************************************************************************)
(* The sidebar's tree (src/src/treemodel.cpp): a node per workspace root,  *)
(* under it the folders that lead to projects, each with the git branch    *)
(* last read for it, and an entry for the manifests of a folder that is    *)
(* more than a leaf.  ProjectService builds it anew after every scan; the  *)
(* branches are read again every two seconds.  A folder is a sequence of   *)
(* names and a node a pair of its root and its folder.                     *)
(***************************************************************************)
EXTENDS Naturals, SequencesExt

CONSTANTS
  RootSets,   \* the workspaces, as sets of folders
  Scans,      \* what scans find, as sequences of <<folder, manifest>>
  Worktrees,  \* the folders whose .git comes and goes or changes its HEAD
  MaxHeads    \* bound on those changes

ASSUME TreeAssumption ==
  /\ \A rs \in RootSets : \A r \in rs : r \in Seq(STRING)
  /\ \A ps \in Scans : ps \in Seq(Seq(STRING) \X STRING)
  /\ MaxHeads \in Nat

VARIABLES
  heads,       \* per folder the branch of its own .git, "" if unreadable
  moved,       \* counts the changes of heads
  found,       \* the projects the tree was built of
  roots,       \* m_rootPaths
  nodes,       \* the folders in the tree, with their manifests
  entries,     \* the folders with an entry, and the entry's manifest
  branches,    \* m_gitBranch of each folder
  ticking      \* m_gitRefreshTimer runs
treeVars == <<heads, moved, found, roots, nodes, entries, branches, ticking>>

NoGit == "no git"

-----------------------------------------------------------------------------
(* branchForFolder: the folder's own .git or, for a root, the nearest one  *)
(* above it; what cannot be read is no branch and ends the search.         *)
HeadOf(folder) == IF folder \in Worktrees THEN heads[folder] ELSE NoGit
branchForFolder(folder, searchParents) ==
  LET at == {n \in (IF searchParents THEN 1..Len(folder) ELSE {Len(folder)}) :
               HeadOf(SubSeq(folder, 1, n)) # NoGit}
  IN  IF at = {} THEN "" ELSE HeadOf(SubSeq(folder, 1, Max(at)))

IsTop(node) == node[1] = node[2]
BranchNow(node) == branchForFolder(node[2], IsTop(node))
Up(node) == <<node[1], Front(node[2])>>

(* The deepest root that contains the folder, if any does.                 *)
Above(folder, rs) == {r \in rs : IsPrefix(r, folder)}
RootFor(folder, rs) == CHOOSE r \in Above(folder, rs) : \A q \in Above(folder, rs) : Len(q) <= Len(r)

(* A tree under construction.                                              *)
Tree(ns, es, bs) == [nodes |-> ns, entries |-> es, branches |-> bs]
BareTree(rs) == LET tops == {<<r, r>> : r \in rs}
                IN  Tree([n \in tops |-> {}], [n \in {} |-> ""],
                         [n \in tops |-> branchForFolder(n[2], TRUE)])

Put(f, node, value) == [n \in {node} \cup DOMAIN f |-> IF n = node THEN value ELSE f[n]]

HasFolders(t, node) == \E n \in DOMAIN t.nodes : ~IsTop(n) /\ Up(n) = node
Single(manifests) == IF Cardinality(manifests) = 1 THEN CHOOSE m \in manifests : TRUE ELSE ""

syncManifestsEntry(t, node) ==
  IF t.nodes[node] = {} \/ ~(HasFolders(t, node) \/ IsTop(node)) THEN t
  ELSE Tree(t.nodes, Put(t.entries, node, Single(t.nodes[node])), t.branches)

(* One folder and then its parent's entry, from the root down.             *)
AddFolder(t, node) ==
  IF node \in DOMAIN t.nodes THEN t
  ELSE syncManifestsEntry(
         Tree(Put(t.nodes, node, {}), t.entries, Put(t.branches, node, BranchNow(node))),
         Up(node))

ensureFolder(t, root, folder) ==
  LET downTo[n \in 0..(Len(folder) - Len(root))] ==
        IF n = 0 THEN t ELSE AddFolder(downTo[n - 1], <<root, SubSeq(folder, 1, Len(root) + n)>>)
  IN  downTo[Len(folder) - Len(root)]

(* A project outside all roots is not shown.                               *)
addProjectManifest(t, rs, project) ==
  IF Above(project[1], rs) = {} THEN t
  ELSE LET node == <<RootFor(project[1], rs), project[1]>>
           tree == ensureFolder(t, node[1], project[1])
           ms == tree.nodes[node] \cup {project[2]}
       IN  syncManifestsEntry(Tree(Put(tree.nodes, node, ms), tree.entries, tree.branches), node)

(* The projects one by one, in the order of the scan.                      *)
TreeOf(rs, ps) ==
  LET upTo[n \in 0..Len(ps)] ==
        IF n = 0 THEN BareTree(rs) ELSE addProjectManifest(upTo[n - 1], rs, ps[n])
  IN  upTo[Len(ps)]

-----------------------------------------------------------------------------
Install(tree) == nodes' = tree.nodes /\ entries' = tree.entries /\ branches' = tree.branches

TreeInit ==
  /\ heads \in [Worktrees -> {"main", NoGit}] /\ moved = 0
  /\ found = <<>> /\ roots = {} /\ ticking = FALSE
  /\ nodes = BareTree({}).nodes /\ entries = BareTree({}).entries /\ branches = BareTree({}).branches

(* Bug: clear has stopped the timer and only the first roots start it.     *)
RebuildStopped ==
  /\ \E rs \in RootSets, ps \in Scans :
       /\ roots' = rs /\ found' = ps
       /\ Install(TreeOf(rs, ps))
       /\ ticking' = (roots = {} /\ rs # {})
  /\ UNCHANGED <<heads, moved>>

(* The end of ProjectService::applyProjects: clear, setRootPaths and the   *)
(* projects.                                                               *)
RebuildTree ==
  /\ \E rs \in RootSets, ps \in Scans :
       /\ roots' = rs /\ found' = ps
       /\ Install(TreeOf(rs, ps))
       /\ ticking' = (rs # {})
  /\ UNCHANGED <<heads, moved>>

refreshGitBranches ==
  /\ ticking
  /\ branches' = [n \in DOMAIN branches |-> BranchNow(n)]
  /\ branches' # branches
  /\ UNCHANGED <<heads, moved, found, roots, nodes, entries, ticking>>

(* git, outside the app.                                                   *)
HeadMoves ==
  /\ moved < MaxHeads /\ moved' = moved + 1
  /\ \E w \in Worktrees, b \in {"main", "dev", "", NoGit} : heads' = [heads EXCEPT ![w] = b]
  /\ UNCHANGED <<found, roots, nodes, entries, branches, ticking>>

TreeNext == RebuildTree \/ refreshGitBranches \/ HeadMoves

TreeSpec == TreeInit /\ [][TreeNext]_treeVars

-----------------------------------------------------------------------------
(* Every folder is in the tree once and hangs where it belongs: all that   *)
(* is between it and the deepest root that contains it is there, whatever  *)
(* roots contain each other, and no other folder.                          *)
FoldersStandOnce ==
  /\ DOMAIN branches = DOMAIN nodes
  /\ \A m, n \in DOMAIN nodes : m[2] = n[2] => m = n
  /\ \A n \in DOMAIN nodes : IF IsTop(n) THEN n[1] \in roots ELSE Up(n) \in DOMAIN nodes
  /\ {n[2] : n \in DOMAIN nodes} =
       roots \cup UNION {{SubSeq(p[1], 1, i) : i \in Len(RootFor(p[1], roots))..Len(p[1])} :
                           p \in {q \in ToSet(found) : Above(q[1], roots) # {}}}

(* Every manifest that was found in the workspace can be opened, from its  *)
(* folder's row as long as that is a leaf and else from the entry in it,   *)
(* in whatever order the folders came; a single one goes by its name.      *)
ManifestsHaveTheirRow ==
  /\ \A p \in ToSet(found) : Above(p[1], roots) # {} =>
       p[2] \in nodes[<<RootFor(p[1], roots), p[1]>>]
  /\ \A n \in DOMAIN nodes :
       n \in DOMAIN entries <=> nodes[n] # {} /\ (IsTop(n) \/ \E c \in DOMAIN nodes : ~IsTop(c) /\ Up(c) = n)
  /\ \A n \in DOMAIN entries : entries[n] = Single(nodes[n])

(* When the work trees are left alone, the branches shown become theirs.   *)
BranchesFollow == []<>(\A n \in DOMAIN branches : branches[n] = BranchNow(n))
=============================================================================
