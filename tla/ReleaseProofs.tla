----------------------------- MODULE ReleaseProofs -----------------------------
(***************************************************************************)
(* For any versions, and however long main and the branches become: a pull  *)
(* request of a branch that was neither merged before nor left behind has   *)
(* the version of its branch, there is one such pull request at a time, and *)
(* no new branch is made while any pull request of a release is open.       *)
(***************************************************************************)
EXTENDS Release, SequenceTheorems, TLAPS

USE ReleaseAssumption DEF ReleaseAssumption

-------------------------------------------------------------------------------
(* Versions                                                                *)

LEMMA LessIsStrict == \A v \in Version : ~Less(v, v)
  BY DEF Less

LEMMA BumpIsLater ==
  ASSUME NEW v \in Version, NEW part, First = v \/ Less(First, v)
  PROVE  Less(First, Bump(v, part))
  <1>1. /\ v[1] \in Nat /\ v[2] \in Nat /\ v[3] \in Nat
        /\ First[1] \in Nat /\ First[2] \in Nat /\ First[3] \in Nat
    OBVIOUS
  <1>2. CASE part = "major"
    <2>1. Bump(v, part) = <<v[1] + 1, 0, 0>>
      BY <1>2 DEF Bump
    <2> QED BY <1>1, <2>1 DEF Less
  <1>3. CASE part = "minor"
    <2>1. Bump(v, part) = <<v[1], v[2] + 1, 0>>
      BY <1>3 DEF Bump
    <2> QED BY <1>1, <2>1 DEF Less
  <1>4. CASE part # "major" /\ part # "minor"
    <2>1. Bump(v, part) = <<v[1], v[2], v[3] + 1>>
      BY <1>4 DEF Bump
    <2> QED BY <1>1, <2>1 DEF Less
  <1> QED BY <1>2, <1>3, <1>4

-------------------------------------------------------------------------------
(* Types                                                                   *)

Branches == [Version -> Tip \cup {None}]
Work == [on : 1..Len(log), version : Version, deps : Nat]
Run == [step : Steps, version : Version \cup {None}, deps : Nat, began : 0..Len(log),
        branch : Version \cup {None}, new : BOOLEAN]

\* The branches, and what is known of them when main and their commits stay.
LEMMA TypesOf ==
  ASSUME TypeOK
  PROVE  /\ remote \in Branches /\ tracked \in Branches /\ local \in Branches
         /\ work = None \/ work \in Work
         /\ run \in Run
         /\ log \in Seq(Tip) /\ Len(log) \in Nat \ {0}
         /\ \A i \in 1..Len(log) : log[i] \in Tip
         /\ Newest \in Tip
  <1>1. /\ remote \in Branches /\ tracked \in Branches /\ local \in Branches
        /\ work = None \/ work \in Work
        /\ run \in Run
    BY DEF TypeOK, Branches, Work, Run
  <1>2. log \in Seq(Tip) /\ Len(log) \in Nat \ {0}
    BY DEF TypeOK
  <1>3. \A i \in 1..Len(log) : log[i] \in Tip
    BY <1>2
  <1> QED BY <1>1, <1>2, <1>3 DEF Newest

LEMMA TipFields ==
  ASSUME NEW a \in Tip, Len(log) \in Nat, commits \in Nat
  PROVE  /\ a.on \in 1..Len(log) /\ a.own \subseteq 1..commits
         /\ a.version \in Version /\ a.deps \in Nat /\ a # None
  <1>1. /\ a.on \in 1..Len(log) /\ a.own \subseteq 1..commits
        /\ a.version \in Version /\ a.deps \in Nat
    BY DEF Tip
  <1>2. a \in [on : Nat, own : SUBSET Nat, version : Version, deps : Nat]
    BY DEF Tip
  <1> QED BY <1>1, <1>2

LEMMA NoRunType == ASSUME Len(log) \in Nat PROVE NoRun \in Run
  BY DEF NoRun, Run, Steps

LEMMA TypeKept ==
  ASSUME UNCHANGED <<log, commits>>
  PROVE  Tip' = Tip /\ Branches' = Branches /\ Work' = Work /\ Run' = Run
  BY DEF Tip, Branches, Work, Run

LEMMA HeadTipType == ASSUME TypeOK PROVE HeadTip \in Tip
  BY TypesOf DEF TypeOK, HeadTip, Branches, BranchExists

\* A commit on a branch that exists.
LEMMA TypeCommit ==
  ASSUME TypeOK, NEW b \in Version, NEW on \in 1..Len(log), NEW own \in SUBSET (1..commits),
         NEW version \in Version, NEW deps \in Nat, Commit(b, on, own, version, deps), log' = log
  PROVE  /\ commits' \in Nat
         /\ Tip \subseteq Tip'
         /\ local' \in Branches'
         /\ local'[b] = [on |-> on, own |-> own \cup {commits + 1}, version |-> version, deps |-> deps]
         /\ local'[b] \in Tip'
         /\ \A c \in Version \ {b} : local'[c] = local[c]
  <1>1. commits \in Nat /\ commits' = commits + 1
    BY DEF TypeOK, Commit
  <1>2. Tip \subseteq Tip'
    <2> SUFFICES ASSUME NEW a \in Tip PROVE a \in Tip'
      OBVIOUS
    <2>1. 1..commits \subseteq 1..commits'
      BY <1>1
    <2> QED BY <2>1 DEF Tip
  <1>3. [on |-> on, own |-> own \cup {commits + 1}, version |-> version, deps |-> deps] \in Tip'
    BY <1>1 DEF Tip
  <1>4. local \in [Version -> Tip' \cup {None}]
    BY <1>2, TypesOf DEF Branches
  <1>5. local' = [local EXCEPT ![b] = [on |-> on, own |-> own \cup {commits + 1},
                                       version |-> version, deps |-> deps]]
    BY DEF Commit
  <1> HIDE DEF ReleaseAssumption
  <1> QED BY <1>1, <1>2, <1>3, <1>4, <1>5 DEF Branches

\* One more commit on main.
LEMMA TypeAppend ==
  ASSUME TypeOK, NEW t, t \in Tip', log' = Append(log, t), commits' = commits
  PROVE  /\ Len(log') = Len(log) + 1
         /\ \A i \in 1..Len(log) : log'[i] = log[i]
         /\ log'[Len(log) + 1] = t
         /\ Newest' = t
         /\ Tip \subseteq Tip' /\ log' \in Seq(Tip')
  <1>1. log \in Seq(Tip) /\ Len(log) \in Nat \ {0}
    BY TypesOf
  <1>2. /\ Len(log') = Len(log) + 1
        /\ \A i \in 1..Len(log) : log'[i] = log[i]
        /\ log'[Len(log) + 1] = t
    BY <1>1
  <1>3. Tip \subseteq Tip'
    BY <1>1, <1>2 DEF Tip
  <1>4. log \in Seq(Tip')
    BY <1>1, <1>3
  <1>5. log' \in Seq(Tip')
    BY <1>4
  <1> QED BY <1>2, <1>3, <1>5 DEF Newest

\* A step that leaves main and the commits alone.
LEMMA TypeStays ==
  ASSUME TypeOK, UNCHANGED <<log, commits>>,
         remote' \in Branches, tracked' \in Branches, local' \in Branches,
         main' \in 1..Len(log), head' = Main \/ (head' \in Version /\ local'[head'] # None),
         work' = None \/ (work' \in Work /\ head' # Main),
         prs' \subseteq {b \in Version : remote'[b] # None}, run' \in Run,
         interrupted' \subseteq Version, merged' \subseteq Version, stale' \in BOOLEAN
  PROVE  TypeOK'
  BY DEF TypeOK, Branches, Work, Run, Tip, BranchExists

\* A step that commits to branch b, which is checked out.
LEMMA TypeCommits ==
  ASSUME TypeOK, NEW b \in Version, local[b] # None, NEW on \in 1..Len(log), NEW own \in SUBSET (1..commits),
         NEW version \in Version, NEW deps \in Nat, Commit(b, on, own, version, deps),
         UNCHANGED <<log, remote, tracked, main, head, prs, history>>,
         work' = None \/ (work' \in Work /\ head' # Main), run' \in Run
  PROVE  TypeOK'
  <1>1. /\ commits' \in Nat
        /\ Tip \subseteq Tip'
        /\ local' \in Branches'
        /\ local'[b] \in Tip'
        /\ \A c \in Version \ {b} : local'[c] = local[c]
    BY TypeCommit DEF history
  <1>2. commits' \in Nat /\ Len(log') \in Nat
    BY <1>1, TypesOf
  <1>3. local'[b] # None
    <2>1. 1..commits' \subseteq Nat /\ 1..Len(log') \subseteq Nat
      BY <1>2
    <2>2. local'[b] \in [on : Nat, own : SUBSET Nat, version : Version, deps : Nat]
      BY <1>1, <2>1 DEF Tip
    <2> QED BY <2>2
  <1>4. remote' \in Branches' /\ tracked' \in Branches'
    BY <1>1, TypesOf DEF Branches
  <1>5. log' \in Seq(Tip')
    BY <1>1, TypesOf
  <1>6. head' = Main \/ (head' \in Version /\ BranchExists(local', head'))
    BY <1>1, <1>3 DEF TypeOK, BranchExists
  <1>7. /\ main' \in 1..Len(log')
        /\ prs' \subseteq {c \in Version : BranchExists(remote', c)}
        /\ interrupted' \subseteq Version /\ merged' \subseteq Version /\ stale' \in BOOLEAN
        /\ Len(log') > 0
    BY <1>1, <1>3 DEF TypeOK, BranchExists, history
  <1>8. Work' = Work /\ Run' = Run
    BY DEF Work, Run
  <1> QED
    BY <1>1, <1>2, <1>4, <1>5, <1>6, <1>7, <1>8 DEF TypeOK, Branches, Work, Run

LEMMA TypeScript == ASSUME TypeOK, RunIsOnBranch, MainGrows, Script PROVE TypeOK'
  <1> USE DEF history, github, clone
  <1>0. /\ remote \in Branches /\ tracked \in Branches /\ local \in Branches
        /\ work = None \/ work \in Work
        /\ run \in Run /\ commits \in Nat
        /\ Len(log) \in Nat \ {0} /\ Newest \in Tip /\ HeadTip \in Tip
        /\ main \in 1..Len(log)
        /\ head = Main \/ (head \in Version /\ local[head] # None)
        /\ work = None \/ (work \in Work /\ head # Main)
        /\ prs \subseteq {b \in Version : remote[b] # None}
        /\ interrupted \subseteq Version /\ merged \subseteq Version /\ stale \in BOOLEAN
    BY TypesOf, HeadTipType DEF TypeOK, BranchExists
  <1>1. CASE Begin
    <2>1. HeadTip.on \in 0..Len(log) /\ HeadTip.version \in Version /\ HeadTip.deps \in Nat
      BY <1>0, TipFields
    <2>2. run' \in Run
      BY <1>1, <1>0, <2>1, NoRunType DEF Begin, Run, Steps
    <2> QED BY <1>1, <1>0, <2>2, TypeStays DEF Begin
  <1>2. CASE StayOnBranch
    <2>1. run' \in Run
      BY <1>2, <1>0, NoRunType DEF StayOnBranch, OnReleaseBranch, Run, Steps, OnBranch
    <2> QED BY <1>2, <1>0, <2>1, TypeStays DEF StayOnBranch
  <1>3. CASE ReuseBranch
    <2>1. PICK b \in Version : run' = [NoRun EXCEPT !.step = "checkout", !.branch = b]
      BY <1>3 DEF ReuseBranch, Selected, OpenReleaseBranches, ReleaseBranches
    <2>2. run' \in Run
      BY <2>1, <1>0, NoRunType DEF Run, Steps
    <2> QED BY <1>3, <1>0, <2>2, TypeStays DEF ReuseBranch
  <1>4. ASSUME NEW part \in Parts, NameBranch(part) PROVE TypeOK'
    <2>1. run' \in Run
      BY <1>4, <1>0 DEF NameBranch, Run, Steps
    <2> QED BY <1>4, <1>0, <2>1, TypeStays DEF NameBranch
  <1>5. run.step \notin {"idle", "resolve"} => run.branch \in Version
    BY <1>0 DEF RunIsOnBranch, Run
  <1>6. ASSUME NEW s \in Steps, run' = [run EXCEPT !.step = s] PROVE run' \in Run
    BY <1>6, <1>0 DEF Run
  <1>7. {"write", "sync", "refresh", "commit", "push", "pr"} \subseteq Steps
    BY DEF Steps, OnBranch, Creating
  <1>8. CASE CheckoutLocal
    <2>1. run' \in Run
      BY <1>8, <1>6, <1>7 DEF CheckoutLocal, AfterCheckout, Goto
    <2> QED BY <1>8, <1>0, <1>5, <2>1, TypeStays DEF CheckoutLocal, BranchExists, RunIsOnBranch
  <1>9. CASE CheckoutRemote
    <2>1. run' \in Run
      BY <1>9, <1>6, <1>7 DEF CheckoutRemote, AfterCheckout, Goto
    <2>2. local' \in Branches /\ tracked' \in Branches /\ local'[head'] # None /\ head' \in Version
      BY <1>9, <1>0, <1>5 DEF CheckoutRemote, BranchExists, Branches
    <2> QED BY <1>9, <1>0, <2>1, <2>2, TypeStays DEF CheckoutRemote, RunIsOnBranch
  <1>10. CASE CreateBranch
    <2>1. run' \in Run
      BY <1>10, <1>6, <1>7 DEF CreateBranch, Goto
    <2>2. local' \in Branches /\ local'[head'] # None /\ head' \in Version
      BY <1>10, <1>0, <1>5, TipFields DEF CreateBranch, Branches
    <2>3. main' \in 1..Len(log)
      BY <1>10, <1>0 DEF CreateBranch
    <2> QED BY <1>10, <1>0, <2>1, <2>2, <2>3, TypeStays DEF CreateBranch, RunIsOnBranch
  <1>11. CASE AlreadyMerged
    <2>1. run' \in Run
      BY <1>11, <1>6, <1>7 DEF AlreadyMerged, Goto
    <2> QED BY <1>11, <1>0, <2>1, TypeStays DEF AlreadyMerged
  <1>12. CASE FastForward
    <2>1. run' \in Run
      BY <1>12, <1>6, <1>7 DEF FastForward, Goto
    <2>2. local' \in Branches /\ \A b \in Version : local[b] # None => local'[b] # None
      BY <1>12, <1>0, TipFields DEF FastForward, Branches
    <2> QED BY <1>12, <1>0, <2>1, <2>2, TypeStays DEF FastForward
  <1>13. run.step \in OnBranch => head = run.branch /\ head \in Version /\ local[head] # None
    BY <1>0, <1>5 DEF RunIsOnBranch, OnBranch, Creating
  <1>14. ASSUME head \in Version, local[head] # None
         PROVE  /\ local[head] \in Tip
                /\ local[head].on \in 1..Len(log) /\ local[head].own \subseteq 1..commits
                /\ local[head].version \in Version /\ local[head].deps \in Nat
    <2>1. local[head] \in Tip
      BY <1>14, <1>0 DEF Branches
    <2> QED BY <2>1, <1>0, TipFields
  <1>15. /\ Newest.on \in 1..Len(log) /\ Newest.own \subseteq 1..commits
         /\ Newest.version \in Version /\ Newest.deps \in Nat
    BY <1>0, TipFields
  <1>16. CASE MergeMain
    <2> DEFINE a == local[head]
    <2>1. head = run.branch /\ head \in Version /\ a # None
      BY <1>16, <1>13 DEF MergeMain, OnBranch, Creating
    <2>2. /\ a \in Tip /\ a.on \in 1..Len(log) /\ a.own \subseteq 1..commits
          /\ a.version \in Version /\ a.deps \in Nat
      BY <2>1, <1>14
    <2>3. log[a.on] \in Tip
      BY <2>2, TypesOf
    <2>4. MergedVersion(a) \in Version /\ MergedDeps(a) \in Nat
      BY <2>2, <1>15 DEF MergedVersion, MergedDeps, Merged
    <2>5. Commit(head, Newest.on, a.own \cup Newest.own, MergedVersion(a), MergedDeps(a))
      BY <1>16, <2>1 DEF MergeMain
    <2>6. run' \in Run
      BY <1>16, <1>6, <1>7 DEF MergeMain, Goto
    <2> HIDE DEF a
    <2> QED BY <1>16, <1>0, <1>15, <2>1, <2>2, <2>4, <2>5, <2>6, TypeCommits DEF MergeMain
  <1>17. CASE MergeConflicts
    <2>1. head = run.branch /\ head \in Version /\ local[head] # None
      BY <1>17, <1>13 DEF MergeConflicts, OnBranch, Creating
    <2>2. work' \in Work
      BY <1>17, <1>14, <1>15, <2>1 DEF MergeConflicts, Work
    <2> QED BY <1>17, <1>0, <2>1, <2>2, NoRunType, TypeStays DEF MergeConflicts
  <1>18. CASE WriteVersion
    <2>1. head = run.branch /\ head \in Version /\ local[head] # None
      BY <1>18, <1>13 DEF WriteVersion, OnBranch, Creating
    <2>2. work' \in Work
      BY <1>18, <1>0, <1>14, <2>1 DEF WriteVersion, Text, Work, Run
    <2>3. run' \in Run
      BY <1>18, <1>6, <1>7 DEF WriteVersion, Goto
    <2>4. stale' \in BOOLEAN
      BY <1>18, <1>0 DEF WriteVersion
    <2> QED BY <1>18, <1>0, <2>1, <2>2, <2>3, <2>4, TypeStays DEF WriteVersion
  <1>19. CASE RefreshLockAndLicenses
    <2>1. head = run.branch /\ head \in Version /\ local[head] # None
      BY <1>19, <1>13 DEF RefreshLockAndLicenses, OnBranch, Creating
    <2>2. run' \in Run
      BY <1>19, <1>6, <1>7 DEF RefreshLockAndLicenses, Goto
    <2>3. CASE UNCHANGED <<local, commits>>
      BY <1>19, <1>0, <2>2, <2>3, TypeStays DEF RefreshLockAndLicenses
    <2>4. CASE Commit(head, local[head].on, local[head].own, local[head].version, local[head].deps)
      BY <1>19, <1>0, <1>14, <2>1, <2>2, <2>4, TypeCommits DEF RefreshLockAndLicenses
    <2> QED BY <1>19, <2>1, <2>3, <2>4 DEF RefreshLockAndLicenses
  <1>20. CASE CommitVersion
    <2>1. head = run.branch /\ head \in Version /\ local[head] # None
      BY <1>20, <1>13 DEF CommitVersion, OnBranch, Creating
    <2>2. work \in Work
      BY <1>20, <1>0 DEF CommitVersion, RunIsOnBranch
    <2>3. /\ work.on \in 1..Len(log) /\ work.version \in Version /\ work.deps \in Nat
      BY <2>2 DEF Work
    <2>4. run' \in Run
      BY <1>20, <1>6, <1>7 DEF CommitVersion, Goto
    <2>5. Commit(head, work.on, local[head].own, work.version, work.deps)
      BY <1>20, <2>1 DEF CommitVersion
    <2> QED BY <1>20, <1>0, <1>14, <2>1, <2>3, <2>4, <2>5, TypeCommits DEF CommitVersion
  <1>21. CASE Push
    <2>1. head = run.branch /\ head \in Version /\ local[head] # None
      BY <1>21, <1>13 DEF Push, OnBranch, Creating
    <2>2. run' \in Run
      BY <1>21, <1>6, <1>7 DEF Push, Goto
    <2>3. /\ remote' \in Branches /\ tracked' \in Branches
          /\ \A b \in Version : remote[b] # None => remote'[b] # None
      BY <1>21, <1>0, <2>1 DEF Push, Branches
    <2> QED BY <1>21, <1>0, <2>2, <2>3, TypeStays DEF Push
  <1>22. CASE CreatePr
    <2>1. run.branch \in Version
      BY <1>22, <1>5 DEF CreatePr
    <2>2. prs' \subseteq {b \in Version : remote'[b] # None}
      BY <1>22, <1>0, <2>1 DEF CreatePr, Refuses
    <2> QED BY <1>22, <1>0, <2>2, NoRunType, TypeStays DEF CreatePr
  <1>23. CASE Fail
    <2>1. interrupted' \subseteq Version
      BY <1>23, <1>0, <1>5 DEF Fail
    <2> QED BY <1>23, <1>0, <2>1, NoRunType, TypeStays DEF Fail
  <1> QED BY <1>1, <1>2, <1>3, <1>4, <1>8, <1>9, <1>10, <1>11, <1>12, <1>16, <1>17, <1>18, <1>19,
             <1>20, <1>21, <1>22, <1>23 DEF Script

\* A step that adds a commit to main.
LEMMA TypeGrows ==
  ASSUME TypeOK, NEW t, t \in Tip', log' = Append(log, t),
         UNCHANGED <<clone, run, commits, interrupted, stale>>,
         remote' \in Branches, merged' \subseteq Version,
         prs' \subseteq {b \in Version : remote'[b] # None}
  PROVE  TypeOK'
  <1>1. /\ Len(log') = Len(log) + 1
        /\ Tip \subseteq Tip' /\ log' \in Seq(Tip')
    BY TypeAppend
  <1>2. Len(log) \in Nat \ {0}
    BY TypesOf
  <1>3. Branches \subseteq Branches'
    BY <1>1 DEF Branches
  <1>4. Work \subseteq Work'
    BY <1>1, <1>2 DEF Work
  <1>5. Run \subseteq Run'
    BY <1>1, <1>2 DEF Run
  <1>6. /\ remote' \in Branches' /\ tracked' \in Branches' /\ local' \in Branches' /\ run' \in Run'
    BY <1>3, <1>5, TypesOf DEF clone
  <1>7. work' = None \/ (work' \in Work' /\ head' # Main)
    BY <1>4 DEF TypeOK, Work, clone
  <1>8. /\ main' \in 1..Len(log')
        /\ head' = Main \/ (head' \in Version /\ BranchExists(local', head'))
        /\ interrupted' \subseteq Version /\ stale' \in BOOLEAN /\ commits' \in Nat
    BY <1>1, <1>2 DEF TypeOK, BranchExists, clone
  <1>9. Len(log') > 0 /\ prs' \subseteq {b \in Version : BranchExists(remote', b)}
    BY <1>1, <1>2 DEF BranchExists
  <1> QED BY <1>1, <1>6, <1>7, <1>8, <1>9 DEF TypeOK, Branches, Work, Run

LEMMA TypeOthers == ASSUME TypeOK, MainGrows, Others PROVE TypeOK'
  <1>0. /\ remote \in Branches /\ Len(log) \in Nat \ {0} /\ commits \in Nat
        /\ Newest \in Tip
        /\ prs \subseteq {b \in Version : remote[b] # None} /\ merged \subseteq Version
    BY TypesOf DEF TypeOK, BranchExists
  <1>1. /\ Newest.own \subseteq 1..commits /\ Newest.version \in Version /\ Newest.deps \in Nat
    BY <1>0, TipFields
  <1>2. ASSUME NEW t, log' = Append(log, t), commits' = commits, t.on = Len(log) + 1,
               t.own \subseteq 1..commits, t.version \in Version, t.deps \in Nat,
               t = [on |-> t.on, own |-> t.own, version |-> t.version, deps |-> t.deps]
        PROVE  t \in Tip'
    <2>1. Len(log') = Len(log) + 1
      BY <1>0, <1>2, TypesOf
    <2>2. /\ t.on \in 1..Len(log')
          /\ t.own \in SUBSET (1..commits')
      BY <1>0, <1>2, <2>1
    <2> HIDE DEF ReleaseAssumption
    <2> QED BY <1>2, <2>2 DEF Tip
  <1>3. CASE Develop
    <2> DEFINE t == [on |-> Len(log) + 1, own |-> Newest.own, version |-> Newest.version, deps |-> Newest.deps + 1]
    <2>1. log' = Append(log, t)
      BY <1>3 DEF Develop
    <2>2. t \in Tip'
      <3>1. Newest.deps + 1 \in Nat /\ commits' = commits
        BY <1>1, <1>3 DEF Develop
      <3> QED BY <1>1, <1>2, <2>1, <3>1
    <2>3. /\ UNCHANGED <<clone, run, commits, interrupted, stale>>
          /\ remote' \in Branches /\ merged' \subseteq Version
          /\ prs' \subseteq {b \in Version : remote'[b] # None}
      BY <1>0, <1>3 DEF Develop, history
    <2> HIDE DEF t
    <2> QED BY <2>1, <2>2, <2>3, TypeGrows
  <1>4. ASSUME NEW b \in Version, NEW squash \in BOOLEAN, MergePr(b, squash) PROVE TypeOK'
    <2> DEFINE a == remote[b]
    <2>1. a \in Tip
      BY <1>0, <1>4 DEF MergePr, Branches
    <2>2. /\ a.on \in 1..Len(log) /\ a.own \subseteq 1..commits
          /\ a.version \in Version /\ a.deps \in Nat
      BY <1>0, <2>1, TipFields
    <2> HIDE DEF a
    <2>3. MergedVersion(a) \in Version /\ MergedDeps(a) \in Nat
      BY <1>1, <2>2 DEF MergedVersion, MergedDeps, Merged
    <2> DEFINE t == [on |-> Len(log) + 1, own |-> IF squash THEN Newest.own ELSE Newest.own \cup a.own,
                     version |-> MergedVersion(a), deps |-> MergedDeps(a)]
    <2>4. log' = Append(log, t)
      BY <1>4 DEF MergePr, a
    <2>5. t \in Tip'
      BY <1>1, <1>2, <1>4, <2>2, <2>3, <2>4 DEF MergePr
    <2>6. /\ remote' \in Branches /\ merged' \subseteq Version
          /\ prs' \subseteq {c \in Version : remote'[c] # None}
      BY <1>0, <1>4 DEF MergePr, Branches
    <2> HIDE DEF t
    <2> QED BY <1>4, <2>4, <2>5, <2>6, TypeGrows DEF MergePr
  <1> QED BY <1>3, <1>4 DEF Others

LEMMA TypeDeveloper == ASSUME TypeOK, MainGrows, Developer PROVE TypeOK'
  <1> USE DEF github, history
  <1>0. /\ remote \in Branches /\ tracked \in Branches /\ local \in Branches
        /\ run \in Run /\ Len(log) \in Nat \ {0} /\ commits \in Nat
        /\ main \in 1..Len(log)
        /\ head = Main \/ (head \in Version /\ local[head] # None)
        /\ work = None \/ (work \in Work /\ head # Main)
        /\ prs \subseteq {b \in Version : remote[b] # None}
        /\ interrupted \subseteq Version /\ merged \subseteq Version /\ stale \in BOOLEAN
    BY TypesOf DEF TypeOK, BranchExists
  <1>1. UNCHANGED <<github, run, history>>
    BY DEF Developer
  <1>2. CASE PullMain
    BY <1>0, <1>1, <1>2, TypeStays DEF PullMain
  <1>3. CASE CommitWork
    <2>1. /\ head \in Version /\ local[head] # None
          /\ work.on \in 1..Len(log) /\ work.version \in Version /\ work.deps \in Nat
      BY <1>0, <1>3 DEF CommitWork, Work
    <2>2. local[head] \in Tip /\ log[work.on] \in Tip
      BY <1>0, <2>1, TypesOf DEF Branches
    <2>3. local[head].own \cup log[work.on].own \subseteq 1..commits
      BY <1>0, <2>2, TipFields
    <2> QED BY <1>0, <1>1, <1>3, <2>1, <2>3, TypeCommits DEF CommitWork
  <1>4. CASE Stash
    BY <1>0, <1>1, <1>4, TypeStays DEF Stash
  <1>5. ASSUME NEW b \in Version \cup {Main}, Checkout(b) PROVE TypeOK'
    BY <1>0, <1>1, <1>5, TypeStays DEF Checkout
  <1>6. ASSUME NEW b \in Version, DeleteLocal(b) PROVE TypeOK'
    <2>1. local' \in Branches /\ (head = Main \/ (head \in Version /\ local'[head] # None))
      BY <1>0, <1>6 DEF DeleteLocal, Branches
    <2> QED BY <1>0, <1>1, <1>6, <2>1, TypeStays DEF DeleteLocal
  <1> QED BY <1>2, <1>3, <1>4, <1>5, <1>6 DEF Developer

-------------------------------------------------------------------------------
(* What the steps of a run know of the clone                               *)

LEMMA RunStep == ASSUME TypeOK, RunIsOnBranch, Next PROVE RunIsOnBranch'
  <1> USE DEF github, clone, history, OnBranch, Creating
  <1>0. run \in Run /\ local \in Branches /\ (work = None \/ work \in Work)
    BY TypesOf
  <1>1. run.step \notin {"idle", "resolve"} => run.branch \in Version
    BY <1>0 DEF RunIsOnBranch, Run
  <1>2. /\ NoRun.step = "idle" /\ NoRun.branch = None /\ NoRun.new = FALSE
    BY DEF NoRun
  <1>3. ASSUME run' = NoRun PROVE RunIsOnBranch'
    BY <1>2, <1>3 DEF RunIsOnBranch
  <1>4. CASE Begin
    <2>1. /\ run'.step = "resolve" /\ run'.branch = None /\ run'.new = FALSE
          /\ run'.version = HeadTip.version /\ run'.began = HeadTip.on
      BY <1>4 DEF Begin, NoRun
    <2> QED BY <1>4, <2>1 DEF Begin, RunIsOnBranch, HeadTip
  <1>5. CASE StayOnBranch
    <2>1. /\ run'.step = "sync" /\ run'.branch = head /\ run'.new = FALSE
      BY <1>5 DEF StayOnBranch, NoRun
    <2> QED BY <1>5, <2>1 DEF StayOnBranch, OnReleaseBranch, RunIsOnBranch, TypeOK
  <1>6. CASE ReuseBranch
    <2>1. PICK b \in Version : run' = [NoRun EXCEPT !.step = "checkout", !.branch = b]
      BY <1>6 DEF ReuseBranch, Selected, OpenReleaseBranches, ReleaseBranches
    <2>2. run'.step = "checkout" /\ run'.branch = b /\ run'.new = FALSE
      BY <2>1 DEF NoRun
    <2> QED BY <1>6, <2>2 DEF ReuseBranch, RunIsOnBranch
  <1>7. ASSUME NEW part \in Parts, NameBranch(part) PROVE RunIsOnBranch'
    <2>1. run'.step = "checkout" /\ run'.branch \in Version /\ run'.new = TRUE
      BY <1>0, <1>7 DEF NameBranch, Run
    <2> QED BY <1>7, <2>1 DEF NameBranch, RunIsOnBranch
  <1>8. ASSUME NEW s, Goto(s)
        PROVE  run'.step = s /\ run'.branch = run.branch /\ run'.new = run.new
    BY <1>0, <1>8 DEF Goto, Run
  <1>9. CASE CheckoutLocal \/ CheckoutRemote
    BY <1>1, <1>8, <1>9 DEF CheckoutLocal, CheckoutRemote, AfterCheckout, RunIsOnBranch
  <1>10. CASE CreateBranch
    <2>1. /\ run.step = "checkout" /\ run.new /\ head' = run.branch /\ UNCHANGED work
          /\ run'.step = "write" /\ run'.branch = run.branch /\ run'.new = run.new
      BY <1>8, <1>10 DEF CreateBranch
    <2> QED BY <1>1, <2>1 DEF RunIsOnBranch
  <1>11. CASE AlreadyMerged \/ FastForward \/ MergeMain
    BY <1>1, <1>8, <1>11 DEF AlreadyMerged, FastForward, MergeMain, RunIsOnBranch
  <1>12. CASE WriteVersion
    <2>1. head = run.branch /\ head \in Version /\ local[head] \in Tip
      BY <1>0, <1>1, <1>12 DEF WriteVersion, RunIsOnBranch, TypeOK, BranchExists, Branches
    <2>2. local[head].on \in 1..Len(log) /\ Len(log) \in Nat /\ run.deps \in Nat
      BY <2>1, <1>0, TypesOf, TipFields DEF TypeOK, Run
    <2>3. work' \in [on : Nat, version : Version, deps : Nat] /\ work'.version = run.branch
      BY <1>12, <2>1, <2>2 DEF WriteVersion, Text
    <2>4. work' # None
      BY <2>3
    <2> QED BY <1>1, <1>8, <1>12, <2>3, <2>4 DEF WriteVersion, RunIsOnBranch
  <1>13. CASE RefreshLockAndLicenses
    BY <1>1, <1>8, <1>13 DEF RefreshLockAndLicenses, RunIsOnBranch
  <1>14. CASE CommitVersion \/ Push
    BY <1>1, <1>8, <1>14 DEF CommitVersion, Push, RunIsOnBranch
  <1>15. CASE MergeConflicts \/ CreatePr \/ Fail
    BY <1>3, <1>15 DEF MergeConflicts, CreatePr, Fail
  <1>16. CASE Others
    <2>1. PICK t : log' = Append(log, t)
      BY <1>16 DEF Others, Develop, MergePr
    <2>2. log'[main] = log[main]
      BY <2>1, TypesOf DEF TypeOK
    <2> QED BY <1>16, <2>2 DEF Others, Develop, MergePr, RunIsOnBranch, HeadTip
  <1>17. CASE Developer
    BY <1>17, <1>0 DEF Developer, RunIsOnBranch
  <1> QED BY <1>4, <1>5, <1>6, <1>7, <1>9, <1>10, <1>11, <1>12, <1>13, <1>14, <1>15, <1>16, <1>17
          DEF Next, Script

-------------------------------------------------------------------------------
(* What a step does to the branches                                        *)

Known == merged \cup {First}

\* No branch has a tip that it had not, ...
Fewer == \A b \in Version : Tips(b)' \subseteq Tips(b)

\* ... or the one that is checked out has one in the clone: the newest main, or
\* a new commit on what it was and on commits of main.
NewLocal(b, a) ==
    /\ UNCHANGED <<log, remote, tracked, prs, merged>>
    /\ local' = [local EXCEPT ![b] = a]
    /\ head' = b
    /\ local[b] # None \/ run.branch = b
    /\ a.version \in Known \cup {b}
    /\ \/ a = Newest /\ commits' = commits
       \/ /\ local[b] # None
          /\ commits' = commits + 1
          /\ commits' \in a.own
          /\ a.own \subseteq local[b].own \cup Newest.own \cup {commits'}

LEMMA NewestIsKnown ==
  ASSUME TypeOK, VersionsAreKnown
  PROVE  Newest.version \in Known /\ \A i \in 1..Len(log) : log[i].version \in Known
  BY TypesOf DEF VersionsAreKnown, Newest, Known

LEMMA MainIsContained ==
  ASSUME TypeOK, MainGrows
  PROVE  \A i \in 1..Len(log) : log[i].on = i /\ log[i].own \subseteq Newest.own
  BY TypesOf DEF MainGrows, Newest

\* What a merge makes of two versions and of two numbers of edits.
LEMMA MergeTakesOne ==
  ASSUME NEW a
  PROVE  /\ MergedVersion(a) \in {a.version, Newest.version}
         /\ MergedDeps(a) \in {a.deps, Newest.deps}
  BY DEF MergedVersion, MergedDeps, Merged

LEMMA LocalIsKnown ==
  ASSUME TypeOK, VersionsAreKnown, NEW b \in Version, local[b] # None
  PROVE  local[b] \in Tips(b) /\ local[b].version \in Known \cup {b}
  <1>1. local[b] \in Tips(b)
    BY DEF Tips
  <1> QED BY <1>1 DEF VersionsAreKnown, Known

LEMMA TipsStep ==
  ASSUME TypeOK, RunIsOnBranch, MainGrows, VersionsAreKnown, Next
  PROVE  Fewer \/ \E b \in Version : \E a : NewLocal(b, a)
  <1> USE DEF github, clone, history
  <1>0. /\ remote \in Branches /\ tracked \in Branches /\ local \in Branches
        /\ run \in Run /\ commits \in Nat
    BY TypesOf DEF TypeOK
  <1>1. run.step \notin {"idle", "resolve"} => run.branch \in Version
    BY <1>0 DEF RunIsOnBranch, Run
  <1>2. run.step \in OnBranch => head = run.branch /\ head \in Version /\ local[head] # None
    BY <1>1 DEF RunIsOnBranch, OnBranch, Creating, TypeOK, BranchExists
  <1>3. ASSUME UNCHANGED <<remote, tracked, local>> PROVE Fewer
    BY <1>3 DEF Fewer, Tips
  <1>4. CASE Begin
    BY <1>4, <1>0 DEF Begin, Fewer, Tips
  <1>5. CASE CheckoutRemote
    BY <1>5, <1>0, <1>1 DEF CheckoutRemote, BranchExists, Fewer, Tips, Branches
  <1>6. CASE Push
    BY <1>6, <1>0, <1>2 DEF Push, OnBranch, Fewer, Tips, Branches
  <1>7. ASSUME NEW b \in Version, NEW squash \in BOOLEAN, MergePr(b, squash) PROVE Fewer
    BY <1>7, <1>0 DEF MergePr, Fewer, Tips, Branches
  <1>8. ASSUME NEW b \in Version, DeleteLocal(b), Developer PROVE Fewer
    BY <1>8, <1>0 DEF DeleteLocal, Developer, Fewer, Tips, Branches
  <1>9. CASE CreateBranch
    <2>1. NewLocal(run.branch, Newest)
      BY <1>9, NewestIsKnown DEF CreateBranch, NewLocal
    <2> QED BY <1>1, <1>9, <2>1 DEF CreateBranch
  <1>10. CASE FastForward
    <2>1. head = run.branch /\ head \in Version /\ local[head] # None
      BY <1>2, <1>10 DEF FastForward, OnBranch
    <2>2. NewLocal(head, Newest)
      BY <1>10, <2>1, NewestIsKnown DEF FastForward, NewLocal
    <2> QED BY <2>1, <2>2
  <1>11. ASSUME NEW b \in Version, b = head, local[b] # None, NEW on, NEW own, NEW version \in Known \cup {b}, NEW deps,
                own \subseteq local[b].own \cup Newest.own, Commit(b, on, own, version, deps),
                UNCHANGED <<log, remote, tracked, prs, merged, head>>
         PROVE  \E c \in Version : \E a : NewLocal(c, a)
    <2> DEFINE a == [on |-> on, own |-> own \cup {commits + 1}, version |-> version, deps |-> deps]
    <2>1. local' = [local EXCEPT ![b] = a] /\ commits' = commits + 1
      BY <1>11 DEF Commit
    <2>2. a.version \in Known \cup {b} /\ commits' \in a.own /\ a.own \subseteq local[b].own \cup Newest.own \cup {commits'}
      BY <1>11, <2>1
    <2> HIDE DEF a
    <2>3. NewLocal(b, a)
      BY <1>11, <2>1, <2>2 DEF NewLocal
    <2> QED BY <2>3
  <1>12. CASE MergeMain
    <2>1. head = run.branch /\ head \in Version /\ local[head] # None
      BY <1>2, <1>12 DEF MergeMain, OnBranch
    <2>2. MergedVersion(local[head]) \in Known \cup {head}
      BY <2>1, MergeTakesOne, NewestIsKnown, LocalIsKnown
    <2> QED BY <1>11, <1>12, <2>1, <2>2 DEF MergeMain
  <1>13. CASE RefreshLockAndLicenses
    <2>1. head = run.branch /\ head \in Version /\ local[head] # None
      BY <1>2, <1>13 DEF RefreshLockAndLicenses, OnBranch, Creating
    <2>2. local[head].version \in Known \cup {head}
      BY <2>1, LocalIsKnown
    <2> QED BY <1>3, <1>11, <1>13, <2>1, <2>2 DEF RefreshLockAndLicenses
  <1>14. CASE CommitVersion
    <2>1. head = run.branch /\ head \in Version /\ local[head] # None
      BY <1>2, <1>14 DEF CommitVersion, OnBranch, Creating
    <2>2. work.version = head
      BY <1>14, <2>1 DEF CommitVersion, RunIsOnBranch
    <2> QED BY <1>11, <1>14, <2>1, <2>2 DEF CommitVersion
  <1>15. CASE CommitWork /\ Developer
    <2>1. head \in Version /\ local[head] # None /\ work.on \in 1..Len(log)
      BY <1>15 DEF CommitWork, TypeOK, BranchExists
    <2>2. work.version \in Known \cup {head}
      BY <1>15 DEF CommitWork, VersionsAreKnown, Known
    <2>3. log[work.on].own \subseteq Newest.own
      BY <2>1, MainIsContained
    <2> QED BY <1>11, <1>15, <2>1, <2>2, <2>3 DEF CommitWork, Developer
  <1>16. ASSUME NEW part \in Parts, NameBranch(part) PROVE Fewer
    BY <1>3, <1>16 DEF NameBranch
  <1>17. CASE StayOnBranch \/ ReuseBranch \/ CheckoutLocal \/ AlreadyMerged \/ MergeConflicts \/ WriteVersion
              \/ CreatePr \/ Fail \/ Develop
    BY <1>3, <1>17 DEF StayOnBranch, ReuseBranch, CheckoutLocal, AlreadyMerged, MergeConflicts, WriteVersion,
                       CreatePr, Fail, Develop
  <1>18. CASE Developer
    <2>1. UNCHANGED github
      BY <1>18 DEF Developer
    <2>2. CASE PullMain \/ Stash \/ Checkout(Main) \/ \E b \in Version : Checkout(b)
      BY <1>3, <2>1, <2>2 DEF PullMain, Stash, Checkout
    <2> QED BY <1>8, <1>15, <1>18, <2>2 DEF Developer
  <1> QED BY <1>4, <1>5, <1>6, <1>7, <1>9, <1>10, <1>12, <1>13, <1>14, <1>16, <1>17, <1>18
          DEF Next, Script, Others

\* What a step does to main.
LEMMA LogStep ==
  ASSUME TypeOK, Next
  PROVE  \/ log' = log
         \/ \E t : /\ log' = Append(log, t) /\ t.on = Len(log) + 1
                   /\ Newest.own \subseteq t.own
                   /\ \/ Develop /\ t.version = Newest.version /\ t.own = Newest.own
                      \/ \E b \in Version : /\ b \in prs /\ merged' = merged \cup {b}
                                            /\ t.own \subseteq Newest.own \cup remote[b].own
                                            /\ t.version \in {Newest.version, remote[b].version}
  <1>1. CASE Develop
    BY <1>1 DEF Develop
  <1>2. ASSUME NEW b \in Version, NEW squash \in BOOLEAN, MergePr(b, squash)
        PROVE  \E t : /\ log' = Append(log, t) /\ t.on = Len(log) + 1
                      /\ Newest.own \subseteq t.own
                      /\ b \in prs /\ merged' = merged \cup {b}
                      /\ t.own \subseteq Newest.own \cup remote[b].own
                      /\ t.version \in {Newest.version, remote[b].version}
    BY <1>2, MergeTakesOne DEF MergePr
  <1>3. CASE Script
    BY <1>3 DEF Script, Begin, StayOnBranch, ReuseBranch, NameBranch, CheckoutLocal, CheckoutRemote, CreateBranch,
                AlreadyMerged, FastForward, MergeMain, MergeConflicts, WriteVersion, RefreshLockAndLicenses,
                CommitVersion, Push, CreatePr, Fail, github
  <1>4. CASE Developer
    BY <1>4 DEF Developer, github
  <1> QED BY <1>1, <1>2, <1>3, <1>4 DEF Next, Others

\* The history of merges grows with main only.
LEMMA MergedStep == ASSUME Next PROVE merged \subseteq merged' /\ merged' \subseteq merged \cup prs
  BY DEF Next, Script, Begin, StayOnBranch, ReuseBranch, NameBranch, CheckoutLocal, CheckoutRemote, CreateBranch,
         AlreadyMerged, FastForward, MergeMain, MergeConflicts, WriteVersion, RefreshLockAndLicenses,
         CommitVersion, Push, CreatePr, Fail, Others, Develop, MergePr, Developer, history

LEMMA MainStep ==
  ASSUME TypeOK, MainGrows, Next
  PROVE  MainGrows' /\ Newest.own \subseteq Newest'.own
  <1>1. CASE log' = log
    BY <1>1 DEF MainGrows, Newest
  <1>2. ASSUME NEW t, log' = Append(log, t), t.on = Len(log) + 1, Newest.own \subseteq t.own
        PROVE  MainGrows' /\ Newest.own \subseteq Newest'.own
    <2>1. /\ Len(log') = Len(log) + 1 /\ Len(log) \in Nat \ {0}
          /\ \A i \in 1..Len(log) : log'[i] = log[i]
          /\ log'[Len(log) + 1] = t
      BY <1>2, TypesOf
    <2>2. \A i \in 1..Len(log) : log[i].own \subseteq t.own
      BY <1>2, MainIsContained
    <2>3. Newest' = t
      BY <2>1 DEF Newest
    <2> QED BY <1>2, <2>1, <2>2, <2>3 DEF MainGrows
  <1> QED BY <1>1, <1>2, LogStep

\* What a step does to the uncommitted changes.
LEMMA WorkStep ==
  ASSUME TypeOK, RunIsOnBranch, VersionsAreKnown, Next
  PROVE  \/ work' = None
         \/ work' = work /\ head' = head
         \/ WriteVersion /\ head' = head /\ work'.version = head
         \/ MergeConflicts /\ head' = head /\ head \in Version /\ local[head] # None
                           /\ work'.version = local[head].version
  <1> USE DEF github, clone, OnBranch, Creating
  <1>0. run \in Run
    BY TypesOf
  <1>1. run.step \in {"sync", "write"} => head = run.branch /\ head \in Version /\ local[head] # None
    BY <1>0 DEF RunIsOnBranch, Run, TypeOK, BranchExists
  <1>2. CASE WriteVersion
    BY <1>1, <1>2 DEF WriteVersion, Text
  <1>3. CASE MergeConflicts
    BY <1>1, <1>3 DEF MergeConflicts
  <1>4. CASE CheckoutLocal \/ CheckoutRemote \/ CreateBranch
    BY <1>4 DEF CheckoutLocal, CheckoutRemote, CreateBranch, RunIsOnBranch
  <1>5. CASE Begin \/ StayOnBranch \/ ReuseBranch \/ AlreadyMerged \/ FastForward \/ MergeMain
             \/ RefreshLockAndLicenses \/ CommitVersion \/ Push \/ CreatePr \/ Fail
    BY <1>5 DEF Begin, StayOnBranch, ReuseBranch, AlreadyMerged, FastForward, MergeMain,
                RefreshLockAndLicenses, CommitVersion, Push, CreatePr, Fail
  <1>6. ASSUME NEW part \in Parts, NameBranch(part) PROVE work' = work /\ head' = head
    BY <1>6 DEF NameBranch
  <1>7. CASE Others
    BY <1>7 DEF Others, Develop, MergePr
  <1>8. CASE Developer
    BY <1>8 DEF Developer, PullMain, CommitWork, Stash, Checkout, DeleteLocal
  <1> QED BY <1>2, <1>3, <1>4, <1>5, <1>6, <1>7, <1>8 DEF Next, Script

LEMMA KnownStep ==
  ASSUME TypeOK, RunIsOnBranch, MainGrows, VersionsAreKnown, Next
  PROVE  VersionsAreKnown'
  <1>1. Known \subseteq Known'
    BY MergedStep DEF Known
  <1>2. \A i \in 1..Len(log') : log'[i].version \in Known'
    <2>1. CASE log' = log
      BY <1>1, <2>1, NewestIsKnown
    <2>2. ASSUME NEW t, log' = Append(log, t), t.version \in Known' PROVE \A i \in 1..Len(log') : log'[i].version \in Known'
      <3>1. /\ Len(log') = Len(log) + 1 /\ Len(log) \in Nat \ {0}
            /\ \A i \in 1..Len(log) : log'[i] = log[i]
            /\ log'[Len(log) + 1] = t
        BY <2>2, TypesOf
      <3> QED BY <1>1, <2>2, <3>1, NewestIsKnown
    <2>3. ASSUME NEW b \in Version, b \in prs, merged' = merged \cup {b}
          PROVE  remote[b].version \in Known'
      <3>1. remote[b] \in Tips(b)
        BY <2>3 DEF TypeOK, BranchExists, Tips
      <3> QED BY <2>3, <3>1 DEF VersionsAreKnown, Known
    <2>4. Newest.version \in Known'
      BY <1>1, NewestIsKnown
    <2>5. CASE log' # log
      <3>1. PICK t : /\ log' = Append(log, t)
                     /\ \/ t.version = Newest.version
                        \/ \E b \in Version : /\ b \in prs /\ merged' = merged \cup {b}
                                              /\ t.version \in {Newest.version, remote[b].version}
        BY <2>5, LogStep
      <3>2. t.version \in Known'
        BY <2>3, <2>4, <3>1
      <3> QED BY <2>2, <3>1, <3>2
    <2> QED BY <2>1, <2>5
  <1>3. ASSUME NEW b \in Version, NEW a \in Tips(b)' PROVE a.version \in Known' \cup {b}
    <2>1. CASE a \in Tips(b)
      BY <1>1, <2>1 DEF VersionsAreKnown, Known
    <2>2. ASSUME NEW c \in Version, NEW d, NewLocal(c, d), a \notin Tips(b)
          PROVE  a.version \in Known' \cup {b}
      <3>1. b = c /\ a = d
        BY <2>2, <1>3, TypesOf DEF NewLocal, Tips, Branches
      <3> QED BY <1>1, <2>2, <3>1 DEF NewLocal
    <2>3. CASE Fewer
      BY <1>3, <2>1, <2>3 DEF Fewer
    <2>4. CASE \E c \in Version : \E d : NewLocal(c, d)
      BY <2>1, <2>2, <2>4
    <2> QED BY <2>3, <2>4, TipsStep
  <1>4. work' # None => work'.version \in Known' \cup {head'}
    <2>1. ASSUME head \in Version, local[head] # None
          PROVE  local[head].version \in Known' \cup {head}
      BY <1>1, <2>1, LocalIsKnown
    <2> QED BY <1>1, <2>1, WorkStep DEF VersionsAreKnown, Known
  <1> QED BY <1>2, <1>3, <1>4 DEF VersionsAreKnown, Known

\* The tips of the branches, before and after a step.
LEMMA TipsAre ==
  ASSUME TypeOK, NEW b \in Version
  PROVE  /\ Tips(b) \subseteq Tip
         /\ \A a \in Tips(b) : a.own \subseteq 1..commits
         /\ Tips(b) # {} <=> local[b] # None \/ tracked[b] # None \/ remote[b] # None
  <1>1. Tips(b) \subseteq Tip
    BY TypesOf DEF Tips, Branches
  <1>2. \A a \in Tips(b) : a.own \subseteq 1..commits
    BY <1>1 DEF Tip
  <1> QED BY <1>1, <1>2 DEF Tips

LEMMA NewLocalTips ==
  ASSUME TypeOK, NEW b \in Version, NEW a, NewLocal(b, a)
  PROVE  /\ \A c \in Version \ {b} : Tips(c)' = Tips(c)
         /\ Tips(b)' \subseteq Tips(b) \cup {a}
  <1>1. /\ local'[b] = a /\ tracked' = tracked /\ remote' = remote
        /\ \A c \in Version \ {b} : local'[c] = local[c]
    BY TypesOf DEF NewLocal, Branches
  <1> QED BY <1>1 DEF Tips

\* What a step does to the branch of the run.
LEMMA BranchStep ==
  ASSUME TypeOK, Next
  PROVE  \/ run'.branch \in {None, run.branch}
         \/ StayOnBranch /\ run'.branch = head
         \/ ReuseBranch /\ run'.branch \in OpenReleaseBranches
         \/ \E part \in Parts : NameBranch(part) /\ run'.branch = Bump(run.version, part)
  <1>0. run \in Run
    BY TypesOf
  <1>1. ASSUME NEW s, Goto(s) PROVE run'.branch = run.branch
    BY <1>0, <1>1 DEF Goto, Run
  <1>2. NoRun.branch = None
    BY DEF NoRun
  <1>3. CASE Begin
    BY <1>3 DEF Begin, NoRun
  <1>4. CASE StayOnBranch
    BY <1>4 DEF StayOnBranch, NoRun
  <1>5. CASE ReuseBranch
    BY <1>5 DEF ReuseBranch, NoRun, Selected
  <1>6. ASSUME NEW part \in Parts, NameBranch(part) PROVE run'.branch = Bump(run.version, part)
    BY <1>0, <1>6 DEF NameBranch, Run
  <1>7. CASE CheckoutLocal \/ CheckoutRemote \/ CreateBranch \/ AlreadyMerged \/ FastForward \/ MergeMain
             \/ WriteVersion \/ RefreshLockAndLicenses \/ CommitVersion \/ Push
    BY <1>1, <1>7 DEF CheckoutLocal, CheckoutRemote, AfterCheckout, CreateBranch, AlreadyMerged, FastForward,
                      MergeMain, WriteVersion, RefreshLockAndLicenses, CommitVersion, Push
  <1>8. CASE MergeConflicts \/ CreatePr \/ Fail
    BY <1>2, <1>8 DEF MergeConflicts, CreatePr, Fail
  <1>9. CASE Others \/ Developer
    BY <1>9 DEF Others, Develop, MergePr, Developer
  <1> QED BY <1>3, <1>4, <1>5, <1>6, <1>7, <1>8, <1>9 DEF Next, Script

LEMMA LaterStep ==
  ASSUME TypeOK, RunIsOnBranch, MainGrows, VersionsAreKnown, ReleasesAreLater, Next
  PROVE  ReleasesAreLater'
  <1> SUFFICES ASSUME NEW b \in Version, b \in merged' \/ Tips(b)' # {} \/ run'.branch = b
               PROVE  Less(First, b)
    BY DEF ReleasesAreLater
  <1>1. b \in merged \/ Tips(b) # {} \/ run.branch = b => Less(First, b)
    BY DEF ReleasesAreLater
  <1>2. CASE b \in merged'
    <2>1. b \in prs => Tips(b) # {}
      BY TipsAre DEF TypeOK, BranchExists
    <2> QED BY <1>1, <1>2, <2>1, MergedStep
  <1>3. CASE Tips(b)' # {}
    <2>1. CASE Fewer
      BY <1>1, <1>3, <2>1 DEF Fewer
    <2>2. ASSUME NEW c \in Version, NEW a, NewLocal(c, a) PROVE Less(First, b)
      <3>1. CASE b = c
        BY <1>1, <2>2, <3>1, TipsAre DEF NewLocal
      <3>2. CASE b # c
        BY <1>1, <1>3, <2>2, <3>2, NewLocalTips
      <3> QED BY <3>1, <3>2
    <2> QED BY <2>1, <2>2, TipsStep
  <1>4. CASE run'.branch = b
    <2>1. CASE run'.branch \in {None, run.branch}
      BY <1>1, <1>4, <2>1
    <2>2. CASE StayOnBranch /\ run'.branch = head
      <3>1. head # Main
        BY <2>2 DEF StayOnBranch, OnReleaseBranch
      <3> QED BY <1>1, <1>4, <2>2, <3>1, TipsAre DEF TypeOK, BranchExists
    <2>3. CASE run'.branch \in OpenReleaseBranches
      BY <1>1, <1>4, <2>3, TipsAre DEF OpenReleaseBranches, ReleaseBranches, BranchExists
    <2>4. ASSUME NEW part \in Parts, NameBranch(part), run'.branch = Bump(run.version, part) PROVE Less(First, b)
      <3>1. run.version = log[main].version
        BY <2>4 DEF NameBranch, OnReleaseBranch, RunIsOnBranch, HeadTip
      <3>2. run.version \in Version /\ run.version \in Known
        <4>1. log[main] \in Tip
          BY TypesOf DEF TypeOK
        <4> QED BY <3>1, <4>1, NewestIsKnown DEF TypeOK, Tip
      <3>3. First = run.version \/ Less(First, run.version)
        BY <3>2 DEF Known, ReleasesAreLater
      <3> QED BY <1>4, <2>4, <3>2, <3>3, BumpIsLater
    <2> QED BY <2>1, <2>2, <2>3, <2>4, BranchStep
  <1> QED BY <1>2, <1>3, <1>4

LEMMA ApartStep ==
  ASSUME TypeOK, RunIsOnBranch, MainGrows, VersionsAreKnown, BranchesAreApart, Next
  PROVE  BranchesAreApart'
  <1>1. Newest.own \subseteq Newest'.own
    BY MainStep
  <1>2. CASE Fewer
    BY <1>1, <1>2 DEF Fewer, BranchesAreApart
  <1>3. ASSUME NEW e \in Version, NEW x, NewLocal(e, x) PROVE BranchesAreApart'
    <2>1. Newest' = Newest
      BY <1>3 DEF NewLocal, Newest
    <2>2. ASSUME NEW c \in Version, c # e, NEW d \in Tips(c) PROVE x.own \cap d.own \subseteq Newest.own
      <3>1. d.own \subseteq 1..commits /\ commits \in Nat
        BY <2>2, TipsAre DEF TypeOK
      <3>2. local[e] # None => local[e].own \cap d.own \subseteq Newest.own
        BY <2>2 DEF BranchesAreApart, Tips
      <3>3. commits + 1 \notin d.own
        BY <3>1
      <3> QED BY <1>3, <3>2, <3>3 DEF NewLocal
    <2>3. ASSUME NEW b \in Version, NEW c \in Version, b # c, NEW a \in Tips(b)', NEW d \in Tips(c)'
          PROVE  a.own \cap d.own \subseteq Newest.own
      <3>1. /\ a \in Tips(b) \/ (b = e /\ a = x)
            /\ d \in Tips(c) \/ (c = e /\ d = x)
        <4>1. /\ b # e => Tips(b)' = Tips(b)
              /\ c # e => Tips(c)' = Tips(c)
              /\ Tips(e)' \subseteq Tips(e) \cup {x}
          BY <1>3, NewLocalTips
        <4> QED BY <2>3, <4>1
      <3> QED BY <2>2, <2>3, <3>1 DEF BranchesAreApart
    <2> QED BY <2>1, <2>3 DEF BranchesAreApart
  <1> QED BY <1>2, <1>3, TipsStep

-------------------------------------------------------------------------------
(* Sound branches                                                          *)

LEMMA SoundStep == ASSUME Next PROVE \A b \in Version : Sound(b)' => Sound(b)
  <1>1. interrupted \subseteq interrupted'
    BY DEF Next, Script, Begin, StayOnBranch, ReuseBranch, NameBranch, CheckoutLocal, CheckoutRemote, CreateBranch,
           AlreadyMerged, FastForward, MergeMain, MergeConflicts, WriteVersion, RefreshLockAndLicenses,
           CommitVersion, Push, CreatePr, Fail, Others, Develop, MergePr, Developer, history
  <1> QED BY <1>1, MergedStep DEF Sound

\* How a run that makes a branch goes on.
LEMMA NewStep ==
  ASSUME TypeOK, RunIsOnBranch, Next, run'.new
  PROVE  \/ \E part \in Parts : NameBranch(part) /\ run'.step = "checkout"
         \/ /\ run.new /\ run'.branch = run.branch
            /\ \/ run' = run
               \/ CheckoutLocal \/ CheckoutRemote \/ CreateBranch
               \/ run.step \in Creating /\ run'.step \in {"refresh", "commit"}
               \/ CommitVersion \/ Push
            /\ run'.step = "checkout" => run' = run
  <1>0. run \in Run
    BY TypesOf
  <1>1. ASSUME NEW s, Goto(s) PROVE run'.branch = run.branch /\ run'.new = run.new /\ run'.step = s
    BY <1>0, <1>1 DEF Goto, Run
  <1>2. NoRun.new = FALSE
    BY DEF NoRun
  <1>3. ~Begin /\ ~StayOnBranch /\ ~ReuseBranch
    BY DEF Begin, StayOnBranch, ReuseBranch, NoRun
  <1>4. ~MergeConflicts /\ ~CreatePr /\ ~Fail
    BY <1>2 DEF MergeConflicts, CreatePr, Fail
  <1>5. ~AlreadyMerged /\ ~FastForward /\ ~MergeMain
    BY <1>1 DEF AlreadyMerged, FastForward, MergeMain, RunIsOnBranch, Creating
  <1>6. ASSUME NEW part \in Parts, NameBranch(part) PROVE run'.step = "checkout"
    BY <1>0, <1>6 DEF NameBranch, Run
  <1>7. CASE CheckoutLocal \/ CheckoutRemote \/ CreateBranch \/ CommitVersion \/ Push
    <2>1. Goto("write") \/ Goto("sync") \/ Goto("push") \/ Goto("pr")
      BY <1>7 DEF CheckoutLocal, CheckoutRemote, AfterCheckout, CreateBranch, CommitVersion, Push
    <2>2. /\ run'.branch = run.branch /\ run'.new = run.new
          /\ run'.step \in {"write", "sync", "push", "pr"}
      BY <1>1, <2>1
    <2> QED BY <1>7, <2>2
  <1>8. CASE WriteVersion \/ RefreshLockAndLicenses
    <2>1. run.step \in {"write", "refresh"}
      BY <1>8 DEF WriteVersion, RefreshLockAndLicenses
    <2>2. Goto("refresh") \/ Goto("commit") \/ (Goto("push") /\ ~run.new)
      BY <1>8 DEF WriteVersion, RefreshLockAndLicenses
    <2>3. /\ run'.branch = run.branch /\ run'.new = run.new
          /\ run'.step \in {"refresh", "commit"}
      BY <1>1, <2>2
    <2> QED BY <2>1, <2>3 DEF Creating
  <1>9. CASE Others \/ Developer
    BY <1>9 DEF Others, Develop, MergePr, Developer
  <1> QED BY <1>3, <1>4, <1>5, <1>6, <1>7, <1>8, <1>9 DEF Next, Script

\* With nothing open, no sound branch has a tip.
LEMMA NothingOpen ==
  ASSUME TypeOK, MainGrows, SoundIsVersioned, OpenReleaseBranches = {},
         NEW b \in Version, Sound(b), ~IsCreated(b)
  PROVE  Tips(b) = {}
  <1> SUFFICES ASSUME Tips(b) # {} PROVE FALSE
    OBVIOUS
  <1>1. tracked[b] # None \/ local[b] # None
    BY TipsAre DEF SoundIsVersioned, BranchExists
  <1>2. IsMergedIntoMain(b)
    BY <1>1 DEF OpenReleaseBranches, ReleaseBranches, BranchExists
  <1>3. PICK a \in Tips(b) : Contained(a, log[main])
    BY <1>1, <1>2 DEF IsMergedIntoMain, BranchExists, Tips
  <1>4. a.own \subseteq Newest.own
    BY <1>3, MainIsContained DEF Contained, TypeOK
  <1> QED BY <1>3, <1>4 DEF SoundIsVersioned

\* A merge with main does not change the version of a sound branch.
LEMMA MergeKeepsVersion ==
  ASSUME TypeOK, VersionsAreKnown, ReleasesAreLater, NEW b \in Version, Sound(b),
         NEW a \in Tips(b), a.version = b
  PROVE  MergedVersion(a) = b
  <1>1. a.on \in 1..Len(log)
    BY TipsAre, TypesOf DEF Tip
  <1>2. log[a.on].version \in Known
    BY <1>1, NewestIsKnown
  <1>3. b # First
    BY LessIsStrict DEF ReleasesAreLater
  <1> QED BY <1>2, <1>3 DEF MergedVersion, Merged, Known, Sound

\* The steps that give a branch a tip that it had not.
LEMMA NewTip ==
  ASSUME TypeOK, RunIsOnBranch, Next, NEW b \in Version, local'[b] \notin Tips(b) \cup {None}
  PROVE  \/ CreateBranch /\ b = run.branch
         \/ /\ b = head /\ local[b] # None
            /\ \/ b = run.branch /\ (FastForward \/ MergeMain \/ RefreshLockAndLicenses \/ CommitVersion)
               \/ CommitWork /\ UNCHANGED log
  <1> USE DEF github, clone, history, OnBranch, Creating
  <1>0. /\ remote \in Branches /\ tracked \in Branches /\ local \in Branches /\ run \in Run
    BY TypesOf
  <1>1. local' # local
    BY DEF Tips
  <1>2. run.step \in OnBranch => head = run.branch /\ head \in Version /\ local[head] # None
    BY <1>0 DEF RunIsOnBranch, Run, TypeOK, BranchExists
  <1>3. CASE CreateBranch
    BY <1>0, <1>1, <1>3 DEF CreateBranch, Branches, Tips
  <1>4. CASE CheckoutRemote
    BY <1>0, <1>4 DEF CheckoutRemote, BranchExists, Branches, Tips
  <1>5. ASSUME NEW a, local' = [local EXCEPT ![head] = a], head \in Version PROVE b = head
    BY <1>0, <1>5 DEF Branches, Tips
  <1>6. CASE FastForward
    BY <1>2, <1>5, <1>6 DEF FastForward
  <1>7. CASE MergeMain
    BY <1>2, <1>5, <1>7 DEF MergeMain, Commit
  <1>8. CASE RefreshLockAndLicenses
    BY <1>1, <1>2, <1>5, <1>8 DEF RefreshLockAndLicenses, Commit
  <1>9. CASE CommitVersion
    BY <1>2, <1>5, <1>9 DEF CommitVersion, Commit
  <1>10. CASE CommitWork /\ Developer
    <2>1. head \in Version /\ local[head] # None
      BY <1>10 DEF CommitWork, TypeOK, BranchExists
    <2> QED BY <1>5, <1>10, <2>1 DEF CommitWork, Commit, Developer
  <1>11. ASSUME NEW c \in Version, DeleteLocal(c) PROVE FALSE
    BY <1>0, <1>11 DEF DeleteLocal, Branches, Tips
  <1>12. ASSUME NEW part \in Parts, NameBranch(part) PROVE FALSE
    BY <1>1, <1>12 DEF NameBranch
  <1>13. CASE Begin \/ StayOnBranch \/ ReuseBranch \/ CheckoutLocal \/ AlreadyMerged \/ MergeConflicts
              \/ WriteVersion \/ Push \/ CreatePr \/ Fail \/ Others
    BY <1>1, <1>13 DEF Begin, StayOnBranch, ReuseBranch, CheckoutLocal, AlreadyMerged, MergeConflicts,
                       WriteVersion, Push, CreatePr, Fail, Others, Develop, MergePr
  <1>14. CASE Developer
    BY <1>1, <1>10, <1>11, <1>14 DEF Developer, PullMain, Stash, Checkout
  <1> QED BY <1>3, <1>4, <1>6, <1>7, <1>8, <1>9, <1>12, <1>13, <1>14 DEF Next, Script

\* The new tip of a sound branch.
LEMMA VersionOfNewTip ==
  ASSUME TypeOK, RunIsOnBranch, VersionsAreKnown, ReleasesAreLater, SoundIsVersioned, Next,
         NEW b \in Version, Sound(b), ~IsCreated(b), ~IsCreated(b)', local'[b] \notin Tips(b) \cup {None}
  PROVE  local'[b].version = b /\ ~(local'[b].own \subseteq Newest'.own)
  <1> USE DEF github, clone, history, OnBranch, Creating
  <1>0. /\ local \in Branches /\ run \in Run /\ commits \in Nat
        /\ Newest.own \subseteq 1..commits
    BY TypesOf, TipFields DEF TypeOK
  <1>1. ASSUME NEW on, NEW own, NEW version, NEW deps, Commit(b, on, own, version, deps), UNCHANGED log
        PROVE  local'[b].version = version /\ ~(local'[b].own \subseteq Newest'.own)
    <2>1. local'[b] = [on |-> on, own |-> own \cup {commits + 1}, version |-> version, deps |-> deps]
      BY <1>0, <1>1 DEF Commit, Branches
    <2>2. Newest' = Newest /\ commits + 1 \notin Newest.own
      BY <1>0, <1>1 DEF Newest
    <2> QED BY <2>1, <2>2
  <1>2. local[b] # None
        => local[b] \in Tips(b) /\ local[b].version = b /\ ~(local[b].own \subseteq Newest.own)
    BY DEF Tips, SoundIsVersioned
  <1>3. CASE CreateBranch /\ b = run.branch
    BY <1>0, <1>3 DEF CreateBranch, Goto, Run, IsCreated
  <1>4. CASE b = run.branch /\ local[b] # None /\ FastForward
    BY <1>2, <1>4 DEF FastForward, Contained
  <1>5. CASE b = run.branch /\ local[b] # None /\ MergeMain
    <2>1. MergedVersion(local[b]) = b
      BY <1>2, <1>5, MergeKeepsVersion
    <2> QED BY <1>1, <1>5, <2>1 DEF MergeMain
  <1>6. CASE b = run.branch /\ local[b] # None /\ RefreshLockAndLicenses
    <2>1. local' # local
      BY DEF Tips
    <2> QED BY <1>1, <1>2, <1>6, <2>1 DEF RefreshLockAndLicenses
  <1>7. CASE b = run.branch /\ CommitVersion
    BY <1>7 DEF CommitVersion, RunIsOnBranch, IsCreated
  <1>8. CASE b = head /\ CommitWork /\ UNCHANGED log
    <2>1. work.version = b
      BY <1>8 DEF CommitWork, SoundIsVersioned
    <2> QED BY <1>1, <1>8, <2>1 DEF CommitWork
  <1> QED BY <1>3, <1>4, <1>5, <1>6, <1>7, <1>8, NewTip

\* How the making of a branch ends.
LEMMA CreatedStep ==
  ASSUME TypeOK, RunIsOnBranch, Next, NEW b \in Version, IsCreated(b), ~IsCreated(b)', Sound(b)'
  PROVE  CommitVersion
  <1> USE DEF Creating, IsCreated
  <1>0. run \in Run
    BY TypesOf
  <1>1. ASSUME NEW s \in Creating, Goto(s) PROVE FALSE
    BY <1>0, <1>1 DEF Goto, Run
  <1>2. ~Fail
    BY DEF Fail, Sound
  <1>3. ~WriteVersion /\ ~RefreshLockAndLicenses
    BY <1>1 DEF WriteVersion, RefreshLockAndLicenses
  <1>4. ~Others /\ ~Developer
    BY DEF Others, Develop, MergePr, Developer
  <1> QED BY <1>2, <1>3, <1>4 DEF Next, Script, Begin, StayOnBranch, ReuseBranch, NameBranch, CheckoutLocal,
                CheckoutRemote, CreateBranch, AlreadyMerged, FastForward, MergeMain, MergeConflicts, Push, CreatePr

\* A commit of a sound branch stays out of main.
LEMMA NotInMain ==
  ASSUME TypeOK, BranchesAreApart, Next, NEW b \in Version, Sound(b)', NEW a \in Tips(b),
         ~(a.own \subseteq Newest.own)
  PROVE  ~(a.own \subseteq Newest'.own)
  <1>1. CASE log' = log
    BY <1>1 DEF Newest
  <1>2. ASSUME NEW t, log' = Append(log, t) PROVE Newest' = t
    BY <1>2, TypesOf DEF Newest
  <1>3. ASSUME NEW c \in Version, c \in prs, merged' = merged \cup {c}, Newest'.own \subseteq Newest.own \cup remote[c].own
        PROVE  ~(a.own \subseteq Newest'.own)
    <2>1. b # c
      BY <1>3 DEF Sound
    <2>2. remote[c] \in Tips(c)
      BY <1>3 DEF TypeOK, BranchExists, Tips
    <2>3. a.own \cap remote[c].own \subseteq Newest.own
      BY <2>1, <2>2 DEF BranchesAreApart
    <2> QED BY <1>3, <2>3
  <1> QED BY <1>1, <1>2, <1>3, LogStep

\* What a step does to a branch on origin, and to what the clone saw of it.
LEMMA OriginStep ==
  ASSUME TypeOK, RunIsOnBranch, Next, NEW b \in Version
  PROVE  \/ /\ remote'[b] \in {remote[b], None}
            /\ tracked'[b] \in {tracked[b], remote[b]}
         \/ Push /\ b = run.branch /\ tracked'[b] # None
  <1> USE DEF github, clone, history, OnBranch, Creating
  <1>0. /\ remote \in Branches /\ tracked \in Branches /\ local \in Branches /\ run \in Run
    BY TypesOf
  <1>1. ASSUME UNCHANGED <<remote, tracked>> PROVE remote'[b] = remote[b] /\ tracked'[b] = tracked[b]
    BY <1>1
  <1>2. CASE Begin
    BY <1>0, <1>2 DEF Begin
  <1>3. CASE CheckoutRemote
    BY <1>0, <1>3 DEF CheckoutRemote, Branches
  <1>4. CASE Push
    <2>1. run.branch \in Version /\ local[run.branch] # None
      BY <1>0, <1>4 DEF Push, RunIsOnBranch, Run, TypeOK, BranchExists
    <2> QED BY <1>0, <1>4, <2>1 DEF Push, Branches
  <1>5. ASSUME NEW c \in Version, NEW squash \in BOOLEAN, MergePr(c, squash)
        PROVE  remote'[b] \in {remote[b], None} /\ tracked'[b] = tracked[b]
    BY <1>0, <1>5 DEF MergePr, Branches
  <1>6. ASSUME NEW part \in Parts, NameBranch(part) PROVE UNCHANGED <<remote, tracked>>
    BY <1>6 DEF NameBranch
  <1>7. CASE StayOnBranch \/ ReuseBranch \/ CheckoutLocal \/ CreateBranch \/ AlreadyMerged \/ FastForward
             \/ MergeMain \/ MergeConflicts \/ WriteVersion \/ RefreshLockAndLicenses \/ CommitVersion
             \/ CreatePr \/ Fail \/ Develop
    BY <1>1, <1>7 DEF StayOnBranch, ReuseBranch, CheckoutLocal, CreateBranch, AlreadyMerged, FastForward,
                      MergeMain, MergeConflicts, WriteVersion, RefreshLockAndLicenses, CommitVersion,
                      CreatePr, Fail, Develop
  <1>8. CASE Developer
    BY <1>1, <1>8 DEF Developer, PullMain, CommitWork, Stash, Checkout, DeleteLocal
  <1> QED BY <1>1, <1>2, <1>3, <1>4, <1>5, <1>6, <1>7, <1>8 DEF Next, Script, Others

\* A branch that was nowhere is made by the script.
LEMMA FirstTip ==
  ASSUME TypeOK, RunIsOnBranch, MainGrows, VersionsAreKnown, Next,
         NEW b \in Version, Tips(b) = {}, Tips(b)' # {}
  PROVE  CreateBranch /\ b = run.branch
  <1>1. ~Fewer
    BY DEF Fewer
  <1>2. PICK c \in Version : \E a : NewLocal(c, a)
    BY <1>1, TipsStep
  <1>3. tracked' = tracked /\ remote' = remote
    BY <1>2 DEF NewLocal
  <1>4. local[b] = None /\ tracked[b] = None /\ remote[b] = None
    BY TipsAre
  <1>5. local'[b] # None
    BY <1>3, <1>4 DEF Tips
  <1> QED BY <1>4, <1>5, NewTip

LEMMA VersionedStep ==
  ASSUME TypeOK, RunIsOnBranch, MainGrows, VersionsAreKnown, ReleasesAreLater, BranchesAreApart,
         SoundIsVersioned, SoundIsAlone, Next
  PROVE  SoundIsVersioned'
  <1> SUFFICES ASSUME NEW b \in Version, Sound(b)'
               PROVE  /\ ~IsCreated(b)' => \A a \in Tips(b)' : a.version = b /\ ~(a.own \subseteq Newest'.own)
                      /\ IsCreated(b)' => tracked'[b] = None /\ remote'[b] = None
                      /\ BranchExists(remote, b)' => BranchExists(tracked, b)'
                      /\ head' = b /\ work' # None => work'.version = b
    BY DEF SoundIsVersioned
  <1>0. Sound(b)
    BY SoundStep
  <1>1. ASSUME ~IsCreated(b)', NEW a \in Tips(b)' PROVE a.version = b /\ ~(a.own \subseteq Newest'.own)
    <2>1. CASE IsCreated(b)
      <3>1. CommitVersion
        BY <1>1, <2>1, CreatedStep
      <3>2. tracked' = tracked /\ remote' = remote /\ tracked[b] = None /\ remote[b] = None
        BY <1>0, <2>1, <3>1 DEF CommitVersion, SoundIsVersioned, github
      <3>3. a = local'[b]
        BY <1>1, <3>2 DEF Tips
      <3>4. b = run.branch /\ work.version = b /\ UNCHANGED log
        BY <2>1, <3>1 DEF IsCreated, CommitVersion, RunIsOnBranch, github
      <3>5. /\ local \in Branches /\ commits \in Nat /\ Newest.own \subseteq 1..commits
        BY TypesOf, TipFields DEF TypeOK
      <3>6. a.version = b /\ commits + 1 \in a.own
        BY <3>1, <3>3, <3>4, <3>5 DEF CommitVersion, Commit, Branches
      <3> QED BY <3>4, <3>5, <3>6 DEF Newest
    <2>2. CASE ~IsCreated(b) /\ a \in Tips(b)
      BY <1>0, <2>2, NotInMain DEF SoundIsVersioned
    <2>3. CASE ~IsCreated(b) /\ a \notin Tips(b)
      <3>1. ~Fewer
        BY <1>1, <2>3 DEF Fewer
      <3>2. PICK c \in Version : \E d : NewLocal(c, d)
        BY <3>1, TipsStep
      <3>3. tracked' = tracked /\ remote' = remote
        BY <3>2 DEF NewLocal
      <3>4. a = local'[b] /\ a # None
        BY <1>1, <2>3, <3>3 DEF Tips
      <3> QED BY <1>0, <1>1, <2>3, <3>4, VersionOfNewTip
    <2> QED BY <2>1, <2>2, <2>3
  <1>2. ASSUME IsCreated(b)' PROVE tracked'[b] = None /\ remote'[b] = None
    <2>0. run \in Run
      BY TypesOf
    <2>1. ~Push /\ ~CommitVersion
      BY <1>2, <2>0 DEF Push, CommitVersion, Goto, Run, IsCreated, Creating
    <2>2. run.new /\ run.branch = b /\ (run.step \in Creating \/ run.step = "checkout")
      BY <1>2, <2>1, NewStep DEF IsCreated, Creating, CheckoutLocal, CheckoutRemote, CreateBranch
    <2>3. tracked[b] = None /\ remote[b] = None
      <3>1. CASE run.step \in Creating
        BY <1>0, <2>2, <3>1 DEF SoundIsVersioned, IsCreated
      <3>2. CASE run.step = "checkout"
        BY <1>0, <2>2, <3>2, TipsAre DEF SoundIsAlone
      <3> QED BY <2>2, <3>1, <3>2
    <2> QED BY <2>1, <2>3, OriginStep
  <1>3. ASSUME BranchExists(remote, b)' PROVE BranchExists(tracked, b)'
    BY <1>0, <1>3, OriginStep DEF SoundIsVersioned, BranchExists
  <1>4. ASSUME head' = b, work' # None PROVE work'.version = b
    <2>1. CASE MergeConflicts /\ head' = head /\ local[head] # None /\ work'.version = local[head].version
      <3>1. ~IsCreated(b)
        BY <2>1 DEF MergeConflicts, IsCreated, Creating
      <3>2. local[b] \in Tips(b)
        BY <1>4, <2>1 DEF Tips
      <3> QED BY <1>0, <1>4, <2>1, <3>1, <3>2 DEF SoundIsVersioned
    <2> QED BY <1>0, <1>4, <2>1, WorkStep DEF SoundIsVersioned
  <1> QED BY <1>1, <1>2, <1>3, <1>4

LEMMA AloneStep ==
  ASSUME TypeOK, RunIsOnBranch, MainGrows, VersionsAreKnown, SoundIsVersioned, SoundIsAlone, Next
  PROVE  SoundIsAlone'
  <1>1. ASSUME NEW b \in Version, Sound(b), Tips(b) = {}, Tips(b)' # {}
        PROVE  /\ CreateBranch /\ b = run.branch
               /\ \A c \in Version : Sound(c) => Tips(c) = {}
    <2>1. CreateBranch /\ b = run.branch
      BY <1>1, FirstTip
    <2> QED BY <2>1 DEF CreateBranch, SoundIsAlone
  <1>2. ASSUME NEW b \in Version, NEW c \in Version, Sound(b)', Sound(c)', Tips(b)' # {}, Tips(c)' # {}
        PROVE  b = c
    <2>1. Sound(b) /\ Sound(c)
      BY <1>2, SoundStep
    <2> QED BY <1>1, <1>2, <2>1 DEF SoundIsAlone
  <1>3. ASSUME run'.new, NEW b \in Version, Sound(b)', Tips(b)' # {}
        PROVE  b = run'.branch /\ run'.step # "checkout"
    <2>0. Sound(b) /\ run \in Run
      BY <1>3, SoundStep, TypesOf
    <2>1. ASSUME NEW part \in Parts, NameBranch(part) PROVE FALSE
      <3>1. OpenReleaseBranches = {} /\ ~IsCreated(b) /\ Tips(b)' = Tips(b)
        BY <2>1 DEF NameBranch, IsCreated, Creating, Tips, github, clone
      <3> QED BY <1>3, <2>0, <3>1, NothingOpen
    <2>2. CASE Tips(b) # {}
      BY <1>3, <2>0, <2>1, <2>2, NewStep DEF SoundIsAlone
    <2>3. CASE Tips(b) = {}
      <3>1. CreateBranch /\ b = run.branch
        BY <1>1, <1>3, <2>0, <2>3
      <3> QED BY <2>0, <3>1 DEF CreateBranch, Goto, Run
    <2> QED BY <2>2, <2>3
  <1> QED BY <1>2, <1>3 DEF SoundIsAlone

-------------------------------------------------------------------------------
(* The edits of main                                                       *)

\* The run will write the text of that commit of main.
WillWrite == (run.new /\ run.step \in {"checkout", "write"}) \/ (run.step = "resolve" /\ head = Main)
TextIsOfMain == WillWrite => run.began > 0 /\ run.deps = log[run.began].deps

LEMMA Kept ==
  ASSUME EditsAreKept, ~stale
  PROVE  /\ \A i \in 1..Len(log), j \in 1..Len(log) : i <= j => log[i].deps <= log[j].deps
         /\ \A b \in Version : \A a \in Tips(b) : a.deps >= log[a.on].deps
         /\ work # None => work.deps >= log[work.on].deps
         /\ TextIsOfMain
  BY DEF EditsAreKept, TextIsOfMain, WillWrite

LEMMA MergeKeepsEdits ==
  ASSUME TypeOK, EditsAreKept, ~stale, NEW b \in Version, NEW a \in Tips(b), ~Conflicts(a)
  PROVE  MergedDeps(a) >= Newest.deps
  <1>1. a \in Tip /\ a.on \in 1..Len(log)
    BY TipsAre, TypesOf DEF Tip
  <1>2. a.deps \in Nat /\ Newest.deps \in Nat /\ log[a.on].deps \in Nat
    BY <1>1, TypesOf DEF Tip
  <1>3. a.deps >= log[a.on].deps
    BY Kept
  <1> QED BY <1>2, <1>3 DEF Conflicts, Conflict, MergedDeps, Merged

\* Main keeps its commits, and a new one takes nothing back.
LEMMA MainKeepsEdits ==
  ASSUME TypeOK, EditsAreKept, ~stale, Next
  PROVE  /\ Len(log) <= Len(log')
         /\ \A i \in 1..Len(log) : log'[i] = log[i]
         /\ \A i \in 1..Len(log'), j \in 1..Len(log') : i <= j => log'[i].deps <= log'[j].deps
  <1>0. Len(log) \in Nat \ {0} /\ \A i \in 1..Len(log) : log[i].deps \in Nat
    BY TypesOf DEF Tip
  <1>1. CASE log' = log
    BY <1>0, <1>1, Kept
  <1>2. ASSUME NEW t, log' = Append(log, t), t.deps \in Nat, t.deps >= Newest.deps
        PROVE  /\ Len(log) <= Len(log')
               /\ \A i \in 1..Len(log) : log'[i] = log[i]
               /\ \A i \in 1..Len(log'), j \in 1..Len(log') : i <= j => log'[i].deps <= log'[j].deps
    <2>1. /\ Len(log') = Len(log) + 1
          /\ \A i \in 1..Len(log) : log'[i] = log[i]
          /\ log'[Len(log) + 1] = t
      BY <1>2, TypesOf
    <2>2. \A i \in 1..Len(log) : log[i].deps <= t.deps
      <3>1. \A i \in 1..Len(log) : log[i].deps <= Newest.deps
        BY <1>0, Kept DEF Newest
      <3> QED BY <1>0, <1>2, <3>1 DEF Newest
    <2> QED BY <1>0, <1>2, <2>1, <2>2, Kept
  <1>3. Newest.deps \in Nat
    BY TypesOf DEF Tip
  <1>4. CASE Develop
    <2>1. PICK t : log' = Append(log, t) /\ t.deps = Newest.deps + 1
      BY <1>4 DEF Develop
    <2> QED BY <1>2, <1>3, <2>1
  <1>5. ASSUME NEW b \in Version, NEW squash \in BOOLEAN, MergePr(b, squash)
        PROVE  \E t : log' = Append(log, t) /\ t.deps \in Nat /\ t.deps >= Newest.deps
    <2>1. remote[b] \in Tips(b) /\ remote[b] \in Tip
      BY <1>5, TypesOf DEF MergePr, TypeOK, BranchExists, Tips, Branches
    <2>2. MergedDeps(remote[b]) \in Nat
      BY <1>3, <2>1, MergeTakesOne DEF Tip
    <2>3. MergedDeps(remote[b]) >= Newest.deps
      BY <1>5, <2>1, MergeKeepsEdits DEF MergePr
    <2> QED BY <1>5, <2>2, <2>3 DEF MergePr
  <1>6. CASE log' # log
    <2>1. Develop \/ \E b \in Version, squash \in BOOLEAN : MergePr(b, squash)
      BY <1>6 DEF Next, Script, Begin, StayOnBranch, ReuseBranch, NameBranch, CheckoutLocal, CheckoutRemote,
                  CreateBranch, AlreadyMerged, FastForward, MergeMain, MergeConflicts, WriteVersion,
                  RefreshLockAndLicenses, CommitVersion, Push, CreatePr, Fail, Others, Developer, github
    <2> QED BY <1>2, <1>4, <1>5, <2>1
  <1> QED BY <1>1, <1>6

LEMMA StaleStep == ASSUME TypeOK, Next, ~stale' PROVE ~stale
  <1>1. CASE WriteVersion
    BY <1>1 DEF WriteVersion, TypeOK
  <1>2. ~WriteVersion => UNCHANGED stale
    BY DEF Next, Script, Begin, StayOnBranch, ReuseBranch, NameBranch, CheckoutLocal, CheckoutRemote,
           CreateBranch, AlreadyMerged, FastForward, MergeMain, MergeConflicts, RefreshLockAndLicenses,
           CommitVersion, Push, CreatePr, Fail, Others, Develop, MergePr, Developer, history
  <1> QED BY <1>1, <1>2

\* The text of a run that makes a branch.
LEMMA TextStep ==
  ASSUME TypeOK, RunIsOnBranch, MainGrows, EditsAreKept, ~stale, Next
  PROVE  TextIsOfMain'
  <1>0. run \in Run /\ main \in 1..Len(log) /\ Len(log) \in Nat /\ log[main].on = main
    BY TypesOf, MainIsContained DEF TypeOK
  <1>1. SUFFICES ASSUME WillWrite' PROVE run'.began > 0 /\ run'.deps = log'[run'.began].deps
    BY DEF TextIsOfMain
  <1>2. ASSUME WillWrite, run'.began = run.began, run'.deps = run.deps
        PROVE  run'.began > 0 /\ run'.deps = log'[run'.began].deps
    <2>1. run.began > 0 /\ run.deps = log[run.began].deps /\ run.began \in 0..Len(log)
      BY <1>0, <1>2, Kept DEF TextIsOfMain, Run
    <2>2. log'[run.began] = log[run.began]
      BY <1>0, <2>1, MainKeepsEdits
    <2> QED BY <1>2, <2>1, <2>2
  <1>3. CASE run'.new
    <2>1. CASE \E part \in Parts : NameBranch(part)
      <3>1. WillWrite /\ run'.began = run.began /\ run'.deps = run.deps
        BY <1>0, <2>1 DEF NameBranch, OnReleaseBranch, WillWrite, Run
      <3> QED BY <1>2, <3>1
    <2>2. CASE run' = run
      <3>1. WillWrite
        BY <1>1, <1>3, <2>2 DEF WillWrite, RunIsOnBranch, Creating
      <3> QED BY <1>2, <2>2, <3>1
    <2>3. CASE run.new /\ (CheckoutLocal \/ CheckoutRemote \/ CreateBranch)
      <3>1. run.step = "checkout" /\ (Goto("write") \/ Goto("sync"))
        BY <2>3 DEF CheckoutLocal, CheckoutRemote, CreateBranch, AfterCheckout
      <3>2. WillWrite /\ run'.began = run.began /\ run'.deps = run.deps
        BY <1>0, <2>3, <3>1 DEF Goto, WillWrite, Run
      <3> QED BY <1>2, <3>2
    <2>4. run'.step \notin {"refresh", "commit"}
      BY <1>1, <1>3, RunStep DEF WillWrite
    <2>5. ~CommitVersion /\ ~Push
      BY <1>0, <1>1, <1>3, RunStep DEF CommitVersion, Push, Goto, Run, WillWrite, RunIsOnBranch
    <2> QED BY <1>3, <2>1, <2>2, <2>3, <2>4, <2>5, NewStep
  <1>4. CASE ~run'.new
    <2>1. run'.step = "resolve" /\ head' = Main
      BY <1>1, <1>4 DEF WillWrite
    <2>2. CASE Begin
      <3>1. HeadTip = log[main] /\ run'.began = HeadTip.on /\ run'.deps = HeadTip.deps
        BY <2>1, <2>2 DEF Begin, HeadTip, NoRun
      <3>2. log'[main] = log[main]
        BY <1>0, MainKeepsEdits
      <3> QED BY <1>0, <3>1, <3>2
    <2>3. CASE Others
      <3>1. WillWrite /\ run' = run
        BY <1>1, <2>3 DEF Others, Develop, MergePr, clone, WillWrite
      <3> QED BY <1>2, <3>1
    <2>4. ASSUME NEW s, Goto(s), s # "resolve" PROVE FALSE
      BY <1>0, <2>1, <2>4 DEF Goto, Run
    <2>5. ~(CheckoutLocal \/ CheckoutRemote \/ CreateBranch \/ AlreadyMerged \/ FastForward \/ MergeMain
            \/ WriteVersion \/ RefreshLockAndLicenses \/ CommitVersion \/ Push)
      BY <2>4 DEF CheckoutLocal, CheckoutRemote, AfterCheckout, CreateBranch, AlreadyMerged, FastForward,
                  MergeMain, WriteVersion, RefreshLockAndLicenses, CommitVersion, Push
    <2>6. ~(StayOnBranch \/ ReuseBranch \/ \E part \in Parts : NameBranch(part))
      BY <1>0, <2>1 DEF StayOnBranch, ReuseBranch, NameBranch, NoRun, Run
    <2>7. ~(MergeConflicts \/ CreatePr \/ Fail)
      BY <2>1 DEF MergeConflicts, CreatePr, Fail, NoRun
    <2>8. ~Developer
      BY <2>1 DEF Developer
    <2> QED BY <2>2, <2>3, <2>5, <2>6, <2>7, <2>8 DEF Next, Script
  <1> QED BY <1>1, <1>3, <1>4 DEF WillWrite

LEMMA EditsStep ==
  ASSUME TypeOK, RunIsOnBranch, MainGrows, VersionsAreKnown, EditsAreKept, Next
  PROVE  EditsAreKept'
  <1> SUFFICES ASSUME ~stale' PROVE
        /\ \A i \in 1..Len(log'), j \in 1..Len(log') : i <= j => log'[i].deps <= log'[j].deps
        /\ \A b \in Version : \A a \in Tips(b)' : a.deps >= log'[a.on].deps
        /\ work' # None => work'.deps >= log'[work'.on].deps
        /\ TextIsOfMain'
    BY DEF EditsAreKept, TextIsOfMain, WillWrite
  <1> USE DEF github, clone, history, OnBranch, Creating
  <1>0. /\ ~stale
        /\ remote \in Branches /\ tracked \in Branches /\ local \in Branches /\ run \in Run
        /\ work = None \/ work \in Work
        /\ Len(log) \in Nat \ {0} /\ \A i \in 1..Len(log) : log[i] \in Tip
        /\ Newest \in Tip
    BY StaleStep, TypesOf
  <1>1. \A i \in 1..Len(log) : log[i].deps \in Nat
    BY <1>0 DEF Tip
  <1>2. \A i \in 1..Len(log) : log'[i] = log[i]
    BY <1>0, MainKeepsEdits
  <1>3. Newest.on \in 1..Len(log) /\ log[Newest.on] = Newest /\ Newest.deps \in Nat
    <2>1. Len(log) \in 1..Len(log)
      BY <1>0
    <2>2. log[Len(log)].on = Len(log) /\ log[Len(log)].deps \in Nat
      BY <1>1, <2>1, MainIsContained
    <2> QED BY <2>1, <2>2 DEF Newest
  <1>4. ASSUME NEW b \in Version, NEW a \in Tips(b) PROVE a.on \in 1..Len(log) /\ a.deps >= log[a.on].deps
    BY <1>0, <1>4, Kept, TipsAre DEF Tip
  <1>5. ASSUME NEW b \in Version, local'[b] \notin Tips(b) \cup {None}
        PROVE  local'[b].on \in 1..Len(log) /\ local'[b].deps >= log[local'[b].on].deps
    <2>1. ASSUME local' = [local EXCEPT ![b] = Newest]
          PROVE  local'[b].on \in 1..Len(log) /\ local'[b].deps >= log[local'[b].on].deps
      BY <1>0, <1>3, <2>1 DEF Branches
    <2>2. ASSUME NEW on \in 1..Len(log), NEW own, NEW version, NEW deps, Commit(b, on, own, version, deps),
                 deps >= log[on].deps
          PROVE  local'[b].on \in 1..Len(log) /\ local'[b].deps >= log[local'[b].on].deps
      BY <1>0, <2>2 DEF Commit, Branches
    <2>3. local[b] # None => /\ local[b] \in Tips(b)
                             /\ local[b].on \in 1..Len(log) /\ local[b].deps >= log[local[b].on].deps
      BY <1>4 DEF Tips
    <2>4. work # None => work.on \in 1..Len(log) /\ work.deps >= log[work.on].deps
      BY <1>0, Kept DEF Work
    <2>5. CASE b = run.branch /\ (CreateBranch \/ FastForward)
      BY <2>1, <2>5 DEF CreateBranch, FastForward
    <2>6. CASE b = run.branch /\ local[b] # None /\ MergeMain
      <3>1. MergedDeps(local[b]) >= log[Newest.on].deps
        BY <1>0, <1>3, <2>3, <2>6, MergeKeepsEdits DEF MergeMain
      <3> QED BY <1>3, <2>2, <2>6, <3>1 DEF MergeMain
    <2>7. CASE b = run.branch /\ local[b] # None /\ RefreshLockAndLicenses
      <3>1. local' # local
        BY <1>5 DEF Tips
      <3> QED BY <2>2, <2>3, <2>7, <3>1 DEF RefreshLockAndLicenses
    <2>8. CASE b = run.branch /\ CommitVersion
      <3>1. work # None
        BY <2>8 DEF CommitVersion, RunIsOnBranch
      <3> QED BY <2>2, <2>4, <2>8, <3>1 DEF CommitVersion
    <2>9. CASE b = head /\ CommitWork
      BY <2>2, <2>4, <2>9 DEF CommitWork
    <2> QED BY <1>5, <2>5, <2>6, <2>7, <2>8, <2>9, NewTip
  <1>6. ASSUME NEW b \in Version, NEW a \in Tips(b)' PROVE a.deps >= log'[a.on].deps
    <2>1. CASE a \in Tips(b)
      BY <1>2, <1>4, <2>1
    <2>2. CASE a \notin Tips(b)
      <3>1. ~Fewer
        BY <1>6, <2>2 DEF Fewer
      <3>2. PICK c \in Version : \E d : NewLocal(c, d)
        BY <3>1, TipsStep
      <3>3. tracked' = tracked /\ remote' = remote
        BY <3>2 DEF NewLocal
      <3>4. a = local'[b] /\ a # None
        BY <1>6, <2>2, <3>3 DEF Tips
      <3> QED BY <1>2, <1>5, <2>2, <3>4
    <2> QED BY <2>1, <2>2
  <1>7. ASSUME work' # None PROVE work'.deps >= log'[work'.on].deps
    <2>1. CASE work' = work
      BY <1>0, <1>2, <1>7, <2>1, Kept DEF Work
    <2>2. CASE WriteVersion
      <3>1. head = run.branch /\ head \in Version /\ local[head] # None
        BY <1>0, <2>2 DEF WriteVersion, RunIsOnBranch, Run, TypeOK, BranchExists
      <3>2. local[head].on \in 1..Len(log)
        BY <1>4, <3>1 DEF Tips
      <3>3. work'.on = local[head].on /\ work'.deps = run.deps
        BY <2>2, <3>1 DEF WriteVersion, Text
      <3>4. ~(run.began < local[head].on)
        BY <2>2, <3>1 DEF WriteVersion, Text
      <3>5. run.began > 0 /\ run.deps = log[run.began].deps /\ run.began \in 1..Len(log)
        <4>1. WillWrite
          BY <2>2 DEF WillWrite, WriteVersion, RunIsOnBranch
        <4>2. run.began > 0 /\ run.deps = log[run.began].deps
          BY <1>0, <4>1, Kept DEF TextIsOfMain
        <4> QED BY <1>0, <4>2 DEF Run
      <3>6. log[local[head].on].deps <= log[run.began].deps
        BY <1>0, <3>2, <3>4, <3>5, Kept
      <3> QED BY <1>1, <1>2, <3>2, <3>3, <3>5, <3>6
    <2>3. CASE MergeConflicts
      BY <1>2, <1>3, <2>3 DEF MergeConflicts
    <2> QED BY <1>7, <2>1, <2>2, <2>3, WorkStep
  <1> QED BY <1>0, <1>6, <1>7, MainKeepsEdits, TextStep

-------------------------------------------------------------------------------
(* Pull requests                                                           *)

\* Release branches come to origin and leave it by the steps that say so.
LEMMA RemoteStep ==
  ASSUME Next
  PROVE  \/ remote' = remote /\ tracked' \in {tracked, remote}
         \/ CheckoutRemote
         \/ Push
         \/ \E b \in Version, squash \in BOOLEAN : MergePr(b, squash)
  BY DEF Next, Script, Begin, StayOnBranch, ReuseBranch, NameBranch, CheckoutLocal, CreateBranch, AlreadyMerged,
         FastForward, MergeMain, MergeConflicts, WriteVersion, RefreshLockAndLicenses, CommitVersion, CreatePr,
         Fail, Others, Develop, Developer, PullMain, CommitWork, Stash, Checkout, DeleteLocal, Commit, github, clone

LEMMA TrackedStep == ASSUME TypeOK, RunIsOnBranch, RemoteIsTracked, Next PROVE RemoteIsTracked'
  <1>0. /\ remote \in Branches /\ tracked \in Branches /\ local \in Branches /\ run \in Run
    BY TypesOf
  <1>1. CASE remote' = remote /\ tracked' \in {tracked, remote}
    BY <1>1 DEF RemoteIsTracked
  <1>2. CASE CheckoutRemote
    BY <1>0, <1>2 DEF CheckoutRemote, RemoteIsTracked, Branches, github
  <1>3. CASE Push
    BY <1>0, <1>3 DEF Push, RemoteIsTracked, Branches
  <1>4. ASSUME NEW b \in Version, NEW squash \in BOOLEAN, MergePr(b, squash) PROVE RemoteIsTracked'
    BY <1>0, <1>4 DEF MergePr, RemoteIsTracked, Branches, clone
  <1> QED BY <1>1, <1>2, <1>3, <1>4, RemoteStep

\* Pull requests are opened by CreatePr and closed by being merged.
LEMMA PrsStep ==
  ASSUME Next
  PROVE  \/ prs' = prs /\ log' = log
         \/ CreatePr
         \/ Develop
         \/ \E b \in Version, squash \in BOOLEAN : MergePr(b, squash)
  BY DEF Next, Script, Begin, StayOnBranch, ReuseBranch, NameBranch, CheckoutLocal, CheckoutRemote, CreateBranch,
         AlreadyMerged, FastForward, MergeMain, MergeConflicts, WriteVersion, RefreshLockAndLicenses,
         CommitVersion, Push, Fail, Others, Developer, github

LEMMA OpenStep ==
  ASSUME TypeOK, RunIsOnBranch, MainGrows, BranchesAreApart, PrsAreOpen, Next
  PROVE  PrsAreOpen'
  <1>0. /\ remote \in Branches /\ local \in Branches /\ run \in Run
        /\ Len(log) \in Nat \ {0} /\ Newest \in Tip
        /\ prs \subseteq {b \in Version : remote[b] # None}
    BY TypesOf DEF TypeOK, BranchExists
  <1>1. ASSUME NEW b \in prs PROVE remote[b] \in Tip /\ remote[b] \in Tips(b) /\ b \in Version
    BY <1>0, <1>1 DEF Branches, Tips
  <1>2. ASSUME NEW t, log' = Append(log, t) PROVE Newest' = t
    BY <1>0, <1>2, TypesOf DEF Newest
  <1>3. CASE CreatePr
    <2>1. remote' = remote /\ Newest' = Newest
      BY <1>3 DEF CreatePr, Newest
    <2>2. ASSUME NEW b \in prs', b \notin prs PROVE ~(remote[b].own \subseteq Newest.own)
      <3>1. b = run.branch /\ remote[b] # None /\ ~Contained(remote[b], Newest)
        BY <1>3, <2>2 DEF CreatePr, Refuses
      <3>2. b \in Version
        BY <1>0, <1>3, <3>1 DEF CreatePr, RunIsOnBranch, Run
      <3>3. remote[b] \in Tip
        BY <1>0, <3>1, <3>2 DEF Branches
      <3>4. remote[b].on <= Newest.on
        <4>1. Len(log) \in 1..Len(log)
          BY <1>0
        <4>2. Newest.on = Len(log)
          BY <4>1, MainIsContained DEF Newest
        <4> QED BY <1>0, <3>3, <4>2 DEF Tip
      <3> QED BY <3>1, <3>4 DEF Contained
    <2> QED BY <2>1, <2>2 DEF PrsAreOpen
  <1>4. CASE Develop
    <2>1. Newest'.own = Newest.own /\ remote' = remote /\ prs' = prs
      BY <1>2, <1>4 DEF Develop
    <2> QED BY <2>1 DEF PrsAreOpen
  <1>5. ASSUME NEW c \in Version, NEW squash \in BOOLEAN, MergePr(c, squash) PROVE PrsAreOpen'
    <2>1. Newest'.own \subseteq Newest.own \cup remote[c].own
      BY <1>2, <1>5 DEF MergePr
    <2>2. c \in prs /\ prs' = prs \ {c}
      BY <1>5 DEF MergePr
    <2>3. ASSUME NEW b \in prs' PROVE ~(remote'[b].own \subseteq Newest'.own)
      <3>1. b \in prs /\ b # c /\ remote'[b] = remote[b]
        BY <1>0, <1>5, <2>2, <2>3 DEF MergePr, Branches
      <3>2. remote[b].own \cap remote[c].own \subseteq Newest.own
        BY <1>1, <2>2, <3>1 DEF BranchesAreApart
      <3>3. ~(remote[b].own \subseteq Newest.own)
        BY <3>1 DEF PrsAreOpen
      <3> QED BY <2>1, <3>1, <3>2, <3>3
    <2> QED BY <2>3 DEF PrsAreOpen
  <1>6. CASE prs' = prs /\ log' = log
    <2>1. Newest' = Newest
      BY <1>6 DEF Newest
    <2>2. ASSUME NEW b \in prs PROVE ~(remote'[b].own \subseteq Newest.own)
      <3>1. CASE remote' = remote
        BY <2>2, <3>1 DEF PrsAreOpen
      <3>2. CASE Push
        <4>1. CASE b = run.branch
          <5>1. remote'[b] = local[b] /\ remote[b].own \subseteq local[b].own
            BY <1>0, <1>1, <3>2, <4>1 DEF Push, Contained, Branches
          <5> QED BY <5>1 DEF PrsAreOpen
        <4>2. CASE b # run.branch
          BY <1>0, <1>1, <3>2, <4>2 DEF Push, Branches, PrsAreOpen
        <4> QED BY <4>1, <4>2
      <3>3. CASE CheckoutRemote
        BY <2>2, <3>3 DEF CheckoutRemote, github, PrsAreOpen
      <3> QED BY <1>5, <1>6, <3>1, <3>2, <3>3, RemoteStep DEF MergePr
    <2> QED BY <1>6, <2>1, <2>2 DEF PrsAreOpen
  <1> QED BY <1>3, <1>4, <1>5, <1>6, PrsStep

\* A branch with a pull request is among those that the script finds open.
LEMMA PrsAreFound ==
  ASSUME TypeOK, MainGrows, RemoteIsTracked, PrsAreOpen
  PROVE  prs \subseteq OpenReleaseBranches
  <1> SUFFICES ASSUME NEW b \in prs PROVE b \in OpenReleaseBranches
    OBVIOUS
  <1>1. b \in Version /\ remote[b] # None /\ tracked[b] = remote[b]
    BY DEF TypeOK, BranchExists, RemoteIsTracked
  <1>2. log[main].own \subseteq Newest.own
    BY MainIsContained DEF TypeOK
  <1>3. ~Contained(tracked[b], log[main])
    BY <1>1, <1>2 DEF PrsAreOpen, Contained
  <1> QED BY <1>1, <1>3 DEF OpenReleaseBranches, ReleaseBranches, IsMergedIntoMain, BranchExists

LEMMA NewIsAloneStep ==
  ASSUME TypeOK, RunIsOnBranch, MainGrows, RemoteIsTracked, PrsAreOpen, NewReleaseIsAlone, Next
  PROVE  NewReleaseIsAlone'
  <1> SUFFICES ASSUME run'.new PROVE prs' = {}
    BY DEF NewReleaseIsAlone
  <1>1. CASE \E part \in Parts : NameBranch(part)
    <2>1. OpenReleaseBranches = {} /\ prs' = prs
      BY <1>1 DEF NameBranch, github
    <2> QED BY <2>1, PrsAreFound
  <1>2. CASE run.new
    <2>1. ~CreatePr
      BY DEF CreatePr, NoRun
    <2>2. prs' \subseteq prs
      BY <2>1, PrsStep DEF Develop, MergePr
    <2> QED BY <1>2, <2>2 DEF NewReleaseIsAlone
  <1> QED BY <1>1, <1>2, NewStep

-------------------------------------------------------------------------------
(* The theorems                                                            *)

LEMMA Matches == ASSUME TypeOK, SoundIsVersioned PROVE VersionMatches
  <1> SUFFICES ASSUME NEW b \in prs, Sound(b) PROVE remote[b].version = b
    BY DEF VersionMatches
  <1>1. b \in Version /\ remote[b] # None
    BY DEF TypeOK, BranchExists
  <1>2. remote[b] \in Tips(b) /\ ~IsCreated(b)
    BY <1>1 DEF Tips, SoundIsVersioned
  <1> QED BY <1>1, <1>2 DEF SoundIsVersioned

LEMMA InitInv == Init => ReleaseInv
  <1> SUFFICES ASSUME Init PROVE ReleaseInv
    OBVIOUS
  <1> DEFINE t == [on |-> 1, own |-> {}, version |-> First, deps |-> 0]
  <1>1. log = <<t>> /\ Len(log) = 1 /\ log[1] = t /\ Newest = t /\ log[main] = t
    BY DEF Init, Newest
  <1>2. /\ run.step = "idle" /\ run.branch = None /\ ~run.new
    BY DEF Init, NoRun
  <1>3. \A b \in Version : Tips(b) = {} /\ remote[b] = None
    BY DEF Init, Tips
  <1>4. TypeOK
    <2>1. t \in Tip
      BY <1>1 DEF Tip
    <2>2. log \in Seq(Tip)
      BY <1>1, <2>1
    <2>3. run \in Run
      BY <1>1, NoRunType DEF Init
    <2>4. {remote, tracked, local} \subseteq [Version -> Tip \cup {None}]
      BY DEF Init
    <2>5. main \in 1..Len(log) /\ commits \in Nat
      BY <1>1 DEF Init
    <2>6. /\ head = Main /\ work = None /\ stale = FALSE
          /\ prs = {} /\ interrupted = {} /\ merged = {}
      BY DEF Init
    <2>7. Len(log) > 0
      BY <1>1
    <2>8. prs \subseteq {b \in Version : BranchExists(remote, b)}
      BY <2>6
    <2>9. interrupted \subseteq Version /\ merged \subseteq Version /\ stale \in BOOLEAN
      BY <2>6
    <2> HIDE DEF ReleaseAssumption, t
    <2> QED BY <2>2, <2>3, <2>4, <2>5, <2>6, <2>7, <2>8, <2>9 DEF TypeOK, Run
  <1>5. RunIsOnBranch
    BY <1>2 DEF Init, RunIsOnBranch, OnBranch, Creating
  <1>6. MainGrows
    BY <1>1 DEF MainGrows
  <1>7. VersionsAreKnown
    BY <1>1, <1>3 DEF Init, VersionsAreKnown
  <1>8. ReleasesAreLater
    BY <1>2, <1>3 DEF Init, ReleasesAreLater
  <1>9. BranchesAreApart
    BY <1>3 DEF BranchesAreApart
  <1>10. SoundIsVersioned
    BY <1>2, <1>3 DEF Init, SoundIsVersioned, IsCreated, BranchExists
  <1>11. SoundIsAlone
    BY <1>2, <1>3 DEF SoundIsAlone
  <1>12. EditsAreKept
    BY <1>1, <1>2, <1>3 DEF Init, EditsAreKept
  <1>13. RemoteIsTracked /\ PrsAreOpen
    BY <1>3 DEF Init, RemoteIsTracked, PrsAreOpen
  <1> QED
    BY <1>4, <1>5, <1>6, <1>7, <1>8, <1>9, <1>10, <1>11, <1>12, <1>13, Matches DEF ReleaseInv

LEMMA NextInv == ReleaseInv /\ [Next]_vars => ReleaseInv'
  <1> SUFFICES ASSUME ReleaseInv, [Next]_vars PROVE ReleaseInv'
    OBVIOUS
  <1> USE DEF ReleaseInv
  <1>1. CASE Next
    <2>1. TypeOK'
      BY <1>1, TypeScript, TypeOthers, TypeDeveloper DEF Next
    <2>2. SoundIsVersioned'
      BY <1>1, VersionedStep
    <2>3. VersionMatches'
      BY <2>1, <2>2, Matches, PTL
    <2> QED BY <1>1, <2>1, <2>2, <2>3, RunStep, MainStep, KnownStep, LaterStep, ApartStep, AloneStep, EditsStep,
               TrackedStep, OpenStep
  <1>2. CASE UNCHANGED vars
    <2> USE <1>2 DEF vars, github, clone, history
    <2>1. \A b \in Version : Tips(b)' = Tips(b) /\ Sound(b)' = Sound(b) /\ IsCreated(b)' = IsCreated(b)
      BY DEF Tips, Sound, IsCreated
    <2>2. TypeOK'
      BY DEF TypeOK, Tip, BranchExists
    <2>3. RunIsOnBranch' /\ MainGrows'
      BY DEF RunIsOnBranch, HeadTip, MainGrows
    <2>4. VersionsAreKnown' /\ ReleasesAreLater'
      BY <2>1 DEF VersionsAreKnown, ReleasesAreLater
    <2>5. BranchesAreApart'
      BY <2>1 DEF BranchesAreApart, Newest
    <2>6. SoundIsVersioned' /\ SoundIsAlone'
      BY <2>1 DEF SoundIsVersioned, SoundIsAlone, Newest, BranchExists
    <2>7. EditsAreKept'
      BY <2>1 DEF EditsAreKept
    <2>8. VersionMatches'
      BY DEF VersionMatches, Sound
    <2>9. RemoteIsTracked' /\ PrsAreOpen'
      BY DEF RemoteIsTracked, PrsAreOpen, Newest
    <2> QED BY <2>2, <2>3, <2>4, <2>5, <2>6, <2>7, <2>8, <2>9
  <1> QED BY <1>1, <1>2

\* Every pull request of a sound branch changes the project to its version.
THEOREM ReleaseInvariant == Spec => []ReleaseInv
  BY InitInv, NextInv, PTL DEF Spec

\* There are never two pull requests of sound branches: "that branch is reused".
THEOREM OneReleaseAtATime == Spec => []OneAtATime
  <1>1. ReleaseInv => OneAtATime
    <2> SUFFICES ASSUME ReleaseInv, NEW b \in prs, NEW c \in prs, Sound(b), Sound(c) PROVE b = c
      BY DEF OneAtATime
    <2>1. b \in Version /\ c \in Version /\ Tips(b) # {} /\ Tips(c) # {}
      BY TipsAre DEF ReleaseInv, TypeOK, BranchExists
    <2> QED BY <2>1 DEF ReleaseInv, SoundIsAlone
  <1> QED BY <1>1, ReleaseInvariant, PTL

\* A new release branch is made only while no pull request of a release is open,
\* whatever became of its branch: what is open on GitHub is in what the clone last
\* saw, and no main that the clone may be at contains it.
THEOREM NewReleasesAreAlone == Spec => []NewReleaseIsAlone
  <1>1. Init => NewReleaseIsAlone
    BY DEF Init, NewReleaseIsAlone
  <1>2. ReleaseInv /\ NewReleaseIsAlone /\ [Next]_vars => NewReleaseIsAlone'
    <2>1. ASSUME ReleaseInv, NewReleaseIsAlone, Next PROVE NewReleaseIsAlone'
      BY <2>1, NewIsAloneStep DEF ReleaseInv
    <2>2. ASSUME NewReleaseIsAlone, UNCHANGED vars PROVE NewReleaseIsAlone'
      BY <2>2 DEF NewReleaseIsAlone, vars, github
    <2> QED BY <2>1, <2>2
  <1> QED BY <1>1, <1>2, ReleaseInvariant, PTL DEF Spec
===============================================================================
