-------------------------------- MODULE Release --------------------------------
(***************************************************************************)
(* scripts/release.py: a run of the script works on the developer's clone,  *)
(* on origin and on GitHub, one command after the other.  Any command may   *)
(* fail and end the run where it is; between two commands others merge on   *)
(* GitHub, and between two runs the developer uses git in the clone.        *)
(* A release branch is named by its version.  A tip of a branch is the      *)
(* newest commit of main it contains, the other commits it contains, and    *)
(* its pyproject.toml: the version, and the number of other edits.          *)
(***************************************************************************)
EXTENDS Integers, Sequences

CONSTANTS
    Version,    \* bound: the versions, as <<major, minor, patch>>
    First,      \* the version to begin with
    MaxMain,    \* bound: the commits on main
    MaxCommit,  \* bound: the commits on release branches
    Main,       \* the branch main; all others are release branches
    None

ASSUME ReleaseAssumption ==
    /\ Version \subseteq Nat \X Nat \X Nat
    /\ First \in Version
    /\ MaxMain \in Nat
    /\ MaxCommit \in Nat
    /\ Main \notin Version
    /\ None \notin Version
    /\ None \notin [on : Nat, own : SUBSET Nat, version : Version, deps : Nat]
    /\ None \notin [on : Nat, version : Version, deps : Nat]

VARIABLES
    log,          \* main on origin: the tip after each of its commits
    remote,       \* the release branches on origin
    tracked,      \* refs/remotes/origin: what the clone last saw of them
    local,        \* the release branches of the clone
    main,         \* main of the clone: as many commits of the log
    head,         \* the branch that is checked out
    work,         \* uncommitted changes: a pyproject.toml, and the commit of
                  \* main that is being merged; or None
    prs,          \* the release branches with an open pull request
    run,          \* the run of the script
    commits,      \* the commits made on release branches
    interrupted,  \* history: created by a run that ended before the version
                  \* was committed
    merged,       \* history: merged into main on GitHub
    stale         \* history: a version was written in the text of an older main

clone == <<tracked, local, main, head, work>>
github == <<log, remote, prs>>
history == <<interrupted, merged, stale>>
vars == <<github, clone, run, commits, history>>

NoRun == [step |-> "idle", version |-> None, deps |-> 0, began |-> 0, branch |-> None, new |-> FALSE]

Init ==
    /\ log = <<[on |-> 1, own |-> {}, version |-> First, deps |-> 0]>>
    /\ remote = [b \in Version |-> None]
    /\ tracked = remote
    /\ local = remote
    /\ main = 1
    /\ head = Main
    /\ work = None
    /\ prs = {}
    /\ run = NoRun
    /\ commits = 0
    /\ interrupted = {}
    /\ merged = {}
    /\ stale = FALSE

-------------------------------------------------------------------------------
(* Versions                                                                *)

Less(v, w) ==
    \/ v[1] < w[1]
    \/ v[1] = w[1] /\ v[2] < w[2]
    \/ v[1] = w[1] /\ v[2] = w[2] /\ v[3] < w[3]

Bump(v, part) ==
    CASE part = "major" -> <<v[1] + 1, 0, 0>>
      [] part = "minor" -> <<v[1], v[2] + 1, 0>>
      [] OTHER          -> <<v[1], v[2], v[3] + 1>>

Distance(v, w) == [i \in 1..3 |-> IF v[i] < w[i] THEN w[i] - v[i] ELSE v[i] - w[i]]

\* _select_release_branch: the smallest version above that of the project, else
\* the nearest one; among the equally near the order of the names decides.
Selected(open, version) ==
    LET ahead == {b \in open : Less(version, b)}
        near  == {b \in open : \A c \in open : ~Less(Distance(c, version), Distance(b, version))}
    IN  IF ahead # {} THEN {b \in ahead : \A c \in ahead : ~Less(c, b)} ELSE near

-------------------------------------------------------------------------------
(* Git                                                                     *)

Newest == log[Len(log)]

\* a is an ancestor of b.
Contained(a, b) == a.on <= b.on /\ a.own \subseteq b.own

\* The lines of a file that were changed on one side only since the common
\* commit of main are merged; lines changed on both sides are a conflict.
Merged(base, ours, theirs) == IF ours = base THEN theirs ELSE ours
Conflict(base, ours, theirs) == base # ours /\ base # theirs /\ ours # theirs

Conflicts(a) ==
    LET base == log[a.on]
    IN  \/ Conflict(base.version, a.version, Newest.version)
        \/ Conflict(base.deps, a.deps, Newest.deps)

\* Mutant: a merge that takes the lines of main.
MergedVersionTheirs(a) == Newest.version

MergedDeps(a) == Merged(log[a.on].deps, a.deps, Newest.deps)

MergedVersion(a) == Merged(log[a.on].version, a.version, Newest.version)

\* Branch b of the clone moves on to a new commit.
Commit(b, on, own, version, deps) ==
    /\ commits < MaxCommit
    /\ commits' = commits + 1
    /\ local' = [local EXCEPT ![b] = [on |-> on, own |-> own \cup {commits + 1},
                                      version |-> version, deps |-> deps]]

HeadTip == IF head = Main THEN log[main] ELSE local[head]

-------------------------------------------------------------------------------
(* The script, up to the branch                                            *)

Goto(step) == run' = [run EXCEPT !.step = step]

\* With a clean tree only.  The text of pyproject.toml is read here and used
\* until the end of the run; then comes git fetch --prune, whose failure is
\* only a warning.
Begin ==
    /\ run.step = "idle"
    /\ work = None
    /\ tracked' \in {tracked, remote}
    /\ run' = [NoRun EXCEPT !.step = "resolve", !.version = HeadTip.version,
                            !.deps = HeadTip.deps, !.began = HeadTip.on]
    /\ UNCHANGED <<github, local, main, head, work, commits, history>>

BranchExists(branches, b) == branches[b] # None

\* Mutant: branches that are on origin only are overlooked.
LocalBranches == {b \in Version : BranchExists(local, b)}

ReleaseBranches == {b \in Version : BranchExists(local, b) \/ BranchExists(tracked, b)}

\* The newest known tip is the one of origin, and main is that of the clone.
IsMergedIntoMain(b) ==
    Contained(IF BranchExists(tracked, b) THEN tracked[b] ELSE local[b], log[main])

\* Mutant: a branch is open while its version is above that of the project.
BranchesAhead == {b \in ReleaseBranches : Less(run.version, b)}

OpenReleaseBranches == {b \in ReleaseBranches : ~IsMergedIntoMain(b)}

\* _parse_branch_version; branches that are neither main nor a release are as main.
OnReleaseBranch == head # Main

\* A release branch that is checked out is taken whatever its version ...
StayOnBranch ==
    /\ run.step = "resolve"
    /\ OnReleaseBranch
    /\ run' = [NoRun EXCEPT !.step = "sync", !.branch = head]
    /\ UNCHANGED <<github, clone, commits, history>>

\* ... else one that is still open ...
ReuseBranch ==
    /\ run.step = "resolve"
    /\ ~OnReleaseBranch
    /\ \E b \in Selected(OpenReleaseBranches, run.version) :
          run' = [NoRun EXCEPT !.step = "checkout", !.branch = b]
    /\ UNCHANGED <<github, clone, commits, history>>

\* Whatever the commits suggest, the argument or the answer may be another one.
Parts == {"major", "minor", "patch"}

\* ... and with none open a new one is named.
NameBranch(part) ==
    /\ run.step = "resolve"
    /\ ~OnReleaseBranch
    /\ OpenReleaseBranches = {}
    /\ Bump(run.version, part) \in Version
    /\ run' = [run EXCEPT !.step = "checkout", !.branch = Bump(run.version, part),
                          !.version = None, !.new = TRUE]
    /\ UNCHANGED <<github, clone, commits, history>>

AfterCheckout == Goto(IF run.new THEN "write" ELSE "sync")

\* A branch of the clone is checked out as it is ...
CheckoutLocal ==
    /\ run.step = "checkout"
    /\ BranchExists(local, run.branch)
    /\ head' = run.branch
    /\ AfterCheckout
    /\ UNCHANGED <<github, tracked, local, main, work, commits, history>>

\* ... and one of origin is fetched.
CheckoutRemote ==
    /\ run.step = "checkout"
    /\ ~BranchExists(local, run.branch)
    /\ BranchExists(remote, run.branch)
    /\ tracked' = [tracked EXCEPT ![run.branch] = remote[run.branch]]
    /\ local' = [local EXCEPT ![run.branch] = remote[run.branch]]
    /\ head' = run.branch
    /\ AfterCheckout
    /\ UNCHANGED <<github, main, work, commits, history>>

\* A new branch begins at the newest main, which the clone pulls first.
CreateBranch ==
    /\ run.step = "checkout"
    /\ run.new
    /\ ~BranchExists(local, run.branch)
    /\ ~BranchExists(remote, run.branch)
    /\ main' = Len(log)
    /\ local' = [local EXCEPT ![run.branch] = Newest]
    /\ head' = run.branch
    /\ Goto("write")
    /\ UNCHANGED <<github, tracked, work, commits, history>>

-------------------------------------------------------------------------------
(* The script, on the branch                                               *)

\* The branch is at origin/main or beyond ...
AlreadyMerged ==
    /\ run.step = "sync"
    /\ Contained(Newest, local[run.branch])
    /\ Goto("refresh")
    /\ UNCHANGED <<github, clone, commits, history>>

\* ... or is moved there ...
FastForward ==
    /\ run.step = "sync"
    /\ Contained(local[run.branch], Newest)
    /\ local' = [local EXCEPT ![run.branch] = Newest]
    /\ Goto("refresh")
    /\ UNCHANGED <<github, tracked, main, head, work, commits, history>>

Diverged(b) == ~Contained(Newest, local[b]) /\ ~Contained(local[b], Newest)

\* ... or a merge is committed ...
MergeMain ==
    /\ run.step = "sync"
    /\ LET b == run.branch
           a == local[b]
       IN  /\ Diverged(b)
           /\ ~Conflicts(a)
           /\ Commit(b, Newest.on, a.own \cup Newest.own, MergedVersion(a), MergedDeps(a))
    /\ Goto("refresh")
    /\ UNCHANGED <<github, tracked, main, head, work, history>>

\* ... or the script ends in the middle of it and leaves the conflict to the
\* developer, who keeps the version of the branch and the rest of main.
MergeConflicts ==
    /\ run.step = "sync"
    /\ Diverged(run.branch)
    /\ Conflicts(local[run.branch])
    /\ work' = [on |-> Newest.on, version |-> local[run.branch].version, deps |-> Newest.deps]
    /\ run' = NoRun
    /\ UNCHANGED <<github, tracked, local, main, head, commits, history>>

\* The new version, in the text that was read at the beginning.
Text == [on |-> local[run.branch].on, version |-> run.branch, deps |-> run.deps]

WriteVersion ==
    /\ run.step = "write"
    /\ work' = Text
    /\ stale' = (stale \/ run.began < Text.on)
    /\ Goto("refresh")
    /\ UNCHANGED <<github, tracked, local, main, head, commits, interrupted, merged>>

\* uv sync and generate-licenses; what they changed is a commit of its own.
RefreshLockAndLicenses ==
    /\ run.step = "refresh"
    /\ LET b == run.branch
           a == local[b]
       IN  \/ Commit(b, a.on, a.own, a.version, a.deps)
           \/ UNCHANGED <<local, commits>>
    /\ Goto(IF run.new THEN "commit" ELSE "push")
    /\ UNCHANGED <<github, tracked, main, head, work, history>>

\* git commit fails when the branch had that very text.
CommitVersion ==
    /\ run.step = "commit"
    /\ \/ work.version # local[run.branch].version
       \/ work.deps # local[run.branch].deps
    /\ Commit(run.branch, work.on, local[run.branch].own, work.version, work.deps)
    /\ work' = None
    /\ Goto("push")
    /\ UNCHANGED <<github, tracked, main, head, history>>

\* Origin accepts only what contains the branch it has.
Push ==
    /\ run.step = "push"
    /\ LET b == run.branch
       IN  /\ remote[b] # None => Contained(remote[b], local[b])
           /\ remote' = [remote EXCEPT ![b] = local[b]]
           /\ tracked' = [tracked EXCEPT ![b] = local[b]]
    /\ Goto("pr")
    /\ UNCHANGED <<log, prs, local, main, head, work, commits, history>>

\* GitHub refuses a pull request for a branch that is gone or has nothing new.
Refuses(b) == remote[b] = None \/ Contained(remote[b], Newest)

FindOpenPr(b) == b \in prs

\* The pull request, unless there is one, or no token, or GitHub refuses.
CreatePr ==
    /\ run.step = "pr"
    /\ \/ UNCHANGED prs
       \/ /\ ~FindOpenPr(run.branch)
          /\ ~Refuses(run.branch)
          /\ prs' = prs \cup {run.branch}
    /\ run' = NoRun
    /\ UNCHANGED <<log, remote, clone, commits, history>>

\* Any command fails, the developer interrupts the script, or it finds that
\* the branch is nowhere.  (A lock file that is left changed must be stashed.)
Fail ==
    /\ run.step # "idle"
    /\ run' = NoRun
    /\ interrupted' = IF run.step \in {"write", "refresh", "commit"} /\ run.new
                      THEN interrupted \cup {run.branch} ELSE interrupted
    /\ UNCHANGED <<github, clone, commits, merged, stale>>

-------------------------------------------------------------------------------
(* Others, at any time                                                     *)

\* A change that is not a release is merged into main.
Develop ==
    /\ Len(log) < MaxMain
    /\ log' = Append(log, [on |-> Len(log) + 1, own |-> Newest.own,
                           version |-> Newest.version, deps |-> Newest.deps + 1])
    /\ UNCHANGED <<remote, prs, clone, run, commits, history>>

\* A pull request is merged, with its commits or squashed into a new one, and
\* its branch may be deleted.
MergePr(b, squash) ==
    /\ b \in prs
    /\ Len(log) < MaxMain
    /\ ~Conflicts(remote[b])
    /\ log' = Append(log, [on |-> Len(log) + 1,
                           own |-> IF squash THEN Newest.own ELSE Newest.own \cup remote[b].own,
                           version |-> MergedVersion(remote[b]), deps |-> MergedDeps(remote[b])])
    /\ prs' = prs \ {b}
    /\ merged' = merged \cup {b}
    /\ remote' \in {remote, [remote EXCEPT ![b] = None]}
    /\ UNCHANGED <<clone, run, commits, interrupted, stale>>

-------------------------------------------------------------------------------
(* The developer, between two runs                                         *)

Checkout(b) ==
    /\ work = None
    /\ b # Main => local[b] # None
    /\ head' = b
    /\ UNCHANGED <<tracked, local, main, work, commits>>

PullMain ==
    /\ work = None
    /\ head = Main
    /\ main' = Len(log)
    /\ UNCHANGED <<tracked, local, head, work, commits>>

DeleteLocal(b) ==
    /\ head # b
    /\ local[b] # None
    /\ local' = [local EXCEPT ![b] = None]
    /\ UNCHANGED <<tracked, main, head, work, commits>>

\* "commit or stash them first".
CommitWork ==
    /\ work # None
    /\ Commit(head, work.on, local[head].own \cup log[work.on].own, work.version, work.deps)
    /\ work' = None
    /\ UNCHANGED <<tracked, main, head>>

Stash ==
    /\ work # None
    /\ work' = None
    /\ UNCHANGED <<tracked, local, main, head, commits>>

Developer ==
    /\ run.step = "idle"
    /\ \/ PullMain \/ CommitWork \/ Stash
       \/ Checkout(Main)
       \/ \E b \in Version : Checkout(b) \/ DeleteLocal(b)
    /\ UNCHANGED <<github, run, history>>

-------------------------------------------------------------------------------
Script ==
    \/ Begin
    \/ StayOnBranch \/ ReuseBranch
    \/ \E part \in Parts : NameBranch(part)
    \/ CheckoutLocal \/ CheckoutRemote \/ CreateBranch
    \/ AlreadyMerged \/ FastForward \/ MergeMain \/ MergeConflicts
    \/ WriteVersion \/ RefreshLockAndLicenses \/ CommitVersion
    \/ Push \/ CreatePr \/ Fail

Others == Develop \/ \E b \in Version, squash \in BOOLEAN : MergePr(b, squash)

Next == Script \/ Others \/ Developer

Spec == Init /\ [][Next]_vars
-------------------------------------------------------------------------------
(* Properties                                                              *)

Tip == [on : 1..Len(log), own : SUBSET (1..commits), version : Version, deps : Nat]
Creating == {"write", "refresh", "commit"}
OnBranch == Creating \cup {"sync", "push"}
Steps == OnBranch \cup {"idle", "resolve", "checkout", "pr"}

\* Type invariant.
TypeOK ==
    /\ log \in Seq(Tip) /\ Len(log) > 0
    /\ {remote, tracked, local} \subseteq [Version -> Tip \cup {None}]
    /\ main \in 1..Len(log)
    /\ head = Main \/ (head \in Version /\ BranchExists(local, head))
    /\ work = None \/ (work \in [on : 1..Len(log), version : Version, deps : Nat] /\ head # Main)
    /\ prs \subseteq {b \in Version : BranchExists(remote, b)}
    /\ run \in [step : Steps, version : Version \cup {None}, deps : Nat, began : 0..Len(log),
                branch : Version \cup {None}, new : BOOLEAN]
    /\ commits \in Nat
    /\ interrupted \subseteq Version
    /\ merged \subseteq Version
    /\ stale \in BOOLEAN

\* What the steps of a run know of the clone.
RunIsOnBranch ==
    /\ run.branch = None <=> run.step \in {"idle", "resolve"}
    /\ run.step = "resolve" => run.version = HeadTip.version /\ run.began = HeadTip.on
    /\ run.step \in OnBranch => head = run.branch
    /\ run.step \in {"write", "commit"} => run.new
    /\ run.new => run.step \in Creating \cup {"checkout", "push", "pr"}
    /\ work # None /\ run.step # "idle" => run.new /\ run.step \in {"refresh", "commit"}
    /\ run.new /\ run.step \in {"refresh", "commit"} => work # None /\ work.version = run.branch

Tips(b) == {local[b], tracked[b], remote[b]} \ {None}

\* The branches of which the script can promise something: not merged before,
\* and not left behind without their version.
Sound(b) == b \notin merged \cup interrupted

IsCreated(b) == run.new /\ run.branch = b /\ run.step \in Creating

\* Main only grows.
MainGrows ==
    \A i \in 1..Len(log) : log[i].on = i /\ \A j \in 1..i : log[j].own \subseteq log[i].own

\* Every version is that of its branch, the first one, or that of a release.
VersionsAreKnown ==
    LET Known == merged \cup {First}
    IN  /\ \A i \in 1..Len(log) : log[i].version \in Known
        /\ \A b \in Version : \A a \in Tips(b) : a.version \in Known \cup {b}
        /\ work # None => work.version \in Known \cup {head}

\* The first version has no branch: every release is later.
ReleasesAreLater ==
    \A b \in Version : b \in merged \/ Tips(b) # {} \/ run.branch = b => Less(First, b)

\* Two branches have no commits in common but those of main.
BranchesAreApart ==
    \A b, c \in Version : b # c =>
        \A a \in Tips(b), d \in Tips(c) : a.own \cap d.own \subseteq Newest.own

\* A branch that is not being made has its version, and a commit of its own.
SoundIsVersioned ==
    \A b \in Version : Sound(b) =>
        /\ ~IsCreated(b) => \A a \in Tips(b) : a.version = b /\ ~(a.own \subseteq Newest.own)
        /\ IsCreated(b) => tracked[b] = None /\ remote[b] = None
        /\ BranchExists(remote, b) => BranchExists(tracked, b)
        /\ head = b /\ work # None => work.version = b

\* There is one such branch, and none when a run begins to make another one.
SoundIsAlone ==
    /\ \A b, c \in Version : Sound(b) /\ Sound(c) /\ Tips(b) # {} /\ Tips(c) # {} => b = c
    /\ run.new => \A b \in Version : Sound(b) /\ Tips(b) # {} => b = run.branch /\ run.step # "checkout"

\* The edits of main, as long as no text was older.
EditsAreKept ==
    ~stale =>
        /\ \A i \in 1..Len(log), j \in 1..Len(log) : i <= j => log[i].deps <= log[j].deps
        /\ \A b \in Version : \A a \in Tips(b) : a.deps >= log[a.on].deps
        /\ work # None => work.deps >= log[work.on].deps
        /\ \/ run.new /\ run.step \in {"checkout", "write"}
           \/ run.step = "resolve" /\ head = Main
           => run.began > 0 /\ run.deps = log[run.began].deps

\* "chore(release): v{version}": a pull request for a version changes the
\* project to that version, after any number of runs that updated its branch.
VersionMatches == \A b \in prs : Sound(b) => remote[b].version = b

\* The clone has seen what origin has: nobody else pushes release branches.
RemoteIsTracked == \A b \in Version : remote[b] # None => tracked[b] = remote[b]

\* A branch with a pull request has a commit that main has not.
PrsAreOpen == \A b \in prs : ~(remote[b].own \subseteq Newest.own)

\* The inductive invariant.
ReleaseInv ==
    /\ TypeOK
    /\ RunIsOnBranch
    /\ MainGrows
    /\ VersionsAreKnown
    /\ ReleasesAreLater
    /\ BranchesAreApart
    /\ SoundIsVersioned
    /\ SoundIsAlone
    /\ EditsAreKept
    /\ VersionMatches
    /\ RemoteIsTracked
    /\ PrsAreOpen

\* "that branch is reused": however runs fail and whatever was fetched, there
\* are never two pull requests for two versions.
OneAtATime == \A b, c \in prs : Sound(b) /\ Sound(c) => b = c

\* "that branch is reused ... instead of creating a new branch": while the script
\* makes a new branch, from its choice to the pull request, no pull request of a
\* release is open on GitHub - of no branch at all, merged before, left half made
\* or neither - although the choice is made on what the clone last saw.
NewReleaseIsAlone == run.new => prs = {}
===============================================================================
