------------------------------ MODULE RepoLane ------------------------------
(***************************************************************************)
(* RepoExecutionLane.execute, as run by the service for a deploy event and *)
(* by operators for the workflow wrappers, several processes against one   *)
(* GitHub repository.  A run classifies its plan, creates a branch named   *)
(* after the change class and the current second, commits the patches one  *)
(* by one, validates, and opens a draft pull request.  Each step is a      *)
(* request to GitHub that may be refused, or carried out and its answer    *)
(* lost; the run then ends where it is and nothing is undone.              *)
(***************************************************************************)
EXTENDS Integers, Sequences, Functions

CONSTANTS
    Runner,           \* runs active at the same time
    Plan, Class, Path, Name, File,
    ClassOf,          \* a plan's change_class
    PatchesOf,        \* the paths of a plan's patches, in order
    NameOf,           \* a class as branches spell it; two may come to one name
    FileOf,           \* the file GitHub writes for a path; two may come to one
    AutoPatchClasses, PrOnlyClasses, BlockedClasses,
    BlockedPaths,     \* paths under blocked_path_prefixes
    LowRiskPaths,     \* paths under allowed_low_risk_prefixes
    LastSecond,       \* the clock runs no further than this
    NoPlan, NoBranch

\* A branch is named after the class and the second.
Branch == Name \X (0..LastSecond)

ASSUME LaneAssumption ==
    /\ ClassOf \in [Plan -> Class]
    /\ PatchesOf \in [Plan -> Seq(Path)]
    /\ NameOf \in [Class -> Name]
    /\ FileOf \in [Path -> File]
    /\ LastSecond \in Nat
    /\ NoPlan \notin Plan
    /\ NoBranch \notin Branch

VARIABLES
    clock,    \* the second datetime.now shows
    refs,     \* the lane's branches on GitHub
    commits,  \* what was committed to each branch, by plan and file
    prs,      \* branches with an open pull request
    grant,    \* history: whether a human approved the run that made the branch
    step,     \* where each runner is in execute
    plan,     \* the plan it executes
    human,    \* allow_pr_only_apply, as it was called
    branch,   \* the branch it named
    written   \* how many patches it has committed

githubVars == <<refs, commits, prs, grant>>
runnerVars == <<step, plan, human, branch, written>>
vars == <<clock, githubVars, runnerVars>>

Step == {"idle", "branching", "patching", "opening"}

PathsOf(p) == Range(PatchesOf[p])
FilesOf(p) == {FileOf[x] : x \in PathsOf(p)}

TypeOK ==
    /\ clock \in 0..LastSecond
    /\ refs \subseteq Branch
    /\ commits \in [Branch -> SUBSET (Plan \X File)]
    /\ prs \subseteq Branch
    /\ grant \in [Branch -> BOOLEAN]
    /\ step \in [Runner -> Step]
    /\ plan \in [Runner -> Plan \cup {NoPlan}]
    /\ human \in [Runner -> BOOLEAN]
    /\ branch \in [Runner -> Branch \cup {NoBranch}]
    /\ written \in [Runner -> Nat]
    /\ \A r \in Runner :
          IF step[r] = "idle" THEN plan[r] = NoPlan /\ branch[r] = NoBranch /\ written[r] = 0
          ELSE plan[r] \in Plan /\ branch[r] \in Branch /\ written[r] <= Len(PatchesOf[plan[r]])

Init ==
    /\ clock = 0
    /\ refs = {}
    /\ commits = [b \in Branch |-> {}]
    /\ prs = {}
    /\ grant = [b \in Branch |-> FALSE]
    /\ step = [r \in Runner |-> "idle"]
    /\ plan = [r \in Runner |-> NoPlan]
    /\ human = [r \in Runner |-> FALSE]
    /\ branch = [r \in Runner |-> NoBranch]
    /\ written = [r \in Runner |-> 0]

-----------------------------------------------------------------------------
(* AutonomyPolicy.classify, on the paths as the plan spells them.          *)

\* Faulty variant: only the change class is looked at.
BlockedByClass(p) == ClassOf[p] \in BlockedClasses

Blocked(p) ==
    \/ ClassOf[p] \in BlockedClasses
    \/ PathsOf(p) \cap BlockedPaths # {}

\* An empty plan is not low-risk.
PathsWithinLowRisk(p) == PathsOf(p) # {} /\ PathsOf(p) \subseteq LowRiskPaths

\* Faulty variant: only the paths are looked at.
AutoPatchByPath(p) == ~Blocked(p) /\ PathsWithinLowRisk(p)

\* Mode auto_patch; a plan that is neither this nor blocked is pr_only.
AutoPatch(p) ==
    /\ ~Blocked(p)
    /\ ClassOf[p] \notin PrOnlyClasses
    /\ ClassOf[p] \in AutoPatchClasses
    /\ PathsWithinLowRisk(p)

-----------------------------------------------------------------------------

\* Faulty variant: a run that ends keeps hold of its branch.
LeaveKeepingBranch(r) ==
    /\ step' = [step EXCEPT ![r] = "idle"]
    /\ plan' = [plan EXCEPT ![r] = NoPlan]
    /\ human' = [human EXCEPT ![r] = FALSE]
    /\ written' = [written EXCEPT ![r] = 0]
    /\ UNCHANGED branch

Leave(r) ==
    /\ step' = [step EXCEPT ![r] = "idle"]
    /\ plan' = [plan EXCEPT ![r] = NoPlan]
    /\ human' = [human EXCEPT ![r] = FALSE]
    /\ branch' = [branch EXCEPT ![r] = NoBranch]
    /\ written' = [written EXCEPT ![r] = 0]

\* The run goes on to step s with n patches committed.
Proceed(r, s, n) ==
    /\ step' = [step EXCEPT ![r] = s]
    /\ written' = [written EXCEPT ![r] = n]
    /\ UNCHANGED <<plan, human, branch>>

(***************************************************************************)
(* execute up to the branch name.  A blocked plan, and a pr_only plan that *)
(* no human approved, end here and leave no trace.                         *)
(***************************************************************************)
Classify(r, p, approved) ==
    /\ step[r] = "idle"
    /\ ~Blocked(p)
    /\ AutoPatch(p) \/ approved
    /\ step' = [step EXCEPT ![r] = "branching"]
    /\ plan' = [plan EXCEPT ![r] = p]
    /\ human' = [human EXCEPT ![r] = approved]
    /\ branch' = [branch EXCEPT ![r] = <<NameOf[ClassOf[p]], clock>>]
    /\ UNCHANGED <<clock, githubVars, written>>

\* Faulty variant: a branch that exists already is taken over.
CreateOrReuseBranch(r) ==
    /\ step[r] = "branching"
    /\ refs' = refs \cup {branch[r]}
    /\ grant' = IF branch[r] \in refs THEN grant ELSE [grant EXCEPT ![branch[r]] = human[r]]
    /\ Proceed(r, "patching", 0)
    /\ UNCHANGED <<clock, commits, prs>>

\* create_branch: GitHub refuses a ref that exists.
CreateBranch(r) ==
    /\ step[r] = "branching"
    /\ branch[r] \notin refs
    /\ refs' = refs \cup {branch[r]}
    /\ grant' = [grant EXCEPT ![branch[r]] = human[r]]
    /\ Proceed(r, "patching", 0) \/ Leave(r)
    /\ UNCHANGED <<clock, commits, prs>>

NextCommit(r) == <<plan[r], FileOf[PatchesOf[plan[r]][written[r] + 1]]>>

\* Faulty variant: a patch GitHub refused is skipped.
UpsertOrSkip(r) ==
    /\ step[r] = "patching"
    /\ written[r] < Len(PatchesOf[plan[r]])
    /\ \/ commits' = [commits EXCEPT ![branch[r]] = @ \cup {NextCommit(r)}]
       \/ UNCHANGED commits
    /\ Proceed(r, "patching", written[r] + 1)
    /\ UNCHANGED <<clock, refs, prs, grant>>

\* upsert_file for the next patch of the plan, into the file its path leads to.
UpsertFile(r) ==
    /\ step[r] = "patching"
    /\ written[r] < Len(PatchesOf[plan[r]])
    /\ commits' = [commits EXCEPT ![branch[r]] = @ \cup {NextCommit(r)}]
    /\ Proceed(r, "patching", written[r] + 1) \/ Leave(r)
    /\ UNCHANGED <<clock, refs, prs, grant>>

(***************************************************************************)
(* The validator's commands run in the process's own directory, not on the *)
(* branch, so either result is possible.  A failure ends the run and       *)
(* leaves the branch behind.                                               *)
(***************************************************************************)
Validate(r) ==
    /\ step[r] = "patching"
    /\ written[r] = Len(PatchesOf[plan[r]])
    /\ Proceed(r, "opening", written[r]) \/ Leave(r)
    /\ UNCHANGED <<clock, githubVars>>

\* create_pr: GitHub refuses a second pull request for a branch.
CreatePr(r) ==
    /\ step[r] = "opening"
    /\ branch[r] \notin prs
    /\ prs' = prs \cup {branch[r]}
    /\ Leave(r)
    /\ UNCHANGED <<clock, refs, commits, grant>>

\* GitHub refuses a request: GitHubWriteError ends the run.
RequestFails(r) ==
    /\ step[r] # "idle"
    /\ Leave(r)
    /\ UNCHANGED <<clock, githubVars>>

Tick ==
    /\ clock < LastSecond
    /\ clock' = clock + 1
    /\ UNCHANGED <<githubVars, runnerVars>>

RunnerStep(r) ==
    \/ \E p \in Plan, approved \in BOOLEAN : Classify(r, p, approved)
    \/ CreateBranch(r)
    \/ UpsertFile(r)
    \/ Validate(r)
    \/ CreatePr(r)
    \/ RequestFails(r)

Next == (\E r \in Runner : RunnerStep(r)) \/ Tick

Spec == Init /\ [][Next]_vars

-----------------------------------------------------------------------------
\* Files that every path to them is blocked for, and files that some low-risk
\* path leads to.
ProtectedFiles == {f \in File : \A x \in Path : FileOf[x] = f => x \in BlockedPaths}
LowRiskFiles == {FileOf[x] : x \in LowRiskPaths \cap Path}

(***************************************************************************)
(* Whatever a plan is called and whoever approved it, no commit of the     *)
(* lane touches a file that the policy protects under every path that      *)
(* leads to it.  The policy compares paths and not files: one path more    *)
(* that it does not know takes the file out of this promise.               *)
(***************************************************************************)
ProtectedFilesUntouched ==
    \A b \in Branch : \A c \in commits[b] : c[2] \notin ProtectedFiles

(***************************************************************************)
(* A branch that no human approved carries only plans all of whose paths   *)
(* the policy reads as low-risk, and so only files that such a path leads  *)
(* to, even when an approved run of a class with the same name began in    *)
(* the same second.                                                        *)
(***************************************************************************)
UnapprovedStaysLowRisk ==
    \A b \in Branch : ~grant[b] =>
        \A c \in commits[b] : PathsOf(c[1]) \subseteq LowRiskPaths /\ c[2] \in LowRiskFiles

(***************************************************************************)
(* A pull request shows patches of one change class, the one its branch is *)
(* named after also where another shares the name; the class is not a      *)
(* blocked one, and unless a human approved the run that made the branch,  *)
(* it is one that the policy lets through without.                         *)
(***************************************************************************)
PullRequestsAllowed ==
    \A b \in prs : \A c \in commits[b] :
        /\ NameOf[ClassOf[c[1]]] = b[1]
        /\ \A d \in commits[b] : ClassOf[d[1]] = ClassOf[c[1]]
        /\ ClassOf[c[1]] \notin BlockedClasses
        /\ grant[b] \/ ClassOf[c[1]] \in AutoPatchClasses \ PrOnlyClasses

\* The pull requests as their reviewer sees them now.
Shown == {[branch |-> b, content |-> commits[b]] : b \in prs}

(***************************************************************************)
(* The lane implements ReviewQueue: a pull request shows all patches of    *)
(* one plan and nothing else, and no later run changes what it shows.      *)
(***************************************************************************)
Queue == INSTANCE ReviewQueue WITH open <- Shown

ImplementsReviewQueue == Queue!Spec
=============================================================================
