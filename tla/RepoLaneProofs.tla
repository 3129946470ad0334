--------------------------- MODULE RepoLaneProofs ---------------------------
(***************************************************************************)
(* Proofs about RepoLane for any number of runs, any plans and any policy: *)
(* what reaches a branch, and that the lane implements ReviewQueue.        *)
(***************************************************************************)
EXTENDS RepoLane, TLAPS

\* The patches of a plan, by position.
LEMMA PatchOf ==
    ASSUME NEW p \in Plan, NEW i \in 1..Len(PatchesOf[p])
    PROVE  /\ PatchesOf[p][i] \in Path /\ PatchesOf[p][i] \in PathsOf(p)
           /\ FileOf[PatchesOf[p][i]] \in File
BY LaneAssumption DEF PathsOf, Range

\* The next patch of a run that has patches left.
LEMMA NextPatch ==
    ASSUME TypeOK, NEW r \in Runner, step[r] = "patching",
           written[r] < Len(PatchesOf[plan[r]])
    PROVE  /\ plan[r] \in Plan /\ branch[r] \in Branch
           /\ written[r] + 1 \in 1..Len(PatchesOf[plan[r]])
           /\ NextCommit(r) \in Plan \X File
<1>1. plan[r] \in Plan /\ branch[r] \in Branch /\ written[r] \in Nat
  BY DEF TypeOK
<1>2. Len(PatchesOf[plan[r]]) \in Nat
  BY <1>1, LaneAssumption
<1>3. written[r] + 1 \in 1..Len(PatchesOf[plan[r]])
  BY <1>1, <1>2
<1> QED
  BY <1>1, <1>3, PatchOf DEF NextCommit

\* The two halves of TypeOK: GitHub with the clock, and the runs.
GithubOK ==
    /\ clock \in 0..LastSecond
    /\ refs \subseteq Branch
    /\ commits \in [Branch -> SUBSET (Plan \X File)]
    /\ prs \subseteq Branch
    /\ grant \in [Branch -> BOOLEAN]

RunnerOK(r) ==
    IF step[r] = "idle" THEN plan[r] = NoPlan /\ branch[r] = NoBranch /\ written[r] = 0
    ELSE plan[r] \in Plan /\ branch[r] \in Branch /\ written[r] <= Len(PatchesOf[plan[r]])

RunnersOK ==
    /\ step \in [Runner -> Step]
    /\ plan \in [Runner -> Plan \cup {NoPlan}]
    /\ human \in [Runner -> BOOLEAN]
    /\ branch \in [Runner -> Branch \cup {NoBranch}]
    /\ written \in [Runner -> Nat]
    /\ \A r \in Runner : RunnerOK(r)

LEMMA TypeHalves == TypeOK <=> GithubOK /\ RunnersOK
BY DEF TypeOK, GithubOK, RunnersOK, RunnerOK

\* Nothing about a run changes.
LEMMA RunnersKept == ASSUME RunnersOK, UNCHANGED runnerVars PROVE RunnersOK'
BY DEF RunnersOK, RunnerOK, runnerVars

\* A run that ends leaves the others alone.
LEMMA LeaveType ==
    ASSUME RunnersOK, NEW r \in Runner, Leave(r)
    PROVE  RunnersOK'
<1> USE DEF RunnersOK
<1>1. \A q \in Runner : RunnerOK(q)'
  <2> SUFFICES ASSUME NEW q \in Runner PROVE RunnerOK(q)'
    OBVIOUS
  <2>1. CASE q = r
    BY <2>1 DEF Leave, RunnerOK
  <2>2. CASE q # r
    BY <2>2 DEF Leave, RunnerOK
  <2> QED
    BY <2>1, <2>2
<1>2. step' \in [Runner -> Step] /\ written' \in [Runner -> Nat]
  BY DEF Leave, Step
<1> QED
  BY <1>1, <1>2 DEF Leave

\* Nor does a run that goes on.
LEMMA ProceedType ==
    ASSUME RunnersOK, NEW r \in Runner, step[r] # "idle",
           NEW s \in Step \ {"idle"}, NEW n \in Nat, n <= Len(PatchesOf[plan[r]]),
           Proceed(r, s, n)
    PROVE  RunnersOK'
<1> USE DEF RunnersOK
<1>1. \A q \in Runner : RunnerOK(q)'
  <2> SUFFICES ASSUME NEW q \in Runner PROVE RunnerOK(q)'
    OBVIOUS
  <2>1. CASE q = r
    BY <2>1 DEF Proceed, RunnerOK
  <2>2. CASE q # r
    BY <2>2 DEF Proceed, RunnerOK
  <2> QED
    BY <2>1, <2>2
<1> QED
  BY <1>1 DEF Proceed

(***************************************************************************)
(* Every variable keeps its type, and an idle run holds nothing.           *)
(***************************************************************************)
THEOREM TypeCorrect == Spec => []TypeOK
<1>1. Init => TypeOK
  BY LaneAssumption DEF Init, TypeOK, Step
<1>2. TypeOK /\ [Next]_vars => TypeOK'
  <2> SUFFICES ASSUME TypeOK, [Next]_vars PROVE GithubOK' /\ RunnersOK'
    BY TypeHalves, PTL
  <2>0. GithubOK /\ RunnersOK
    BY TypeHalves
  <2>1. ASSUME NEW r \in Runner, NEW p \in Plan, NEW approved \in BOOLEAN,
               Classify(r, p, approved)
        PROVE  GithubOK' /\ RunnersOK'
    <3>1. GithubOK'
      BY <2>0, <2>1 DEF Classify, githubVars, GithubOK
    <3>0. Len(PatchesOf[p]) \in Nat
      BY LaneAssumption
    <3>2. <<NameOf[ClassOf[p]], clock>> \in Branch
      BY <2>0, LaneAssumption DEF GithubOK, Branch
    <3>3. \A q \in Runner : RunnerOK(q)'
      <4> SUFFICES ASSUME NEW q \in Runner PROVE RunnerOK(q)'
        OBVIOUS
      <4>1. CASE q = r
        BY <2>0, <2>1, <3>0, <3>2, <4>1 DEF Classify, RunnersOK, RunnerOK
      <4>2. CASE q # r
        BY <2>0, <2>1, <4>2 DEF Classify, RunnersOK, RunnerOK
      <4> QED
        BY <4>1, <4>2
    <3>4. RunnersOK'
      BY <2>0, <2>1, <3>2, <3>3 DEF Classify, RunnersOK, Step
    <3> QED
      BY <3>1, <3>4
  <2>2. ASSUME NEW r \in Runner, CreateBranch(r) PROVE GithubOK' /\ RunnersOK'
    <3>1. branch[r] \in Branch /\ plan[r] \in Plan
      BY <2>0, <2>2 DEF CreateBranch, RunnersOK, RunnerOK
    <3>2. 0 <= Len(PatchesOf[plan[r]])
      BY <3>1, LaneAssumption
    <3>3. GithubOK'
      BY <2>0, <2>2, <3>1 DEF CreateBranch, GithubOK, RunnersOK
    <3>4. RunnersOK'
      BY <2>0, <2>2, <3>2, LeaveType, ProceedType DEF CreateBranch, Step
    <3> QED
      BY <3>3, <3>4
  <2>3. ASSUME NEW r \in Runner, UpsertFile(r) PROVE GithubOK' /\ RunnersOK'
    <3>1. commits' \in [Branch -> SUBSET (Plan \X File)]
      BY <2>0, <2>3, NextPatch DEF UpsertFile, GithubOK
    <3>2. written[r] + 1 \in Nat /\ written[r] + 1 <= Len(PatchesOf[plan[r]])
      BY <2>3, NextPatch DEF UpsertFile
    <3>3. GithubOK'
      BY <2>0, <2>3, <3>1 DEF UpsertFile, GithubOK
    <3>4. RunnersOK'
      BY <2>0, <2>3, <3>2, LeaveType, ProceedType DEF UpsertFile, Step
    <3> QED
      BY <3>3, <3>4
  <2>4. ASSUME NEW r \in Runner, Validate(r) PROVE GithubOK' /\ RunnersOK'
    <3>1. written[r] \in Nat /\ written[r] <= Len(PatchesOf[plan[r]])
      BY <2>0, <2>4 DEF Validate, RunnersOK, RunnerOK
    <3>2. RunnersOK'
      BY <2>0, <2>4, <3>1, LeaveType, ProceedType DEF Validate, Step
    <3> QED
      BY <2>0, <2>4, <3>2 DEF Validate, githubVars, GithubOK
  <2>5. ASSUME NEW r \in Runner, CreatePr(r) PROVE GithubOK' /\ RunnersOK'
    <3>1. branch[r] \in Branch
      BY <2>0, <2>5 DEF CreatePr, RunnersOK, RunnerOK
    <3> QED
      BY <2>0, <2>5, <3>1, LeaveType DEF CreatePr, GithubOK
  <2>6. ASSUME NEW r \in Runner, RequestFails(r) PROVE GithubOK' /\ RunnersOK'
    BY <2>0, <2>6, LeaveType DEF RequestFails, githubVars, GithubOK
  <2>7. ASSUME Tick PROVE GithubOK' /\ RunnersOK'
    BY <2>0, <2>7, LaneAssumption, RunnersKept DEF Tick, githubVars, GithubOK
  <2>8. CASE UNCHANGED vars
    BY <2>0, <2>8, RunnersKept DEF vars, githubVars, GithubOK
  <2> QED
    BY <2>1, <2>2, <2>3, <2>4, <2>5, <2>6, <2>7, <2>8 DEF Next, RunnerStep
<1> QED
  BY <1>1, <1>2, PTL DEF Spec

-----------------------------------------------------------------------------
\* A run holds its branch from its creation to the pull request,
Holding(r) == step[r] \in {"patching", "opening"}

\* and has committed the first patches of its plan to it.
Written(r) == {<<plan[r], FileOf[PatchesOf[plan[r]][i]]>> : i \in 1..written[r]}

\* Only plans the policy lets through are executed.
RunAdmitted ==
    \A r \in Runner :
        step[r] # "idle" => ~Blocked(plan[r]) /\ (AutoPatch(plan[r]) \/ human[r])

\* The branch a run holds is on GitHub, under the run's own approval, with the
\* run's patches and nothing else, and not yet under review.
Owns(r) ==
    /\ branch[r] \in refs
    /\ branch[r] \notin prs
    /\ grant[branch[r]] = human[r]
    /\ commits[branch[r]] = Written(r)

BranchOwned == \A r \in Runner : Holding(r) => Owns(r)

NoSharing ==
    \A r, q \in Runner : Holding(r) /\ Holding(q) /\ branch[r] = branch[q] => r = q

\* A branch that does not exist is empty and not under review.
NothingElsewhere == \A b \in Branch : b \notin refs => commits[b] = {} /\ b \notin prs

\* A pull request is opened once all patches are committed.
WholeWhenOpening ==
    \A r \in Runner : step[r] = "opening" => written[r] = Len(PatchesOf[plan[r]])

LaneInv ==
    /\ RunAdmitted /\ BranchOwned /\ NoSharing /\ NothingElsewhere /\ WholeWhenOpening
    /\ ProtectedFilesUntouched /\ UnapprovedStaysLowRisk

\* What the invariant says of a run that does not move.
Still(q) ==
    /\ step'[q] = step[q] /\ plan'[q] = plan[q] /\ human'[q] = human[q]
    /\ branch'[q] = branch[q] /\ written'[q] = written[q]

LEMMA StillWritten ==
    ASSUME NEW q \in Runner, Still(q)
    PROVE  Written(q)' = Written(q)
<1>1. plan'[q] = plan[q] /\ written'[q] = written[q]
  BY DEF Still
<1> QED
  BY <1>1 DEF Written

LEMMA StillOwns ==
    ASSUME NEW q \in Runner, Still(q), Owns(q),
           branch[q] \in refs', branch[q] \notin prs',
           grant'[branch[q]] = grant[branch[q]], commits'[branch[q]] = commits[branch[q]]
    PROVE  Owns(q)'
<1>1. branch'[q] = branch[q] /\ human'[q] = human[q]
  BY DEF Still
<1> QED
  BY <1>1, StillWritten DEF Owns

\* A run that ends leaves the invariant alone if GitHub does not change.
LEMMA LeaveKeepsInv ==
    ASSUME TypeOK, LaneInv, NEW r \in Runner, Leave(r), UNCHANGED githubVars
    PROVE  LaneInv'
<1> USE DEF LaneInv
<1>1. \A q \in Runner \ {r} : Still(q)
  BY DEF Leave, Still, TypeOK
<1>2. step'[r] = "idle"
  BY DEF Leave, TypeOK
<1>3. RunAdmitted' /\ WholeWhenOpening'
  BY <1>1, <1>2 DEF RunAdmitted, WholeWhenOpening, Blocked, AutoPatch, Still
<1>4. NoSharing'
  BY <1>1, <1>2 DEF NoSharing, Holding, Still
<1>5. ASSUME NEW q \in Runner, Holding(q)' PROVE Owns(q)'
  <2>1. q # r /\ Still(q) /\ Holding(q)
    BY <1>1, <1>2, <1>5 DEF Holding, Still
  <2>2. Owns(q)
    BY <2>1 DEF BranchOwned
  <2> QED
    BY <2>1, <2>2, StillOwns DEF Owns, githubVars
<1>6. NothingElsewhere' /\ ProtectedFilesUntouched' /\ UnapprovedStaysLowRisk'
  BY DEF NothingElsewhere, ProtectedFilesUntouched, UnapprovedStaysLowRisk, githubVars
<1> QED
  BY <1>3, <1>4, <1>5, <1>6 DEF BranchOwned

\* A run that goes on or ends does not move the others.
LEMMA OthersStill ==
    ASSUME TypeOK, NEW r \in Runner, NEW s, NEW n, Proceed(r, s, n) \/ Leave(r)
    PROVE  \A q \in Runner \ {r} : Still(q)
BY DEF Proceed, Leave, Still, TypeOK

\* Committing the next patch makes the written ones one more.
LEMMA WrittenGrows ==
    ASSUME TypeOK, NEW r \in Runner, Proceed(r, "patching", written[r] + 1)
    PROVE  Written(r)' = Written(r) \cup {NextCommit(r)}
<1>1. plan'[r] = plan[r] /\ written'[r] = written[r] + 1 /\ written[r] \in Nat
  BY DEF Proceed, TypeOK
<1>2. 1..(written[r] + 1) = (1..written[r]) \cup {written[r] + 1}
  BY <1>1
<1> QED
  BY <1>1, <1>2 DEF Written, NextCommit

\* What a patch of an admitted plan may touch.
LEMMA PatchAdmitted ==
    ASSUME TypeOK, RunAdmitted, NEW r \in Runner, step[r] = "patching",
           written[r] < Len(PatchesOf[plan[r]])
    PROVE  /\ NextCommit(r)[2] \notin ProtectedFiles
           /\ ~human[r] => /\ PathsOf(NextCommit(r)[1]) \subseteq LowRiskPaths
                          /\ NextCommit(r)[2] \in LowRiskFiles
<1> DEFINE x == PatchesOf[plan[r]][written[r] + 1]
<1>1. plan[r] \in Plan /\ written[r] + 1 \in 1..Len(PatchesOf[plan[r]])
  BY NextPatch
<1>2. x \in Path /\ x \in PathsOf(plan[r])
  BY <1>1, PatchOf
<1>3. NextCommit(r)[1] = plan[r] /\ NextCommit(r)[2] = FileOf[x]
  BY DEF NextCommit
<1>4. ~Blocked(plan[r]) /\ (AutoPatch(plan[r]) \/ human[r])
  BY DEF RunAdmitted
<1>5. x \notin BlockedPaths
  BY <1>2, <1>4 DEF Blocked
<1>6. ~human[r] => PathsOf(plan[r]) \subseteq LowRiskPaths
  BY <1>4 DEF AutoPatch, PathsWithinLowRisk
<1> HIDE DEF x
<1> QED
  BY <1>2, <1>3, <1>5, <1>6 DEF ProtectedFiles, LowRiskFiles

-----------------------------------------------------------------------------
(***************************************************************************)
(* One lemma per request: each keeps the invariant, whether the run goes   *)
(* on or ends with it.                                                     *)
(***************************************************************************)
LEMMA ClassifyKeepsInv ==
    ASSUME TypeOK, LaneInv, NEW r \in Runner, NEW p \in Plan, NEW approved \in BOOLEAN,
           Classify(r, p, approved)
    PROVE  LaneInv'
<1> USE DEF LaneInv
<1>1. \A q \in Runner \ {r} : Still(q)
  BY DEF Classify, Still, TypeOK
<1>2. step'[r] = "branching" /\ plan'[r] = p /\ human'[r] = approved
  BY DEF Classify, TypeOK
<1>3. ~Blocked(p) /\ (AutoPatch(p) \/ approved) /\ UNCHANGED githubVars
  BY DEF Classify
<1>4. RunAdmitted'
  BY <1>1, <1>2, <1>3 DEF RunAdmitted, Blocked, AutoPatch, Still
<1>5. NoSharing' /\ WholeWhenOpening'
  BY <1>1, <1>2 DEF NoSharing, WholeWhenOpening, Holding, Still
<1>6. ASSUME NEW q \in Runner, Holding(q)' PROVE Owns(q)'
  <2>1. q # r /\ Still(q) /\ Holding(q)
    BY <1>1, <1>2, <1>6 DEF Holding, Still
  <2> QED
    BY <1>3, <2>1, StillOwns DEF BranchOwned, Owns, githubVars
<1>7. NothingElsewhere' /\ ProtectedFilesUntouched' /\ UnapprovedStaysLowRisk'
  BY <1>3 DEF NothingElsewhere, ProtectedFilesUntouched, UnapprovedStaysLowRisk, githubVars
<1> QED
  BY <1>4, <1>5, <1>6, <1>7 DEF BranchOwned

LEMMA CreateBranchKeepsInv ==
    ASSUME TypeOK, LaneInv, NEW r \in Runner, CreateBranch(r)
    PROVE  LaneInv'
<1> USE DEF LaneInv
<1> DEFINE b == branch[r]
<1>1. /\ b \in Branch /\ b \notin refs /\ refs' = refs \cup {b}
      /\ grant' = [grant EXCEPT ![b] = human[r]]
      /\ commits' = commits /\ prs' = prs
  BY DEF CreateBranch, TypeOK
<1>2. commits[b] = {} /\ b \notin prs
  BY <1>1 DEF NothingElsewhere
<1>3. \A q \in Runner \ {r} : Still(q)
  BY OthersStill DEF CreateBranch
<1>4. \/ /\ step'[r] = "patching" /\ branch'[r] = b /\ plan'[r] = plan[r]
         /\ human'[r] = human[r] /\ written'[r] = 0
      \/ step'[r] = "idle"
  BY DEF CreateBranch, Proceed, Leave, TypeOK
<1>5. RunAdmitted' /\ WholeWhenOpening'
  BY <1>3, <1>4 DEF CreateBranch, RunAdmitted, WholeWhenOpening, Blocked, AutoPatch, Still
<1>6. \A q \in Runner \ {r} : Holding(q)' => Holding(q) /\ branch[q] # b
  BY <1>1, <1>3 DEF Holding, Still, BranchOwned, Owns
<1>7. NoSharing'
  BY <1>3, <1>4, <1>6 DEF NoSharing, Holding, Still
<1>8. ASSUME NEW q \in Runner, Holding(q)' PROVE Owns(q)'
  <2>1. CASE q = r
    <3>1. Written(r)' = {}
      BY <1>4, <1>8, <2>1 DEF Holding, Written
    <3>2. grant'[b] = human[r]
      BY <1>1 DEF TypeOK
    <3> QED
      BY <1>1, <1>2, <1>4, <1>8, <2>1, <3>1, <3>2 DEF Holding, Owns
  <2>2. CASE q # r
    <3>1. Holding(q) /\ branch[q] # b /\ Still(q) /\ Owns(q)
      BY <1>3, <1>6, <1>8, <2>2 DEF BranchOwned
    <3>2. branch[q] \in refs
      BY <3>1 DEF Owns
    <3>3. grant'[branch[q]] = grant[branch[q]]
      BY <1>1, <3>1, <3>2 DEF TypeOK
    <3> QED
      BY <1>1, <3>1, <3>3, StillOwns DEF Owns
  <2> QED
    BY <2>1, <2>2
<1>9. NothingElsewhere' /\ ProtectedFilesUntouched'
  BY <1>1 DEF NothingElsewhere, ProtectedFilesUntouched
<1>10. UnapprovedStaysLowRisk'
  BY <1>1, <1>2 DEF UnapprovedStaysLowRisk, TypeOK
<1> QED
  BY <1>5, <1>7, <1>8, <1>9, <1>10 DEF BranchOwned

LEMMA UpsertFileKeepsInv ==
    ASSUME TypeOK, LaneInv, NEW r \in Runner, UpsertFile(r)
    PROVE  LaneInv'
<1> USE DEF LaneInv
<1> DEFINE b == branch[r]
<1>1. /\ step[r] = "patching" /\ b \in Branch /\ UNCHANGED <<refs, prs, grant>>
      /\ commits' = [commits EXCEPT ![b] = @ \cup {NextCommit(r)}]
  BY DEF UpsertFile, TypeOK
<1>2. Holding(r) /\ Owns(r)
  BY <1>1 DEF Holding, BranchOwned
<1>3. \A q \in Runner \ {r} : Still(q)
  BY OthersStill DEF UpsertFile
<1>4. \/ /\ Proceed(r, "patching", written[r] + 1)
         /\ step'[r] = "patching" /\ branch'[r] = b /\ plan'[r] = plan[r]
         /\ human'[r] = human[r]
      \/ step'[r] = "idle"
  BY DEF UpsertFile, Proceed, Leave, TypeOK
<1>5. RunAdmitted' /\ WholeWhenOpening'
  BY <1>1, <1>3, <1>4 DEF RunAdmitted, WholeWhenOpening, Blocked, AutoPatch, Still
<1>6. \A q \in Runner \ {r} : Holding(q)' => Holding(q) /\ branch[q] # b
  BY <1>2, <1>3 DEF Holding, Still, NoSharing
<1>7. NoSharing'
  BY <1>3, <1>4, <1>6 DEF NoSharing, Holding, Still
<1>8. ASSUME NEW q \in Runner, Holding(q)' PROVE Owns(q)'
  <2>1. CASE q = r
    <3>1. Written(r)' = Written(r) \cup {NextCommit(r)}
      BY <1>4, <1>8, <2>1, WrittenGrows DEF Holding
    <3>2. commits'[b] = commits[b] \cup {NextCommit(r)}
      BY <1>1 DEF TypeOK
    <3> QED
      BY <1>1, <1>2, <1>4, <1>8, <2>1, <3>1, <3>2 DEF Holding, Owns
  <2>2. CASE q # r
    <3>1. Holding(q) /\ branch[q] # b /\ Still(q) /\ Owns(q)
      BY <1>3, <1>6, <1>8, <2>2 DEF BranchOwned
    <3>2. branch[q] \in Branch
      BY <3>1 DEF Owns, TypeOK
    <3>3. commits'[branch[q]] = commits[branch[q]]
      BY <1>1, <3>1, <3>2 DEF TypeOK
    <3> QED
      BY <1>1, <3>1, <3>3, StillOwns DEF Owns
  <2> QED
    BY <2>1, <2>2
<1>9. NothingElsewhere'
  BY <1>1, <1>2 DEF NothingElsewhere, Owns, TypeOK
<1>10. /\ NextCommit(r)[2] \notin ProtectedFiles
       /\ ~grant[b] => /\ PathsOf(NextCommit(r)[1]) \subseteq LowRiskPaths
                      /\ NextCommit(r)[2] \in LowRiskFiles
  BY <1>2, PatchAdmitted DEF UpsertFile, Owns
<1>11. \A x \in Branch : \A c \in commits'[x] :
           c \in commits[x] \/ (x = b /\ c = NextCommit(r))
  BY <1>1 DEF TypeOK
<1>12. ProtectedFilesUntouched' /\ UnapprovedStaysLowRisk'
  BY <1>1, <1>10, <1>11 DEF ProtectedFilesUntouched, UnapprovedStaysLowRisk
<1> QED
  BY <1>5, <1>7, <1>8, <1>9, <1>12 DEF BranchOwned

LEMMA ValidateKeepsInv ==
    ASSUME TypeOK, LaneInv, NEW r \in Runner, Validate(r)
    PROVE  LaneInv'
<1> USE DEF LaneInv
<1>1. CASE Leave(r)
  BY <1>1, LeaveKeepsInv DEF Validate
<1>2. CASE Proceed(r, "opening", written[r])
  <2>1. \A q \in Runner : q # r => Still(q)
    BY <1>2, OthersStill
  <2>2. /\ step[r] = "patching" /\ step'[r] = "opening" /\ branch'[r] = branch[r]
        /\ plan'[r] = plan[r] /\ human'[r] = human[r] /\ written'[r] = written[r]
    BY <1>2 DEF Validate, Proceed, TypeOK
  <2>3. RunAdmitted' /\ NoSharing'
    BY <2>1, <2>2 DEF RunAdmitted, NoSharing, Holding, Blocked, AutoPatch, Still
  <2>4. WholeWhenOpening'
    BY <2>1, <2>2 DEF Validate, WholeWhenOpening, Still
  <2>5. ASSUME NEW q \in Runner, Holding(q)' PROVE Owns(q)'
    <3>1. Holding(q) /\ Owns(q)
      BY <2>1, <2>2, <2>5 DEF Holding, Still, BranchOwned
    <3>2. CASE q = r
      <4>1. Written(r)' = Written(r)
        BY <2>2 DEF Written
      <4> QED
        BY <2>2, <3>1, <3>2, <4>1 DEF Owns, Validate, githubVars
    <3>3. CASE q # r
      BY <2>1, <3>1, <3>3, StillOwns DEF Owns, Validate, githubVars
    <3> QED
      BY <3>2, <3>3
  <2>6. NothingElsewhere' /\ ProtectedFilesUntouched' /\ UnapprovedStaysLowRisk'
    BY DEF Validate, NothingElsewhere, ProtectedFilesUntouched, UnapprovedStaysLowRisk, githubVars
  <2> QED
    BY <2>3, <2>4, <2>5, <2>6 DEF BranchOwned
<1> QED
  BY <1>1, <1>2 DEF Validate

LEMMA CreatePrKeepsInv ==
    ASSUME TypeOK, LaneInv, NEW r \in Runner, CreatePr(r)
    PROVE  LaneInv'
<1> USE DEF LaneInv
<1> DEFINE b == branch[r]
<1>1. /\ prs' = prs \cup {b} /\ UNCHANGED <<refs, commits, grant>>
      /\ step'[r] = "idle"
  BY DEF CreatePr, Leave, TypeOK
<1>2. Holding(r) /\ Owns(r)
  BY DEF CreatePr, Holding, BranchOwned
<1>3. \A q \in Runner \ {r} : Still(q)
  BY OthersStill DEF CreatePr
<1>4. RunAdmitted' /\ WholeWhenOpening' /\ NoSharing'
  BY <1>1, <1>3 DEF RunAdmitted, WholeWhenOpening, NoSharing, Holding, Blocked, AutoPatch, Still
<1>5. ASSUME NEW q \in Runner, Holding(q)' PROVE Owns(q)'
  <2>1. q # r /\ Still(q) /\ Holding(q)
    BY <1>1, <1>3, <1>5 DEF Holding, Still
  <2>2. Owns(q) /\ branch[q] # b
    BY <1>2, <2>1 DEF NoSharing, BranchOwned
  <2> QED
    BY <1>1, <2>1, <2>2, StillOwns DEF Owns
<1>6. NothingElsewhere' /\ ProtectedFilesUntouched' /\ UnapprovedStaysLowRisk'
  BY <1>1, <1>2 DEF NothingElsewhere, ProtectedFilesUntouched, UnapprovedStaysLowRisk, Owns
<1> QED
  BY <1>4, <1>5, <1>6 DEF BranchOwned

\* The clock moves no run.
LEMMA StillKeepsInv ==
    ASSUME TypeOK, LaneInv, UNCHANGED <<githubVars, runnerVars>>
    PROVE  LaneInv'
<1> USE DEF LaneInv
<1>1. \A q \in Runner : Still(q)
  BY DEF Still, runnerVars
<1>2. RunAdmitted' /\ NoSharing' /\ WholeWhenOpening'
  BY <1>1 DEF RunAdmitted, NoSharing, WholeWhenOpening, Holding, Blocked, AutoPatch, Still
<1>3. \A q \in Runner : Holding(q)' => Owns(q)'
  BY <1>1, StillOwns DEF BranchOwned, Holding, Owns, Still, githubVars
<1>4. NothingElsewhere' /\ ProtectedFilesUntouched' /\ UnapprovedStaysLowRisk'
  BY DEF NothingElsewhere, ProtectedFilesUntouched, UnapprovedStaysLowRisk, githubVars
<1> QED
  BY <1>2, <1>3, <1>4 DEF BranchOwned

(***************************************************************************)
(* The inductive invariant of the lane: a run owns the branch it holds.    *)
(***************************************************************************)
THEOREM LaneInvariant == Spec => []LaneInv
<1>1. Init => LaneInv
  <2> SUFFICES ASSUME Init PROVE LaneInv
    OBVIOUS
  <2>1. \A r \in Runner : step[r] = "idle"
    BY DEF Init
  <2>2. \A b \in Branch : commits[b] = {} /\ b \notin prs
    BY DEF Init
  <2> QED
    BY <2>1, <2>2 DEF LaneInv, RunAdmitted, BranchOwned, NoSharing, NothingElsewhere,
       WholeWhenOpening, Holding, ProtectedFilesUntouched, UnapprovedStaysLowRisk
<1>2. TypeOK /\ LaneInv /\ [Next]_vars => LaneInv'
  <2> SUFFICES ASSUME TypeOK, LaneInv, [Next]_vars PROVE LaneInv'
    OBVIOUS
  <2>1. ASSUME NEW r \in Runner, RequestFails(r) PROVE LaneInv'
    BY <2>1, LeaveKeepsInv DEF RequestFails
  <2>2. CASE Tick
    BY <2>2, StillKeepsInv DEF Tick
  <2>3. CASE UNCHANGED vars
    BY <2>3, StillKeepsInv DEF vars
  <2> QED
    BY <2>1, <2>2, <2>3, ClassifyKeepsInv, CreateBranchKeepsInv, UpsertFileKeepsInv,
       ValidateKeepsInv, CreatePrKeepsInv DEF Next, RunnerStep
<1> QED
  BY <1>1, <1>2, TypeCorrect, PTL DEF Spec

(***************************************************************************)
(* No commit of the lane touches a file that is protected under every path *)
(* to it, however paths and files are related.                             *)
(***************************************************************************)
THEOREM ProtectedTheorem == Spec => []ProtectedFilesUntouched
<1>1. LaneInv => ProtectedFilesUntouched
  BY DEF LaneInv
<1> QED
  BY <1>1, LaneInvariant, PTL

(***************************************************************************)
(* A branch no human approved carries plans with low-risk paths only, and  *)
(* files such a path leads to.                                             *)
(***************************************************************************)
THEOREM UnapprovedTheorem == Spec => []UnapprovedStaysLowRisk
<1>1. LaneInv => UnapprovedStaysLowRisk
  BY DEF LaneInv
<1> QED
  BY <1>1, LaneInvariant, PTL

-----------------------------------------------------------------------------
\* A run's branch is named after the class of its plan.
BranchNamed == \A r \in Runner : step[r] # "idle" => branch[r][1] = NameOf[ClassOf[plan[r]]]

\* What LaneInv does not say and pull requests need: the class of what is on a
\* branch is one its name stands for.
NamingInv == BranchNamed /\ PullRequestsAllowed

(***************************************************************************)
(* Every step keeps the names true: the approval of a branch is written    *)
(* when it is made, before there can be a pull request for it, and nobody  *)
(* commits to a branch under review.                                       *)
(***************************************************************************)
LEMMA NamingStep ==
    ASSUME TypeOK, LaneInv, NamingInv, [Next]_vars
    PROVE  NamingInv'
<1> USE DEF NamingInv
<1>1. ASSUME NEW r \in Runner, NEW p \in Plan, NEW approved \in BOOLEAN,
             Classify(r, p, approved)
      PROVE  NamingInv'
  <2>1. BranchNamed'
    BY <1>1 DEF Classify, BranchNamed, TypeOK
  <2> QED
    BY <1>1, <2>1 DEF Classify, githubVars, PullRequestsAllowed
<1>2. ASSUME NEW r \in Runner, NEW s, NEW n, Proceed(r, s, n) \/ Leave(r), step[r] # "idle"
      PROVE  BranchNamed'
  <2>1. \A q \in Runner \ {r} : Still(q)
    BY <1>2, OthersStill
  <2>2. \/ step'[r] = "idle"
        \/ branch'[r] = branch[r] /\ plan'[r] = plan[r]
    BY <1>2 DEF Proceed, Leave, TypeOK
  <2> QED
    BY <1>2, <2>1, <2>2 DEF BranchNamed, Still
<1>3. ASSUME NEW r \in Runner, CreateBranch(r) PROVE NamingInv'
  <2>1. branch[r] \notin prs /\ prs \subseteq Branch /\ branch[r] \in Branch
    BY <1>3 DEF CreateBranch, LaneInv, NothingElsewhere, TypeOK
  <2>2. \A b \in prs : grant'[b] = grant[b]
    BY <1>3, <2>1 DEF CreateBranch, TypeOK
  <2>3. BranchNamed'
    BY <1>2, <1>3 DEF CreateBranch
  <2> QED
    BY <1>3, <2>2, <2>3 DEF CreateBranch, PullRequestsAllowed
<1>4. ASSUME NEW r \in Runner, UpsertFile(r) PROVE NamingInv'
  <2>1. /\ branch[r] \notin prs /\ prs \subseteq Branch /\ branch[r] \in Branch
        /\ step[r] # "idle"
    BY <1>4 DEF UpsertFile, LaneInv, BranchOwned, Holding, Owns, TypeOK
  <2>2. commits' = [commits EXCEPT ![branch[r]] = @ \cup {NextCommit(r)}]
    BY <1>4 DEF UpsertFile
  <2>3. BranchNamed'
    BY <1>2, <1>4, <2>1 DEF UpsertFile
  <2>4. \A b \in prs : commits'[b] = commits[b]
    BY <2>1, <2>2 DEF TypeOK
  <2> QED
    BY <1>4, <2>3, <2>4 DEF UpsertFile, PullRequestsAllowed
<1>5. ASSUME NEW r \in Runner, Validate(r) \/ RequestFails(r) PROVE NamingInv'
  <2>1. BranchNamed'
    BY <1>2, <1>5 DEF Validate, RequestFails
  <2> QED
    BY <1>5, <2>1
    DEF Validate, RequestFails, githubVars, PullRequestsAllowed
<1>6. ASSUME NEW r \in Runner, CreatePr(r) PROVE NamingInv'
  <2>1. /\ step[r] = "opening" /\ branch[r] \in Branch /\ plan[r] \in Plan
        /\ prs' = prs \cup {branch[r]} /\ UNCHANGED <<commits, grant>>
    BY <1>6 DEF CreatePr, TypeOK
  <2>2. /\ branch[r][1] = NameOf[ClassOf[plan[r]]] /\ grant[branch[r]] = human[r]
        /\ commits[branch[r]] = Written(r)
    BY <2>1 DEF BranchNamed, LaneInv, BranchOwned, Holding, Owns
  <2>3. ~Blocked(plan[r]) /\ (AutoPatch(plan[r]) \/ human[r])
    BY <2>1 DEF LaneInv, RunAdmitted
  <2>4. /\ ClassOf[plan[r]] \notin BlockedClasses
        /\ grant[branch[r]] \/ ClassOf[plan[r]] \in AutoPatchClasses \ PrOnlyClasses
    BY <2>2, <2>3 DEF Blocked, AutoPatch
  <2>5. \A c \in commits[branch[r]] : c[1] = plan[r]
    BY <2>2 DEF Written
  <2>6. PullRequestsAllowed'
    BY <2>1, <2>2, <2>4, <2>5 DEF PullRequestsAllowed
  <2>7. BranchNamed'
    BY <1>2, <1>6, <2>1 DEF CreatePr
  <2> QED
    BY <2>6, <2>7
<1>7. CASE Tick
  BY <1>7 DEF Tick, githubVars, runnerVars, BranchNamed, PullRequestsAllowed
<1>8. CASE UNCHANGED vars
  BY <1>8 DEF vars, githubVars, runnerVars, BranchNamed, PullRequestsAllowed
<1> QED
  BY <1>1, <1>3, <1>4, <1>5, <1>6, <1>7, <1>8 DEF Next, RunnerStep

(***************************************************************************)
(* Every open pull request shows patches of the class it is named after,   *)
(* and that class needed no approval or the run had it.                    *)
(***************************************************************************)
THEOREM PullRequestTheorem == Spec => []PullRequestsAllowed
<1>1. Init => NamingInv
  BY DEF Init, NamingInv, BranchNamed, PullRequestsAllowed
<1>2. TypeOK /\ LaneInv /\ NamingInv /\ [Next]_vars => NamingInv'
  BY NamingStep
<1>3. NamingInv => PullRequestsAllowed
  BY DEF NamingInv
<1> QED
  BY <1>1, <1>2, <1>3, TypeCorrect, LaneInvariant, PTL DEF Spec

-----------------------------------------------------------------------------
\* A run about to open its pull request has committed the whole plan.
LEMMA WholePlan ==
    ASSUME TypeOK, LaneInv, NEW r \in Runner, step[r] = "opening"
    PROVE  commits[branch[r]] = Queue!Whole(plan[r])
<1>1. Owns(r) /\ written[r] = Len(PatchesOf[plan[r]]) /\ plan[r] \in Plan
  BY DEF LaneInv, BranchOwned, Holding, WholeWhenOpening, TypeOK
<1>2. PatchesOf[plan[r]] \in Seq(Path)
  BY <1>1, LaneAssumption
<1>3. DOMAIN PatchesOf[plan[r]] = 1..written[r]
  BY <1>1, <1>2
<1>4. Written(r) = Queue!Whole(plan[r])
  BY <1>3 DEF Written, Queue!Whole, FilesOf, PathsOf, Range
<1> QED
  BY <1>1, <1>4 DEF Owns

(***************************************************************************)
(* The lane implements ReviewQueue: opening a pull request submits a whole *)
(* plan, and no other step changes what the open ones show.                *)
(***************************************************************************)
THEOREM Refinement == Spec => ImplementsReviewQueue
<1>1. Init => Shown = {}
  BY DEF Init, Shown
<1>2. TypeOK /\ LaneInv /\ [Next]_vars
        => [\E b \in Branch, p \in Plan : Queue!Submit(b, p)]_Shown
  <2> SUFFICES ASSUME TypeOK, LaneInv, [Next]_vars
               PROVE  (\E b \in Branch, p \in Plan : Queue!Submit(b, p)) \/ Shown' = Shown
    OBVIOUS
  <2>1. ASSUME NEW r \in Runner, CreatePr(r)
        PROVE  \E b \in Branch, p \in Plan : Queue!Submit(b, p)
    <3>1. branch[r] \in Branch /\ plan[r] \in Plan
      BY <2>1 DEF CreatePr, TypeOK
    <3>2. \A x \in Shown : x.branch # branch[r]
      BY <2>1 DEF CreatePr, Shown
    <3>3. Shown' = Shown \cup {[branch |-> branch[r], content |-> commits[branch[r]]]}
      BY <2>1 DEF CreatePr, Shown
    <3>4. commits[branch[r]] = Queue!Whole(plan[r])
      BY <2>1, WholePlan DEF CreatePr
    <3>5. Queue!Submit(branch[r], plan[r])
      BY <3>2, <3>3, <3>4 DEF Queue!Submit
    <3> QED
      BY <3>1, <3>5
  <2>2. ASSUME NEW r \in Runner, UpsertFile(r) PROVE Shown' = Shown
    <3>1. branch[r] \notin prs /\ prs \subseteq Branch
      BY <2>2 DEF UpsertFile, LaneInv, BranchOwned, Holding, Owns, TypeOK
    <3>2. \A b \in prs : commits'[b] = commits[b]
      BY <2>2, <3>1 DEF UpsertFile, TypeOK
    <3> QED
      BY <2>2, <3>2 DEF UpsertFile, Shown
  <2>3. ASSUME UNCHANGED <<commits, prs>> PROVE Shown' = Shown
    BY <2>3 DEF Shown
  <2> QED
    BY <2>1, <2>2, <2>3 DEF Next, RunnerStep, Classify, CreateBranch, Validate, RequestFails,
       Tick, vars, githubVars
<1> QED
  BY <1>1, <1>2, TypeCorrect, LaneInvariant, PTL DEF Spec, ImplementsReviewQueue, Queue!Spec
=============================================================================
