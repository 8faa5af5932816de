--------------------------- MODULE SampleAppProofs ---------------------------
(* Theorems about SampleApp, for every set of concurrent runs, every file   *)
(* plan and every repair budget.                                           *)
EXTENDS SampleApp, TLAPS

USE RunAssumption, FileAssumption, QualityAssumption, BoundAssumption,
    NoneAssumption

-----------------------------------------------------------------------------
(* Type correctness.  A repair is only entered with budget left.           *)

BudgetLeft == \A r \in Runs : pc[r] = "repair" => round[r] < MaxRepairs

Typed == TypeOK /\ BudgetLeft

LEMMA TypeInit == Init => Typed
<1> SUFFICES ASSUME Init
             PROVE  Typed
  OBVIOUS
<1>1. NoFiles \in Trees
  BY DEF NoFiles, Trees
<1>2. OldTree \in Trees
  BY DEF OldTree, Trees, Content, Quality
<1>3. 0 \in Tags
  BY DEF Tags
<1>4. TypeOK
  <2>1. dir \in BOOLEAN /\ disk \in Trees /\ jar \in Trees \union {None}
    BY <1>1, <1>2 DEF Init
  <2>2. artifact \in Trees \union {None}
    BY <2>1 DEF Init
  <2>3. mem \in [Runs -> Trees] /\ pc \in [Runs -> Points]
    BY <1>1 DEF Init, Points
  <2>4. /\ image \in [Tags -> Trees \union {None}]
        /\ remote \in [Tags -> Trees \union {None}]
        /\ container \in [Runs -> Trees \union {None, Foreign}]
    BY DEF Init
  <2>5. /\ framework \in {"spring", "fastapi"}
        /\ tool \in BOOLEAN
        /\ dryRun \in BOOLEAN
        /\ clock \in Tags
        /\ tag \in [Runs -> Tags]
    BY <1>3 DEF Init
  <2>6. /\ todo \in [Runs -> SUBSET Files]
        /\ issues \in [Runs -> SUBSET Issues]
        /\ round \in [Runs -> 0..MaxRepairs]
        /\ notes \in [Runs -> SUBSET Codes]
        /\ success \in [Runs -> BOOLEAN]
        /\ cleanup \in [Runs -> SUBSET Cleanups]
        /\ starts \in [Runs -> Starts]
        /\ meddled \in [Runs -> BOOLEAN]
    BY DEF Init, Starts
  <2> QED
    BY <2>1, <2>2, <2>3, <2>4, <2>5, <2>6 DEF TypeOK
<1>5. BudgetLeft
  BY DEF Init, BudgetLeft
<1> QED
  BY <1>4, <1>5 DEF Typed

(* Whatever ends a run in an exception.                                    *)
LEMMA RaisedType ==
  ASSUME Typed, NEW r \in Runs, Raised(r), dir' \in BOOLEAN, disk' \in Trees,
         jar' \in Trees \union {None},
         remote' \in [Tags -> Trees \union {None}],
         container' \in [Runs -> Trees \union {None, Foreign}],
         meddled' \in [Runs -> BOOLEAN]
  PROVE  Typed'
<1>1. TypeOK'
  BY DEF Typed, TypeOK, Raised, Goto, Codes, Points, env
<1>2. BudgetLeft'
  BY DEF Typed, TypeOK, BudgetLeft, Raised, Goto
<1> QED
  BY <1>1, <1>2 DEF Typed

LEMMA TouchType ==
  ASSUME Typed, NEW r \in Runs, Touch(r)
  PROVE  meddled' \in [Runs -> BOOLEAN]
BY DEF Typed, TypeOK, Touch

LEMMA NewContentType ==
  ASSUME Typed, NEW r \in Runs, NEW q \in Qualities
  PROVE  NewContent(r, q) \in Content
BY DEF Typed, TypeOK, NewContent, Content

(* What a repair writes is content, of the next round at the latest.       *)
LEMMA RepairedType ==
  ASSUME Typed, NEW r \in Runs, pc[r] = "repair", NEW f \in Files,
         NEW content \in Repaired(r, f)
  PROVE  content \in Content \union {None}
<1>1. CASE f \in Templates
  BY <1>1 DEF Repaired, Typed, TypeOK, Trees
<1>2. CASE f \notin Templates
  <2>1. PICK q \in Qualities :
          content = [NewContent(r, q) EXCEPT !.round = @ + 1]
    BY <1>2 DEF Repaired
  <2>2. round[r] + 1 \in 0..MaxRepairs
    BY DEF Typed, TypeOK, BudgetLeft
  <2> QED
    BY <2>1, <2>2 DEF NewContent, Content
<1> QED
  BY <1>1, <1>2

LEMMA StoreType ==
  ASSUME Typed, NEW r \in Runs, NEW f \in Files,
         NEW content \in Content \union {None}, Store(r, f, content)
  PROVE  /\ disk' \in Trees
         /\ mem' \in [Runs -> Trees]
         /\ dir' \in BOOLEAN
         /\ meddled' \in [Runs -> BOOLEAN]
<1>1. [mem[r] EXCEPT ![f] = content] \in Trees
  BY DEF Typed, TypeOK, Trees
<1> QED
  BY <1>1, TouchType DEF Typed, TypeOK, Store, Trees

LEMMA LoadType ==
  ASSUME Typed, NEW r \in Runs, Load(r)
  PROVE  remote' \in [Tags -> Trees \union {None}]
BY DEF Typed, TypeOK, Load

LEMMA StartType ==
  ASSUME Typed, NEW r \in Runs, Start(r)
  PROVE  container' \in [Runs -> Trees \union {None, Foreign}]
BY DEF Typed, TypeOK, Start

(* The issues found, and where the graph goes with them.                   *)
LEMMA JudgedType ==
  ASSUME Typed, NEW r \in Runs, NEW found \in SUBSET Issues,
         NEW next \in {"choose", "repair", "done"}, Judged(r, found, next),
         next = "repair" => round[r] < MaxRepairs
  PROVE  /\ issues' \in [Runs -> SUBSET Issues]
         /\ todo' \in [Runs -> SUBSET Files]
         /\ pc' \in [Runs -> Points]
         /\ round' = round => BudgetLeft'
<1>1. /\ issues' \in [Runs -> SUBSET Issues]
      /\ todo' \in [Runs -> SUBSET Files]
  BY DEF Typed, TypeOK, Judged
<1>2. pc' \in [Runs -> Points]
  BY DEF Typed, TypeOK, Judged, Goto, Points, Active, Approved
<1>3. round' = round => BudgetLeft'
  BY DEF Typed, TypeOK, BudgetLeft, Judged, Goto
<1> QED
  BY <1>1, <1>2, <1>3

LEMMA BuildFailedType ==
  ASSUME Typed, NEW r \in Runs, NEW code \in Codes,
         NEW found \in SUBSET Issues, BuildFailed(r, code, found)
  PROVE  Typed'
<1> DEFINE next == RouteAfterPackaging(r, found)
<1>1. /\ next \in {"choose", "repair", "done"}
      /\ next = "repair" => round[r] < MaxRepairs
  BY DEF RouteAfterPackaging
<1>2. Judged(r, found, next)
  BY DEF BuildFailed
<1>3. /\ issues' \in [Runs -> SUBSET Issues]
      /\ todo' \in [Runs -> SUBSET Files]
      /\ pc' \in [Runs -> Points]
      /\ round' = round => BudgetLeft'
  BY <1>1, <1>2, JudgedType
<1>4. /\ notes' \in [Runs -> SUBSET Codes]
      /\ success' \in [Runs -> BOOLEAN]
  BY DEF Typed, TypeOK, BuildFailed, Note
<1>5. TypeOK'
  BY <1>3, <1>4 DEF Typed, TypeOK, BuildFailed, env, source, built, images
<1>6. BudgetLeft'
  BY <1>3 DEF BuildFailed
<1> QED
  BY <1>5, <1>6 DEF Typed

LEMMA DockerFailedType ==
  ASSUME Typed, NEW r \in Runs, NEW code \in Codes, DockerFailed(r, code),
         remote' \in [Tags -> Trees \union {None}],
         container' \in [Runs -> Trees \union {None, Foreign}],
         meddled' \in [Runs -> BOOLEAN]
  PROVE  Typed'
<1> DEFINE next == RouteAfterPackaging(r, issues[r])
<1>1. /\ next \in {"repair", "done"}
      /\ next = "repair" => round[r] < MaxRepairs
  BY DEF RouteAfterPackaging
<1>2. pc' = [pc EXCEPT ![r] = next] /\ round' = round
  BY DEF DockerFailed, Goto
<1>3. pc' \in [Runs -> Points] /\ BudgetLeft'
  BY <1>1, <1>2 DEF Typed, TypeOK, BudgetLeft, Points, Active
<1>4. /\ notes' \in [Runs -> SUBSET Codes]
      /\ success' \in [Runs -> BOOLEAN]
  BY DEF Typed, TypeOK, DockerFailed, Note
<1>5. TypeOK'
  BY <1>3, <1>4 DEF Typed, TypeOK, DockerFailed, env, source, built
<1> QED
  BY <1>3, <1>5 DEF Typed

LEMMA DeliveredType ==
  ASSUME Typed, NEW r \in Runs, Delivered(r)
  PROVE  /\ success' \in [Runs -> BOOLEAN]
         /\ cleanup' \in [Runs -> SUBSET Cleanups]
         /\ pc' \in [Runs -> Points]
         /\ round' = round => BudgetLeft'
<1>1. pc' \in [Runs -> Points] /\ (round' = round => BudgetLeft')
  BY DEF Typed, TypeOK, BudgetLeft, Delivered, Goto, Points
<1>2. /\ success' \in [Runs -> BOOLEAN]
      /\ cleanup' \in [Runs -> SUBSET Cleanups]
  BY DEF Typed, TypeOK, Delivered, Undo, Cleanups
<1> QED
  BY <1>1, <1>2

LEMMA GenerateType ==
  ASSUME Typed, NEW r \in Runs, Generate(r)
  PROVE  Typed'
<1>1. CASE Skip(r)
  <2>1. TypeOK'
    BY <1>1 DEF Typed, TypeOK, Skip, Note, Goto, Codes, Points, env, source,
                built, images
  <2>2. BudgetLeft'
    BY <1>1 DEF Typed, TypeOK, BudgetLeft, Skip, Goto
  <2> QED
    BY <2>1, <2>2 DEF Typed
<1>2. CASE PlanSpec(r)
  <2>1. TypeOK'
    BY <1>2 DEF Typed, TypeOK, PlanSpec, Goto, Points, env, source, built,
                images, report
  <2>2. BudgetLeft'
    BY <1>2 DEF Typed, TypeOK, BudgetLeft, PlanSpec, Goto
  <2> QED
    BY <2>1, <2>2 DEF Typed
<1>3. CASE ClearProject(r)
  <2>1. disk' \in Trees
    BY <1>3 DEF ClearProject, NoFiles, Trees
  <2>2. meddled' \in [Runs -> BOOLEAN]
    BY <1>3, TouchType DEF ClearProject
  <2>3. TypeOK'
    BY <1>3, <2>1, <2>2 DEF Typed, TypeOK, ClearProject, Goto, Points, Active,
                            env, images, report
  <2>4. BudgetLeft'
    BY <1>3 DEF Typed, TypeOK, BudgetLeft, ClearProject, Goto
  <2> QED
    BY <2>3, <2>4 DEF Typed
<1>4. CASE ClearProjectFails(r)
  <2>1. disk' \in Trees
    BY <1>4 DEF Typed, TypeOK, ClearProjectFails, Trees
  <2>2. meddled' \in [Runs -> BOOLEAN]
    BY <1>4, TouchType DEF ClearProjectFails
  <2> QED
    BY <1>4, <2>1, <2>2, RaisedType DEF Typed, TypeOK, ClearProjectFails
<1>5. CASE WriteSpec(r)
  <2>1. meddled' \in [Runs -> BOOLEAN]
    BY <1>5, TouchType DEF WriteSpec
  <2>2. TypeOK'
    BY <1>5, <2>1 DEF Typed, TypeOK, WriteSpec, Undo, Goto, Cleanups, Points,
                      Active, env, built, images
  <2>3. BudgetLeft'
    BY <1>5 DEF Typed, TypeOK, BudgetLeft, WriteSpec, Goto
  <2> QED
    BY <2>2, <2>3 DEF Typed
<1>6. ASSUME NEW f \in Files, WriteFile(r, f)
      PROVE  Typed'
  <2>1. PICK q \in Qualities : Store(r, f, NewContent(r, q))
    BY <1>6 DEF WriteFile
  <2>2. /\ disk' \in Trees
        /\ mem' \in [Runs -> Trees]
        /\ dir' \in BOOLEAN
        /\ meddled' \in [Runs -> BOOLEAN]
    BY <2>1, NewContentType, StoreType
  <2>3. TypeOK'
    BY <1>6, <2>2 DEF Typed, TypeOK, WriteFile, Goto, Points, Active, env,
                      built, images, report
  <2>4. BudgetLeft'
    BY <1>6 DEF Typed, TypeOK, BudgetLeft, WriteFile, Goto
  <2> QED
    BY <2>3, <2>4 DEF Typed
<1> QED
  BY <1>1, <1>2, <1>3, <1>4, <1>5, <1>6 DEF Generate

LEMMA RepairType ==
  ASSUME Typed, NEW r \in Runs, Repair(r)
  PROVE  Typed'
<1>1. CASE ValidateFiles(r)
  <2> DEFINE found == CodeValidator(r)
             next  == RouteAfterValidation(r, found)
  <2>1. found \in SUBSET Issues
    BY DEF CodeValidator, Issues
  <2>2. /\ next \in {"choose", "repair", "done"}
        /\ next = "repair" => round[r] < MaxRepairs
    BY DEF RouteAfterValidation
  <2>3. Judged(r, found, next)
    BY <1>1 DEF ValidateFiles
  <2>4. /\ issues' \in [Runs -> SUBSET Issues]
        /\ todo' \in [Runs -> SUBSET Files]
        /\ pc' \in [Runs -> Points]
        /\ round' = round => BudgetLeft'
    BY <2>1, <2>2, <2>3, JudgedType
  <2>5. TypeOK'
    BY <1>1, <2>4 DEF Typed, TypeOK, ValidateFiles, env, source, built, images,
                      report
  <2>6. BudgetLeft'
    BY <1>1, <2>4 DEF ValidateFiles
  <2> QED
    BY <2>5, <2>6 DEF Typed
<1>2. CASE EndRepair(r)
  <2>1. round' \in [Runs -> 0..MaxRepairs]
    BY <1>2 DEF Typed, TypeOK, BudgetLeft, EndRepair, At
  <2>2. TypeOK'
    BY <1>2, <2>1 DEF Typed, TypeOK, EndRepair, Goto, Points, Active, env,
                      source, built, images, report
  <2>3. BudgetLeft'
    BY <1>2 DEF Typed, TypeOK, BudgetLeft, EndRepair, Goto
  <2> QED
    BY <2>2, <2>3 DEF Typed
<1>3. ASSUME NEW f \in Files, RepairFile(r, f)
      PROVE  Typed'
  <2>1. PICK content \in Repaired(r, f) : Store(r, f, content)
    BY <1>3 DEF RepairFile
  <2>2. content \in Content \union {None}
    BY <1>3, RepairedType DEF RepairFile, At
  <2>3. /\ disk' \in Trees
        /\ mem' \in [Runs -> Trees]
        /\ dir' \in BOOLEAN
        /\ meddled' \in [Runs -> BOOLEAN]
    BY <2>1, <2>2, StoreType
  <2>4. TypeOK'
    BY <1>3, <2>3 DEF Typed, TypeOK, RepairFile, env, built, images, report
  <2>5. BudgetLeft'
    BY <1>3 DEF Typed, BudgetLeft, RepairFile
  <2> QED
    BY <2>4, <2>5 DEF Typed
<1> QED
  BY <1>1, <1>2, <1>3 DEF Repair

LEMMA BuildType ==
  ASSUME Typed, NEW r \in Runs, Build(r)
  PROVE  Typed'
<1>1. CASE ChooseCommand(r)
  <2>1. TypeOK'
    BY <1>1 DEF Typed, TypeOK, ChooseCommand, Goto, Points, Active, Approved,
                env, source, built, images, report
  <2>2. BudgetLeft'
    BY <1>1 DEF Typed, TypeOK, BudgetLeft, ChooseCommand, Goto
  <2> QED
    BY <2>1, <2>2 DEF Typed
<1>2. CASE RunBuild(r)
  <2>1. meddled' \in [Runs -> BOOLEAN]
    BY <1>2, TouchType DEF RunBuild
  <2>2. TypeOK'
    BY <1>2, <2>1 DEF Typed, TypeOK, RunBuild, Goto, Points, Active, Approved,
                      env, source, images, report
  <2>3. BudgetLeft'
    BY <1>2 DEF Typed, TypeOK, BudgetLeft, RunBuild, Goto
  <2> QED
    BY <2>2, <2>3 DEF Typed
<1>3. CASE BuildFails(r)
  <2>1. PICK found \in BuildIssues : BuildFailed(r, "E_BUILD_FAILED", found)
    BY <1>3 DEF BuildFails
  <2>2. found \in SUBSET Issues
    BY <2>1 DEF BuildIssues, Issues
  <2> QED
    BY <2>1, <2>2, BuildFailedType DEF Codes
<1>4. CASE BuildToolMissing(r)
  <2>1. {"project"} \in SUBSET Issues
    BY DEF Issues
  <2> QED
    BY <1>4, <2>1, BuildFailedType DEF BuildToolMissing, Codes
<1>5. CASE ArtifactMissing(r)
  <2>1. {"project"} \in SUBSET Issues
    BY DEF Issues
  <2> QED
    BY <1>5, <2>1, BuildFailedType DEF ArtifactMissing, Codes
<1>6. CASE CopyArtifact(r)
  <2>1. meddled' \in [Runs -> BOOLEAN]
    BY <1>6, TouchType DEF CopyArtifact
  <2>2. TypeOK'
    BY <1>6, <2>1 DEF Typed, TypeOK, CopyArtifact, Undo, Goto, Cleanups, Points,
                      Active, Approved, env, source
  <2>3. BudgetLeft'
    BY <1>6 DEF Typed, TypeOK, BudgetLeft, CopyArtifact, Goto
  <2> QED
    BY <2>2, <2>3 DEF Typed
<1> QED
  BY <1>1, <1>2, <1>3, <1>4, <1>5, <1>6 DEF Build

LEMMA DeployType ==
  ASSUME Typed, NEW r \in Runs, Deploy(r)
  PROVE  Typed'
<1>0. /\ remote \in [Tags -> Trees \union {None}]
      /\ container \in [Runs -> Trees \union {None, Foreign}]
      /\ meddled \in [Runs -> BOOLEAN]
  BY DEF Typed, TypeOK
<1>1. CASE RefuseTarget(r)
  BY <1>0, <1>1, DockerFailedType DEF RefuseTarget, Codes
<1>2. CASE DryRun(r)
  <2>1. /\ success' \in [Runs -> BOOLEAN]
        /\ cleanup' \in [Runs -> SUBSET Cleanups]
        /\ pc' \in [Runs -> Points]
        /\ round' = round => BudgetLeft'
    BY <1>2, DeliveredType DEF DryRun
  <2>2. TypeOK'
    BY <1>2, <2>1 DEF Typed, TypeOK, DryRun, env, source, built, images
  <2> QED
    BY <1>2, <2>1, <2>2 DEF Typed, DryRun
<1>3. CASE BuildImage(r)
  <2>1. meddled' \in [Runs -> BOOLEAN]
    BY <1>3, TouchType DEF BuildImage
  <2>2. image' \in [Tags -> Trees \union {None}]
    BY <1>3 DEF Typed, TypeOK, BuildImage
  <2>3. TypeOK'
    BY <1>3, <2>1, <2>2 DEF Typed, TypeOK, BuildImage, Goto, Points, Active,
                            Approved, env, source, built, report
  <2>4. BudgetLeft'
    BY <1>3 DEF Typed, TypeOK, BudgetLeft, BuildImage, Goto
  <2> QED
    BY <2>3, <2>4 DEF Typed
<1>4. CASE BuildImageFails(r)
  BY <1>0, <1>4, DockerFailedType DEF BuildImageFails, Codes
<1>5. CASE LoadImage(r)
  <2>1. /\ meddled' \in [Runs -> BOOLEAN]
        /\ remote' \in [Tags -> Trees \union {None}]
    BY <1>5, TouchType, LoadType DEF LoadImage
  <2>2. /\ success' \in [Runs -> BOOLEAN]
        /\ cleanup' \in [Runs -> SUBSET Cleanups]
        /\ pc' \in [Runs -> Points]
        /\ BudgetLeft'
    <3>1. CASE Goto(r, "run") /\ UNCHANGED <<success, cleanup>>
      BY <1>5, <3>1 DEF Typed, TypeOK, BudgetLeft, LoadImage, Goto, Points,
                        Active, Approved
    <3>2. CASE Delivered(r)
      BY <1>5, <3>2, DeliveredType DEF LoadImage
    <3> QED
      BY <1>5, <3>1, <3>2 DEF LoadImage
  <2>3. TypeOK'
    BY <1>5, <2>1, <2>2 DEF Typed, TypeOK, LoadImage, env, source, built
  <2> QED
    BY <2>2, <2>3 DEF Typed
<1>6. CASE LoadImageFails(r)
  <2>1. /\ meddled' \in [Runs -> BOOLEAN]
        /\ remote' \in [Tags -> Trees \union {None}]
    BY <1>0, <1>6, TouchType, LoadType DEF LoadImageFails
  <2> QED
    BY <1>0, <1>6, <2>1, DockerFailedType DEF LoadImageFails, Codes
<1>7. CASE StartContainer(r)
  <2>1. container' \in [Runs -> Trees \union {None, Foreign}]
    BY <1>7, StartType DEF StartContainer
  <2>2. /\ success' \in [Runs -> BOOLEAN]
        /\ cleanup' \in [Runs -> SUBSET Cleanups]
        /\ pc' \in [Runs -> Points]
        /\ round' = round => BudgetLeft'
    BY <1>7, DeliveredType DEF StartContainer
  <2>3. TypeOK'
    BY <1>7, <2>1, <2>2 DEF Typed, TypeOK, StartContainer, env, source, built,
                            images
  <2> QED
    BY <1>7, <2>2, <2>3 DEF Typed, StartContainer
<1>8. CASE StartContainerFails(r)
  <2>1. container' \in [Runs -> Trees \union {None, Foreign}]
    BY <1>0, <1>8, StartType DEF StartContainerFails
  <2> QED
    BY <1>0, <1>8, <2>1, DockerFailedType DEF StartContainerFails, Codes
<1>9. CASE LoadTimesOut(r)
  <2>1. /\ meddled' \in [Runs -> BOOLEAN]
        /\ remote' \in [Tags -> Trees \union {None}]
    BY <1>9, TouchType, LoadType DEF LoadTimesOut
  <2> QED
    BY <1>9, <2>1, RaisedType DEF Typed, TypeOK, LoadTimesOut
<1>10. CASE StartTimesOut(r)
  <2>1. container' \in [Runs -> Trees \union {None, Foreign}]
    BY <1>10, StartType DEF StartTimesOut
  <2> QED
    BY <1>10, <2>1, RaisedType DEF Typed, TypeOK, StartTimesOut
<1> QED
  BY <1>1, <1>2, <1>3, <1>4, <1>5, <1>6, <1>7, <1>8, <1>9, <1>10 DEF Deploy

LEMMA TypeStep == Typed /\ [Next]_vars => Typed'
<1> SUFFICES ASSUME Typed, [Next]_vars
             PROVE  Typed'
  OBVIOUS
<1>1. ASSUME NEW r \in Runs, Raises(r)
      PROVE  Typed'
  BY <1>1, RaisedType DEF Typed, TypeOK, Raises
<1>2. CASE Tick
  <2>1. clock' \in Tags
    BY <1>2 DEF Typed, TypeOK, Tick, Tags
  <2>2. TypeOK'
    BY <1>2, <2>1 DEF Typed, TypeOK, Tick, env, source, built, report
  <2>3. BudgetLeft'
    BY <1>2 DEF Typed, BudgetLeft, Tick
  <2> QED
    BY <2>2, <2>3 DEF Typed
<1>3. CASE UNCHANGED vars
  <2>1. TypeOK'
    BY <1>3 DEF Typed, TypeOK, vars, env, source, built, images, report
  <2>2. BudgetLeft'
    BY <1>3 DEF Typed, BudgetLeft, vars
  <2> QED
    BY <2>1, <2>2 DEF Typed
<1> QED
  BY <1>1, <1>2, <1>3, GenerateType, RepairType, BuildType, DeployType
     DEF Next, Step

LEMMA TypedAlways == Spec => []Typed
BY TypeInit, TypeStep, PTL DEF Spec

(* Type correctness; the repair round never exceeds the budget             *)
(* (_route_after_validation, _route_after_packaging).                      *)
THEOREM SampleTypeCorrect == Spec => []TypeOK
<1>1. Typed => TypeOK
  BY DEF Typed
<1> QED
  BY <1>1, TypedAlways, PTL

-----------------------------------------------------------------------------
(* A step of run q and the other runs: it leaves what is theirs alone, and *)
(* a run it leaves undisturbed finds all that is shared as it was.         *)

Own(r)   == <<pc[r], todo[r], mem[r], issues[r], round[r], notes[r],
              success[r], starts[r], tag[r], container[r]>>
Shared   == <<disk, jar, artifact, image, remote>>

LEMMA TouchOther ==
  ASSUME Typed, NEW q \in Runs, NEW r \in Runs, r # q, Touch(q)
  PROVE  /\ meddled[r] => meddled'[r]
         /\ pc[r] \in Active => meddled'[r]
BY DEF Typed, TypeOK, Touch

LEMMA OtherGenerates ==
  ASSUME Typed, NEW q \in Runs, NEW r \in Runs, r # q, Generate(q)
  PROVE  /\ Own(r)' = Own(r)
         /\ meddled[r] => meddled'[r]
         /\ pc[r] \in Active /\ ~meddled'[r] => Shared' = Shared
<1> DEFINE Left == /\ Own(r)' = Own(r)
                   /\ meddled[r] => meddled'[r]
                   /\ pc[r] \in Active /\ ~meddled'[r] => Shared' = Shared
<1>1. CASE Skip(q)
  BY <1>1 DEF Typed, TypeOK, Skip, Note, Goto, Own, Shared, env, source,
     built, images, report
<1>2. CASE PlanSpec(q)
  BY <1>2 DEF Typed, TypeOK, PlanSpec, Goto, Own, Shared, env, source, built,
     images, report
<1>3. CASE ClearProject(q)
  BY <1>3, TouchOther DEF Typed, TypeOK, ClearProject, Goto, Own, Shared, env,
     source, built, images, report
<1>4. CASE ClearProjectFails(q)
  BY <1>4, TouchOther DEF Typed, TypeOK, ClearProjectFails, Raised, Goto, Own,
     Shared, env, source, built, images, report
<1>5. CASE WriteSpec(q)
  BY <1>5, TouchOther DEF Typed, TypeOK, WriteSpec, Undo, Goto, Own, Shared,
     env, source, built, images, report
<1>6. ASSUME NEW f \in Files, WriteFile(q, f)
      PROVE  Left
  BY <1>6, TouchOther DEF Typed, TypeOK, WriteFile, Store, Goto, Own, Shared,
     env, source, built, images, report
<1> QED
  BY <1>1, <1>2, <1>3, <1>4, <1>5, <1>6 DEF Generate

LEMMA OtherRepairs ==
  ASSUME Typed, NEW q \in Runs, NEW r \in Runs, r # q, Repair(q)
  PROVE  /\ Own(r)' = Own(r)
         /\ meddled[r] => meddled'[r]
         /\ pc[r] \in Active /\ ~meddled'[r] => Shared' = Shared
<1> DEFINE Left == /\ Own(r)' = Own(r)
                   /\ meddled[r] => meddled'[r]
                   /\ pc[r] \in Active /\ ~meddled'[r] => Shared' = Shared
<1>1. CASE ValidateFiles(q)
  BY <1>1 DEF Typed, TypeOK, ValidateFiles, Judged, Goto, Own, Shared, env,
     source, built, images, report
<1>2. CASE EndRepair(q)
  BY <1>2 DEF Typed, TypeOK, EndRepair, Goto, Own, Shared, env, source, built,
     images, report
<1>3. ASSUME NEW f \in Files, RepairFile(q, f)
      PROVE  Left
  BY <1>3, TouchOther DEF Typed, TypeOK, RepairFile, Store, Own, Shared, env,
     source, built, images, report
<1> QED
  BY <1>1, <1>2, <1>3 DEF Repair

LEMMA OtherBuilds ==
  ASSUME Typed, NEW q \in Runs, NEW r \in Runs, r # q, Build(q)
  PROVE  /\ Own(r)' = Own(r)
         /\ meddled[r] => meddled'[r]
         /\ pc[r] \in Active /\ ~meddled'[r] => Shared' = Shared
<1> DEFINE Left == /\ Own(r)' = Own(r)
                   /\ meddled[r] => meddled'[r]
                   /\ pc[r] \in Active /\ ~meddled'[r] => Shared' = Shared
<1>1. CASE ChooseCommand(q)
  BY <1>1 DEF Typed, TypeOK, ChooseCommand, Goto, Own, Shared, env, source,
     built, images, report
<1>2. CASE RunBuild(q)
  BY <1>2, TouchOther DEF Typed, TypeOK, RunBuild, Goto, Own, Shared, env,
     source, built, images, report
<1>3. CASE BuildFails(q)
  BY <1>3 DEF Typed, TypeOK, BuildFails, BuildFailed, Judged, Note, Goto, Own,
     Shared, env, source, built, images, report
<1>4. CASE BuildToolMissing(q)
  BY <1>4 DEF Typed, TypeOK, BuildToolMissing, BuildFailed, Judged, Note,
     Goto, Own, Shared, env, source, built, images, report
<1>5. CASE ArtifactMissing(q)
  BY <1>5 DEF Typed, TypeOK, ArtifactMissing, BuildFailed, Judged, Note, Goto,
     Own, Shared, env, source, built, images, report
<1>6. CASE CopyArtifact(q)
  BY <1>6, TouchOther DEF Typed, TypeOK, CopyArtifact, Undo, Goto, Own,
     Shared, env, source, built, images, report
<1> QED
  BY <1>1, <1>2, <1>3, <1>4, <1>5, <1>6 DEF Build

LEMMA OtherDeploys ==
  ASSUME Typed, NEW q \in Runs, NEW r \in Runs, r # q, Deploy(q)
  PROVE  /\ Own(r)' = Own(r)
         /\ meddled[r] => meddled'[r]
         /\ pc[r] \in Active /\ ~meddled'[r] => Shared' = Shared
<1> DEFINE Left == /\ Own(r)' = Own(r)
                   /\ meddled[r] => meddled'[r]
                   /\ pc[r] \in Active /\ ~meddled'[r] => Shared' = Shared
<1>1. CASE RefuseTarget(q)
  BY <1>1 DEF Typed, TypeOK, RefuseTarget, DockerFailed, Note, Goto, Own,
     Shared, env, source, built, images, report
<1>2. CASE DryRun(q)
  BY <1>2 DEF Typed, TypeOK, DryRun, Delivered, Undo, Goto, Own, Shared, env,
     source, built, images, report
<1>3. CASE BuildImage(q)
  BY <1>3, TouchOther DEF Typed, TypeOK, BuildImage, Goto, Own, Shared, env,
     source, built, images, report
<1>4. CASE BuildImageFails(q)
  BY <1>4 DEF Typed, TypeOK, BuildImageFails, DockerFailed, Note, Goto, Own,
     Shared, env, source, built, images, report
<1>5. CASE LoadImage(q)
  BY <1>5, TouchOther DEF Typed, TypeOK, LoadImage, Load, Delivered, Undo,
     Goto, Own, Shared, env, source, built, images, report
<1>6. CASE LoadImageFails(q)
  BY <1>6, TouchOther DEF Typed, TypeOK, LoadImageFails, Load, DockerFailed,
     Note, Goto, Own, Shared, env, source, built, images, report
<1>7. CASE StartContainer(q)
  BY <1>7 DEF Typed, TypeOK, StartContainer, Start, Delivered, Undo, Goto, Own,
     Shared, env, source, built, images, report
<1>8. CASE StartContainerFails(q)
  BY <1>8 DEF Typed, TypeOK, StartContainerFails, Start, DockerFailed, Note,
     Goto, Own, Shared, env, source, built, images, report
<1>9. CASE LoadTimesOut(q)
  BY <1>9, TouchOther DEF Typed, TypeOK, LoadTimesOut, Load, Raised, Goto,
     Own, Shared, env, source, built, images, report
<1>10. CASE StartTimesOut(q)
  BY <1>10 DEF Typed, TypeOK, StartTimesOut, Start, Raised, Goto, Own, Shared,
     env, source, built, images, report
<1> QED
  BY <1>1, <1>2, <1>3, <1>4, <1>5, <1>6, <1>7, <1>8, <1>9, <1>10 DEF Deploy

LEMMA OtherSteps ==
  ASSUME Typed, NEW q \in Runs, NEW r \in Runs, r # q, Step(q)
  PROVE  /\ Own(r)' = Own(r)
         /\ meddled[r] => meddled'[r]
         /\ pc[r] \in Active /\ ~meddled'[r] => Shared' = Shared
<1>1. CASE Raises(q)
  BY <1>1 DEF Typed, TypeOK, Raises, Raised, Goto, Own, Shared
<1> QED
  BY <1>1, OtherGenerates, OtherRepairs, OtherBuilds, OtherDeploys DEF Step

-----------------------------------------------------------------------------
(* A run nobody disturbed has on disk what it has in memory, from the last *)
(* file it generated to the image that is built of them; no jar lies there *)
(* before it built one; and what it shipped is what it validated.          *)

OnDisk == {"validate", "repair", "choose", "build", "collect", "image"}

Undisturbed(r) ==
  /\ pc[r] \in {"spec", "write", "validate", "repair", "choose", "build"}
       => jar = None
  /\ pc[r] = "write" => \A f \in Files \ todo[r] : disk[f] = mem[r][f]
  /\ pc[r] \in OnDisk => disk = mem[r]
  /\ pc[r] = "collect" => jar \in {None, mem[r]}
  /\ pc[r] \in {"image", "ship", "run"} => artifact = mem[r]
  /\ pc[r] = "ship" => image[tag[r]] = mem[r]
  /\ pc[r] = "run" => remote[tag[r]] = mem[r]
  /\ starts[r] = "own" /\ container[r] # None => container[r] = mem[r]

Sound(r) ==
  /\ container[r] # None => pc[r] = "done"
  /\ ~meddled[r] => Undisturbed(r)

LEMMA SameTree ==
  ASSUME NEW t \in Trees, NEW u \in Trees, \A f \in Files : t[f] = u[f]
  PROVE  t = u
BY DEF Trees

LEMMA TouchSelf ==
  ASSUME Typed, NEW r \in Runs, Touch(r)
  PROVE  meddled'[r] = meddled[r]
BY DEF Typed, TypeOK, Touch

LEMMA SoundOther ==
  ASSUME Typed, NEW q \in Runs, NEW r \in Runs, r # q, Step(q), Sound(r)
  PROVE  Sound(r)'
<1>1. /\ Own(r)' = Own(r)
      /\ meddled[r] => meddled'[r]
      /\ pc[r] \in Active /\ ~meddled'[r] => Shared' = Shared
  BY OtherSteps
<1>2. CASE pc[r] \in Active
  BY <1>1, <1>2 DEF Sound, Undisturbed, Own, Shared
<1>3. CASE pc[r] \notin Active
  BY <1>1, <1>3 DEF Sound, Undisturbed, OnDisk, Own, Active, Approved
<1> QED
  BY <1>2, <1>3

LEMMA SoundGenerate ==
  ASSUME Typed, NEW r \in Runs, Generate(r), Sound(r)
  PROVE  Sound(r)'
<1>1. CASE Skip(r)
  BY <1>1 DEF Typed, TypeOK, Sound, Undisturbed, OnDisk, Skip, At, Goto, source,
     images
<1>2. CASE PlanSpec(r)
  BY <1>2 DEF Typed, TypeOK, Sound, Undisturbed, OnDisk, PlanSpec, At, Goto,
     source, images
<1>3. CASE ClearProject(r)
  BY <1>3, TouchSelf DEF Typed, TypeOK, Sound, Undisturbed, OnDisk, ClearProject,
     At, Goto
<1>4. CASE ClearProjectFails(r)
  BY <1>4, TouchSelf DEF Typed, TypeOK, Sound, Undisturbed, OnDisk,
     ClearProjectFails, At, Raised, Goto
<1>5. CASE WriteSpec(r)
  BY <1>5, TouchSelf DEF Typed, TypeOK, Sound, Undisturbed, OnDisk, WriteSpec,
     At, Goto, built
<1>6. ASSUME NEW f \in Files, WriteFile(r, f)
      PROVE  Sound(r)'
  <2>1. PICK q \in Qualities : Store(r, f, NewContent(r, q))
    BY <1>6 DEF WriteFile
  <2>2. disk' \in Trees /\ mem' \in [Runs -> Trees] /\ mem'[r] \in Trees
    BY <2>1, NewContentType, StoreType
  <2>3. meddled'[r] = meddled[r]
    BY <2>1, TouchSelf DEF Store
  <2>4. /\ disk'[f] = mem'[r][f]
        /\ \A g \in Files : g # f => /\ disk'[g] = disk[g]
                                     /\ mem'[r][g] = mem[r][g]
    BY <2>1 DEF Typed, TypeOK, Trees, Store
  <2>5. todo'[r] = todo[r] \ {f}
    BY <1>6 DEF Typed, TypeOK, WriteFile
  <2>6. ASSUME ~meddled[r]
        PROVE  /\ jar' = None
               /\ \A g \in Files \ todo'[r] : disk'[g] = mem'[r][g]
    BY <1>6, <2>4, <2>5, <2>6 DEF Sound, Undisturbed, WriteFile, At, built
  <2>7. container'[r] = None
    BY <1>6 DEF Sound, WriteFile, At
  <2>8. CASE todo[r] = {f}
    <3>1. pc'[r] = "validate" /\ todo'[r] = {}
      BY <1>6, <2>5, <2>8 DEF Typed, TypeOK, WriteFile, Goto
    <3>2. ~meddled[r] => disk' = mem'[r]
      BY <2>2, <2>6, <3>1, SameTree
    <3> QED
      BY <2>3, <2>6, <2>7, <3>1, <3>2 DEF Sound, Undisturbed
  <2>9. CASE todo[r] # {f}
    <3>1. pc'[r] = "write"
      BY <1>6, <2>9 DEF Typed, TypeOK, WriteFile, Goto
    <3> QED
      BY <2>3, <2>6, <2>7, <3>1 DEF Sound, Undisturbed, OnDisk
  <2> QED
    BY <2>8, <2>9
<1> QED
  BY <1>1, <1>2, <1>3, <1>4, <1>5, <1>6 DEF Generate

LEMMA SoundRepair ==
  ASSUME Typed, NEW r \in Runs, Repair(r), Sound(r)
  PROVE  Sound(r)'
<1>1. CASE ValidateFiles(r)
  <2>1. pc'[r] \in {"choose", "repair", "done"}
    BY <1>1 DEF Typed, TypeOK, ValidateFiles, Judged, Goto, RouteAfterValidation
  <2> QED
    BY <1>1, <2>1 DEF Sound, Undisturbed, OnDisk, ValidateFiles, At, source, built,
       images
<1>2. CASE EndRepair(r)
  BY <1>2 DEF Typed, TypeOK, Sound, Undisturbed, OnDisk, EndRepair, At, Goto,
     source, built, images
<1>3. ASSUME NEW f \in Files, RepairFile(r, f)
      PROVE  Sound(r)'
  <2>1. PICK content \in Repaired(r, f) : Store(r, f, content)
    BY <1>3 DEF RepairFile
  <2>2. meddled'[r] = meddled[r]
    BY <2>1, TouchSelf DEF Store
  <2>3. disk = mem[r] => disk' = mem'[r]
    BY <2>1 DEF Typed, TypeOK, Store
  <2> QED
    BY <1>3, <2>2, <2>3 DEF Sound, Undisturbed, OnDisk, RepairFile, At, built,
       images
<1> QED
  BY <1>1, <1>2, <1>3 DEF Repair

(* A failed build leads back to the sources or to the end.                 *)
LEMMA SoundBuildFailed ==
  ASSUME Typed, NEW r \in Runs, NEW code, NEW found, jar = None,
         pc[r] \in {"build", "collect"}, BuildFailed(r, code, found), Sound(r)
  PROVE  Sound(r)'
<1>1. pc'[r] \in {"repair", "done"}
  BY DEF Typed, TypeOK, BuildFailed, Judged, Goto, RouteAfterPackaging
<1> QED
  BY <1>1 DEF Sound, Undisturbed, OnDisk, BuildFailed, source, built, images

LEMMA SoundBuild ==
  ASSUME Typed, NEW r \in Runs, Build(r), Sound(r)
  PROVE  Sound(r)'
<1>1. CASE ChooseCommand(r)
  <2>1. pc'[r] \in {"build", "collect"}
    BY <1>1 DEF Typed, TypeOK, ChooseCommand, Goto
  <2> QED
    BY <1>1, <2>1 DEF Sound, Undisturbed, OnDisk, ChooseCommand, At, source, built,
       images
<1>2. CASE RunBuild(r)
  BY <1>2, TouchSelf DEF Typed, TypeOK, Sound, Undisturbed, OnDisk, RunBuild, At,
     Goto, source, images
<1>3. ASSUME NEW code, NEW found, At(r, "build"), BuildFailed(r, code, found)
      PROVE  Sound(r)'
  <2>1. CASE jar = None
    BY <1>3, <2>1, SoundBuildFailed DEF At
  <2>2. CASE jar # None
    <3>1. meddled[r] /\ meddled'[r]
      BY <1>3, <2>2 DEF Sound, Undisturbed, BuildFailed, At
    <3> QED
      BY <1>3, <3>1 DEF Sound, BuildFailed, At
  <2> QED
    BY <2>1, <2>2
<1>4. CASE BuildFails(r)
  BY <1>3, <1>4 DEF BuildFails
<1>5. CASE BuildToolMissing(r)
  BY <1>3, <1>5 DEF BuildToolMissing
<1>6. CASE ArtifactMissing(r)
  BY <1>6, SoundBuildFailed DEF ArtifactMissing, At
<1>7. CASE CopyArtifact(r)
  BY <1>7, TouchSelf DEF Typed, TypeOK, Sound, Undisturbed, OnDisk,
     CopyArtifact, At, Goto, source
<1> QED
  BY <1>1, <1>2, <1>4, <1>5, <1>6, <1>7 DEF Build

(* A failed deployment leads to the end: there are no issues to repair.    *)
LEMMA SoundDockerFailed ==
  ASSUME Typed, NEW r \in Runs, NEW code, pc[r] \in {"image", "ship", "run"},
         issues[r] = {}, DockerFailed(r, code), Sound(r),
         UNCHANGED container \/ (pc[r] = "run" /\ Start(r)),
         meddled'[r] = meddled[r]
  PROVE  Sound(r)'
<1>1. pc'[r] = "done" /\ mem'[r] = mem[r] /\ starts'[r] = starts[r]
  BY DEF Typed, TypeOK, DockerFailed, Goto, RouteAfterPackaging, source
<1>2. \/ container'[r] = container[r]
      \/ /\ pc[r] = "run"
         /\ starts[r] = "own" => container'[r] = remote[tag[r]]
  BY DEF Typed, TypeOK, Start
<1> QED
  BY <1>1, <1>2 DEF Sound, Undisturbed, OnDisk

LEMMA SoundDeploy ==
  ASSUME Typed, NEW r \in Runs, Deploy(r), Sound(r),
         pc[r] \in Approved => issues[r] = {}
  PROVE  Sound(r)'
<1>1. CASE RefuseTarget(r)
  BY <1>1, SoundDockerFailed DEF RefuseTarget, At, Approved
<1>2. CASE DryRun(r)
  BY <1>2 DEF Typed, TypeOK, Sound, Undisturbed, OnDisk, DryRun, At, Delivered,
     Goto, source
<1>3. CASE BuildImage(r)
  <2>1. image'[tag[r]] = disk
    BY <1>3 DEF Typed, TypeOK, BuildImage
  <2> QED
    BY <1>3, <2>1, TouchSelf DEF Typed, TypeOK, Sound, Undisturbed, OnDisk,
       BuildImage, At, Goto, source, built
<1>4. CASE BuildImageFails(r)
  BY <1>4, SoundDockerFailed DEF BuildImageFails, At, Approved
<1>5. CASE LoadImage(r)
  <2>1. remote'[tag[r]] = image[tag[r]]
    BY <1>5 DEF Typed, TypeOK, LoadImage, Load
  <2>2. pc'[r] \in {"run", "done"}
    BY <1>5 DEF Typed, TypeOK, LoadImage, Delivered, Goto
  <2> QED
    BY <1>5, <2>1, <2>2, TouchSelf DEF Sound, Undisturbed, OnDisk, LoadImage, At,
       source, built
<1>6. CASE LoadImageFails(r)
  <2>1. meddled'[r] = meddled[r]
    BY <1>6, TouchSelf DEF LoadImageFails
  <2> QED
    BY <1>6, <2>1, SoundDockerFailed DEF LoadImageFails, At, Approved
<1>7. CASE StartContainer(r)
  <2>1. /\ pc'[r] = "done" /\ mem' = mem /\ starts' = starts
        /\ meddled' = meddled /\ pc[r] = "run"
        /\ starts[r] = "own" => container'[r] = remote[tag[r]]
    BY <1>7 DEF Typed, TypeOK, StartContainer, Start, At, Delivered, Goto, source
  <2> QED
    BY <2>1 DEF Sound, Undisturbed, OnDisk
<1>8. CASE StartContainerFails(r)
  BY <1>8, SoundDockerFailed DEF StartContainerFails, At, Approved
<1>9. CASE LoadTimesOut(r)
  BY <1>9, TouchSelf DEF Typed, TypeOK, Sound, Undisturbed, OnDisk, LoadTimesOut,
     At, Raised, Goto
<1>10. CASE StartTimesOut(r)
  <2>1. /\ pc'[r] = "done" /\ mem' = mem /\ starts' = starts
        /\ meddled' = meddled /\ pc[r] = "run"
        /\ starts[r] = "own" => container'[r] = remote[tag[r]]
    BY <1>10 DEF Typed, TypeOK, StartTimesOut, Start, At, Raised, Goto
  <2> QED
    BY <2>1 DEF Sound, Undisturbed, OnDisk
<1> QED
  BY <1>1, <1>2, <1>3, <1>4, <1>5, <1>6, <1>7, <1>8, <1>9, <1>10 DEF Deploy

LEMMA SoundRaises ==
  ASSUME Typed, NEW r \in Runs, Raises(r), Sound(r)
  PROVE  Sound(r)'
BY DEF Typed, TypeOK, Sound, Undisturbed, OnDisk, Raises, Raised, Goto

-----------------------------------------------------------------------------
(* What a run may claim.  It goes on only with all its files written, it is *)
(* in the packaging only with sources nobody objects to, and what it works *)
(* with there exists; it claims success only at the end of that.           *)

Complete(r) == \A f \in Files : mem[r][f] # None

Accepted(r) ==
  /\ issues[r] = {}
  /\ \A f \in Files : /\ mem[r][f] # None
                      /\ mem[r][f].quality \notin {"flawed", "incomplete"}

Arrived(r) == dryRun \/ /\ remote[tag[r]] # None
                        /\ starts[r] # "no" => container[r] # None

Honest(r) ==
  /\ pc[r] = "idle" => round[r] = 0
  /\ success[r] \/ "skipped" \in notes[r] => pc[r] = "done"
  /\ pc[r] = "write" => \A f \in Files \ todo[r] : mem[r][f] # None
  /\ pc[r] \in {"validate", "repair"} => Complete(r)
  /\ pc[r] \in Approved => Accepted(r)
  /\ pc[r] = "ship" => image[tag[r]] # None
  /\ pc[r] = "run" => remote[tag[r]] # None
  /\ success[r] /\ "skipped" \notin notes[r] => Accepted(r) /\ Arrived(r)
  /\ pc[r] = "done" /\ ~success[r] => notes[r] # {} \/ issues[r] # {}

(* Images are never removed: a step leaves a tag that was there there.     *)
LEMMA ImagesStay ==
  ASSUME Typed, NEW q \in Runs, Step(q), Honest(q), NEW t \in Tags
  PROVE  /\ image[t] # None => image'[t] # None
         /\ remote[t] # None => remote'[t] # None
         /\ dryRun' = dryRun
<1>1. ASSUME NEW code, DockerFailed(q, code)
      PROVE  image' = image /\ dryRun' = dryRun
  BY <1>1 DEF DockerFailed, env
<1>2. ASSUME NEW code, NEW found, BuildFailed(q, code, found)
      PROVE  image' = image /\ remote' = remote /\ dryRun' = dryRun
  BY <1>2 DEF BuildFailed, env, images
<1>3. CASE Generate(q)
  BY <1>3 DEF Generate, Skip, PlanSpec, ClearProject, ClearProjectFails,
     Raised, WriteSpec, WriteFile, env, images
<1>4. CASE Repair(q)
  BY <1>4 DEF Repair, ValidateFiles, EndRepair, RepairFile, env, images
<1>5. CASE Build(q)
  BY <1>2, <1>5 DEF Build, ChooseCommand, RunBuild, BuildFails,
     BuildToolMissing, ArtifactMissing, CopyArtifact, env, images
<1>6. CASE Deploy(q)
  <2>1. CASE \/ RefuseTarget(q) \/ BuildImageFails(q) \/ StartContainerFails(q)
             \/ (LoadImageFails(q) /\ UNCHANGED remote)
    BY <1>1, <2>1 DEF RefuseTarget, BuildImageFails, LoadImageFails,
       StartContainerFails
  <2>2. CASE DryRun(q) \/ StartContainer(q) \/ StartTimesOut(q)
    BY <2>2 DEF DryRun, StartContainer, StartTimesOut, Raised, env, images
  <2>3. CASE BuildImage(q)
    <3>1. disk # None
      BY DEF Typed, TypeOK, Trees
    <3> QED
      BY <2>3, <3>1 DEF Typed, TypeOK, BuildImage, env
  <2>4. CASE \/ LoadImage(q) \/ LoadTimesOut(q)
             \/ (LoadImageFails(q) /\ Load(q))
    <3>1. image[tag[q]] # None
      BY <2>4 DEF Honest, LoadImage, LoadTimesOut, LoadImageFails, At
    <3>2. Load(q) /\ image' = image /\ dryRun' = dryRun
      BY <1>1, <2>4 DEF LoadImage, LoadTimesOut, LoadImageFails, Raised, env
    <3> QED
      BY <3>1, <3>2 DEF Typed, TypeOK, Load
  <2> QED
    <3>1. CASE LoadImageFails(q)
      <4>1. Load(q) \/ UNCHANGED remote
        BY <3>1 DEF LoadImageFails
      <4> QED
        BY <2>1, <2>4, <3>1, <4>1
    <3>2. CASE ~LoadImageFails(q)
      <4>1. CASE LoadImage(q) \/ LoadTimesOut(q)
        BY <2>4, <4>1
      <4>2. CASE RefuseTarget(q) \/ BuildImageFails(q) \/ StartContainerFails(q)
        BY <2>1, <4>2
      <4> QED
        BY <1>6, <2>2, <2>3, <3>2, <4>1, <4>2 DEF Deploy
    <3> QED
      BY <3>1, <3>2
<1>7. CASE Raises(q)
  BY <1>7 DEF Raises, Raised, env
<1> QED
  BY <1>3, <1>4, <1>5, <1>6, <1>7 DEF Step

LEMMA HonestOther ==
  ASSUME Typed, NEW q \in Runs, NEW r \in Runs, r # q, Step(q), Honest(q),
         Honest(r)
  PROVE  Honest(r)'
<1>1. /\ pc'[r] = pc[r] /\ todo'[r] = todo[r] /\ mem'[r] = mem[r]
      /\ issues'[r] = issues[r] /\ round'[r] = round[r]
      /\ notes'[r] = notes[r] /\ success'[r] = success[r]
      /\ starts'[r] = starts[r] /\ tag'[r] = tag[r]
      /\ container'[r] = container[r]
  BY OtherSteps DEF Own
<1>2. tag[r] \in Tags
  BY DEF Typed, TypeOK
<1>3. /\ image[tag[r]] # None => image'[tag'[r]] # None
      /\ remote[tag[r]] # None => remote'[tag'[r]] # None
      /\ dryRun' = dryRun
  BY <1>1, <1>2, ImagesStay
<1>4. /\ Complete(r) => Complete(r)'
      /\ Accepted(r) => Accepted(r)'
      /\ Arrived(r) => Arrived(r)'
  BY <1>1, <1>3 DEF Complete, Accepted, Arrived
<1> QED
  BY <1>1, <1>3, <1>4 DEF Honest

(* A run that ends in an exception claims nothing.                         *)
LEMMA HonestRaised ==
  ASSUME Typed, NEW r \in Runs, Raised(r)
  PROVE  Honest(r)'
<1>1. /\ pc'[r] = "done" /\ ~success'[r] /\ notes'[r] = {"exception"}
  BY DEF Typed, TypeOK, Raised, Goto
<1> QED
  BY <1>1 DEF Honest, Approved

LEMMA HonestGenerate ==
  ASSUME Typed, NEW r \in Runs, Generate(r), Honest(r)
  PROVE  Honest(r)'
<1> USE DEF Approved
<1>1. CASE Skip(r)
  <2>1. pc'[r] = "done" /\ success'[r] /\ "skipped" \in notes'[r]
    BY <1>1 DEF Typed, TypeOK, Skip, Note, Goto
  <2> QED
    BY <2>1 DEF Honest
<1>2. ASSUME NEW point \in {"clear", "spec"}, pc'[r] = point, pc[r] # "done",
             success' = success, notes' = notes
      PROVE  Honest(r)'
  BY <1>2 DEF Honest
<1>3. CASE PlanSpec(r)
  BY <1>2, <1>3 DEF Typed, TypeOK, PlanSpec, At, Goto, report
<1>4. CASE ClearProject(r)
  BY <1>2, <1>4 DEF Typed, TypeOK, ClearProject, At, Goto, report
<1>5. CASE ClearProjectFails(r)
  BY <1>5, HonestRaised DEF ClearProjectFails
<1>6. CASE WriteSpec(r)
  <2>1. /\ pc'[r] = "write" /\ todo'[r] = Files
        /\ success' = success /\ notes' = notes
    BY <1>6 DEF Typed, TypeOK, WriteSpec, Goto
  <2> QED
    BY <1>6, <2>1 DEF Honest, WriteSpec, At
<1>7. ASSUME NEW f \in Files, WriteFile(r, f)
      PROVE  Honest(r)'
  <2>1. PICK q \in Qualities : Store(r, f, NewContent(r, q))
    BY <1>7 DEF WriteFile
  <2>2. NewContent(r, q) # None
    BY NewContentType
  <2>3. /\ mem'[r][f] # None
        /\ \A g \in Files : g # f => mem'[r][g] = mem[r][g]
    BY <2>1, <2>2 DEF Typed, TypeOK, Trees, Store
  <2>4. todo'[r] = todo[r] \ {f}
    BY <1>7 DEF Typed, TypeOK, WriteFile
  <2>5. \A g \in Files \ todo'[r] : mem'[r][g] # None
    BY <1>7, <2>3, <2>4 DEF Honest, WriteFile, At
  <2>6. /\ pc'[r] = IF todo[r] = {f} THEN "validate" ELSE "write"
        /\ success' = success /\ notes' = notes
    BY <1>7 DEF Typed, TypeOK, WriteFile, Goto, report
  <2>7. todo[r] = {f} => Complete(r)'
    BY <2>4, <2>5 DEF Complete
  <2> QED
    BY <1>7, <2>5, <2>6, <2>7 DEF Honest, WriteFile, At
<1> QED
  BY <1>1, <1>3, <1>4, <1>5, <1>6, <1>7 DEF Generate

LEMMA HonestRepair ==
  ASSUME Typed, NEW r \in Runs, Repair(r), Honest(r)
  PROVE  Honest(r)'
<1> USE DEF Approved
<1>1. CASE ValidateFiles(r)
  <2> DEFINE found == CodeValidator(r)
  <2>1. /\ pc'[r] = RouteAfterValidation(r, found)
        /\ issues'[r] = found
        /\ mem' = mem /\ success' = success /\ notes' = notes
    BY <1>1 DEF Typed, TypeOK, ValidateFiles, Judged, Goto, source, report
  <2>2. Complete(r)'
    BY <1>1, <2>1 DEF Honest, Complete, ValidateFiles, At
  <2>3. pc'[r] \in {"choose", "repair", "done"}
    BY <2>1 DEF RouteAfterValidation
  <2>4. found = {} => Accepted(r)'
    BY <2>1, <2>2 DEF Accepted, Complete, CodeValidator
  <2>5. pc'[r] = "choose" <=> found = {}
    BY <2>1 DEF RouteAfterValidation
  <2>6. ~success'[r] /\ "skipped" \notin notes'[r]
    BY <1>1, <2>1 DEF Honest, ValidateFiles, At
  <2> HIDE DEF found
  <2> QED
    BY <2>1, <2>2, <2>3, <2>4, <2>5, <2>6 DEF Honest
<1>2. CASE EndRepair(r)
  <2>1. /\ pc'[r] = "validate"
        /\ mem' = mem /\ success' = success /\ notes' = notes
    BY <1>2 DEF Typed, TypeOK, EndRepair, Goto, source, report
  <2> QED
    BY <1>2, <2>1 DEF Honest, Complete, EndRepair, At
<1>3. ASSUME NEW f \in Files, RepairFile(r, f)
      PROVE  Honest(r)'
  <2>1. PICK content \in Repaired(r, f) : Store(r, f, content)
    BY <1>3 DEF RepairFile
  <2>2. pc[r] = "repair" /\ Complete(r)
    BY <1>3 DEF Honest, RepairFile, At
  <2>3. content # None
    <3>1. CASE f \in Templates
      BY <2>2, <3>1 DEF Repaired, Complete
    <3>2. CASE f \notin Templates
      <4>1. PICK q \in Qualities :
              content = [NewContent(r, q) EXCEPT !.round = @ + 1]
        BY <3>2 DEF Repaired
      <4>2. round[r] + 1 \in 0..MaxRepairs
        BY <2>2 DEF Typed, TypeOK, BudgetLeft
      <4>3. content \in Content
        BY <4>1, <4>2 DEF NewContent, Content
      <4> QED
        BY <4>3
    <3> QED
      BY <3>1, <3>2
  <2>4. Complete(r)'
    BY <2>1, <2>2, <2>3 DEF Typed, TypeOK, Trees, Store, Complete
  <2>5. pc' = pc /\ success' = success /\ notes' = notes
    BY <1>3 DEF RepairFile, report
  <2> QED
    BY <2>2, <2>4, <2>5 DEF Honest
<1> QED
  BY <1>1, <1>2, <1>3 DEF Repair

(* A step within the packaging that leaves the sources and the issues      *)
(* alone.                                                                  *)
LEMMA AcceptedStays ==
  ASSUME NEW r \in Runs, pc[r] \in Approved, Honest(r), mem' = mem,
         issues' = issues
  PROVE  Accepted(r) /\ Accepted(r)'
BY DEF Honest, Accepted

LEMMA HonestBuild ==
  ASSUME Typed, NEW r \in Runs, Build(r), Honest(r)
  PROVE  Honest(r)'
<1> USE DEF Approved
<1>1. ASSUME NEW point \in {"build", "collect", "image"}, pc'[r] = point,
             pc[r] \in Approved, mem' = mem, issues' = issues,
             success' = success, notes' = notes
      PROVE  Honest(r)'
  <2>1. Accepted(r)'
    BY <1>1, AcceptedStays
  <2> QED
    BY <1>1, <2>1 DEF Honest
<1>2. ASSUME NEW code \in Codes, code # "skipped", NEW found,
             pc[r] \in Approved, BuildFailed(r, code, found)
      PROVE  Honest(r)'
  <2>1. pc'[r] \in {"repair", "done"}
    BY <1>2 DEF Typed, TypeOK, BuildFailed, Judged, Goto, RouteAfterPackaging
  <2>2. Complete(r)'
    BY <1>2 DEF Honest, Accepted, Complete, BuildFailed, source
  <2>3. ~success'[r] /\ code \in notes'[r] /\ "skipped" \notin notes'[r]
    BY <1>2 DEF Typed, TypeOK, Honest, BuildFailed, Note
  <2> QED
    BY <2>1, <2>2, <2>3 DEF Honest
<1>3. CASE ChooseCommand(r)
  <2>1. pc'[r] \in {"build", "collect"}
    BY <1>3 DEF Typed, TypeOK, ChooseCommand, Goto
  <2> QED
    BY <1>1, <1>3, <2>1 DEF ChooseCommand, At, source, report
<1>4. CASE RunBuild(r)
  BY <1>1, <1>4 DEF Typed, TypeOK, RunBuild, At, Goto, source, report
<1>5. CASE BuildFails(r)
  BY <1>2, <1>5 DEF BuildFails, At, Codes
<1>6. CASE BuildToolMissing(r)
  BY <1>2, <1>6 DEF BuildToolMissing, At, Codes
<1>7. CASE ArtifactMissing(r)
  BY <1>2, <1>7 DEF ArtifactMissing, At, Codes
<1>8. CASE CopyArtifact(r)
  BY <1>1, <1>8 DEF Typed, TypeOK, CopyArtifact, At, Goto, source
<1> QED
  BY <1>3, <1>4, <1>5, <1>6, <1>7, <1>8 DEF Build

LEMMA HonestDeploy ==
  ASSUME Typed, NEW r \in Runs, Deploy(r), Honest(r)
  PROVE  Honest(r)'
<1> USE DEF Approved
<1>1. ASSUME NEW code \in Codes, code # "skipped",
             pc[r] \in {"image", "ship", "run"}, DockerFailed(r, code)
      PROVE  Honest(r)'
  <2>1. pc'[r] = "done"
    BY <1>1 DEF Typed, TypeOK, Honest, Accepted, DockerFailed, Goto,
       RouteAfterPackaging
  <2>2. ~success'[r] /\ code \in notes'[r] /\ "skipped" \notin notes'[r]
    BY <1>1 DEF Typed, TypeOK, Honest, DockerFailed, Note
  <2> QED
    BY <2>1, <2>2 DEF Honest
<1>2. ASSUME pc[r] \in {"image", "ship", "run"}, Delivered(r), mem' = mem,
             issues' = issues, notes' = notes, Arrived(r)'
      PROVE  Honest(r)'
  <2>1. Accepted(r)'
    BY <1>2, AcceptedStays
  <2>2. pc'[r] = "done" /\ success'[r] /\ "skipped" \notin notes'[r]
    BY <1>2 DEF Typed, TypeOK, Honest, Delivered, Goto
  <2> QED
    BY <1>2, <2>1, <2>2 DEF Honest
<1>3. tag[r] \in Tags /\ mem[r] \in Trees
  BY DEF Typed, TypeOK
<1>4. CASE RefuseTarget(r) \/ BuildImageFails(r) \/ LoadImageFails(r)
           \/ StartContainerFails(r)
  BY <1>1, <1>4 DEF RefuseTarget, BuildImageFails, LoadImageFails,
     StartContainerFails, At, Codes
<1>5. CASE DryRun(r)
  <2>1. Arrived(r)'
    BY <1>5 DEF DryRun, Arrived, env
  <2> QED
    BY <1>2, <1>5, <2>1 DEF DryRun, At, source
<1>6. CASE BuildImage(r)
  <2>1. disk # None
    BY DEF Typed, TypeOK, Trees
  <2>2. pc'[r] = "ship" /\ image'[tag'[r]] # None
    BY <1>3, <1>6, <2>1 DEF Typed, TypeOK, BuildImage, Goto
  <2>3. Accepted(r)'
    BY <1>6, AcceptedStays DEF BuildImage, At, source
  <2>4. ~success'[r] /\ "skipped" \notin notes'[r]
    BY <1>6 DEF Honest, BuildImage, At, report
  <2> QED
    BY <2>2, <2>3, <2>4 DEF Honest
<1>7. CASE LoadImage(r)
  <2>1. remote'[tag'[r]] # None
    BY <1>3, <1>7 DEF Typed, TypeOK, Honest, LoadImage, Load, At
  <2>2. CASE starts[r] # "no" /\ Goto(r, "run") /\ UNCHANGED <<success, cleanup>>
    <3>1. pc'[r] = "run"
      BY <2>2 DEF Typed, TypeOK, Goto
    <3>2. Accepted(r)'
      BY <1>7, AcceptedStays DEF LoadImage, At, source
    <3>3. ~success'[r] /\ "skipped" \notin notes'[r]
      BY <1>7, <2>2 DEF Honest, LoadImage, At
    <3> QED
      BY <2>1, <3>1, <3>2, <3>3 DEF Honest
  <2>3. CASE starts[r] = "no" /\ Delivered(r)
    <3>1. Arrived(r)'
      BY <1>7, <2>1, <2>3 DEF Arrived, LoadImage
    <3> QED
      BY <1>2, <1>7, <2>3, <3>1 DEF LoadImage, At, source
  <2> QED
    BY <1>7, <2>2, <2>3 DEF LoadImage
<1>8. CASE StartContainer(r)
  <2>1. container'[r] # None /\ remote'[tag'[r]] # None
    BY <1>8, NoneAssumption DEF Typed, TypeOK, Honest, StartContainer, Start, At,
       images
  <2> QED
    BY <1>2, <1>8, <2>1 DEF StartContainer, Arrived, At, source
<1>9. CASE LoadTimesOut(r) \/ StartTimesOut(r)
  BY <1>9, HonestRaised DEF LoadTimesOut, StartTimesOut
<1> QED
  BY <1>4, <1>5, <1>6, <1>7, <1>8, <1>9 DEF Deploy

LEMMA HonestStep ==
  ASSUME Typed, NEW r \in Runs, Honest(r), Step(r)
  PROVE  Honest(r)'
<1>1. CASE Raises(r)
  BY <1>1, HonestRaised DEF Raises
<1> QED
  BY <1>1, HonestGenerate, HonestRepair, HonestBuild, HonestDeploy DEF Step

-----------------------------------------------------------------------------
(* The invariant of the agent.                                             *)

RunsInv == Typed /\ \A r \in Runs : Sound(r) /\ Honest(r)

LEMMA RunsInit == Init => RunsInv
<1> SUFFICES ASSUME Init
             PROVE  RunsInv
  OBVIOUS
<1>1. Typed
  BY TypeInit
<1>2. ASSUME NEW r \in Runs
      PROVE  Sound(r) /\ Honest(r)
  <2>1. /\ pc[r] = "idle" /\ round[r] = 0 /\ ~success[r] /\ notes[r] = {}
        /\ container[r] = None
    BY DEF Init
  <2>2. Sound(r)
    BY <2>1 DEF Sound, Undisturbed, OnDisk
  <2>3. Honest(r)
    BY <2>1 DEF Honest, Approved
  <2> QED
    BY <2>2, <2>3
<1> QED
  BY <1>1, <1>2 DEF RunsInv

LEMMA RunsStep == RunsInv /\ [Next]_vars => RunsInv'
<1> SUFFICES ASSUME RunsInv, [Next]_vars
             PROVE  RunsInv'
  OBVIOUS
<1>1. Typed /\ Typed'
  BY TypeStep DEF RunsInv
<1>2. ASSUME NEW q \in Runs, Step(q), NEW r \in Runs
      PROVE  Sound(r)' /\ Honest(r)'
  <2>1. Sound(r) /\ Honest(r) /\ Honest(q)
    BY DEF RunsInv
  <2>2. CASE r = q
    <3>1. pc[r] \in Approved => issues[r] = {}
      BY <2>1 DEF Honest, Accepted
    <3> QED
      BY <1>1, <1>2, <2>1, <2>2, <3>1, HonestStep, SoundGenerate, SoundRepair,
         SoundBuild, SoundDeploy, SoundRaises DEF Step
  <2>3. CASE r # q
    BY <1>1, <1>2, <2>1, <2>3, HonestOther, SoundOther
  <2> QED
    BY <2>2, <2>3
<1>3. ASSUME Tick \/ UNCHANGED vars, NEW r \in Runs
      PROVE  Sound(r)' /\ Honest(r)'
  <2>1. Sound(r) /\ Honest(r)
    BY DEF RunsInv
  <2>2. /\ pc' = pc /\ todo' = todo /\ mem' = mem /\ issues' = issues
        /\ round' = round /\ notes' = notes /\ success' = success
        /\ starts' = starts /\ tag' = tag /\ container' = container
        /\ dryRun' = dryRun /\ disk' = disk /\ jar' = jar
        /\ artifact' = artifact /\ image' = image /\ remote' = remote
        /\ meddled' = meddled
    BY <1>3 DEF Tick, vars, env, source, built, images, report
  <2>3. Sound(r)'
    BY <2>1, <2>2 DEF Sound, Undisturbed
  <2>4. Honest(r)'
    BY <2>1, <2>2 DEF Honest, Complete, Accepted, Arrived
  <2> QED
    BY <2>3, <2>4
<1> QED
  BY <1>1, <1>2, <1>3 DEF RunsInv, Next

LEMMA RunsCorrect == Spec => []RunsInv
BY RunsInit, RunsStep, PTL DEF Spec

(* What an undisturbed run archives and starts is what it validated last    *)
(* (generate_files, repair_files, build_code, docker_build).               *)
THEOREM ShipsWhatItValidated == Spec => []ShippedIsValidated
<1>1. RunsInv => ShippedIsValidated
  BY DEF RunsInv, Sound, Undisturbed, ShippedIsValidated
<1> QED
  BY <1>1, RunsCorrect, PTL

(* However runs with one application id disturb each other, one that        *)
(* reports success left no issue open and has its image on the target      *)
(* (_package_artifacts, tools.docker_build).                               *)
THEOREM SuccessIsEarned == Spec => []SuccessIsDelivered
<1>1. RunsInv => SuccessIsDelivered
  BY DEF RunsInv, Honest, Accepted, Arrived, SuccessIsDelivered
<1> QED
  BY <1>1, RunsCorrect, PTL

(* A run that ends without success has a note or an open issue to show for *)
(* it (_package_artifacts, run).                                           *)
THEOREM FailureIsAccountedFor == Spec => []FailureIsReasoned
<1>1. RunsInv => FailureIsReasoned
  BY DEF RunsInv, Honest, FailureIsReasoned
<1> QED
  BY <1>1, RunsCorrect, PTL

-----------------------------------------------------------------------------
(* The agent implements BoundedRepair.                                     *)

Drafting == {"idle", "clear", "spec", "write", "validate"}

LEMMA StageOf ==
  ASSUME NEW r \in Runs
  PROVE  /\ pc[r] \in Drafting => Stage(r) = "draft"
         /\ pc[r] = "repair" => Stage(r) = "rejected"
         /\ pc[r] \in Approved => Stage(r) = "approved"
         /\ pc[r] = "done" =>
              Stage(r) = IF "skipped" \in notes[r] THEN "skipped"
                         ELSE IF success[r] THEN "delivered" ELSE "failed"
BY DEF Drafting, Approved, Stage

(* One run takes one step of BoundedRepair, or none.                       *)
Moves(r, from, to) == Stage(r) \in from /\ Stage(r)' = to

Advance(r) ==
  \/ Moves(r, {"draft"}, "skipped") /\ round[r] = 0 /\ round' = round
  \/ Moves(r, {"draft"}, "approved") /\ round' = round
  \/ /\ Moves(r, {"draft", "approved"}, "rejected")
     /\ round[r] < MaxRepairs /\ round' = round
  \/ Moves(r, {"rejected"}, "draft") /\ round' = [round EXCEPT ![r] = @ + 1]
  \/ Moves(r, {"approved"}, "delivered") /\ round' = round
  \/ Moves(r, {"draft", "approved", "rejected"}, "failed") /\ round' = round
  \/ Stage(r)' = Stage(r) /\ round' = round

LEMMA StageOfNext ==
  ASSUME NEW r \in Runs
  PROVE  /\ pc'[r] \in Drafting => Stage(r)' = "draft"
         /\ pc'[r] = "repair" => Stage(r)' = "rejected"
         /\ pc'[r] \in Approved => Stage(r)' = "approved"
         /\ pc'[r] = "done" =>
              Stage(r)' = IF "skipped" \in notes'[r] THEN "skipped"
                          ELSE IF success'[r] THEN "delivered" ELSE "failed"
BY DEF Drafting, Approved, Stage

LEMMA RaisedAdvances ==
  ASSUME Typed, NEW r \in Runs, Raised(r), pc[r] # "done"
  PROVE  Advance(r)
<1>1. /\ pc'[r] = "done" /\ "skipped" \notin notes'[r] /\ ~success'[r]
      /\ round' = round
  BY DEF Typed, TypeOK, Raised, Goto
<1>2. pc[r] \in Drafting \union {"repair"} \union Approved
  BY DEF Typed, TypeOK, Points, Active, Drafting
<1> QED
  BY <1>1, <1>2, StageOf, StageOfNext DEF Advance, Moves

LEMMA GenerateAdvances ==
  ASSUME Typed, NEW r \in Runs, Generate(r), Honest(r)
  PROVE  Advance(r)
<1>1. CASE Skip(r)
  <2>1. /\ pc[r] = "idle" /\ round[r] = 0 /\ round' = round
        /\ pc'[r] = "done" /\ "skipped" \in notes'[r]
    BY <1>1 DEF Typed, TypeOK, Honest, Skip, At, Goto, Note
  <2> QED
    BY <2>1, StageOf, StageOfNext DEF Advance, Moves, Drafting
<1>2. CASE ClearProjectFails(r)
  BY <1>2, RaisedAdvances DEF ClearProjectFails, At
<1>3. CASE \/ PlanSpec(r) \/ ClearProject(r) \/ WriteSpec(r)
           \/ \E f \in Files : WriteFile(r, f)
  <2>1. pc[r] \in Drafting /\ pc'[r] \in Drafting /\ round' = round
    BY <1>3 DEF Typed, TypeOK, PlanSpec, ClearProject, WriteSpec, WriteFile,
       At, Goto, Drafting
  <2> QED
    BY <2>1, StageOf, StageOfNext DEF Advance
<1> QED
  BY <1>1, <1>2, <1>3 DEF Generate

LEMMA RepairAdvances ==
  ASSUME Typed, NEW r \in Runs, Repair(r), Honest(r)
  PROVE  Advance(r)
<1>1. CASE ValidateFiles(r)
  <2> DEFINE found == CodeValidator(r)
  <2>1. /\ pc[r] = "validate"
        /\ pc'[r] = RouteAfterValidation(r, found)
        /\ round' = round /\ notes' = notes /\ success' = success
    BY <1>1 DEF Typed, TypeOK, ValidateFiles, Judged, At, Goto, report
  <2>2. "skipped" \notin notes[r] /\ ~success[r]
    BY <2>1 DEF Honest
  <2> HIDE DEF found
  <2>3. \/ pc'[r] = "choose"
        \/ pc'[r] = "repair" /\ round[r] < MaxRepairs
        \/ pc'[r] = "done"
    BY <2>1 DEF RouteAfterValidation
  <2> QED
    BY <2>1, <2>2, <2>3, StageOf, StageOfNext
       DEF Advance, Moves, Drafting, Approved
<1>2. CASE EndRepair(r)
  <2>1. /\ pc[r] = "repair" /\ pc'[r] = "validate"
        /\ round' = [round EXCEPT ![r] = @ + 1]
    BY <1>2 DEF Typed, TypeOK, EndRepair, At, Goto
  <2> QED
    BY <2>1, StageOf, StageOfNext DEF Advance, Moves, Drafting
<1>3. CASE \E f \in Files : RepairFile(r, f)
  <2>1. pc[r] = "repair" /\ pc'[r] = "repair" /\ round' = round
    BY <1>3 DEF RepairFile, At
  <2> QED
    BY <2>1, StageOf, StageOfNext DEF Advance
<1> QED
  BY <1>1, <1>2, <1>3 DEF Repair

LEMMA BuildAdvances ==
  ASSUME Typed, NEW r \in Runs, Build(r), Honest(r)
  PROVE  Advance(r)
<1>1. ASSUME NEW code \in Codes, code # "skipped", NEW found,
             pc[r] \in Approved, BuildFailed(r, code, found)
      PROVE  Advance(r)
  <2>1. "skipped" \notin notes[r]
    BY <1>1 DEF Honest, Approved
  <2>2. "skipped" \notin notes'[r] /\ ~success'[r] /\ round' = round
    BY <1>1, <2>1 DEF Typed, TypeOK, BuildFailed, Note
  <2>3. \/ pc'[r] = "repair" /\ round[r] < MaxRepairs
        \/ pc'[r] = "done"
    BY <1>1 DEF Typed, TypeOK, BuildFailed, Judged, Goto, RouteAfterPackaging
  <2> QED
    BY <1>1, <2>2, <2>3, StageOf, StageOfNext DEF Advance, Moves
<1>2. CASE ChooseCommand(r) \/ RunBuild(r) \/ CopyArtifact(r)
  <2>1. pc[r] \in Approved /\ pc'[r] \in Approved /\ round' = round
    BY <1>2 DEF Typed, TypeOK, ChooseCommand, RunBuild, CopyArtifact, At, Goto,
       Approved
  <2> QED
    BY <2>1, StageOf, StageOfNext DEF Advance
<1>3. CASE BuildFails(r)
  BY <1>1, <1>3 DEF BuildFails, At, Codes, Approved
<1>4. CASE BuildToolMissing(r)
  BY <1>1, <1>4 DEF BuildToolMissing, At, Codes, Approved
<1>5. CASE ArtifactMissing(r)
  BY <1>1, <1>5 DEF ArtifactMissing, At, Codes, Approved
<1> QED
  BY <1>2, <1>3, <1>4, <1>5 DEF Build

LEMMA DeployAdvances ==
  ASSUME Typed, NEW r \in Runs, Deploy(r), Honest(r)
  PROVE  Advance(r)
<1>1. ASSUME NEW code \in Codes, code # "skipped", pc[r] \in Approved,
             DockerFailed(r, code)
      PROVE  Advance(r)
  <2>1. pc'[r] = "done" /\ round' = round /\ ~success'[r]
    BY <1>1 DEF Typed, TypeOK, Honest, Accepted, DockerFailed, Goto,
       RouteAfterPackaging
  <2>2. "skipped" \notin notes'[r]
    BY <1>1 DEF Typed, TypeOK, Honest, Approved, DockerFailed, Note
  <2> QED
    BY <1>1, <2>1, <2>2, StageOf, StageOfNext DEF Advance, Moves
<1>2. ASSUME pc[r] \in Approved, Delivered(r), notes' = notes, round' = round
      PROVE  Advance(r)
  <2>1. pc'[r] = "done" /\ success'[r] /\ "skipped" \notin notes'[r]
    BY <1>2 DEF Typed, TypeOK, Honest, Approved, Delivered, Goto
  <2> QED
    BY <1>2, <2>1, StageOf, StageOfNext DEF Advance, Moves
<1>3. CASE RefuseTarget(r) \/ BuildImageFails(r) \/ LoadImageFails(r)
           \/ StartContainerFails(r)
  BY <1>1, <1>3 DEF RefuseTarget, BuildImageFails, LoadImageFails,
     StartContainerFails, At, Codes, Approved
<1>4. CASE DryRun(r) \/ StartContainer(r)
  BY <1>2, <1>4 DEF DryRun, StartContainer, At, Approved
<1>5. CASE BuildImage(r)
  <2>1. pc[r] = "image" /\ pc'[r] = "ship" /\ round' = round
    BY <1>5 DEF Typed, TypeOK, BuildImage, At, Goto
  <2> QED
    BY <2>1, StageOf, StageOfNext DEF Advance, Approved
<1>6. CASE LoadImage(r)
  <2>1. pc[r] = "ship" /\ notes' = notes /\ round' = round
    BY <1>6 DEF LoadImage, At
  <2>2. CASE Goto(r, "run")
    <3>1. pc'[r] = "run"
      BY <2>2 DEF Typed, TypeOK, Goto
    <3> QED
      BY <2>1, <3>1, StageOf, StageOfNext DEF Advance, Approved
  <2>3. CASE Delivered(r)
    BY <1>2, <2>1, <2>3 DEF Approved
  <2> QED
    BY <1>6, <2>2, <2>3 DEF LoadImage
<1>7. CASE LoadTimesOut(r) \/ StartTimesOut(r)
  BY <1>7, RaisedAdvances DEF LoadTimesOut, StartTimesOut, At
<1> QED
  BY <1>3, <1>4, <1>5, <1>6, <1>7 DEF Deploy

LEMMA DraftStep == RunsInv /\ [Next]_vars => [Draft!Next]_(Draft!vars)
<1> SUFFICES ASSUME RunsInv, [Next]_vars
             PROVE  [Draft!Next]_(Draft!vars)
  OBVIOUS
<1> DEFINE stages == [r \in Runs |-> Stage(r)]
<1>1. ASSUME NEW r \in Runs, Step(r)
      PROVE  [Draft!Next]_(Draft!vars)
  <2>1. Typed /\ Honest(r)
    BY DEF RunsInv
  <2>2. Advance(r)
    BY <1>1, <2>1, RaisedAdvances, GenerateAdvances, RepairAdvances,
       BuildAdvances, DeployAdvances DEF Step, Raises
  <2>3. ASSUME NEW q \in Runs, q # r
        PROVE  Stage(q)' = Stage(q)
    BY <1>1, <2>1, <2>3, OtherSteps DEF Own, Stage
  <2>4. stages' = [stages EXCEPT ![r] = Stage(r)']
    BY <2>3
  <2>5. stages[r] = Stage(r)
    OBVIOUS
  <2> HIDE DEF stages
  <2>6. CASE Stage(r)' = Stage(r) /\ round' = round
    <3>1. stages' = stages
      BY <2>4, <2>5, <2>6 DEF stages
    <3> QED
      BY <2>6, <3>1 DEF Draft!vars, stages
  <2>7. CASE ~(Stage(r)' = Stage(r) /\ round' = round)
    <3>1. Draft!Step(r)
      BY <2>2, <2>4, <2>5, <2>7 DEF Advance, Moves, Draft!Step, Draft!Skip,
         Draft!Approve, Draft!Reject, Draft!Revise, Draft!Deliver, Draft!Fail,
         Draft!Move, stages
    <3> QED
      BY <3>1 DEF Draft!Next
  <2> QED
    BY <2>6, <2>7
<1>2. ASSUME Tick \/ UNCHANGED vars
      PROVE  UNCHANGED Draft!vars
  <2>1. pc' = pc /\ notes' = notes /\ success' = success /\ round' = round
    BY <1>2 DEF Tick, vars, report
  <2>2. \A r \in Runs : Stage(r)' = Stage(r)
    BY <2>1 DEF Stage
  <2> QED
    BY <2>1, <2>2 DEF Draft!vars
<1> QED
  BY <1>1, <1>2 DEF Next

(* Each run drafts, judges, revises and delivers as BoundedRepair allows:   *)
(* nothing is packaged before it was approved, revised before it was       *)
(* rejected, or revised more often than the budget says.                   *)
THEOREM ImplementsDraft == Spec => Draft!Safety
<1>1. Init => Draft!Init
  <2> SUFFICES ASSUME Init
               PROVE  Draft!Init
    OBVIOUS
  <2>1. \A r \in Runs : Stage(r) = "draft"
    BY StageOf DEF Init, Drafting
  <2> QED
    BY <2>1 DEF Init, Draft!Init
<1> QED
  BY <1>1, RunsCorrect, DraftStep, PTL DEF Spec, Draft!Safety
-----------------------------------------------------------------------------
(* What a run leaves behind.  Its own record: what it wrote bears its name, *)
(* and what it made is on its cleanup list unless an exception took that.  *)

Booked(r) ==
  /\ "exception" \in notes[r] => pc[r] = "done"
  /\ pc[r] \in Active \ {"spec"} => "project" \in cleanup[r]
  /\ \A f \in Files : mem[r][f] # None => mem[r][f].by = r
  /\ container[r] # None => \/ "image" \in cleanup[r] \/ TargetStepFailed(r)
                            \/ "exception" \in notes[r]

(* Its traces in what the runs share.                                      *)
Traced(r) ==
  /\ Mine(r, disk) => "project" \in cleanup[r] \/ "exception" \in notes[r]
  /\ Mine(r, artifact) => \/ "artifact" \in cleanup[r]
                          \/ "exception" \in notes[r]
                          \/ \E q \in Runs : meddled[q]
  /\ (\E t \in Tags : Mine(r, remote[t])) =>
       \/ pc[r] = "run" \/ "image" \in cleanup[r] \/ TargetStepFailed(r)
       \/ "exception" \in notes[r]
       \/ \E q \in Runs : meddled[q]

(* While runs do not mix their files, a run at work finds none of another   *)
(* run, not even of one that has ended.                                    *)
Apart ==
  (\A x \in Runs : ~meddled[x]) =>
    \A q, r \in Runs :
      q # r /\ pc[q] \in Active =>
        /\ ~Mine(r, disk) /\ ~Mine(r, jar)
        /\ pc[q] = "ship" => ~Mine(r, image[tag[q]])

Leftovers == Apart /\ \A r \in Runs : Booked(r) /\ Traced(r)

LEMMA NotDone ==
  ASSUME NEW r \in Runs, Step(r)
  PROVE  pc[r] # "done"
BY DEF Step, Generate, Repair, Build, Deploy, Raises, Skip, PlanSpec,
   ClearProject, ClearProjectFails, WriteSpec, WriteFile, ValidateFiles,
   EndRepair, RepairFile, ChooseCommand, RunBuild, BuildFails, BuildToolMissing,
   ArtifactMissing, CopyArtifact, RefuseTarget, DryRun, BuildImage,
   BuildImageFails, LoadImage, LoadImageFails, StartContainer,
   StartContainerFails, LoadTimesOut, StartTimesOut, At

(* The step of a run keeps its record, and its list only grows.            *)
Books(r) == /\ Booked(r)'
            /\ \/ /\ cleanup[r] \subseteq cleanup'[r]
                  /\ notes[r] \subseteq notes'[r]
               \/ "exception" \in notes'[r]

LEMMA BooksQuiet ==
  ASSUME Typed, NEW r \in Runs, Booked(r), pc[r] # "done",
         mem'[r] = mem[r], container'[r] = container[r],
         cleanup[r] \subseteq cleanup'[r], notes[r] \subseteq notes'[r],
         "exception" \notin notes'[r],
         pc[r] \in Active \ {"spec"} \/ pc'[r] \notin Active \ {"spec"}
  PROVE  Books(r)
BY DEF Books, Booked, TargetStepFailed

LEMMA BooksRaised ==
  ASSUME Typed, NEW r \in Runs, Booked(r), Raised(r)
  PROVE  Books(r)
<1>1. /\ "exception" \in notes'[r] /\ pc'[r] = "done" /\ mem' = mem
  BY DEF Typed, TypeOK, Raised, Goto
<1>2. "done" \notin Active
  BY DEF Active, Approved
<1> QED
  BY <1>1, <1>2 DEF Books, Booked

(* Before its end a run has no exception among its notes.                  *)
LEMMA NoteBooks ==
  ASSUME Typed, NEW r \in Runs, Booked(r), pc[r] # "done", NEW code \in Codes,
         code # "exception", Note(r, code) \/ UNCHANGED notes
  PROVE  "exception" \notin notes'[r] /\ notes[r] \subseteq notes'[r]
BY DEF Typed, TypeOK, Booked, Note

LEMMA GenerateBooks ==
  ASSUME Typed, NEW r \in Runs, Generate(r), Booked(r), pc[r] # "done"
  PROVE  Books(r)
<1>1. CASE Skip(r) \/ PlanSpec(r) \/ ClearProject(r)
  <2>1. "exception" \notin notes'[r] /\ notes[r] \subseteq notes'[r]
    BY <1>1, NoteBooks DEF Skip, PlanSpec, ClearProject, Codes, report
  <2>2. pc'[r] \notin Active \ {"spec"}
    BY <1>1 DEF Typed, TypeOK, Skip, PlanSpec, ClearProject, Goto, Active,
       Approved
  <2> QED
    BY <1>1, <2>1, <2>2, BooksQuiet
    DEF Skip, PlanSpec, ClearProject, source, report
<1>2. CASE ClearProjectFails(r)
  BY <1>2, BooksRaised DEF ClearProjectFails
<1>3. CASE WriteSpec(r)
  <2>1. /\ cleanup'[r] = cleanup[r] \union {"project"}
        /\ mem' = mem /\ container' = container /\ notes' = notes
        /\ pc[r] = "spec"
    BY <1>3 DEF Typed, TypeOK, WriteSpec, Undo, At
  <2> QED
    BY <2>1 DEF Books, Booked, TargetStepFailed
<1>4. ASSUME NEW f \in Files, WriteFile(r, f)
      PROVE  Books(r)
  <2>1. PICK q \in Qualities : Store(r, f, NewContent(r, q))
    BY <1>4 DEF WriteFile
  <2>2. /\ mem'[r] = [mem[r] EXCEPT ![f] = NewContent(r, q)]
        /\ NewContent(r, q).by = r
    BY <2>1 DEF Typed, TypeOK, Store, NewContent
  <2>3. \A g \in Files : mem'[r][g] # None => mem'[r][g].by = r
    BY <2>2 DEF Typed, TypeOK, Trees, Booked
  <2>4. pc[r] = "write" /\ UNCHANGED <<cleanup, notes, container>>
    BY <1>4 DEF WriteFile, At, report
  <2> QED
    BY <2>3, <2>4 DEF Books, Booked, TargetStepFailed, Active
<1> QED
  BY <1>1, <1>2, <1>3, <1>4 DEF Generate

(* What a repair writes is the run's own.                                  *)
LEMMA RepairedBy ==
  ASSUME Typed, NEW r \in Runs, Booked(r), NEW f \in Files,
         NEW content \in Repaired(r, f)
  PROVE  content = None \/ content.by = r
<1>1. CASE f \in Templates
  BY <1>1 DEF Repaired, Booked
<1>2. CASE f \notin Templates
  <2>1. PICK q \in Qualities :
          content = [NewContent(r, q) EXCEPT !.round = @ + 1]
    BY <1>2 DEF Repaired
  <2> QED
    BY <2>1 DEF NewContent
<1> QED
  BY <1>1, <1>2

LEMMA RepairBooks ==
  ASSUME Typed, NEW r \in Runs, Repair(r), Booked(r), pc[r] # "done"
  PROVE  Books(r)
<1>1. CASE ValidateFiles(r) \/ EndRepair(r)
  <2>1. /\ pc[r] \in {"validate", "repair"}
        /\ UNCHANGED <<mem, container, cleanup, notes>>
    BY <1>1 DEF ValidateFiles, EndRepair, At, source, report
  <2> QED
    BY <2>1, BooksQuiet DEF Booked, Active
<1>2. ASSUME NEW f \in Files, RepairFile(r, f)
      PROVE  Books(r)
  <2>1. PICK content \in Repaired(r, f) : Store(r, f, content)
    BY <1>2 DEF RepairFile
  <2>2. content = None \/ content.by = r
    BY <2>1, RepairedBy
  <2>3. mem'[r] = [mem[r] EXCEPT ![f] = content]
    BY <2>1 DEF Typed, TypeOK, Store
  <2>4. \A g \in Files : mem'[r][g] # None => mem'[r][g].by = r
    BY <2>2, <2>3 DEF Typed, TypeOK, Trees, Booked
  <2>5. pc[r] = "repair" /\ UNCHANGED <<cleanup, notes, container>>
    BY <1>2 DEF RepairFile, At, report
  <2> QED
    BY <2>4, <2>5 DEF Books, Booked, TargetStepFailed, Active
<1> QED
  BY <1>1, <1>2 DEF Repair

LEMMA BuildBooks ==
  ASSUME Typed, NEW r \in Runs, Build(r), Booked(r), pc[r] # "done"
  PROVE  Books(r)
<1>1. pc[r] \in Active \ {"spec"}
  BY DEF Build, ChooseCommand, RunBuild, BuildFails, BuildToolMissing,
     ArtifactMissing, CopyArtifact, At, Active, Approved
<1>2. UNCHANGED <<mem, container>>
  BY DEF Build, ChooseCommand, RunBuild, BuildFails, BuildToolMissing,
     ArtifactMissing, CopyArtifact, BuildFailed, source
<1>3. cleanup[r] \subseteq cleanup'[r]
  BY DEF Typed, TypeOK, Build, ChooseCommand, RunBuild, BuildFails,
     BuildToolMissing, ArtifactMissing, CopyArtifact, BuildFailed, Undo, report
<1>4. \E code \in Codes : code # "exception" /\ (Note(r, code) \/ UNCHANGED notes)
  <2>1. \/ UNCHANGED notes
        \/ \E code \in {"E_BUILD_FAILED", "E_BUILD_TOOL_MISSING",
                        "E_ARTIFACT_MISSING"} : Note(r, code)
    BY DEF Build, ChooseCommand, RunBuild, BuildFails, BuildToolMissing,
       ArtifactMissing, CopyArtifact, BuildFailed, report
  <2> QED
    BY <2>1 DEF Codes
<1> QED
  BY <1>1, <1>2, <1>3, <1>4, NoteBooks, BooksQuiet

LEMMA DeployBooks ==
  ASSUME Typed, NEW r \in Runs, Deploy(r), Booked(r), pc[r] # "done"
  PROVE  Books(r)
<1>1. pc[r] \in Active \ {"spec"}
  BY DEF Deploy, RefuseTarget, DryRun, BuildImage, BuildImageFails, LoadImage,
     LoadImageFails, StartContainer, StartContainerFails, LoadTimesOut,
     StartTimesOut, At, Active, Approved
<1>2. CASE LoadTimesOut(r) \/ StartTimesOut(r)
  BY <1>2, BooksRaised DEF LoadTimesOut, StartTimesOut
<1>3. CASE StartContainer(r)
  <2>1. /\ cleanup'[r] = cleanup[r] \union {"image"}
        /\ UNCHANGED <<mem, notes>> /\ pc'[r] = "done"
    BY <1>3 DEF Typed, TypeOK, StartContainer, Delivered, Undo, Goto, source
  <2> QED
    BY <1>1, <2>1 DEF Books, Booked, Active, Approved
<1>4. CASE \/ RefuseTarget(r) \/ DryRun(r) \/ BuildImage(r) \/ BuildImageFails(r)
           \/ LoadImage(r) \/ LoadImageFails(r)
  <2>1. UNCHANGED <<mem, container>>
    BY <1>4 DEF RefuseTarget, DryRun, BuildImage, BuildImageFails, LoadImage,
       LoadImageFails, DockerFailed, source
  <2>2. cleanup[r] \subseteq cleanup'[r]
    BY <1>4 DEF Typed, TypeOK, RefuseTarget, DryRun, BuildImage, BuildImageFails,
       LoadImage, LoadImageFails, DockerFailed, Delivered, Undo, report
  <2>3. \E code \in Codes : code # "exception" /\ (Note(r, code) \/ UNCHANGED notes)
    <3>1. \/ UNCHANGED notes
          \/ \E code \in {"E_TARGET", "E_DOCKER_BUILD", "E_DOCKER_LOAD"} :
               Note(r, code)
      BY <1>4 DEF RefuseTarget, DryRun, BuildImage, BuildImageFails, LoadImage,
         LoadImageFails, DockerFailed, report
    <3> QED
      BY <3>1 DEF Codes
  <2> QED
    BY <1>1, <2>1, <2>2, <2>3, NoteBooks, BooksQuiet
<1>5. CASE StartContainerFails(r)
  <2>1. mem' = mem /\ cleanup' = cleanup /\ Note(r, "E_DOCKER_RUN")
    BY <1>5 DEF StartContainerFails, DockerFailed, source
  <2>2. /\ "exception" \notin notes'[r] /\ notes[r] \subseteq notes'[r]
        /\ "E_DOCKER_RUN" \in notes'[r]
    BY <2>1, NoteBooks DEF Codes, Note, Typed, TypeOK
  <2> QED
    BY <1>1, <2>1, <2>2 DEF Books, Booked, TargetStepFailed
<1> QED
  BY <1>2, <1>3, <1>4, <1>5 DEF Deploy

LEMMA BooksStep ==
  ASSUME Typed, NEW r \in Runs, Step(r), Booked(r)
  PROVE  Books(r)
<1>1. CASE Raises(r)
  BY <1>1, BooksRaised DEF Raises
<1> QED
  BY <1>1, NotDone, GenerateBooks, RepairBooks, BuildBooks, DeployBooks DEF Step
(* What a step does to the images: the local one that is about to be loaded *)
(* is made of the project directory, and only a load changes the target.   *)
LEMMA RemoteEffect ==
  ASSUME NEW q \in Runs, Step(q)
  PROVE  remote' = remote \/ (pc[q] = "ship" /\ Load(q))
<1>1. CASE Generate(q)
  BY <1>1 DEF Generate, Skip, PlanSpec, ClearProject, ClearProjectFails,
     WriteSpec, WriteFile, images
<1>2. CASE Repair(q)
  BY <1>2 DEF Repair, ValidateFiles, EndRepair, RepairFile, images
<1>3. CASE Build(q)
  BY <1>3 DEF Build, ChooseCommand, RunBuild, BuildFails, BuildToolMissing,
     ArtifactMissing, CopyArtifact, BuildFailed, images
<1>4. CASE Deploy(q)
  BY <1>4 DEF Deploy, RefuseTarget, DryRun, BuildImage, BuildImageFails,
     LoadImage, LoadImageFails, StartContainer, StartContainerFails,
     LoadTimesOut, StartTimesOut, At, images
<1>5. CASE Raises(q)
  BY <1>5 DEF Raises
<1> QED
  BY <1>1, <1>2, <1>3, <1>4, <1>5 DEF Step

LEMMA ShipsDisk ==
  ASSUME Typed, NEW q \in Runs, Step(q), pc'[q] = "ship"
  PROVE  pc[q] \in Active /\ image'[tag'[q]] = disk
<1>1. CASE Generate(q)
  BY <1>1 DEF Typed, TypeOK, Generate, Skip, PlanSpec, ClearProject,
     ClearProjectFails, Raised, WriteSpec, WriteFile, Goto
<1>2. CASE Repair(q)
  BY <1>2 DEF Typed, TypeOK, Repair, ValidateFiles, EndRepair, RepairFile,
     Judged, RouteAfterValidation, At, Goto
<1>3. CASE Build(q)
  BY <1>3 DEF Typed, TypeOK, Build, ChooseCommand, RunBuild, BuildFails,
     BuildToolMissing, ArtifactMissing, CopyArtifact, BuildFailed, Judged,
     RouteAfterPackaging, Goto
<1>4. CASE BuildImage(q)
  BY <1>4 DEF Typed, TypeOK, BuildImage, At, Goto, Active, Approved
<1>5. CASE Deploy(q) /\ ~BuildImage(q)
  BY <1>5 DEF Typed, TypeOK, Deploy, RefuseTarget, DryRun, BuildImageFails,
     LoadImage, LoadImageFails, StartContainer, StartContainerFails,
     LoadTimesOut, StartTimesOut, DockerFailed, RouteAfterPackaging, Delivered,
     Raised, At, Goto
<1>6. CASE Raises(q)
  BY <1>6 DEF Typed, TypeOK, Raises, Raised, Goto
<1> QED
  BY <1>1, <1>2, <1>3, <1>4, <1>5, <1>6 DEF Step

(* A step on the target ends with the image listed, with the failure noted  *)
(* or in an exception, or it leads to docker run.                          *)
LEMMA TargetStep ==
  ASSUME Typed, NEW r \in Runs, Step(r), pc[r] \in {"ship", "run"}
  PROVE  \/ pc'[r] = "run" \/ "image" \in cleanup'[r]
         \/ TargetStepFailed(r)' \/ "exception" \in notes'[r]
<1>1. CASE LoadImage(r)
  BY <1>1 DEF Typed, TypeOK, LoadImage, Delivered, Undo, Goto
<1>2. CASE LoadImageFails(r) \/ StartContainerFails(r)
  BY <1>2 DEF Typed, TypeOK, LoadImageFails, StartContainerFails, DockerFailed,
     Note, TargetStepFailed
<1>3. CASE StartContainer(r)
  BY <1>3 DEF Typed, TypeOK, StartContainer, Delivered, Undo
<1>4. CASE LoadTimesOut(r) \/ StartTimesOut(r) \/ Raises(r)
  BY <1>4 DEF Typed, TypeOK, LoadTimesOut, StartTimesOut, Raises, Raised
<1>5. ~Generate(r) /\ ~Repair(r) /\ ~Build(r)
  BY DEF Generate, Skip, PlanSpec, ClearProject, ClearProjectFails, WriteSpec,
     WriteFile, Repair, ValidateFiles, EndRepair, RepairFile, Build,
     ChooseCommand, RunBuild, BuildFails, BuildToolMissing, ArtifactMissing,
     CopyArtifact, At
<1>6. ~RefuseTarget(r) /\ ~DryRun(r) /\ ~BuildImage(r) /\ ~BuildImageFails(r)
  BY DEF RefuseTarget, DryRun, BuildImage, BuildImageFails, At
<1> QED
  BY <1>1, <1>2, <1>3, <1>4, <1>5, <1>6 DEF Step, Deploy

LEMMA CleanupOther ==
  ASSUME Typed, NEW q \in Runs, NEW r \in Runs, r # q, Step(q)
  PROVE  cleanup'[r] = cleanup[r]
<1>1. cleanup' = cleanup \/ (\E x : cleanup' = [cleanup EXCEPT ![q] = x])
  <2>1. CASE Generate(q)
    BY <2>1 DEF Generate, Skip, PlanSpec, ClearProject, ClearProjectFails,
       WriteSpec, WriteFile, Undo, Raised, report
  <2>2. CASE Repair(q)
    BY <2>2 DEF Repair, ValidateFiles, EndRepair, RepairFile, report
  <2>3. CASE Build(q)
    BY <2>3 DEF Build, ChooseCommand, RunBuild, BuildFails, BuildToolMissing,
       ArtifactMissing, CopyArtifact, BuildFailed, Undo, report
  <2>4. CASE Deploy(q)
    BY <2>4 DEF Deploy, RefuseTarget, DryRun, BuildImage, BuildImageFails,
       LoadImage, LoadImageFails, StartContainer, StartContainerFails,
       LoadTimesOut, StartTimesOut, DockerFailed, Delivered, Undo, Raised, report
  <2>5. CASE Raises(q)
    BY <2>5 DEF Raises, Raised
  <2> QED
    BY <2>1, <2>2, <2>3, <2>4, <2>5 DEF Step
<1> QED
  BY <1>1 DEF Typed, TypeOK

(* What a step of a run does to the trees the runs share: nothing; it       *)
(* clears them, writes a file, packs them into a jar, or archives the jar. *)
Clears(q) ==
  /\ pc[q] = "clear" /\ pc'[q] \in {"spec", "done"}
  /\ pc'[q] = "spec" => disk' = NoFiles /\ jar' = None
  /\ \A f \in Files : disk'[f] \in {None, disk[f]}
  /\ jar' \in {None, jar}
  /\ UNCHANGED artifact

Writes(q) ==
  /\ pc[q] \in {"write", "repair"}
  /\ \A f \in Files : disk'[f] = disk[f] \/ disk'[f] = None \/ disk'[f].by = q
  /\ UNCHANGED <<jar, artifact>>

Packs(q) == pc[q] = "build" /\ jar' = disk /\ UNCHANGED <<disk, artifact>>

Archives(q) ==
  /\ pc[q] = "collect"
  /\ artifact' = jar
  /\ "artifact" \in cleanup'[q]
  /\ UNCHANGED <<disk, jar>>

Effect(q) ==
  /\ \/ Clears(q) \/ Writes(q) \/ Packs(q) \/ Archives(q)
     \/ UNCHANGED <<disk, jar, artifact>>
  /\ meddled[q] => meddled'[q]
  /\ pc[q] \in Active \/ pc'[q] \notin Active \/ Clears(q)

LEMMA GenerateEffect ==
  ASSUME Typed, NEW r \in Runs, Generate(r)
  PROVE  Effect(r)
<1> USE DEF Effect
<1>1. CASE Skip(r) \/ PlanSpec(r)
  <2>1. UNCHANGED <<disk, jar, artifact, meddled>> /\ pc'[r] \in {"done", "clear"}
    BY <1>1 DEF Typed, TypeOK, Skip, PlanSpec, Goto, source, built
  <2> QED
    BY <2>1 DEF Active, Approved
<1>2. CASE ClearProject(r)
  <2>1. Clears(r)
    BY <1>2 DEF Typed, TypeOK, ClearProject, Clears, NoFiles, At, Goto
  <2> QED
    BY <1>2, <2>1, TouchSelf DEF ClearProject
<1>3. CASE ClearProjectFails(r)
  <2>1. Clears(r)
    BY <1>3 DEF Typed, TypeOK, ClearProjectFails, Raised, Clears, At, Goto
  <2> QED
    BY <1>3, <2>1, TouchSelf DEF ClearProjectFails
<1>4. CASE WriteSpec(r)
  <2>1. UNCHANGED <<disk, jar, artifact>> /\ pc[r] = "spec"
    BY <1>4 DEF WriteSpec, At, built
  <2> QED
    BY <1>4, <2>1, TouchSelf DEF WriteSpec, Active
<1>5. ASSUME NEW f \in Files, WriteFile(r, f)
      PROVE  Effect(r)
  <2>1. PICK q \in Qualities : Store(r, f, NewContent(r, q))
    BY <1>5 DEF WriteFile
  <2>2. NewContent(r, q).by = r /\ disk' = [disk EXCEPT ![f] = NewContent(r, q)]
    BY <2>1 DEF NewContent, Store
  <2>3. Writes(r)
    BY <1>5, <2>2 DEF Typed, TypeOK, Trees, WriteFile, Writes, At, built
  <2> QED
    BY <2>1, <2>3, TouchSelf DEF Store, Writes, Active
<1> QED
  BY <1>1, <1>2, <1>3, <1>4, <1>5 DEF Generate

LEMMA RepairEffect ==
  ASSUME Typed, NEW r \in Runs, Booked(r), Repair(r)
  PROVE  Effect(r)
<1> USE DEF Effect
<1>1. CASE ValidateFiles(r) \/ EndRepair(r)
  <2>1. UNCHANGED <<disk, jar, artifact, meddled>> /\ pc[r] \in {"validate", "repair"}
    BY <1>1 DEF ValidateFiles, EndRepair, At, source, built
  <2> QED
    BY <2>1 DEF Active
<1>2. ASSUME NEW f \in Files, RepairFile(r, f)
      PROVE  Effect(r)
  <2>1. PICK content \in Repaired(r, f) : Store(r, f, content)
    BY <1>2 DEF RepairFile
  <2>2. /\ content = None \/ content.by = r
        /\ disk' = [disk EXCEPT ![f] = content]
    BY <2>1, RepairedBy DEF Store
  <2>3. Writes(r)
    BY <1>2, <2>2 DEF Typed, TypeOK, Trees, RepairFile, Writes, At, built
  <2> QED
    BY <2>1, <2>3, TouchSelf DEF Store, Writes, Active
<1> QED
  BY <1>1, <1>2 DEF Repair

LEMMA BuildEffect ==
  ASSUME Typed, NEW r \in Runs, Build(r)
  PROVE  Effect(r)
<1> USE DEF Effect
<1>1. pc[r] \in Active
  BY DEF Build, ChooseCommand, RunBuild, BuildFails, BuildToolMissing,
     ArtifactMissing, CopyArtifact, At, Active, Approved
<1>2. CASE RunBuild(r)
  <2>1. Packs(r)
    BY <1>2 DEF RunBuild, Packs, At, source
  <2> QED
    BY <1>1, <1>2, <2>1, TouchSelf DEF RunBuild
<1>3. CASE CopyArtifact(r)
  <2>1. Archives(r)
    BY <1>3 DEF Typed, TypeOK, CopyArtifact, Archives, Undo, At, source
  <2> QED
    BY <1>1, <1>3, <2>1, TouchSelf DEF CopyArtifact
<1>4. CASE ChooseCommand(r) \/ BuildFails(r) \/ BuildToolMissing(r)
           \/ ArtifactMissing(r)
  BY <1>1, <1>4 DEF ChooseCommand, BuildFails, BuildToolMissing, ArtifactMissing,
     BuildFailed, source, built
<1> QED
  BY <1>2, <1>3, <1>4 DEF Build

LEMMA DeployEffect ==
  ASSUME Typed, NEW r \in Runs, Deploy(r)
  PROVE  Effect(r)
<1>1. pc[r] \in Active
  BY DEF Deploy, RefuseTarget, DryRun, BuildImage, BuildImageFails, LoadImage,
     LoadImageFails, StartContainer, StartContainerFails, LoadTimesOut,
     StartTimesOut, At, Active, Approved
<1>2. UNCHANGED <<disk, jar, artifact>>
  BY DEF Deploy, RefuseTarget, DryRun, BuildImage, BuildImageFails, LoadImage,
     LoadImageFails, StartContainer, StartContainerFails, LoadTimesOut,
     StartTimesOut, DockerFailed, Raised, source, built
<1>3. UNCHANGED meddled \/ Touch(r)
  BY DEF Deploy, RefuseTarget, DryRun, BuildImage, BuildImageFails, LoadImage,
     LoadImageFails, StartContainer, StartContainerFails, LoadTimesOut,
     StartTimesOut, DockerFailed
<1> QED
  BY <1>1, <1>2, <1>3, TouchSelf DEF Effect

LEMMA EffectStep ==
  ASSUME Typed, NEW r \in Runs, Booked(r), Step(r)
  PROVE  Effect(r)
<1>1. CASE Raises(r)
  <2>1. UNCHANGED <<disk, jar, artifact, meddled>> /\ pc'[r] = "done"
    BY <1>1 DEF Typed, TypeOK, Raises, Raised, Goto
  <2> QED
    BY <2>1 DEF Effect, Active, Approved
<1> QED
  BY <1>1, GenerateEffect, RepairEffect, BuildEffect, DeployEffect DEF Step

-----------------------------------------------------------------------------
LEMMA MeddledStays ==
  ASSUME Typed, NEW q \in Runs, Step(q), Booked(q), NEW x \in Runs, meddled[x]
  PROVE  meddled'[x]
BY OtherSteps, EffectStep DEF Effect

(* A run at work finds the files of another only if the two have mixed.    *)
LEMMA ApartStep ==
  ASSUME Typed, Apart, NEW q \in Runs, Step(q), Booked(q)
  PROVE  Apart'
<1> SUFFICES ASSUME \A x \in Runs : ~meddled'[x],
                    NEW a \in Runs, NEW b \in Runs, a # b, pc'[a] \in Active
             PROVE  /\ ~Mine(b, disk') /\ ~Mine(b, jar')
                    /\ pc'[a] = "ship" => ~Mine(b, image'[tag'[a]])
  BY DEF Apart, Mine
<1>1. \A x \in Runs : ~meddled[x]
  BY MeddledStays
<1>2. Effect(q)
  BY EffectStep
<1>3. CASE a # q
  <2>1. pc[a] \in Active /\ Shared' = Shared /\ pc'[a] = pc[a] /\ tag'[a] = tag[a]
    BY <1>3, OtherSteps DEF Own
  <2> QED
    BY <1>1, <2>1 DEF Apart, Mine, Shared
<1>4. CASE a = q
  <2>3. pc'[a] = "ship" => ~Mine(b, image'[tag'[a]])
    BY <1>1, <1>4, ShipsDisk DEF Apart
  <2> SUFFICES ~Mine(b, disk') /\ ~Mine(b, jar')
    BY <2>3
  <2>1. CASE pc[q] \notin Active
    <3>1. disk' = NoFiles /\ jar' = None
      BY <1>2, <1>4, <2>1 DEF Effect, Clears, Active, Approved
    <3> QED
      BY <3>1 DEF Mine, NoFiles
  <2>2. CASE pc[q] \in Active
    <3>1. ~Mine(b, disk) /\ ~Mine(b, jar)
      BY <1>1, <1>4, <2>2 DEF Apart
    <3>2. CASE UNCHANGED <<disk, jar, artifact>> \/ Packs(q) \/ Archives(q)
      BY <3>1, <3>2 DEF Mine, Packs, Archives
    <3>3. CASE Writes(q)
      BY <1>4, <3>1, <3>3 DEF Mine, Writes, Typed, TypeOK, Trees
    <3>4. CASE Clears(q)
      BY <2>2, <3>4 DEF Clears, Active, Approved
    <3> QED
      BY <1>2, <3>2, <3>3, <3>4 DEF Effect
  <2> QED
    BY <2>1, <2>2
<1> QED
  BY <1>3, <1>4

(* Traces of a run come from no other run's step, and an archived jar with   *)
(* files of it was packed while both were at work.                         *)
LEMMA TracedOther ==
  ASSUME Typed, Apart, NEW q \in Runs, Step(q), Booked(q),
         NEW r \in Runs, r # q, Traced(r)
  PROVE  Traced(r)'
<1>1. notes'[r] = notes[r] /\ cleanup'[r] = cleanup[r] /\ pc'[r] = pc[r]
  BY OtherSteps, CleanupOther DEF Own
<1>2. Effect(q)
  BY EffectStep
<1>3. \A x \in Runs : meddled[x] => meddled'[x]
  BY MeddledStays
<1>7. ASSUME NEW t \in Tags, Mine(r, remote[t])'
      PROVE  (\E u \in Tags : Mine(r, remote[u])) \/ (\E x \in Runs : meddled[x])
  <2>1. CASE remote' = remote
    BY <1>7, <2>1 DEF Mine
  <2>2. CASE pc[q] = "ship" /\ Load(q)
    <3>1. remote'[t] \in {remote[t], image[tag[q]]}
      BY <2>2 DEF Load, Typed, TypeOK
    <3>2. Mine(r, image[tag[q]]) => \E x \in Runs : meddled[x]
      BY <2>2 DEF Apart, Active, Approved
    <3>3. Mine(r, remote[t]) \/ Mine(r, image[tag[q]])
      BY <1>7, <3>1 DEF Mine
    <3> QED
      BY <3>2, <3>3
  <2> QED
    BY <2>1, <2>2, RemoteEffect
<1>8. (\E t \in Tags : Mine(r, remote[t]))' =>
        \/ pc'[r] = "run" \/ "image" \in cleanup'[r] \/ TargetStepFailed(r)'
        \/ "exception" \in notes'[r] \/ \E x \in Runs : meddled'[x]
  BY <1>1, <1>3, <1>7 DEF Traced, TargetStepFailed
<1>4. Mine(r, disk') => Mine(r, disk)
  <2>1. CASE Clears(q)
    BY <2>1 DEF Mine, Clears, NoFiles, Typed, TypeOK, Trees
  <2>2. CASE Writes(q)
    BY <2>2 DEF Mine, Writes, Typed, TypeOK, Trees
  <2>3. CASE disk' = disk
    BY <2>3
  <2> QED
    BY <1>2, <2>1, <2>2, <2>3 DEF Effect, Packs, Archives
<1>5. CASE UNCHANGED artifact
  <2>1. Mine(r, disk)' = Mine(r, disk') /\ Mine(r, artifact)' = Mine(r, artifact)
    BY <1>5 DEF Mine
  <2> QED
    BY <1>1, <1>3, <1>4, <1>8, <2>1 DEF Traced
<1>6. CASE Archives(q)
  <2>1. pc[q] \in Active /\ disk' = disk /\ artifact' = jar
    BY <1>6 DEF Archives, Active, Approved
  <2>2. Mine(r, jar) => \E x \in Runs : meddled[x]
    BY <2>1 DEF Apart
  <2>3. Mine(r, disk)' = Mine(r, disk) /\ Mine(r, artifact)' = Mine(r, jar)
    BY <2>1 DEF Mine
  <2> QED
    BY <1>1, <1>3, <1>8, <2>2, <2>3 DEF Traced
<1> QED
  BY <1>2, <1>5, <1>6 DEF Effect, Clears, Writes, Packs

LEMMA TracedOwn ==
  ASSUME Typed, NEW r \in Runs, Step(r), Booked(r), Traced(r)
  PROVE  Traced(r)'
<1>1. Books(r) /\ Effect(r) /\ pc[r] # "done" /\ "exception" \notin notes[r]
  BY BooksStep, EffectStep, NotDone DEF Booked
<1>2. CASE "exception" \in notes'[r]
  BY <1>2 DEF Traced
<1>3. CASE "exception" \notin notes'[r]
  <2>1. cleanup[r] \subseteq cleanup'[r]
    BY <1>1, <1>3 DEF Books
  <2>2. \A x \in Runs : meddled[x] => meddled'[x]
    BY MeddledStays
  <2>3. Mine(r, disk)' => "project" \in cleanup'[r]
    <3>1. CASE Writes(r)
      BY <2>1, <3>1 DEF Writes, Booked, Active
    <3>2. CASE Clears(r)
      <4>1. Mine(r, disk)' => Mine(r, disk)
        BY <3>2 DEF Mine, Clears, NoFiles, Typed, TypeOK, Trees
      <4> QED
        BY <1>1, <2>1, <4>1 DEF Traced
    <3>3. CASE disk' = disk
      <4>1. Mine(r, disk)' = Mine(r, disk)
        BY <3>3 DEF Mine
      <4> QED
        BY <1>1, <2>1, <4>1 DEF Traced
    <3> QED
      BY <1>1, <3>1, <3>2, <3>3 DEF Effect, Packs, Archives
  <2>6. (\E t \in Tags : Mine(r, remote[t]))' =>
          \/ pc'[r] = "run" \/ "image" \in cleanup'[r] \/ TargetStepFailed(r)'
          \/ \E x \in Runs : meddled'[x]
    <3>1. CASE pc[r] \in {"ship", "run"}
      BY <1>3, <3>1, TargetStep
    <3>2. CASE pc[r] \notin {"ship", "run"}
      <4>1. remote' = remote
        BY <3>2, RemoteEffect
      <4>2. (\E t \in Tags : Mine(r, remote[t]))' =>
              \E t \in Tags : Mine(r, remote[t])
        BY <4>1 DEF Mine
      <4>3. TargetStepFailed(r) => TargetStepFailed(r)'
        BY <1>1, <1>3 DEF Books, TargetStepFailed
      <4> QED
        BY <1>1, <2>1, <2>2, <3>2, <4>2, <4>3 DEF Traced
    <3> QED
      BY <3>1, <3>2
  <2>4. CASE Archives(r)
    BY <2>3, <2>4, <2>6 DEF Traced, Archives
  <2>5. CASE UNCHANGED artifact
    <3>1. Mine(r, artifact)' = Mine(r, artifact)
      BY <2>5 DEF Mine
    <3> QED
      BY <1>1, <2>1, <2>2, <2>3, <2>6, <3>1 DEF Traced
  <2> QED
    BY <1>1, <2>4, <2>5 DEF Effect, Clears, Writes, Packs
<1> QED
  BY <1>2, <1>3

LEMMA LeftoversInit == Init => Leftovers
<1> SUFFICES ASSUME Init
             PROVE  Leftovers
  OBVIOUS
<1>1. \A r \in Runs, f \in Files : NoFiles[f] = None /\ OldTree[f].by # r
  BY DEF NoFiles, OldTree
<1>2. ASSUME NEW r \in Runs
      PROVE  /\ ~Mine(r, disk) /\ ~Mine(r, jar) /\ ~Mine(r, artifact)
             /\ pc[r] = "idle" /\ mem[r] = NoFiles /\ notes[r] = {}
             /\ container[r] = None /\ \A t \in Tags : ~Mine(r, remote[t])
  BY <1>1 DEF Init, Mine
<1> QED
  BY <1>1, <1>2 DEF Leftovers, Apart, Booked, Traced, Active, Approved

LEMMA LeftoversStep == Typed /\ Leftovers /\ [Next]_vars => Leftovers'
<1> SUFFICES ASSUME Typed, Leftovers, [Next]_vars
             PROVE  Leftovers'
  OBVIOUS
<1>1. ASSUME NEW q \in Runs, Step(q)
      PROVE  Leftovers'
  <2>1. Booked(q) /\ Apart
    BY DEF Leftovers
  <2>2. Apart'
    BY <1>1, <2>1, ApartStep
  <2>3. ASSUME NEW r \in Runs, r # q
        PROVE  Booked(r)' /\ Traced(r)'
    <3>1. Booked(r) /\ Traced(r)
      BY DEF Leftovers
    <3>2. Booked(r)'
      BY <1>1, <2>3, <3>1, OtherSteps, CleanupOther
         DEF Booked, Own, TargetStepFailed
    <3> QED
      BY <1>1, <2>1, <2>3, <3>1, <3>2, TracedOther
  <2>4. Booked(q)' /\ Traced(q)'
    BY <1>1, <2>1, BooksStep, TracedOwn DEF Books, Leftovers
  <2> QED
    BY <2>2, <2>3, <2>4 DEF Leftovers
<1>2. CASE Tick \/ UNCHANGED vars
  <2>1. /\ pc' = pc /\ mem' = mem /\ notes' = notes /\ cleanup' = cleanup
        /\ container' = container /\ disk' = disk /\ jar' = jar
        /\ artifact' = artifact /\ meddled' = meddled
        /\ image' = image /\ remote' = remote /\ tag' = tag
    BY <1>2 DEF Tick, vars, source, built, images, report
  <2> QED
    BY <2>1 DEF Leftovers, Apart, Booked, Traced, Mine, TargetStepFailed
<1> QED
  BY <1>1, <1>2 DEF Next

(* The cleanup list that a run reports tells of its files in the project    *)
(* directory, of its jar and its image on the target unless runs mixed     *)
(* their files, and of the image if it created a container; only an        *)
(* exception loses it, and only a load or run that failed after it took    *)
(* effect leaves something unlisted, with its code among the notes         *)
(* (agent.py:run, tools.py:build_code and docker_build).                   *)
THEOREM CleanupIsComplete == Spec => []LeftoversAreListed
<1>1. Leftovers => LeftoversAreListed
  BY DEF Leftovers, Booked, Traced, LeftoversAreListed
<1> QED
  BY <1>1, LeftoversInit, LeftoversStep, TypedAlways, PTL DEF Spec
-----------------------------------------------------------------------------
(* Every run runs out of steps.                                            *)

(* The control points run r has left at most.  A round takes eight of them *)
(* if it gets as far as docker run, and there are MaxRepairs rounds.       *)
StepsLeft(r) ==
  CASE At(r, "idle")     -> 8 * MaxRepairs + 12
    [] At(r, "clear")    -> 8 * MaxRepairs + 11
    [] At(r, "spec")     -> 8 * MaxRepairs + 10
    [] At(r, "write")    -> 8 * MaxRepairs + 9
    [] At(r, "validate") -> 8 * (MaxRepairs - round[r]) + 8
    [] At(r, "choose")   -> 8 * (MaxRepairs - round[r]) + 7
    [] At(r, "build")    -> 8 * (MaxRepairs - round[r]) + 6
    [] At(r, "collect")  -> 8 * (MaxRepairs - round[r]) + 5
    [] At(r, "image")    -> 8 * (MaxRepairs - round[r]) + 4
    [] At(r, "ship")     -> 8 * (MaxRepairs - round[r]) + 3
    [] At(r, "run")      -> 8 * (MaxRepairs - round[r]) + 2
    [] At(r, "repair")   -> 8 * (MaxRepairs - round[r]) + 1
    [] At(r, "done")     -> 0

(* A step takes a run on to the next point, or one file off those the node *)
(* it is in has to write.                                                  *)
Advances(r) ==
  \/ StepsLeft(r)' < StepsLeft(r)
  \/ /\ UNCHANGED <<pc[r], round[r]>>
     /\ \E f \in todo[r] : todo'[r] = todo[r] \ {f}

Nearer ==
  \A r \in Runs : /\ Step(r) => Advances(r)
                  /\ UNCHANGED <<pc[r], round[r], todo[r]>> \/ Advances(r)

LEMMA StepsLeftOf ==
  ASSUME NEW r \in Runs
  PROVE  /\ At(r, "idle")     => StepsLeft(r) = 8 * MaxRepairs + 12
         /\ At(r, "clear")    => StepsLeft(r) = 8 * MaxRepairs + 11
         /\ At(r, "spec")     => StepsLeft(r) = 8 * MaxRepairs + 10
         /\ At(r, "write")    => StepsLeft(r) = 8 * MaxRepairs + 9
         /\ At(r, "validate") => StepsLeft(r) = 8 * (MaxRepairs - round[r]) + 8
         /\ At(r, "choose")   => StepsLeft(r) = 8 * (MaxRepairs - round[r]) + 7
         /\ At(r, "build")    => StepsLeft(r) = 8 * (MaxRepairs - round[r]) + 6
         /\ At(r, "collect")  => StepsLeft(r) = 8 * (MaxRepairs - round[r]) + 5
         /\ At(r, "image")    => StepsLeft(r) = 8 * (MaxRepairs - round[r]) + 4
         /\ At(r, "ship")     => StepsLeft(r) = 8 * (MaxRepairs - round[r]) + 3
         /\ At(r, "run")      => StepsLeft(r) = 8 * (MaxRepairs - round[r]) + 2
         /\ At(r, "repair")   => StepsLeft(r) = 8 * (MaxRepairs - round[r]) + 1
         /\ At(r, "done")     => StepsLeft(r) = 0
BY DEF StepsLeft, At

LEMMA StepsAreCounted ==
  ASSUME Typed, NEW r \in Runs
  PROVE  /\ StepsLeft(r) \in 0..(8 * MaxRepairs + 12)
         /\ StepsLeft(r) = 0 <=> At(r, "done")
<1> DEFINE n == StepsLeft(r)
<1> HIDE DEF n
<1>1. MaxRepairs \in Nat /\ pc[r] \in Points /\ round[r] \in 0..MaxRepairs
  BY BoundAssumption DEF Typed, TypeOK
<1>2. CASE At(r, "done")
  BY <1>2, <1>1, StepsLeftOf
<1>3. CASE pc[r] # "done"
  <2>1. n \in 1..(8 * MaxRepairs + 12)
    BY <1>1, <1>3, StepsLeftOf DEF n, At, Points, Active, Approved
  <2> QED
    BY <1>3, <2>1 DEF n, At
<1> QED
  BY <1>2, <1>3 DEF At

(* What the measure reads of a run, before and after a step of it.         *)
Place(r) ==
  /\ MaxRepairs \in Nat
  /\ pc[r] \in Points
  /\ round[r] \in 0..MaxRepairs
  /\ pc[r] = "repair" => round[r] < MaxRepairs

LEMMA PlaceOf == ASSUME Typed, NEW r \in Runs PROVE Place(r)
BY BoundAssumption DEF Typed, TypeOK, BudgetLeft, Place

LEMMA EndIsNearer ==
  ASSUME Typed, NEW r \in Runs, pc[r] # "done", pc' = [pc EXCEPT ![r] = "done"]
  PROVE  Advances(r)
<1>1. StepsLeft(r) \in Nat /\ StepsLeft(r) # 0
  BY StepsAreCounted, BoundAssumption DEF At
<1>2. StepsLeft(r)' = 0
  BY DEF Typed, TypeOK, StepsLeft, At
<1> QED
  BY <1>1, <1>2 DEF Advances

LEMMA GenerateNears ==
  ASSUME Typed, NEW r \in Runs, Generate(r)
  PROVE  Advances(r)
<1> USE DEF Goto, At, Typed, TypeOK
<1>1. CASE Skip(r)
  BY <1>1, EndIsNearer DEF Skip
<1>2. CASE PlanSpec(r)
  BY <1>2, PlaceOf DEF PlanSpec, Place, Advances, StepsLeft
<1>3. CASE ClearProject(r)
  BY <1>3, PlaceOf DEF ClearProject, Place, Advances, StepsLeft
<1>4. CASE ClearProjectFails(r)
  BY <1>4, EndIsNearer DEF ClearProjectFails, Raised
<1>5. CASE WriteSpec(r)
  BY <1>5, PlaceOf DEF WriteSpec, Place, Advances, StepsLeft
<1>6. ASSUME NEW f \in Files, WriteFile(r, f) PROVE Advances(r)
  <2>1. CASE todo[r] = {f}
    BY <1>6, <2>1, PlaceOf DEF WriteFile, Place, Advances, StepsLeft
  <2>2. CASE todo[r] # {f}
    BY <1>6, <2>2 DEF WriteFile, Advances
  <2> QED
    BY <2>1, <2>2
<1> QED
  BY <1>1, <1>2, <1>3, <1>4, <1>5, <1>6 DEF Generate

LEMMA RepairNears ==
  ASSUME Typed, NEW r \in Runs, Repair(r)
  PROVE  Advances(r)
<1> USE DEF Goto, At, Typed, TypeOK
<1>1. CASE ValidateFiles(r)
  <2>1. PICK next \in {"choose", "repair", "done"} : pc' = [pc EXCEPT ![r] = next]
    BY <1>1 DEF ValidateFiles, Judged, RouteAfterValidation
  <2>2. pc[r] = "validate" /\ round' = round
    BY <1>1 DEF ValidateFiles
  <2> QED
    BY <2>1, <2>2, PlaceOf DEF Place, Advances, StepsLeft
<1>2. CASE EndRepair(r)
  BY <1>2, PlaceOf DEF EndRepair, Place, Advances, StepsLeft
<1>3. ASSUME NEW f \in Files, RepairFile(r, f) PROVE Advances(r)
  BY <1>3 DEF RepairFile, Advances
<1> QED
  BY <1>1, <1>2, <1>3 DEF Repair

(* A failed node leads to the end, or to a repair of the same round.       *)
LEMMA FailureNears ==
  ASSUME Typed, NEW r \in Runs, pc[r] \in Approved, round' = round,
         NEW found, pc' = [pc EXCEPT ![r] = RouteAfterPackaging(r, found)]
  PROVE  Advances(r)
<1>1. PICK next \in {"repair", "done"} : pc' = [pc EXCEPT ![r] = next]
  BY DEF RouteAfterPackaging
<1>2. CASE next = "done"
  BY <1>1, <1>2, EndIsNearer DEF Approved
<1>3. CASE next = "repair"
  <2>1. StepsLeft(r)' = 8 * (MaxRepairs - round[r]) + 1
    BY <1>1, <1>3 DEF Typed, TypeOK, StepsLeft, At
  <2> QED
    BY <2>1, PlaceOf, StepsLeftOf DEF Place, Advances, Approved, At
<1> QED
  BY <1>1, <1>2, <1>3

LEMMA BuildNears ==
  ASSUME Typed, NEW r \in Runs, Build(r)
  PROVE  Advances(r)
<1> USE DEF Goto, At, Typed, TypeOK
<1>1. CASE ChooseCommand(r)
  <2>1. PICK next \in {"build", "collect"} : pc' = [pc EXCEPT ![r] = next]
    BY <1>1 DEF ChooseCommand
  <2> QED
    BY <1>1, <2>1, PlaceOf DEF ChooseCommand, Place, Advances, StepsLeft
<1>2. CASE RunBuild(r)
  BY <1>2, PlaceOf DEF RunBuild, Place, Advances, StepsLeft
<1>3. CASE BuildFails(r)
  BY <1>3, FailureNears DEF BuildFails, BuildFailed, Judged, Approved
<1>4. CASE BuildToolMissing(r)
  BY <1>4, FailureNears DEF BuildToolMissing, BuildFailed, Judged, Approved
<1>5. CASE ArtifactMissing(r)
  BY <1>5, FailureNears DEF ArtifactMissing, BuildFailed, Judged, Approved
<1>6. CASE CopyArtifact(r)
  BY <1>6, PlaceOf DEF CopyArtifact, Place, Advances, StepsLeft
<1> QED
  BY <1>1, <1>2, <1>3, <1>4, <1>5, <1>6 DEF Build

LEMMA DeployNears ==
  ASSUME Typed, NEW r \in Runs, Deploy(r)
  PROVE  Advances(r)
<1> USE DEF Goto, At, Typed, TypeOK
<1>1. CASE RefuseTarget(r) \/ BuildImageFails(r) \/ LoadImageFails(r)
           \/ StartContainerFails(r)
  BY <1>1, FailureNears DEF RefuseTarget, BuildImageFails, LoadImageFails,
     StartContainerFails, DockerFailed, Approved
<1>2. CASE DryRun(r) \/ StartContainer(r)
  BY <1>2, EndIsNearer DEF DryRun, StartContainer, Delivered
<1>3. CASE LoadTimesOut(r) \/ StartTimesOut(r)
  BY <1>3, EndIsNearer DEF LoadTimesOut, StartTimesOut, Raised
<1>4. CASE BuildImage(r)
  BY <1>4, PlaceOf DEF BuildImage, Place, Advances, StepsLeft
<1>5. CASE LoadImage(r)
  <2>1. PICK next \in {"run", "done"} : pc' = [pc EXCEPT ![r] = next]
    BY <1>5 DEF LoadImage, Delivered
  <2> QED
    BY <1>5, <2>1, EndIsNearer, PlaceOf DEF LoadImage, Place, Advances, StepsLeft
<1> QED
  BY <1>1, <1>2, <1>3, <1>4, <1>5 DEF Deploy

LEMMA StepNears == ASSUME Typed, NEW r \in Runs, Step(r) PROVE Advances(r)
<1>1. CASE Raises(r)
  BY <1>1, EndIsNearer DEF Raises, Raised, Goto
<1> QED
  BY <1>1, GenerateNears, RepairNears, BuildNears, DeployNears DEF Step

LEMMA OthersWait ==
  ASSUME Typed, NEW r \in Runs, Step(r), NEW q \in Runs \ {r}
  PROVE  UNCHANGED <<pc[q], round[q], todo[q]>>
<1>1. CASE Raises(r)
  BY <1>1 DEF Typed, TypeOK, Raises, Raised, Goto
<1> QED
  BY <1>1, OtherGenerates, OtherRepairs, OtherBuilds, OtherDeploys DEF Step, Own

(* A run of the agent passes at most 8 * MaxRepairs + 12 control points    *)
(* and, at each, at most once every file: however builds, docker and ssh   *)
(* fail, and also where the repair of a template changes nothing.  It has  *)
(* no step left exactly when it has reached its end.  (That a run never    *)
(* gets stuck before, the other half of EveryRunEnds, is TLC's.)           *)
THEOREM SampleStepsRunOut ==
  Spec => [][/\ \A r \in Runs : /\ StepsLeft(r) \in 0..(8 * MaxRepairs + 12)
                                /\ StepsLeft(r) = 0 <=> At(r, "done")
             /\ Nearer]_vars
<1>1. Typed /\ [Next]_vars => [/\ \A r \in Runs :
                                    /\ StepsLeft(r) \in 0..(8 * MaxRepairs + 12)
                                    /\ StepsLeft(r) = 0 <=> At(r, "done")
                               /\ Nearer]_vars
  <2> SUFFICES ASSUME Typed, Next
               PROVE  Nearer
    BY StepsAreCounted
  <2>1. ASSUME NEW q \in Runs, Step(q) PROVE Nearer
    BY <2>1, OthersWait, StepNears DEF Nearer
  <2>2. ASSUME Tick PROVE Nearer
    BY <2>2, StepNears DEF Tick, Nearer
  <2> QED
    BY <2>1, <2>2 DEF Next
<1> QED
  BY <1>1, TypeInit, TypeStep, PTL DEF Spec
=============================================================================
