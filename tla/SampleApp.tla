------------------------------ MODULE SampleApp ------------------------------
(***************************************************************************)
(* The sample application agent (SampleAppGen/agent.py, tools.py): plan,   *)
(* generate, validate, repair, build, containerise and start.  All runs of *)
(* this module ask for the same application id, so that they share the     *)
(* directory generated_apps/<app_id>, the jar under artifacts/, the local  *)
(* image tags and the target host; runs with other ids share nothing.      *)
(*                                                                         *)
(* A file's content is abstracted to who wrote it, in which repair round,  *)
(* and what the validator and the compiler will say of it.  A tree of      *)
(* files, wherever it is kept (on disk, in a jar, in an image), is a       *)
(* function from paths to contents.                                        *)
(***************************************************************************)
EXTENDS Naturals, FiniteSets

CONSTANTS
  Runs,        \* concurrent runs of the agent with one application id
  Earlier,     \* a run that ended before them
  Files,       \* the paths of the file plan
  Templates,   \* those with deterministic content (resolve_file_content)
  Qualities,   \* the qualities of generated content that are considered
  None,        \* no content, no tree
  Foreign,     \* an image the agent did not make
  MaxRepairs,  \* max_repairs of the agent
  MaxClock     \* bound: seconds that pass

(* "good":         neither validator nor compiler objects;                 *)
(* "flawed":       the validator objects and names the file;               *)
(* "incomplete":   the validator objects, but names no path of the plan    *)
(*                 ("src/main/java/**", "build.gradle|pom.xml");           *)
(* "uncompilable": only the compiler objects.                              *)
Quality == {"good", "flawed", "incomplete", "uncompilable"}

ASSUME RunAssumption     == Earlier \notin Runs
ASSUME FileAssumption    == Templates \subseteq Files /\ Files # {}
ASSUME QualityAssumption == "good" \in Qualities /\ Qualities \subseteq Quality
ASSUME BoundAssumption   == MaxRepairs \in Nat /\ MaxClock \in Nat

Content == [by : Runs \union {Earlier}, round : 0..MaxRepairs,
            quality : Quality]

ASSUME NoneAssumption == /\ None \notin Content
                         /\ None \notin [Files -> Content \union {None}]
                         /\ Foreign # None

Trees   == [Files -> Content \union {None}]
NoFiles == [f \in Files |-> None]
Tags    == 0..MaxClock

VARIABLES
  framework, tool, dryRun,   \* of the request, the machine, the environment
  dir, disk,   \* generated_apps/<app_id>: does it exist, which files has it
  jar,         \* the tree the jar in its build directory was made of, or None
  artifact,    \* the same for artifacts/<app_id>.jar
  clock,       \* the time in seconds, of which the image tag is made
  image,       \* local images by tag: the tree each was made of, or None
  remote,      \* images on the target host by tag
  pc,          \* control point of each run
  todo,        \* paths the node has yet to write
  mem,         \* existing_files of the run's state
  issues,      \* validation_issues
  round,       \* repair_round
  notes,       \* error codes among the notes
  success,
  cleanup,     \* rollback_cleanup
  starts,      \* what the plan's docker run command names, see Starts
  tag,         \* build_tag
  container,   \* what the last container the run created was made of, or None
  meddled      \* history: another run wrote what the run was working on

env     == <<framework, tool, dryRun>>
source  == <<dir, disk, mem>>
built   == <<jar, artifact>>
images  == <<clock, image, remote, tag>>
report  == <<notes, success, cleanup>>
vars    == <<env, source, built, images, report, pc, todo, issues, round,
             starts, container, meddled>>

(* The control points.  At a point of Active a run works on what it shares  *)
(* with the others.                                                        *)
Approved == {"choose", "build", "collect", "image", "ship", "run"}
Active   == {"spec", "write", "validate", "repair"} \union Approved
Points   == {"idle", "clear", "done"} \union Active

Issues   == Files \union {"project"}   \* "project": no path of the plan
Codes    == {"skipped", "exception", "E_BUILD_TOOL_MISSING",
             "E_BUILD_FAILED", "E_ARTIFACT_MISSING", "E_TARGET",
             "E_DOCKER_BUILD", "E_DOCKER_LOAD", "E_DOCKER_RUN"}
Cleanups == {"project", "artifact", "image"}

(* "no": the plan has no docker run command; "own": its first one names    *)
(* image_name of the plan, for which the agent substitutes the image it    *)
(* built; "other": it names another image, which the model also wrote.     *)
Starts == {"no", "own", "other"}

OldTree == [f \in Files |-> [by |-> Earlier, round |-> 0, quality |-> "good"]]

Init ==
  /\ framework \in {"spring", "fastapi"}
  /\ tool \in BOOLEAN
  /\ dryRun \in BOOLEAN
  /\ \/ dir = FALSE /\ disk = NoFiles /\ jar = None
     \/ dir = TRUE /\ disk = OldTree /\ jar \in {None, OldTree}
  /\ artifact = jar
  /\ clock = 0
  /\ image = [t \in Tags |-> None]
  /\ remote = [t \in Tags |-> None]
  /\ pc = [r \in Runs |-> "idle"]
  /\ todo = [r \in Runs |-> {}]
  /\ mem = [r \in Runs |-> NoFiles]
  /\ issues = [r \in Runs |-> {}]
  /\ round = [r \in Runs |-> 0]
  /\ notes = [r \in Runs |-> {}]
  /\ success = [r \in Runs |-> FALSE]
  /\ cleanup = [r \in Runs |-> {}]
  /\ starts = [r \in Runs |-> "no"]
  /\ tag = [r \in Runs |-> 0]
  /\ container = [r \in Runs |-> None]
  /\ meddled = [r \in Runs |-> FALSE]

-----------------------------------------------------------------------------
(* Control.                                                                *)

At(r, point)   == pc[r] = point
Goto(r, point) == pc' = [pc EXCEPT ![r] = point]

Note(r, code) == notes' = [notes EXCEPT ![r] = @ \union {code}]
Undo(r, what) == cleanup' = [cleanup EXCEPT ![r] = @ \union {what}]

(* Run r writes something the runs share.                                  *)
Touch(r) == meddled' = [q \in Runs |-> \/ meddled[q]
                                       \/ q # r /\ pc[q] \in Active]

(* run() turns an exception of the graph into a result that has lost the   *)
(* state of the graph.                                                     *)
Raised(r) ==
  /\ notes' = [notes EXCEPT ![r] = {"exception"}]
  /\ success' = [success EXCEPT ![r] = FALSE]
  /\ cleanup' = [cleanup EXCEPT ![r] = {}]
  /\ issues' = [issues EXCEPT ![r] = {}]
  /\ Goto(r, "done")
  /\ UNCHANGED <<env, artifact, todo, mem, round, starts, tag, clock, image>>

Raises(r) ==
  /\ pc[r] # "done"
  /\ Raised(r)
  /\ UNCHANGED <<dir, disk, jar, remote, container, meddled>>

(* Mutant: one round too many.                                             *)
RouteAfterValidation_OffByOne(r, found) ==
  IF found = {} THEN "choose"
  ELSE IF round[r] <= MaxRepairs THEN "repair" ELSE "done"

RouteAfterValidation(r, found) ==
  IF found = {} THEN "choose"
  ELSE IF round[r] < MaxRepairs THEN "repair" ELSE "done"

(* Mutant: only the validation looks at the budget.                        *)
RouteAfterPackaging_NoBudget(r, found) ==
  IF found # {} THEN "repair" ELSE "done"

RouteAfterPackaging(r, found) ==
  IF found # {} /\ round[r] < MaxRepairs THEN "repair" ELSE "done"

(* The issues found, and where they lead; a repair takes on the files of   *)
(* the plan among them.                                                    *)
Judged(r, found, next) ==
  /\ issues' = [issues EXCEPT ![r] = found]
  /\ todo' = [todo EXCEPT ![r] = IF next = "repair" THEN found \intersect Files
                                                    ELSE {}]
  /\ Goto(r, next)

-----------------------------------------------------------------------------
(* plan_spec and generate_files.                                           *)

Skip(r) ==
  /\ At(r, "idle")
  /\ Note(r, "skipped")
  /\ success' = [success EXCEPT ![r] = TRUE]
  /\ Goto(r, "done")
  /\ UNCHANGED <<env, source, built, images, cleanup, todo, issues, round,
                 starts, container, meddled>>

PlanSpec(r) ==
  /\ At(r, "idle")
  /\ \E s \in Starts : starts' = [starts EXCEPT ![r] = s]
  /\ Goto(r, "clear")
  /\ UNCHANGED <<env, source, built, images, report, todo, issues, round,
                 container, meddled>>

ClearProject(r) ==
  /\ At(r, "clear")
  /\ dir' = FALSE
  /\ disk' = NoFiles
  /\ jar' = None
  /\ Touch(r)
  /\ Goto(r, "spec")
  /\ UNCHANGED <<env, mem, artifact, images, report, todo, issues, round,
                 starts, container>>

(* rmtree gives up on an entry it cannot remove, or that came or went      *)
(* meanwhile.                                                              *)
ClearProjectFails(r) ==
  /\ At(r, "clear")
  /\ dir
  /\ \E gone \in SUBSET Files :
       disk' = [f \in Files |-> IF f \in gone THEN None ELSE disk[f]]
  /\ jar' \in {jar, None}
  /\ Touch(r)
  /\ Raised(r)
  /\ UNCHANGED <<dir, remote, container>>

(* mkdir and APPLICATION_SPEC.md.                                          *)
WriteSpec(r) ==
  /\ At(r, "spec")
  /\ dir' = TRUE
  /\ todo' = [todo EXCEPT ![r] = Files]
  /\ Undo(r, "project")
  /\ Touch(r)
  /\ Goto(r, "write")
  /\ UNCHANGED <<env, disk, mem, built, images, notes, success, issues, round,
                 starts, container>>

(* execution_file_write makes the parents of the file it writes.           *)
Store(r, f, content) ==
  /\ disk' = [disk EXCEPT ![f] = content]
  /\ mem' = [mem EXCEPT ![r] = [@ EXCEPT ![f] = content]]
  /\ dir' = TRUE
  /\ Touch(r)

NewContent(r, q) == [by |-> r, round |-> round[r], quality |-> q]

WriteFile(r, f) ==
  /\ At(r, "write")
  /\ f \in todo[r]
  /\ \E q \in Qualities : Store(r, f, NewContent(r, q))
  /\ todo' = [todo EXCEPT ![r] = @ \ {f}]
  /\ Goto(r, IF todo[r] = {f} THEN "validate" ELSE "write")
  /\ UNCHANGED <<env, built, images, report, issues, round, starts, container>>

-----------------------------------------------------------------------------
(* validate_files and repair_files.                                        *)

(* code_validator asks the disk which files exist, and existing_files what *)
(* they hold.                                                              *)
CodeValidator(r) ==
  {f \in Files : \/ disk[f] = None
                 \/ mem[r][f] # None /\ mem[r][f].quality = "flawed"}
  \union {i \in {"project"} :
            \E f \in Files : /\ mem[r][f] # None
                             /\ mem[r][f].quality = "incomplete"}

ValidateFiles(r) ==
  /\ At(r, "validate")
  /\ LET found == CodeValidator(r)
     IN  Judged(r, found, RouteAfterValidation(r, found))
  /\ UNCHANGED <<env, source, built, images, report, round, starts, container,
                 meddled>>

(* A template yields what it yielded before.                               *)
Repaired(r, f) ==
  IF f \in Templates THEN {mem[r][f]}
  ELSE {[NewContent(r, q) EXCEPT !.round = @ + 1] : q \in Qualities}

(* Mutant: the repaired file is not written back.                          *)
RepairFile_NotWritten(r, f) ==
  /\ At(r, "repair")
  /\ f \in todo[r]
  /\ \E content \in Repaired(r, f) :
       mem' = [mem EXCEPT ![r] = [@ EXCEPT ![f] = content]]
  /\ todo' = [todo EXCEPT ![r] = @ \ {f}]
  /\ UNCHANGED <<env, dir, disk, built, images, report, pc, issues, round,
                 starts, container, meddled>>

RepairFile(r, f) ==
  /\ At(r, "repair")
  /\ f \in todo[r]
  /\ \E content \in Repaired(r, f) : Store(r, f, content)
  /\ todo' = [todo EXCEPT ![r] = @ \ {f}]
  /\ UNCHANGED <<env, built, images, report, pc, issues, round, starts,
                 container>>

(* Mutant: the round is not counted.                                       *)
EndRepair_NotCounted(r) ==
  /\ At(r, "repair")
  /\ todo[r] = {}
  /\ Goto(r, "validate")
  /\ UNCHANGED <<env, source, built, images, report, todo, issues, round,
                 starts, container, meddled>>

EndRepair(r) ==
  /\ At(r, "repair")
  /\ todo[r] = {}
  /\ round' = [round EXCEPT ![r] = @ + 1]
  /\ Goto(r, "validate")
  /\ UNCHANGED <<env, source, built, images, report, todo, issues, starts,
                 container, meddled>>

-----------------------------------------------------------------------------
(* package_artifacts: build_code.                                          *)

HasCommand == framework = "spring" /\ tool

Compiles(tree) ==
  \A f \in Files : tree[f] # None /\ tree[f].quality # "uncompilable"

(* project_dir.iterdir() raises when the directory is gone: see Raises.    *)
ChooseCommand(r) ==
  /\ At(r, "choose")
  /\ dir
  /\ Goto(r, IF HasCommand THEN "build" ELSE "collect")
  /\ UNCHANGED <<env, source, built, images, report, todo, issues, round,
                 starts, container, meddled>>

RunBuild(r) ==
  /\ At(r, "build")
  /\ dir
  /\ Compiles(disk)
  /\ jar' = disk
  /\ Touch(r)
  /\ Goto(r, "collect")
  /\ UNCHANGED <<env, source, artifact, images, report, todo, issues, round,
                 starts, container>>

(* Mutant: only the issues tell of the failure.                            *)
BuildFailed_NoNote(r, code, found) ==
  /\ success' = [success EXCEPT ![r] = FALSE]
  /\ Judged(r, found, RouteAfterPackaging(r, found))
  /\ UNCHANGED <<env, source, built, images, notes, cleanup, round, starts,
                 container, meddled>>

BuildFailed(r, code, found) ==
  /\ Note(r, code)
  /\ success' = [success EXCEPT ![r] = FALSE]
  /\ Judged(r, found, RouteAfterPackaging(r, found))
  /\ UNCHANGED <<env, source, built, images, cleanup, round, starts,
                 container, meddled>>

(* What _parse_build_issues can make of the output of a failed build: the  *)
(* files the compiler names, the pseudo path BUILD, or nothing when the    *)
(* output is empty (a build that was killed).                              *)
BuildIssues ==
  {{"project"}, {}} \union
  {{f \in Files : disk[f] # None /\ disk[f].quality = "uncompilable"}}

BuildFails(r) ==
  /\ At(r, "build")
  /\ dir
  /\ \E found \in BuildIssues : BuildFailed(r, "E_BUILD_FAILED", found)

(* A working directory that is gone is reported as a missing tool.         *)
BuildToolMissing(r) ==
  /\ At(r, "build")
  /\ BuildFailed(r, "E_BUILD_TOOL_MISSING", {"project"})

ArtifactMissing(r) ==
  /\ At(r, "collect")
  /\ jar = None
  /\ BuildFailed(r, "E_ARTIFACT_MISSING", {"project"})

(* Mutant: rollback_cleanup does not learn of the jar.                     *)
CopyArtifact_NotListed(r) ==
  /\ At(r, "collect")
  /\ jar # None
  /\ artifact' = jar
  /\ tag' = [tag EXCEPT ![r] = clock]
  /\ Touch(r)
  /\ Goto(r, "image")
  /\ UNCHANGED <<env, source, jar, clock, image, remote, report, todo, issues,
                 round, starts, container>>

CopyArtifact(r) ==
  /\ At(r, "collect")
  /\ jar # None
  /\ artifact' = jar
  /\ tag' = [tag EXCEPT ![r] = clock]
  /\ Undo(r, "artifact")
  /\ Touch(r)
  /\ Goto(r, "image")
  /\ UNCHANGED <<env, source, jar, clock, image, remote, notes, success, todo,
                 issues, round, starts, container>>

-----------------------------------------------------------------------------
(* package_artifacts: docker_build.                                        *)

Delivered(r) ==
  /\ success' = [success EXCEPT ![r] = TRUE]
  /\ Undo(r, "image")
  /\ Goto(r, "done")

DockerFailed(r, code) ==
  /\ Note(r, code)
  /\ success' = [success EXCEPT ![r] = FALSE]
  /\ Goto(r, RouteAfterPackaging(r, issues[r]))
  /\ UNCHANGED <<env, source, built, clock, image, tag, cleanup, todo, issues,
                 round, starts>>

RefuseTarget(r) ==
  /\ At(r, "image")
  /\ DockerFailed(r, "E_TARGET")
  /\ UNCHANGED <<remote, container, meddled>>

DryRun(r) ==
  /\ At(r, "image")
  /\ dryRun
  /\ Delivered(r)
  /\ UNCHANGED <<env, source, built, images, notes, todo, issues, round,
                 starts, container, meddled>>

(* The Dockerfile builds the application from the project directory again. *)
BuildImage(r) ==
  /\ At(r, "image")
  /\ ~dryRun
  /\ dir
  /\ Compiles(disk)
  /\ image' = [image EXCEPT ![tag[r]] = disk]
  /\ Touch(r)
  /\ Goto(r, "ship")
  /\ UNCHANGED <<env, source, built, clock, remote, tag, report, todo, issues,
                 round, starts, container>>

BuildImageFails(r) ==
  /\ At(r, "image")
  /\ ~dryRun
  /\ DockerFailed(r, "E_DOCKER_BUILD")
  /\ UNCHANGED <<remote, container, meddled>>

(* docker image save | ssh docker load.                                    *)
Load(r) == remote' = [remote EXCEPT ![tag[r]] = image[tag[r]]]

(* Mutant: the return code of docker load is not looked at.                *)
LoadImage_Unchecked(r) ==
  /\ At(r, "ship")
  /\ Load(r) \/ UNCHANGED remote
  /\ Touch(r)
  /\ \/ starts[r] # "no" /\ Goto(r, "run") /\ UNCHANGED <<success, cleanup>>
     \/ starts[r] = "no" /\ Delivered(r)
  /\ UNCHANGED <<env, source, built, clock, image, tag, notes, todo, issues,
                 round, starts, container>>

LoadImage(r) ==
  /\ At(r, "ship")
  /\ Load(r)
  /\ Touch(r)
  /\ \/ starts[r] # "no" /\ Goto(r, "run") /\ UNCHANGED <<success, cleanup>>
     \/ starts[r] = "no" /\ Delivered(r)
  /\ UNCHANGED <<env, source, built, clock, image, tag, notes, todo, issues,
                 round, starts, container>>

(* ssh or docker save may end with an error after docker load took effect.  *)
LoadImageFails(r) ==
  /\ At(r, "ship")
  /\ DockerFailed(r, "E_DOCKER_LOAD")
  /\ \/ Load(r) /\ Touch(r)
     \/ UNCHANGED <<remote, meddled>>
  /\ UNCHANGED container

(* docker run, as the model wrote it; several attempts if the port is taken. *)
Start(r) ==
  container' = [container EXCEPT
                  ![r] = IF starts[r] = "own" THEN remote[tag[r]] ELSE Foreign]

StartContainer(r) ==
  /\ At(r, "run")
  /\ Start(r)
  /\ Delivered(r)
  /\ UNCHANGED <<env, source, built, images, notes, todo, issues, round,
                 starts, meddled>>

(* docker run may fail with the container created, as for a port that is   *)
(* taken, and ssh after it was started.                                    *)
StartContainerFails(r) ==
  /\ At(r, "run")
  /\ DockerFailed(r, "E_DOCKER_RUN")
  /\ Start(r) \/ UNCHANGED container
  /\ UNCHANGED <<remote, meddled>>

(* subprocess.TimeoutExpired after the remote command took effect.         *)
LoadTimesOut(r) ==
  /\ At(r, "ship")
  /\ Load(r)
  /\ Touch(r)
  /\ Raised(r)
  /\ UNCHANGED <<dir, disk, jar, container>>

StartTimesOut(r) ==
  /\ At(r, "run")
  /\ Start(r)
  /\ Raised(r)
  /\ UNCHANGED <<dir, disk, jar, remote, meddled>>

Tick ==
  /\ clock < MaxClock
  /\ clock' = clock + 1
  /\ UNCHANGED <<env, source, built, image, remote, tag, report, pc, todo,
                 issues, round, starts, container, meddled>>

-----------------------------------------------------------------------------
Generate(r) == \/ Skip(r) \/ PlanSpec(r) \/ ClearProject(r)
               \/ ClearProjectFails(r) \/ WriteSpec(r)
               \/ \E f \in Files : WriteFile(r, f)

Repair(r) == \/ ValidateFiles(r) \/ EndRepair(r)
             \/ \E f \in Files : RepairFile(r, f)

Build(r) == \/ ChooseCommand(r) \/ RunBuild(r) \/ BuildFails(r)
            \/ BuildToolMissing(r) \/ ArtifactMissing(r) \/ CopyArtifact(r)

Deploy(r) == \/ RefuseTarget(r) \/ DryRun(r) \/ BuildImage(r)
             \/ BuildImageFails(r) \/ LoadImage(r) \/ LoadImageFails(r)
             \/ StartContainer(r) \/ StartContainerFails(r)
             \/ LoadTimesOut(r) \/ StartTimesOut(r)

Step(r) == Generate(r) \/ Repair(r) \/ Build(r) \/ Deploy(r) \/ Raises(r)

Next == (\E r \in Runs : Step(r)) \/ Tick

Spec == Init /\ [][Next]_vars

(* A run that was called is executed to its end: every subprocess and every *)
(* request to the model has a timeout.                                     *)
FairSpec == Spec /\ \A r \in Runs : WF_vars(Step(r))
-----------------------------------------------------------------------------
(* Properties.                                                             *)

TypeOK ==
  /\ framework \in {"spring", "fastapi"}
  /\ tool \in BOOLEAN
  /\ dryRun \in BOOLEAN
  /\ dir \in BOOLEAN /\ disk \in Trees
  /\ jar \in Trees \union {None} /\ artifact \in Trees \union {None}
  /\ clock \in Tags
  /\ image \in [Tags -> Trees \union {None}]
  /\ remote \in [Tags -> Trees \union {None}]
  /\ pc \in [Runs -> Points]
  /\ todo \in [Runs -> SUBSET Files]
  /\ mem \in [Runs -> Trees]
  /\ issues \in [Runs -> SUBSET Issues]
  /\ round \in [Runs -> 0..MaxRepairs]
  /\ notes \in [Runs -> SUBSET Codes]
  /\ success \in [Runs -> BOOLEAN]
  /\ cleanup \in [Runs -> SUBSET Cleanups]
  /\ starts \in [Runs -> Starts]
  /\ tag \in [Runs -> Tags]
  /\ container \in [Runs -> Trees \union {None, Foreign}]
  /\ meddled \in [Runs -> BOOLEAN]

(* A run that nobody disturbed archives exactly the files it validated     *)
(* last, and if the docker run of its plan names the plan's image, starts   *)
(* exactly them, even where the step fails: nothing an earlier run left    *)
(* behind, no file from before a repair, no jar of an earlier round.       *)
(* (generate_files removes the tree, repair_files keeps disk and           *)
(* existing_files in step, the Dockerfile rebuilds from the same tree.)    *)
(* What a docker run that names another image starts nobody looks at       *)
(* (agent.py:391-396).                                                     *)
ShippedIsValidated ==
  \A r \in Runs :
    ~meddled[r] =>
      /\ pc[r] \in {"image", "ship", "run"} => artifact = mem[r]
      /\ starts[r] = "own" /\ container[r] # None => container[r] = mem[r]

(* Disturbed or not, a run that reports success and was not skipped has no  *)
(* issue left, wrote no file the validator objects to, and has its image   *)
(* on the target, and its container if the plan has one (tools.docker_build *)
(* reports ok).                                                            *)
SuccessIsDelivered ==
  \A r \in Runs :
    success[r] /\ "skipped" \notin notes[r] =>
      /\ issues[r] = {}
      /\ \A f \in Files : /\ mem[r][f] # None
                          /\ mem[r][f].quality \notin {"flawed", "incomplete"}
      /\ dryRun \/ /\ remote[tag[r]] # None
                   /\ starts[r] # "no" => container[r] # None

(* A run that ends without success says why: an error code, or the issues   *)
(* run() turns into VALIDATION_ERROR notes.                                *)
FailureIsReasoned ==
  \A r \in Runs :
    pc[r] = "done" /\ ~success[r] => notes[r] # {} \/ issues[r] # {}

(* Unless an exception took it, the cleanup list a run reports names the    *)
(* project directory if files of this run are in it, and, if runs did not  *)
(* mix their files, the archived jar if it was built from them and the     *)
(* image if it was built from them and is on the target.  The image is     *)
(* also listed if the run created a container.  Only what a failed load or *)
(* run left on the target is not listed (agent.py:425-440): the run then    *)
(* reports that failure.                                                   *)
Mine(r, tree) == tree # None /\ \E f \in Files : tree[f] # None /\ tree[f].by = r

TargetStepFailed(r) == notes[r] \intersect {"E_DOCKER_LOAD", "E_DOCKER_RUN"} # {}

LeftoversAreListed ==
  \A r \in Runs :
    pc[r] = "done" /\ "exception" \notin notes[r] =>
      /\ dir /\ Mine(r, disk) => "project" \in cleanup[r]
      /\ Mine(r, artifact) => \/ "artifact" \in cleanup[r]
                               \/ \E q \in Runs : meddled[q]
      /\ (\E t \in Tags : Mine(r, remote[t])) =>
           \/ "image" \in cleanup[r] \/ TargetStepFailed(r)
           \/ \E q \in Runs : meddled[q]
      /\ container[r] # None => "image" \in cleanup[r] \/ TargetStepFailed(r)

(* Every run comes to its end: the repairs are bounded, also where a repair *)
(* changes nothing because the issue is on no file of the plan.            *)
EveryRunEnds == \A r \in Runs : <>(pc[r] = "done")

(* Each run drafts, judges, revises and delivers as BoundedRepair says.    *)
Stage(r) ==
  CASE pc[r] \in {"idle", "clear", "spec", "write", "validate"} -> "draft"
    [] pc[r] = "repair"     -> "rejected"
    [] pc[r] \in Approved   -> "approved"
    [] pc[r] = "done"       -> IF "skipped" \in notes[r] THEN "skipped"
                               ELSE IF success[r] THEN "delivered" ELSE "failed"

Draft == INSTANCE BoundedRepair
           WITH stage <- [r \in Runs |-> Stage(r)], rounds <- round

ImplementsBoundedRepair == Draft!Spec

(* SampleAppGen/AGENT.md:5: FastAPI is a supported framework.  Violated:    *)
(* sources nobody objects to cannot be packaged, because build_code has no *)
(* command for them and insists on a jar.                                  *)
FastApiIsPackaged ==
  \A r \in Runs :
    /\ framework = "fastapi"
    /\ \A f \in Files : mem[r][f] # None /\ mem[r][f].quality = "good"
    => "E_ARTIFACT_MISSING" \notin notes[r]
=============================================================================
