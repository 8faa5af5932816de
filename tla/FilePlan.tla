------------------------------ MODULE FilePlan ------------------------------
(***************************************************************************)
(* Which files a sample application consists of, and what becomes of them: *)
(* the model's file plan (or a fixed one in its place) is sanitized and    *)
(* completed by SampleAppGen/plan_builder.py, each file is written from a  *)
(* template or else by the model, code_validator judges the whole, and     *)
(* files with issues are written again while the budget lasts.             *)
(*                                                                         *)
(* One run, which no other disturbs; runs that do, and the packaging after *)
(* the build, are the subject of SampleApp, where a file's quality stands  *)
(* for the rules spelled out here.  Files are named without directories.   *)
(* Of a text counts only what code_validator looks for in it.              *)
(***************************************************************************)
EXTENDS Naturals, FiniteSets

CONSTANTS
  JavaSources, PythonSources, \* sources no template exists for,
  Applications,               \* those named ...Application.java,
  SpringBoardSources,         \* those in the package of the Spring board,
  ApiBoardSources,            \* those in the package of the FastAPI board
  Kotlin, Blocked, Others,    \* .kt; .kts and gradle-wrapper.jar; the rest
  MainClass,                  \* the entry point named after the application
  Proposable,                 \* files a model may plan
  MaxFiles,                   \* bound: how many of them at a time
  MaxRepairs                  \* max_repairs

VARIABLES
  request,    \* framework, build_system, and "gradle" in additional_request
  node,       \* the node of the agent's graph that comes next
  plan,       \* state["plan"]
  asked,      \* history: the entry points the model's own plan declares
  contents,   \* state["existing_files"]: what each text shows
  issues,     \* the paths of state["validation_issues"]
  round,      \* state["repair_round"]
  outcome

vars == <<request, node, plan, asked, contents, issues, round, outcome>>

-----------------------------------------------------------------------------
(* Files.                                                                  *)

Spec_md == "APPLICATION_SPEC.md"

(* What ensure_required_file_plan adds for a board.                         *)
SpringBoardFiles ==
  {"BoardApplication.java", "Post.java", "PostRequest.java",
   "PostResponse.java", "InMemoryPostRepository.java", "PostService.java",
   "PostController.java", "NotFoundException.java",
   "GlobalExceptionHandler.java", "PostControllerTest.java"}
ApiBoardFiles ==
  {"board/__init__.py", "board/models.py", "board/schemas.py",
   "board/repository.py", "board/service.py", "board/router.py",
   "board/exceptions.py", "board/tests/__init__.py",
   "board/tests/test_board_router.py"}

(* What code_validator asks for when it sees a board.                       *)
SpringBoardRequired == SpringBoardFiles \ {"PostControllerTest.java"}
ApiBoardRequired ==
  ApiBoardFiles \ {"board/tests/__init__.py", "board/tests/test_board_router.py"}

GradleFiles ==
  {"settings.gradle", "build.gradle", "gradlew", "gradlew.bat",
   "gradle-wrapper.properties"}

(* Files that resolve_file_content has a template for.                      *)
Templates ==
  SpringBoardFiles \union ApiBoardFiles \union GradleFiles \union
  {"pom.xml", "application.yml", "Dockerfile", "main.py", ".env.example",
   "README.md"}

Own   == JavaSources \union PythonSources \union Kotlin \union Blocked \union Others
Files == Templates \union Own

(* src/main/java/com/example/board/ and app/board/.  The test is elsewhere. *)
SpringBoard == SpringBoardRequired \union SpringBoardSources
ApiBoard    == ApiBoardFiles \union ApiBoardSources

Java   == SpringBoardFiles \union JavaSources
Python == ApiBoardFiles \union {"main.py"} \union PythonSources

FileAssumption ==
  /\ Templates \intersect Own = {}
  /\ JavaSources \intersect PythonSources = {}
  /\ (JavaSources \union PythonSources) \intersect (Kotlin \union Blocked \union Others) = {}
  /\ Applications \subseteq JavaSources
  /\ SpringBoardSources \subseteq JavaSources
  /\ ApiBoardSources \subseteq PythonSources
  /\ Kotlin \intersect (Blocked \union Others) = {}
  /\ Blocked \intersect Others = {}
  /\ MainClass \in Applications \ SpringBoardSources
  /\ "SampleAppApplication.java" \in Applications \ SpringBoardSources
  /\ "DemoController.java" \in JavaSources \ (Applications \union SpringBoardSources)
  /\ {Spec_md, "requirements.txt", "mvnw"} \subseteq Others
  /\ Proposable \subseteq Files

ASSUME FilesAssumption == FileAssumption
ASSUME BoundsAssumption == MaxFiles \in Nat /\ MaxRepairs \in Nat

(* Mutant: by the package's marker file.                                    *)
Touches_ByMarker(files, package) ==
  files \intersect package \intersect {"BoardApplication.java", "board/__init__.py"} # {}

(* A package with one of these is taken for a board.                        *)
Touches(files, package) == files \intersect package # {}

-----------------------------------------------------------------------------
(* Texts.                                                                  *)

(* What code_validator can find in a text: an entry point, a mention of     *)
(* jakarta.validation, spring-boot-starter-validation, a syntax error of   *)
(* Python, and how a Dockerfile starts the program.                        *)
Marks ==
  {"entrypoint", "jakarta", "starter", "broken", "uvicorn", "java -jar", "sh -c"}

(* resolve_file_content, for a file with a template.                        *)
TemplateText(p, framework) ==
  CASE p = "BoardApplication.java" -> {"entrypoint"}
    [] p \in {"PostRequest.java", "PostController.java"} -> {"jakarta"}
    [] p = "build.gradle" -> {"starter"}
    [] p = "Dockerfile" -> {IF framework = "fastapi" THEN "uvicorn" ELSE "java -jar"}
    [] OTHER -> {}

(* What the model may write, or the empty text when it does not answer.     *)
Answers(p) ==
  SUBSET ({"jakarta"} \union (IF p \in JavaSources THEN {"entrypoint"} ELSE {})
                      \union (IF p \in PythonSources THEN {"broken"} ELSE {}))

-----------------------------------------------------------------------------
(* Plans.                                                                  *)

Frameworks == {"spring", "fastapi", "unknown"}

Requests ==
  [framework : Frameworks, build : {"auto", "maven", "gradle"}, hint : BOOLEAN]

(* A model's plan: its framework, its files, those of them whose purpose    *)
(* says entry point, and whether its specification mentions                *)
(* jakarta.validation.                                                     *)
Proposals ==
  {proposal \in [framework : Frameworks, files : SUBSET Proposable,
                 entries : SUBSET (Proposable \intersect Java), jakarta : BOOLEAN] :
     /\ Cardinality(proposal.files) <= MaxFiles
     /\ proposal.entries \subseteq proposal.files}

Plans ==
  [framework : {"spring", "fastapi"}, build : {"maven", "gradle"},
   files : SUBSET Files, entries : SUBSET Java, spec : SUBSET {"jakarta"}]

NoPlan ==
  [framework |-> "spring", build |-> "maven", files |-> {}, entries |-> {},
   spec |-> {}]

BuildSystem(q, framework) ==
  IF framework # "spring" THEN "maven"
  ELSE IF q.build # "auto" THEN q.build
  ELSE IF q.hint THEN "gradle" ELSE "maven"

FallbackFiles(framework, build) ==
  IF framework = "fastapi"
  THEN {"requirements.txt", "main.py", ".env.example", "Dockerfile", "README.md"}
  ELSE {"SampleAppApplication.java", "DemoController.java", "application.yml",
        ".env.example", "Dockerfile", "README.md"}
       \union (IF build = "gradle" THEN {"settings.gradle", "build.gradle"}
                                   ELSE {"pom.xml"})

(* sanitize_file_plan.                                                     *)
Sanitized(files, framework, build) ==
  files \ (Blocked
           \union (IF framework = "spring" THEN Kotlin ELSE {})
           \union (IF framework = "spring" /\ build = "maven" THEN GradleFiles ELSE {}))

(* Files the plan takes for the entry point of a Spring application.        *)
Declared(files, entries) ==
  files \intersect (Applications \union {"BoardApplication.java"} \union entries)

(* Mutant: any Java source will do.                                         *)
NeedsMain_TrustsJava(files, entries) == files \intersect Java = {}

NeedsMain(files, entries) == Declared(files, entries) = {}

(* What ensure_required_file_plan wants to see, given what is there.        *)
Required(files, entries, framework, build) ==
  IF framework = "fastapi"
  THEN {"requirements.txt", "main.py", "Dockerfile"}
       \union (IF Touches(files, ApiBoard) THEN ApiBoardFiles ELSE {})
  ELSE (IF build = "gradle" THEN GradleFiles ELSE {"pom.xml"})
       \union {"application.yml", "Dockerfile"}
       \union (IF Touches(files, SpringBoard) THEN SpringBoardFiles ELSE {})
       \union (IF NeedsMain(files, entries) THEN {MainClass} ELSE {})

(* normalize_plan: the framework is the model's, the build system is not.   *)
Normalized(q, proposal) ==
  LET framework == proposal.framework
      build     == BuildSystem(q, framework)
      empty     == proposal.files = {}
      entries   == IF empty THEN {"SampleAppApplication.java"} ELSE proposal.entries
      kept      == Sanitized(IF empty THEN FallbackFiles(framework, build)
                                      ELSE proposal.files, framework, build)
  IN  [framework |-> framework, build |-> build,
       files     |-> kept \union Required(kept, entries, framework, build),
       entries   |-> entries,
       spec      |-> {m \in {"jakarta"} : proposal.jakarta}]

(* fallback_plan: neither sanitized nor completed.  Its specification       *)
(* repeats additional_request.                                             *)
FallbackPlan(q, spec) ==
  LET build == BuildSystem(q, q.framework)
  IN  [framework |-> q.framework, build |-> build,
       files     |-> FallbackFiles(q.framework, build),
       entries   |-> {"SampleAppApplication.java"},
       spec      |-> spec]

-----------------------------------------------------------------------------
(* code_validator, by the paths of its issues.  That a planned file is on   *)
(* disk was seen to by its writing.                                        *)

NoDescriptor == "pom.xml|build.gradle"
NoEntrypoint == "src/main/java/**"
NoStarter    == "build.gradle|pom.xml"
Build        == "BUILD"
PseudoPaths  == {NoDescriptor, NoEntrypoint, NoStarter, Build}

Marked(texts, mark) == {p \in DOMAIN texts : mark \in texts[p]}

Entrypoints(texts) == Marked(texts, "entrypoint") \intersect Java

DockerIssues(texts, start, banned) ==
  {p \in DOMAIN texts \intersect {"Dockerfile"} :
     texts[p] # {} /\ (start \notin texts[p] \/ texts[p] \intersect banned # {})}

ApiIssues(texts) ==
  ({"main.py"} \ DOMAIN texts)
  \union DockerIssues(texts, "uvicorn", {})
  \union (IF Touches(DOMAIN texts, ApiBoard)
          THEN ApiBoardRequired \ DOMAIN texts ELSE {})

StarterMissing(texts) ==
  /\ Marked(texts, "jakarta") # {}
  /\ Marked(texts, "starter") \intersect {"build.gradle", "pom.xml"} = {}

SpringIssues(texts) ==
  {p \in {NoDescriptor} : DOMAIN texts \intersect {"pom.xml", "build.gradle"} = {}}
  \union {p \in Entrypoints(texts) : Entrypoints(texts) # {p}}
  \union {p \in {NoEntrypoint} : Entrypoints(texts) = {}}
  \union {p \in {NoStarter} : StarterMissing(texts)}
  \union (IF Touches(DOMAIN texts, SpringBoard)
          THEN SpringBoardRequired \ DOMAIN texts ELSE {})
  \union DockerIssues(texts, "java -jar", {"sh -c"})

CodeIssues(framework, texts) ==
  (Marked(texts, "broken") \intersect Python)
  \union (IF framework = "fastapi" THEN ApiIssues(texts) ELSE SpringIssues(texts))

-----------------------------------------------------------------------------
(* The graph's nodes.                                                      *)

Nodes ==
  {"plan_spec", "generate_files", "validate_files", "repair_files",
   "package_artifacts", "end"}
Outcomes == {"none", "packaged", "build_failed", "rejected", "raised"}

Init ==
  /\ request \in Requests
  /\ node = "plan_spec"
  /\ plan = NoPlan
  /\ asked = {}
  /\ contents = [p \in {} |-> {}]
  /\ issues = {}
  /\ round = 0
  /\ outcome = "none"

(* The run is over.                                                        *)
End(result) ==
  /\ node' = "end"
  /\ outcome' = result

(* _resolve_language knows no language for the request's framework, or for  *)
(* the model's; or the model's answer is no JSON.                          *)
PlanRaises ==
  /\ node = "plan_spec"
  /\ End("raised")
  /\ UNCHANGED <<request, plan, asked, contents, issues, round>>

PlanSpec ==
  /\ node = "plan_spec"
  /\ request.framework # "unknown"
  /\ \E proposal \in Proposals :
       /\ proposal.framework # "unknown"
       /\ plan' = Normalized(request, proposal)
       /\ asked' = Declared(proposal.files, proposal.entries)
  /\ node' = "generate_files"
  /\ UNCHANGED <<request, contents, issues, round, outcome>>

(* No model, no answer, or an answer that is no plan.                       *)
FallBack ==
  /\ node = "plan_spec"
  /\ request.framework # "unknown"
  /\ \E spec \in SUBSET {"jakarta"} : plan' = FallbackPlan(request, spec)
  /\ node' = "generate_files"
  /\ UNCHANGED <<request, asked, contents, issues, round, outcome>>

(* The files with a template get it, the others what the model answers.     *)
Write(files, texts) ==
  \E answers \in [files \ Templates -> SUBSET {"jakarta", "entrypoint", "broken"}] :
    /\ \A p \in files \ Templates : answers[p] \in Answers(p)
    /\ contents' = [p \in DOMAIN texts |->
                      IF p \notin files THEN texts[p]
                      ELSE IF p \in Templates THEN TemplateText(p, plan.framework)
                      ELSE answers[p]]

(* The specification comes first, and is written over when it is planned.   *)
GenerateFiles ==
  /\ node = "generate_files"
  /\ Write(plan.files, [p \in plan.files \union {Spec_md} |-> plan.spec])
  /\ node' = "validate_files"
  /\ UNCHANGED <<request, plan, asked, issues, round, outcome>>

(* Mutant: one round more.                                                  *)
BudgetLeft_OneMore == round <= MaxRepairs

BudgetLeft == round < MaxRepairs

(* _route_after_validation belongs to the step: nothing comes between.      *)
ValidateFiles ==
  /\ node = "validate_files"
  /\ issues' = CodeIssues(plan.framework, contents)
  /\ IF issues' = {} THEN node' = "package_artifacts" /\ UNCHANGED outcome
     ELSE IF BudgetLeft THEN node' = "repair_files" /\ UNCHANGED outcome
     ELSE End("rejected")
  /\ UNCHANGED <<request, plan, asked, contents, round>>

(* Only planned files are written again, those with a template from it.     *)
RepairFiles ==
  /\ node = "repair_files"
  /\ Write(issues \intersect plan.files, contents)
  /\ round' = round + 1
  /\ node' = "validate_files"
  /\ UNCHANGED <<request, plan, asked, issues, outcome>>

(* build_code finds a command by the descriptors it sees; the wrapper's jar *)
(* is never there.                                                         *)
HasCommand(files) == files \intersect {"build.gradle", "pom.xml", "mvnw"} # {}

BuildSucceeds ==
  /\ node = "package_artifacts"
  /\ HasCommand(plan.files)
  /\ End("packaged")
  /\ UNCHANGED <<request, plan, asked, contents, issues, round>>

(* The compiler names sources, or the output is the issue, or there is none *)
(* (_parse_build_issues).  A template it names stays as it is, like BUILD. *)
BuildFails ==
  /\ node = "package_artifacts"
  /\ \E named \in {{Build}} \union SUBSET (plan.files \intersect JavaSources) :
       /\ issues' = named
       /\ IF named # {} /\ BudgetLeft
          THEN node' = "repair_files" /\ UNCHANGED outcome
          ELSE End("build_failed")
  /\ UNCHANGED <<request, plan, asked, contents, round>>

Next == \/ PlanRaises \/ PlanSpec \/ FallBack \/ GenerateFiles
        \/ ValidateFiles \/ RepairFiles \/ BuildSucceeds \/ BuildFails

Spec == Init /\ [][Next]_vars
-----------------------------------------------------------------------------
(* Properties.                                                             *)

TypeOK ==
  /\ request \in Requests
  /\ node \in Nodes
  /\ plan \in Plans
  /\ asked \subseteq Java
  /\ DOMAIN contents \subseteq Files
  /\ contents \in [DOMAIN contents -> SUBSET Marks]
  /\ issues \subseteq Files \union PseudoPaths
  /\ round \in 0..MaxRepairs
  /\ outcome \in Outcomes

(* Its files have passed code_validator as they stand.                      *)
Accepted == node = "package_artifacts" \/ outcome \in {"packaged", "build_failed"}

(* Two kinds of project the planner and the templates themselves stand against.  *)
(* A board under Maven: PostRequest.java is written with jakarta.validation, *)
(* and pom.xml without spring-boot-starter-validation.  A board completed   *)
(* with BoardApplication.java, which then stands beside the entry point the *)
(* plan declared before, or else beside the main class that is added too.   *)
BoardUnderMaven ==
  plan.framework = "spring" /\ plan.build = "maven" /\ Touches(plan.files, SpringBoard)

BoardCompleted ==
  /\ plan.framework = "spring"
  /\ Touches(plan.files, SpringBoard)
  /\ "BoardApplication.java" \notin asked

(* The model's own plan declares two entry points, or calls one a file      *)
(* whose template is none.                                                 *)
WrongPlan ==
  /\ plan.framework = "spring"
  /\ \/ \E p, q \in asked : p # q
     \/ asked \intersect (Templates \ {"BoardApplication.java"}) # {}

(* A text the model wrote is not what the plan calls for: it does not parse, *)
(* it is an entry point where none is declared or none where one is, or    *)
(* mentions jakarta.validation, for which Maven projects lack the starter. *)
WrongWords ==
  \E p \in DOMAIN contents \ Templates :
    \/ "broken" \in contents[p]
    \/ /\ plan.framework = "spring"
       /\ "entrypoint" \in contents[p] <=> p \notin Declared(plan.files, plan.entries)
       /\ p \in Java
    \/ /\ plan.framework = "spring" /\ plan.build = "maven"
       /\ "jakarta" \in contents[p]

(* What the planner adds and the templates say is what the validator asks   *)
(* for, boards apart: any other project whose files the model wrote as the  *)
(* plan calls for, and whose entry points it declared as they are, is never *)
(* rejected.  (ensure_required_file_plan, resolve_file_content and         *)
(* code_validator state the demands three times, and no repair reaches an   *)
(* issue on a path that was not planned.  That boards are rejected for the  *)
(* planner's sake no line of the repository asks for: BoardUnderMaven and   *)
(* BoardCompleted are exceptions, not demands.)                            *)
VerdictIsDue ==
  outcome = "rejected" =>
    BoardUnderMaven \/ BoardCompleted \/ WrongPlan \/ WrongWords

(* The files of the board that the templates import.                        *)
SpringImports(p) ==
  CASE p \in {"PostRequest.java", "PostResponse.java", "InMemoryPostRepository.java"} ->
         {"Post.java"}
    [] p = "PostService.java" ->
         {"Post.java", "PostRequest.java", "PostResponse.java", "InMemoryPostRepository.java"}
    [] p = "PostController.java" ->
         {"PostRequest.java", "PostResponse.java", "NotFoundException.java", "PostService.java"}
    [] p = "GlobalExceptionHandler.java" -> {"NotFoundException.java"}
    [] OTHER -> {}

ApiImports(p) ==
  CASE p = "main.py" -> {"board/exceptions.py", "board/router.py"}
    [] p = "board/router.py" ->
         {"board/exceptions.py", "board/repository.py", "board/schemas.py",
          "board/service.py"}
    [] p = "board/tests/test_board_router.py" ->
         {"board/exceptions.py", "board/repository.py", "board/router.py",
          "board/service.py"}
    [] p = "board/service.py" ->
         {"board/models.py", "board/repository.py", "board/schemas.py"}
    [] p = "board/repository.py" -> {"board/models.py"}
    [] OTHER -> {}

Imports(p) ==
  IF plan.framework = "fastapi" THEN ApiImports(p) ELSE SpringImports(p)

Missing(files) == (UNION {Imports(p) : p \in files}) \ files

(* Every file a template of the project imports is planned as well, with    *)
(* one exception: main.py imports the board whether there is one or not.   *)
(* (A board a model plans in part is completed; code_validator knows which *)
(* files a board consists of, but not what they, or main.py, import.)      *)
PlannedIsClosed ==
  node # "plan_spec" /\ outcome # "raised" =>
    Missing(plan.files) =
      IF plan.framework = "fastapi" /\ ~ Touches(plan.files, ApiBoard)
      THEN ApiImports("main.py") ELSE {}

(* The sources are drafted, judged and revised as BoundedRepair says.       *)
Stage ==
  CASE node \in {"plan_spec", "generate_files", "validate_files"} -> "draft"
    [] node = "repair_files" -> "rejected"
    [] node = "package_artifacts" -> "approved"
    [] OTHER -> IF outcome = "packaged" THEN "delivered" ELSE "failed"

Draft == INSTANCE BoundedRepair
           WITH Runs <- {"run"}, stage <- [r \in {"run"} |-> Stage],
                rounds <- [r \in {"run"} |-> round]

ImplementsBoundedRepair == Draft!Safety
=============================================================================
