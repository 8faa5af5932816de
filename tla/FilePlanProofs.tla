--------------------------- MODULE FilePlanProofs ---------------------------
(***************************************************************************)
(* Theorems about FilePlan, for every set of own sources, every answer of  *)
(* the model and every repair budget, with their proofs.                   *)
(***************************************************************************)
EXTENDS FilePlan, TLAPS

-----------------------------------------------------------------------------
(* Texts.                                                                  *)

(* Nothing is written that code_validator could not read.                   *)
LEMMA TextsAreMarks ==
  ASSUME NEW p, NEW framework
  PROVE  /\ TemplateText(p, framework) \subseteq Marks
         /\ Answers(p) \subseteq SUBSET Marks
<1>1. TemplateText(p, framework) \subseteq Marks
  BY DEF TemplateText, Marks
<1>2. Answers(p) \subseteq SUBSET Marks
  BY DEF Answers, Marks
<1> QED BY <1>1, <1>2

-----------------------------------------------------------------------------
(* Plans.                                                                  *)

(* What a plan has to offer to a validator.                                 *)
Complete(p) ==
  /\ p \in Plans
  /\ p.framework = "fastapi" =>
       /\ "main.py" \in p.files
       /\ Touches(p.files, ApiBoard) => ApiBoardFiles \subseteq p.files
  /\ p.framework = "spring" =>
       /\ Declared(p.files, p.entries) # {}
       /\ Touches(p.files, SpringBoard) => SpringBoardFiles \subseteq p.files
       /\ p.build = "maven" => "pom.xml" \in p.files /\ "build.gradle" \notin p.files
       /\ p.build = "gradle" => "build.gradle" \in p.files

(* The build system is one of the two.                                      *)
LEMMA BuildSystems ==
  ASSUME NEW q \in Requests, NEW framework
  PROVE  BuildSystem(q, framework) \in {"maven", "gradle"}
BY DEF BuildSystem, Requests

(* The fixed files exist, declare an entry point and touch no board.        *)
LEMMA FallbackFits ==
  ASSUME NEW framework \in {"spring", "fastapi"}, NEW build \in {"maven", "gradle"}
  PROVE  /\ FallbackFiles(framework, build) \subseteq Files
         /\ framework = "fastapi" => "main.py" \in FallbackFiles(framework, build)
         /\ framework = "spring" =>
              /\ "SampleAppApplication.java" \in FallbackFiles(framework, build)
              /\ build = "maven" => "pom.xml" \in FallbackFiles(framework, build)
              /\ build = "maven" => "build.gradle" \notin FallbackFiles(framework, build)
              /\ build = "gradle" => "build.gradle" \in FallbackFiles(framework, build)
         /\ ~ Touches(FallbackFiles(framework, build), ApiBoard)
         /\ ~ Touches(FallbackFiles(framework, build), SpringBoard)
<1> USE FilesAssumption DEF FileAssumption, Own
<1>1. FallbackFiles(framework, build) \subseteq Files
  BY DEF FallbackFiles, Files, Templates, GradleFiles
<1>2. framework = "fastapi" => "main.py" \in FallbackFiles(framework, build)
  BY DEF FallbackFiles
<1>3. framework = "spring" =>
        /\ "SampleAppApplication.java" \in FallbackFiles(framework, build)
        /\ build = "maven" => "pom.xml" \in FallbackFiles(framework, build)
        /\ build = "maven" => "build.gradle" \notin FallbackFiles(framework, build)
        /\ build = "gradle" => "build.gradle" \in FallbackFiles(framework, build)
  BY DEF FallbackFiles
<1>4. ~ Touches(FallbackFiles(framework, build), ApiBoard)
  <2>1. FallbackFiles(framework, build) \intersect ApiBoardFiles = {}
    BY DEF FallbackFiles, ApiBoardFiles
  <2>2. FallbackFiles(framework, build) \intersect PythonSources = {}
    BY DEF FallbackFiles, Templates, GradleFiles
  <2> QED BY <2>1, <2>2 DEF Touches, ApiBoard
<1>5. ~ Touches(FallbackFiles(framework, build), SpringBoard)
  <2>1. FallbackFiles(framework, build) \intersect SpringBoardFiles = {}
    BY DEF FallbackFiles, SpringBoardFiles
  <2>2. FallbackFiles(framework, build) \intersect SpringBoardSources = {}
    BY DEF FallbackFiles, Templates, GradleFiles
  <2> QED BY <2>1, <2>2 DEF Touches, SpringBoard, SpringBoardRequired
<1> QED BY <1>1, <1>2, <1>3, <1>4, <1>5

(* A plan without a model offers all that is asked for.                     *)
LEMMA FallbackIsComplete ==
  ASSUME NEW q \in Requests, q.framework # "unknown", NEW spec \in SUBSET {"jakarta"}
  PROVE  Complete(FallbackPlan(q, spec))
<1> DEFINE f == q.framework
           b == BuildSystem(q, f)
           p == FallbackPlan(q, spec)
<1>1. f \in {"spring", "fastapi"} /\ b \in {"maven", "gradle"}
  BY BuildSystems DEF Requests, Frameworks
<1>2. /\ p.framework = f /\ p.build = b /\ p.files = FallbackFiles(f, b)
      /\ p.entries = {"SampleAppApplication.java"} /\ p.spec = spec
  BY DEF FallbackPlan
<1>3. "SampleAppApplication.java" \in Applications /\ Applications \subseteq Java
  BY FilesAssumption DEF FileAssumption, Java
<1>4. p \in Plans
  BY <1>1, <1>2, <1>3, FallbackFits DEF FallbackPlan, Plans
<1>5. f = "spring" => Declared(p.files, p.entries) # {}
  BY <1>1, <1>2, <1>3, FallbackFits DEF Declared
<1> QED BY <1>1, <1>2, <1>4, <1>5, FallbackFits DEF Complete

(* What is added for a framework exists.                                    *)
LEMMA RequiredFiles ==
  ASSUME NEW files, NEW entries, NEW framework, NEW build
  PROVE  Required(files, entries, framework, build) \subseteq Files
<1>1. MainClass \in Files /\ "requirements.txt" \in Files
  BY FilesAssumption DEF FileAssumption, Files, Own
<1>2. Templates \subseteq Files
  BY DEF Files
<1> HIDE DEF Files
<1> QED BY <1>1, <1>2 DEF Required, Templates

(* A plan of the model's offers, once normalized, all that is asked for.    *)
LEMMA NormalizedIsComplete ==
  ASSUME NEW q \in Requests, NEW proposal \in Proposals, proposal.framework # "unknown"
  PROVE  Complete(Normalized(q, proposal))
<1> DEFINE f     == proposal.framework
           b     == BuildSystem(q, f)
           empty == proposal.files = {}
           e     == IF empty THEN {"SampleAppApplication.java"} ELSE proposal.entries
           base  == IF empty THEN FallbackFiles(f, b) ELSE proposal.files
           kept  == Sanitized(base, f, b)
           added == Required(kept, e, f, b)
           p     == Normalized(q, proposal)
<1>1. f \in {"spring", "fastapi"} /\ b \in {"maven", "gradle"}
  BY BuildSystems DEF Proposals, Frameworks
<1>2. /\ p.framework = f /\ p.build = b /\ p.files = kept \union added
      /\ p.entries = e /\ p.spec = {m \in {"jakarta"} : proposal.jakarta}
  BY DEF Normalized
<1>3. e \subseteq Java
  BY FilesAssumption DEF FileAssumption, Java, Proposals
<1>4. kept \subseteq Files
  <2>1. base \subseteq Files
    BY <1>1, FallbackFits, FilesAssumption DEF FileAssumption, Proposals
  <2> QED BY <2>1 DEF Sanitized
<1>5. added \subseteq Files
  BY RequiredFiles
<1>6. p \in Plans
  <2> HIDE DEF kept, added, e, f, b
  <2> QED BY <1>1, <1>2, <1>3, <1>4, <1>5 DEF Normalized, Plans, kept, added, e, f, b
<1> HIDE DEF kept, e, p, b
<1>7. ASSUME f = "fastapi"
      PROVE  Complete(p)
  <2>1. "main.py" \in added
    BY <1>7 DEF Required
  <2>2. CASE Touches(kept, ApiBoard)
    <3>1. ApiBoardFiles \subseteq added
      BY <1>7, <2>2 DEF Required
    <3> QED BY <1>2, <1>6, <1>7, <2>1, <3>1 DEF Complete
  <2>3. CASE ~ Touches(kept, ApiBoard)
    <3>1. added = {"requirements.txt", "main.py", "Dockerfile"}
      BY <1>7, <2>3 DEF Required
    <3>2. ~ Touches(added, ApiBoard)
      <4>1. "requirements.txt" \notin ApiBoardSources
        BY FilesAssumption DEF FileAssumption
      <4>2. {"main.py", "Dockerfile"} \intersect ApiBoardSources = {}
        BY FilesAssumption DEF FileAssumption, Templates, Own
      <4> QED BY <3>1, <4>1, <4>2 DEF Touches, ApiBoard, ApiBoardFiles
    <3>3. ~ Touches(kept \union added, ApiBoard)
      BY <2>3, <3>2 DEF Touches
    <3> QED BY <1>2, <1>6, <1>7, <2>1, <3>3 DEF Complete
  <2> QED BY <2>2, <2>3
<1>8. ASSUME f = "spring"
      PROVE  Complete(p)
  <2>1. Declared(p.files, p.entries) # {}
    <3>1. MainClass \in Applications
      BY FilesAssumption DEF FileAssumption
    <3>2. Declared(kept, e) = {} => MainClass \in added
      BY <1>8 DEF Required, NeedsMain
    <3> QED BY <1>2, <3>1, <3>2 DEF Declared
  <2>2. Touches(p.files, SpringBoard) => SpringBoardFiles \subseteq p.files
    <3>1. CASE Touches(kept, SpringBoard)
      BY <1>2, <1>8, <3>1 DEF Required
    <3>2. CASE ~ Touches(kept, SpringBoard)
      <4>1. added \subseteq GradleFiles \union {"pom.xml", "application.yml", "Dockerfile", MainClass}
        BY <1>8, <3>2 DEF Required
      <4>2. GradleFiles \union {"pom.xml", "application.yml", "Dockerfile"} \subseteq Templates
        BY DEF Templates
      <4>3. Templates \intersect SpringBoardSources = {} /\ MainClass \notin SpringBoardSources
        BY FilesAssumption DEF FileAssumption, Own
      <4>4. SpringBoardFiles \subseteq Templates /\ MainClass \notin Templates
        BY FilesAssumption DEF FileAssumption, Own, Templates
      <4>5. SpringBoardFiles \intersect (GradleFiles \union {"pom.xml", "application.yml", "Dockerfile"}) = {}
        BY DEF SpringBoardFiles, GradleFiles
      <4>6. ~ Touches(added, SpringBoard)
        <5> HIDE DEF added
        <5> QED BY <4>1, <4>2, <4>3, <4>4, <4>5 DEF Touches, SpringBoard, SpringBoardRequired
      <4> QED BY <1>2, <3>2, <4>6 DEF Touches
    <3> QED BY <3>1, <3>2
  <2>3. b = "maven" => "pom.xml" \in p.files /\ "build.gradle" \notin p.files
    <3>1. ASSUME b = "maven"
          PROVE  "build.gradle" \notin kept
      BY <1>8, <3>1 DEF Sanitized, GradleFiles, kept
    <3>2. ASSUME b = "maven"
          PROVE  "build.gradle" \notin added
      <4>1. MainClass # "build.gradle"
        BY FilesAssumption DEF FileAssumption, Own, Templates, GradleFiles
      <4> QED BY <1>8, <3>2, <4>1 DEF Required, SpringBoardFiles
    <3>3. b = "maven" => "pom.xml" \in added
      BY <1>8 DEF Required
    <3> QED BY <1>2, <3>1, <3>2, <3>3
  <2>4. b = "gradle" => "build.gradle" \in p.files
    BY <1>2, <1>8 DEF Required, GradleFiles
  <2> QED BY <1>2, <1>6, <1>8, <2>1, <2>2, <2>3, <2>4 DEF Complete
<1>9. Complete(p)
  BY <1>1, <1>7, <1>8
<1> QED BY <1>9 DEF p

(* Boards that are completed apart, a plan declares the entry points its     *)
(* model declares, or a single one that is one.                            *)
Declares(p, entrypoints) ==
  p.framework = "spring" =>
    \/ Declared(p.files, p.entries) \subseteq entrypoints
    \/ \E main : /\ Declared(p.files, p.entries) = {main}
                 /\ main \notin Templates
    \/ /\ Touches(p.files, SpringBoard)
       /\ "BoardApplication.java" \notin entrypoints

(* Of the fixed files one is an entry point.                                *)
LEMMA FallbackDeclares ==
  ASSUME NEW build \in {"maven", "gradle"}
  PROVE  Declared(FallbackFiles("spring", build), {"SampleAppApplication.java"})
           = {"SampleAppApplication.java"}
<1>1. "DemoController.java" \notin Applications /\ "SampleAppApplication.java" \in Applications
  BY FilesAssumption DEF FileAssumption
<1>2. \A x \in Templates : x \notin Applications
  BY FilesAssumption DEF FileAssumption, Own
<1>3. {"application.yml", ".env.example", "Dockerfile", "README.md", "settings.gradle",
       "build.gradle", "pom.xml"} \subseteq Templates
  BY DEF Templates, GradleFiles
<1> QED BY <1>1, <1>2, <1>3 DEF Declared, FallbackFiles

LEMMA FallbackPlanDeclares ==
  ASSUME NEW q \in Requests, NEW spec, NEW entrypoints
  PROVE  Declares(FallbackPlan(q, spec), entrypoints)
<1> DEFINE p == FallbackPlan(q, spec)
<1>1. /\ p.framework = q.framework
      /\ p.files = FallbackFiles(q.framework, BuildSystem(q, q.framework))
      /\ p.entries = {"SampleAppApplication.java"}
  BY DEF FallbackPlan
<1>2. "SampleAppApplication.java" \notin Templates
  BY FilesAssumption DEF FileAssumption, Own
<1>3. p.framework = "spring" => Declared(p.files, p.entries) = {"SampleAppApplication.java"}
  BY <1>1, BuildSystems, FallbackDeclares
<1> QED BY <1>2, <1>3 DEF Declares

LEMMA NormalizedDeclares ==
  ASSUME NEW q \in Requests, NEW proposal \in Proposals
  PROVE  Declares(Normalized(q, proposal), Declared(proposal.files, proposal.entries))
<1> DEFINE f     == proposal.framework
           b     == BuildSystem(q, f)
           empty == proposal.files = {}
           e     == IF empty THEN {"SampleAppApplication.java"} ELSE proposal.entries
           base  == IF empty THEN FallbackFiles(f, b) ELSE proposal.files
           kept  == Sanitized(base, f, b)
           added == Required(kept, e, f, b)
           p     == Normalized(q, proposal)
           a     == Declared(proposal.files, proposal.entries)
<1> SUFFICES ASSUME f = "spring"
             PROVE  Declares(p, a)
  BY DEF Declares, Normalized
<1>1. /\ p.framework = f /\ p.files = kept \union added /\ p.entries = e
  BY DEF Normalized
<1>2. b \in {"maven", "gradle"}
  BY BuildSystems
<1>3. MainClass \in Applications /\ MainClass \notin Templates
      /\ Applications \intersect Templates = {}
  BY FilesAssumption DEF FileAssumption, Own
<1>4. \A x \in Java : x \notin Kotlin \union Blocked \union GradleFiles
  <2>1. \A x \in JavaSources : x \notin Kotlin \union Blocked \union Templates
    BY FilesAssumption DEF FileAssumption, Own
  <2>2. GradleFiles \subseteq Templates /\ SpringBoardFiles \subseteq Templates
    BY DEF Templates
  <2>3. \A x \in SpringBoardFiles : x \notin GradleFiles
    BY DEF SpringBoardFiles, GradleFiles
  <2>4. \A x \in Templates : x \notin Kotlin \union Blocked
    BY FilesAssumption DEF FileAssumption, Own
  <2> QED BY <2>1, <2>2, <2>3, <2>4 DEF Java
<1>5. e \subseteq kept
  <2>1. e \subseteq base
    BY DEF Proposals, FallbackFiles
  <2>2. e \subseteq Java
    BY FilesAssumption DEF FileAssumption, Java, Proposals
  <2> QED BY <1>4, <2>1, <2>2 DEF Sanitized
<1>6. \A x \in added : x \in Applications \union {"BoardApplication.java"} =>
        \/ x = MainClass /\ Declared(kept, e) = {}
        \/ x = "BoardApplication.java" /\ Touches(kept, SpringBoard)
  <2>1. added \subseteq GradleFiles \union {"pom.xml", "application.yml", "Dockerfile"}
                   \union (IF Touches(kept, SpringBoard) THEN SpringBoardFiles ELSE {})
                   \union (IF NeedsMain(kept, e) THEN {MainClass} ELSE {})
    BY DEF Required
  <2>2. "BoardApplication.java" \notin GradleFiles \union {"pom.xml", "application.yml", "Dockerfile"}
    BY DEF GradleFiles
  <2>3. GradleFiles \union {"pom.xml", "application.yml", "Dockerfile"} \union SpringBoardFiles
          \subseteq Templates
    BY DEF Templates
  <2> HIDE DEF added
  <2> QED BY <1>3, <2>1, <2>2, <2>3 DEF NeedsMain, Templates, SpringBoardFiles
<1>7. CASE Touches(kept, SpringBoard) /\ "BoardApplication.java" \notin a
  <2>1. Touches(p.files, SpringBoard)
    BY <1>1, <1>7 DEF Touches
  <2> QED BY <1>7, <2>1 DEF Declares
<1>8. CASE ~ (Touches(kept, SpringBoard) /\ "BoardApplication.java" \notin a)
  <2> HIDE DEF added, e, kept, a, p
  <2>1. ~ empty => Declared(kept, e) = a
    <3>1. ASSUME ~ empty
          PROVE  \A x \in Java : x \in kept <=> x \in proposal.files
      BY <1>4, <3>1 DEF kept, Sanitized
    <3>2. Applications \union {"BoardApplication.java"} \union proposal.entries \subseteq Java
      BY FilesAssumption DEF FileAssumption, Java, Proposals, SpringBoardFiles
    <3> QED BY <3>1, <3>2 DEF Declared, a, e
  <2>2. empty => Declared(kept, e) = {"SampleAppApplication.java"} /\ ~ Touches(kept, SpringBoard)
    <3>1. ASSUME empty
          PROVE  /\ kept \subseteq FallbackFiles("spring", b)
                 /\ e = {"SampleAppApplication.java"}
      BY <3>1 DEF kept, e, Sanitized
    <3>2. empty => Declared(kept, e) \subseteq {"SampleAppApplication.java"}
      BY <1>2, <3>1, FallbackDeclares DEF Declared
    <3>3. empty => "SampleAppApplication.java" \in Declared(kept, e)
      BY <1>5, <3>1 DEF Declared
    <3>4. empty => ~ Touches(kept, SpringBoard)
      BY <1>2, <3>1, FallbackFits DEF Touches
    <3> QED BY <3>2, <3>3, <3>4
  <2>3. "BoardApplication.java" \in a => "BoardApplication.java" \in kept /\ ~ empty
    <3>1. "BoardApplication.java" \in Java
      BY DEF Java, SpringBoardFiles
    <3> QED BY <1>4, <3>1 DEF a, Declared, kept, Sanitized
  <2>4. CASE Declared(kept, e) = {}
    <3>1. ~ empty /\ a = {}
      BY <2>1, <2>2, <2>4
    <3>2. ~ Touches(kept, SpringBoard)
      BY <1>8, <3>1
    <3>3. Declared(p.files, p.entries) \subseteq {MainClass}
      BY <1>1, <1>5, <1>6, <2>4, <3>2 DEF Declared
    <3>4. \/ Declared(p.files, p.entries) = {MainClass}
          \/ Declared(p.files, p.entries) \subseteq a
      BY <3>3
    <3> QED BY <1>3, <3>4 DEF Declares
  <2>5. CASE Declared(kept, e) # {}
    <3>1. Declared(p.files, p.entries) \subseteq Declared(kept, e)
      <4>1. "BoardApplication.java" \in added => "BoardApplication.java" \in kept
        BY <1>3, <1>6, <1>8, <2>3, <2>5
      <4> QED BY <1>1, <1>5, <1>6, <2>5, <4>1 DEF Declared
    <3>2. CASE empty
      <4>1. "SampleAppApplication.java" \notin Templates
        BY FilesAssumption DEF FileAssumption, Own
      <4>2. \/ Declared(p.files, p.entries) = {"SampleAppApplication.java"}
            \/ Declared(p.files, p.entries) \subseteq a
        BY <2>2, <3>1, <3>2
      <4> QED BY <4>1, <4>2 DEF Declares
    <3>3. CASE ~ empty
      BY <2>1, <3>1, <3>3 DEF Declares
    <3> QED BY <3>2, <3>3
  <2>6. Declares(p, a)
    BY <2>4, <2>5
  <2> QED BY <2>6 DEF p, a
<1> QED BY <1>7, <1>8

-----------------------------------------------------------------------------
(* Contents.                                                               *)

(* A file with a template has its text, another what a model may write.     *)
TextFits(p, text) ==
  text \in IF p \in Templates THEN {TemplateText(p, plan.framework)} ELSE Answers(p)

TextsFit(texts) ==
  /\ DOMAIN texts = plan.files \union {Spec_md}
  /\ texts = [p \in DOMAIN texts |-> texts[p]]
  /\ \A p \in DOMAIN texts : TextFits(p, texts[p])

(* Files that are written have such texts, whatever they had before.        *)
LEMMA WriteFits ==
  ASSUME NEW files, NEW texts, files \subseteq DOMAIN texts,
         DOMAIN texts = plan.files \union {Spec_md},
         \A p \in DOMAIN texts \ files : TextFits(p, texts[p]),
         Write(files, texts), UNCHANGED plan
  PROVE  TextsFit(contents)'
<1>1. PICK answers \in [files \ Templates -> SUBSET {"jakarta", "entrypoint", "broken"}] :
        /\ \A p \in files \ Templates : answers[p] \in Answers(p)
        /\ contents' = [p \in DOMAIN texts |->
                          IF p \notin files THEN texts[p]
                          ELSE IF p \in Templates THEN TemplateText(p, plan.framework)
                          ELSE answers[p]]
  BY DEF Write
<1>2. /\ DOMAIN contents' = plan'.files \union {Spec_md}
      /\ contents' = [p \in DOMAIN contents' |-> contents'[p]]
  BY <1>1
<1>3. ASSUME NEW p \in DOMAIN contents'
      PROVE  TextFits(p, contents[p])'
  <2>1. p \in DOMAIN texts
    BY <1>2, <1>3
  <2>2. TextFits(p, contents'[p])
    <3>1. CASE p \notin files
      BY <1>1, <2>1, <3>1
    <3>2. CASE p \in files /\ p \in Templates
      BY <1>1, <2>1, <3>2 DEF TextFits
    <3>3. CASE p \in files /\ p \notin Templates
      BY <1>1, <2>1, <3>3 DEF TextFits
    <3> QED BY <3>1, <3>2, <3>3
  <2> QED BY <2>2 DEF TextFits
<1> QED BY <1>2, <1>3 DEF TextsFit

(* Such texts are functions into sets of marks.                             *)
LEMMA FittingTextsAreTyped ==
  ASSUME NEW texts, TextsFit(texts), plan \in Plans
  PROVE  DOMAIN texts \subseteq Files /\ texts \in [DOMAIN texts -> SUBSET Marks]
<1>1. DOMAIN texts \subseteq Files
  BY FilesAssumption DEF TextsFit, Plans, FileAssumption, Files, Own
<1>2. ASSUME NEW p \in DOMAIN texts
      PROVE  texts[p] \in SUBSET Marks
  <2>1. TextFits(p, texts[p])
    BY DEF TextsFit
  <2>2. TemplateText(p, plan.framework) \subseteq Marks
    BY TextsAreMarks
  <2>3. Answers(p) \subseteq SUBSET Marks
    BY TextsAreMarks
  <2> QED BY <2>1, <2>2, <2>3 DEF TextFits
<1> QED BY <1>1, <1>2 DEF TextsFit

(* What a template can show.                                                *)
LEMMA TemplateMarks ==
  ASSUME NEW p \in Templates, NEW framework
  PROVE  /\ "broken" \notin TemplateText(p, framework)
         /\ "entrypoint" \in TemplateText(p, framework) <=> p = "BoardApplication.java"
         /\ "jakarta" \in TemplateText(p, framework)
              <=> p \in {"PostRequest.java", "PostController.java"}
         /\ "starter" \in TemplateText(p, framework) <=> p = "build.gradle"
BY DEF TemplateText

-----------------------------------------------------------------------------
(* The validator's view of a complete plan.                                 *)

(* The specification belongs to no board and has no template.               *)
LEMMA SpecIsApart ==
  /\ Spec_md \notin Templates
  /\ Spec_md \notin ApiBoard
  /\ Spec_md \notin SpringBoard
<1>1. Spec_md \in Others
  BY FilesAssumption DEF FileAssumption
<1>2. Spec_md \notin Templates \union PythonSources \union JavaSources
  BY <1>1, FilesAssumption DEF FileAssumption, Own
<1>3. ApiBoard \subseteq Templates \union PythonSources
  BY FilesAssumption DEF FileAssumption, ApiBoard, Templates
<1>4. SpringBoard \subseteq Templates \union JavaSources
  BY FilesAssumption DEF FileAssumption, SpringBoard, SpringBoardRequired, Templates
<1> QED BY <1>2, <1>3, <1>4

(* The Dockerfile's template fits the framework.                            *)
LEMMA DockerIsFine ==
  ASSUME NEW texts, TextsFit(texts)
  PROVE  /\ plan.framework = "fastapi" => DockerIssues(texts, "uvicorn", {}) = {}
         /\ plan.framework = "spring" => DockerIssues(texts, "java -jar", {"sh -c"}) = {}
<1>1. "Dockerfile" \in Templates
  BY DEF Templates
<1>2. TemplateText("Dockerfile", plan.framework) =
        {IF plan.framework = "fastapi" THEN "uvicorn" ELSE "java -jar"}
  BY DEF TemplateText
<1>3. "Dockerfile" \in DOMAIN texts =>
        texts["Dockerfile"] = {IF plan.framework = "fastapi" THEN "uvicorn" ELSE "java -jar"}
  BY <1>1, <1>2 DEF TextsFit, TextFits
<1>4. ASSUME plan.framework = "fastapi"
      PROVE  DockerIssues(texts, "uvicorn", {}) = {}
  BY <1>3, <1>4 DEF DockerIssues
<1>5. ASSUME plan.framework = "spring"
      PROVE  DockerIssues(texts, "java -jar", {"sh -c"}) = {}
  <2>1. "Dockerfile" \in DOMAIN texts => texts["Dockerfile"] = {"java -jar"}
    BY <1>3, <1>5
  <2>2. {"java -jar"} \intersect {"sh -c"} = {}
    OBVIOUS
  <2> QED BY <2>1, <2>2 DEF DockerIssues
<1> QED BY <1>4, <1>5

(* A FastAPI project can only be rejected for its Python.                   *)
LEMMA ApiVerdict ==
  ASSUME Complete(plan), NEW texts, TextsFit(texts), plan.framework = "fastapi"
  PROVE  ApiIssues(texts) = {}
<1>1. "main.py" \in DOMAIN texts
  BY DEF Complete, TextsFit
<1>2. Touches(DOMAIN texts, ApiBoard) => ApiBoardRequired \subseteq DOMAIN texts
  BY SpecIsApart DEF Complete, TextsFit, Touches, ApiBoardRequired
<1> QED BY <1>1, <1>2, DockerIsFine DEF ApiIssues

(* The only text of a project that fails to parse is the model's Python.    *)
LEMMA BrokenIsOwn ==
  ASSUME NEW texts, TextsFit(texts), NEW p \in Marked(texts, "broken")
  PROVE  p \notin Templates
<1>1. p \in DOMAIN texts /\ "broken" \in texts[p] /\ TextFits(p, texts[p])
  BY DEF Marked, TextsFit
<1> QED BY <1>1, TemplateMarks DEF TextFits

(* Where plan and words are right, a Spring project has no issue, boards    *)
(* under Maven and boards that are completed apart.                        *)
LEMMA SpringVerdict ==
  ASSUME Complete(plan), TextsFit(contents), plan.framework = "spring",
         Declares(plan, asked),
         ~ BoardUnderMaven, ~ BoardCompleted, ~ WrongPlan, ~ WrongWords
  PROVE  SpringIssues(contents) = {}
<1> DEFINE texts == contents
           E == Entrypoints(texts)
<1>1. plan.files \subseteq DOMAIN texts
  BY DEF TextsFit
<1>2. DOMAIN texts \intersect {"pom.xml", "build.gradle"} # {}
  BY <1>1 DEF Complete, Plans
<1> DEFINE D == Declared(plan.files, plan.entries)
<1>3. PICK main : D = {main} /\ (main \in Templates => main = "BoardApplication.java")
  <2>1. D # {}
    BY DEF Complete
  <2> HIDE DEF D
  <2>2. CASE D \subseteq asked
    <3>1. PICK main : main \in D
      BY <2>1
    <3>2. D = {main} /\ main \in asked
      BY <2>2, <3>1 DEF WrongPlan
    <3> QED BY <3>2 DEF WrongPlan
  <2>3. CASE \E main : D = {main} /\ main \notin Templates
    BY <2>3
  <2> QED BY <2>2, <2>3 DEF Declares, BoardCompleted, D
<1>4. ASSUME NEW p \in DOMAIN texts, p \in Java
      PROVE  "entrypoint" \in texts[p] <=> p = main
  <2>1. CASE p \in Templates
    <3>1. texts[p] = TemplateText(p, plan.framework)
      BY <2>1 DEF TextsFit, TextFits
    <3>2. "entrypoint" \in texts[p] <=> p = "BoardApplication.java"
      BY <2>1, <3>1, TemplateMarks
    <3>3. p = "BoardApplication.java" => p \in D
      BY <1>4 DEF Declared, TextsFit, Spec_md
    <3> QED BY <1>3, <2>1, <3>2, <3>3
  <2>2. CASE p \notin Templates
    <3>1. "entrypoint" \in texts[p] <=> p \in D
      BY <1>4, <2>2 DEF WrongWords
    <3> QED BY <1>3, <3>1
  <2> QED BY <2>1, <2>2
<1>5. main \in DOMAIN texts /\ main \in Java
  <2>1. main \in D
    BY <1>3
  <2>2. Applications \subseteq Java /\ "BoardApplication.java" \in Java
    BY FilesAssumption DEF FileAssumption, Java, SpringBoardFiles
  <2> QED BY <1>1, <2>1, <2>2 DEF Declared, Complete, Plans
<1>6. E = {main}
  BY <1>4, <1>5 DEF Entrypoints, Marked
<1>7. ~ StarterMissing(texts)
  <2>1. CASE plan.build = "gradle"
    <3>1. "build.gradle" \in DOMAIN texts /\ "build.gradle" \in Templates
      BY <1>1, <2>1 DEF Complete, Templates, GradleFiles
    <3>2. "starter" \in texts["build.gradle"]
      BY <3>1, TemplateMarks DEF TextsFit, TextFits
    <3> QED BY <3>1, <3>2 DEF StarterMissing, Marked
  <2>2. CASE plan.build = "maven"
    <3>1. plan.files \intersect SpringBoard = {}
      BY <2>2 DEF BoardUnderMaven, Touches
    <3>2. {"PostRequest.java", "PostController.java"} \intersect DOMAIN texts = {}
      BY <3>1, SpecIsApart DEF TextsFit, SpringBoard, SpringBoardRequired, SpringBoardFiles
    <3>3. ASSUME NEW p \in Marked(texts, "jakarta"), p \in Templates
          PROVE  FALSE
      <4>1. p \in DOMAIN texts /\ "jakarta" \in texts[p] /\ TextFits(p, texts[p])
        BY DEF Marked, TextsFit
      <4>2. texts[p] = TemplateText(p, plan.framework)
        BY <3>3, <4>1 DEF TextFits
      <4> QED BY <3>2, <3>3, <4>1, <4>2, TemplateMarks
    <3>4. Marked(texts, "jakarta") \subseteq Templates
      BY <2>2 DEF WrongWords, Marked
    <3> QED BY <3>3, <3>4 DEF StarterMissing
  <2> QED BY <2>1, <2>2 DEF Complete, Plans
<1>8. Touches(DOMAIN texts, SpringBoard) => SpringBoardRequired \subseteq DOMAIN texts
  BY SpecIsApart DEF Complete, TextsFit, Touches, SpringBoardRequired
<1>9. DockerIssues(texts, "java -jar", {"sh -c"}) = {}
  BY DockerIsFine
<1> HIDE DEF E, texts
<1>10. SpringIssues(texts) = {}
  BY <1>2, <1>6, <1>7, <1>8, <1>9 DEF SpringIssues, E
<1> QED BY <1>10 DEF texts

(* A rejection has one of the four causes.                                  *)
LEMMA RejectionHasCause ==
  ASSUME Complete(plan), TextsFit(contents), Declares(plan, asked),
         CodeIssues(plan.framework, contents) # {}
  PROVE  BoardUnderMaven \/ BoardCompleted \/ WrongPlan \/ WrongWords
<1>1. CASE Marked(contents, "broken") \intersect Python # {}
  BY <1>1, BrokenIsOwn DEF Marked, WrongWords
<1>2. CASE Marked(contents, "broken") \intersect Python = {}
  <2>1. CASE plan.framework = "fastapi"
    BY <1>2, <2>1, ApiVerdict DEF CodeIssues
  <2>2. CASE plan.framework = "spring"
    BY <1>2, <2>2, SpringVerdict DEF CodeIssues
  <2> QED BY <2>1, <2>2 DEF Complete, Plans
<1> QED BY <1>1, <1>2

-----------------------------------------------------------------------------
(* The inductive invariant.                                                 *)

PlanMade == node # "plan_spec" /\ outcome # "raised"

Planned == PlanMade => Complete(plan)

Entered == PlanMade => Declares(plan, asked)

WrittenDown == PlanMade /\ node # "generate_files" => TextsFit(contents)

Routed ==
  /\ outcome # "none" <=> node = "end"
  /\ node = "repair_files" => BudgetLeft
  /\ Accepted => CodeIssues(plan.framework, contents) = {}
  /\ outcome = "rejected" => CodeIssues(plan.framework, contents) # {}

Inv == TypeOK /\ Planned /\ Entered /\ WrittenDown /\ Routed

LEMMA InvInit == Init => Inv
<1> SUFFICES ASSUME Init
             PROVE  Inv
  OBVIOUS
<1>1. plan \in Plans
  BY DEF Init, NoPlan, Plans
<1>2. contents \in [DOMAIN contents -> SUBSET Marks] /\ DOMAIN contents = {}
  BY DEF Init
<1>3. TypeOK
  BY <1>1, <1>2, BoundsAssumption DEF Init, TypeOK, Nodes, Outcomes
<1> QED BY <1>3 DEF Init, Inv, Planned, Entered, WrittenDown, Routed, PlanMade, Accepted

(* Issues lie on files or on pseudo paths.                                  *)
LEMMA IssuesAreTyped ==
  ASSUME DOMAIN contents \subseteq Files, plan \in Plans
  PROVE  CodeIssues(plan.framework, contents) \subseteq Files \union PseudoPaths
<1>1. ApiBoardRequired \subseteq Files /\ SpringBoardRequired \subseteq Files
      /\ "main.py" \in Files
  BY DEF ApiBoardRequired, SpringBoardRequired, Files, Templates
<1>2. \A start, banned : DockerIssues(contents, start, banned) \subseteq Files
  BY DEF DockerIssues
<1>3. \A mark : Marked(contents, mark) \subseteq Files
  BY DEF Marked
<1>4. ApiIssues(contents) \subseteq Files
  BY <1>1, <1>2 DEF ApiIssues
<1>5. SpringIssues(contents) \subseteq Files \union PseudoPaths
  BY <1>1, <1>2, <1>3 DEF SpringIssues, Entrypoints, PseudoPaths
<1> QED BY <1>3, <1>4, <1>5 DEF CodeIssues

(* What a plan declares is settled with the plan.                           *)
LEMMA EnteredNext ==
  ASSUME Inv, [Next]_vars
  PROVE  Entered' /\ (asked \subseteq Java)'
<1> USE DEF Inv, TypeOK
<1>1. CASE PlanSpec
  <2>1. PICK proposal \in Proposals :
          /\ plan' = Normalized(request, proposal)
          /\ asked' = Declared(proposal.files, proposal.entries)
    BY <1>1 DEF PlanSpec
  <2>2. Declares(plan', asked')
    BY <2>1, NormalizedDeclares
  <2>3. Applications \union {"BoardApplication.java"} \union proposal.entries \subseteq Java
    BY FilesAssumption DEF FileAssumption, Java, Proposals, SpringBoardFiles
  <2> QED BY <2>1, <2>2, <2>3 DEF Entered, Declared
<1>2. CASE FallBack
  <2>1. PICK spec \in SUBSET {"jakarta"} : plan' = FallbackPlan(request, spec)
    BY <1>2 DEF FallBack
  <2>2. Declares(plan', asked')
    BY <2>1, FallbackPlanDeclares
  <2> QED BY <1>2, <2>2 DEF Entered, FallBack
<1>3. CASE PlanRaises
  BY <1>3 DEF PlanRaises, End, Entered, PlanMade
<1>4. CASE \/ GenerateFiles \/ ValidateFiles \/ RepairFiles \/ BuildSucceeds
           \/ BuildFails \/ UNCHANGED vars
  <2>1. UNCHANGED <<plan, asked>>
    BY <1>4 DEF GenerateFiles, ValidateFiles, RepairFiles, BuildSucceeds, BuildFails, vars
  <2>2. PlanMade' => PlanMade
    BY <1>4 DEF GenerateFiles, ValidateFiles, RepairFiles, BuildSucceeds, BuildFails,
                vars, PlanMade, Routed
  <2> QED BY <2>1, <2>2 DEF Entered
<1> QED BY <1>1, <1>2, <1>3, <1>4 DEF Next

LEMMA InvNext == Inv /\ [Next]_vars => Inv'
<1> SUFFICES ASSUME Inv, [Next]_vars
             PROVE  Inv'
  OBVIOUS
<1> USE DEF Inv
<1>e. Entered' /\ (asked \subseteq Java)'
  BY EnteredNext
<1> USE <1>e
<1>1. CASE PlanRaises
  <2>1. TypeOK'
    BY <1>1 DEF PlanRaises, End, TypeOK, Nodes, Outcomes
  <2> QED BY <1>1, <2>1
       DEF PlanRaises, End, Planned, WrittenDown, Routed, PlanMade, Accepted, BudgetLeft
<1>2. CASE PlanSpec
  <2>1. PICK proposal \in Proposals :
          proposal.framework # "unknown" /\ plan' = Normalized(request, proposal)
    BY <1>2 DEF PlanSpec
  <2>2. Complete(plan')
    BY <2>1, NormalizedIsComplete DEF TypeOK
  <2>3. TypeOK'
    BY <1>2, <2>2 DEF PlanSpec, TypeOK, Nodes, Complete
  <2>4. node' = "generate_files" /\ outcome' = "none"
    BY <1>2 DEF PlanSpec, Routed
  <2> QED BY <2>2, <2>3, <2>4 DEF Planned, WrittenDown, Routed, PlanMade, Accepted, Complete
<1>3. CASE FallBack
  <2>1. PICK spec \in SUBSET {"jakarta"} : plan' = FallbackPlan(request, spec)
    BY <1>3 DEF FallBack
  <2>2. Complete(plan')
    BY <1>3, <2>1, FallbackIsComplete DEF FallBack, TypeOK
  <2>3. TypeOK'
    BY <1>3, <2>2 DEF FallBack, TypeOK, Nodes, Complete
  <2>4. node' = "generate_files" /\ outcome' = "none"
    BY <1>3 DEF FallBack, Routed
  <2> QED BY <2>2, <2>3, <2>4 DEF Planned, WrittenDown, Routed, PlanMade, Accepted, Complete
<1>4. CASE GenerateFiles
  <2> DEFINE texts == [p \in plan.files \union {Spec_md} |-> plan.spec]
  <2>1. PlanMade /\ Complete(plan) /\ node' = "validate_files" /\ outcome' = "none"
    BY <1>4 DEF GenerateFiles, Routed, Planned, PlanMade
  <2>2. TextFits(Spec_md, plan.spec)
    BY <2>1, SpecIsApart DEF TextFits, Answers, Complete, Plans
  <2>3. \A p \in DOMAIN texts \ plan.files : TextFits(p, texts[p])
    BY <2>2
  <2>4. Write(plan.files, texts) /\ UNCHANGED plan
    BY <1>4 DEF GenerateFiles
  <2>5. TextsFit(contents)'
    <3>1. plan.files \subseteq DOMAIN texts /\ DOMAIN texts = plan.files \union {Spec_md}
      OBVIOUS
    <3> HIDE DEF texts
    <3> QED BY <2>3, <2>4, <3>1, WriteFits
  <2>6. Complete(plan') /\ plan' \in Plans
    BY <2>1, <2>4 DEF Complete
  <2>7. DOMAIN contents' \subseteq Files /\ contents' \in [DOMAIN contents' -> SUBSET Marks]
    <3>1. TextsFit(contents')
      BY <2>5, <2>4 DEF TextsFit, TextFits
    <3>2. plan \in Plans
      BY <2>6, <2>4
    <3> QED BY <3>1, <3>2, FittingTextsAreTyped
  <2>8. TypeOK'
    BY <1>4, <2>6, <2>7 DEF GenerateFiles, TypeOK, Nodes
  <2> QED BY <2>1, <2>5, <2>6, <2>8 DEF Planned, WrittenDown, Routed, PlanMade, Accepted
<1>5. CASE ValidateFiles
  <2>1. PlanMade /\ Complete(plan) /\ TextsFit(contents) /\ outcome = "none"
    BY <1>5 DEF ValidateFiles, Routed, Planned, WrittenDown, PlanMade
  <2>2. UNCHANGED <<plan, contents, round, request>>
    BY <1>5 DEF ValidateFiles
  <2>3. issues' = CodeIssues(plan.framework, contents)
    BY <1>5 DEF ValidateFiles
  <2>4. issues' \subseteq Files \union PseudoPaths
    BY <2>3, IssuesAreTyped DEF TypeOK
  <2>5. TypeOK'
    BY <1>5, <2>2, <2>4 DEF ValidateFiles, End, TypeOK, Nodes, Outcomes
  <2>6. /\ Planned' /\ WrittenDown'
    BY <2>1, <2>2 DEF Planned, WrittenDown, TextsFit, TextFits
  <2>7. CASE issues' = {}
    <3>1. node' = "package_artifacts" /\ outcome' = "none"
      BY <1>5, <2>1, <2>7 DEF ValidateFiles
    <3> QED BY <2>2, <2>3, <2>5, <2>6, <2>7, <3>1 DEF Routed, Accepted
  <2>8. CASE issues' # {} /\ BudgetLeft
    <3>1. node' = "repair_files" /\ outcome' = "none"
      BY <1>5, <2>1, <2>8 DEF ValidateFiles
    <3> QED BY <2>2, <2>5, <2>6, <2>8, <3>1 DEF Routed, Accepted, BudgetLeft
  <2>9. CASE issues' # {} /\ ~ BudgetLeft
    <3>1. node' = "end" /\ outcome' = "rejected"
      BY <1>5, <2>9 DEF ValidateFiles, End
    <3> QED BY <2>2, <2>3, <2>5, <2>6, <2>9, <3>1 DEF Routed, Accepted
  <2> QED BY <2>7, <2>8, <2>9
<1>6. CASE RepairFiles
  <2> DEFINE files == issues \intersect plan.files
  <2>1. PlanMade /\ Complete(plan) /\ TextsFit(contents) /\ BudgetLeft
        /\ node' = "validate_files" /\ outcome' = "none"
    BY <1>6 DEF RepairFiles, Routed, Planned, WrittenDown, PlanMade
  <2>2. Write(files, contents) /\ UNCHANGED plan
    BY <1>6 DEF RepairFiles
  <2>3. TextsFit(contents)'
    <3>1. /\ files \subseteq DOMAIN contents
          /\ DOMAIN contents = plan.files \union {Spec_md}
          /\ \A p \in DOMAIN contents \ files : TextFits(p, contents[p])
      BY <2>1 DEF TextsFit
    <3> HIDE DEF files
    <3> QED BY <2>2, <3>1, WriteFits
  <2>4. Complete(plan') /\ plan' \in Plans
    BY <2>1, <2>2 DEF Complete
  <2>5. DOMAIN contents' \subseteq Files /\ contents' \in [DOMAIN contents' -> SUBSET Marks]
    <3>1. TextsFit(contents')
      BY <2>3, <2>2 DEF TextsFit, TextFits
    <3>2. plan \in Plans
      BY <2>4, <2>2
    <3> QED BY <3>1, <3>2, FittingTextsAreTyped
  <2>6. round' \in 0..MaxRepairs
    BY <1>6, <2>1, BoundsAssumption DEF RepairFiles, BudgetLeft, TypeOK
  <2>7. TypeOK'
    BY <1>6, <2>4, <2>5, <2>6 DEF RepairFiles, TypeOK, Nodes
  <2> QED BY <2>1, <2>3, <2>4, <2>7 DEF Planned, WrittenDown, Routed, PlanMade, Accepted
<1>7. CASE BuildSucceeds
  <2>1. PlanMade /\ Complete(plan) /\ TextsFit(contents) /\ CodeIssues(plan.framework, contents) = {}
    BY <1>7 DEF BuildSucceeds, Routed, Planned, WrittenDown, PlanMade, Accepted
  <2>2. UNCHANGED <<request, plan, contents, issues, round>> /\ node' = "end" /\ outcome' = "packaged"
    BY <1>7 DEF BuildSucceeds, End
  <2>3. TypeOK'
    BY <2>2 DEF TypeOK, Nodes, Outcomes
  <2> QED BY <2>1, <2>2, <2>3 DEF Planned, WrittenDown, Routed, TextsFit, TextFits
<1>8. CASE BuildFails
  <2>1. PlanMade /\ Complete(plan) /\ TextsFit(contents)
        /\ CodeIssues(plan.framework, contents) = {} /\ outcome = "none"
    BY <1>8 DEF BuildFails, Routed, Planned, WrittenDown, PlanMade, Accepted
  <2>2. UNCHANGED <<request, plan, contents, round>>
    BY <1>8 DEF BuildFails
  <2>3. issues' \subseteq Files \union PseudoPaths
    <3>1. PICK named \in {{Build}} \union SUBSET (plan.files \intersect JavaSources) :
            issues' = named
      BY <1>8 DEF BuildFails
    <3>2. plan.files \subseteq Files
      BY <2>1 DEF Complete, Plans
    <3>3. named \subseteq Files \union PseudoPaths
      <4>1. {Build} \subseteq PseudoPaths
        BY DEF PseudoPaths
      <4>2. named \subseteq plan.files \/ named = {Build}
        BY <3>1
      <4> QED BY <3>2, <4>1, <4>2
    <3> QED BY <3>1, <3>3
  <2>4. \/ node' = "repair_files" /\ outcome' = "none" /\ BudgetLeft
        \/ node' = "end" /\ outcome' = "build_failed"
    BY <1>8, <2>1 DEF BuildFails, End
  <2>5. TypeOK'
    BY <2>2, <2>3, <2>4 DEF TypeOK, Nodes, Outcomes
  <2> QED BY <2>1, <2>2, <2>4, <2>5
       DEF Planned, WrittenDown, Routed, TextsFit, TextFits, Accepted, BudgetLeft
<1>9. CASE UNCHANGED vars
  BY <1>9 DEF vars, TypeOK, Planned, WrittenDown, Routed, PlanMade, TextsFit, TextFits,
              Accepted, BudgetLeft
<1> QED BY <1>1, <1>2, <1>3, <1>4, <1>5, <1>6, <1>7, <1>8, <1>9 DEF Next

LEMMA InvHolds == Spec => []Inv
BY InvInit, InvNext, PTL DEF Spec

-----------------------------------------------------------------------------
(* Every variable keeps its type; the repair rounds stay in the budget.     *)
THEOREM FilePlanTypeCorrect == Spec => []TypeOK
<1>1. Inv => TypeOK
  BY DEF Inv
<1> QED BY <1>1, InvHolds, PTL

(* Boards under Maven and boards that are completed apart, a project whose  *)
(* model declares at most one entry point, and that one rightly, and writes  *)
(* what the plan calls for, is never rejected.                             *)
THEOREM VerdictsAreDue == Spec => []VerdictIsDue
<1>1. ASSUME Inv
      PROVE  VerdictIsDue
  <2>1. outcome = "rejected" => PlanMade /\ node = "end"
    BY <1>1 DEF Inv, Routed, PlanMade
  <2> QED BY <1>1, <2>1, RejectionHasCause
       DEF Inv, Routed, Planned, Entered, WrittenDown, VerdictIsDue
<1> QED BY <1>1, InvHolds, PTL

(* A complete plan holds what its templates import, main.py apart.          *)
LEMMA CompleteIsClosed ==
  ASSUME Complete(plan)
  PROVE  Missing(plan.files) =
           IF plan.framework = "fastapi" /\ ~ Touches(plan.files, ApiBoard)
           THEN ApiImports("main.py") ELSE {}
<1>m. ASSUME NEW i
      PROVE  i \in Missing(plan.files) <=>
               i \notin plan.files /\ \E p \in plan.files : i \in Imports(p)
  BY DEF Missing
<1>1. CASE plan.framework = "spring"
  <2>1. ASSUME NEW p \in plan.files, NEW i \in Imports(p)
        PROVE  i \in plan.files
    <3>1. i \in SpringImports(p)
      BY <1>1, <2>1 DEF Imports
    <3>2. p \in SpringBoard /\ i \in SpringBoardFiles
      BY <3>1 DEF SpringImports, SpringBoard, SpringBoardRequired, SpringBoardFiles
    <3> QED BY <1>1, <2>1, <3>2 DEF Complete, Touches
  <2>2. Missing(plan.files) = {}
    BY <1>m, <2>1
  <2> QED BY <1>1, <2>2
<1>2. CASE plan.framework = "fastapi"
  <2>1. "main.py" \in plan.files
    BY <1>2 DEF Complete
  <2>2. ASSUME NEW p, NEW i \in ApiImports(p)
        PROVE  (p = "main.py" \/ p \in ApiBoard) /\ i \in ApiBoardFiles /\ i \in ApiBoard
    BY <2>2 DEF ApiImports, ApiBoard, ApiBoardFiles
  <2>3. \A p : Imports(p) = ApiImports(p)
    BY <1>2 DEF Imports
  <2>4. CASE Touches(plan.files, ApiBoard)
    <3>1. ApiBoardFiles \subseteq plan.files
      BY <1>2, <2>4 DEF Complete
    <3>2. \A p \in plan.files : Imports(p) \subseteq plan.files
      BY <2>2, <2>3, <3>1
    <3>3. Missing(plan.files) = {}
      BY <1>m, <3>2
    <3> QED BY <2>4, <3>3
  <2>5. CASE ~ Touches(plan.files, ApiBoard)
    <3>1. \A p \in plan.files : p \notin ApiBoard
      BY <2>5 DEF Touches
    <3>2. \A p \in plan.files : p # "main.py" => Imports(p) = {}
      BY <2>2, <2>3, <3>1
    <3>3. ApiImports("main.py") \intersect plan.files = {}
      BY <2>2, <3>1
    <3>4. \A i : (\E p \in plan.files : i \in Imports(p)) <=> i \in ApiImports("main.py")
      BY <2>1, <2>3, <3>2
    <3>5. \A i : i \in Missing(plan.files) <=> i \in ApiImports("main.py")
      BY <1>m, <3>3, <3>4
    <3>6. Missing(plan.files) = ApiImports("main.py")
      BY <3>5, Zenon
    <3> QED BY <1>2, <2>5, <3>6
  <2> QED BY <2>4, <2>5
<1> QED BY <1>1, <1>2 DEF Complete, Plans

(* Every file a template imports is planned, but for the board of main.py.  *)
THEOREM PlansAreClosed == Spec => []PlannedIsClosed
<1>1. Inv => PlannedIsClosed
  BY CompleteIsClosed DEF Inv, Planned, PlanMade, PlannedIsClosed
<1> QED BY <1>1, InvHolds, PTL

-----------------------------------------------------------------------------
(* Refinement.                                                             *)

LEMMA DraftInit == Init => Draft!Init
BY DEF Init, Draft!Init, Stage

LEMMA DraftStep == Inv /\ [Next]_vars => [Draft!Next]_(Draft!vars)
<1> SUFFICES ASSUME Inv, [Next]_vars
             PROVE  [Draft!Next]_(Draft!vars)
  OBVIOUS
<1> DEFINE r == "run"
<1>s. \A a, b : (\A x \in {r} : a = b) => [x \in {r} |-> a] = [x \in {r} |-> b]
  OBVIOUS
<1>1. CASE PlanRaises
  <2>1. Stage = "draft" /\ Stage' = "failed" /\ round' = round
    BY <1>1 DEF PlanRaises, End, Stage
  <2>2. Draft!Fail(r)
    BY <2>1 DEF Draft!Fail, Draft!Move
  <2> QED BY <2>2 DEF Draft!Next, Draft!Step
<1>2. CASE PlanSpec \/ FallBack \/ GenerateFiles
  <2>1. Stage = "draft" /\ Stage' = "draft" /\ round' = round
    BY <1>2 DEF PlanSpec, FallBack, GenerateFiles, Stage
  <2> QED BY <2>1 DEF Draft!vars
<1>3. CASE ValidateFiles
  <2>1. Stage = "draft" /\ round' = round
    BY <1>3 DEF ValidateFiles, Stage
  <2>2. CASE node' = "package_artifacts"
    <3>1. Stage' = "approved"
      BY <2>2 DEF Stage
    <3>2. Draft!Approve(r)
      BY <2>1, <3>1 DEF Draft!Approve, Draft!Move
    <3> QED BY <3>2 DEF Draft!Next, Draft!Step
  <2>3. CASE node' = "repair_files" /\ BudgetLeft
    <3>1. Stage' = "rejected"
      BY <2>3 DEF Stage
    <3>2. Draft!Reject(r)
      BY <2>1, <2>3, <3>1 DEF Draft!Reject, Draft!Move, BudgetLeft
    <3> QED BY <3>2 DEF Draft!Next, Draft!Step
  <2>4. CASE node' = "end" /\ outcome' = "rejected"
    <3>1. Stage' = "failed"
      BY <2>4 DEF Stage
    <3>2. Draft!Fail(r)
      BY <2>1, <3>1 DEF Draft!Fail, Draft!Move
    <3> QED BY <3>2 DEF Draft!Next, Draft!Step
  <2> QED BY <1>3, <2>2, <2>3, <2>4 DEF ValidateFiles, End
<1>4. CASE RepairFiles
  <2>1. Stage = "rejected" /\ Stage' = "draft" /\ round' = round + 1
    BY <1>4 DEF RepairFiles, Stage
  <2>2. Draft!Revise(r)
    BY <2>1 DEF Draft!Revise, Draft!Move
  <2> QED BY <2>2 DEF Draft!Next, Draft!Step
<1>5. CASE BuildSucceeds
  <2>1. Stage = "approved" /\ Stage' = "delivered" /\ round' = round
    BY <1>5 DEF BuildSucceeds, End, Stage
  <2>2. Draft!Deliver(r)
    BY <2>1 DEF Draft!Deliver, Draft!Move
  <2> QED BY <2>2 DEF Draft!Next, Draft!Step
<1>6. CASE BuildFails
  <2>1. Stage = "approved" /\ round' = round
    BY <1>6 DEF BuildFails, Stage
  <2>2. CASE node' = "repair_files" /\ BudgetLeft
    <3>1. Stage' = "rejected"
      BY <2>2 DEF Stage
    <3>2. Draft!Reject(r)
      BY <2>1, <2>2, <3>1 DEF Draft!Reject, Draft!Move, BudgetLeft
    <3> QED BY <3>2 DEF Draft!Next, Draft!Step
  <2>3. CASE node' = "end" /\ outcome' = "build_failed"
    <3>1. Stage' = "failed"
      BY <2>3 DEF Stage
    <3>2. Draft!Fail(r)
      BY <2>1, <3>1 DEF Draft!Fail, Draft!Move
    <3> QED BY <3>2 DEF Draft!Next, Draft!Step
  <2> QED BY <1>6, <2>2, <2>3 DEF BuildFails, End
<1>7. CASE UNCHANGED vars
  BY <1>7 DEF vars, Stage, Draft!vars
<1> QED BY <1>1, <1>2, <1>3, <1>4, <1>5, <1>6, <1>7 DEF Next

(* Every step of the plan's way is a step of BoundedRepair or none: nothing *)
(* is built that was not judged, nor revised beyond the budget.            *)
THEOREM FilePlanIsABoundedRepair == Spec => ImplementsBoundedRepair
<1>1. Init => Draft!Init
  BY DraftInit
<1>2. Inv /\ [Next]_vars => [Draft!Next]_(Draft!vars)
  BY DraftStep
<1> QED BY <1>1, <1>2, InvHolds, PTL DEF Spec, ImplementsBoundedRepair, Draft!Safety
=============================================================================
