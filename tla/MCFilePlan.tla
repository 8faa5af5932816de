----------------------------- MODULE MCFilePlan -----------------------------
(* Finite instances of FilePlan for TLC.                                   *)
EXTENDS FilePlan

(* Planned by a model: templates of either board, sources of its own that   *)
(* are named as an entry point, lie in a board, both, or neither, files    *)
(* that are dropped.                                                       *)
JavaFiles   == {"AppApplication.java", "SampleAppApplication.java",
                "DemoController.java", "CrudApplication.java", "BoardController.java"}
JavaMains   == {"AppApplication.java", "SampleAppApplication.java", "CrudApplication.java"}
JavaBoard   == {"CrudApplication.java", "BoardController.java"}
PythonFiles == {"util.py", "board/search.py"}
ApiPart     == {"board/search.py"}
KotlinFiles == {"App.kt"}
Scripts     == {"build.gradle.kts"}
OtherFiles  == {"APPLICATION_SPEC.md", "requirements.txt", "mvnw"}

Planned ==
  {"BoardApplication.java", "PostService.java", "CrudApplication.java",
   "BoardController.java", "DemoController.java", "board/router.py",
   "board/search.py", "util.py", "build.gradle", "App.kt"}
=============================================================================
