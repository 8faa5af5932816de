------------------------------ MODULE RequestForm ------------------------------
(***************************************************************************)
(* From the form of the UI to a request the supervisor accepts or objects  *)
(* to: the widgets with their callbacks (ui/chat_ui.py), the rules that    *)
(* clean and refuse their values (ui/form_logic.py), and                   *)
(* check_missing_info (Supervisor/validation.py).                          *)
(*                                                                         *)
(* Of a text only matters whether it is blank, of a version whether it is  *)
(* blank, one of the words none and None, or "given".                      *)
(***************************************************************************)
EXTENDS Naturals, Sequences

CONSTANTS
  Ruled,        \* the components of COMPONENT_RULES that take part
  MaxInstances, \* the largest number of instances the user types
  Entries,      \* how the other widgets may be filled in
  ApiRequests   \* requests that are sent to the API directly

Components == Ruled \union {"others"}
Versions   == {"", "none", "None", "given"}
Login      == {"host", "user", "auth_ref"}
Texts      == Login \union {"base_dir", "db_user", "db_pw"}

(* A UserRequest, as far as validation and the supervisor look at it.  A    *)
(* target is the set of its fields that are not blank.  instances and      *)
(* credentials only travel with it.                                        *)
RequestOK(q) ==
  /\ DOMAIN q = {"targets", "components", "versions", "instances", "framework",
                 "apps", "java", "baseDir", "credentials"}
  /\ q.targets \in Seq(SUBSET Login)
  /\ q.components \subseteq Components
  /\ DOMAIN q.versions \subseteq Ruled \union {"java"}
  /\ \A c \in DOMAIN q.versions : q.versions[c] \in Versions
  /\ q.instances \in [Ruled -> Nat]
  /\ q.framework \in {"", "none", "given"}   \* stripped, in lower case
  /\ q.apps \in Nat
  /\ q.java \in BOOLEAN                      \* some language is a Java
  /\ q.baseDir \in BOOLEAN
  /\ q.credentials \subseteq {"db_user", "db_pw"}

Entry == [texts : SUBSET Texts, pathless : BOOLEAN, java : BOOLEAN,
          database : BOOLEAN, protected : BOOLEAN, sudo : BOOLEAN]

ASSUME RuledAssumption   == Ruled \subseteq {"apache", "tomcat", "kafka", "pinpoint"}
ASSUME BoundAssumption   == MaxInstances \in Nat \ {0}
ASSUME EntryAssumption   == Entries \subseteq Entry
ASSUME RequestAssumption == \A q \in ApiRequests : RequestOK(q)

-----------------------------------------------------------------------------
(* Supervisor/validation.py.                                               *)

HasInfra(q) == q.components # {}

HasApp(q) == q.framework \notin {"", "none"} /\ q.apps > 0

VersionOf(q, c) == IF c \in DOMAIN q.versions THEN q.versions[c] ELSE ""

JavaLacks(q) ==
  /\ q.components \intersect {"tomcat", "kafka"} # {} \/ q.java
  /\ VersionOf(q, "java") = ""

VersionGaps(q) ==
  IF ~HasInfra(q) THEN {}
  ELSE IF DOMAIN q.versions = {} THEN {"versions"}
  ELSE {c \in q.components \intersect {"tomcat", "kafka"} :
          VersionOf(q, c) \in {"", "none"}}
       \union {f \in {"java"} : JavaLacks(q)}

(* The fields of check_missing_info's list.                                *)
Missing(q) ==
  {f \in {"targets"} : q.targets = <<>>}
  \union {f \in Login : \E i \in 1..Len(q.targets) : f \notin q.targets[i]}
  \union {f \in {"components"} : ~HasInfra(q) /\ ~HasApp(q)}
  \union VersionGaps(q)
  \union {f \in {"base_dir"} : ~q.baseDir}

-----------------------------------------------------------------------------
(* The widgets that have a callback, or a callback's target.               *)

VARIABLES selected, version, instances, framework, frameworkVersion, apps

form == <<selected, version, instances, framework, frameworkVersion, apps>>

Choice == {"None", "given"}

FormInit ==
  /\ selected = {}
  /\ version = [c \in Ruled |-> "None"]
  /\ instances = [c \in Ruled |-> 0]
  /\ framework = "None"
  /\ frameworkVersion = "None"
  /\ apps = 0

(* apply_component_defaults: what was deselected is reset, what is selected *)
(* and not yet configured gets a version and an instance.                  *)
SelectComponents(s) ==
  /\ s # selected
  /\ selected' = s
  /\ version' = [c \in Ruled |-> IF c \in s THEN "given" ELSE "None"]
  /\ instances' = [c \in Ruled |-> IF c \notin s THEN 0
                                   ELSE IF instances[c] = 0 THEN 1
                                   ELSE instances[c]]
  /\ UNCHANGED <<framework, frameworkVersion, apps>>

(* The version and the number can also be changed for what is not selected. *)
SetComponent(c) ==
  /\ \/ \E v \in Choice : version' = [version EXCEPT ![c] = v] /\ UNCHANGED instances
     \/ \E n \in 0..MaxInstances :
          instances' = [instances EXCEPT ![c] = n] /\ UNCHANGED version
  /\ UNCHANGED <<selected, framework, frameworkVersion, apps>>

(* apply_framework_defaults.                                               *)
SelectFramework(f) ==
  /\ f # framework \/ f = "given"   \* from one framework to another
  /\ framework' = f
  /\ frameworkVersion' = f
  /\ apps' = IF f = "None" THEN 0 ELSE 1
  /\ UNCHANGED <<selected, version, instances>>

SetFramework ==
  /\ \/ frameworkVersion' \in Choice /\ UNCHANGED apps
     \/ apps' \in 0..MaxInstances /\ UNCHANGED frameworkVersion
  /\ UNCHANGED <<selected, version, instances, framework>>

Edit ==
  \/ \E s \in SUBSET Components : SelectComponents(s)
  \/ \E c \in Ruled : SetComponent(c)
  \/ \E f \in Choice : SelectFramework(f)
  \/ SetFramework

-----------------------------------------------------------------------------
(* ui/form_logic.py.  e is the entry of the other widgets.                  *)

(* Mutant: the version of a deselected component is kept.                  *)
CleanVersion_Kept(c) == version[c]

CleanVersion(c) == IF c \in selected THEN version[c] ELSE "None"

CleanInstances(c) == IF c \in selected THEN instances[c] ELSE 0

CleanApps == IF framework = "None" THEN 0 ELSE apps

(* Without a database its user and password are dropped.                   *)
Credentials(e) == {t \in e.texts \intersect {"db_user", "db_pw"} : e.database}

ComponentErrors ==
  \E c \in selected \intersect Ruled : CleanVersion(c) = "None" \/ CleanInstances(c) = 0

(* A framework's own version is reset with it.                             *)
FrameworkErrors ==
  framework # "None" /\ (frameworkVersion = "None" \/ CleanApps = 0)

(* Mutant: the host is taken on trust.                                     *)
TargetErrors_NoHost(e) == "auth_ref" \notin e.texts \/ e.pathless

TargetErrors(e) == ~({"host", "auth_ref"} \subseteq e.texts) \/ e.pathless

DatabaseErrors(e) == e.database /\ ~({"db_user", "db_pw"} \subseteq e.texts)

PrivilegeErrors(e) ==
  /\ ~e.sudo
  /\ selected # {} \/ framework # "None" \/ e.database \/ e.java \/ e.protected

Refused(e) ==
  \/ ComponentErrors
  \/ FrameworkErrors
  \/ TargetErrors(e)
  \/ DatabaseErrors(e)
  \/ PrivilegeErrors(e)

(* Mutant: only the numbers of what was selected are sent.                 *)
BuildUserRequest_OnlySelected(e) ==
  [targets    |-> <<e.texts \intersect Login>>,
   components |-> selected,
   versions   |-> [c \in selected \intersect Ruled |-> CleanVersion(c)],
   instances  |-> [c \in selected \intersect Ruled |-> CleanInstances(c)],
   framework  |-> IF framework = "None" THEN "none" ELSE "given",
   apps       |-> CleanApps,
   java       |-> e.java,
   baseDir    |-> "base_dir" \in e.texts,
   credentials |-> Credentials(e)]

BuildUserRequest(e) ==
  [targets    |-> <<e.texts \intersect Login>>,
   components |-> selected,
   versions   |-> [c \in Ruled \union {"java"} |->
                     IF c \in Ruled THEN CleanVersion(c)
                     ELSE IF e.java THEN "given" ELSE ""],
   instances  |-> [c \in Ruled |-> CleanInstances(c)],
   framework  |-> IF framework = "None" THEN "none" ELSE "given",
   apps       |-> CleanApps,
   java       |-> e.java,
   baseDir    |-> "base_dir" \in e.texts,
   credentials |-> Credentials(e)]
=============================================================================
