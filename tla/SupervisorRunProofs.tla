-------------------------- MODULE SupervisorRunProofs --------------------------
(* Theorems about SupervisorRun, for every choice of components that take    *)
(* part, every way to fill in the form, and every request sent to the API.  *)
EXTENDS SupervisorRun, TLAPS

USE RuledAssumption, BoundAssumption, EntryAssumption, RequestAssumption

-----------------------------------------------------------------------------
(* What the form sends.                                                    *)

FormType ==
  /\ selected \subseteq Components
  /\ version \in [Ruled -> Choice]
  /\ instances \in [Ruled -> 0..MaxInstances]
  /\ framework \in Choice
  /\ frameworkVersion \in Choice
  /\ apps \in 0..MaxInstances

LEMMA EditType ==
  ASSUME FormType, Edit
  PROVE  FormType'
<1> USE DEF FormType, Choice
<1>1. CASE \E s \in SUBSET Components : SelectComponents(s)
  BY <1>1 DEF SelectComponents
<1>2. CASE \E c \in Ruled : SetComponent(c)
  BY <1>2 DEF SetComponent
<1>3. CASE \E f \in Choice : SelectFramework(f)
  BY <1>3 DEF SelectFramework
<1>4. CASE SetFramework
  BY <1>4 DEF SetFramework
<1> QED
  BY <1>1, <1>2, <1>3, <1>4 DEF Edit

LEMMA BuiltIsRequest ==
  ASSUME FormType, NEW e \in Entries
  PROVE  RequestOK(BuildUserRequest(e))
<1> DEFINE q == BuildUserRequest(e)
<1>1. e.texts \subseteq Texts /\ e.java \in BOOLEAN
  BY DEF Entry
<1>2. DOMAIN q = {"targets", "components", "versions", "instances", "framework",
                  "apps", "java", "baseDir", "credentials"}
  BY DEF BuildUserRequest
<1>3. q.targets \in Seq(SUBSET Login)
  <2>1. q.targets = <<e.texts \intersect Login>>
    BY DEF BuildUserRequest
  <2> QED
    BY <2>1
<1>4. q.components \subseteq Components
  BY DEF BuildUserRequest, FormType
<1>5. /\ DOMAIN q.versions = Ruled \union {"java"}
      /\ \A c \in DOMAIN q.versions : q.versions[c] \in Versions
  BY DEF BuildUserRequest, FormType, CleanVersion, Choice, Versions
<1>6. q.instances \in [Ruled -> Nat]
  BY DEF BuildUserRequest, FormType, CleanInstances
<1>7. q.framework \in {"", "none", "given"} /\ q.apps \in Nat
  BY DEF BuildUserRequest, FormType, CleanApps
<1>8. q.java \in BOOLEAN /\ q.baseDir \in BOOLEAN
  BY <1>1 DEF BuildUserRequest
<1>9. q.credentials \subseteq {"db_user", "db_pw"}
  BY DEF BuildUserRequest, Credentials
<1>10. RequestOK(q)
  <2> HIDE DEF q
  <2> QED
    BY <1>2, <1>3, <1>4, <1>5, <1>6, <1>7, <1>8, <1>9 DEF RequestOK
<1> QED
  BY <1>10

-----------------------------------------------------------------------------
(* Type correctness.                                                       *)

Tellers == Agents \union {"supervisor"}
Told    == [owner : Tellers, phase : {"run", "plan", "dispatch", "finalize"},
            status : Statuses]
Tried   == [agent : Agents, success : BOOLEAN]

RunType ==
  /\ pc \in Points
  /\ origin \in {"none", "form", "api"}
  /\ pc # "form" => RequestOK(request)
  /\ mode \in {"plan", "run", "chat"}
  /\ blocked \in BOOLEAN
  /\ DOMAIN steps \in {{}, Work}
  /\ \A w \in DOMAIN steps : steps[w] \in {"pending", "completed", "failed"}
  /\ dispatched \subseteq Work
  /\ executed \in Seq(Tried)
  /\ summary \in [says : {"nothing", "blocked", "reviewed", "failed", "complete"},
                  failed : SUBSET Agents]
  /\ events \in Seq(Told)
  /\ generated \in BOOLEAN
  /\ outcome \in {"none", "plan", "result", "missing_info", "raised"}

LEMMA TypeParts == TypeOK <=> FormType /\ RunType
BY DEF TypeOK, FormType, RunType, Told, Tellers, Tried

LEMMA EmitOne ==
  ASSUME events \in Seq(Told), NEW a \in Told, Emit(<<a>>)
  PROVE  events' \in Seq(Told)
BY DEF Emit

LEMMA EmitTwo ==
  ASSUME events \in Seq(Told), NEW a \in Told, NEW b \in Told, Emit(<<a, b>>)
  PROVE  events' \in Seq(Told)
BY DEF Emit

LEMMA EventType ==
  ASSUME NEW o \in Tellers, NEW p \in {"run", "plan", "dispatch", "finalize"},
         NEW s \in Statuses
  PROVE  Event(o, p, s) \in Told
BY DEF Event, Told

LEMMA AskType ==
  ASSUME FormType, RunType, Ask
  PROVE  FormType' /\ RunType'
<1>1. PICK q, m, from : /\ Call(q, m, from) /\ RequestOK(q)
                        /\ m \in {"plan", "run", "chat"} /\ from \in {"form", "api"}
  <2>1. CASE Submit
    <3>1. PICK e \in Entries : Call(BuildUserRequest(e), "run", "form")
      BY <2>1 DEF Submit
    <3> QED
      BY <3>1, BuiltIsRequest
  <2>2. CASE Receive
    BY <2>2 DEF Receive
  <2> QED
    BY <2>1, <2>2 DEF Ask
<1>2. FormType'
  BY <1>1 DEF Call, form, FormType
<1>3. events' \in Seq(Told)
  <2>1. CASE m = "run"
    <3>1. Event("supervisor", "run", "started") \in Told
      BY EventType DEF Tellers, Statuses
    <3> QED
      BY <1>1, <2>1, <3>1, EmitOne DEF Call, RunType
  <2>2. CASE m # "run"
    BY <1>1, <2>2 DEF Call, Emit, RunType
  <2> QED
    BY <2>1, <2>2
<1>4. RunType'
  BY <1>1, <1>3 DEF Call, Goto, RunType, Points
<1> QED
  BY <1>2, <1>4

LEMMA GraphType ==
  ASSUME RunType, pc # "form", Graph
  PROVE  RunType'
<1> USE DEF RunType, Goto, Points
<1>1. \A p \in {"run", "plan", "dispatch", "finalize"}, s \in Statuses :
         Event("supervisor", p, s) \in Told
  BY EventType DEF Tellers
<1>2. \A a \in Agents, s \in Statuses : Event(a, "run", s) \in Told
  BY EventType DEF Tellers
<1>3. {"started", "planned", "completed", "failed"} \subseteq Statuses
  BY DEF Statuses
<1>4. CASE BeginPlan
  <2>1. events' \in Seq(Told)
    BY <1>1, <1>3, <1>4, EmitOne DEF BeginPlan
  <2> QED
    BY <1>4, <2>1 DEF BeginPlan
<1>5. CASE EndPlan
  <2> DEFINE stop == Missing(request) # {}
  <2>1. events' \in Seq(Told)
    <3>1. PICK s \in {"completed", "failed"} : Emit(<<Event("supervisor", "plan", s)>>)
      BY <1>5 DEF EndPlan
    <3> QED
      BY <1>1, <1>3, <3>1, EmitOne
  <2>2. /\ DOMAIN steps' = Work
        /\ \A w \in Work : steps'[w] \in {"pending", "completed", "failed"}
    BY <1>5 DEF EndPlan, PlanSteps
  <2>3. pc' \in {"finalize", "dispatch"} /\ blocked' = stop
    BY <1>5 DEF EndPlan, RouteAfterPlan
  <2> HIDE DEF stop
  <2>4. blocked' \in BOOLEAN
    BY <2>3 DEF stop
  <2> QED
    BY <1>5, <2>1, <2>2, <2>3, <2>4 DEF EndPlan
<1>6. CASE Dispatch
  <2>1. events' \in Seq(Told)
    BY <1>1, <1>3, <1>6, EmitOne DEF Dispatch
  <2> QED
    BY <1>6, <2>1 DEF Dispatch
<1>7. CASE SkipInfra
  <2>1. events' \in Seq(Told)
    BY <1>2, <1>3, <1>7, EmitOne DEF SkipInfra, Agents
  <2> QED
    BY <1>7, <2>1 DEF SkipInfra
<1>8. CASE CallInfra
  <2>1. events' \in Seq(Told)
    BY <1>2, <1>3, <1>8, EmitTwo DEF CallInfra, Agents
  <2> QED
    BY <1>8, <2>1 DEF CallInfra
<1>9. ASSUME NEW a \in Agents, NEW ok \in BOOLEAN, Returned(a, ok)
      PROVE  executed' \in Seq(Tried) /\ events' \in Seq(Told)
  <2>1. [agent |-> a, success |-> ok] \in Tried
    BY DEF Tried
  <2>2. PICK s \in {"completed", "failed"} : Emit(<<Event(a, "run", s)>>)
    BY <1>9 DEF Returned
  <2>3. events' \in Seq(Told)
    BY <1>2, <1>3, <2>2, EmitOne
  <2> QED
    BY <1>9, <2>1, <2>3 DEF Returned
<1>10. CASE InfraReturns
  <2>1. executed' \in Seq(Tried) /\ events' \in Seq(Told)
    BY <1>9, <1>10 DEF InfraReturns, Agents
  <2> QED
    BY <1>10, <2>1 DEF InfraReturns
<1>11. CASE CallApp
  <2>1. events' \in Seq(Told)
    BY <1>2, <1>3, <1>11, EmitTwo DEF CallApp, Agents
  <2> QED
    BY <1>11, <2>1 DEF CallApp
<1>12. CASE AppReturns
  <2>1. executed' \in Seq(Tried) /\ events' \in Seq(Told)
    BY <1>9, <1>12 DEF AppReturns, Agents
  <2>2. generated' \in BOOLEAN
    BY <1>12 DEF AppReturns
  <2> QED
    BY <1>12, <2>1, <2>2 DEF AppReturns
<1>13. CASE Finalize
  <2>1. events' \in Seq(Told)
    BY <1>1, <1>3, <1>13, EmitTwo DEF Finalize
  <2>2. FailedAgents \subseteq Agents
    <3>1. \A i \in 1..Len(executed) : executed[i] \in Tried
      OBVIOUS
    <3> QED
      BY <3>1 DEF FailedAgents, Tried
  <2>3. summary' \in [says : {"nothing", "blocked", "reviewed", "failed", "complete"},
                      failed : SUBSET Agents]
    BY <1>13, <2>2 DEF Finalize, FinalSummary, Says
  <2> QED
    BY <1>13, <2>1, <2>3 DEF Finalize
<1> QED
  BY <1>4, <1>5, <1>6, <1>7, <1>8, <1>10, <1>11, <1>12, <1>13 DEF Graph

LEMMA TypeStep == TypeOK /\ [Next]_vars => TypeOK'
<1> SUFFICES ASSUME FormType, RunType, [Next]_vars
             PROVE  FormType' /\ RunType'
  BY DEF TypeOK, FormType, RunType, Told, Tellers, Tried
<1>1. CASE EditForm
  BY <1>1, EditType DEF EditForm, RunType, report
<1>2. CASE Ask
  BY <1>2, AskType
<1>3. CASE Graph
  <2>1. pc # "form" /\ UNCHANGED form
    BY <1>3 DEF Graph, BeginPlan, EndPlan, Dispatch, SkipInfra, CallInfra,
                InfraReturns, CallApp, AppReturns, Finalize
  <2> QED
    BY <1>3, <2>1, GraphType DEF form, FormType
<1>4. CASE Raises
  BY <1>4 DEF Raises, Goto, RunType, FormType, Points, form, report
<1>5. CASE AnswerRun
  <2>1. PICK s \in {"completed", "failed"} : Emit(<<Event("supervisor", "run", s)>>)
    BY <1>5 DEF AnswerRun
  <2>2. events' \in Seq(Told)
    BY <2>1, EventType, EmitOne DEF RunType, Tellers, Statuses
  <2> QED
    BY <1>5, <2>2 DEF AnswerRun, Goto, RunType, FormType, Points, form
<1>6. CASE AnswerPlan
  BY <1>6 DEF AnswerPlan, Goto, RunType, FormType, Points, form, report
<1>7. CASE UNCHANGED vars
  BY <1>7 DEF vars, form, report, FormType, RunType
<1> QED
  BY <1>1, <1>2, <1>3, <1>4, <1>5, <1>6, <1>7 DEF Next, Step

LEMMA TypeInit == Init => TypeOK
<1> SUFFICES ASSUME Init
             PROVE  FormType /\ RunType
  BY TypeParts
<1>1. FormType
  BY DEF Init, FormInit, FormType, Choice
<1>2. DOMAIN steps = {} /\ \A w \in DOMAIN steps : FALSE
  BY DEF Init
<1>3. summary \in [says : {"nothing", "blocked", "reviewed", "failed", "complete"},
                   failed : SUBSET Agents]
  BY DEF Init, Silent
<1>4. executed \in Seq(Tried) /\ events \in Seq(Told)
  BY DEF Init
<1> QED
  BY <1>1, <1>2, <1>3, <1>4 DEF Init, RunType, Points

(* Type correctness, for every instance.                                    *)
THEOREM SupervisorTypeCorrect == Spec => []TypeOK
<1> QED
  BY TypeInit, TypeStep, PTL DEF Spec

-----------------------------------------------------------------------------
(* What was sent from the form stays what the form holds: the widgets are   *)
(* only edited while nothing is under way.                                  *)

Sent ==
  /\ pc = "form" <=> origin = "none"
  /\ FromForm => \E e \in Entries : ~Refused(e) /\ request = BuildUserRequest(e)

FormInv == FormType /\ RunType /\ Sent

LEMMA SentStep == FormInv /\ [Next]_vars => FormInv'
<1> SUFFICES ASSUME FormInv, [Next]_vars
             PROVE  FormInv'
  OBVIOUS
<1>1. FormType' /\ RunType'
  <2>1. TypeOK /\ [Next]_vars => TypeOK'
    BY TypeStep
  <2> QED
    BY <2>1 DEF FormInv, TypeOK, FormType, RunType, Told, Tellers, Tried
<1>2. ASSUME UNCHANGED <<form, origin, request>>, (pc = "form") <=> (pc' = "form")
      PROVE  Sent'
  BY <1>2 DEF FormInv, Sent, FromForm, form, Refused, ComponentErrors, FrameworkErrors,
              TargetErrors, DatabaseErrors, PrivilegeErrors, CleanVersion, CleanInstances,
              CleanApps, Credentials, BuildUserRequest
<1>3. CASE EditForm
  BY <1>1, <1>3 DEF EditForm, FormInv, Sent, FromForm
<1>4. CASE Ask
  <2>1. CASE Submit
    <3>1. PICK e \in Entries : ~Refused(e) /\ Call(BuildUserRequest(e), "run", "form")
      BY <2>1 DEF Submit
    <3>2. (~Refused(e))' /\ BuildUserRequest(e)' = BuildUserRequest(e)
      BY <3>1 DEF Call, form, Refused, ComponentErrors, FrameworkErrors, TargetErrors,
              DatabaseErrors, PrivilegeErrors, CleanVersion, CleanInstances, CleanApps,
              Credentials, BuildUserRequest
    <3> QED
      BY <1>1, <3>1, <3>2 DEF Call, Goto, FormInv, Sent
  <2>2. CASE Receive
    BY <1>1, <2>2 DEF Receive, Call, Goto, FormInv, Sent, FromForm
  <2> QED
    BY <1>4, <2>1, <2>2 DEF Ask
<1>5. CASE Step
  <2>1. /\ UNCHANGED <<form, origin, request>>
        /\ pc # "form" /\ pc' # "form"
    BY <1>5 DEF Step, Graph, BeginPlan, EndPlan, Dispatch, SkipInfra, CallInfra,
            InfraReturns, CallApp, AppReturns, Finalize, Raises, AnswerRun, AnswerPlan,
            Goto, RouteAfterPlan
  <2> QED
    BY <1>1, <1>2, <2>1 DEF FormInv
<1>6. CASE UNCHANGED vars
  BY <1>1, <1>2, <1>6 DEF vars, FormInv
<1> QED
  BY <1>1, <1>3, <1>4, <1>5, <1>6 DEF Next, FormInv

(* The rules of the form and those of the supervisor, side by side.         *)
LEMMA GapsOfForm ==
  ASSUME FormType, NEW e \in Entries, ~Refused(e), request = BuildUserRequest(e)
  PROVE  Missing(request) = FormGaps
<1> DEFINE t == e.texts \intersect Login
<1>1. request.targets = <<t>> /\ Len(request.targets) = 1 /\ request.targets[1] = t
  BY DEF BuildUserRequest
<1>2. "host" \in t /\ "auth_ref" \in t
  BY DEF Refused, TargetErrors, Login
<1>3. {f \in {"targets"} : request.targets = <<>>} = {}
  BY <1>1
<1>4. {f \in Login : \E i \in 1..Len(request.targets) : f \notin request.targets[i]}
        = {f \in {"user"} : \A i \in 1..Len(request.targets) : "user" \notin request.targets[i]}
  <2> HIDE DEF t
  <2>1. \A i \in 1..Len(request.targets) : i = 1
    BY <1>1
  <2>2. 1 \in 1..Len(request.targets)
    BY <1>1
  <2> QED
    BY <1>1, <1>2, <2>1, <2>2 DEF Login
<1>5. /\ request.components = selected /\ request.java = e.java
      /\ request.framework = IF framework = "None" THEN "none" ELSE "given"
      /\ request.apps = CleanApps
      /\ request.versions = [c \in Ruled \union {"java"} |->
                     IF c \in Ruled THEN CleanVersion(c)
                     ELSE IF e.java THEN "given" ELSE ""]
  BY DEF BuildUserRequest
<1>6. (~HasInfra(request) /\ ~HasApp(request)) <=> (selected = {} /\ framework = "None")
  <2>1. framework # "None" => CleanApps # 0 /\ CleanApps \in Nat
    BY DEF FormType, Refused, FrameworkErrors, CleanApps
  <2>2. framework = "None" => CleanApps = 0
    BY DEF CleanApps
  <2>3. HasInfra(request) <=> selected # {}
    BY <1>5 DEF HasInfra
  <2>4. request.apps > 0 <=> framework # "None"
    <3>1. request.apps = CleanApps
      BY <1>5
    <3>2. \A n \in Nat : n # 0 => n > 0
      OBVIOUS
    <3>3. CASE framework = "None"
      BY <2>2, <3>1, <3>3
    <3>4. CASE framework # "None"
      BY <2>1, <3>1, <3>2, <3>4
    <3> QED
      BY <3>3, <3>4
  <2>5. request.framework \notin {"", "none"} <=> framework # "None"
    BY <1>5
  <2> QED
    BY <2>3, <2>4, <2>5 DEF HasApp
<1>7. VersionGaps(request)
        = {f \in {"java"} : selected \intersect {"tomcat", "kafka"} # {} /\ ~request.java}
  <2>1. CASE selected = {}
    BY <1>5, <2>1 DEF VersionGaps, HasInfra
  <2>2. CASE selected # {}
    <3>1. DOMAIN request.versions = Ruled \union {"java"}
      BY <1>5
    <3>2. \A c \in selected \intersect {"tomcat", "kafka"} :
            VersionOf(request, c) = "given"
      <4> SUFFICES ASSUME NEW c \in selected \intersect {"tomcat", "kafka"}
                   PROVE  VersionOf(request, c) = "given"
        OBVIOUS
      <4>1. c \in Ruled
        BY DEF FormType, Components
      <4>2. CleanVersion(c) = "given"
        BY <4>1 DEF FormType, Refused, ComponentErrors, CleanVersion, Choice
      <4> QED
        BY <1>5, <3>1, <4>1, <4>2 DEF VersionOf
    <3>3. VersionOf(request, "java") = "" <=> ~e.java
      BY <1>5, <3>1 DEF VersionOf
    <3>4. JavaLacks(request) <=> selected \intersect {"tomcat", "kafka"} # {} /\ ~e.java
      BY <1>5, <3>3 DEF JavaLacks
    <3> QED
      BY <1>5, <2>2, <3>1, <3>2, <3>4 DEF VersionGaps, HasInfra
  <2> QED
    BY <2>1, <2>2
<1> QED
  BY <1>3, <1>4, <1>6, <1>7 DEF Missing, FormGaps

LEMMA FormCorrect == Spec => []FormInv
<1>1. Init => FormInv
  <2>1. Init => TypeOK
    BY TypeInit
  <2> QED
    BY <2>1, TypeParts DEF FormInv, Sent, Init, FromForm
<1> QED
  BY <1>1, SentStep, PTL DEF Spec

(* What apply_form_rules lets through lacks nothing that check_missing_info *)
(* asks for, but for the four gaps that FormGaps names.                     *)
THEOREM FormAndSupervisorAgree == Spec => []SubmittedLacksOnly
<1>1. FormInv => SubmittedLacksOnly
  BY GapsOfForm DEF FormInv, Sent, SubmittedLacksOnly
<1> QED
  BY <1>1, FormCorrect, PTL

-----------------------------------------------------------------------------
(* What a call does, by the node it is at.                                  *)

InfraRan == \E i \in 1..Len(executed) : executed[i].agent = "infra_build"

(* No agent was called.                                                     *)
Idle ==
  /\ executed = <<>> /\ ~generated
  /\ \A i \in 1..Len(events) : events[i].owner = "supervisor"

Going == GraphMode = "run" /\ ~blocked

Announced == {w \in Work : \/ w = "build_infra" /\ HasInfra(request)
                           \/ w = "generate_app" /\ HasApp(request)}

(* Both agents have had their turn.                                         *)
Served ==
  /\ dispatched = Announced
  /\ InfraRan <=> request.components # {}
  /\ generated <=> ~AgentSkips(request)

RunInv ==
  /\ pc \in {"form", "plan", "planning", "dispatch"} => Idle
  /\ pc \in {"form", "plan", "planning"} => ~blocked
  /\ pc \notin {"form", "plan", "planning"} /\ outcome # "raised" =>
       blocked = (Missing(request) # {}) /\ steps = PlanSteps(request, blocked)
  /\ pc \in {"dispatch", "build_infra", "infra", "generate_app", "app"} => Going
  /\ pc \in {"build_infra", "infra", "generate_app", "app"} =>
       dispatched = Announced /\ ~generated
  /\ pc \in {"build_infra", "infra"} => executed = <<>>
  /\ pc = "infra" => request.components # {}
  /\ pc \in {"generate_app", "app"} => (InfraRan <=> request.components # {})
  /\ pc \in {"finalize", "answer"} => IF Going THEN Served ELSE Idle
  /\ pc = "done" => (blocked => Idle)
  /\ outcome # "none" <=> pc = "done"
  /\ outcome = "result" => Going /\ Served
  /\ outcome \in {"plan", "missing_info"} => Idle

CallInv == FormInv /\ RunInv

LEMMA OwnWord ==
  ASSUME RunType, NEW p \in {"run", "plan", "dispatch", "finalize"},
         NEW s \in Statuses, Emit(<<Event("supervisor", p, s)>>),
         Idle, UNCHANGED <<executed, generated>>
  PROVE  Idle'
<1> DEFINE a == Event("supervisor", p, s)
<1>1. a \in Told /\ a.owner = "supervisor"
  BY EventType DEF Tellers, Event
<1> HIDE DEF a
<1>2. /\ Len(events') = Len(events) + 1 /\ Len(events) \in Nat
      /\ events'[Len(events) + 1] = a
      /\ \A i \in 1..Len(events) : events'[i] = events[i]
  BY <1>1 DEF Emit, RunType, a
<1> QED
  BY <1>1, <1>2 DEF Idle

LEMMA OwnWords ==
  ASSUME RunType, Emit(<<Event("supervisor", "finalize", "started"),
                         Event("supervisor", "finalize", "completed")>>),
         Idle, UNCHANGED <<executed, generated>>
  PROVE  Idle'
<1> DEFINE a == Event("supervisor", "finalize", "started")
           b == Event("supervisor", "finalize", "completed")
<1>1. /\ a \in Told /\ a.owner = "supervisor"
      /\ b \in Told /\ b.owner = "supervisor"
  BY EventType DEF Tellers, Event, Statuses
<1>2. events' = events \o <<a, b>>
  BY DEF Emit
<1> HIDE DEF a, b
<1>3. /\ Len(events') = Len(events) + 2 /\ Len(events) \in Nat
      /\ events'[Len(events) + 1] = a /\ events'[Len(events) + 2] = b
      /\ \A i \in 1..Len(events) : events'[i] = events[i]
  BY <1>1, <1>2 DEF RunType
<1> QED
  BY <1>1, <1>3 DEF Idle

LEMMA CallStart ==
  ASSUME CallInv, Ask
  PROVE  RunInv'
<1>1. PICK q, m, from : Call(q, m, from)
  BY DEF Ask, Submit, Receive
<1>2. Idle /\ ~blocked /\ outcome = "none"
  BY <1>1 DEF CallInv, RunInv, Call
<1>3. Idle'
  <2>1. CASE m = "run"
    BY <1>1, <1>2, <2>1, OwnWord DEF Call, CallInv, FormInv, Statuses
  <2>2. CASE m # "run"
    <3>1. events' = events
      BY <1>1, <2>2 DEF Call, Emit, CallInv, FormInv, RunType
    <3> QED
      BY <1>1, <1>2, <3>1 DEF Call, Idle
  <2> QED
    BY <2>1, <2>2
<1> QED
  BY <1>1, <1>2, <1>3 DEF Call, Goto, RunInv

LEMMA PlanRun ==
  ASSUME CallInv, BeginPlan \/ EndPlan \/ Dispatch
  PROVE  RunInv'
<1> USE DEF Goto
<1>1. RunType /\ RunInv
  BY DEF CallInv, FormInv
<1>2. CASE BeginPlan
  <2>1. Idle'
    BY <1>1, <1>2, OwnWord DEF BeginPlan, RunInv, Statuses
  <2> QED
    BY <1>1, <1>2, <2>1 DEF BeginPlan, RunInv
<1>3. CASE EndPlan
  <2> DEFINE stop == Missing(request) # {}
  <2>1. PICK s \in Statuses : Emit(<<Event("supervisor", "plan", s)>>)
    BY <1>3 DEF EndPlan, Statuses
  <2>2. Idle'
    BY <1>1, <1>3, <2>1, OwnWord DEF EndPlan, RunInv
  <2>3. blocked' = stop /\ stop \in BOOLEAN /\ steps' = PlanSteps(request, stop)
    BY <1>3 DEF EndPlan
  <2>4. pc' = RouteAfterPlan(stop) /\ UNCHANGED <<request, mode, outcome>>
    BY <1>3 DEF EndPlan
  <2>5. GraphMode' = GraphMode
    BY <2>4 DEF GraphMode
  <2>6. GraphMode \in {"plan", "run"}
    BY <1>1 DEF GraphMode, RunType
  <2>7. pc' = "dispatch" => Going'
    BY <2>3, <2>4, <2>5, <2>6 DEF RouteAfterPlan, Going
  <2>8. pc' = "finalize" => ~Going'
    BY <2>3, <2>4, <2>5, <2>6 DEF RouteAfterPlan, Going
  <2>9. pc' \in {"dispatch", "finalize"}
    BY <2>4 DEF RouteAfterPlan
  <2>10. outcome' = "none"
    BY <1>1, <1>3, <2>4 DEF RunInv, EndPlan
  <2>11. blocked' = (Missing(request) # {})' /\ steps' = PlanSteps(request, blocked)'
    BY <2>3, <2>4
  <2> QED
    BY <2>2, <2>7, <2>8, <2>9, <2>10, <2>11 DEF RunInv
<1>4. CASE Dispatch
  <2>1. /\ dispatched' = Announced' /\ pc' = "build_infra"
        /\ UNCHANGED <<request, mode, blocked, steps, executed, generated, outcome>>
    BY <1>4 DEF Dispatch, Announced
  <2>2. Going'
    BY <1>1, <1>4, <2>1 DEF Dispatch, RunInv, Going, GraphMode
  <2> QED
    BY <1>1, <1>4, <2>1, <2>2 DEF Dispatch, RunInv, Idle
<1> QED
  BY <1>2, <1>3, <1>4

LEMMA AgentsRun ==
  ASSUME CallInv, SkipInfra \/ CallInfra \/ InfraReturns \/ CallApp \/ AppReturns
  PROVE  RunInv'
<1> USE DEF Goto
<1>1. RunType /\ RunInv
  BY DEF CallInv, FormInv
<1>2. /\ UNCHANGED <<request, mode, blocked, steps, dispatched, outcome>>
      /\ pc \in {"build_infra", "infra", "generate_app", "app"}
  BY DEF SkipInfra, CallInfra, InfraReturns, CallApp, AppReturns
<1>3. /\ Going' /\ dispatched' = Announced' /\ outcome' = "none" /\ ~blocked'
      /\ blocked' = (Missing(request) # {})' /\ steps' = PlanSteps(request, blocked)'
  BY <1>1, <1>2 DEF RunInv, Going, GraphMode, Announced
<1>4. CASE SkipInfra
  <2>1. ~InfraRan'
    BY <1>1, <1>4 DEF SkipInfra, RunInv, InfraRan
  <2> QED
    BY <1>1, <1>2, <1>3, <1>4, <2>1 DEF SkipInfra, RunInv
<1>5. CASE CallInfra
  BY <1>1, <1>2, <1>3, <1>5 DEF CallInfra, RunInv
<1>6. CASE InfraReturns
  <2>1. PICK ok \in BOOLEAN : executed' = Append(executed, [agent |-> "infra_build", success |-> ok])
    BY <1>6 DEF InfraReturns, Returned
  <2>2. executed = <<>>
    BY <1>1, <1>6 DEF InfraReturns, RunInv
  <2>3. Len(executed') = 1 /\ executed'[1].agent = "infra_build"
    BY <2>1, <2>2
  <2>4. InfraRan'
    BY <2>3 DEF InfraRan
  <2>5. request'.components # {}
    BY <1>1, <1>2, <1>6 DEF InfraReturns, RunInv
  <2> QED
    BY <1>1, <1>2, <1>3, <1>6, <2>4, <2>5 DEF InfraReturns, RunInv
<1>7. CASE CallApp
  <2>1. InfraRan' <=> InfraRan
    BY <1>7 DEF CallApp, InfraRan
  <2> QED
    BY <1>1, <1>2, <1>3, <1>7, <2>1 DEF CallApp, RunInv
<1>8. CASE AppReturns
  <2>1. PICK ok \in BOOLEAN : executed' = Append(executed, [agent |-> "sample_app", success |-> ok])
    BY <1>8 DEF AppReturns, Returned
  <2>2. [agent |-> "sample_app", success |-> ok] \in Tried
    BY DEF Tried, Agents
  <2>3. /\ Len(executed') = Len(executed) + 1 /\ Len(executed) \in Nat
        /\ executed'[Len(executed) + 1].agent = "sample_app"
        /\ \A i \in 1..Len(executed) : executed'[i] = executed[i]
    BY <1>1, <2>1, <2>2 DEF RunType
  <2>4. InfraRan' <=> InfraRan
    BY <2>3 DEF InfraRan
  <2>5. InfraRan <=> request.components # {}
    BY <1>1, <1>8 DEF AppReturns, RunInv
  <2>6. generated' <=> ~AgentSkips(request)'
    BY <1>2, <1>8 DEF AppReturns, AgentSkips
  <2>7. Served'
    BY <1>2, <1>3, <2>4, <2>5, <2>6 DEF Served
  <2> QED
    BY <1>1, <1>2, <1>3, <1>8, <2>7 DEF AppReturns, RunInv
<1> QED
  BY <1>4, <1>5, <1>6, <1>7, <1>8

LEMMA RunEnds ==
  ASSUME CallInv, Finalize \/ Raises \/ AnswerRun \/ AnswerPlan
  PROVE  RunInv'
<1> USE DEF Goto
<1>1. RunType /\ RunInv
  BY DEF CallInv, FormInv
<1>2. /\ UNCHANGED <<request, mode, blocked, steps, dispatched, executed, generated>>
      /\ pc \in {"planning", "finalize", "answer"}
  BY DEF Finalize, Raises, AnswerRun, AnswerPlan, report
<1>3. /\ Going' <=> Going
      /\ Served' <=> Served
  BY <1>2 DEF Going, GraphMode, Served, Announced, InfraRan, AgentSkips
<1>4. outcome = "none" /\ (~Going \/ pc = "planning" => Idle)
  BY <1>1, <1>2 DEF RunInv
<1>5. pc # "planning" => /\ blocked' = (Missing(request) # {})'
                         /\ steps' = PlanSteps(request, blocked)'
  BY <1>1, <1>2, <1>4 DEF RunInv
<1>6. CASE Finalize
  <2>1. ~Going' => Idle'
    BY <1>1, <1>2, <1>3, <1>4, <1>6, OwnWords DEF Finalize
  <2>2. Going' => Served'
    BY <1>1, <1>3, <1>6 DEF Finalize, RunInv
  <2> QED
    BY <1>4, <1>5, <1>6, <2>1, <2>2 DEF Finalize, RunInv
<1>7. CASE Raises
  <2>1. blocked' => Idle'
    <3>1. events' = events
      BY <1>7 DEF Raises, report
    <3>2. blocked => Idle
      BY <1>4 DEF Going
    <3> QED
      BY <1>2, <3>1, <3>2 DEF Idle
  <2> QED
    BY <1>7, <2>1 DEF Raises, RunInv
<1>8. CASE AnswerRun
  <2>1. PICK s \in Statuses : Emit(<<Event("supervisor", "run", s)>>)
    BY <1>8 DEF AnswerRun, Statuses
  <2>2. blocked' => Idle'
    BY <1>1, <1>2, <1>4, <2>1, OwnWord DEF Going
  <2>3. ~blocked' => Going' /\ Served'
    BY <1>1, <1>2, <1>3, <1>8 DEF AnswerRun, RunInv, Going, GraphMode
  <2> QED
    BY <1>5, <1>8, <2>2, <2>3 DEF AnswerRun, RunInv
<1>9. CASE AnswerPlan
  <2>1. ~Going' => Idle'
    BY <1>2, <1>3, <1>4, <1>9 DEF AnswerPlan, report, Idle
  <2>2. GraphMode = "run" => Missing(request) = {} /\ ~blocked
    <3>1. GraphMode = "run" => Missing(request) = {}
      BY <1>9 DEF AnswerPlan, GraphMode
    <3> QED
      BY <1>1, <1>4, <1>9, <3>1 DEF AnswerPlan, RunInv
  <2>3. GraphMode \in {"plan", "run"}
    BY <1>1 DEF GraphMode, RunType
  <2>4. CASE GraphMode = "plan"
    <3>1. ~Going' /\ outcome' = "plan" /\ pc' = "done"
      BY <1>3, <1>9, <2>4 DEF AnswerPlan, Going
    <3> QED
      BY <1>5, <1>9, <2>1, <3>1 DEF AnswerPlan, RunInv
  <2>5. CASE GraphMode = "run"
    <3>1. Going' /\ Served' /\ outcome' = "result" /\ pc' = "done"
      BY <1>1, <1>3, <1>9, <2>2, <2>5 DEF AnswerPlan, Going, RunInv
    <3>2. ~blocked'
      BY <3>1 DEF Going
    <3> QED
      BY <1>5, <1>9, <3>1, <3>2 DEF AnswerPlan, RunInv
  <2> QED
    BY <2>3, <2>4, <2>5
<1> QED
  BY <1>6, <1>7, <1>8, <1>9

LEMMA CallStep == CallInv /\ [Next]_vars => CallInv'
<1> SUFFICES ASSUME CallInv, [Next]_vars
             PROVE  CallInv'
  OBVIOUS
<1>1. FormInv'
  BY SentStep DEF CallInv
<1>2. ASSUME UNCHANGED <<pc, request, mode, blocked, report, generated, outcome>>
      PROVE  RunInv'
  BY <1>2 DEF CallInv, RunInv, Idle, Going, GraphMode, Served, Announced, InfraRan,
              AgentSkips, report
<1>3. CASE EditForm \/ UNCHANGED vars
  BY <1>1, <1>2, <1>3 DEF EditForm, vars, report, CallInv
<1>4. CASE Ask
  BY <1>1, <1>4, CallStart DEF CallInv
<1>5. CASE Graph
  BY <1>1, <1>5, PlanRun, AgentsRun, RunEnds DEF Graph, CallInv
<1>6. CASE Raises \/ AnswerRun \/ AnswerPlan
  BY <1>1, <1>6, RunEnds DEF CallInv
<1> QED
  BY <1>3, <1>4, <1>5, <1>6 DEF Next, Step

LEMMA CallCorrect == Spec => []CallInv
<1>1. Init => FormInv
  <2>1. Init => TypeOK
    BY TypeInit
  <2> QED
    BY <2>1, TypeParts DEF FormInv, Sent, Init, FromForm
<1>2. Init => RunInv
  BY DEF Init, RunInv, Idle
<1> QED
  BY <1>1, <1>2, CallStep, PTL DEF Spec, CallInv

(* Nothing is done that was not announced and nothing announced is left     *)
(* out, with the one exception the property names; when something is       *)
(* missing neither agent is called.                                        *)
THEOREM PlansAreDone == Spec => []PlannedIsDone
<1>1. CallInv => PlannedIsDone
  <2> SUFFICES ASSUME CallInv
               PROVE  PlannedIsDone
    OBVIOUS
  <2>1. RunType /\ RunInv
    BY DEF CallInv, FormInv
  <2>2. ASSUME outcome = "result"
        PROVE  /\ Missing(request) = {}
               /\ \A w \in Work :
                    \/ Done(w) <=> steps[w] = "pending" /\ w \in dispatched
                    \/ w = "generate_app" /\ request.framework = "" /\ request.apps > 0
    <3>1. Going /\ Served /\ pc = "done"
      BY <2>1, <2>2 DEF RunInv
    <3>2. Missing(request) = {} /\ steps = PlanSteps(request, FALSE)
      BY <2>1, <2>2, <3>1 DEF RunInv, Going
    <3>3. request.apps \in Nat /\ request.framework \in {"", "none", "given"}
      BY <2>1, <3>1 DEF RunType, RequestOK
    <3>4. /\ steps["build_infra"] = "pending" <=> HasInfra(request)
          /\ steps["generate_app"] = "pending" <=> HasApp(request)
      BY <3>2 DEF PlanSteps, Work
    <3>5. Done("build_infra") <=> HasInfra(request)
      BY <3>1 DEF Done, Served, InfraRan, HasInfra
    <3>6. \/ Done("generate_app") <=> HasApp(request)
          \/ request.framework = "" /\ request.apps > 0
      <4>1. Done("generate_app") <=> request.framework # "none" /\ request.apps # 0
        BY <3>1 DEF Done, Served, AgentSkips
      <4>2. request.apps # 0 <=> request.apps > 0
        <5>1. \A n \in Nat : n # 0 <=> n > 0
          OBVIOUS
        <5> QED
          BY <3>3, <5>1
      <4> QED
        BY <3>3, <4>1, <4>2 DEF HasApp
    <3>7. /\ "build_infra" \in dispatched <=> HasInfra(request)
          /\ "generate_app" \in dispatched <=> HasApp(request)
      BY <3>1 DEF Served, Announced, Work
    <3> QED
      BY <3>2, <3>4, <3>5, <3>6, <3>7 DEF Work
  <2>3. ASSUME outcome \in {"plan", "missing_info"} \/ blocked
        PROVE  Idle
    <3>1. pc \in Points
      BY <2>1 DEF RunType
    <3> QED
      BY <2>1, <2>3, <3>1 DEF RunInv, Going, Points
  <2> QED
    BY <2>2, <2>3 DEF PlannedIsDone, Idle
<1> QED
  BY <1>1, CallCorrect, PTL

(* A run from the form does what was chosen in it, and no more.             *)
THEOREM FormsAreServed == Spec => []FormIsServed
<1>1. CallInv => FormIsServed
  <2> SUFFICES ASSUME CallInv, FromForm
               PROVE  /\ outcome = "result" => /\ InfraRan <=> selected # {}
                                               /\ generated <=> framework # "None"
                      /\ \A c \in Ruled : IF c \in selected
                           THEN request.versions[c] = "given" /\ request.instances[c] > 0
                           ELSE request.versions[c] = "None" /\ request.instances[c] = 0
                      /\ request.credentials \in {{}, {"db_user", "db_pw"}}
    BY DEF FormIsServed, InfraRan
  <2>1. PICK e \in Entries : ~Refused(e) /\ request = BuildUserRequest(e)
    BY DEF CallInv, FormInv, Sent
  <2>2. FormType /\ RunInv
    BY DEF CallInv, FormInv
  <2>3. /\ request.components = selected
        /\ request.framework = (IF framework = "None" THEN "none" ELSE "given")
        /\ request.apps = CleanApps
        /\ \A c \in Ruled : request.versions[c] = CleanVersion(c)
        /\ \A c \in Ruled : request.instances[c] = CleanInstances(c)
        /\ request.credentials = Credentials(e)
    BY <2>1 DEF BuildUserRequest
  <2>4. framework # "None" => CleanApps # 0
    BY <2>1 DEF Refused, FrameworkErrors
  <2>5. AgentSkips(request) <=> framework = "None"
    BY <2>3, <2>4 DEF AgentSkips
  <2>6. outcome = "result" => Served
    BY <2>2 DEF RunInv
  <2>7. outcome = "result" => /\ InfraRan <=> selected # {}
                              /\ generated <=> framework # "None"
    BY <2>3, <2>5, <2>6 DEF Served
  <2>8. ASSUME NEW c \in Ruled
        PROVE  IF c \in selected
               THEN request.versions[c] = "given" /\ request.instances[c] > 0
               ELSE request.versions[c] = "None" /\ request.instances[c] = 0
    <3>1. version[c] \in Choice /\ instances[c] \in Nat
      BY <2>2 DEF FormType
    <3>2. c \in selected => CleanVersion(c) # "None" /\ CleanInstances(c) # 0
      BY <2>1 DEF Refused, ComponentErrors
    <3>3. CASE c \in selected
      <4>1. CleanVersion(c) = version[c] /\ CleanInstances(c) = instances[c]
        BY <3>3 DEF CleanVersion, CleanInstances
      <4>2. version[c] = "given"
        BY <3>1, <3>2, <3>3, <4>1 DEF Choice
      <4>3. instances[c] > 0
        BY <3>1, <3>2, <3>3, <4>1
      <4> QED
        BY <2>3, <3>3, <4>1, <4>2, <4>3
    <3>4. CASE c \notin selected
      BY <2>3, <3>4 DEF CleanVersion, CleanInstances
    <3> QED
      BY <3>3, <3>4
  <2>9. request.credentials \in {{}, {"db_user", "db_pw"}}
    <3>1. e.database => {"db_user", "db_pw"} \subseteq e.texts
      BY <2>1 DEF Refused, DatabaseErrors
    <3>2. CASE e.database
      BY <2>3, <3>1, <3>2 DEF Credentials
    <3>3. CASE ~e.database
      BY <2>3, <3>3 DEF Credentials
    <3> QED
      BY <3>2, <3>3
  <2> QED
    BY <2>7, <2>8, <2>9
<1> QED
  BY <1>1, CallCorrect, PTL

-----------------------------------------------------------------------------
(* What is told about a call.  es and fs are sequences of events, o the     *)
(* owner and p the phase of an event.                                       *)

Phases == {"run", "plan", "dispatch", "finalize"}

Word(es, i, o, p) == es[i].owner = o /\ es[i].phase = p

NoStart(es, o, p) ==
  \A i \in 1..Len(es) : Word(es, i, o, p) => es[i].status # "started"

NoVerdict(es, o, p) ==
  \A i \in 1..Len(es) : Word(es, i, o, p) => ~Verdict(es[i])

(* The phase has its one verdict, after all its starts.                     *)
Closed(es, o, p) ==
  \E j \in 1..Len(es) :
    /\ Word(es, j, o, p) /\ Verdict(es[j])
    /\ \A k \in 1..Len(es) : Word(es, k, o, p) /\ Verdict(es[k]) => k = j
    /\ \A i \in 1..Len(es) : Word(es, i, o, p) /\ es[i].status = "started" => i < j

Settled(es, o, p) == NoStart(es, o, p) \/ Closed(es, o, p)

Keeps(es, fs, o, p) ==
  /\ NoStart(es, o, p) => NoStart(fs, o, p)
  /\ NoVerdict(es, o, p) => NoVerdict(fs, o, p)
  /\ Closed(es, o, p) => Closed(fs, o, p)

FailedTold(es) == {a \in Agents : \E i \in 1..Len(es) : es[i] = Event(a, "run", "failed")}

NoneTold(es, fs) == FailedTold(fs) = FailedTold(es)

LEMMA OneMore ==
  ASSUME NEW es \in Seq(Told), NEW o \in Tellers, NEW p \in Phases, NEW s \in Statuses,
         NEW fs, fs = Append(es, Event(o, p, s))
  PROVE  /\ fs \in Seq(Told)
         /\ Len(es) \in Nat /\ Len(fs) = Len(es) + 1
         /\ \A i \in 1..Len(es) : fs[i] = es[i]
         /\ fs[Len(es) + 1] = Event(o, p, s)
         /\ \A i \in 1..Len(fs) : i \in 1..Len(es) \/ i = Len(es) + 1
<1>1. Event(o, p, s) \in Told
  BY EventType DEF Phases
<1>2. /\ fs \in Seq(Told)
      /\ Len(es) \in Nat /\ Len(fs) = Len(es) + 1
      /\ \A i \in 1..Len(es) : fs[i] = es[i]
      /\ fs[Len(es) + 1] = Event(o, p, s)
  BY <1>1
<1> QED
  BY <1>2

LEMMA OthersKeep ==
  ASSUME NEW es \in Seq(Told), NEW o \in Tellers, NEW p \in Phases, NEW s \in Statuses,
         NEW fs, fs = Append(es, Event(o, p, s)),
         NEW q, NEW r, q # o \/ r # p \/ s = "planned"
  PROVE  Keeps(es, fs, q, r)
<1> DEFINE e == Event(o, p, s)
           n == Len(es) + 1
<1>1. /\ Len(es) \in Nat /\ Len(fs) = n
      /\ \A i \in 1..Len(es) : fs[i] = es[i]
      /\ fs[n] = e
      /\ \A i \in 1..Len(fs) : i \in 1..Len(es) \/ i = n
      /\ \A i \in 1..Len(es) : i \in 1..Len(fs)
  BY OneMore
<1>2. Word(fs, n, q, r) => fs[n].status # "started" /\ ~Verdict(fs[n])
  BY <1>1 DEF Word, Event, Verdict
<1>3. \A i \in 1..Len(es) : Word(fs, i, q, r) <=> Word(es, i, q, r)
  BY <1>1 DEF Word
<1> HIDE DEF e, n
<1>4. NoStart(es, q, r) => NoStart(fs, q, r)
  BY <1>1, <1>2, <1>3 DEF NoStart
<1>5. NoVerdict(es, q, r) => NoVerdict(fs, q, r)
  BY <1>1, <1>2, <1>3 DEF NoVerdict
<1>6. Closed(es, q, r) => Closed(fs, q, r)
  <2> SUFFICES ASSUME Closed(es, q, r)
               PROVE  Closed(fs, q, r)
    OBVIOUS
  <2>1. PICK j \in 1..Len(es) :
          /\ Word(es, j, q, r) /\ Verdict(es[j])
          /\ \A k \in 1..Len(es) : Word(es, k, q, r) /\ Verdict(es[k]) => k = j
          /\ \A i \in 1..Len(es) : Word(es, i, q, r) /\ es[i].status = "started" => i < j
    BY DEF Closed
  <2>2. j \in 1..Len(fs) /\ Word(fs, j, q, r) /\ Verdict(fs[j])
    BY <1>1, <1>3, <2>1
  <2>3. \A k \in 1..Len(fs) : Word(fs, k, q, r) /\ Verdict(fs[k]) => k = j
    BY <1>1, <1>2, <1>3, <2>1
  <2>4. \A i \in 1..Len(fs) : Word(fs, i, q, r) /\ fs[i].status = "started" => i < j
    BY <1>1, <1>2, <1>3, <2>1
  <2> QED
    BY <2>2, <2>3, <2>4 DEF Closed
<1> QED
  BY <1>4, <1>5, <1>6 DEF Keeps

LEMMA OwnStart ==
  ASSUME NEW es \in Seq(Told), NEW o \in Tellers, NEW p \in Phases,
         NEW fs, fs = Append(es, Event(o, p, "started")), NoVerdict(es, o, p)
  PROVE  NoVerdict(fs, o, p)
<1>1. /\ \A i \in 1..Len(es) : fs[i] = es[i]
      /\ fs[Len(es) + 1] = Event(o, p, "started")
      /\ \A i \in 1..Len(fs) : i \in 1..Len(es) \/ i = Len(es) + 1
  BY OneMore DEF Statuses
<1>2. ~Verdict(Event(o, p, "started"))
  BY DEF Verdict, Event
<1> QED
  BY <1>1, <1>2 DEF NoVerdict, Word

LEMMA OwnVerdict ==
  ASSUME NEW es \in Seq(Told), NEW o \in Tellers, NEW p \in Phases,
         NEW s \in {"completed", "failed"},
         NEW fs, fs = Append(es, Event(o, p, s)), NoVerdict(es, o, p)
  PROVE  Closed(fs, o, p)
<1> DEFINE n == Len(es) + 1
<1>1. /\ Len(es) \in Nat /\ Len(fs) = n
      /\ \A i \in 1..Len(es) : fs[i] = es[i]
      /\ fs[n] = Event(o, p, s)
      /\ \A i \in 1..Len(fs) : i \in 1..Len(es) \/ i = n
  BY OneMore DEF Statuses
<1>2. n \in 1..Len(fs) /\ Word(fs, n, o, p) /\ Verdict(fs[n]) /\ fs[n].status # "started"
  BY <1>1 DEF Word, Verdict, Event
<1>3. \A k \in 1..Len(fs) : Word(fs, k, o, p) /\ Verdict(fs[k]) => k = n
  BY <1>1 DEF NoVerdict, Word
<1>4. \A i \in 1..Len(fs) : Word(fs, i, o, p) /\ fs[i].status = "started" => i < n
  BY <1>1, <1>2
<1> QED
  BY <1>2, <1>3, <1>4 DEF Closed

LEMMA OwnFailure ==
  ASSUME NEW es \in Seq(Told), NEW o \in Agents,
         NEW fs, fs = Append(es, Event(o, "run", "failed"))
  PROVE  FailedTold(fs) = FailedTold(es) \union {o}
<1>1. /\ Len(es) \in Nat /\ Len(fs) = Len(es) + 1
      /\ \A i \in 1..Len(es) : fs[i] = es[i]
      /\ fs[Len(es) + 1] = Event(o, "run", "failed")
      /\ \A i \in 1..Len(fs) : i \in 1..Len(es) \/ i = Len(es) + 1
  BY OneMore DEF Tellers, Phases, Statuses
<1>2. \A a : Event(o, "run", "failed") = Event(a, "run", "failed") <=> a = o
  BY DEF Event
<1> QED
  BY <1>1, <1>2 DEF FailedTold

LEMMA NoFailure ==
  ASSUME NEW es \in Seq(Told), NEW o \in Tellers, NEW p \in Phases, NEW s \in Statuses,
         s # "failed" \/ o \notin Agents,
         NEW fs, fs = Append(es, Event(o, p, s))
  PROVE  NoneTold(es, fs)
<1>1. /\ Len(es) \in Nat /\ Len(fs) = Len(es) + 1
      /\ \A i \in 1..Len(es) : fs[i] = es[i]
      /\ fs[Len(es) + 1] = Event(o, p, s)
      /\ \A i \in 1..Len(fs) : i \in 1..Len(es) \/ i = Len(es) + 1
  BY OneMore
<1>2. \A a \in Agents : Event(o, p, s) # Event(a, "run", "failed")
  BY DEF Event
<1> QED
  BY <1>1, <1>2 DEF FailedTold, NoneTold

LEMMA EmittedOne ==
  ASSUME events \in Seq(Told), NEW a \in Told, Emit(<<a>>)
  PROVE  events' = Append(events, a)
BY DEF Emit

LEMMA EmittedTwo ==
  ASSUME events \in Seq(Told), NEW a \in Told, NEW b \in Told, Emit(<<a, b>>)
  PROVE  events' = Append(Append(events, a), b)
BY DEF Emit

LEMMA OneWord ==
  ASSUME events \in Seq(Told),
         NEW o \in Tellers, NEW p \in Phases, NEW s \in Statuses,
         Emit(<<Event(o, p, s)>>)
  PROVE  /\ \A q, r : q # o \/ r # p \/ s = "planned" => Keeps(events, events', q, r)
         /\ NoVerdict(events, o, p) /\ s = "started" => NoVerdict(events', o, p)
         /\ NoVerdict(events, o, p) /\ s \in {"completed", "failed"} =>
              Closed(events', o, p)
         /\ s = "failed" /\ p = "run" /\ o \in Agents =>
              FailedTold(events') = FailedTold(events) \union {o}
         /\ s # "failed" \/ o \notin Agents => NoneTold(events, events')
<1> DEFINE fs == events'
<1>1. fs = Append(events, Event(o, p, s))
  BY EventType, EmittedOne DEF Phases
<1> HIDE DEF fs
<1>2. \A q, r : q # o \/ r # p \/ s = "planned" => Keeps(events, fs, q, r)
  BY <1>1, OthersKeep
<1>3. NoVerdict(events, o, p) /\ s = "started" => NoVerdict(fs, o, p)
  BY <1>1, OwnStart
<1>4. NoVerdict(events, o, p) /\ s \in {"completed", "failed"} => Closed(fs, o, p)
  BY <1>1, OwnVerdict
<1>5. s = "failed" /\ p = "run" /\ o \in Agents =>
        FailedTold(fs) = FailedTold(events) \union {o}
  BY <1>1, OwnFailure
<1>6. s # "failed" \/ o \notin Agents => NoneTold(events, fs)
  BY <1>1, NoFailure
<1> QED
  BY <1>2, <1>3, <1>4, <1>5, <1>6 DEF fs

LEMMA TwoWords ==
  ASSUME events \in Seq(Told),
         NEW o \in Tellers, NEW p \in Phases, NEW s \in {"planned", "completed"},
         Emit(<<Event(o, p, "started"), Event(o, p, s)>>)
  PROVE  /\ \A q, r : q # o \/ r # p => Keeps(events, events', q, r)
         /\ NoVerdict(events, o, p) /\ s = "planned" => NoVerdict(events', o, p)
         /\ NoVerdict(events, o, p) /\ s = "completed" => Closed(events', o, p)
         /\ NoneTold(events, events')
<1> DEFINE fs == Append(events, Event(o, p, "started"))
           gs == events'
<1>1. gs = Append(fs, Event(o, p, s)) /\ fs = Append(events, Event(o, p, "started"))
  BY EventType, EmittedTwo DEF Phases, Statuses
<1>2. s \in Statuses /\ "started" \in Statuses /\ s # "failed"
  BY DEF Statuses
<1> DEFINE t == "started"
<1> HIDE DEF fs, gs
<1>t. t \in Statuses /\ t # "failed" /\ fs = Append(events, Event(o, p, t))
  BY <1>1, <1>2
<1> HIDE DEF t
<1>3. fs \in Seq(Told)
  BY <1>1, <1>2, OneMore
<1>4. NoneTold(events, fs)
  BY <1>t, NoFailure
<1>5. \A q, r : q # o \/ r # p => Keeps(events, fs, q, r)
  BY <1>t, OthersKeep
<1>6. NoVerdict(events, o, p) => NoVerdict(fs, o, p)
  BY <1>1, OwnStart
<1>7. \A q, r : q # o \/ r # p \/ s = "planned" => Keeps(fs, gs, q, r)
  BY <1>1, <1>2, <1>3, OthersKeep
<1>8. NoVerdict(fs, o, p) /\ s = "completed" => Closed(gs, o, p)
  BY <1>1, <1>3, OwnVerdict
<1>9. NoneTold(fs, gs)
  BY <1>1, <1>2, <1>3, NoFailure
<1> QED
  BY <1>4, <1>5, <1>6, <1>7, <1>8, <1>9 DEF Keeps, NoneTold, gs

-----------------------------------------------------------------------------
(* What a call has told when it has come to pc.                            *)

Early       == {"form", "plan", "planning"}
BeforeInfra == Early \union {"dispatch", "build_infra"}
BeforeApp   == BeforeInfra \union {"infra", "generate_app"}

CallWords ==
  /\ mode # "run" => NoStart(events, "supervisor", "run")
  /\ mode = "run" /\ pc # "done" => NoVerdict(events, "supervisor", "run")
  /\ mode = "run" /\ pc = "done" /\ outcome # "raised" =>
       Closed(events, "supervisor", "run")

PlanWords ==
  /\ pc \in Early => NoVerdict(events, "supervisor", "plan")
  /\ pc \notin Early /\ outcome # "raised" => Closed(events, "supervisor", "plan")

FinalWords ==
  /\ pc \notin {"answer", "done"} => NoVerdict(events, "supervisor", "finalize")
  /\ pc \in {"answer", "done"} /\ outcome # "raised" =>
       Closed(events, "supervisor", "finalize")

InfraWords ==
  /\ pc \in BeforeInfra => NoStart(events, "infra_build", "run")
  /\ pc \in BeforeInfra \union {"infra"} => NoVerdict(events, "infra_build", "run")
  /\ pc \notin BeforeInfra \union {"infra"} => Settled(events, "infra_build", "run")

AppWords ==
  /\ pc \in BeforeApp => NoStart(events, "sample_app", "run")
  /\ pc \in BeforeApp \union {"app"} => NoVerdict(events, "sample_app", "run")
  /\ pc \notin BeforeApp \union {"app"} => Settled(events, "sample_app", "run")

(* Nothing else is ever said to start.                                      *)
OtherWords ==
  /\ NoStart(events, "supervisor", "dispatch")
  /\ \A a \in Agents, p \in Phases : p # "run" => NoStart(events, a, p)

Words == CallWords /\ PlanWords /\ FinalWords /\ InfraWords /\ AppWords /\ OtherWords

FailuresTold ==
  /\ FailedAgents = FailedTold(events)
  /\ pc \in {"answer", "done"} /\ outcome # "raised" => summary = FinalSummary

ReportInv ==
  /\ pc = "form" => events = <<>>
  /\ Words
  /\ FailuresTold

LEMMA KeptWords ==
  ASSUME NEW es, NEW fs, NEW o, NEW p, Keeps(es, fs, o, p)
  PROVE  /\ NoStart(es, o, p) => NoStart(fs, o, p)
         /\ NoVerdict(es, o, p) => NoVerdict(fs, o, p)
         /\ Closed(es, o, p) => Closed(fs, o, p)
         /\ Settled(es, o, p) => Settled(fs, o, p)
BY DEF Keeps, Settled

LEMMA EmptyWords ==
  ASSUME NEW o, NEW p
  PROVE  NoStart(<<>>, o, p) /\ NoVerdict(<<>>, o, p) /\ FailedTold(<<>>) = {}
BY DEF NoStart, NoVerdict, FailedTold

OthersKept(o, p) == \A q, r : q # o \/ r # p => Keeps(events, events', q, r)

(* What is not about (o, p) stays told while pc stays where it was told.    *)
LEMMA OthersStand ==
  ASSUME Words, NEW o \in Tellers, NEW p \in Phases, OthersKept(o, p), mode' = mode,
         outcome # "raised", outcome' # "raised"
  PROVE  /\ (o # "supervisor" \/ p # "run") /\ pc # "done" /\ pc' # "done" => CallWords'
         /\ (o # "supervisor" \/ p # "plan") /\ (pc \in Early <=> pc' \in Early) =>
              PlanWords'
         /\ (o # "supervisor" \/ p # "finalize")
              /\ (pc \in {"answer", "done"} <=> pc' \in {"answer", "done"}) => FinalWords'
         /\ o # "infra_build" /\ (pc \in BeforeInfra <=> pc' \in BeforeInfra)
              /\ (pc = "infra" <=> pc' = "infra") => InfraWords'
         /\ o # "sample_app" /\ (pc \in BeforeApp <=> pc' \in BeforeApp)
              /\ (pc = "app" <=> pc' = "app") => AppWords'
         /\ (o = "supervisor" => p # "dispatch") /\ (o # "supervisor" => p = "run") =>
              OtherWords'
<1>1. ASSUME o # "supervisor" \/ p # "run", pc # "done", pc' # "done"
      PROVE  CallWords'
  <2>1. Keeps(events, events', "supervisor", "run")
    BY <1>1 DEF OthersKept
  <2> QED
    BY <1>1, <2>1, KeptWords DEF Words, CallWords
<1>2. ASSUME o # "supervisor" \/ p # "plan", pc \in Early <=> pc' \in Early
      PROVE  PlanWords'
  <2>1. Keeps(events, events', "supervisor", "plan")
    BY <1>2 DEF OthersKept
  <2> QED
    BY <1>2, <2>1, KeptWords DEF Words, PlanWords
<1>3. ASSUME o # "supervisor" \/ p # "finalize",
             pc \in {"answer", "done"} <=> pc' \in {"answer", "done"}
      PROVE  FinalWords'
  <2>1. Keeps(events, events', "supervisor", "finalize")
    BY <1>3 DEF OthersKept
  <2> QED
    BY <1>3, <2>1, KeptWords DEF Words, FinalWords
<1>4. ASSUME o # "infra_build", pc \in BeforeInfra <=> pc' \in BeforeInfra,
             pc = "infra" <=> pc' = "infra"
      PROVE  InfraWords'
  <2>1. Keeps(events, events', "infra_build", "run")
    BY <1>4 DEF OthersKept
  <2> QED
    BY <1>4, <2>1, KeptWords DEF Words, InfraWords
<1>5. ASSUME o # "sample_app", pc \in BeforeApp <=> pc' \in BeforeApp,
             pc = "app" <=> pc' = "app"
      PROVE  AppWords'
  <2>1. Keeps(events, events', "sample_app", "run")
    BY <1>5 DEF OthersKept
  <2> QED
    BY <1>5, <2>1, KeptWords DEF Words, AppWords
<1>6. ASSUME o = "supervisor" => p # "dispatch", o # "supervisor" => p = "run"
      PROVE  OtherWords'
  <2>1. Keeps(events, events', "supervisor", "dispatch")
    BY <1>6 DEF OthersKept
  <2>2. \A a \in Agents, r \in Phases : r # "run" => Keeps(events, events', a, r)
    BY <1>6 DEF OthersKept, Agents
  <2> QED
    BY <2>1, <2>2, KeptWords DEF Words, OtherWords
<1> QED
  BY <1>1, <1>2, <1>3, <1>4, <1>5, <1>6

(* The summary is made of what finalize no longer changes.                  *)
LEMMA SummaryStands ==
  ASSUME ReportInv, outcome = "none", pc = "answer",
         UNCHANGED <<mode, request, blocked, executed, summary>>,
         NoneTold(events, events')
  PROVE  FailuresTold'
BY DEF ReportInv, FailuresTold, NoneTold, FinalSummary, FailedAgents, GraphMode, Says

LEMMA PlanTells ==
  ASSUME RunType, ReportInv, outcome = "none", BeginPlan \/ EndPlan \/ Dispatch
  PROVE  ReportInv'
<1> USE DEF Goto, BeforeApp, BeforeInfra, Early
<1>1. /\ "supervisor" \in Tellers /\ {"plan", "dispatch"} \subseteq Phases
      /\ {"started", "completed", "failed", "planned"} \subseteq Statuses
      /\ "supervisor" \notin Agents
      /\ events \in Seq(Told) /\ pc \in Points
  BY DEF Tellers, Phases, Statuses, Agents, RunType
<1>2. Words
  BY DEF ReportInv
<1>3. CASE BeginPlan
  <2>1. /\ OthersKept("supervisor", "plan") /\ NoneTold(events, events')
        /\ NoVerdict(events', "supervisor", "plan")
    BY <1>1, <1>2, <1>3, OneWord DEF BeginPlan, OthersKept, Words, PlanWords
  <2>2. FailuresTold'
    BY <1>3, <2>1 DEF BeginPlan, ReportInv, FailuresTold, NoneTold, FailedAgents
  <2>3. PlanWords'
    BY <1>3, <2>1 DEF BeginPlan, PlanWords
  <2>4. Words'
    BY <1>1, <1>2, <1>3, <2>1, <2>3, OthersStand DEF BeginPlan, Words
  <2> QED
    BY <1>3, <2>2, <2>4 DEF BeginPlan, ReportInv
<1>4. CASE EndPlan
  <2>1. PICK s \in {"completed", "failed"} : Emit(<<Event("supervisor", "plan", s)>>)
    BY <1>4 DEF EndPlan
  <2>2. /\ OthersKept("supervisor", "plan") /\ NoneTold(events, events')
        /\ Closed(events', "supervisor", "plan")
    BY <1>1, <1>2, <1>4, <2>1, OneWord DEF EndPlan, OthersKept, Words, PlanWords
  <2>3. pc = "planning" /\ pc' \in {"finalize", "dispatch"}
    BY <1>4 DEF EndPlan, RouteAfterPlan
  <2>4. FailuresTold'
    BY <1>4, <2>2, <2>3 DEF EndPlan, ReportInv, FailuresTold, NoneTold, FailedAgents
  <2>5. PlanWords'
    BY <1>4, <2>2, <2>3 DEF EndPlan, PlanWords
  <2>6. InfraWords' /\ AppWords'
    <3>1. /\ Keeps(events, events', "infra_build", "run")
          /\ Keeps(events, events', "sample_app", "run")
      BY <2>2 DEF OthersKept
    <3> QED
      BY <1>2, <2>3, <3>1, KeptWords DEF Words, InfraWords, AppWords, Settled
  <2>7. Words'
    BY <1>1, <1>2, <1>4, <2>2, <2>3, <2>5, <2>6, OthersStand DEF EndPlan, Words
  <2> QED
    BY <2>3, <2>4, <2>7 DEF ReportInv
<1>5. CASE Dispatch
  <2>1. /\ \A q, r : Keeps(events, events', q, r)
        /\ NoneTold(events, events')
    BY <1>1, <1>5, OneWord DEF Dispatch
  <2>2. FailuresTold'
    BY <1>5, <2>1 DEF Dispatch, ReportInv, FailuresTold, NoneTold, FailedAgents
  <2>3. OthersKept("supervisor", "dispatch") /\ OthersKept("supervisor", "plan")
    BY <2>1 DEF OthersKept
  <2>4. Words'
    BY <1>1, <1>2, <1>5, <2>3, OthersStand DEF Dispatch, Words
  <2> QED
    BY <1>5, <2>2, <2>4 DEF Dispatch, ReportInv
<1> QED
  BY <1>3, <1>4, <1>5

(* An agent that returns is told and tried alike.                           *)
LEMMA ReturnTold ==
  ASSUME RunType, NEW a \in Agents, NEW ok \in BOOLEAN, Returned(a, ok),
         FailedAgents = FailedTold(events), NoVerdict(events, a, "run")
  PROVE  /\ FailedAgents' = FailedTold(events')
         /\ OthersKept(a, "run") /\ Closed(events', a, "run")
<1>1. /\ a \in Tellers /\ "run" \in Phases /\ {"completed", "failed"} \subseteq Statuses
      /\ events \in Seq(Told) /\ executed \in Seq(Tried)
  BY DEF Tellers, Phases, Statuses, RunType
<1> DEFINE t == [agent |-> a, success |-> ok]
<1>2. /\ executed' = Append(executed, t) /\ t \in Tried
      /\ t.agent = a /\ t.success = ok
  BY DEF Returned, Tried
<1> HIDE DEF t
<1>3. /\ Len(executed) \in Nat /\ Len(executed') = Len(executed) + 1
      /\ \A i \in 1..Len(executed) : executed'[i] = executed[i]
      /\ executed'[Len(executed) + 1] = t
  BY <1>1, <1>2
<1>4. FailedAgents' = FailedAgents \union {b \in {a} : ~ok}
  <2>1. \A b : b \in FailedAgents
                 <=> \E i \in 1..Len(executed) : ~executed[i].success /\ executed[i].agent = b
    BY DEF FailedAgents
  <2>2. \A b : b \in FailedAgents'
                 <=> \E i \in 1..Len(executed') :
                       ~executed'[i].success /\ executed'[i].agent = b
    BY DEF FailedAgents
  <2>3. \A i : i \in 1..Len(executed') <=> i \in 1..Len(executed) \/ i = Len(executed) + 1
    BY <1>3
  <2>4. \A b : b \in FailedAgents' <=> b \in FailedAgents \/ (b = a /\ ~ok)
    BY <1>2, <1>3, <2>1, <2>2, <2>3
  <2> QED
    BY <2>4
<1>5. CASE ok
  <2>1. Emit(<<Event(a, "run", "completed")>>)
    BY <1>5 DEF Returned
  <2>2. OthersKept(a, "run") /\ Closed(events', a, "run") /\ NoneTold(events, events')
    BY <1>1, <2>1, OneWord DEF OthersKept
  <2> QED
    BY <1>4, <1>5, <2>2 DEF NoneTold
<1>6. CASE ~ok
  <2>1. Emit(<<Event(a, "run", "failed")>>)
    BY <1>6 DEF Returned
  <2>2. /\ OthersKept(a, "run") /\ Closed(events', a, "run")
        /\ FailedTold(events') = FailedTold(events) \union {a}
    BY <1>1, <2>1, OneWord DEF OthersKept
  <2> QED
    BY <1>4, <1>6, <2>2
<1> QED
  BY <1>5, <1>6

LEMMA AgentsTell ==
  ASSUME RunType, ReportInv, outcome = "none",
         SkipInfra \/ CallInfra \/ InfraReturns \/ CallApp \/ AppReturns
  PROVE  ReportInv'
<1> USE DEF Goto, BeforeApp, BeforeInfra, Early
<1>1. /\ Agents \subseteq Tellers /\ "run" \in Phases
      /\ {"started", "completed", "failed", "planned"} \subseteq Statuses
      /\ {"infra_build", "sample_app"} \subseteq Agents
      /\ events \in Seq(Told) /\ pc \in Points
  BY DEF Tellers, Phases, Statuses, Agents, RunType
<1>2. Words /\ FailedAgents = FailedTold(events)
  BY DEF ReportInv, FailuresTold
<1>3. CASE SkipInfra
  <2>1. /\ OthersKept("infra_build", "run") /\ NoneTold(events, events')
        /\ Closed(events', "infra_build", "run")
    BY <1>1, <1>2, <1>3, OneWord DEF SkipInfra, OthersKept, Words, InfraWords
  <2>2. FailuresTold'
    BY <1>2, <1>3, <2>1 DEF SkipInfra, FailuresTold, NoneTold, FailedAgents
  <2>3. InfraWords'
    BY <1>3, <2>1 DEF SkipInfra, InfraWords, Settled
  <2>4. Words'
    BY <1>1, <1>2, <1>3, <2>1, <2>3, OthersStand DEF SkipInfra, Words
  <2> QED
    BY <1>3, <2>2, <2>4 DEF SkipInfra, ReportInv
<1>4. CASE CallInfra
  <2>1. /\ OthersKept("infra_build", "run") /\ NoneTold(events, events')
        /\ NoVerdict(events', "infra_build", "run")
    BY <1>1, <1>2, <1>4, TwoWords DEF CallInfra, OthersKept, Words, InfraWords, NoneTold
  <2>2. FailuresTold'
    BY <1>2, <1>4, <2>1 DEF CallInfra, FailuresTold, NoneTold, FailedAgents
  <2>3. InfraWords'
    BY <1>4, <2>1 DEF CallInfra, InfraWords
  <2>4. Words'
    BY <1>1, <1>2, <1>4, <2>1, <2>3, OthersStand DEF CallInfra, Words
  <2> QED
    BY <1>4, <2>2, <2>4 DEF CallInfra, ReportInv
<1>5. CASE InfraReturns
  <2>1. PICK ok \in BOOLEAN : Returned("infra_build", ok)
    BY <1>5 DEF InfraReturns
  <2>2. /\ OthersKept("infra_build", "run") /\ FailedAgents' = FailedTold(events')
        /\ Closed(events', "infra_build", "run")
    BY <1>1, <1>2, <1>5, <2>1, ReturnTold DEF InfraReturns, Words, InfraWords
  <2>3. FailuresTold'
    BY <1>5, <2>2 DEF InfraReturns, FailuresTold
  <2>4. InfraWords'
    BY <1>5, <2>2 DEF InfraReturns, InfraWords, Settled
  <2>5. Words'
    BY <1>1, <1>2, <1>5, <2>2, <2>4, OthersStand DEF InfraReturns, Words
  <2> QED
    BY <1>5, <2>3, <2>5 DEF InfraReturns, ReportInv
<1>6. CASE CallApp
  <2>1. /\ OthersKept("sample_app", "run") /\ NoneTold(events, events')
        /\ NoVerdict(events', "sample_app", "run")
    BY <1>1, <1>2, <1>6, TwoWords DEF CallApp, OthersKept, Words, AppWords, NoneTold
  <2>2. FailuresTold'
    BY <1>2, <1>6, <2>1 DEF CallApp, FailuresTold, NoneTold, FailedAgents
  <2>3. AppWords'
    BY <1>6, <2>1 DEF CallApp, AppWords
  <2>4. Words'
    BY <1>1, <1>2, <1>6, <2>1, <2>3, OthersStand DEF CallApp, Words
  <2> QED
    BY <1>6, <2>2, <2>4 DEF CallApp, ReportInv
<1>7. CASE AppReturns
  <2>1. PICK ok \in BOOLEAN : Returned("sample_app", ok)
    BY <1>7 DEF AppReturns
  <2>2. /\ OthersKept("sample_app", "run") /\ FailedAgents' = FailedTold(events')
        /\ Closed(events', "sample_app", "run")
    BY <1>1, <1>2, <1>7, <2>1, ReturnTold DEF AppReturns, Words, AppWords
  <2>3. FailuresTold'
    BY <1>7, <2>2 DEF AppReturns, FailuresTold
  <2>4. AppWords'
    BY <1>7, <2>2 DEF AppReturns, AppWords, Settled
  <2>5. Words'
    BY <1>1, <1>2, <1>7, <2>2, <2>4, OthersStand DEF AppReturns, Words
  <2> QED
    BY <1>7, <2>3, <2>5 DEF AppReturns, ReportInv
<1> QED
  BY <1>3, <1>4, <1>5, <1>6, <1>7

LEMMA EndsTell ==
  ASSUME RunType, ReportInv, outcome = "none",
         Finalize \/ Raises \/ AnswerRun \/ AnswerPlan
  PROVE  ReportInv'
<1> USE DEF Goto, BeforeApp, BeforeInfra, Early
<1>1. /\ "supervisor" \in Tellers /\ {"run", "finalize"} \subseteq Phases
      /\ {"started", "completed", "failed"} \subseteq Statuses
      /\ "supervisor" \notin Agents
      /\ events \in Seq(Told) /\ pc \in Points
  BY DEF Tellers, Phases, Statuses, Agents, RunType
<1>2. Words /\ FailedAgents = FailedTold(events)
  BY DEF ReportInv, FailuresTold
<1>3. CASE Finalize
  <2>1. /\ OthersKept("supervisor", "finalize") /\ NoneTold(events, events')
        /\ Closed(events', "supervisor", "finalize")
    BY <1>1, <1>2, <1>3, TwoWords DEF Finalize, OthersKept, Words, FinalWords, NoneTold
  <2>2. FailedAgents' = FailedAgents /\ FinalSummary' = FinalSummary
    BY <1>3 DEF Finalize, FailedAgents, FinalSummary, GraphMode
  <2>3. FailuresTold'
    BY <1>2, <1>3, <2>1, <2>2 DEF Finalize, FailuresTold, NoneTold
  <2>4. FinalWords'
    BY <1>3, <2>1 DEF Finalize, FinalWords
  <2>5. Words'
    BY <1>1, <1>2, <1>3, <2>1, <2>4, OthersStand DEF Finalize, Words
  <2> QED
    BY <1>3, <2>3, <2>5 DEF Finalize, ReportInv
<1>4. CASE Raises
  <2>1. /\ UNCHANGED <<mode, executed, events>> /\ pc \in {"planning", "answer"}
        /\ outcome' = "raised" /\ pc' = "done"
    BY <1>4 DEF Raises, report
  <2>2. FailuresTold'
    BY <1>2, <2>1 DEF FailuresTold, FailedAgents
  <2>3. CallWords' /\ PlanWords' /\ FinalWords'
    BY <1>2, <2>1 DEF Words, CallWords, PlanWords, FinalWords
  <2>4. InfraWords' /\ AppWords' /\ OtherWords'
    BY <1>2, <2>1 DEF Words, InfraWords, AppWords, OtherWords, Settled
  <2> QED
    BY <2>1, <2>2, <2>3, <2>4 DEF ReportInv, Words
<1>5. CASE AnswerRun
  <2>1. PICK s \in {"completed", "failed"} : Emit(<<Event("supervisor", "run", s)>>)
    BY <1>5 DEF AnswerRun
  <2>2. mode = "run" /\ pc = "answer" /\ pc' = "done" /\ outcome' # "raised"
    BY <1>5 DEF AnswerRun
  <2>3. /\ OthersKept("supervisor", "run") /\ NoneTold(events, events')
        /\ Closed(events', "supervisor", "run")
    BY <1>1, <1>2, <2>1, <2>2, OneWord DEF OthersKept, Words, CallWords
  <2>4. FailuresTold'
    BY <1>5, <2>3, SummaryStands DEF AnswerRun
  <2>5. mode' = mode
    BY <1>5 DEF AnswerRun
  <2>6. CallWords'
    BY <2>2, <2>3, <2>5 DEF CallWords
  <2>7. Words'
    BY <1>1, <1>2, <2>2, <2>3, <2>5, <2>6, OthersStand DEF Words
  <2> QED
    BY <2>2, <2>4, <2>7 DEF ReportInv
<1>6. CASE AnswerPlan
  <2>1. /\ UNCHANGED <<mode, request, blocked, executed, summary, events>>
        /\ mode # "run" /\ pc = "answer" /\ pc' = "done" /\ outcome' # "raised"
    BY <1>6 DEF AnswerPlan, report
  <2>2. FailuresTold'
    BY <2>1, SummaryStands DEF NoneTold
  <2>3. Words'
    BY <1>2, <2>1
       DEF Words, CallWords, PlanWords, FinalWords, InfraWords, AppWords, OtherWords
  <2> QED
    BY <2>1, <2>2, <2>3 DEF ReportInv
<1> QED
  BY <1>3, <1>4, <1>5, <1>6

LEMMA AskTells ==
  ASSUME RunType, ReportInv, outcome = "none", executed = <<>>, Ask
  PROVE  ReportInv'
<1>1. PICK q, m, from : Call(q, m, from)
  BY DEF Ask, Submit, Receive
<1>2. /\ pc = "form" /\ pc' = "plan" /\ mode' = m /\ UNCHANGED <<executed, outcome>>
      /\ events = <<>>
  BY <1>1 DEF Call, Goto, ReportInv
<1>3. "supervisor" \in Tellers /\ "run" \in Phases /\ "started" \in Statuses
  BY DEF Tellers, Phases, Statuses
<1>4. /\ OthersKept("supervisor", "run") /\ FailedTold(events') = {}
      /\ NoVerdict(events', "supervisor", "run")
      /\ m # "run" => NoStart(events', "supervisor", "run")
  <2>1. CASE m = "run"
    <3>1. Emit(<<Event("supervisor", "run", "started")>>) /\ events \in Seq(Told)
      BY <1>1, <2>1 DEF Call, RunType
    <3>2. "supervisor" \notin Agents
      BY DEF Agents
    <3> QED
      BY <1>2, <1>3, <2>1, <3>1, <3>2, OneWord, EmptyWords DEF OthersKept, NoneTold
  <2>2. CASE m # "run"
    <3>1. events' = events
      BY <1>1, <1>2, <2>2 DEF Call, Emit
    <3> QED
      BY <1>2, <3>1, EmptyWords DEF OthersKept, Keeps
  <2> QED
    BY <2>1, <2>2
<1>5. \A o, p : o # "supervisor" \/ p # "run" =>
        NoStart(events', o, p) /\ NoVerdict(events', o, p)
  BY <1>2, <1>4, EmptyWords, KeptWords DEF OthersKept
<1>6. FailuresTold'
  BY <1>2, <1>4 DEF FailuresTold, FailedAgents
<1>7. CallWords' /\ PlanWords' /\ FinalWords'
  BY <1>2, <1>4, <1>5 DEF CallWords, PlanWords, FinalWords, Early
<1>8. InfraWords' /\ AppWords' /\ OtherWords'
  <2>1. /\ NoStart(events', "infra_build", "run") /\ NoVerdict(events', "infra_build", "run")
        /\ NoStart(events', "sample_app", "run") /\ NoVerdict(events', "sample_app", "run")
        /\ NoStart(events', "supervisor", "dispatch")
        /\ \A a \in Agents, p \in Phases : p # "run" => NoStart(events', a, p)
    BY <1>5
  <2> QED
    BY <1>2, <2>1 DEF InfraWords, AppWords, OtherWords, BeforeInfra, BeforeApp, Early
<1> QED
  BY <1>2, <1>6, <1>7, <1>8 DEF ReportInv, Words

AnswerMeant ==
  /\ outcome = "plan" => GraphMode = "plan"
  /\ outcome = "missing_info" => blocked

LEMMA ReportStep ==
  CallInv /\ ReportInv /\ AnswerMeant /\ [Next]_vars => ReportInv' /\ AnswerMeant'
<1> SUFFICES ASSUME CallInv, ReportInv, AnswerMeant, [Next]_vars
             PROVE  ReportInv' /\ AnswerMeant'
  OBVIOUS
<1>1. RunType /\ RunInv
  BY DEF CallInv, FormInv
<1>2. CASE EditForm \/ UNCHANGED vars
  <2>1. UNCHANGED <<pc, request, mode, blocked, executed, summary, events, outcome>>
    BY <1>2 DEF EditForm, vars, report
  <2>2. FailuresTold'
    BY <2>1 DEF ReportInv, FailuresTold, FinalSummary, FailedAgents, GraphMode
  <2>3. Words'
    BY <2>1 DEF ReportInv, Words, CallWords, PlanWords, FinalWords, InfraWords, AppWords,
                OtherWords
  <2>4. AnswerMeant'
    BY <2>1 DEF AnswerMeant, GraphMode
  <2> QED
    BY <2>1, <2>2, <2>3, <2>4 DEF ReportInv
<1>3. CASE Ask
  <2>1. pc = "form" /\ outcome' = outcome
    BY <1>3 DEF Ask, Submit, Receive, Call
  <2>2. outcome = "none" /\ executed = <<>>
    BY <1>1, <2>1 DEF RunInv, Idle
  <2> QED
    BY <1>1, <1>3, <2>1, <2>2, AskTells DEF AnswerMeant
<1>4. CASE Graph
  <2>1. pc # "done" /\ outcome' = outcome
    BY <1>4 DEF Graph, BeginPlan, EndPlan, Dispatch, SkipInfra, CallInfra, InfraReturns,
                CallApp, AppReturns, Finalize
  <2>2. outcome = "none"
    BY <1>1, <2>1 DEF RunInv
  <2>3. ReportInv'
    BY <1>1, <1>4, <2>2, PlanTells, AgentsTell, EndsTell DEF Graph
  <2> QED
    BY <2>1, <2>2, <2>3 DEF AnswerMeant
<1>5. CASE Raises \/ AnswerRun \/ AnswerPlan
  <2>1. pc # "done" /\ UNCHANGED <<mode, request, blocked>>
    BY <1>5 DEF Raises, AnswerRun, AnswerPlan
  <2>2. outcome = "none"
    BY <1>1, <2>1 DEF RunInv
  <2>3. ReportInv'
    BY <1>1, <1>5, <2>2, EndsTell
  <2>4. /\ outcome' = "plan" => GraphMode = "plan"
        /\ outcome' = "missing_info" => blocked
    BY <1>5 DEF Raises, AnswerRun, AnswerPlan
  <2> QED
    BY <2>1, <2>3, <2>4 DEF AnswerMeant, GraphMode
<1> QED
  BY <1>2, <1>3, <1>4, <1>5 DEF Next, Step

LEMMA ReportCorrect == Spec => [](CallInv /\ ReportInv /\ AnswerMeant)
<1>1. Init => ReportInv /\ AnswerMeant
  <2> SUFFICES ASSUME Init
               PROVE  ReportInv /\ AnswerMeant
    OBVIOUS
  <2>1. /\ pc = "form" /\ mode = "run" /\ outcome = "none"
        /\ events = <<>> /\ executed = <<>>
    BY DEF Init
  <2>2. \A o, p : NoStart(events, o, p) /\ NoVerdict(events, o, p)
    BY <2>1, EmptyWords
  <2>3. FailuresTold
    BY <2>1, EmptyWords DEF FailuresTold, FailedAgents
  <2>4. CallWords /\ PlanWords /\ FinalWords
    BY <2>1, <2>2 DEF CallWords, PlanWords, FinalWords, Early
  <2>5. InfraWords /\ AppWords /\ OtherWords
    BY <2>1, <2>2 DEF InfraWords, AppWords, OtherWords, BeforeInfra, BeforeApp, Early
  <2> QED
    BY <2>1, <2>3, <2>4, <2>5 DEF ReportInv, Words, AnswerMeant
<1> QED
  BY <1>1, ReportStep, CallCorrect, PTL DEF Spec

LEMMA SettledWords ==
  ASSUME CallInv, ReportInv, outcome \in {"plan", "result", "missing_info"},
         NEW o \in Tellers, NEW p \in Phases
  PROVE  Settled(events, o, p)
<1>1. RunInv /\ Words
  BY DEF CallInv, ReportInv
<1>2. pc = "done" /\ outcome # "raised"
  BY <1>1 DEF RunInv
<1>3. CASE o = "supervisor"
  <2>1. Settled(events, o, "run") /\ Settled(events, o, "plan")
    BY <1>1, <1>2, <1>3 DEF Words, CallWords, PlanWords, Settled, Early
  <2>2. Settled(events, o, "finalize") /\ Settled(events, o, "dispatch")
    BY <1>1, <1>2, <1>3 DEF Words, FinalWords, OtherWords, Settled
  <2> QED
    BY <2>1, <2>2 DEF Phases
<1>4. CASE o \in Agents
  <2>1. CASE p = "run"
    BY <1>1, <1>2, <1>4, <2>1
       DEF Words, InfraWords, AppWords, Agents, BeforeInfra, BeforeApp, Early
  <2>2. CASE p # "run"
    BY <1>1, <1>4, <2>2 DEF Words, OtherWords, Settled
  <2> QED
    BY <2>1, <2>2
<1> QED
  BY <1>3, <1>4 DEF Tellers

(* The events and the summary name every agent that failed and no other;    *)
(* each phase that was announced has its one verdict, after it.             *)
THEOREM ReportsAreTrue == Spec => []ReportIsTrue
<1>1. CallInv /\ ReportInv /\ AnswerMeant => ReportIsTrue
  <2> SUFFICES ASSUME CallInv, ReportInv, AnswerMeant
               PROVE  ReportIsTrue
    OBVIOUS
  <2>1. RunType /\ RunInv /\ FailuresTold
    BY DEF CallInv, FormInv, ReportInv
  <2>2. ASSUME outcome \in {"plan", "result", "missing_info"},
               NEW i \in 1..Len(events), events[i].status = "started"
        PROVE  \E j \in (i + 1)..Len(events) :
                 /\ Verdict(events[j]) /\ Same(events[i], events[j])
                 /\ \A k \in 1..Len(events) :
                      Verdict(events[k]) /\ Same(events[i], events[k]) => k = j
    <3>1. events[i] \in Told /\ Len(events) \in Nat
      BY <2>1 DEF RunType
    <3> DEFINE o == events[i].owner
               p == events[i].phase
    <3>2. o \in Tellers /\ p \in Phases
      BY <3>1 DEF Told, Phases
    <3>3. Word(events, i, o, p)
      BY DEF Word
    <3>4. \A k \in 1..Len(events) : Same(events[i], events[k]) <=> Word(events, k, o, p)
      BY DEF Same, Word
    <3> HIDE DEF o, p
    <3>5. Closed(events, o, p)
      BY <2>2, <3>2, <3>3, SettledWords DEF Settled, NoStart
    <3>6. PICK j \in 1..Len(events) :
            /\ Word(events, j, o, p) /\ Verdict(events[j])
            /\ \A k \in 1..Len(events) :
                 Word(events, k, o, p) /\ Verdict(events[k]) => k = j
            /\ \A k \in 1..Len(events) :
                 Word(events, k, o, p) /\ events[k].status = "started" => k < j
      BY <3>5 DEF Closed
    <3>7. j \in (i + 1)..Len(events)
      BY <2>2, <3>1, <3>3, <3>6
    <3> QED
      BY <3>4, <3>6, <3>7
  <2>3. ASSUME outcome = "result"
        PROVE  /\ summary.failed = {a \in Agents : \E i \in 1..Len(events) :
                                      events[i] = Event(a, "run", "failed")}
               /\ summary.says = IF summary.failed = {} THEN "complete" ELSE "failed"
    <3>1. pc = "done" /\ GraphMode = "run" /\ ~blocked
      BY <2>1, <2>3 DEF RunInv, Going
    <3>2. summary = FinalSummary
      BY <2>1, <2>3, <3>1 DEF FailuresTold
    <3>3. summary.failed = FailedAgents
          /\ summary.says = IF summary.failed = {} THEN "complete" ELSE "failed"
      BY <3>1, <3>2 DEF FinalSummary, Says
    <3> QED
      BY <2>1, <3>3 DEF FailuresTold, FailedTold
  <2>4. ASSUME outcome \in {"plan", "missing_info"}
        PROVE  summary = Says(IF Missing(request) = {} THEN "reviewed" ELSE "blocked")
    <3>1. pc = "done" /\ (blocked <=> Missing(request) # {}) /\ blocked \in BOOLEAN
      BY <2>1, <2>4 DEF RunInv, RunType
    <3>2. summary = FinalSummary
      BY <2>1, <2>4, <3>1 DEF FailuresTold
    <3>3. ~blocked => GraphMode = "plan"
      BY <2>4 DEF AnswerMeant
    <3> QED
      BY <3>1, <3>2, <3>3 DEF FinalSummary
  <2> QED
    BY <2>2, <2>3, <2>4 DEF ReportIsTrue
<1> QED
  BY <1>1, ReportCorrect, PTL
-----------------------------------------------------------------------------
(* A call that was taken has its answer after nine steps at most, and the  *)
(* answer stands.                                                          *)

StepsLeft ==
  CASE pc = "plan"         -> 9
    [] pc = "planning"     -> 8
    [] pc = "dispatch"     -> 7
    [] pc = "build_infra"  -> 6
    [] pc = "infra"        -> 5
    [] pc = "generate_app" -> 4
    [] pc = "app"          -> 3
    [] pc = "finalize"     -> 2
    [] pc = "answer"       -> 1
    [] pc = "done"         -> 0

(* There is an answer at the end and nowhere else.                         *)
AnsweredAtEnd == outcome # "none" <=> pc = "done"

AnswerInv == TypeOK /\ AnsweredAtEnd

LEMMA AnswerInit == Init => AnswerInv
BY TypeInit DEF Init, AnswerInv, AnsweredAtEnd

LEMMA StepNears ==
  ASSUME AnswerInv, Step
  PROVE  StepsLeft' < StepsLeft /\ AnsweredAtEnd'
<1> USE DEF Goto, StepsLeft, AnswerInv, AnsweredAtEnd
<1>1. CASE BeginPlan
  BY <1>1 DEF BeginPlan
<1>2. CASE EndPlan
  <2>1. PICK next \in {"finalize", "dispatch"} : pc' = next
    BY <1>2 DEF EndPlan, RouteAfterPlan
  <2> QED
    BY <1>2, <2>1 DEF EndPlan
<1>3. CASE Dispatch \/ SkipInfra \/ CallInfra \/ InfraReturns
  BY <1>3 DEF Dispatch, SkipInfra, CallInfra, InfraReturns
<1>4. CASE CallApp \/ AppReturns \/ Finalize
  BY <1>4 DEF CallApp, AppReturns, Finalize
<1>5. CASE Raises \/ AnswerRun \/ AnswerPlan
  BY <1>5 DEF Raises, AnswerRun, AnswerPlan
<1> QED
  BY <1>1, <1>2, <1>3, <1>4, <1>5 DEF Step, Graph

LEMMA AnswerStep == AnswerInv /\ [Next]_vars => AnswerInv'
<1> SUFFICES ASSUME AnswerInv, [Next]_vars
             PROVE  AnswerInv'
  OBVIOUS
<1>1. TypeOK'
  BY TypeStep DEF AnswerInv
<1>2. CASE EditForm
  BY <1>1, <1>2 DEF EditForm, AnswerInv, AnsweredAtEnd
<1>3. CASE Ask
  BY <1>1, <1>3 DEF Ask, Submit, Receive, Call, Goto, AnswerInv, AnsweredAtEnd
<1>4. CASE Step
  BY <1>1, <1>4, StepNears DEF AnswerInv
<1>5. CASE UNCHANGED vars
  BY <1>1, <1>5 DEF vars, AnswerInv, AnsweredAtEnd
<1> QED
  BY <1>2, <1>3, <1>4, <1>5 DEF Next

(* Once the supervisor was called, every step of the graph, of the agents  *)
(* and of the caller takes the call nearer to its answer, nothing else     *)
(* happens to it, and an answer that was given, an exception included, is  *)
(* the only one.  (run, plan and chat_reply each return or raise once;     *)
(* that a call never gets stuck before, the other half of                  *)
(* EveryCallAnswers, is TLC's.)                                            *)
THEOREM AnswersComeNearer ==
  Spec => [][pc # "form" => /\ StepsLeft' < StepsLeft
                            /\ StepsLeft \in 1..9
                            /\ outcome = "none"]_vars
<1>1. AnswerInv /\ [Next]_vars =>
        [pc # "form" => /\ StepsLeft' < StepsLeft
                        /\ StepsLeft \in 1..9
                        /\ outcome = "none"]_vars
  <2> SUFFICES ASSUME AnswerInv, Next, pc # "form"
               PROVE  /\ StepsLeft' < StepsLeft
                      /\ StepsLeft \in 1..9
                      /\ outcome = "none"
    OBVIOUS
  <2>1. Step
    BY DEF Next, EditForm, Ask, Submit, Receive, Call
  <2>2. pc \in Points \ {"form", "done"}
    BY <2>1 DEF AnswerInv, TypeOK, Step, Graph, BeginPlan, EndPlan, Dispatch, SkipInfra,
                CallInfra, InfraReturns, CallApp, AppReturns, Finalize, Raises,
                AnswerRun, AnswerPlan
  <2>3. outcome = "none"
    BY <2>2 DEF AnswerInv, AnsweredAtEnd
  <2>4. StepsLeft \in {1, 2, 3, 4, 5, 6, 7, 8, 9}
    BY <2>2 DEF StepsLeft, Points
  <2>5. StepsLeft' < StepsLeft
    BY <2>1, StepNears
  <2> QED
    BY <2>3, <2>4, <2>5
<1> QED
  BY <1>1, AnswerInit, AnswerStep, PTL DEF Spec
=============================================================================
