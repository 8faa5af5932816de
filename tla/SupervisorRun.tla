----------------------------- MODULE SupervisorRun -----------------------------
(***************************************************************************)
(* One call of the supervisor (Supervisor/agent.py), from the form or from *)
(* the API: plan, dispatch, build_infra, generate_app, finalize.  What the *)
(* agents do inside (InfraApply, SampleApp) is here a success or a failure. *)
(***************************************************************************)
EXTENDS RequestForm

VARIABLES
  pc,
  origin,    \* "form", "api", or "none" before the call
  request,   \* the request under way; <<>> before the call
  mode,      \* plan, run, or chat for chat_reply
  blocked, steps, dispatched, executed, summary, events,
  generated, \* history: the sample application agent did not skip
  outcome    \* what the caller got: plan, result, missing_info, raised

report == <<steps, dispatched, executed, summary, events>>
vars   == <<form, pc, origin, request, mode, blocked, report, generated, outcome>>

Points == {"form", "plan", "planning", "dispatch", "build_infra", "infra",
           "generate_app", "app", "finalize", "answer", "done"}
Agents == {"infra_build", "sample_app"}
Work   == {"build_infra", "generate_app"}

Event(owner, phase, status) == [owner |-> owner, phase |-> phase, status |-> status]
Emit(new)   == events' = events \o new
Goto(point) == pc' = point

Silent == [says |-> "nothing", failed |-> {}]

Init ==
  /\ FormInit
  /\ pc = "form"
  /\ origin = "none"
  /\ request = <<>>
  /\ mode = "run"
  /\ blocked = FALSE
  /\ steps = [w \in {} |-> "pending"]
  /\ dispatched = {}
  /\ executed = <<>>
  /\ summary = Silent
  /\ events = <<>>
  /\ generated = FALSE
  /\ outcome = "none"

EditForm ==
  /\ pc = "form"
  /\ Edit
  /\ UNCHANGED <<pc, origin, request, mode, blocked, report, generated, outcome>>

(* run() says that it has started; plan() and chat_reply() do not.         *)
Call(q, m, from) ==
  /\ pc = "form"
  /\ request' = q
  /\ mode' = m
  /\ origin' = from
  /\ Emit(IF m = "run" THEN <<Event("supervisor", "run", "started")>> ELSE <<>>)
  /\ Goto("plan")
  /\ UNCHANGED <<form, blocked, steps, dispatched, executed, summary, generated, outcome>>

(* handle_submit: what the rules refuse is not sent.                       *)
Submit == \E e \in Entries : ~Refused(e) /\ Call(BuildUserRequest(e), "run", "form")

Receive == \E q \in ApiRequests, m \in {"plan", "run", "chat"} : Call(q, m, "api")

-----------------------------------------------------------------------------
(* chat_reply asks for a run only when nothing is missing.                 *)
GraphMode == IF mode = "chat" THEN IF Missing(request) = {} THEN "run" ELSE "plan"
             ELSE mode

BeginPlan ==
  /\ pc = "plan"
  /\ Emit(<<Event("supervisor", "plan", "started")>>)
  /\ Goto("planning")
  /\ UNCHANGED <<form, origin, request, mode, blocked, steps, dispatched, executed,
                 summary, generated, outcome>>

PlanSteps(q, stop) ==
  [w \in Work |-> IF stop THEN "failed"
                  ELSE IF (w = "build_infra" /\ HasInfra(q))
                          \/ (w = "generate_app" /\ HasApp(q))
                  THEN "pending" ELSE "completed"]

(* Mutant: a blocked run is dispatched.                                    *)
RouteAfterPlan_Anyway(stop) == IF GraphMode = "plan" THEN "finalize" ELSE "dispatch"

(* Mutant: a blocked run is led to no node at all.                         *)
RouteAfterPlan_NoEdge(stop) ==
  IF GraphMode = "plan" THEN "finalize" ELSE IF stop THEN "done" ELSE "dispatch"

RouteAfterPlan(stop) ==
  IF GraphMode = "plan" \/ stop THEN "finalize" ELSE "dispatch"

EndPlan ==
  /\ pc = "planning"
  /\ LET stop == Missing(request) # {}
     IN  /\ blocked' = stop
         /\ steps' = PlanSteps(request, stop)
         /\ Emit(<<Event("supervisor", "plan", IF stop THEN "failed" ELSE "completed")>>)
         /\ Goto(RouteAfterPlan(stop))
  /\ UNCHANGED <<form, origin, request, mode, dispatched, executed, summary,
                 generated, outcome>>

(* The model's client cannot be made: nobody catches it.                   *)
Raises ==
  /\ pc = "planning" \/ (pc = "answer" /\ mode = "chat")
  /\ outcome' = "raised"
  /\ Goto("done")
  /\ UNCHANGED <<form, origin, request, mode, blocked, report, generated>>

(* Only told: the edges lead through both agents in any case.              *)
Dispatch ==
  /\ pc = "dispatch"
  /\ dispatched' = {w \in Work : \/ w = "build_infra" /\ HasInfra(request)
                                 \/ w = "generate_app" /\ HasApp(request)}
  /\ Emit(<<Event("supervisor", "dispatch", "planned")>>)
  /\ Goto("build_infra")
  /\ UNCHANGED <<form, origin, request, mode, blocked, steps, executed, summary,
                 generated, outcome>>

SkipInfra ==
  /\ pc = "build_infra"
  /\ request.components = {}
  /\ Emit(<<Event("infra_build", "run", "completed")>>)
  /\ Goto("generate_app")
  /\ UNCHANGED <<form, origin, request, mode, blocked, steps, dispatched, executed,
                 summary, generated, outcome>>

CallInfra ==
  /\ pc = "build_infra"
  /\ request.components # {}
  /\ Emit(<<Event("infra_build", "run", "started"), Event("infra_build", "run", "planned")>>)
  /\ Goto("infra")
  /\ UNCHANGED <<form, origin, request, mode, blocked, steps, dispatched, executed,
                 summary, generated, outcome>>

Returned(agent, ok) ==
  /\ executed' = Append(executed, [agent |-> agent, success |-> ok])
  /\ Emit(<<Event(agent, "run", IF ok THEN "completed" ELSE "failed")>>)

(* Mutant: a failure of the infra agent is forgotten.                      *)
InfraReturns_Forgets ==
  /\ pc = "infra"
  /\ \E ok \in BOOLEAN :
       /\ Emit(<<Event("infra_build", "run", IF ok THEN "completed" ELSE "failed")>>)
       /\ executed' = IF ok THEN Append(executed, [agent |-> "infra_build", success |-> ok])
                      ELSE executed
  /\ Goto("generate_app")
  /\ UNCHANGED <<form, origin, request, mode, blocked, steps, dispatched, summary,
                 generated, outcome>>

(* A failure does not keep the application from being made.                *)
InfraReturns ==
  /\ pc = "infra"
  /\ \E ok \in BOOLEAN : Returned("infra_build", ok)
  /\ Goto("generate_app")
  /\ UNCHANGED <<form, origin, request, mode, blocked, steps, dispatched, summary,
                 generated, outcome>>

CallApp ==
  /\ pc = "generate_app"
  /\ Emit(<<Event("sample_app", "run", "started"), Event("sample_app", "run", "planned")>>)
  /\ Goto("app")
  /\ UNCHANGED <<form, origin, request, mode, blocked, steps, dispatched, executed,
                 summary, generated, outcome>>

(* The first lines of SampleAppAgent.run.                                  *)
AgentSkips(q) == q.framework = "none" \/ q.apps = 0

AppReturns ==
  /\ pc = "app"
  /\ \E ok \in BOOLEAN : (AgentSkips(request) => ok) /\ Returned("sample_app", ok)
  /\ generated' = ~AgentSkips(request)
  /\ Goto("finalize")
  /\ UNCHANGED <<form, origin, request, mode, blocked, steps, dispatched, summary, outcome>>

FailedAgents == {executed[i].agent : i \in {j \in 1..Len(executed) : ~executed[j].success}}

Says(what) == [says |-> what, failed |-> {}]

FinalSummary ==
  IF blocked THEN Says("blocked")
  ELSE IF GraphMode = "plan" THEN Says("reviewed")
  ELSE IF FailedAgents = {} THEN Says("complete")
  ELSE [says |-> "failed", failed |-> FailedAgents]

Finalize ==
  /\ pc = "finalize"
  /\ summary' = FinalSummary
  /\ Emit(<<Event("supervisor", "finalize", "started"),
            Event("supervisor", "finalize", "completed")>>)
  /\ Goto("answer")
  /\ UNCHANGED <<form, origin, request, mode, blocked, steps, dispatched, executed,
                 generated, outcome>>

(* run() raises MissingInfoError for a blocked run.                        *)
AnswerRun ==
  /\ pc = "answer"
  /\ mode = "run"
  /\ Emit(<<Event("supervisor", "run", IF blocked THEN "failed" ELSE "completed")>>)
  /\ outcome' = IF blocked THEN "missing_info" ELSE "result"
  /\ Goto("done")
  /\ UNCHANGED <<form, origin, request, mode, blocked, steps, dispatched, executed,
                 summary, generated>>

AnswerPlan ==
  /\ pc = "answer"
  /\ mode # "run"
  /\ outcome' = IF GraphMode = "plan" THEN "plan" ELSE "result"
  /\ Goto("done")
  /\ UNCHANGED <<form, origin, request, mode, blocked, report, generated>>

-----------------------------------------------------------------------------
Ask   == Submit \/ Receive
Graph == \/ BeginPlan \/ EndPlan \/ Dispatch
         \/ SkipInfra \/ CallInfra \/ InfraReturns
         \/ CallApp \/ AppReturns
         \/ Finalize
Step  == Graph \/ Raises \/ AnswerRun \/ AnswerPlan

Next == EditForm \/ Ask \/ Step

Spec == Init /\ [][Next]_vars

(* The graph is run to its end; the model and the agents' commands have    *)
(* timeouts.  Nothing makes a user submit.                                 *)
FairSpec == Spec /\ WF_vars(Step)
-----------------------------------------------------------------------------
(* Properties.                                                             *)

Statuses == {"started", "planned", "completed", "failed"}

TypeOK ==
  /\ selected \subseteq Components
  /\ version \in [Ruled -> Choice]
  /\ instances \in [Ruled -> 0..MaxInstances]
  /\ framework \in Choice
  /\ frameworkVersion \in Choice
  /\ apps \in 0..MaxInstances
  /\ pc \in Points
  /\ origin \in {"none", "form", "api"}
  /\ pc # "form" => RequestOK(request)
  /\ mode \in {"plan", "run", "chat"}
  /\ blocked \in BOOLEAN
  /\ DOMAIN steps \in {{}, Work}
  /\ \A w \in DOMAIN steps : steps[w] \in {"pending", "completed", "failed"}
  /\ dispatched \subseteq Work
  /\ executed \in Seq([agent : Agents, success : BOOLEAN])
  /\ summary \in [says : {"nothing", "blocked", "reviewed", "failed", "complete"},
                  failed : SUBSET Agents]
  /\ events \in Seq([owner : Agents \union {"supervisor"},
                     phase : {"run", "plan", "dispatch", "finalize"}, status : Statuses])
  /\ generated \in BOOLEAN
  /\ outcome \in {"none", "plan", "result", "missing_info", "raised"}

FromForm == origin = "form"

(* What the form lets through the supervisor accepts, but for four gaps:   *)
(* a blank SSH user, nothing chosen at all, Tomcat or Kafka without a Java *)
(* among the languages, and a blank log directory.  (apply_form_rules and  *)
(* check_missing_info state the same rules twice.)                         *)
FormGaps ==
  {f \in {"user"} : \A i \in 1..Len(request.targets) : "user" \notin request.targets[i]}
  \union {f \in {"components"} : selected = {} /\ framework = "None"}
  \union {f \in {"java"} : selected \intersect {"tomcat", "kafka"} # {} /\ ~request.java}
  \union {f \in {"base_dir"} : ~request.baseDir}

SubmittedLacksOnly == FromForm => Missing(request) = FormGaps

(* A run from the form does what was chosen in it and nothing else: the    *)
(* agents worked for what is selected, every component that was given      *)
(* rules came with a version and an instance, no other came with either,   *)
(* and a database's credentials came in pairs.  (The callbacks, the        *)
(* sanitizers, the validators and the skips of the two agents.)            *)
FormIsServed ==
  FromForm =>
    /\ outcome = "result" =>
         /\ (\E i \in 1..Len(executed) : executed[i].agent = "infra_build") <=> selected # {}
         /\ generated <=> framework # "None"
    /\ \A c \in Ruled : IF c \in selected
                        THEN request.versions[c] = "given" /\ request.instances[c] > 0
                        ELSE request.versions[c] = "None" /\ request.instances[c] = 0
    /\ request.credentials \in {{}, {"db_user", "db_pw"}}

(* A run does what its plan and its dispatch announced, and nothing at all *)
(* when something is missing - but that a framework left blank is          *)
(* announced as skipped and generated.  (_build_plan_steps_for_request,    *)
(* _dispatch_node, the routes and the skips decide one by one.)            *)
Done(w) == IF w = "build_infra"
           THEN \E i \in 1..Len(executed) : executed[i].agent = "infra_build"
           ELSE generated

PlannedIsDone ==
  /\ outcome = "result" =>
       /\ Missing(request) = {}
       /\ \A w \in Work :
            \/ Done(w) <=> steps[w] = "pending" /\ w \in dispatched
            \/ w = "generate_app" /\ request.framework = "" /\ request.apps > 0
  /\ outcome \in {"plan", "missing_info"} \/ blocked =>
       /\ executed = <<>>
       /\ \A i \in 1..Len(events) : events[i].owner = "supervisor"

(* Whoever reads only the events, or only the summary, learns of every     *)
(* agent that failed and of no other; and every phase that was announced   *)
(* got its one verdict, unless the call raised.  (The task stores          *)
(* succeeded for such a run as well.)                                      *)
Verdict(e) == e.status \in {"completed", "failed"}
Same(e, f) == e.owner = f.owner /\ e.phase = f.phase

ReportIsTrue ==
  /\ outcome \in {"plan", "result", "missing_info"} =>
       \A i \in 1..Len(events) :
         events[i].status = "started" =>
           \E j \in (i + 1)..Len(events) :
             /\ Verdict(events[j]) /\ Same(events[i], events[j])
             /\ \A k \in 1..Len(events) :
                  Verdict(events[k]) /\ Same(events[i], events[k]) => k = j
  /\ outcome = "result" =>
       /\ summary.failed = {a \in Agents : \E i \in 1..Len(events) :
                              events[i] = Event(a, "run", "failed")}
       /\ summary.says = IF summary.failed = {} THEN "complete" ELSE "failed"
  /\ outcome \in {"plan", "missing_info"} =>
       summary = Says(IF Missing(request) = {} THEN "reviewed" ELSE "blocked")

(* Whoever asks the supervisor gets an answer.  (graph.invoke has no path   *)
(* back, and both agents return.)                                          *)
EveryCallAnswers == pc = "plan" ~> outcome # "none"

(* AGENT.md:26: when there is no request for an application, the node       *)
(* skips.  Violated: the agent knows only the word none, while a framework *)
(* left blank, the default of UserRequest, counts as no request, too.      *)
SkippedIsNotGenerated ==
  generated => steps["generate_app"] = "pending"
=============================================================================
