------------------------------ MODULE InfraApply ------------------------------
(***************************************************************************)
(* The infra agent (InfraAutoSetting/agent.py, tools.py, cache.py): resolve *)
(* versions, take a bootstrap script from the cache or have the model write *)
(* it, validate it, and send it to the host.  Runs share the script cache  *)
(* in Redis and, when their target is the same, the local script file.     *)
(*                                                                         *)
(* A script is abstracted to the request it was written for, its author    *)
(* and its traits: what one of the three checks (_basic_guard,             *)
(* _validate_script_content, code_validator) could object to.              *)
(***************************************************************************)
EXTENDS Naturals, Sequences

CONSTANTS
  Runs,        \* concurrent runs of the agent
  Requests,    \* what they may be asked for
  Drafts,      \* the sets of traits of the scripts that a model may write
  MaxRepairs,  \* _MAX_REPAIR
  None,        \* no entry, no file, no script
  Empty        \* the content of a file that was only opened

(* "malformed":  bash -n fails, or a directory is copied into itself;      *)
(* "omits":      a component or a log directory is not addressed;          *)
(* "bare":       a protected path is written without sudo;                 *)
(* "sudo":       sudo is used;                                             *)
(* "unsafe":     no set -euo pipefail, or rm -rf /.                        *)
Traits == {"malformed", "omits", "bare", "sudo", "unsafe"}

Components == {"apache", "tomcat", "kafka", "java", "pinpoint"}
Families   == {"debian", "redhat", "amazon", "other"}
Versions   == Seq(Nat)   \* <<>>: blank, or the word None

(* Of a UserRequest: the first target and its os_type, the operating       *)
(* system of the stack, what the script is to install with which rights, and *)
(* the traits that its words, pasted into the deterministic script, give   *)
(* that: none for letters, digits and dots, but a version in quotes, say,  *)
(* closes the quotes of the line it gets into (agent.py:508, 570, 573).    *)
RequestOK(q) ==
  /\ DOMAIN q = {"host", "family", "linux", "components", "versions", "sudo",
                 "pasted"}
  /\ q.family \in Families
  /\ q.linux \in BOOLEAN
  /\ q.components \subseteq Components
  /\ DOMAIN q.versions \subseteq Components
  /\ \A c \in DOMAIN q.versions : q.versions[c] \in Versions
  /\ q.sudo \in {"yes", "limited", "no"}
  /\ q.pasted \subseteq Traits

ASSUME RequestAssumption == \A q \in Requests : RequestOK(q)
ASSUME DraftAssumption   == Drafts \subseteq SUBSET Traits
ASSUME RepairAssumption  == MaxRepairs \in Nat

Hosts == {q.host : q \in Requests}

-----------------------------------------------------------------------------
(* Version resolution.                                                     *)

Catalog ==
  [apache   |-> {<<2, 4, 66>>, <<2, 4, 65>>},
   tomcat   |-> {<<10, 1, 36>>, <<10, 1, 35>>, <<9, 0, 95>>},
   kafka    |-> {<<3, 6, 2>>, <<3, 6, 1>>, <<3, 5, 2>>},
   java     |-> {<<21, 0, 4>>, <<17, 0, 12>>},
   pinpoint |-> {<<3>>, <<2>>}]

Begins(v, w) == Len(v) <= Len(w) /\ \A i \in 1..Len(v) : w[i] = v[i]

Older(v, w) ==
  \E i \in 1..Len(w) : /\ \A j \in 1..(i - 1) : j <= Len(v) /\ v[j] = w[j]
                       /\ i > Len(v) \/ v[i] < w[i]

(* Only a major or a major.minor version is looked up.                     *)
Resolve(c, v) ==
  LET family == {w \in Catalog[c] : Len(v) \in {1, 2} /\ Begins(v, w)}
  IN  IF family = {} THEN v
      ELSE CHOOSE w \in family : \A u \in family : ~Older(w, u)

Resolved(q) == [c \in DOMAIN q.versions |-> Resolve(c, q.versions[c])]

-----------------------------------------------------------------------------
(* Scripts, cache keys and checks.                                         *)

PackageManager(q) ==
  IF q.family = "debian" THEN "apt"
  ELSE IF q.family \in {"redhat", "amazon"} THEN "dnf"
  ELSE IF q.linux THEN "apt" ELSE "unknown"

(* What _component_install_lines and the prompt call for.                   *)
JavaPackage(q) ==
  IF PackageManager(q) = "apt" THEN "openjdk-jdk"
  ELSE IF PackageManager(q) = "unknown" THEN "none"
  ELSE IF q.family = "amazon" THEN "corretto" ELSE "openjdk-devel"

MayUseSudo(q) == q.sudo \in {"yes", "limited"}

(* The parts are joined with separators that values are taken not to hold,  *)
(* and the log directories, a part of their own, to be the same here.      *)
(* Mutant: the privilege policy is left out of the key.                    *)
Key_NoSudo(q) ==
  [components |-> q.components, versions |-> Resolved(q),
   manager |-> PackageManager(q)]

Key(q) ==
  [components |-> q.components, versions |-> Resolved(q),
   manager |-> PackageManager(q), sudo |-> q.sudo]

(* Each request's key, evaluated once.                                      *)
KeyOf == [q \in Requests |-> Key(q)]

Scripts == [of : Requests, author : {"model", "template"},
            traits : SUBSET Traits]

(* The deterministic script.  Without a package manager it only echoes the *)
(* names of the components, and the checks look for httpd, apache2 and a   *)
(* JDK of the major version asked for.  Nothing checks it before the file.  *)
UnseenIfUnknown(q) ==
  q.components \intersect
    ({"apache"} \union {c \in {"java"} : /\ c \in DOMAIN q.versions
                                         /\ q.versions[c] # <<>>})

Fallback(q) ==
  [of |-> q, author |-> "template",
   traits |-> {t \in {"omits"} : /\ PackageManager(q) = "unknown"
                                 /\ UnseenIfUnknown(q) # {}}
              \union {IF MayUseSudo(q) THEN "sudo" ELSE "bare"}
              \union q.pasted]

Draft(q, traits) == [of |-> q, author |-> "model", traits |-> traits]

BasicGuard(s) == "unsafe" \notin s.traits

(* bash is taken to be there and to answer: where it does not, both checks *)
(* skip bash -n.                                                           *)
ContentIssues(s, q) ==
  s.traits \intersect
    ({"malformed", "omits"} \union {t \in {"bare"} : q.sudo # "no"})

CodeIssues(s, q) ==
  s.traits \intersect
    ({"malformed", "unsafe"} \union {t \in {"sudo"} : q.sudo = "no"})

-----------------------------------------------------------------------------
VARIABLES
  request,   \* of each run
  dryRun,    \* INFRA_AGENT_DRY_RUN
  cache,     \* the script under each key, or None
  file,      \* infra_bootstrap_<host>.sh: a script, Empty or None
  pc, script, round,
  cacheNote, \* SCRIPT_CACHE_HIT, SCRIPT_CACHE_MISS, or none yet
  notes,     \* the other codes among the notes of the result
  success,
  sent,      \* what the run's ssh read from the file and the host ran, or None
  meddled    \* history: another run wrote the file this run was working on

Keys  == {KeyOf[q] : q \in Requests}
Files == Scripts \union {Empty, None}

ASSUME NoneAssumption == /\ None \notin Scripts
                         /\ Empty \notin Scripts \union {None}

asked  == <<request, dryRun>>
held   == <<script, round, cacheNote>>
result == <<notes, success, sent>>
vars   == <<asked, cache, file, pc, held, result, meddled>>

(* From the opening of the file to the end of ssh, the file is in use.     *)
InUse  == {"flush", "check", "ssh"}
Building == {"resolve", "generate", "validate", "repair", "store"}
Points == Building \union {"write", "done"} \union InUse
Codes  == {"rejected", "exception", "E_SSH_CONNECT", "E_SSH_TIMEOUT",
           "E_REMOTE_EXEC"}

(* An entry may be a week old, and stem from a release with other checks.  *)
(* Entries under keys that no run asks for make no difference.             *)
OldEntries(k) ==
  {None} \union
  {Draft(request[r], d) : r \in {p \in Runs : KeyOf[request[p]] = k}, d \in Drafts}

Init ==
  /\ request \in [Runs -> Requests]
  /\ dryRun \in BOOLEAN
  /\ cache \in {c \in [Keys -> UNION {OldEntries(k) : k \in Keys}] :
                  \A k \in Keys : c[k] \in OldEntries(k)}
  /\ file = [h \in Hosts |-> None]
  /\ pc = [r \in Runs |-> "resolve"]
  /\ script = [r \in Runs |-> None]
  /\ round = [r \in Runs |-> 0]
  /\ cacheNote = [r \in Runs |-> "none"]
  /\ notes = [r \in Runs |-> {}]
  /\ success = [r \in Runs |-> FALSE]
  /\ sent = [r \in Runs |-> None]
  /\ meddled = [r \in Runs |-> FALSE]

At(r, point)   == pc[r] = point
Goto(r, point) == pc' = [pc EXCEPT ![r] = point]
Take(r, s)     == script' = [script EXCEPT ![r] = s]
Note(r, code)  == notes' = [notes EXCEPT ![r] = @ \union {code}]
Cached(r, how) == cacheNote' = [cacheNote EXCEPT ![r] = how]
Host(r)        == request[r].host

Touch(r) == meddled' = [q \in Runs |-> \/ meddled[q]
                                       \/ /\ q # r /\ pc[q] \in InUse
                                          /\ Host(q) = Host(r)]

-----------------------------------------------------------------------------
(* _resolve_script and _build_script.                                      *)

(* Mutant: a cached script is used as it is.                               *)
CacheHit_Unchecked(r) ==
  /\ At(r, "resolve")
  /\ cache[KeyOf[request[r]]] # None
  /\ Take(r, cache[KeyOf[request[r]]])
  /\ Cached(r, "hit")
  /\ Goto(r, "write")
  /\ UNCHANGED <<asked, cache, file, round, result, meddled>>

CacheHit(r) ==
  /\ At(r, "resolve")
  /\ LET s == cache[KeyOf[request[r]]]
     IN  /\ s # None
         /\ ContentIssues(s, request[r]) = {}
         /\ Take(r, s)
  /\ Cached(r, "hit")
  /\ Goto(r, "write")
  /\ UNCHANGED <<asked, cache, file, round, result, meddled>>

(* No entry, one that no longer passes, or no answer from Redis.           *)
CacheMiss(r) ==
  /\ At(r, "resolve")
  /\ Cached(r, "miss")
  /\ Goto(r, "generate")
  /\ UNCHANGED <<asked, cache, file, script, round, result, meddled>>

Generate(r) ==
  /\ At(r, "generate")
  /\ \E d \in Drafts : /\ BasicGuard(Draft(request[r], d))
                       /\ Take(r, Draft(request[r], d))
  /\ Goto(r, "validate")
  /\ UNCHANGED <<asked, cache, file, round, cacheNote, result, meddled>>

(* Mutant: the round is not counted.                                       *)
RepairScript_NotCounted(r) ==
  /\ At(r, "repair")
  /\ \E d \in Drafts : /\ BasicGuard(Draft(request[r], d))
                       /\ Take(r, Draft(request[r], d))
  /\ Goto(r, "validate")
  /\ UNCHANGED <<asked, cache, file, round, cacheNote, result, meddled>>

UseFallback(r) ==
  /\ Take(r, Fallback(request[r]))
  /\ Goto(r, "store")
  /\ UNCHANGED <<asked, cache, file, round, cacheNote, result, meddled>>

(* The model is off, raises, answers with nothing or fails the basic guard. *)
ModelFails(r) == pc[r] \in {"generate", "repair"} /\ UseFallback(r)

(* Mutant: one repair more than the loop has rounds.                       *)
ValidateContent_OneMore(r) ==
  /\ At(r, "validate")
  /\ \/ /\ ContentIssues(script[r], request[r]) # {}
        /\ round[r] > MaxRepairs
        /\ UseFallback(r)
     \/ /\ Goto(r, IF ContentIssues(script[r], request[r]) = {} THEN "store"
                                                                ELSE "repair")
        /\ ContentIssues(script[r], request[r]) # {} => round[r] <= MaxRepairs
        /\ UNCHANGED <<asked, cache, file, held, result, meddled>>

ValidateContent(r) ==
  /\ At(r, "validate")
  /\ LET issues == ContentIssues(script[r], request[r])
     IN  \/ /\ issues # {}
            /\ round[r] = MaxRepairs
            /\ UseFallback(r)
         \/ /\ issues # {} => round[r] < MaxRepairs
            /\ Goto(r, IF issues = {} THEN "store" ELSE "repair")
            /\ UNCHANGED <<asked, cache, file, held, result, meddled>>

RepairScript(r) ==
  /\ At(r, "repair")
  /\ \E d \in Drafts : /\ BasicGuard(Draft(request[r], d))
                       /\ Take(r, Draft(request[r], d))
  /\ round' = [round EXCEPT ![r] = @ + 1]
  /\ Goto(r, "validate")
  /\ UNCHANGED <<asked, cache, file, cacheNote, result, meddled>>

(* An error of Redis is logged and ignored.                                *)
CachePut(r) ==
  /\ At(r, "store")
  /\ \/ cache' = [cache EXCEPT ![KeyOf[request[r]]] = script[r]]
     \/ UNCHANGED cache
  /\ Goto(r, "write")
  /\ UNCHANGED <<asked, file, held, result, meddled>>

-----------------------------------------------------------------------------
(* run(): write the file, check the file, send the file.                   *)

(* write_text truncates the file before it writes.                         *)
OpenFile(r) ==
  /\ At(r, "write")
  /\ file' = [file EXCEPT ![Host(r)] = Empty]
  /\ Touch(r)
  /\ Goto(r, "flush")
  /\ UNCHANGED <<asked, cache, held, result>>

WriteFile(r) ==
  /\ At(r, "flush")
  /\ file' = [file EXCEPT ![Host(r)] = script[r]]
  /\ Touch(r)
  /\ Goto(r, "check")
  /\ UNCHANGED <<asked, cache, held, result>>

(* An empty file lacks the safety flags.                                   *)
Accepted(content, q) == content # Empty /\ CodeIssues(content, q) = {}

(* Mutant: an issue does not keep the run from going on.                   *)
ValidateFile_Warns(r) ==
  /\ At(r, "check")
  /\ Goto(r, "ssh")
  /\ UNCHANGED <<asked, cache, file, held, result, meddled>>

ValidateFile(r) ==
  /\ At(r, "check")
  /\ Accepted(file[Host(r)], request[r])
  /\ Goto(r, "ssh")
  /\ UNCHANGED <<asked, cache, file, held, result, meddled>>

RejectFile(r) ==
  /\ At(r, "check")
  /\ ~Accepted(file[Host(r)], request[r])
  /\ Note(r, "rejected")
  /\ Goto(r, "done")
  /\ UNCHANGED <<asked, cache, file, held, success, sent, meddled>>

DryRun(r) ==
  /\ At(r, "ssh")
  /\ dryRun
  /\ success' = [success EXCEPT ![r] = TRUE]
  /\ Goto(r, "done")
  /\ UNCHANGED <<asked, cache, file, held, notes, sent, meddled>>

Send(r) == sent' = [sent EXCEPT ![r] = file[Host(r)]]

(* Mutant: a timeout counts as a success.                                  *)
Execute_TimeoutIsOk(r) ==
  /\ At(r, "ssh")
  /\ ~dryRun
  /\ Send(r) \/ UNCHANGED sent
  /\ success' = [success EXCEPT ![r] = TRUE]
  /\ Goto(r, "done")
  /\ UNCHANGED <<asked, cache, file, held, notes, meddled>>

Execute(r) ==
  /\ At(r, "ssh")
  /\ ~dryRun
  /\ Send(r)
  /\ success' = [success EXCEPT ![r] = TRUE]
  /\ Goto(r, "done")
  /\ UNCHANGED <<asked, cache, file, held, notes, meddled>>

(* Output that cannot be decoded counts as a failed connection, although    *)
(* the script ran; a host that cannot be reached counts as a script that   *)
(* failed, although it did not.                                            *)
ExecuteFails(r) ==
  /\ At(r, "ssh")
  /\ ~dryRun
  /\ \E code \in {"E_SSH_CONNECT", "E_SSH_TIMEOUT", "E_REMOTE_EXEC"} : Note(r, code)
  /\ Send(r) \/ UNCHANGED sent
  /\ Goto(r, "done")
  /\ UNCHANGED <<asked, cache, file, held, success, meddled>>

(* The model's client cannot be made, or the disk refuses.  run() turns the *)
(* exception into a result; a script that _resolve_script did not return   *)
(* is lost.                                                                *)
Raises(r) ==
  /\ pc[r] \in {"generate", "repair", "write", "flush", "check"}
  /\ notes' = [notes EXCEPT ![r] = {"exception"}]
  /\ script' = [script EXCEPT ![r] = IF pc[r] \in Building THEN None ELSE @]
  /\ Goto(r, "done")
  /\ UNCHANGED <<asked, cache, file, round, cacheNote, success, sent, meddled>>

(* The time to live of an entry.                                           *)
Expire(k) ==
  /\ cache[k] # None
  /\ cache' = [cache EXCEPT ![k] = None]
  /\ UNCHANGED <<asked, file, pc, held, result, meddled>>

-----------------------------------------------------------------------------
Resolution(r) == CacheHit(r) \/ CacheMiss(r) \/ CachePut(r)
Writing(r)    == Generate(r) \/ ModelFails(r) \/ ValidateContent(r) \/ RepairScript(r)
Applying(r)   == \/ OpenFile(r) \/ WriteFile(r) \/ ValidateFile(r) \/ RejectFile(r)
                 \/ DryRun(r) \/ Execute(r) \/ ExecuteFails(r)

Step(r) == Resolution(r) \/ Writing(r) \/ Applying(r) \/ Raises(r)

Next == (\E r \in Runs : Step(r)) \/ (\E k \in Keys : Expire(k))

Spec == Init /\ [][Next]_vars

(* bash -n, ssh and the requests to the model have timeouts, and run() is   *)
(* executed to its end.                                                    *)
Fairness == \A r \in Runs : WF_vars(Step(r))

FairSpec == Spec /\ Fairness
-----------------------------------------------------------------------------
(* Properties.                                                             *)

TypeOK ==
  /\ request \in [Runs -> Requests]
  /\ dryRun \in BOOLEAN
  /\ cache \in [Keys -> Scripts \union {None}]
  /\ file \in [Hosts -> Files]
  /\ pc \in [Runs -> Points]
  /\ script \in [Runs -> Scripts \union {None}]
  /\ round \in [Runs -> 0..MaxRepairs]
  /\ cacheNote \in [Runs -> {"none", "hit", "miss"}]
  /\ notes \in [Runs -> SUBSET Codes]
  /\ success \in [Runs -> BOOLEAN]
  /\ sent \in [Runs -> Files]
  /\ meddled \in [Runs -> BOOLEAN]

(* Whoever wrote it, the script a run goes on with was made for a request   *)
(* that calls for the same components in the same versions, from the same  *)
(* package manager, with or without sudo alike, and for the same packages, *)
(* but for one exception: Amazon Linux and the other systems with dnf share *)
(* a key and differ in the package of Java.  (_resolve_script takes over    *)
(* what any other run has stored under the key, and the checks it makes    *)
(* then accept either package; the key knows the package manager, while    *)
(* _java_package_name asks for the os_type.  Two more things the key lacks, *)
(* network_policy and additional_request, only the model is told of; they  *)
(* are not in RequestOK and nothing is said of them.)                      *)
AcrossAmazon(p, q) ==
  PackageManager(q) = "dnf" /\ (p.family = "amazon") # (q.family = "amazon")

ScriptFitsRequest ==
  \A r \in Runs :
    script[r] # None =>
      LET p == script[r].of
          q == request[r]
      IN  /\ p.components = q.components
          /\ \A c \in q.components \intersect DOMAIN q.versions :
               c \in DOMAIN p.versions /\ Resolved(p)[c] = Resolved(q)[c]
          /\ PackageManager(p) = PackageManager(q)
          /\ MayUseSudo(p) = MayUseSudo(q)
          /\ JavaPackage(p) = JavaPackage(q) \/ AcrossAmazon(p, q)

(* A script a run goes on with has passed the content checks for the run's  *)
(* own request if a model wrote it or the cache had it.  And what a run    *)
(* stores of a model leaves code_validator, whose checks are others,       *)
(* nothing to object to but sudo where it is forbidden.  (_basic_guard and *)
(* _validate_script_content as they fit together with                      *)
(* InfraTools.code_validator; the deterministic script has passed neither.) *)
ChosenIsChecked ==
  \A r \in Runs :
    LET s == script[r]
        q == request[r]
    IN  /\ /\ pc[r] \in {"store", "write"} \union InUse
           /\ s.author = "model" \/ cacheNote[r] = "hit"
           => ContentIssues(s, q) = {}
        /\ At(r, "store") /\ s.author = "model" => CodeIssues(s, q) \subseteq {"sudo"}

(* A host is sent what some run meant for it, or an empty file; and a run   *)
(* whose file nobody wrote meanwhile sends the script it chose, and only   *)
(* when code_validator had no objection to it.  (The file is read again    *)
(* after it was validated, and its name depends on the host only.)         *)
SentIsValidated ==
  \A r \in Runs :
    sent[r] # None =>
      /\ \/ sent[r] = Empty
         \/ \E q \in Runs : Host(q) = Host(r) /\ sent[r] = script[q]
      /\ meddled[r] \/ /\ sent[r] = script[r]
                       /\ CodeIssues(sent[r], request[r]) = {}

(* A run that reports success has no code of a failure, and something was   *)
(* sent for it or it was a dry run; one that failed has such a code.  What  *)
(* became of the script on the host it does not say, nor does ssh.         *)
(* (_remote_failure_notes, _validation_failed_result and                   *)
(* _unexpected_failure_result.)                                            *)
OutcomeIsTold ==
  \A r \in Runs :
    At(r, "done") => IF success[r] THEN notes[r] = {} /\ (dryRun \/ sent[r] # None)
                                   ELSE notes[r] # {}

(* Every run comes to its end.  (The repair loop is bounded by _MAX_REPAIR.) *)
EveryRunEnds == \A r \in Runs : <>At(r, "done")

(* _build_script drafts, judges and revises as BoundedRepair says.  The     *)
(* draft fails where the deterministic script takes its place, and is not  *)
(* asked for where the cache has one.                                      *)
Stage(r) ==
  CASE pc[r] \in {"resolve", "generate", "validate"} -> "draft"
    [] pc[r] = "repair" -> "rejected"
    [] OTHER -> IF cacheNote[r] = "hit" THEN "skipped"
                ELSE IF script[r] = None THEN "failed"
                ELSE IF script[r].author = "template" THEN "failed"
                ELSE IF pc[r] = "store" THEN "approved" ELSE "delivered"

Build == INSTANCE BoundedRepair
           WITH stage <- [r \in Runs |-> Stage(r)], rounds <- round

ImplementsBoundedRepair == Build!Safety
=============================================================================
