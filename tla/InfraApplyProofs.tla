--------------------------- MODULE InfraApplyProofs ---------------------------
(* Theorems about InfraApply, for every set of concurrent runs, every set   *)
(* of requests, whatever a model may write, and every repair budget.       *)
EXTENDS InfraApply, TLAPS

USE RequestAssumption, DraftAssumption, RepairAssumption, NoneAssumption

-----------------------------------------------------------------------------
(* Scripts.                                                                *)

LEMMA DraftIsScript ==
  ASSUME NEW q \in Requests, NEW d \in Drafts
  PROVE  Draft(q, d) \in Scripts
BY DEF Draft, Scripts

LEMMA FallbackIsScript ==
  ASSUME NEW q \in Requests
  PROVE  Fallback(q) \in Scripts
<1>1. q.pasted \subseteq Traits
  BY DEF RequestOK
<1>2. Fallback(q).traits \subseteq Traits
  BY <1>1 DEF Fallback, Traits
<1> QED
  BY <1>2 DEF Fallback, Scripts

(* Requests with one key call for the same, the package of Java apart.      *)
LEMMA KeySeparates ==
  ASSUME NEW p \in Requests, NEW q \in Requests, KeyOf[p] = KeyOf[q]
  PROVE  /\ p.components = q.components
         /\ \A c \in q.components \intersect DOMAIN q.versions :
              c \in DOMAIN p.versions /\ Resolved(p)[c] = Resolved(q)[c]
         /\ PackageManager(p) = PackageManager(q)
         /\ MayUseSudo(p) = MayUseSudo(q)
         /\ JavaPackage(p) = JavaPackage(q) \/ AcrossAmazon(p, q)
<1>1. Key(p) = Key(q)
  BY DEF KeyOf
<1>2. /\ p.components = q.components /\ Resolved(p) = Resolved(q)
      /\ PackageManager(p) = PackageManager(q) /\ p.sudo = q.sudo
  BY <1>1 DEF Key
<1>3. DOMAIN Resolved(p) = DOMAIN p.versions /\ DOMAIN Resolved(q) = DOMAIN q.versions
  BY DEF Resolved
<1>4. PackageManager(q) \in {"apt", "dnf", "unknown"}
  BY DEF PackageManager
<1>5. JavaPackage(p) = JavaPackage(q) \/ AcrossAmazon(p, q)
  BY <1>2, <1>4 DEF JavaPackage, AcrossAmazon
<1> QED
  BY <1>2, <1>3, <1>5 DEF MayUseSudo

-----------------------------------------------------------------------------
(* Type correctness.  A repair is only entered with budget left.           *)

BudgetLeft == \A r \in Runs : pc[r] = "repair" => round[r] < MaxRepairs

Typed == TypeOK /\ BudgetLeft

LEMMA TypeInit == Init => Typed
<1> SUFFICES ASSUME Init
             PROVE  Typed
  OBVIOUS
<1>1. cache \in [Keys -> Scripts \union {None}]
  <2>1. \A k \in Keys : OldEntries(k) \subseteq Scripts \union {None}
    BY DraftIsScript DEF Init, OldEntries
  <2> QED
    BY <2>1 DEF Init
<1>2. pc \in [Runs -> Points]
  BY DEF Init, Points, Building
<1>3. file \in [Hosts -> Files] /\ sent \in [Runs -> Files]
  BY DEF Init, Files
<1>4. TypeOK
  BY <1>1, <1>2, <1>3 DEF Init, TypeOK
<1>5. BudgetLeft
  BY DEF Init, BudgetLeft
<1> QED
  BY <1>4, <1>5 DEF Typed

LEMMA TouchType ==
  ASSUME TypeOK, NEW r \in Runs, Touch(r)
  PROVE  meddled' \in [Runs -> BOOLEAN]
BY DEF TypeOK, Touch

LEMMA KeyType ==
  ASSUME TypeOK, NEW r \in Runs
  PROVE  /\ request[r] \in Requests
         /\ KeyOf[request[r]] \in Keys
         /\ Host(r) \in Hosts
BY DEF TypeOK, Keys, Hosts, Host

LEMMA ResolutionType ==
  ASSUME Typed, NEW r \in Runs, Resolution(r)
  PROVE  Typed'
<1> USE DEF Typed, TypeOK, BudgetLeft, At, Goto, Points, Building, InUse
<1>1. CASE CacheHit(r)
  BY <1>1, KeyType DEF CacheHit, Take, Cached, asked, result
<1>2. CASE CacheMiss(r)
  BY <1>2 DEF CacheMiss, Cached, asked, result
<1>3. CASE CachePut(r)
  BY <1>3, KeyType DEF CachePut, asked, held, result
<1> QED
  BY <1>1, <1>2, <1>3 DEF Resolution

LEMMA WritingType ==
  ASSUME Typed, NEW r \in Runs, Writing(r)
  PROVE  Typed'
<1> USE DEF Typed, TypeOK, BudgetLeft, At, Goto, Points, Building, InUse
<1>1. ASSUME UseFallback(r)
      PROVE  Typed'
  BY <1>1, KeyType, FallbackIsScript DEF UseFallback, Take, asked, result
<1>2. CASE Generate(r)
  BY <1>2, KeyType, DraftIsScript DEF Generate, Take, asked, result
<1>3. CASE ModelFails(r)
  BY <1>1, <1>3 DEF ModelFails
<1>4. CASE ValidateContent(r)
  <2>1. CASE UseFallback(r)
    BY <1>1, <2>1
  <2>2. CASE ~UseFallback(r)
    BY <1>4, <2>2 DEF ValidateContent, asked, held, result
  <2> QED
    BY <2>1, <2>2
<1>5. CASE RepairScript(r)
  <2>1. round[r] + 1 \in 0..MaxRepairs
    BY <1>5 DEF RepairScript
  <2>2. PICK d \in Drafts : Take(r, Draft(request[r], d))
    BY <1>5 DEF RepairScript
  <2>3. script' \in [Runs -> Scripts \union {None}]
    BY <2>2, KeyType, DraftIsScript DEF Take
  <2> QED
    BY <1>5, <2>1, <2>3 DEF RepairScript, asked, result
<1> QED
  BY <1>2, <1>3, <1>4, <1>5 DEF Writing

LEMMA ApplyingType ==
  ASSUME Typed, NEW r \in Runs, Applying(r)
  PROVE  Typed'
<1> USE DEF Typed, TypeOK, BudgetLeft, At, Goto, Points, Building, InUse
<1>1. CASE OpenFile(r)
  BY <1>1, TouchType, KeyType DEF OpenFile, Files, asked, held, result
<1>2. CASE WriteFile(r)
  BY <1>2, TouchType, KeyType DEF WriteFile, Files, asked, held, result
<1>3. CASE ValidateFile(r)
  BY <1>3 DEF ValidateFile, asked, held, result
<1>4. CASE RejectFile(r)
  BY <1>4 DEF RejectFile, Note, Codes, asked, held
<1>5. CASE DryRun(r)
  BY <1>5 DEF DryRun, asked, held
<1>6. CASE Execute(r)
  BY <1>6, KeyType DEF Execute, Send, asked, held
<1>7. CASE ExecuteFails(r)
  <2>1. notes' \in [Runs -> SUBSET Codes]
    BY <1>7 DEF ExecuteFails, Note, Codes
  <2>2. sent' \in [Runs -> Files]
    BY <1>7, KeyType DEF ExecuteFails, Send
  <2> QED
    BY <1>7, <2>1, <2>2 DEF ExecuteFails, asked, held
<1> QED
  BY <1>1, <1>2, <1>3, <1>4, <1>5, <1>6, <1>7 DEF Applying

LEMMA TypeStep == Typed /\ [Next]_vars => Typed'
<1> SUFFICES ASSUME Typed, [Next]_vars
             PROVE  Typed'
  OBVIOUS
<1>1. ASSUME NEW r \in Runs, Raises(r)
      PROVE  Typed'
  BY <1>1 DEF Typed, TypeOK, BudgetLeft, Goto, Points, Building, InUse, Raises,
              Codes, asked
<1>2. ASSUME NEW k \in Keys, Expire(k)
      PROVE  Typed'
  BY <1>2 DEF Typed, TypeOK, BudgetLeft, Expire, asked, held, result
<1>3. CASE UNCHANGED vars
  BY <1>3 DEF Typed, TypeOK, BudgetLeft, vars, asked, held, result
<1> QED
  BY <1>1, <1>2, <1>3, ResolutionType, WritingType, ApplyingType DEF Next, Step

LEMMA TypedAlways == Spec => []Typed
<1> QED
  BY TypeInit, TypeStep, PTL DEF Spec

(* Type correctness, for every instance; the round never exceeds            *)
(* _MAX_REPAIR.                                                            *)
THEOREM InfraTypeCorrect == Spec => []TypeOK
<1>1. Typed => TypeOK
  BY DEF Typed
<1> QED
  BY <1>1, TypedAlways, PTL

-----------------------------------------------------------------------------
(* The script of a run: made for a request with the run's key, judged       *)
(* before it is stored, and kept from then on.                             *)

CacheFits == \A k \in Keys : cache[k] # None => KeyOf[cache[k].of] = k

Own(r) ==
  /\ script[r] \in Scripts
  /\ script[r].of = request[r]
  /\ script[r].author = "model" => BasicGuard(script[r])

Formed(r) ==
  /\ script[r] # None => KeyOf[script[r].of] = KeyOf[request[r]]
  /\ pc[r] \in {"validate", "repair"} => Own(r) /\ script[r].author = "model"
  /\ At(r, "store") =>
       /\ Own(r)
       /\ IF script[r].author = "model" THEN ContentIssues(script[r], request[r]) = {}
                                        ELSE script[r] = Fallback(request[r])
  /\ pc[r] \in {"write"} \union InUse =>
       /\ script[r] \in Scripts
       /\ script[r].author = "model" => ContentIssues(script[r], request[r]) = {}

ScriptsInv == Typed /\ CacheFits /\ \A r \in Runs : Formed(r)

LEMMA ScriptsInit == Init => ScriptsInv
<1> SUFFICES ASSUME Init
             PROVE  ScriptsInv
  OBVIOUS
<1>1. Typed
  BY TypeInit
<1>2. CacheFits
  <2> SUFFICES ASSUME NEW k \in Keys, cache[k] # None
               PROVE  KeyOf[cache[k].of] = k
    BY DEF CacheFits
  <2>1. cache[k] \in OldEntries(k)
    BY DEF Init
  <2>2. PICK r \in Runs, d \in Drafts : /\ KeyOf[request[r]] = k
                                        /\ cache[k] = Draft(request[r], d)
    BY <2>1 DEF OldEntries
  <2> QED
    BY <2>2 DEF Draft
<1>3. \A r \in Runs : Formed(r)
  BY DEF Init, Formed, At, InUse
<1> QED
  BY <1>1, <1>2, <1>3 DEF ScriptsInv

(* A run that does not move keeps what it has.                             *)
LEMMA FormedStays ==
  ASSUME NEW q \in Runs, Formed(q), UNCHANGED request,
         pc'[q] = pc[q], script'[q] = script[q]
  PROVE  Formed(q)'
BY DEF Formed, Own, At

LEMMA FormedFallback ==
  ASSUME ScriptsInv, NEW r \in Runs, UseFallback(r)
  PROVE  ScriptsInv'
<1>1. Typed' /\ UNCHANGED <<request, cache>>
  <2>1. /\ script' \in [Runs -> Scripts \union {None}]
        /\ pc' = [pc EXCEPT ![r] = "store"]
    BY FallbackIsScript, KeyType DEF UseFallback, Take, Goto, ScriptsInv, Typed, TypeOK
  <2> QED
    BY <2>1 DEF UseFallback, ScriptsInv, Typed, TypeOK, BudgetLeft, Points, Building,
                asked, result
<1>2. CacheFits'
  BY <1>1 DEF ScriptsInv, CacheFits
<1>3. script'[r] = Fallback(request[r]) /\ pc'[r] = "store"
  BY DEF UseFallback, Take, Goto, ScriptsInv, Typed, TypeOK
<1>4. Formed(r)'
  <2>1. /\ Fallback(request[r]) \in Scripts
        /\ Fallback(request[r]).of = request[r]
        /\ Fallback(request[r]).author = "template"
    BY FallbackIsScript, KeyType DEF ScriptsInv, Typed, Fallback
  <2> QED
    BY <1>1, <1>3, <2>1 DEF Formed, Own, At, InUse
<1>5. \A q \in Runs \ {r} : Formed(q)'
  BY <1>1, FormedStays DEF ScriptsInv, Typed, TypeOK, UseFallback, Take, Goto
<1> QED
  BY <1>1, <1>2, <1>4, <1>5 DEF ScriptsInv

(* What a model writes is made for the request, and not unsafe.            *)
LEMMA FormedDraft ==
  ASSUME ScriptsInv, NEW r \in Runs, NEW d \in Drafts,
         BasicGuard(Draft(request[r], d)), Take(r, Draft(request[r], d)),
         Goto(r, "validate"), UNCHANGED <<request, cache>>
  PROVE  CacheFits' /\ \A q \in Runs : Formed(q)'
<1>1. CacheFits'
  BY DEF ScriptsInv, CacheFits
<1>2. script'[r] = Draft(request[r], d) /\ pc'[r] = "validate"
  BY DEF Take, Goto, ScriptsInv, Typed, TypeOK
<1>3. Formed(r)'
  <2>1. /\ Draft(request[r], d) \in Scripts
        /\ Draft(request[r], d).of = request[r]
        /\ Draft(request[r], d).author = "model"
    BY DraftIsScript, KeyType DEF ScriptsInv, Typed, Draft
  <2> QED
    BY <1>2, <2>1 DEF Formed, Own, At, InUse
<1>4. \A q \in Runs \ {r} : Formed(q)'
  BY FormedStays DEF ScriptsInv, Typed, TypeOK, Take, Goto
<1> QED
  BY <1>1, <1>3, <1>4

LEMMA FormedResolution ==
  ASSUME ScriptsInv, NEW r \in Runs, Resolution(r)
  PROVE  ScriptsInv'
<1> USE DEF ScriptsInv
<1>1. Typed'
  BY ResolutionType
<1>2. \A q \in Runs \ {r} : Formed(q)'
  BY FormedStays DEF Typed, TypeOK, Resolution, CacheHit, CacheMiss, CachePut, Take,
                     Goto, asked, held
<1>3. CASE CacheHit(r)
  <2>1. CacheFits'
    BY <1>3 DEF CacheHit, CacheFits
  <2>2. /\ script'[r] = cache[KeyOf[request[r]]]
        /\ cache[KeyOf[request[r]]] \in Scripts
        /\ ContentIssues(script'[r], request[r]) = {}
        /\ pc'[r] = "write"
        /\ request' = request
    BY <1>3, KeyType DEF CacheHit, Take, Goto, Typed, TypeOK, asked
  <2>3. KeyOf[cache[KeyOf[request[r]]].of] = KeyOf[request[r]]
    BY <1>3, KeyType DEF CacheHit, CacheFits, Typed
  <2>4. Formed(r)'
    BY <2>2, <2>3 DEF Formed, At, InUse
  <2> QED
    BY <1>1, <1>2, <2>1, <2>4
<1>4. CASE CacheMiss(r)
  <2>1. CacheFits'
    BY <1>4 DEF CacheMiss, CacheFits
  <2>2. Formed(r)'
    BY <1>4 DEF CacheMiss, Formed, At, Goto, InUse, Typed, TypeOK, asked
  <2> QED
    BY <1>1, <1>2, <2>1, <2>2
<1>5. CASE CachePut(r)
  <2>1. Own(r)
    BY <1>5 DEF CachePut, Formed, At
  <2>2. CacheFits'
    <3> SUFFICES ASSUME NEW k \in Keys, cache'[k] # None
                 PROVE  KeyOf[cache'[k].of] = k
      BY DEF CacheFits
    <3>1. CASE cache'[k] = cache[k]
      BY <3>1 DEF CacheFits
    <3>2. CASE cache'[k] # cache[k]
      <4>1. k = KeyOf[request[r]] /\ cache'[k] = script[r]
        BY <1>5, <3>2, KeyType DEF CachePut, Typed, TypeOK
      <4> QED
        BY <2>1, <4>1 DEF Own
    <3> QED
      BY <3>1, <3>2
  <2>3. Formed(r)'
    <3>1. script' = script /\ request' = request /\ pc'[r] = "write"
      BY <1>5 DEF CachePut, Goto, Typed, TypeOK, held, asked
    <3> QED
      BY <1>5, <2>1, <3>1 DEF CachePut, Formed, Own, At, InUse
  <2> QED
    BY <1>1, <1>2, <2>2, <2>3
<1> QED
  BY <1>3, <1>4, <1>5 DEF Resolution

LEMMA FormedWriting ==
  ASSUME ScriptsInv, NEW r \in Runs, Writing(r)
  PROVE  ScriptsInv'
<1>1. Typed'
  BY WritingType DEF ScriptsInv
<1>2. CASE Generate(r)
  <2>1. PICK d \in Drafts : /\ BasicGuard(Draft(request[r], d))
                            /\ Take(r, Draft(request[r], d))
    BY <1>2 DEF Generate
  <2> QED
    BY <1>1, <1>2, <2>1, FormedDraft DEF Generate, ScriptsInv, asked
<1>3. CASE ModelFails(r)
  BY <1>3, FormedFallback DEF ModelFails
<1>4. CASE ValidateContent(r)
  <2>1. CASE UseFallback(r)
    BY <2>1, FormedFallback
  <2>2. CASE ~UseFallback(r)
    <3>1. UNCHANGED <<request, cache, script>>
      BY <1>4, <2>2 DEF ValidateContent, asked, held
    <3>2. CacheFits'
      BY <3>1 DEF ScriptsInv, CacheFits
    <3>3. \A q \in Runs \ {r} : Formed(q)'
      BY <1>4, <2>2, <3>1, FormedStays DEF ScriptsInv, Typed, TypeOK, ValidateContent, Goto
    <3>4. /\ pc[r] = "validate"
          /\ \/ pc'[r] = "store" /\ ContentIssues(script[r], request[r]) = {}
             \/ pc'[r] = "repair"
      BY <1>4, <2>2 DEF ScriptsInv, Typed, TypeOK, ValidateContent, At, Goto
    <3>5. Formed(r)'
      BY <3>1, <3>4 DEF ScriptsInv, Formed, Own, At, InUse
    <3> QED
      BY <1>1, <3>2, <3>3, <3>5 DEF ScriptsInv
  <2> QED
    BY <2>1, <2>2
<1>5. CASE RepairScript(r)
  <2>1. PICK d \in Drafts : /\ BasicGuard(Draft(request[r], d))
                            /\ Take(r, Draft(request[r], d))
    BY <1>5 DEF RepairScript
  <2> QED
    BY <1>1, <1>5, <2>1, FormedDraft DEF RepairScript, ScriptsInv, asked
<1> QED
  BY <1>2, <1>3, <1>4, <1>5 DEF Writing

LEMMA FormedApplying ==
  ASSUME ScriptsInv, NEW r \in Runs, Applying(r)
  PROVE  ScriptsInv'
<1>1. Typed'
  BY ApplyingType DEF ScriptsInv
<1>2. UNCHANGED <<request, cache, script>>
  BY DEF Applying, OpenFile, WriteFile, ValidateFile, RejectFile, DryRun, Execute,
         ExecuteFails, asked, held
<1>3. CacheFits'
  BY <1>2 DEF ScriptsInv, CacheFits
<1>4. /\ pc[r] \in {"write"} \union InUse
      /\ pc'[r] \in InUse \union {"done"}
      /\ \A q \in Runs \ {r} : pc'[q] = pc[q]
  BY DEF Applying, OpenFile, WriteFile, ValidateFile, RejectFile, DryRun, Execute,
         ExecuteFails, At, Goto, InUse, ScriptsInv, Typed, TypeOK
<1>5. Formed(r)'
  BY <1>2, <1>4 DEF ScriptsInv, Formed, At, InUse
<1>6. \A q \in Runs \ {r} : Formed(q)'
  BY <1>2, <1>4, FormedStays DEF ScriptsInv
<1> QED
  BY <1>1, <1>3, <1>5, <1>6 DEF ScriptsInv

LEMMA ScriptsStep == ScriptsInv /\ [Next]_vars => ScriptsInv'
<1> SUFFICES ASSUME ScriptsInv, [Next]_vars
             PROVE  ScriptsInv'
  OBVIOUS
<1>1. Typed'
  BY TypeStep DEF ScriptsInv
<1>2. ASSUME NEW r \in Runs, Raises(r)
      PROVE  ScriptsInv'
  <2>1. UNCHANGED <<request, cache>>
    BY <1>2 DEF Raises, asked
  <2>2. CacheFits'
    BY <2>1 DEF ScriptsInv, CacheFits
  <2>3. \A q \in Runs \ {r} : Formed(q)'
    BY <1>2, <2>1, FormedStays DEF ScriptsInv, Typed, TypeOK, Raises, Goto
  <2>4. pc'[r] = "done" /\ script'[r] \in {script[r], None}
    BY <1>2 DEF ScriptsInv, Typed, TypeOK, Raises, Goto
  <2>5. Formed(r)'
    BY <2>1, <2>4 DEF ScriptsInv, Formed, At, InUse
  <2> QED
    BY <1>1, <2>2, <2>3, <2>5 DEF ScriptsInv
<1>3. ASSUME NEW k \in Keys, Expire(k)
      PROVE  ScriptsInv'
  <2>1. UNCHANGED <<request, pc, script>>
    BY <1>3 DEF Expire, asked, held
  <2>2. CacheFits'
    BY <1>3 DEF Expire, ScriptsInv, Typed, TypeOK, CacheFits
  <2>3. \A q \in Runs : Formed(q)'
    BY <2>1, FormedStays DEF ScriptsInv
  <2> QED
    BY <1>1, <2>2, <2>3 DEF ScriptsInv
<1>4. CASE UNCHANGED vars
  <2>1. UNCHANGED <<request, pc, script, cache>>
    BY <1>4 DEF vars, asked, held
  <2>2. CacheFits' /\ \A q \in Runs : Formed(q)'
    BY <2>1, FormedStays DEF ScriptsInv, CacheFits
  <2> QED
    BY <1>1, <2>2 DEF ScriptsInv
<1> QED
  BY <1>2, <1>3, <1>4, FormedResolution, FormedWriting, FormedApplying DEF Next, Step

LEMMA ScriptsCorrect == Spec => []ScriptsInv
<1> QED
  BY ScriptsInit, ScriptsStep, PTL DEF Spec

(* Whatever it took from the cache, a run goes on with a script made for a  *)
(* request that calls for the same, but for the package of Java where one  *)
(* of the two is for Amazon Linux.                                         *)
THEOREM ScriptsFit == Spec => []ScriptFitsRequest
<1>1. ScriptsInv => ScriptFitsRequest
  <2> SUFFICES ASSUME ScriptsInv
               PROVE  ScriptFitsRequest
    OBVIOUS
  <2>1. ASSUME NEW r \in Runs, script[r] # None
        PROVE  /\ script[r].of \in Requests /\ request[r] \in Requests
               /\ KeyOf[script[r].of] = KeyOf[request[r]]
    BY <2>1 DEF ScriptsInv, Typed, TypeOK, Scripts, Formed
  <2> QED
    BY <2>1, KeySeparates DEF ScriptFitsRequest
<1> QED
  BY <1>1, ScriptsCorrect, PTL

-----------------------------------------------------------------------------
(* The file and the outcome.  A run's script is settled once it has left    *)
(* Building, so whatever the file holds is the script of a run that shares *)
(* the host, also when that run has ended.                                 *)

Owned(c, h) ==
  \/ c \in {None, Empty}
  \/ \E q \in Runs : Host(q) = h /\ pc[q] \notin Building /\ script[q] = c

(* What the file holds as long as nobody else wrote it.                     *)
Alone(r) ==
  /\ At(r, "flush") => file[Host(r)] = Empty
  /\ pc[r] \in {"check", "ssh"} => file[Host(r)] = script[r]
  /\ At(r, "ssh") => CodeIssues(script[r], request[r]) = {}

Untold(r) == sent[r] = None /\ notes[r] = {} /\ success[r] = FALSE

Told(r) ==
  /\ IF success[r] THEN notes[r] = {} /\ (dryRun \/ sent[r] # None)
                   ELSE notes[r] # {}
  /\ sent[r] # None /\ ~meddled[r] =>
       sent[r] = script[r] /\ CodeIssues(script[r], request[r]) = {}

Applied(r) ==
  /\ pc[r] \in InUse => file[Host(r)] # None
  /\ ~meddled[r] => Alone(r)
  /\ IF At(r, "done") THEN Told(r) ELSE Untold(r)

FileInv ==
  /\ ScriptsInv
  /\ \A h \in Hosts : Owned(file[h], h)
  /\ \A r \in Runs : Owned(sent[r], Host(r)) /\ Applied(r)

(* The scripts that runs have settled on stay.                              *)
Settled ==
  /\ UNCHANGED request
  /\ \A q \in Runs : pc[q] \notin Building =>
                       pc'[q] \notin Building /\ script'[q] = script[q]

LEMMA OwnersStay ==
  ASSUME Settled
  PROVE  /\ \A h \in Hosts : Owned(file[h], h) /\ file'[h] = file[h]
                               => Owned(file[h], h)'
         /\ \A r \in Runs : Owned(sent[r], Host(r)) /\ sent'[r] = sent[r]
                               => Owned(sent[r], Host(r))'
BY DEF Settled, Owned, Host

(* Only a run's own step, or another run that writes its file, disturbs     *)
(* what is known of it.                                                    *)
LEMMA AppliedStays ==
  ASSUME NEW q \in Runs, Applied(q), UNCHANGED asked,
         pc'[q] = pc[q], script'[q] = script[q], sent'[q] = sent[q],
         notes'[q] = notes[q], success'[q] = success[q],
         \/ meddled'[q] = meddled[q] /\ file'[Host(q)] = file[Host(q)]
         \/ /\ pc[q] \in InUse => meddled'[q] /\ file'[Host(q)] # None
            /\ pc[q] \notin InUse => meddled'[q] = meddled[q]
  PROVE  Applied(q)'
BY DEF Applied, Alone, Untold, Told, At, Host, asked, InUse

LEMMA FileInit == Init => FileInv
<1> SUFFICES ASSUME Init
             PROVE  FileInv
  OBVIOUS
<1>1. \A h \in Hosts : Owned(file[h], h)
  BY DEF Init, Owned
<1>2. \A r \in Runs : Owned(sent[r], Host(r)) /\ Applied(r)
  BY DEF Init, Owned, Applied, Alone, Untold, At, InUse
<1> QED
  BY <1>1, <1>2, ScriptsInit DEF FileInv

(* The steps that touch neither the file nor the outcome.                   *)
LEMMA FileBuilding ==
  ASSUME FileInv, NEW r \in Runs, Resolution(r) \/ Writing(r)
  PROVE  FileInv'
<1>1. ScriptsInv'
  BY FormedResolution, FormedWriting DEF FileInv
<1>2. UNCHANGED <<asked, file, result, meddled>>
  BY DEF Resolution, Writing, CacheHit, CacheMiss, CachePut, Generate, ModelFails,
         ValidateContent, RepairScript, UseFallback
<1>3. /\ pc[r] \in Building
      /\ pc'[r] \in Building \union {"write"}
      /\ \A q \in Runs \ {r} : pc'[q] = pc[q] /\ script'[q] = script[q]
  BY DEF FileInv, ScriptsInv, Typed, TypeOK, Building, At, Goto, Take, held,
         Resolution, Writing, CacheHit, CacheMiss, CachePut, Generate, ModelFails,
         ValidateContent, RepairScript, UseFallback
<1>4. Settled
  BY <1>2, <1>3 DEF Settled, asked
<1>5. \A h \in Hosts : Owned(file[h], h)'
  BY <1>2, <1>4, OwnersStay DEF FileInv
<1>6. \A q \in Runs : Owned(sent[q], Host(q))'
  BY <1>2, <1>4, OwnersStay DEF FileInv, result
<1>7. \A q \in Runs \ {r} : Applied(q)'
  BY <1>2, <1>3, AppliedStays DEF FileInv, result
<1>8. Applied(r)'
  BY <1>2, <1>3 DEF FileInv, Applied, Alone, Untold, At, Building, InUse, result, asked
<1> QED
  BY <1>1, <1>5, <1>6, <1>7, <1>8 DEF FileInv

(* The run writes the file: it empties it, or fills in its own script.      *)
LEMMA FileWriting ==
  ASSUME FileInv, NEW r \in Runs, OpenFile(r) \/ WriteFile(r)
  PROVE  FileInv'
<1> DEFINE c == IF OpenFile(r) THEN Empty ELSE script[r]
<1>1. ScriptsInv'
  BY FormedApplying DEF FileInv, Applying
<1>2. UNCHANGED <<asked, script, result>> /\ Touch(r)
  BY DEF OpenFile, WriteFile, held
<1>3. /\ pc[r] \in {"write", "flush"}
      /\ pc'[r] = (IF OpenFile(r) THEN "flush" ELSE "check")
      /\ \A q \in Runs \ {r} : pc'[q] = pc[q]
      /\ file' = [file EXCEPT ![Host(r)] = c]
  BY DEF FileInv, ScriptsInv, Typed, TypeOK, OpenFile, WriteFile, At, Goto
<1>4. c # None
  BY <1>3 DEF FileInv, ScriptsInv, Formed, InUse
<1>5. Settled
  BY <1>2, <1>3 DEF Settled, asked, Building
<1>6. Host(r) \in Hosts /\ file \in [Hosts -> Files] /\ request' = request
  BY <1>2, KeyType DEF FileInv, ScriptsInv, Typed, TypeOK, asked
<1>7. \A h \in Hosts : Owned(file[h], h)'
  <2> SUFFICES ASSUME NEW h \in Hosts
               PROVE  Owned(file[h], h)'
    OBVIOUS
  <2>1. CASE h = Host(r)
    <3>1. file'[h] = c
      BY <1>3, <1>6, <2>1
    <3>2. CASE OpenFile(r)
      BY <3>1, <3>2 DEF Owned
    <3>3. CASE ~OpenFile(r)
      <4>1. pc'[r] \notin Building /\ script'[r] = c /\ Host(r)' = h
        BY <1>2, <1>3, <1>6, <2>1, <3>3 DEF Building, Host
      <4> QED
        BY <3>1, <4>1 DEF Owned
    <3> QED
      BY <3>2, <3>3
  <2>2. CASE h # Host(r)
    BY <1>3, <1>5, <1>6, <2>2, OwnersStay DEF FileInv
  <2> QED
    BY <2>1, <2>2
<1>8. \A q \in Runs : Owned(sent[q], Host(q))'
  BY <1>2, <1>5, OwnersStay DEF FileInv, result
<1>9. \A q \in Runs \ {r} : Applied(q)'
  <2> SUFFICES ASSUME NEW q \in Runs \ {r}
               PROVE  Applied(q)'
    OBVIOUS
  <2>1. CASE Host(q) = Host(r)
    <3>1. file'[Host(q)] # None
      BY <1>3, <1>4, <1>6, <2>1
    <3>2. /\ pc[q] \in InUse => meddled'[q]
          /\ pc[q] \notin InUse => meddled'[q] = meddled[q]
      BY <1>2, <2>1 DEF Touch, FileInv, ScriptsInv, Typed, TypeOK
    <3> QED
      BY <1>2, <1>3, <3>1, <3>2, AppliedStays DEF FileInv, result
  <2>2. CASE Host(q) # Host(r)
    <3>1. file'[Host(q)] = file[Host(q)]
      BY <1>3, <1>6, <2>2
    <3>2. meddled'[q] = meddled[q]
      BY <1>2, <2>2 DEF Touch, FileInv, ScriptsInv, Typed, TypeOK
    <3> QED
      BY <1>2, <1>3, <3>1, <3>2, AppliedStays DEF FileInv, result
  <2> QED
    BY <2>1, <2>2
<1>10. Applied(r)'
  <2>1. file'[Host(r)'] = c
    BY <1>3, <1>6 DEF Host
  <2> QED
    BY <1>2, <1>3, <1>4, <2>1 DEF FileInv, Applied, Alone, Untold, At, InUse, result
<1> QED
  BY <1>1, <1>7, <1>8, <1>9, <1>10 DEF FileInv

(* The run reads the file, sends it, or gives up.                           *)
LEMMA FileReading ==
  ASSUME FileInv, NEW r \in Runs,
         \/ ValidateFile(r) \/ RejectFile(r) \/ DryRun(r) \/ Execute(r)
         \/ ExecuteFails(r)
  PROVE  FileInv'
<1>1. ScriptsInv'
  BY FormedApplying DEF FileInv, Applying
<1>2. UNCHANGED <<asked, file, script, meddled>>
  BY DEF ValidateFile, RejectFile, DryRun, Execute, ExecuteFails, held
<1>3. /\ pc[r] \in {"check", "ssh"}
      /\ pc'[r] \in {"ssh", "done"}
      /\ \A q \in Runs \ {r} : pc'[q] = pc[q]
      /\ \A q \in Runs \ {r} : /\ sent'[q] = sent[q] /\ notes'[q] = notes[q]
                               /\ success'[q] = success[q]
  BY DEF FileInv, ScriptsInv, Typed, TypeOK, ValidateFile, RejectFile, DryRun,
         Execute, ExecuteFails, At, Goto, Note, Send, result
<1>4. Settled
  BY <1>2, <1>3 DEF Settled, asked, Building
<1>5. /\ Host(r) \in Hosts /\ Host(r)' = Host(r)
      /\ file[Host(r)] # None /\ Untold(r) /\ (~meddled[r] => Alone(r))
  BY <1>2, <1>3, KeyType DEF FileInv, ScriptsInv, Typed, Applied, At, InUse, Host, asked
<1>6. \A h \in Hosts : Owned(file[h], h)'
  BY <1>2, <1>4, OwnersStay DEF FileInv
<1>7. sent'[r] \in {None, file[Host(r)]}
  BY <1>5 DEF FileInv, ScriptsInv, Typed, TypeOK, ValidateFile, RejectFile, DryRun,
              Execute, ExecuteFails, Send, Untold, result
<1>8. \A q \in Runs : Owned(sent[q], Host(q))'
  <2>1. Owned(sent[r], Host(r))'
    BY <1>2, <1>5, <1>6, <1>7 DEF Owned
  <2> QED
    BY <1>3, <1>4, <2>1, OwnersStay DEF FileInv
<1>9. \A q \in Runs \ {r} : Applied(q)'
  BY <1>2, <1>3, AppliedStays DEF FileInv
<1>10. Applied(r)'
  <2>1. CASE ValidateFile(r)
    <3>1. pc'[r] = "ssh" /\ Untold(r)' /\ file'[Host(r)'] # None
      BY <1>2, <1>5, <2>1 DEF ValidateFile, Goto, Untold, result, FileInv, ScriptsInv,
                              Typed, TypeOK
    <3>2. ~meddled[r] => CodeIssues(script[r], request[r]) = {} /\ file[Host(r)] = script[r]
      BY <1>5, <2>1 DEF ValidateFile, Accepted, Alone, At
    <3> QED
      BY <1>2, <1>5, <3>1, <3>2 DEF Applied, Alone, At, asked
  <2>2. CASE ~ValidateFile(r)
    <3>1. pc'[r] = "done"
      BY <2>2 DEF RejectFile, DryRun, Execute, ExecuteFails, Goto, FileInv, ScriptsInv,
                  Typed, TypeOK
    <3>2. IF success'[r] THEN notes'[r] = {} /\ (dryRun' \/ sent'[r] # None)
                         ELSE notes'[r] # {}
      BY <1>2, <1>5, <2>2 DEF RejectFile, DryRun, Execute, ExecuteFails, Note, Send, Untold,
                  FileInv, ScriptsInv, Typed, TypeOK, asked
    <3>3. sent'[r] # None /\ ~meddled[r] =>
            sent'[r] = script[r] /\ CodeIssues(script[r], request[r]) = {}
      <4>1. pc[r] # "ssh" => sent'[r] = None
        BY <1>5, <2>2 DEF RejectFile, DryRun, Execute, ExecuteFails, At, Untold
      <4> QED
        BY <1>5, <1>7, <4>1 DEF Alone, At
    <3>4. Told(r)'
      BY <1>2, <3>2, <3>3 DEF Told, asked
    <3> QED
      BY <3>1, <3>4 DEF Applied, Alone, At, InUse
  <2> QED
    BY <2>1, <2>2
<1> QED
  BY <1>1, <1>6, <1>8, <1>9, <1>10 DEF FileInv

LEMMA FileRaises ==
  ASSUME FileInv, NEW r \in Runs, Raises(r)
  PROVE  FileInv'
<1>1. ScriptsInv'
  BY ScriptsStep DEF FileInv, Next, Step
<1>2. UNCHANGED <<asked, file, success, sent, meddled>>
  BY DEF Raises
<1>3. /\ pc[r] # "done" /\ pc'[r] = "done" /\ notes'[r] = {"exception"}
      /\ pc[r] \notin Building => script'[r] = script[r]
      /\ \A q \in Runs \ {r} : /\ pc'[q] = pc[q] /\ script'[q] = script[q]
                               /\ notes'[q] = notes[q]
  BY DEF FileInv, ScriptsInv, Typed, TypeOK, Raises, Goto
<1>4. Settled
  BY <1>2, <1>3 DEF Settled, asked, Building
<1>5. /\ \A h \in Hosts : Owned(file[h], h)'
      /\ \A q \in Runs : Owned(sent[q], Host(q))'
  BY <1>2, <1>4, OwnersStay DEF FileInv
<1>6. \A q \in Runs \ {r} : Applied(q)'
  BY <1>2, <1>3, AppliedStays DEF FileInv
<1>7. Applied(r)'
  <2>1. Told(r)'
    BY <1>2, <1>3 DEF FileInv, Applied, Untold, Told, At
  <2> QED
    BY <1>3, <2>1 DEF Applied, Alone, At, InUse
<1> QED
  BY <1>1, <1>5, <1>6, <1>7 DEF FileInv

LEMMA FileStep == FileInv /\ [Next]_vars => FileInv'
<1> SUFFICES ASSUME FileInv, [Next]_vars
             PROVE  FileInv'
  OBVIOUS
<1>1. ASSUME UNCHANGED <<asked, file, pc, held, result, meddled>>
      PROVE  FileInv'
  <2>1. ScriptsInv'
    BY ScriptsStep DEF FileInv
  <2>2. Settled
    BY <1>1 DEF Settled, asked, held
  <2>3. /\ \A h \in Hosts : Owned(file[h], h)'
        /\ \A q \in Runs : Owned(sent[q], Host(q))'
    BY <1>1, <2>2, OwnersStay DEF FileInv, result
  <2>4. \A q \in Runs : Applied(q)'
    BY <1>1, AppliedStays DEF FileInv, held, result
  <2> QED
    BY <2>1, <2>3, <2>4 DEF FileInv
<1>2. ASSUME NEW k \in Keys, Expire(k)
      PROVE  FileInv'
  BY <1>1, <1>2 DEF Expire
<1>3. CASE UNCHANGED vars
  BY <1>1, <1>3 DEF vars
<1> QED
  BY <1>2, <1>3, FileBuilding, FileWriting, FileReading, FileRaises
     DEF Next, Step, Applying

LEMMA FileCorrect == Spec => []FileInv
<1> QED
  BY FileInit, FileStep, PTL DEF Spec

(* However the runs that share a host come between each other's steps, the  *)
(* host is sent a script that one of them settled on or an empty file, and *)
(* a run that was left alone sends the very script it had validated.       *)
THEOREM SentAreValidated == Spec => []SentIsValidated
<1>1. FileInv => SentIsValidated
  <2> SUFFICES ASSUME FileInv, NEW r \in Runs, sent[r] # None
               PROVE  /\ \/ sent[r] = Empty
                         \/ \E q \in Runs : Host(q) = Host(r) /\ sent[r] = script[q]
                      /\ meddled[r] \/ /\ sent[r] = script[r]
                                       /\ CodeIssues(sent[r], request[r]) = {}
    BY DEF SentIsValidated
  <2>1. Owned(sent[r], Host(r))
    BY DEF FileInv
  <2>2. Told(r)
    BY DEF FileInv, Applied, Untold
  <2> QED
    BY <2>1, <2>2 DEF Owned, Told
<1> QED
  BY <1>1, FileCorrect, PTL

(* A run that reports success has no failure among its codes and sent the   *)
(* content of its file, or was a dry run; one that failed has such a code. *)
THEOREM OutcomesAreTold == Spec => []OutcomeIsTold
<1>1. FileInv => OutcomeIsTold
  BY DEF FileInv, Applied, Told, OutcomeIsTold
<1> QED
  BY <1>1, FileCorrect, PTL

-----------------------------------------------------------------------------
(* _build_script implements BoundedRepair.  What the mapping needs beside    *)
(* Formed: a run that writes a script had none from the cache, and one that *)
(* has not begun has repaired nothing.                                      *)

Missed(r) ==
  /\ At(r, "resolve") => round[r] = 0
  /\ pc[r] \in Building \ {"resolve"} => cacheNote[r] = "miss"

BuildInv == ScriptsInv /\ \A r \in Runs : Missed(r)

LEMMA MissedStep ==
  ASSUME BuildInv, [Next]_vars
  PROVE  BuildInv'
<1> USE DEF BuildInv, ScriptsInv, Typed, TypeOK, Missed, At, Goto, Building
<1>1. ScriptsInv'
  BY ScriptsStep
<1>2. ASSUME NEW r \in Runs, Resolution(r) \/ Writing(r)
      PROVE  \A q \in Runs : Missed(q)'
  BY <1>2 DEF Resolution, Writing, CacheHit, CacheMiss, CachePut, Generate, ModelFails,
              ValidateContent, RepairScript, UseFallback, Cached, held
<1>3. ASSUME NEW r \in Runs, Applying(r) \/ Raises(r)
      PROVE  \A q \in Runs : Missed(q)'
  BY <1>3 DEF Applying, OpenFile, WriteFile, ValidateFile, RejectFile, DryRun, Execute,
              ExecuteFails, Raises, held
<1>4. ASSUME NEW k \in Keys, Expire(k)
      PROVE  \A q \in Runs : Missed(q)'
  BY <1>4 DEF Expire, held
<1>5. CASE UNCHANGED vars
  BY <1>1, <1>5 DEF vars, held
<1> QED
  BY <1>1, <1>2, <1>3, <1>4, <1>5 DEF Next, Step

(* What a run took from the cache has passed for the run's own request.     *)
Taken(r) ==
  pc[r] \in {"write"} \union InUse /\ cacheNote[r] = "hit" =>
    ContentIssues(script[r], request[r]) = {}

TakenInv == BuildInv /\ \A r \in Runs : Taken(r)

LEMMA TakenStays ==
  ASSUME NEW q \in Runs, Taken(q), UNCHANGED request,
         script'[q] = script[q], cacheNote'[q] = cacheNote[q],
         \/ pc'[q] \in {pc[q], "done"}
         \/ pc[q] \in {"write"} \union InUse
         \/ cacheNote[q] = "miss"
  PROVE  Taken(q)'
BY DEF Taken, InUse

LEMMA TakenByResolution ==
  ASSUME TakenInv, NEW r \in Runs, Resolution(r)
  PROVE  \A q \in Runs : Taken(q)'
<1> USE DEF TakenInv, BuildInv, ScriptsInv, Typed, TypeOK, At, Goto
<1>1. UNCHANGED request
  BY DEF Resolution, CacheHit, CacheMiss, CachePut, asked
<1>2. \A q \in Runs \ {r} : Taken(q)'
  <2>1. \A q \in Runs \ {r} : /\ pc'[q] = pc[q] /\ script'[q] = script[q]
                               /\ cacheNote'[q] = cacheNote[q]
    BY DEF Resolution, CacheHit, CacheMiss, CachePut, Take, Cached, held
  <2> QED
    BY <1>1, <2>1, TakenStays
<1>3. CASE CacheHit(r)
  <2>1. ContentIssues(script'[r], request'[r]) = {}
    BY <1>1, <1>3 DEF CacheHit, Take
  <2> QED
    BY <1>2, <2>1 DEF Taken
<1>4. CASE CacheMiss(r)
  <2>1. pc'[r] = "generate"
    BY <1>4 DEF CacheMiss
  <2> QED
    BY <1>2, <2>1 DEF Taken, InUse
<1>5. CASE CachePut(r)
  <2>1. cacheNote[r] = "miss" /\ script' = script /\ cacheNote' = cacheNote
    BY <1>5 DEF CachePut, Missed, Building, held
  <2>2. Taken(r)'
    BY <1>1, <2>1, TakenStays
  <2> QED
    BY <1>2, <2>2
<1> QED
  BY <1>3, <1>4, <1>5 DEF Resolution

LEMMA TakenByWriting ==
  ASSUME TakenInv, NEW r \in Runs, Writing(r)
  PROVE  \A q \in Runs : Taken(q)'
<1> USE DEF TakenInv, BuildInv, ScriptsInv, Typed, TypeOK, At, Goto
<1>1. UNCHANGED request
  BY DEF Writing, Generate, ModelFails, UseFallback, ValidateContent, RepairScript, asked
<1>2. \A q \in Runs \ {r} : /\ pc'[q] = pc[q] /\ script'[q] = script[q]
                              /\ cacheNote'[q] = cacheNote[q]
  BY DEF Writing, Generate, ModelFails, UseFallback, ValidateContent, RepairScript,
         Take, held
<1>3. pc'[r] \in {"validate", "repair", "store"}
  BY DEF Writing, Generate, ModelFails, UseFallback, ValidateContent, RepairScript
<1>4. Taken(r)'
  BY <1>3 DEF Taken, InUse
<1> QED
  BY <1>1, <1>2, <1>4, TakenStays

LEMMA TakenByApplying ==
  ASSUME TakenInv, NEW r \in Runs, Applying(r)
  PROVE  \A q \in Runs : Taken(q)'
<1> USE DEF TakenInv, BuildInv, ScriptsInv, Typed, TypeOK, At, Goto
<1>1. UNCHANGED <<request, script, cacheNote>>
  BY DEF Applying, OpenFile, WriteFile, ValidateFile, RejectFile, DryRun, Execute,
         ExecuteFails, asked, held
<1>2. pc[r] \in {"write"} \union InUse /\ \A q \in Runs \ {r} : pc'[q] = pc[q]
  BY DEF Applying, OpenFile, WriteFile, ValidateFile, RejectFile, DryRun, Execute,
         ExecuteFails, InUse
<1> QED
  BY <1>1, <1>2, TakenStays

LEMMA TakenStep == TakenInv /\ [Next]_vars => TakenInv'
<1> SUFFICES ASSUME TakenInv, [Next]_vars
             PROVE  TakenInv'
  OBVIOUS
<1>1. BuildInv'
  BY MissedStep DEF TakenInv
<1>2. ASSUME NEW r \in Runs, Raises(r)
      PROVE  \A q \in Runs : Taken(q)'
  <2>1. /\ UNCHANGED <<request, cacheNote>> /\ pc'[r] = "done"
        /\ \A q \in Runs \ {r} : pc'[q] = pc[q] /\ script'[q] = script[q]
    BY <1>2 DEF Raises, Goto, asked, TakenInv, BuildInv, ScriptsInv, Typed, TypeOK
  <2>2. Taken(r)'
    BY <2>1 DEF Taken, InUse
  <2> QED
    BY <2>1, <2>2, TakenStays DEF TakenInv
<1>3. ASSUME (\E k \in Keys : Expire(k)) \/ UNCHANGED vars
      PROVE  \A q \in Runs : Taken(q)'
  <2>1. UNCHANGED <<request, pc, script, cacheNote>>
    BY <1>3 DEF Expire, vars, asked, held
  <2> QED
    BY <2>1, TakenStays DEF TakenInv
<1> QED
  BY <1>1, <1>2, <1>3, TakenByResolution, TakenByWriting, TakenByApplying
  DEF TakenInv, Next, Step

LEMMA ChosenIfTaken == TakenInv => ChosenIsChecked
<1> SUFFICES ASSUME TakenInv, NEW r \in Runs
             PROVE  /\ /\ pc[r] \in {"store", "write"} \union InUse
                       /\ script[r].author = "model" \/ cacheNote[r] = "hit"
                       => ContentIssues(script[r], request[r]) = {}
                    /\ At(r, "store") /\ script[r].author = "model" =>
                         CodeIssues(script[r], request[r]) \subseteq {"sudo"}
  BY DEF ChosenIsChecked
<1> USE DEF TakenInv, BuildInv, ScriptsInv, Formed, At
<1>1. CASE pc[r] = "store"
  <2>1. cacheNote[r] = "miss" /\ Own(r)
    BY <1>1 DEF Missed, Building
  <2>2. script[r].author = "model" =>
          BasicGuard(script[r]) /\ ContentIssues(script[r], request[r]) = {}
    BY <1>1, <2>1 DEF Own
  <2>3. ASSUME BasicGuard(script[r]), ContentIssues(script[r], request[r]) = {}
        PROVE  CodeIssues(script[r], request[r]) \subseteq {"sudo"}
    BY <2>3 DEF BasicGuard, ContentIssues, CodeIssues
  <2> QED
    BY <1>1, <2>1, <2>2, <2>3
<1>2. CASE pc[r] \in {"write"} \union InUse
  BY <1>2 DEF Taken, InUse
<1>3. CASE pc[r] \notin {"store", "write"} \union InUse
  BY <1>3
<1> QED
  BY <1>1, <1>2, <1>3

(* Whatever the cache held at the start and whatever a model writes, a      *)
(* script of a model, or of the cache, that a run goes on with has passed  *)
(* _validate_script_content for that run's request, and what is stored of  *)
(* a model leaves code_validator at most the use of sudo to object to.     *)
THEOREM ChosenAreChecked == Spec => []ChosenIsChecked
<1>1. Init => TakenInv
  BY ScriptsInit DEF Init, TakenInv, Taken, BuildInv, Missed, At, Building, InUse
<1> QED
  BY <1>1, TakenStep, ChosenIfTaken, PTL DEF Spec

(* The stages, by the program counter.                                      *)
Settles(note, s) ==
  IF note = "hit" THEN "skipped"
  ELSE IF s = None \/ s.author = "template" THEN "failed" ELSE "delivered"

LEMMA StageOf ==
  ASSUME NEW r \in Runs
  PROVE  /\ pc[r] \in {"resolve", "generate", "validate"} => Stage(r) = "draft"
         /\ pc[r] = "repair" => Stage(r) = "rejected"
         /\ pc[r] = "store" /\ cacheNote[r] # "hit" /\ script[r] # None =>
              Stage(r) = IF script[r].author = "template" THEN "failed" ELSE "approved"
         /\ pc[r] \in {"write", "done"} \union InUse =>
              Stage(r) = Settles(cacheNote[r], script[r])
BY DEF Stage, Settles, InUse

LEMMA StageOfNext ==
  ASSUME NEW r \in Runs
  PROVE  /\ pc'[r] \in {"resolve", "generate", "validate"} => Stage(r)' = "draft"
         /\ pc'[r] = "repair" => Stage(r)' = "rejected"
         /\ pc'[r] = "store" /\ cacheNote'[r] # "hit" /\ script'[r] # None =>
              Stage(r)' = IF script'[r].author = "template" THEN "failed" ELSE "approved"
         /\ pc'[r] \in {"write", "done"} \union InUse =>
              Stage(r)' = Settles(cacheNote'[r], script'[r])
BY DEF Stage, Settles, InUse

(* One run takes one step of BoundedRepair, or none.                        *)
Moves(r, from, to) == Stage(r) \in from /\ Stage(r)' = to

Advance(r) ==
  \/ Moves(r, {"draft"}, "skipped") /\ round[r] = 0 /\ round' = round
  \/ Moves(r, {"draft"}, "approved") /\ round' = round
  \/ /\ Moves(r, {"draft", "approved"}, "rejected")
     /\ round[r] < MaxRepairs /\ round' = round
  \/ Moves(r, {"rejected"}, "draft") /\ round' = [round EXCEPT ![r] = @ + 1]
  \/ Moves(r, {"approved"}, "delivered") /\ round' = round
  \/ Moves(r, {"draft", "approved", "rejected"}, "failed") /\ round' = round
  \/ Stage(r)' = Stage(r) /\ round' = round

LEMMA FallbackAdvances ==
  ASSUME BuildInv, NEW r \in Runs, UseFallback(r),
         pc[r] \in {"generate", "validate", "repair"}
  PROVE  Advance(r)
<1>1. /\ pc'[r] = "store" /\ script'[r] = Fallback(request[r])
      /\ cacheNote'[r] = "miss" /\ round' = round
  BY DEF BuildInv, ScriptsInv, Typed, TypeOK, UseFallback, Goto, Take, Missed, Building
<1>2. Fallback(request[r]) # None /\ Fallback(request[r]).author = "template"
  BY FallbackIsScript, KeyType DEF BuildInv, ScriptsInv, Typed, Fallback
<1> QED
  BY <1>1, <1>2, StageOf, StageOfNext DEF Advance, Moves

LEMMA ResolutionAdvances ==
  ASSUME BuildInv, NEW r \in Runs, Resolution(r)
  PROVE  Advance(r)
<1> USE DEF BuildInv, ScriptsInv, Typed, TypeOK
<1>1. CASE CacheHit(r)
  <2>1. /\ pc[r] = "resolve" /\ round[r] = 0 /\ round' = round
        /\ pc'[r] = "write" /\ cacheNote'[r] = "hit"
    BY <1>1 DEF CacheHit, At, Goto, Cached, Missed
  <2> QED
    BY <2>1, StageOf, StageOfNext DEF Advance, Moves, Settles
<1>2. CASE CacheMiss(r)
  <2>1. pc[r] = "resolve" /\ pc'[r] = "generate" /\ round' = round
    BY <1>2 DEF CacheMiss, At, Goto
  <2> QED
    BY <2>1, StageOf, StageOfNext DEF Advance
<1>3. CASE CachePut(r)
  <2>1. /\ pc[r] = "store" /\ pc'[r] = "write" /\ cacheNote[r] = "miss"
        /\ script[r] # None
        /\ script' = script /\ cacheNote' = cacheNote /\ round' = round
    BY <1>3 DEF CachePut, At, Goto, held, Missed, Building, Formed, Own
  <2> QED
    BY <2>1, StageOf, StageOfNext DEF Advance, Moves, Settles
<1> QED
  BY <1>1, <1>2, <1>3 DEF Resolution

LEMMA WritingAdvances ==
  ASSUME BuildInv, NEW r \in Runs, Writing(r)
  PROVE  Advance(r)
<1> USE DEF BuildInv, ScriptsInv, Typed, TypeOK
<1>1. CASE Generate(r)
  <2>1. pc[r] = "generate" /\ pc'[r] = "validate" /\ round' = round
    BY <1>1 DEF Generate, At, Goto
  <2> QED
    BY <2>1, StageOf, StageOfNext DEF Advance
<1>2. CASE ModelFails(r)
  BY <1>2, FallbackAdvances DEF ModelFails
<1>3. CASE ValidateContent(r)
  <2>1. CASE UseFallback(r)
    BY <1>3, <2>1, FallbackAdvances DEF ValidateContent, At
  <2>2. CASE ~UseFallback(r)
    <3>1. /\ pc[r] = "validate" /\ cacheNote[r] = "miss"
          /\ script[r] # None /\ script[r].author = "model"
          /\ script' = script /\ cacheNote' = cacheNote /\ round' = round
          /\ \/ pc'[r] = "store"
             \/ pc'[r] = "repair" /\ round[r] < MaxRepairs
      BY <1>3, <2>2 DEF ValidateContent, At, Goto, held, Missed, Building, Formed, Own
    <3> QED
      BY <3>1, StageOf, StageOfNext DEF Advance, Moves
  <2> QED
    BY <2>1, <2>2
<1>4. CASE RepairScript(r)
  <2>1. /\ pc[r] = "repair" /\ pc'[r] = "validate"
        /\ round' = [round EXCEPT ![r] = @ + 1]
    BY <1>4 DEF RepairScript, At, Goto
  <2> QED
    BY <2>1, StageOf, StageOfNext DEF Advance, Moves
<1> QED
  BY <1>1, <1>2, <1>3, <1>4 DEF Writing

LEMMA ApplyingAdvances ==
  ASSUME BuildInv, NEW r \in Runs, Applying(r) \/ Raises(r)
  PROVE  Advance(r)
<1> USE DEF BuildInv, ScriptsInv, Typed, TypeOK
<1>1. CASE Applying(r)
  <2>1. /\ pc[r] \in {"write"} \union InUse /\ pc'[r] \in {"done"} \union InUse
        /\ script' = script /\ cacheNote' = cacheNote /\ round' = round
    BY <1>1 DEF Applying, OpenFile, WriteFile, ValidateFile, RejectFile, DryRun,
                Execute, ExecuteFails, At, Goto, held, InUse
  <2> QED
    BY <2>1, StageOf, StageOfNext DEF Advance
<1>2. CASE Raises(r)
  <2>1. pc'[r] = "done" /\ cacheNote' = cacheNote /\ round' = round
    BY <1>2 DEF Raises, Goto
  <2>2. CASE pc[r] \in {"generate", "repair"}
    <3>1. script'[r] = None /\ cacheNote[r] = "miss"
      BY <1>2, <2>2 DEF Raises, Missed, Building
    <3> QED
      BY <2>1, <2>2, <3>1, StageOf, StageOfNext DEF Advance, Moves, Settles
  <2>3. CASE pc[r] \in {"write", "flush", "check"}
    <3>1. script'[r] = script[r]
      BY <1>2, <2>3 DEF Raises, Building
    <3> QED
      BY <2>1, <2>3, <3>1, StageOf, StageOfNext DEF Advance, InUse
  <2> QED
    BY <1>2, <2>2, <2>3 DEF Raises
<1> QED
  BY <1>1, <1>2

LEMMA OthersStay ==
  ASSUME BuildInv, NEW r \in Runs, Step(r), NEW q \in Runs \ {r}
  PROVE  Stage(q)' = Stage(q)
<1>1. pc'[q] = pc[q] /\ script'[q] = script[q] /\ cacheNote'[q] = cacheNote[q]
  BY DEF Step, Resolution, Writing, Applying, CacheHit, CacheMiss, CachePut, Generate,
         ModelFails, ValidateContent, RepairScript, UseFallback, OpenFile, WriteFile,
         ValidateFile, RejectFile, DryRun, Execute, ExecuteFails, Raises, Goto, Take,
         Cached, held, BuildInv, ScriptsInv, Typed, TypeOK
<1> QED
  BY <1>1 DEF Stage

LEMMA BuildStep == BuildInv /\ [Next]_vars => [Build!Next]_(Build!vars)
<1> SUFFICES ASSUME BuildInv, [Next]_vars
             PROVE  [Build!Next]_(Build!vars)
  OBVIOUS
<1> DEFINE stages == [r \in Runs |-> Stage(r)]
<1>1. ASSUME NEW r \in Runs, Step(r)
      PROVE  [Build!Next]_(Build!vars)
  <2>1. Advance(r)
    BY <1>1, ResolutionAdvances, WritingAdvances, ApplyingAdvances DEF Step
  <2>2. stages' = [stages EXCEPT ![r] = Stage(r)']
    BY <1>1, OthersStay
  <2>3. stages[r] = Stage(r)
    OBVIOUS
  <2> HIDE DEF stages
  <2>4. CASE Stage(r)' = Stage(r) /\ round' = round
    <3>1. stages' = stages
      BY <2>2, <2>3, <2>4 DEF stages
    <3> QED
      BY <2>4, <3>1 DEF Build!vars, stages
  <2>5. CASE ~(Stage(r)' = Stage(r) /\ round' = round)
    <3>1. Build!Step(r)
      BY <2>1, <2>2, <2>3, <2>5 DEF Advance, Moves, Build!Step, Build!Skip,
         Build!Approve, Build!Reject, Build!Revise, Build!Deliver, Build!Fail,
         Build!Move, stages
    <3> QED
      BY <3>1 DEF Build!Next
  <2> QED
    BY <2>4, <2>5
<1>2. ASSUME (\E k \in Keys : Expire(k)) \/ UNCHANGED vars
      PROVE  UNCHANGED Build!vars
  <2>1. pc' = pc /\ script' = script /\ cacheNote' = cacheNote /\ round' = round
    BY <1>2 DEF Expire, vars, held
  <2>2. \A r \in Runs : Stage(r)' = Stage(r)
    BY <2>1 DEF Stage
  <2> QED
    BY <2>1, <2>2 DEF Build!vars
<1> QED
  BY <1>1, <1>2 DEF Next

(* The writing of a script is a bounded repair: what a model wrote is       *)
(* approved before it is stored, revised only after it was rejected, and   *)
(* at most _MAX_REPAIR times.                                              *)
THEOREM ScriptIsABoundedRepair == Spec => ImplementsBoundedRepair
<1>1. Init => BuildInv
  BY ScriptsInit DEF Init, BuildInv, Missed, At, Building
<1>2. Init => Build!Init
  <2> SUFFICES ASSUME Init
               PROVE  Build!Init
    OBVIOUS
  <2>1. \A r \in Runs : Stage(r) = "draft"
    BY StageOf DEF Init
  <2> QED
    BY <2>1 DEF Init, Build!Init
<1> QED
  BY <1>1, <1>2, MissedStep, BuildStep, PTL DEF Spec, ImplementsBoundedRepair, Build!Safety
------------------------------------------------------------------------------
(* Every run runs out of steps.                                            *)

(* The steps run r has left at most.  A round of the repair loop takes two *)
(* of them, and there are MaxRepairs rounds.                               *)
StepsLeft(r) ==
  CASE At(r, "resolve")  -> 2 * MaxRepairs + 8
    [] At(r, "generate") -> 2 * MaxRepairs + 7
    [] At(r, "validate") -> 2 * (MaxRepairs - round[r]) + 6
    [] At(r, "repair")   -> 2 * (MaxRepairs - round[r]) + 5
    [] At(r, "store")    -> 5
    [] At(r, "write")    -> 4
    [] At(r, "flush")    -> 3
    [] At(r, "check")    -> 2
    [] At(r, "ssh")      -> 1
    [] At(r, "done")     -> 0

(* A step of a run takes it nearer to its end, whatever the model, the     *)
(* disk and the host answer, and nobody takes a run back.                  *)
Nearer ==
  \A r \in Runs :
    /\ Step(r) => StepsLeft(r)' < StepsLeft(r)
    /\ UNCHANGED <<pc[r], round[r]>> \/ StepsLeft(r)' < StepsLeft(r)

LEMMA StepsLeftOf ==
  ASSUME NEW r \in Runs
  PROVE  /\ At(r, "resolve")  => StepsLeft(r) = 2 * MaxRepairs + 8
         /\ At(r, "generate") => StepsLeft(r) = 2 * MaxRepairs + 7
         /\ At(r, "validate") => StepsLeft(r) = 2 * (MaxRepairs - round[r]) + 6
         /\ At(r, "repair")   => StepsLeft(r) = 2 * (MaxRepairs - round[r]) + 5
         /\ At(r, "store")    => StepsLeft(r) = 5
         /\ At(r, "write")    => StepsLeft(r) = 4
         /\ At(r, "flush")    => StepsLeft(r) = 3
         /\ At(r, "check")    => StepsLeft(r) = 2
         /\ At(r, "ssh")      => StepsLeft(r) = 1
         /\ At(r, "done")     => StepsLeft(r) = 0
BY DEF StepsLeft, At

LEMMA StepsAreCounted ==
  ASSUME Typed, NEW r \in Runs
  PROVE  /\ StepsLeft(r) \in 0..(2 * MaxRepairs + 8)
         /\ StepsLeft(r) = 0 <=> At(r, "done")
<1> DEFINE n == StepsLeft(r)
<1> HIDE DEF n
<1>1. MaxRepairs \in Nat /\ pc[r] \in Points /\ round[r] \in 0..MaxRepairs
  BY DEF Typed, TypeOK
<1>2. CASE At(r, "done")
  BY <1>2, <1>1, StepsLeftOf
<1>3. CASE pc[r] # "done"
  <2>1. n \in 1..(2 * MaxRepairs + 8)
    BY <1>1, <1>3, StepsLeftOf DEF n, At, Points, Building, InUse
  <2> QED
    BY <1>3, <2>1 DEF n, At
<1> QED
  BY <1>2, <1>3 DEF At

LEMMA OthersWait ==
  ASSUME Typed, NEW r \in Runs, Step(r), NEW q \in Runs \ {r}
  PROVE  UNCHANGED <<pc[q], round[q]>>
<1> USE DEF Typed, TypeOK, Goto, held
<1>1. CASE Resolution(r)
  BY <1>1 DEF Resolution, CacheHit, CacheMiss, CachePut
<1>2. CASE Writing(r)
  BY <1>2 DEF Writing, Generate, ModelFails, UseFallback, ValidateContent, RepairScript
<1>3. CASE Applying(r)
  BY <1>3 DEF Applying, OpenFile, WriteFile, ValidateFile, RejectFile, DryRun,
              Execute, ExecuteFails
<1>4. CASE Raises(r)
  BY <1>4 DEF Raises
<1> QED
  BY <1>1, <1>2, <1>3, <1>4 DEF Step

LEMMA StepNears ==
  ASSUME Typed, NEW r \in Runs, Step(r)
  PROVE  StepsLeft(r)' < StepsLeft(r)
<1> DEFINE p == pc[r]
           k == round[r]
<1>1. /\ MaxRepairs \in Nat
      /\ p \in Points
      /\ k \in 0..MaxRepairs
      /\ pc \in [Runs -> Points]
      /\ round \in [Runs -> 0..MaxRepairs]
      /\ p = "repair" => k < MaxRepairs
  BY DEF Typed, TypeOK, BudgetLeft
<1> USE DEF Goto, held, At, StepsLeft, Points, Building, InUse
<1>2. CASE Resolution(r)
  BY <1>1, <1>2 DEF Resolution, CacheHit, CacheMiss, CachePut
<1>3. CASE Generate(r)
  BY <1>1, <1>3 DEF Generate
<1>4. CASE ModelFails(r)
  BY <1>1, <1>4 DEF ModelFails, UseFallback
<1>5. CASE ValidateContent(r)
  BY <1>1, <1>5 DEF ValidateContent, UseFallback
<1>6. CASE RepairScript(r)
  BY <1>1, <1>6 DEF RepairScript
<1>7. CASE Applying(r)
  BY <1>1, <1>7 DEF Applying, OpenFile, WriteFile, ValidateFile, RejectFile, DryRun,
              Execute, ExecuteFails
<1>8. CASE Raises(r)
  BY <1>1, <1>8 DEF Raises
<1> QED
  BY <1>2, <1>3, <1>4, <1>5, <1>6, <1>7, <1>8 DEF Step, Writing

(* A run of the agent takes at most 2 * MaxRepairs + 8 steps, for every    *)
(* budget and whatever the other runs do; it has none left exactly when it *)
(* has reached its end.  (That a run never gets stuck before, the other    *)
(* half of EveryRunEnds, is TLC's.)                                        *)
THEOREM StepsRunOut ==
  Spec => [][/\ \A r \in Runs : /\ StepsLeft(r) \in 0..(2 * MaxRepairs + 8)
                                /\ StepsLeft(r) = 0 <=> At(r, "done")
             /\ Nearer]_vars
<1>1. Typed /\ [Next]_vars => [/\ \A r \in Runs :
                                    /\ StepsLeft(r) \in 0..(2 * MaxRepairs + 8)
                                    /\ StepsLeft(r) = 0 <=> At(r, "done")
                               /\ Nearer]_vars
  <2> SUFFICES ASSUME Typed, Next
               PROVE  Nearer
    BY StepsAreCounted
  <2>1. ASSUME NEW q \in Runs, Step(q) PROVE Nearer
    BY <2>1, OthersWait, StepNears DEF Nearer
  <2>2. ASSUME NEW k \in Keys, Expire(k) PROVE Nearer
    BY <2>2, StepNears DEF Expire, Nearer, held
  <2> QED
    BY <2>1, <2>2 DEF Next
<1> QED
  BY <1>1, TypeInit, TypeStep, PTL DEF Spec
=============================================================================
