---------------------------- MODULE MCSupervisorRun ----------------------------
(* Finite instances of SupervisorRun for TLC.                              *)
EXTENDS SupervisorRun, FiniteSets

RuledHere == {"apache", "tomcat"}

(* At most two texts are left blank; the rest of the form in every way.      *)
SomeEntries == {e \in Entry : Cardinality(Texts \ e.texts) <= 2}

Complete ==
  [targets |-> <<Login>>, components |-> {"tomcat"},
   versions |-> [c \in {"tomcat", "java"} |-> "given"],
   instances |-> [c \in RuledHere |-> 1], framework |-> "given", apps |-> 1,
   java |-> TRUE, baseDir |-> TRUE, credentials |-> {}]

(* Complete ones first, then one for each gap.                             *)
SomeRequests ==
  {Complete,
   [Complete EXCEPT !.framework = ""],                      \* UserRequest's default
   [Complete EXCEPT !.framework = "none"],
   [Complete EXCEPT !.apps = 0],
   [Complete EXCEPT !.components = {}, !.versions = [c \in {} |-> ""]],
   [Complete EXCEPT !.versions["tomcat"] = "None"],
   [Complete EXCEPT !.versions["tomcat"] = "none"],
   [Complete EXCEPT !.versions["java"] = ""],
   [Complete EXCEPT !.versions = [c \in {} |-> ""]],
   [Complete EXCEPT !.components = {}, !.framework = ""],
   [Complete EXCEPT !.targets = <<>>],
   [Complete EXCEPT !.targets = <<Login, Login \ {"auth_ref"}>>],
   [Complete EXCEPT !.baseDir = FALSE]}

(* A request sent to the API owes nothing to the form, so it is only sent  *)
(* while nobody has touched that.                                          *)
MCNext == EditForm \/ Submit \/ (FormInit /\ Receive) \/ Step

MCSpec == Init /\ [][MCNext]_vars /\ WF_vars(Step)
=============================================================================
