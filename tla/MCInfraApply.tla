---------------------------- MODULE MCInfraApply ----------------------------
(* Finite instances of InfraApply for TLC.                                 *)
EXTENDS InfraApply

CONSTANTS r1, r2, host

TwoRuns == {r1, r2}

Server(family, version, sudo, pasted) ==
  [host |-> host, family |-> family, linux |-> TRUE,
   components |-> {"tomcat", "java"}, versions |-> [c \in {"tomcat"} |-> version],
   sudo |-> sudo, pasted |-> pasted]

(* They resolve to one version.  The first two have one key and another     *)
(* package of Java; the third may not use sudo, and its words spoil the     *)
(* deterministic script.                                                   *)
SomeRequests ==
  {Server("amazon", <<10>>, "yes", {}), Server("redhat", <<10, 1>>, "yes", {}),
   Server("amazon", <<10, 1>>, "no", {"malformed"})}

SomeDrafts == {{"omits"}, {"sudo"}, {"unsafe"}}

(* The runs may change places, so that one of them may use sudo; two that  *)
(* may not differ from two that may in what the file's check says alone.   *)
(* An old entry no longer passes the content checks, or the file's check;  *)
(* one that passes both is what the runs store themselves.  A dry run,     *)
(* different at its end only, begins without old entries.                  *)
MCInit ==
  /\ Init
  /\ request[r1].sudo = "yes"
  /\ \A k \in Keys :
       cache[k] # None =>
         /\ ~dryRun
         /\ cache[k].traits = IF cache[k].of.sudo = "yes" THEN {"unsafe"} ELSE {"omits"}
  /\ dryRun => request[r1] = request[r2]

MCSpec == MCInit /\ [][Next]_vars /\ Fairness
=============================================================================
