---------------------------- MODULE MCProviders -----------------------------
(***************************************************************************)
(* What stands beside the correlation gate: its position providers         *)
(* (SimProvider, BrokerProvider with its health monitor) and its security  *)
(* helpers (GateSecurity).  They share no state; a behaviour exercises one *)
(* of them.                                                                *)
(***************************************************************************)
EXTENDS SimProvider, BrokerProvider, GateSecurity

VARIABLE part

providerVars == <<part, simVars, brokerVars, healthVars, guardVars, auditVars>>

ProvidersInit ==
  /\ part \in {"simulator", "broker", "health", "guard", "audit"}
  /\ SimInit /\ BrokerInit /\ HealthInit /\ GuardInit /\ AuditInit
  /\ part # "broker" => ~wrapped

ProvidersNext ==
  /\ UNCHANGED part
  /\ \/ part = "simulator" /\ SimNext /\ UNCHANGED <<brokerVars, healthVars, guardVars, auditVars>>
     \/ part = "broker" /\ BrokerNext /\ UNCHANGED <<simVars, healthVars, guardVars, auditVars>>
     \/ part = "health" /\ HealthNext /\ UNCHANGED <<simVars, brokerVars, guardVars, auditVars>>
     \/ part = "guard" /\ GuardNext /\ UNCHANGED <<simVars, brokerVars, healthVars, auditVars>>
     \/ part = "audit" /\ AuditNext /\ UNCHANGED <<simVars, brokerVars, healthVars, guardVars>>

\* The threads of the audit log run.
AuditFairness == /\ WF_auditVars(part = "audit" /\ WriterStep)
                 /\ WF_auditVars(part = "audit" /\ CloserStep)

ProvidersSpec == ProvidersInit /\ [][ProvidersNext]_providerVars /\ SimFairness /\ AuditFairness

\* Positions and health are those of the moment: subscribers are told the
\* portfolio as it is, a provider listens while somebody is subscribed, stale
\* positions are returned only by a call that failed, and health is that of the
\* last operations.
PositionsCurrent == ToldCurrent /\ ListensWhileSubscribed /\ FreshOrFailed /\ HealthOfRecent

\* The simulator's calls end, unless two of them wait for each other's lock, and
\* entries of the audit log leave the queue.
ProvidersReturn == SimCallsEnd /\ EntriesLeave
=============================================================================
