------------------------------- MODULE Broker -------------------------------
(***************************************************************************)
(* The limiters and the service registry together.  They share no state,   *)
(* so a behaviour is about one of them, chosen at the start, instead of    *)
(* every combination.                                                      *)
(***************************************************************************)
EXTENDS Admission, ServiceRegistry

VARIABLE part

brokerVars == <<admissionVars, registryVars, part>>

\* Types of both.
BrokerTypeOK == AdmissionTypeOK /\ RegistryTypeOK

BrokerInit == /\ AdmissionInit /\ RegistryInit
              /\ part \in {"concurrency", "fair", "capacity", "registry"}

BrokerNext ==
  /\ part' = part
  /\ \/ part = "concurrency" /\ ConcurrencyNext /\ UNCHANGED registryVars
     \/ part = "fair" /\ FairNext /\ UNCHANGED registryVars
     \/ part = "capacity" /\ CapacityNext /\ UNCHANGED registryVars
     \/ part = "registry" /\ RegistryNext /\ UNCHANGED admissionVars

BrokerSpec == BrokerInit /\ [][BrokerNext]_brokerVars
=============================================================================
