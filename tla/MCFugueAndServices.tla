------------------------- MODULE MCFugueAndServices -------------------------
(***************************************************************************)
(* In one run, replicas that exchange operations (FugueReplicas) and the   *)
(* services of MCServices.  They share no state: a behaviour exercises one *)
(* of them, and the others have nothing to do.                             *)
(***************************************************************************)
EXTENDS MCFugueReplicas, MCServices

VARIABLE part

PartsInit ==
  /\ part \in {"replicas", "services"}
  /\ Init
  /\ ServicesInit
  /\ part # "services" => service = "pool"

PartsNext ==
  /\ UNCHANGED part
  /\ IF part = "replicas" THEN Next ELSE UNCHANGED vars
  /\ IF part = "services" THEN ServicesNext ELSE UNCHANGED servicesVars

PartsSpec ==
  /\ PartsInit
  /\ [][PartsNext]_<<part, vars, servicesVars>>
  /\ DeliveryFairness
  /\ ServicesFairness
=============================================================================
