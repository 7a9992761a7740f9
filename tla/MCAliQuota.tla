----------------------------- MODULE MCAliQuota -----------------------------
(***************************************************************************)
(* Instances of AliQuota for TLC.                                          *)
(***************************************************************************)
EXTENDS AliQuota, TLC

CONSTANTS ecs, slb, vcpus, balancers

Reading(current, limit) == [current |-> current, limit |-> limit]
ProductList == <<ecs, slb>>
FewAnswers == ecs :> <<vcpus>> @@ slb :> <<balancers>>
FewReadings ==
    vcpus :> {Reading(0, 1), Reading(1, 1), Reading(2, 2)} @@ balancers :> {Reading(0, 1)}

Symmetric == Permutations(Requests)
=============================================================================
