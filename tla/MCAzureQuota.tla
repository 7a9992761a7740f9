---------------------------- MODULE MCAzureQuota ----------------------------
(***************************************************************************)
(* Instances of AzureQuota for TLC.                                        *)
(***************************************************************************)
EXTENDS AzureQuota, TLC

CONSTANTS network, storage, vnets

Reading(current, limit) == [current |-> current, limit |-> limit]
FewReadings == {Reading(0, 1), Reading(1, 1), Reading(2, 2)}
ManyReadings == {Reading(0, 1), Reading(1, 1), Reading(2, 2), Reading(1, Unlimited)}

OnePage == network :> {vnets} @@ storage :> {}

\* Slots are interchangeable.
Symmetric == Permutations(Scrapes)
=============================================================================
