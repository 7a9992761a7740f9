----------------------------- MODULE MCGcpQuota -----------------------------
(***************************************************************************)
(* Instances of GcpQuota for TLC.  Every region lists addresses, as        *)
(* compute.googleapis.com does for STATIC_ADDRESSES.                       *)
(***************************************************************************)
EXTENDS GcpQuota

CONSTANTS networks, addresses, east

Reading(current, limit) == [current |-> current, limit |-> limit]
FewReadings == {Reading(0, 1), Reading(1, 1), Reading(2, 2)}

RegionList == <<[metric |-> addresses, region |-> Home],
                [metric |-> addresses, region |-> east]>>
HomeList == <<[metric |-> addresses, region |-> Home]>>
ProjectOnly == <<[metric |-> networks, region |-> NoRegion]>>
=============================================================================
