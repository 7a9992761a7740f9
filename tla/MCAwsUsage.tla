----------------------------- MODULE MCAwsUsage -----------------------------
(* An account of three items in two zones for AwsUsage. *)
EXTENDS AwsUsage

MCKeys == 1 .. 3
MCSubnets == {"a1", "b1"}
MCZoneOf == [s \in MCSubnets |-> IF s = "a1" THEN "a" ELSE "b"]
MCSizes == {1, 3}
=============================================================================
