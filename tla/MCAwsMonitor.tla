---------------------------- MODULE MCAwsMonitor ----------------------------
(* A job of load balancers, with their resources and metrics, for AwsMonitor. *)
EXTENDS AwsMonitor, TLC

MCJob == "alb" :> [searchTags |-> [Name |-> {"x"}, Env |-> {"y"}], exportedTags |-> {"Name"},
                   length |-> 0, delay |-> 1, rounding |-> NotConfigured]
OneMetric ==
    <<"alb", "Requests">> :> [stats |-> {"Sum"}, period |-> 2, length |-> 4, timestamp |-> FALSE]
TwoMetrics == OneMetric @@
    <<"alb", "Errors">> :> [stats |-> {"Maximum"}, period |-> 2, length |-> 2, timestamp |-> TRUE]

Elb(dim, val, t) == [dim |-> dim, value |-> val, types |-> {"alb"}, tags |-> t]
\* lb2 lacks a tag.
MCResource ==
    "lb1" :> Elb("LoadBalancer", "1", [Name |-> "x", Env |-> "y"]) @@
    "lb2" :> Elb("LoadBalancer", "2", [Name |-> "x"]) @@
    "tg1" :> Elb("TargetGroup", "1", [Name |-> "x", Env |-> "y"])

Of(n, d) == [type |-> "alb", name |-> n, dims |-> d]
MCCw ==
    "plain" :> Of("Requests", [LoadBalancer |-> "1"]) @@
    "zone" :> Of("Requests", [LoadBalancer |-> "1", AvailabilityZone |-> "a"]) @@
    "zone2" :> Of("Requests", [LoadBalancer |-> "1", AvailabilityZone |-> "b"]) @@
    "other" :> Of("Requests", [LoadBalancer |-> "2"]) @@
    "errors" :> Of("Errors", [LoadBalancer |-> "1"]) @@
    "target" :> Of("Requests", [LoadBalancer |-> "1", TargetGroup |-> "1"])

All == [res |-> {"lb1", "lb2"}, cw |-> {"plain", "zone", "zone2", "other", "errors"}, silent |-> {}]
Changing == {All, [All EXCEPT !.res = {"lb2"}, !.cw = {"errors"}, !.silent = {"errors"}]}
Growing == {[All EXCEPT !.cw = {"plain"}], All}
Targeted == {[res |-> {"lb1", "tg1"}, cw |-> {"target"}, silent |-> {}]}
=============================================================================
