-------------------------- MODULE ExporterProcess --------------------------
(***************************************************************************)
(* The life of one exporter process: it starts (Startup), and then answers *)
(* the requests that ask the provider themselves, those of the health      *)
(* collector and those of the bucket collector.  A fatal error anywhere    *)
(* ends it, with the counters and the requests, and it starts again.  The  *)
(* two collectors share nothing but the process, so that a behaviour with  *)
(* the requests of one of them shows all that can happen to it.            *)
(***************************************************************************)
EXTENDS Startup, HealthCollector, BucketCollector

VARIABLE endpoint \* what Prometheus asks for

processVars == <<startupVars, healthVars, bucketVars, endpoint>>

Init ==
    /\ StartupInit /\ HealthInit /\ BucketInit
    /\ endpoint \in {"/metrics", "/bucket"}

Start == Starting /\ UNCHANGED <<healthVars, bucketVars, endpoint>>

Rotation == Rotate /\ UNCHANGED <<healthVars, bucketVars, endpoint>>

HealthRequest ==
    /\ phase = "running" /\ endpoint = "/metrics"
    /\ HealthStep(conf.provider)
    /\ UNCHANGED <<startupVars, bucketVars, endpoint>>

BucketRequest ==
    /\ phase = "running" /\ endpoint = "/bucket"
    /\ BucketStep(conf.provider)
    /\ UNCHANGED <<startupVars, healthVars, endpoint>>

\* log.Fatal in a collector, or the container is stopped.
Die ==
    /\ phase = "running"
    /\ \/ HealthIsFatal
       \/ BucketIsFatal(conf.provider)
       \/ (\A q \in HealthRequests : health[q].pc = "idle") /\ listing.pc = "idle"
    /\ Exit
    /\ feed' = NoEvents /\ counters' = NoCounters
    /\ health' = [q \in HealthRequests |-> IdleHealth]
    /\ EndListing
    /\ UNCHANGED endpoint

Next == Start \/ Rotation \/ HealthRequest \/ BucketRequest \/ Die

Spec == Init /\ [][Next]_processVars

\* Vault answers or refuses, delays end, constructors return.
FairSpec == Spec /\ WF_processVars(Start)

-----------------------------------------------------------------------------
(* Properties *)

\* The variables of the three parts have their shapes.
TypeOK ==
    /\ StartupTypeOK /\ HealthTypeOK /\ BucketTypeOK
    /\ endpoint \in {"/metrics", "/bucket"}

\* What each collector promises of its responses, for the provider of the process.
HealthResponse  == ResponseIsAnswer(conf.provider)
ConcurrentResponse == EachResponseIsAnswer(conf.provider)
BucketResponse  == StableBucketIsSummed /\ UntouchedObjectsAreCounted
AliEventCounts  == EventCountsOnce(conf.provider)
LastBackupDate  == DateOfLastIsExported(conf.provider)
=============================================================================
