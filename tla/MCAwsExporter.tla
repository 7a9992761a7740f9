--------------------------- MODULE MCAwsExporter ---------------------------
(***************************************************************************)
(* Instances of AwsExporter for TLC.                                       *)
(***************************************************************************)
EXTENDS AwsExporter, TLC

\* Slots and requests are interchangeable.
Symmetric == Permutations(Scrapes) \cup Permutations(Collectors)
=============================================================================
