------------------------- MODULE MCExporterProcess -------------------------
(***************************************************************************)
(* Instances of ExporterProcess for TLC.                                   *)
(***************************************************************************)
EXTENDS ExporterProcess

\* A small and a large backup of one date, and a small one that is newer.
FewBackups == {[size |-> 1, date |-> 1], [size |-> 2, date |-> 1], [size |-> 1, date |-> 2]}
OneBackup == {[size |-> 1, date |-> 1]}
=============================================================================
