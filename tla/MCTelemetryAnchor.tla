------------------------- MODULE MCTelemetryAnchor -------------------------
(* TelemetryAnchor on small instances; see the .cfg files. *)
EXTENDS TelemetryAnchor

AllReports == Report
=============================================================================
