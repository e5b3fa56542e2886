---------------------------- MODULE MCTimeSeries ----------------------------
(* Model-checking instance of TimeSeries. *)
EXTENDS TimeSeries
=============================================================================
