--------------------------- MODULE MCWeatherDelay ---------------------------
(***************************************************************************)
(* WeatherDelay for TLC: one node, two requests side by side.              *)
(***************************************************************************)
EXTENDS WeatherDelay
=============================================================================
