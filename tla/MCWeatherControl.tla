-------------------------- MODULE MCWeatherControl --------------------------
(***************************************************************************)
(* WeatherControl for TLC: four requests, two at a time, about two         *)
(* questions and one player.                                               *)
(***************************************************************************)
EXTENDS WeatherControl
=============================================================================
