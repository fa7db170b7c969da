----------------------------- MODULE MCMacroRun -----------------------------
(***************************************************************************)
(* MacroRun for TLC, in two settings.                                      *)
(*                                                                         *)
(* Admission: callers race to submit two revisions of one macro, each of a *)
(* single step, so that what is explored is who gets a run.                *)
(*                                                                         *)
(* Execution: one run of one of three scripts, which between them use      *)
(* every integration, both policies on both axes, and an FPP step before,  *)
(* between and after steps of other integrations.                          *)
(***************************************************************************)
EXTENDS MacroRun, TLC

Step(integration, onFailure, onUnconfirmed) ==
  [integration |-> integration, onFailure |-> onFailure, onUnconfirmed |-> onUnconfirmed]

AdmissionMacros == {"open1", "open2"}
AdmissionObject == [m \in AdmissionMacros |-> "open"]
AdmissionScript ==
  [m \in AdmissionMacros |-> <<Step("audio", "continue", "continue")>>]

AdmissionSymmetry == Permutations(RunIds) \cup Permutations(Submitters)

ExecutionMacros == {"open", "close", "panic"}
ExecutionObject == [m \in ExecutionMacros |-> m]
ExecutionScript ==
  [m \in ExecutionMacros |->
     CASE m = "open" -> <<Step("fpp", "continue", "abort"),
                          Step("mqtt", "abort", "continue"),
                          Step("audio", "continue", "continue")>>
       [] m = "close" -> <<Step("resolume", "abort", "abort"),
                           Step("fpp", "abort", "continue"),
                           Step("fpp", "continue", "continue")>>
       [] m = "panic" -> <<Step("audio", "abort", "continue"),
                           Step("fpp", "continue", "continue")>>]
=============================================================================
