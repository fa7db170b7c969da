---------------------------- MODULE MCConfigPush ----------------------------
(***************************************************************************)
(* ConfigPush for TLC.  The deliveries are interchangeable.                *)
(***************************************************************************)
EXTENDS ConfigPush, TLC

BothRevisions == [fppconnect |-> 1, audio |-> 3]
FPPConnectRevisions == [fppconnect |-> 2]
AudioRevisions == [audio |-> 2]

DeliverySymmetry == Permutations(Deliveries)
=============================================================================
