--------------------------- MODULE MCEventManager ---------------------------
(* Small instances of EventManager for TLC.                                *)
EXTENDS EventManager, TLC

CONSTANTS t1, t2

TwoConsumers == {t1, t2}
OneEach      == t1 :> 1 @@ t2 :> 1
TwoAndOne    == t1 :> 2 @@ t2 :> 1
=============================================================================
