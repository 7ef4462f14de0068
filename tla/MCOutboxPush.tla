---------------------------- MODULE MCOutboxPush ----------------------------
(***************************************************************************)
(* Instances of OutboxPush for TLC.                                        *)
(***************************************************************************)
EXTENDS OutboxPush, TLC

CONSTANTS a, b, c, v, w

MCRecord == {a, b, c}
MCVault == {v, w}

(* Two records in one vault; b's versions are large.                       *)
MCHome == a :> v @@ b :> w @@ c :> v
MCBytes == a :> 1 @@ b :> 2 @@ c :> 1
===============================================================================
