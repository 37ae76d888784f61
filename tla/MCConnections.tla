--------------------------- MODULE MCConnections ---------------------------
(* Two workers: one with more threads than connections, where a search meets *)
(* a health check, and one with as many, where an upload executes statement  *)
(* after statement.  Two faults are an outage and a crash, or an outage of   *)
(* the store and one of Redis.                                               *)
EXTENDS Connections, TLC

CONSTANTS wa, wb, search, health, upload

Capacities == wa :> 1 @@ wb :> 1
Executors == wa :> 2 @@ wb :> 1
Places == search :> wa @@ health :> wa @@ upload :> wb
Kinds == search :> "search" @@ health :> "health" @@ upload :> "upload"
Lengths == search :> 1 @@ health :> 1 @@ upload :> 2
=============================================================================
