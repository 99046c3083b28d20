----------------------------- MODULE MCWsClient -----------------------------
(* Small sets of calls on one client.                                      *)
EXTENDS WsClient, TLC

CONSTANTS r1, r2, r3, u1

(* Two calls on one URL.                                                   *)
MCPairUrlOf == r1 :> u1 @@ r2 :> u1

(* Three calls on one URL: the connection is opened, shared, closed and    *)
(* opened again.                                                           *)
MCSameUrlOf == r1 :> u1 @@ r2 :> u1 @@ r3 :> u1
=============================================================================
