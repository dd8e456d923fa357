------------------------- MODULE MCWebSocketServer -------------------------
(***************************************************************************)
(* WebSocketServer for TLC: two clients, so that push_back finds one       *)
(* connection being served and moves the storage, and two messages, which  *)
(* have an order.                                                          *)
(***************************************************************************)
EXTENDS WebSocketServer

CONSTANTS p1, p2
MCPeers == {p1, p2}
=============================================================================
