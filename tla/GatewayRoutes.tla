---------------------------- MODULE GatewayRoutes ---------------------------
(* What the modules of the gateway share: the routes that requests are       *)
(* planned over (GatewayRequest), and that go in and out of rotation         *)
(* (RouteHealth).                                                            *)
CONSTANTS
  Routes, \* gateway_routes
  Null    \* SQL NULL, or a field without a value
=============================================================================
