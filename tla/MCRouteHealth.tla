--------------------------- MODULE MCRouteHealth ----------------------------
(* Instances of RouteHealth for TLC. *)
EXTENDS RouteHealth
=============================================================================
