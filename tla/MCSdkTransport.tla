--------------------------- MODULE MCSdkTransport ---------------------------
(* Instances of SdkTransport for TLC. *)
EXTENDS SdkTransport
=============================================================================
