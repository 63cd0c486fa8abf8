----------------------------- MODULE MCDeviceSync -----------------------------
(* A finite instance of DeviceSync. *)
EXTENDS DeviceSync
=============================================================================
