---------------------------- MODULE MCDeviceOps ----------------------------
(***************************************************************************)
(* TLC instances of DeviceOps.                                             *)
(***************************************************************************)
EXTENDS DeviceOps

\* A task over all switches, or over one of them.
AllOrOne == {Switches} \cup {{s} : s \in Switches}
=============================================================================
