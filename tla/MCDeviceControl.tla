--------------------------- MODULE MCDeviceControl ---------------------------
(* DeviceControl on small instances *)
EXTENDS DeviceControl, TLC

\* devices, ids and request slots are only compared for equality
Symmetry == Permutations(Device) \cup Permutations(Command) \cup Permutations(Request)
=============================================================================
