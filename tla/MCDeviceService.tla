-------------------------- MODULE MCDeviceService --------------------------
(* Small instances of DeviceService: two addresses and two devices, one of *)
(* which comes back under the other's address.                             *)
EXTENDS DeviceService

CONSTANTS a1, a2, i1, i2

MCRadio    == {<<a1, i1>>, <<a2, i2>>, <<a2, i1>>}
MCTwo      == {<<a1, i1>>, <<a2, i2>>}
=============================================================================
