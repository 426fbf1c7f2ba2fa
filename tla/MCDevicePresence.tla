-------------------------- MODULE MCDevicePresence --------------------------
(* Small instances of DevicePresence: two reports about one device, or one *)
(* about each of two devices, which may be deleted during a sweep.         *)
EXTENDS DevicePresence, TLC

CONSTANTS d1, d2, b1, b2

AllOfOne == [b \in Beat |-> d1]
Alike == Permutations(Beat) \cup Permutations(Sweep)

OneEach == [b \in Beat |-> IF b = b2 THEN d2 ELSE d1]
=============================================================================
