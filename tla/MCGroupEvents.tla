--------------------------- MODULE MCGroupEvents ---------------------------
(***************************************************************************)
(* Instances of GroupEvents for TLC: `me` is this device, `d1` that of     *)
(* another member. u0 is sent by this device and acknowledged by d1 with   *)
(* a0; u1 is sent by d1, and i1 and i2 are the names that d1 has set, i2   *)
(* last.                                                                   *)
(***************************************************************************)
EXTENDS GroupEvents

CONSTANTS me, d1, self, peer, u0, u1, a0, i1, i2

MCMemberOf == [d \in Devices |-> IF d = me THEN self ELSE peer]
MCDeviceOf == [m \in Msgs |-> IF m = u0 THEN me ELSE d1]
MCTargetOf == [a \in AckMsgs |-> u0]
MCDateOf == [i \in InfoMsgs |-> IF i = i1 THEN 1 ELSE 2]
============================================================================
