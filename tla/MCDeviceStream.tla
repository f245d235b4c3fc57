---------------------------- MODULE MCDeviceStream ----------------------------
(* Values of DeviceStream's constants for TLC.                              *)
EXTENDS DeviceStream

CONSTANTS g1, g2

Alike   == [g \in GPUs |-> "spx_nps1"]
Unalike == [Alike EXCEPT ![g2] = "cpx_nps1"]
MCKinds == {Alike, Unalike}

===============================================================================
