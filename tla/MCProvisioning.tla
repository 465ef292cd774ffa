--------------------------- MODULE MCProvisioning ---------------------------
(***************************************************************************)
(* Provisioning for TLC: two requests that name two devices in opposite    *)
(* order, one of them without its credential, and one that names a device  *)
(* twice.                                                                  *)
(***************************************************************************)
EXTENDS Provisioning

MCDiscovery == [r \in Requests |-> IF r = "r3" THEN 2 ELSE 1]

Dev(a, c) == [ip |-> a, credential |-> c]
MCDevices ==
  [r1 |-> <<Dev("a", 1), Dev("b", 2)>>,
   r2 |-> <<Dev("b", 1), Dev("a", 1)>>,
   r3 |-> <<Dev("a", 1), Dev("a", 1)>>]

MCTables ==
  {[w \in Rows |-> IF w = <<"a", 1>> THEN "on"
                   ELSE IF w[2] = 2 THEN "off" ELSE "absent"]}
=============================================================================
