------------------------------ MODULE MCDevices -----------------------------
(* Two names, and devices with up to two peers and two allowed IPs.        *)
EXTENDS Devices

CONSTANTS k1, k2, a, b, n1, n2

MCDevice == {<<[key |-> k1, ips |-> <<a, b>>], [key |-> k2, ips |-> <<>>]>>,
             <<[key |-> k2, ips |-> <<b>>]>>}

MCWeathers == {{}, {"denied", "lost", "killed"}}
=============================================================================
