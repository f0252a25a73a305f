---------------------------- MODULE MCStatusSync ----------------------------
(* Small instances of StatusSync for TLC.                                  *)
EXTENDS StatusSync

\* Two rows with IP addresses.
TwoIPs == [r \in {"r1", "r2"} |-> IF r = "r1" THEN "ip1" ELSE "ip2"]

\* The second row has an FQDN, which resolves to ip2.
IPAndFQDN == [r \in {"r1", "r2"} |-> IF r = "r1" THEN "ip1" ELSE "host"]

Resolution ==
    [x \in IPs \cup FQDNs |-> IF x = "host" THEN "ip2" ELSE x]

=============================================================================
