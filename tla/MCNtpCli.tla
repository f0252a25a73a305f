------------------------------ MODULE MCNtpCli ------------------------------
(* Small instances of NtpCli for TLC.                                      *)
EXTENDS NtpCli, TLC

\* Two host addresses, a name as long as one may be, one that is longer, and an
\* address of no host.
MCNameLen ==
    ("10.0.0.1" :> 8) @@ ("10.0.0.2" :> 8) @@ ("host" :> 57) @@ ("long" :> 58)
        @@ ("0.0.0.0" :> 7)

MCNumeric == Names \cap {"10.0.0.1", "10.0.0.2", "0.0.0.0"}
MCHosts == MCNumeric \ {"0.0.0.0"}
MCLengths == [n \in Names |-> MCNameLen[n]]

Symmetry == Permutations(Sessions)

=============================================================================
