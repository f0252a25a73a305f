------------------------------ MODULE NtpConfig ------------------------------
(***************************************************************************)
(* The NTP configuration as it is stored in OVSDB, and the pure part of    *)
(* ops_ntpd.py: what one pass over the tables asks of ntpd                 *)
(* (ops_ntpd_check_updates_from_ovsdb, ..._with_ntp_keys and               *)
(* ..._with_ntp_associations).                                             *)
(*                                                                         *)
(* A server row is known by its index (vrf, address), a member of Assocs;  *)
(* AddrOf gives the address, which is all that ntpd is told.  `opts' stands *)
(* for the options of a server that are only copied (version, prefer,      *)
(* ref_clock_id), with the defaults already filled in.                     *)
(***************************************************************************)

CONSTANTS
    Assocs,     \* indexes (vrf, address) a row of NTP_Association can have
    AddrOf,     \* the address of each of them
    KeyIds,     \* the key ids a user can configure
    Passwords,  \* MD5 passwords
    Opts,       \* the options of a server, beside its key
    NoKey,      \* DEFAULT_NTP_KEY_ID: the server has no key
    None        \* no such row, server or key

ASSUME NoKeyAssumption == NoKey \notin KeyIds

ASSUME NoneAssumption ==
    /\ None \notin Passwords
    /\ None \notin [key : KeyIds \cup {NoKey}, opts : Opts]
    /\ None \notin [pw : Passwords, trust : BOOLEAN]

ASSUME AddrOfAssumption == AddrOf = [a \in Assocs |-> AddrOf[a]]

Addrs == {AddrOf[a] : a \in Assocs}

\* Every address is configured in one VRF only.  Not an assumption: nothing in
\* the daemon sees to it.
DistinctAddresses ==
    \A a, b \in Assocs : AddrOf[a] = AddrOf[b] => a = b

-----------------------------------------------------------------------------
(* The tables.                                                             *)

Server == [key : KeyIds \cup {NoKey}, opts : Opts]

KeyRow == [pw : Passwords, trust : BOOLEAN]

Config == [ auth   : BOOLEAN,                       \* System:ntp_config
            keys   : [KeyIds -> KeyRow \cup {None}],    \* NTP_Key
            assocs : [Assocs -> Server \cup {None}] ]   \* NTP_Association

\* A server refers to a row of NTP_Key, so to a key that exists.
References(c) ==
    \A a \in Assocs : c.assocs[a] # None /\ c.assocs[a].key # NoKey =>
        c.keys[c.assocs[a].key] # None

-----------------------------------------------------------------------------
(* The transactions on the tables.                                         *)

AuthToggled(c) == [c EXCEPT !.auth = ~@]

KeySet(c, k, row) == [c EXCEPT !.keys[k] = row]

\* The servers, with no reference to key k left.
WithoutKey(assocs, k) ==
    [a \in Assocs |->
        IF assocs[a] # None /\ assocs[a].key = k
          THEN [assocs[a] EXCEPT !.key = NoKey]
          ELSE assocs[a]]

\* The references to a deleted key go with it.  (If the schema's reference is
\* a strong one the transaction fails while there are any: fewer behaviours.)
KeyDeleted(c, k) ==
    [c EXCEPT !.keys[k] = None, !.assocs = WithoutKey(c.assocs, k)]

MayRefer(c, s) == s.key # NoKey => c.keys[s.key] # None

ServerSet(c, a, s) == [c EXCEPT !.assocs[a] = s]

ServerDeleted(c, a) == [c EXCEPT !.assocs[a] = None]

-----------------------------------------------------------------------------
(* What a pass over the tables wants of ntpd.                              *)

NoServers == [a \in Assocs |-> None]

NoKeys == [k \in KeyIds |-> None]

NoConfig == [auth |-> FALSE, keys |-> NoKeys, assocs |-> NoServers]

WantedServers(c) == c.assocs

\* Seeded fault: the map holds rows in place of passwords.
WantedKeysBug(c) ==
    [k \in KeyIds |->
        IF c.auth /\ c.keys[k] # None /\ c.keys[k].trust THEN c.keys[k] ELSE None]

\* A key counts only while authentication is enabled and the key is trusted.
WantedKeys(c) ==
    [k \in KeyIds |->
        IF c.auth /\ c.keys[k] # None /\ c.keys[k].trust
          THEN c.keys[k].pw
          ELSE None]

Present(f) == {x \in DOMAIN f : f[x] # None}

-----------------------------------------------------------------------------
(* The commands of a pass.  ntpq runs them in the order of the fields; in  *)
(* a field, in the order of a Python dictionary or set, that is, in any.   *)

Batch == [ revise   : SUBSET Assocs,    \* unconfig and server, again
           unconfig : SUBSET Assocs,
           server   : SUBSET Assocs,
           untrust  : SUBSET KeyIds,    \* one command for all of them
           trust    : SUBSET KeyIds ]

NoCommands ==
    [revise |-> {}, unconfig |-> {}, server |-> {}, untrust |-> {}, trust |-> {}]

\* ops_ntpd_check_updates_with_ntp_associations: old is g_ntpa_map before the
\* pass, new what the tables say.
Revised(new, reconfig) ==
    {a \in Present(new) : reconfig /\ new[a].key # NoKey}

\* Seeded fault: the comparison with the new server is forgotten.
UnconfiguredBug(old, new) == Present(old)

Unconfigured(old, new) == {a \in Present(old) : new[a] # old[a]}

\* Seeded fault: a changed server is in `delete' and not in `add'.
AddedBug(old, new) == Present(new) \ Present(old)

Added(old, new) == {a \in Present(new) : new[a] # old[a]}

\* Seeded fault: the case of no key left, len(l_ntpk_db) == 0, is forgotten.
UntrustedBug(old, new) ==
    IF Present(new) = {} THEN {} ELSE Present(old) \ Present(new)

\* ops_ntpd_check_updates_with_ntp_keys: old is g_ntpk_db before the pass.
Untrusted(old, new) == Present(old) \ Present(new)

Trusted(new) == Present(new)

=============================================================================
