-------------------------- MODULE ConfigSync_proofs --------------------------
(***************************************************************************)
(* Proofs about ConfigSync, for any sets of rows, keys, passwords and      *)
(* options and any bounds.                                                 *)
(***************************************************************************)
EXTENDS ConfigSync, TLAPS

USE NoKeyAssumption, NoneAssumption, AddrOfAssumption, BoundsAssumption

-----------------------------------------------------------------------------
(* Lemmas about the tables.                                                *)

\* What a pass reads of a configuration are maps of the types of the daemon's
\* own (ops_ntpd_setup_ntp_key_map, ops_ntpd_setup_ntp_config_map).
LEMMA WantedType ==
    ASSUME NEW c \in Config
    PROVE  /\ WantedServers(c) \in [Assocs -> Server \cup {None}]
           /\ WantedKeys(c) \in [KeyIds -> Passwords \cup {None}]
BY DEF Config, WantedServers, WantedKeys, KeyRow

\* Deleting a key leaves a table of servers.
LEMMA WithoutKeyType ==
    ASSUME NEW s \in [Assocs -> Server \cup {None}], NEW k \in KeyIds
    PROVE  WithoutKey(s, k) \in [Assocs -> Server \cup {None}]
BY DEF WithoutKey, Server

\* The commands of a pass are a batch (the lists server_configs, key_config).
LEMMA BatchType ==
    ASSUME NEW old \in [Assocs -> Server \cup {None}],
           NEW new \in [Assocs -> Server \cup {None}],
           NEW oldKeys \in [KeyIds -> Passwords \cup {None}],
           NEW newKeys \in [KeyIds -> Passwords \cup {None}],
           NEW reconfig \in BOOLEAN
    PROVE  [ revise   |-> Revised(new, reconfig),
             unconfig |-> Unconfigured(old, new),
             server   |-> Added(old, new),
             untrust  |-> Untrusted(oldKeys, newKeys),
             trust    |-> Trusted(newKeys) ] \in Batch
BY DEF Batch, Revised, Unconfigured, Added, Untrusted, Trusted, Present

\* ntpd's servers stay servers under unconfig and server commands.
LEMMA PeersType ==
    ASSUME TypeOK, NEW peers \in [Addrs -> Server \cup {None}], NEW a \in Assocs
    PROVE  /\ Unconfig(peers, a) \in [Addrs -> Server \cup {None}]
           /\ AddServer(peers, a) \in [Addrs -> Server \cup {None}]
BY DEF TypeOK, Addrs, Unconfig, AddServer

\* A command to ntpd changes the auxiliary variables within their types.
LEMMA OutcomeType ==
    ASSUME TypeOK, NEW ok \in BOOLEAN, Outcome(ok)
    PROVE  lost' \in BOOLEAN /\ faults' \in 0..MaxFaults
<1>1. CASE ok
  BY <1>1 DEF TypeOK, Outcome
<1>2. CASE ~ok
  BY <1>2 DEF TypeOK, Outcome, Fault
<1> QED BY <1>1, <1>2

-----------------------------------------------------------------------------
(* Type correctness.                                                       *)

\* The empty maps, tables and batch are of their types.
LEMMA EmptyTypes ==
    /\ NoServers \in [Assocs -> Server \cup {None}]
    /\ NoKeys \in [KeyIds -> Passwords \cup {None}]
    /\ NoConfig \in Config
    /\ NoCommands \in Batch
BY DEF NoServers, NoKeys, NoConfig, Config, NoCommands, Batch

\* So are an ntpd that just started and one that ended.
LEMMA NtpdTypes == FreshNtpd \in Ntpd /\ DeadNtpd \in Ntpd
<1>1. FreshNtpd \in Ntpd
  BY EmptyTypes DEF FreshNtpd, Ntpd
<1>2. DeadNtpd \in Ntpd
  BY <1>1 DEF DeadNtpd, Ntpd
<1> QED BY <1>1, <1>2

\* What the daemon starts from: empty maps, no ntpd, nothing to do.
LEMMA TypeInit == Init => TypeOK
<1> SUFFICES ASSUME Init PROVE TypeOK
  OBVIOUS
<1>1. db \in Config /\ idl \in Config
  BY EmptyTypes DEF Init
<1>2. edits \in 0..MaxEdits /\ faults \in 0..MaxFaults
  BY DEF Init
<1> QED BY <1>1, <1>2, EmptyTypes, NtpdTypes DEF Init, TypeOK, Pcs

\* Every action, of whichever actor, keeps the types.
LEMMA TypeNext == TypeOK /\ [Next]_vars => TypeOK'
<1> SUFFICES ASSUME TypeOK, [Next]_vars PROVE TypeOK'
  OBVIOUS
<1>1. ASSUME NEW c \in Config, Edit(c) PROVE TypeOK'
  BY <1>1 DEF TypeOK, Edit, daemonVars
<1>2. CASE Operator
  <2>1. CASE SetAuthentication
    <3>1. AuthToggled(db) \in Config
      BY DEF TypeOK, Config, AuthToggled
    <3> QED BY <1>1, <2>1, <3>1 DEF SetAuthentication
  <2>2. ASSUME NEW k \in KeyIds, DeleteKey(k) PROVE TypeOK'
    <3>1. WithoutKey(db.assocs, k) \in [Assocs -> Server \cup {None}]
      BY WithoutKeyType DEF TypeOK, Config
    <3>2. KeyDeleted(db, k) \in Config
      BY <3>1 DEF TypeOK, Config, KeyDeleted
    <3> QED BY <1>1, <2>2, <3>2 DEF DeleteKey
  <2>3. ASSUME NEW k \in KeyIds, NEW row \in KeyRow, SetKey(k, row) PROVE TypeOK'
    <3>1. KeySet(db, k, row) \in Config
      BY DEF TypeOK, Config, KeySet
    <3> QED BY <1>1, <2>3, <3>1 DEF SetKey
  <2>4. ASSUME NEW a \in Assocs, DeleteServer(a) PROVE TypeOK'
    <3>1. ServerDeleted(db, a) \in Config
      BY DEF TypeOK, Config, ServerDeleted
    <3> QED BY <1>1, <2>4, <3>1 DEF DeleteServer
  <2>5. ASSUME NEW a \in Assocs, NEW s \in Server, SetServer(a, s) PROVE TypeOK'
    <3>1. ServerSet(db, a, s) \in Config
      BY DEF TypeOK, Config, ServerSet
    <3> QED BY <1>1, <2>5, <3>1 DEF SetServer
  <2>6. CASE Configure
    BY <2>6 DEF TypeOK, Configure, daemonVars
  <2> QED BY <1>2, <2>1, <2>2, <2>3, <2>4, <2>5, <2>6 DEF Operator
<1>3. CASE AwaitConfig
  BY <1>3 DEF TypeOK, AwaitConfig, daemonVars
<1>4. CASE Provision
  <2>1. ntpd' \in Ntpd
    BY <1>4, NtpdTypes DEF TypeOK, Provision, Ntpd
  <2>2. lost' \in BOOLEAN
    BY <1>4 DEF TypeOK, Provision, Ntpd
  <2> QED BY <1>4, <2>1, <2>2, EmptyTypes DEF TypeOK, Provision, daemonVars, Pcs
<1>5. CASE RunIdl
  BY <1>5 DEF TypeOK, RunIdl, daemonVars, Pcs
<1>6. CASE CheckUpdates
  <2>1. /\ WantedServers(idl) \in [Assocs -> Server \cup {None}]
        /\ WantedKeys(idl) \in [KeyIds -> Passwords \cup {None}]
        /\ idl.auth \in BOOLEAN
    BY WantedType DEF TypeOK, Config
  <2>2. todo' \in Batch
    BY <1>6, <2>1, BatchType DEF TypeOK, CheckUpdates
  <2> QED BY <1>6, <2>1, <2>2 DEF TypeOK, CheckUpdates, Pcs
<1>7. ASSUME NEW ok \in BOOLEAN, ReadKeys(ok) PROVE TypeOK'
  <2>1. lost' \in BOOLEAN /\ faults' \in 0..MaxFaults
    BY <1>7, OutcomeType DEF ReadKeys
  <2>2. ntpd' \in Ntpd
    BY <1>7 DEF ReadKeys, TypeOK, Ntpd
  <2> QED BY <1>7, <2>1, <2>2 DEF ReadKeys, TypeOK, daemonVars, Pcs
<1>8. ASSUME NEW ok \in BOOLEAN, NtpqStep(ok), todo' \in Batch, ntpd' \in Ntpd
      PROVE  TypeOK'
  <2>1. lost' \in BOOLEAN /\ faults' \in 0..MaxFaults
    BY <1>8, OutcomeType DEF NtpqStep
  <2> QED BY <1>8, <2>1 DEF NtpqStep, TypeOK, daemonVars
<1>9. CASE Ntpq
  <2>1. ASSUME NEW a \in Assocs, NEW ok1 \in BOOLEAN, NEW ok2 \in BOOLEAN,
               NtpqRevise(a, ok1, ok2)
        PROVE  TypeOK'
    <3> DEFINE removed == IF ok1 THEN Unconfig(ntpd.peers, a) ELSE ntpd.peers
    <3>1. ntpd.peers \in [Addrs -> Server \cup {None}]
      BY DEF TypeOK, Ntpd
    <3>2. removed \in [Addrs -> Server \cup {None}]
      BY <3>1, PeersType
    <3>3. (IF ok2 THEN AddServer(removed, a) ELSE removed)
              \in [Addrs -> Server \cup {None}]
      BY <3>2, PeersType
    <3>4. ntpd' \in Ntpd
      BY <2>1, <3>3 DEF NtpqRevise, TypeOK, Ntpd
    <3>5. todo' \in Batch
      BY <2>1 DEF NtpqRevise, TypeOK, Batch
    <3> QED BY <1>8, <2>1, <3>4, <3>5 DEF NtpqRevise
  <2>2. ASSUME NEW a \in Assocs, NEW ok \in BOOLEAN, NtpqUnconfig(a, ok)
        PROVE  TypeOK'
    <3>1. Unconfig(ntpd.peers, a) \in [Addrs -> Server \cup {None}]
      BY PeersType DEF TypeOK, Ntpd
    <3>2. ntpd' \in Ntpd
      BY <2>2, <3>1 DEF NtpqUnconfig, TypeOK, Ntpd
    <3>3. todo' \in Batch
      BY <2>2 DEF NtpqUnconfig, TypeOK, Batch
    <3> QED BY <1>8, <2>2, <3>2, <3>3 DEF NtpqUnconfig
  <2>3. ASSUME NEW a \in Assocs, NEW ok \in BOOLEAN, NtpqServer(a, ok)
        PROVE  TypeOK'
    <3>1. AddServer(ntpd.peers, a) \in [Addrs -> Server \cup {None}]
      BY PeersType DEF TypeOK, Ntpd
    <3>2. ntpd' \in Ntpd
      BY <2>3, <3>1 DEF NtpqServer, TypeOK, Ntpd
    <3>3. todo' \in Batch
      BY <2>3 DEF NtpqServer, TypeOK, Batch
    <3> QED BY <1>8, <2>3, <3>2, <3>3 DEF NtpqServer
  <2>4. ASSUME NEW ok \in BOOLEAN, NtpqUntrust(ok) PROVE TypeOK'
    <3>1. ntpd' \in Ntpd /\ todo' \in Batch
      BY <2>4 DEF NtpqUntrust, TypeOK, Ntpd, Batch
    <3> QED BY <1>8, <2>4, <3>1 DEF NtpqUntrust
  <2>5. ASSUME NEW ok \in BOOLEAN, NtpqTrust(ok) PROVE TypeOK'
    <3>1. ntpd' \in Ntpd /\ todo' \in Batch
      BY <2>5 DEF NtpqTrust, TypeOK, Ntpd, Batch
    <3> QED BY <1>8, <2>5, <3>1 DEF NtpqTrust
  <2>6. CASE NtpqDone
    BY <2>6 DEF NtpqDone, TypeOK, daemonVars, Pcs
  <2> QED BY <1>9, <2>1, <2>2, <2>3, <2>4, <2>5, <2>6 DEF Ntpq
<1>10. CASE NtpdDies
  <2>1. faults' \in 0..MaxFaults
    BY <1>10 DEF NtpdDies, Fault, TypeOK
  <2> QED BY <1>10, <2>1, NtpdTypes DEF NtpdDies, TypeOK, daemonVars
<1>11. CASE DaemonRestarts
  <2>1. faults' \in 0..MaxFaults
    BY <1>11 DEF DaemonRestarts, Fault, TypeOK
  <2> QED BY <1>11, <2>1, EmptyTypes DEF DaemonRestarts, TypeOK, Pcs
<1>12. CASE UNCHANGED vars
  BY <1>12 DEF vars, TypeOK
<1> QED
  BY <1>2, <1>3, <1>4, <1>5, <1>6, <1>7, <1>9, <1>10, <1>11, <1>12
  DEF Next, Daemon

\* Every variable keeps its type in every behaviour of the operator, the
\* daemon and ntpd.
THEOREM TypeCorrect == Spec => []TypeOK
BY TypeInit, TypeNext, PTL DEF Spec

-----------------------------------------------------------------------------
(* ntpd follows the configuration.                                         *)
(*                                                                         *)
(* InSync alone is not inductive: it says nothing of a pass.  ConfigInv says at *)
(* every step of a pass what ntpd has and what is still to be sent; with   *)
(* nothing left to send, that is the daemon's maps, the maps are what was  *)
(* read, and what was read is the database if nothing changed since.       *)

\* Before the first pass the daemon claims nothing of ntpd.
LEMMA ConfigInvInit == Init => ConfigInv
BY DEF Init, ConfigInv, ReplicaFresh, CachesRead, BatchSound, NtpdFollows, NoCommands

\* A transaction of the operator touches nothing but the database.
LEMMA EditKeepsConfigInv ==
    ASSUME TypeOK, ConfigInv, NEW c, Edit(c)
    PROVE  ConfigInv'
BY DEF Edit, daemonVars, ConfigInv, ReplicaFresh, CachesRead, BatchSound, NtpdFollows,
       ServersOwed, KeysOwed, ServersInUse, Reachable

\* One address per row: a command for one server leaves the others alone.
LEMMA PeersApart ==
    ASSUME TypeOK, DistinctAddresses,
           NEW peers \in [Addrs -> Server \cup {None}],
           NEW a \in Assocs, NEW b \in Assocs
    PROVE  /\ Unconfig(peers, a)[AddrOf[b]] =
                 IF a = b THEN None ELSE peers[AddrOf[b]]
           /\ AddServer(peers, a)[AddrOf[b]] =
                 IF a = b /\ peers[AddrOf[b]] = None THEN g_ntpa_map[a]
                                                    ELSE peers[AddrOf[b]]
BY DEF DistinctAddresses, Addrs, Unconfig, AddServer

\* What a command that failed, or whose ntpd is not there, leaves.
LEMMA OutcomeLost ==
    ASSUME NEW ok, Outcome(ok)
    PROVE  /\ ~ok => lost'
           /\ ok => Reachable /\ lost' = lost
BY DEF Outcome

\* A pass starts from maps that ntpd follows and leaves what the new maps ask
\* for in its commands (ops_ntpd_check_updates_from_ovsdb).
LEMMA CheckKeepsConfigInv ==
    ASSUME TypeOK, ConfigInv, CheckUpdates
    PROVE  ConfigInv'
<1> DEFINE servers == WantedServers(idl)
           keys == WantedKeys(idl)
<1>1. /\ servers \in [Assocs -> Server \cup {None}]
      /\ keys \in [KeyIds -> Passwords \cup {None}]
  BY WantedType DEF TypeOK
<1>2. /\ g_ntpa_map' = servers /\ g_ntpk_db' = keys /\ keysFile' = keys
      /\ pc = "check" /\ pc' = "readkeys"
      /\ todo'.revise \subseteq Present(servers)
      /\ todo'.unconfig = {a \in Present(g_ntpa_map) : servers[a] # g_ntpa_map[a]}
      /\ todo'.server = {a \in Present(servers) : servers[a] # g_ntpa_map[a]}
      /\ todo'.untrust = Present(g_ntpk_db) \ Present(keys)
      /\ todo'.trust = Present(keys)
  BY DEF CheckUpdates, Revised, Unconfigured, Added, Untrusted, Trusted
<1>3. UNCHANGED <<db, idl, changed, ntpd, lost>>
  BY DEF CheckUpdates
<1>4. DOMAIN servers = Assocs /\ DOMAIN g_ntpa_map = Assocs
  BY <1>1 DEF TypeOK
<1> HIDE DEF servers, keys
<1>5. ReplicaFresh'
  BY <1>3 DEF ConfigInv, ReplicaFresh
<1>6. CachesRead'
  BY <1>2, <1>3 DEF CachesRead, servers, keys
<1>7. BatchSound'
  BY <1>2, <1>4 DEF BatchSound, Present
<1>8. NtpdFollows'
  <2> SUFFICES ASSUME ~lost PROVE Reachable' /\ ServersOwed' /\ KeysOwed'
    BY <1>3 DEF NtpdFollows
  <2>1. Reachable /\ ServersOwed /\ KeysOwed /\ todo = NoCommands
    BY <1>2 DEF ConfigInv, NtpdFollows, BatchSound
  <2>2. Reachable'
    BY <2>1, <1>3 DEF Reachable
  <2>3. ServersOwed'
    BY <2>1, <1>2, <1>3, <1>4
    DEF ServersOwed, ServersInUse, NoCommands, Present
  <2>4. KeysOwed'
    BY <2>1, <1>2, <1>3 DEF KeysOwed, NoCommands, Present
  <2> QED BY <2>2, <2>3, <2>4
<1> QED BY <1>5, <1>6, <1>7, <1>8 DEF ConfigInv

\* A command of ntpq that failed: nothing is said of ntpd any more, and what is
\* left of the batch is still sound.
LEMMA NtpqKeepsRest ==
    ASSUME ConfigInv, NEW ok \in BOOLEAN, NtpqStep(ok), BatchSound',
           ok /\ ~lost => Reachable' /\ ServersOwed' /\ KeysOwed'
    PROVE  ConfigInv'
<1>1. ReplicaFresh' /\ CachesRead'
  BY DEF NtpqStep, daemonVars, ConfigInv, ReplicaFresh, CachesRead
<1>2. NtpdFollows'
  BY OutcomeLost DEF NtpqStep, NtpdFollows
<1> QED BY <1>1, <1>2 DEF ConfigInv

\* The commands for servers, in any order within a list, lists in their order.
LEMMA ReviseKeepsConfigInv ==
    ASSUME TypeOK, ConfigInv, DistinctAddresses, NEW a \in Assocs,
           NEW ok1 \in BOOLEAN, NEW ok2 \in BOOLEAN, NtpqRevise(a, ok1, ok2)
    PROVE  ConfigInv'
<1>1. /\ pc = "ntpq" /\ pc' = "ntpq" /\ a \in todo.revise
      /\ todo' = [todo EXCEPT !.revise = @ \ {a}]
      /\ UNCHANGED <<g_ntpa_map, g_ntpk_db>>
  BY DEF NtpqRevise, NtpqStep, daemonVars
<1>2. BatchSound'
  BY <1>1 DEF ConfigInv, BatchSound, TypeOK, Batch
<1>3. ASSUME ok1 /\ ok2, ~lost
      PROVE  Reachable' /\ ServersOwed' /\ KeysOwed'
  <2>1. Reachable /\ ServersOwed /\ KeysOwed
    BY <1>1, <1>3 DEF ConfigInv, NtpdFollows
  <2> DEFINE removed == Unconfig(ntpd.peers, a)
  <2>2. ntpd' = [ntpd EXCEPT !.peers = AddServer(removed, a)]
    BY <1>3 DEF NtpqRevise
  <2>3. /\ ntpd.peers \in [Addrs -> Server \cup {None}]
        /\ removed \in [Addrs -> Server \cup {None}]
    BY PeersType DEF TypeOK, Ntpd
  <2>4. /\ ntpd'.peers = AddServer(removed, a)
        /\ ntpd'.keys = ntpd.keys /\ ntpd'.trusted = ntpd.trusted
        /\ ntpd'.up = ntpd.up /\ ntpd'.authorised = ntpd.authorised
    BY <2>2 DEF TypeOK, Ntpd
  <2>5. \A b \in Assocs :
          removed[AddrOf[b]] = IF a = b THEN None ELSE ntpd.peers[AddrOf[b]]
    BY <2>3, PeersApart
  <2>6. \A b \in Assocs : ServersInUse'[b] =
          IF a = b THEN g_ntpa_map[a] ELSE ServersInUse[b]
    <3> TAKE b \in Assocs
    <3>1. AddServer(removed, a)[AddrOf[b]] =
             IF a = b /\ removed[AddrOf[b]] = None THEN g_ntpa_map[a]
                                                   ELSE removed[AddrOf[b]]
      BY <2>3, PeersApart
    <3> QED BY <3>1, <2>4, <2>5 DEF ServersInUse
  <2>7. ServersOwed'
    BY <2>6, <2>1, <1>1 DEF ServersOwed, TypeOK, Batch
  <2>8. KeysOwed'
    BY <2>1, <2>4, <1>1 DEF KeysOwed, TypeOK, Batch
  <2>9. Reachable'
    BY <2>1, <2>4 DEF Reachable
  <2> QED BY <2>7, <2>8, <2>9
<1>4. NtpqStep(ok1 /\ ok2)
  BY DEF NtpqRevise
<1> QED BY <1>2, <1>3, <1>4, NtpqKeepsRest

\* `unconfig addr' for a server that has gone or is about to be added again.
LEMMA UnconfigKeepsConfigInv ==
    ASSUME TypeOK, ConfigInv, DistinctAddresses, NEW a \in Assocs,
           NEW ok \in BOOLEAN, NtpqUnconfig(a, ok)
    PROVE  ConfigInv'
<1>1. /\ pc = "ntpq" /\ pc' = "ntpq" /\ a \in todo.unconfig
      /\ todo' = [todo EXCEPT !.unconfig = @ \ {a}]
      /\ UNCHANGED <<g_ntpa_map, g_ntpk_db>>
  BY DEF NtpqUnconfig, NtpqStep, daemonVars
<1>2. BatchSound'
  BY <1>1 DEF ConfigInv, BatchSound, TypeOK, Batch
<1>3. ASSUME ok, ~lost
      PROVE  Reachable' /\ ServersOwed' /\ KeysOwed'
  <2>1. Reachable /\ ServersOwed /\ KeysOwed
    BY <1>1, <1>3 DEF ConfigInv, NtpdFollows
  <2>2. ntpd.peers \in [Addrs -> Server \cup {None}]
    BY DEF TypeOK, Ntpd
  <2>3. /\ ntpd'.peers = Unconfig(ntpd.peers, a)
        /\ ntpd'.keys = ntpd.keys /\ ntpd'.trusted = ntpd.trusted
        /\ ntpd'.up = ntpd.up /\ ntpd'.authorised = ntpd.authorised
    BY <1>3 DEF NtpqUnconfig, TypeOK, Ntpd
  <2>4. \A b \in Assocs : ServersInUse'[b] =
          IF a = b THEN None ELSE ServersInUse[b]
    BY <2>2, <2>3, PeersApart DEF ServersInUse
  <2>5. g_ntpa_map[a] # None => a \in todo.server
    BY <1>1 DEF ConfigInv, BatchSound, Present, TypeOK
  <2>6. ServersOwed'
    BY <2>4, <2>5, <2>1, <1>1 DEF ServersOwed, TypeOK, Batch
  <2>7. KeysOwed'
    BY <2>1, <2>3, <1>1 DEF KeysOwed, TypeOK, Batch
  <2>8. Reachable'
    BY <2>1, <2>3 DEF Reachable
  <2> QED BY <2>6, <2>7, <2>8
<1>4. NtpqStep(ok)
  BY DEF NtpqUnconfig
<1> QED BY <1>2, <1>3, <1>4, NtpqKeepsRest

\* `server addr ...' once every unconfig of the pass has run: ntpd has no server
\* of that address, or has the wanted one already.
LEMMA ServerKeepsConfigInv ==
    ASSUME TypeOK, ConfigInv, DistinctAddresses, NEW a \in Assocs,
           NEW ok \in BOOLEAN, NtpqServer(a, ok)
    PROVE  ConfigInv'
<1>1. /\ pc = "ntpq" /\ pc' = "ntpq" /\ a \in todo.server
      /\ todo.revise = {} /\ todo.unconfig = {}
      /\ todo' = [todo EXCEPT !.server = @ \ {a}]
      /\ UNCHANGED <<g_ntpa_map, g_ntpk_db>>
  BY DEF NtpqServer, NtpqStep, daemonVars
<1>2. BatchSound'
  BY <1>1 DEF ConfigInv, BatchSound, TypeOK, Batch
<1>3. ASSUME ok, ~lost
      PROVE  Reachable' /\ ServersOwed' /\ KeysOwed'
  <2>1. Reachable /\ ServersOwed /\ KeysOwed
    BY <1>1, <1>3 DEF ConfigInv, NtpdFollows
  <2>2. ntpd.peers \in [Addrs -> Server \cup {None}]
    BY DEF TypeOK, Ntpd
  <2>3. /\ ntpd'.peers = AddServer(ntpd.peers, a)
        /\ ntpd'.keys = ntpd.keys /\ ntpd'.trusted = ntpd.trusted
        /\ ntpd'.up = ntpd.up /\ ntpd'.authorised = ntpd.authorised
    BY <1>3 DEF NtpqServer, TypeOK, Ntpd
  <2>4. \A b \in Assocs : ServersInUse'[b] =
          IF a = b /\ ServersInUse[a] = None THEN g_ntpa_map[a]
                                            ELSE ServersInUse[b]
    BY <2>2, <2>3, PeersApart DEF ServersInUse
  <2>5. ServersOwed'
    BY <2>4, <2>1, <1>1 DEF ServersOwed, TypeOK, Batch
  <2>6. KeysOwed'
    BY <2>1, <2>3, <1>1 DEF KeysOwed, TypeOK, Batch
  <2>7. Reachable'
    BY <2>1, <2>3 DEF Reachable
  <2> QED BY <2>5, <2>6, <2>7
<1>4. NtpqStep(ok)
  BY DEF NtpqServer
<1> QED BY <1>2, <1>3, <1>4, NtpqKeepsRest

\* The commands for keys: the untrusted ones first, then the trusted ones.
LEMMA UntrustKeepsConfigInv ==
    ASSUME TypeOK, ConfigInv, NEW ok \in BOOLEAN, NtpqUntrust(ok)
    PROVE  ConfigInv'
<1>1. /\ pc = "ntpq" /\ pc' = "ntpq"
      /\ todo' = [todo EXCEPT !.untrust = {}]
      /\ UNCHANGED <<g_ntpa_map, g_ntpk_db>>
  BY DEF NtpqUntrust, NtpqStep, daemonVars
<1>2. BatchSound'
  BY <1>1 DEF ConfigInv, BatchSound, TypeOK, Batch
<1>3. ASSUME ok, ~lost
      PROVE  Reachable' /\ ServersOwed' /\ KeysOwed'
  <2>1. Reachable /\ ServersOwed /\ KeysOwed
    BY <1>1, <1>3 DEF ConfigInv, NtpdFollows
  <2>2. /\ ntpd'.peers = ntpd.peers /\ ntpd'.keys = ntpd.keys
        /\ ntpd'.trusted = ntpd.trusted \ todo.untrust
        /\ ntpd'.up = ntpd.up /\ ntpd'.authorised = ntpd.authorised
    BY <1>3 DEF NtpqUntrust, TypeOK, Ntpd
  <2>3. todo.untrust \cap Present(g_ntpk_db) = {}
    BY DEF ConfigInv, BatchSound
  <2>4. ServersOwed'
    BY <2>1, <2>2, <1>1 DEF ServersOwed, ServersInUse, TypeOK, Batch
  <2>5. KeysOwed'
    BY <2>1, <2>2, <2>3, <1>1 DEF KeysOwed, TypeOK, Batch
  <2>6. Reachable'
    BY <2>1, <2>2 DEF Reachable
  <2> QED BY <2>4, <2>5, <2>6
<1>4. NtpqStep(ok)
  BY DEF NtpqUntrust
<1> QED BY <1>2, <1>3, <1>4, NtpqKeepsRest

\* `trustedkey ...' for every key of the daemon's map.
LEMMA TrustKeepsConfigInv ==
    ASSUME TypeOK, ConfigInv, NEW ok \in BOOLEAN, NtpqTrust(ok)
    PROVE  ConfigInv'
<1>1. /\ pc = "ntpq" /\ pc' = "ntpq" /\ todo.untrust = {}
      /\ todo' = [todo EXCEPT !.trust = {}]
      /\ UNCHANGED <<g_ntpa_map, g_ntpk_db>>
  BY DEF NtpqTrust, NtpqStep, daemonVars
<1>2. BatchSound'
  BY <1>1 DEF ConfigInv, BatchSound, TypeOK, Batch
<1>3. ASSUME ok, ~lost
      PROVE  Reachable' /\ ServersOwed' /\ KeysOwed'
  <2>1. Reachable /\ ServersOwed /\ KeysOwed
    BY <1>1, <1>3 DEF ConfigInv, NtpdFollows
  <2>2. /\ ntpd'.peers = ntpd.peers /\ ntpd'.keys = ntpd.keys
        /\ ntpd'.trusted = ntpd.trusted \cup todo.trust
        /\ ntpd'.up = ntpd.up /\ ntpd'.authorised = ntpd.authorised
    BY <1>3 DEF NtpqTrust, TypeOK, Ntpd
  <2>3. todo.trust \subseteq Present(g_ntpk_db)
    BY DEF ConfigInv, BatchSound
  <2>4. ServersOwed'
    BY <2>1, <2>2, <1>1 DEF ServersOwed, ServersInUse, TypeOK, Batch
  <2>5. KeysOwed'
    BY <2>1, <2>2, <2>3, <1>1 DEF KeysOwed, TypeOK, Batch
  <2>6. Reachable'
    BY <2>1, <2>2 DEF Reachable
  <2> QED BY <2>4, <2>5, <2>6
<1>4. NtpqStep(ok)
  BY DEF NtpqTrust
<1> QED BY <1>2, <1>3, <1>4, NtpqKeepsRest

\* readkeys gives ntpd the keys of the daemon's map, by way of the file.
LEMMA ReadKeysKeepsConfigInv ==
    ASSUME TypeOK, ConfigInv, NEW ok \in BOOLEAN, ReadKeys(ok)
    PROVE  ConfigInv'
<1>1. /\ pc = "readkeys" /\ pc' = "ntpq"
      /\ UNCHANGED <<db, idl, changed, g_ntpa_map, g_ntpk_db, keysFile, todo>>
  BY DEF ReadKeys, daemonVars
<1>2. ReplicaFresh' /\ CachesRead' /\ BatchSound'
  BY <1>1 DEF ConfigInv, ReplicaFresh, CachesRead, BatchSound
<1>3. ASSUME ok, ~lost
      PROVE  Reachable' /\ ServersOwed' /\ KeysOwed'
  <2>1. Reachable /\ ServersOwed /\ KeysOwed /\ keysFile = g_ntpk_db
    BY <1>1, <1>3 DEF ConfigInv, NtpdFollows, CachesRead
  <2>2. /\ ntpd'.peers = ntpd.peers /\ ntpd'.keys = keysFile
        /\ ntpd'.trusted = ntpd.trusted
        /\ ntpd'.up = ntpd.up /\ ntpd'.authorised = ntpd.authorised
    BY <1>3 DEF ReadKeys, TypeOK, Ntpd
  <2> QED BY <2>1, <2>2, <1>1 DEF ServersOwed, ServersInUse, KeysOwed, Reachable
<1>4. NtpdFollows'
  BY <1>3, OutcomeLost DEF ReadKeys, NtpdFollows
<1> QED BY <1>2, <1>4 DEF ConfigInv

\* A fresh ntpd has nothing, as the maps of a daemon that starts; an ntpd that
\* survived makes no promise.
LEMMA ProvisionKeepsConfigInv ==
    ASSUME TypeOK, ConfigInv, Provision
    PROVE  ConfigInv'
<1>1. ReplicaFresh' /\ CachesRead' /\ BatchSound'
  BY DEF Provision, daemonVars, ConfigInv, ReplicaFresh, CachesRead, BatchSound
<1>2. ASSUME ~lost' PROVE Reachable' /\ ServersOwed' /\ KeysOwed'
  <2>1. ntpd' = FreshNtpd /\ todo' = NoCommands /\ pc' = "check"
    BY <1>2 DEF Provision, ConfigInv, BatchSound
  <2>2. g_ntpa_map' = NoServers /\ g_ntpk_db' = NoKeys
    BY DEF Provision, daemonVars, ConfigInv, CachesRead
  <2>3. \A a \in Assocs : FreshNtpd.peers[AddrOf[a]] = None
    BY DEF FreshNtpd, Addrs
  <2>4. ServersOwed'
    BY <2>1, <2>2, <2>3 DEF ServersOwed, ServersInUse, NoServers
  <2>5. KeysOwed' /\ Reachable'
    BY <2>1, <2>2
    DEF KeysOwed, Reachable, FreshNtpd, NoCommands, NoKeys, Present
  <2> QED BY <2>4, <2>5
<1> QED BY <1>1, <1>2 DEF ConfigInv, NtpdFollows

\* Every step keeps the inductive invariant.
LEMMA ConfigInvNext ==
    ASSUME TypeOK, ConfigInv, DistinctAddresses, [Next]_vars
    PROVE  ConfigInv'
<1>1. CASE Operator
  <2>1. CASE Configure
    BY <2>1 DEF Configure, daemonVars, ConfigInv, ReplicaFresh, CachesRead, BatchSound,
                NtpdFollows, ServersOwed, KeysOwed, ServersInUse, Reachable
  <2>2. CASE ~Configure
    BY <1>1, <2>2, EditKeepsConfigInv
    DEF Operator, SetAuthentication, SetKey, DeleteKey, SetServer, DeleteServer
  <2> QED BY <2>1, <2>2
<1>2. CASE AwaitConfig
  BY <1>2 DEF AwaitConfig, daemonVars, ConfigInv, ReplicaFresh, CachesRead, BatchSound,
              NtpdFollows
<1>3. CASE Provision
  BY <1>3, ProvisionKeepsConfigInv
<1>4. CASE RunIdl
  BY <1>4 DEF RunIdl, daemonVars, ConfigInv, ReplicaFresh, CachesRead, BatchSound,
              NtpdFollows, ServersOwed, KeysOwed, ServersInUse, Reachable
<1>5. CASE CheckUpdates
  BY <1>5, CheckKeepsConfigInv
<1>6. CASE \E ok \in BOOLEAN : ReadKeys(ok)
  BY <1>6, ReadKeysKeepsConfigInv
<1>7. CASE Ntpq
  <2>1. CASE NtpqDone
    BY <2>1 DEF NtpqDone, daemonVars, ConfigInv, ReplicaFresh, CachesRead, BatchSound,
                NtpdFollows, ServersOwed, KeysOwed, ServersInUse, Reachable
  <2>2. CASE ~NtpqDone
    BY <1>7, <2>2, ReviseKeepsConfigInv, UnconfigKeepsConfigInv, ServerKeepsConfigInv,
       UntrustKeepsConfigInv, TrustKeepsConfigInv
    DEF Ntpq
  <2> QED BY <2>1, <2>2
<1>8. CASE NtpdDies
  BY <1>8 DEF NtpdDies, daemonVars, ConfigInv, ReplicaFresh, CachesRead, BatchSound,
              NtpdFollows
<1>9. CASE DaemonRestarts
  BY <1>9 DEF DaemonRestarts, ConfigInv, ReplicaFresh, CachesRead, BatchSound,
              NtpdFollows, NoCommands
<1>10. CASE UNCHANGED vars
  BY <1>10 DEF vars, ConfigInv, ReplicaFresh, CachesRead, BatchSound, NtpdFollows,
               ServersOwed, KeysOwed, ServersInUse, Reachable
<1> QED
  BY <1>1, <1>2, <1>3, <1>4, <1>5, <1>6, <1>7, <1>8, <1>9, <1>10 DEF Next, Daemon

\* At every step of every behaviour ntpd is what the daemon takes it to be, up
\* to the commands still to run, unless a command failed.
THEOREM Invariance ==
    ASSUME DistinctAddresses PROVE Spec => []ConfigInv
<1>1. Init => ConfigInv
  BY ConfigInvInit
<1>2. TypeOK /\ ConfigInv /\ [Next]_vars => ConfigInv'
  BY ConfigInvNext
<1> QED BY <1>1, <1>2, TypeCorrect, PTL DEF Spec

\* The invariant gives the property when the daemon rests.
LEMMA ConfigInvInSync == TypeOK /\ ConfigInv => InSync
<1> SUFFICES ASSUME TypeOK, ConfigInv, Settled, ~lost PROVE NtpdAgrees(db)
  BY DEF InSync
<1>1. idl = db /\ todo = NoCommands
  BY DEF Settled, ConfigInv, ReplicaFresh, BatchSound
<1>2. g_ntpa_map = WantedServers(db) /\ g_ntpk_db = WantedKeys(db)
  BY <1>1 DEF Settled, ConfigInv, CachesRead
<1>3. ServersOwed /\ KeysOwed
  BY DEF Settled, ConfigInv, NtpdFollows
<1>4. ServersInUse = WantedServers(db)
  BY <1>1, <1>2, <1>3 DEF ServersOwed, ServersInUse, NoCommands, TypeOK
<1>5. /\ ntpd.keys = WantedKeys(db)
      /\ ntpd.trusted = Present(WantedKeys(db))
  BY <1>1, <1>2, <1>3 DEF KeysOwed, NoCommands, Settled
<1> QED BY <1>4, <1>5 DEF NtpdAgrees

\* With one address per row, whenever the daemon rests and no command failed it,
\* ntpd has exactly the servers, passwords and trusted keys in OVSDB.
THEOREM Synchronised ==
    ASSUME DistinctAddresses PROVE Spec => []InSync
<1>1. Spec => []ConfigInv
  BY Invariance
<1> QED BY <1>1, TypeCorrect, ConfigInvInSync, PTL

\* ntpd trusts only keys whose password it has loaded, or that the pass under
\* way is about to untrust.
THEOREM TrustIsLoaded ==
    ASSUME DistinctAddresses PROVE Spec => []TrustedKeysLoaded
<1>1. TypeOK /\ ConfigInv => TrustedKeysLoaded
  BY DEF ConfigInv, NtpdFollows, KeysOwed, TrustedKeysLoaded, Present, TypeOK
<1>2. Spec => []ConfigInv
  BY Invariance
<1> QED BY <1>1, <1>2, TypeCorrect, PTL

-----------------------------------------------------------------------------
(* ntpd loses no server that is still wanted.                              *)

\* An ntpd that ended has no servers, so starting one takes none away.
GoneIsEmpty == ~ntpd.up => ntpd.peers = [x \in Addrs |-> None]

\* No ntpd runs at first.
LEMMA GoneInit == Init => GoneIsEmpty
BY DEF Init, GoneIsEmpty, DeadNtpd, FreshNtpd

\* Only an ntpd that runs takes a command.
LEMMA GoneNext == TypeOK /\ GoneIsEmpty /\ [Next]_vars => GoneIsEmpty'
<1> SUFFICES ASSUME TypeOK, GoneIsEmpty, [Next]_vars PROVE GoneIsEmpty'
  OBVIOUS
<1>1. CASE UNCHANGED ntpd
  BY <1>1 DEF GoneIsEmpty
<1>2. CASE Provision
  BY <1>2 DEF Provision, GoneIsEmpty, FreshNtpd, TypeOK, Ntpd
<1>3. CASE NtpdDies
  BY <1>3 DEF NtpdDies, GoneIsEmpty, DeadNtpd, FreshNtpd
<1>4. ASSUME NEW ok \in BOOLEAN, Outcome(ok), ntpd'.up = ntpd.up,
             ~ok => ntpd' = ntpd
      PROVE  GoneIsEmpty'
  BY <1>4 DEF Outcome, Reachable, GoneIsEmpty
<1>5. ASSUME NEW ok \in BOOLEAN, ReadKeys(ok) PROVE GoneIsEmpty'
  BY <1>4, <1>5 DEF ReadKeys, TypeOK, Ntpd
<1>6. CASE Ntpq
  <2>1. ASSUME NEW a \in Assocs, NEW ok1 \in BOOLEAN, NEW ok2 \in BOOLEAN,
               NtpqRevise(a, ok1, ok2)
        PROVE  GoneIsEmpty'
    <3>1. CASE Reachable
      BY <2>1, <3>1 DEF NtpqRevise, Reachable, GoneIsEmpty, TypeOK, Ntpd
    <3>2. CASE ~Reachable
      <4>1. ntpd' = [ntpd EXCEPT !.peers = ntpd.peers]
        BY <2>1, <3>2 DEF NtpqRevise
      <4> QED BY <4>1 DEF GoneIsEmpty, TypeOK, Ntpd
    <3> QED BY <3>1, <3>2
  <2>2. ASSUME NEW a \in Assocs, NEW ok \in BOOLEAN, NtpqUnconfig(a, ok)
        PROVE  GoneIsEmpty'
    BY <1>4, <2>2 DEF NtpqUnconfig, NtpqStep, TypeOK, Ntpd
  <2>3. ASSUME NEW a \in Assocs, NEW ok \in BOOLEAN, NtpqServer(a, ok)
        PROVE  GoneIsEmpty'
    BY <1>4, <2>3 DEF NtpqServer, NtpqStep, TypeOK, Ntpd
  <2>4. ASSUME NEW ok \in BOOLEAN, NtpqUntrust(ok) PROVE GoneIsEmpty'
    BY <1>4, <2>4 DEF NtpqUntrust, NtpqStep, TypeOK, Ntpd
  <2>5. ASSUME NEW ok \in BOOLEAN, NtpqTrust(ok) PROVE GoneIsEmpty'
    BY <1>4, <2>5 DEF NtpqTrust, NtpqStep, TypeOK, Ntpd
  <2>6. CASE NtpqDone
    BY <1>1, <2>6 DEF NtpqDone
  <2> QED BY <1>6, <2>1, <2>2, <2>3, <2>4, <2>5, <2>6 DEF Ntpq
<1> QED
  BY <1>1, <1>2, <1>3, <1>5, <1>6
  DEF Next, Operator, Daemon, SetAuthentication, SetKey, DeleteKey, SetServer,
      DeleteServer, Edit, Configure, AwaitConfig, RunIdl, CheckUpdates,
      DaemonRestarts, vars

\* Row a keeps its server in this step, or may lose it: it is not wanted, is to
\* be added again, or a command failed.
Kept(a) ==
    /\ ntpd.peers[AddrOf[a]] # None
    /\ ntpd'.up
    /\ ntpd'.peers[AddrOf[a]] = None
    => g_ntpa_map[a] = None \/ a \in todo'.server \/ lost'

\* The commands for servers take a server away only where the batch allows it.
LEMMA NtpqKeeps ==
    ASSUME TypeOK, ConfigInv, DistinctAddresses, Ntpq, NEW b \in Assocs
    PROVE  Kept(b)
<1>1. ntpd.peers \in [Addrs -> Server \cup {None}]
  BY DEF TypeOK, Ntpd
<1>2. ASSUME NEW a \in Assocs, NEW ok1 \in BOOLEAN, NEW ok2 \in BOOLEAN,
             NtpqRevise(a, ok1, ok2)
      PROVE  Kept(b)
  <2>1. CASE ok1 /\ ok2
    <3> DEFINE removed == Unconfig(ntpd.peers, a)
    <3>1. removed \in [Addrs -> Server \cup {None}]
      BY <1>1, PeersType
    <3>2. ntpd'.peers = AddServer(removed, a)
      BY <1>2, <2>1 DEF NtpqRevise, TypeOK, Ntpd
    <3>3. removed[AddrOf[b]] = IF a = b THEN None ELSE ntpd.peers[AddrOf[b]]
      BY <1>1, PeersApart
    <3>4. AddServer(removed, a)[AddrOf[b]] =
             IF a = b /\ removed[AddrOf[b]] = None THEN g_ntpa_map[a]
                                                   ELSE removed[AddrOf[b]]
      BY <3>1, PeersApart
    <3> QED BY <3>2, <3>3, <3>4 DEF Kept
  <2>2. CASE ~(ok1 /\ ok2)
    BY <1>2, <2>2, OutcomeLost DEF NtpqRevise, NtpqStep, Kept
  <2> QED BY <2>1, <2>2
<1>3. ASSUME NEW a \in Assocs, NEW ok \in BOOLEAN, NtpqUnconfig(a, ok)
      PROVE  Kept(b)
  <2>1. CASE ok
    <3>1. ntpd'.peers = Unconfig(ntpd.peers, a)
      BY <1>3, <2>1 DEF NtpqUnconfig, TypeOK, Ntpd
    <3>2. ntpd'.peers[AddrOf[b]] = IF a = b THEN None ELSE ntpd.peers[AddrOf[b]]
      BY <1>1, <3>1, PeersApart
    <3>3. g_ntpa_map[a] # None => a \in todo.server
      BY <1>3 DEF NtpqUnconfig, ConfigInv, BatchSound, Present, TypeOK
    <3>4. todo'.server = todo.server
      BY <1>3 DEF NtpqUnconfig, TypeOK, Batch
    <3> QED BY <3>2, <3>3, <3>4 DEF Kept
  <2>2. CASE ~ok
    BY <1>3, <2>2 DEF NtpqUnconfig, Kept
  <2> QED BY <2>1, <2>2
<1>4. ASSUME NEW a \in Assocs, NEW ok \in BOOLEAN, NtpqServer(a, ok)
      PROVE  Kept(b)
  <2>1. CASE ok
    <3>1. ntpd'.peers = AddServer(ntpd.peers, a)
      BY <1>4, <2>1 DEF NtpqServer, TypeOK, Ntpd
    <3> QED BY <1>1, <3>1, PeersApart DEF Kept
  <2>2. CASE ~ok
    BY <1>4, <2>2 DEF NtpqServer, Kept
  <2> QED BY <2>1, <2>2
<1>5. ASSUME NEW ok \in BOOLEAN, NtpqUntrust(ok) \/ NtpqTrust(ok) PROVE Kept(b)
  <2>1. ntpd'.peers = ntpd.peers
    BY <1>5 DEF NtpqUntrust, NtpqTrust, TypeOK, Ntpd
  <2> QED BY <2>1 DEF Kept
<1>6. CASE NtpqDone
  BY <1>6 DEF NtpqDone, Kept
<1> QED BY <1>2, <1>3, <1>4, <1>5, <1>6 DEF Ntpq

\* No step takes from ntpd a server the daemon's map still has, unless the same
\* pass is to add it again, a command failed, or ntpd itself ended.
THEOREM WantedServersStay ==
    ASSUME DistinctAddresses PROVE Spec => RemovedOnlyToReplace
<1>1. Spec => []GoneIsEmpty
  BY GoneInit, GoneNext, TypeCorrect, PTL DEF Spec
<1>2. ASSUME TypeOK, ConfigInv, GoneIsEmpty, Next, NEW b \in Assocs PROVE Kept(b)
  <2>1. CASE ntpd'.peers = ntpd.peers
    BY <2>1 DEF Kept
  <2>2. CASE Provision
    <3>1. CASE ntpd.up
      BY <2>2, <3>1 DEF Provision, Kept
    <3>2. CASE ~ntpd.up
      BY <1>2, <3>2 DEF GoneIsEmpty, Addrs, Kept
    <3> QED BY <3>1, <3>2
  <2>3. CASE NtpdDies
    BY <2>3 DEF NtpdDies, Kept
  <2>4. CASE Ntpq
    BY <1>2, <2>4, NtpqKeeps
  <2>5. ASSUME NEW ok \in BOOLEAN, ReadKeys(ok) PROVE Kept(b)
    BY <2>1, <2>5 DEF ReadKeys, TypeOK, Ntpd
  <2> QED
    BY <1>2, <2>1, <2>2, <2>3, <2>4, <2>5
    DEF Next, Operator, Daemon, SetAuthentication, SetKey, DeleteKey, SetServer,
        DeleteServer, Edit, Configure, AwaitConfig, RunIdl, CheckUpdates,
        DaemonRestarts
<1>3. TypeOK /\ ConfigInv /\ GoneIsEmpty /\ [Next]_vars =>
        [\A a \in Assocs : Kept(a)]_vars
  BY <1>2
<1>4. Spec => []ConfigInv
  BY Invariance
<1>5. Spec => [][\A a \in Assocs : Kept(a)]_vars
  BY <1>1, <1>3, <1>4, TypeCorrect, PTL DEF Spec
<1> QED BY <1>5 DEF RemovedOnlyToReplace, Kept

-----------------------------------------------------------------------------
(* The refinement of NtpReplica, up to the first fault.                    *)

\* Until a fault happens no command fails: the daemon finds no ntpd when it
\* provisions, the one it starts takes its commands, and the system is configured.
NoFaultYet ==
    faults = 0 =>
        /\ ~lost
        /\ pc = "boot" => ~ntpd.up
        /\ pc # "boot" => configured /\ Reachable

\* ntpd does not run before the daemon starts it.
LEMMA NoFaultInit == Init => NoFaultYet
BY DEF Init, NoFaultYet, DeadNtpd, FreshNtpd

\* A command to an ntpd that takes commands fails by a fault only.
LEMMA OutcomeFault ==
    ASSUME TypeOK, NoFaultYet, pc # "boot", NEW ok \in BOOLEAN, Outcome(ok),
           faults' = 0
    PROVE  ok /\ faults = 0 /\ ~lost'
BY DEF TypeOK, NoFaultYet, Outcome, Fault

\* A step without a fault keeps it.
LEMMA NoFaultNext == TypeOK /\ NoFaultYet /\ [Next]_vars => NoFaultYet'
<1> SUFFICES ASSUME TypeOK, NoFaultYet, [Next]_vars, faults' = 0
             PROVE  /\ ~lost'
                    /\ pc' = "boot" => ~ntpd'.up
                    /\ pc' # "boot" => configured' /\ Reachable'
  BY DEF NoFaultYet
<1>1. CASE UNCHANGED vars
  BY <1>1 DEF vars, NoFaultYet, Reachable
<1>2. CASE Operator
  BY <1>2 DEF Operator, SetAuthentication, SetKey, DeleteKey, SetServer, DeleteServer,
              Edit, Configure, NoFaultYet, Reachable
<1>3. CASE AwaitConfig \/ RunIdl \/ CheckUpdates \/ NtpqDone
  BY <1>3 DEF AwaitConfig, RunIdl, CheckUpdates, NtpqDone, NoFaultYet, Reachable
<1>4. CASE Provision
  BY <1>4 DEF Provision, NoFaultYet, Reachable, FreshNtpd
<1>5. ASSUME NEW ok \in BOOLEAN, Outcome(ok), pc # "boot", pc' # "boot",
             configured' = configured, ntpd'.up = ntpd.up,
             ntpd'.authorised = ntpd.authorised
      PROVE  ~lost' /\ configured' /\ Reachable'
  <2>1. ~lost' /\ faults = 0
    BY <1>5, OutcomeFault
  <2> QED BY <1>5, <2>1 DEF NoFaultYet, Reachable
<1>6. ASSUME NEW ok \in BOOLEAN, ReadKeys(ok)
      PROVE  pc' # "boot" /\ ~lost' /\ configured' /\ Reachable'
  <2>1. ntpd'.up = ntpd.up /\ ntpd'.authorised = ntpd.authorised
    BY <1>6 DEF ReadKeys, TypeOK, Ntpd
  <2> QED BY <1>5, <1>6, <2>1 DEF ReadKeys
<1>7. ASSUME NEW ok \in BOOLEAN, NtpqStep(ok), ntpd'.up = ntpd.up,
             ntpd'.authorised = ntpd.authorised
      PROVE  pc' # "boot" /\ ~lost' /\ configured' /\ Reachable'
  BY <1>5, <1>7 DEF NtpqStep
<1>8. CASE Ntpq /\ ~NtpqDone
  <2>1. ASSUME NEW a \in Assocs, NEW ok1 \in BOOLEAN, NEW ok2 \in BOOLEAN,
               NtpqRevise(a, ok1, ok2)
        PROVE  pc' # "boot" /\ ~lost' /\ configured' /\ Reachable'
    <3>1. NtpqStep(ok1 /\ ok2) /\ (ok1 /\ ok2) \in BOOLEAN
      BY <2>1 DEF NtpqRevise
    <3>2. ntpd'.up = ntpd.up /\ ntpd'.authorised = ntpd.authorised
      BY <2>1 DEF NtpqRevise, TypeOK, Ntpd
    <3> QED BY <1>7, <3>1, <3>2
  <2>2. ASSUME NEW a \in Assocs, NEW ok \in BOOLEAN,
               NtpqUnconfig(a, ok) \/ NtpqServer(a, ok)
        PROVE  pc' # "boot" /\ ~lost' /\ configured' /\ Reachable'
    BY <1>7, <2>2 DEF NtpqUnconfig, NtpqServer, TypeOK, Ntpd
  <2>3. ASSUME NEW ok \in BOOLEAN, NtpqUntrust(ok) \/ NtpqTrust(ok)
        PROVE  pc' # "boot" /\ ~lost' /\ configured' /\ Reachable'
    BY <1>7, <2>3 DEF NtpqUntrust, NtpqTrust, TypeOK, Ntpd
  <2> QED BY <1>8, <2>1, <2>2, <2>3 DEF Ntpq
<1>9. ~NtpdDies /\ ~DaemonRestarts
  BY DEF NtpdDies, DaemonRestarts, Fault, TypeOK
<1> QED BY <1>1, <1>2, <1>3, <1>4, <1>6, <1>8, <1>9 DEF Next, Daemon

\* The servers configured and those fetched are maps of servers.
LEMMA ReplicaTypes ==
    ASSUME TypeOK
    PROVE  /\ ServersWanted \in [Assocs -> Server \cup {None}]
           /\ ServersSeen \in [Assocs -> Server \cup {None}]
           /\ ServersInUse \in [Assocs -> Server \cup {None}]
BY WantedType, EmptyTypes
DEF TypeOK, ServersWanted, ServersSeen, ServersInUse, Ntpd, Addrs

\* Rows of one's own address: unconfig takes one server, server installs one.
LEMMA InUse ==
    ASSUME TypeOK, DistinctAddresses, NEW a \in Assocs
    PROVE  /\ ntpd'.peers = Unconfig(ntpd.peers, a) =>
                ServersInUse' = [ServersInUse EXCEPT ![a] = None]
           /\ ntpd'.peers = AddServer(ntpd.peers, a) =>
                ServersInUse' = IF ServersInUse[a] = None
                                  THEN [ServersInUse EXCEPT ![a] = g_ntpa_map[a]]
                                  ELSE ServersInUse
           /\ ntpd'.peers = AddServer(Unconfig(ntpd.peers, a), a) =>
                ServersInUse' = [ServersInUse EXCEPT ![a] = g_ntpa_map[a]]
<1>1. ntpd.peers \in [Addrs -> Server \cup {None}]
  BY DEF TypeOK, Ntpd
<1>2. Unconfig(ntpd.peers, a) \in [Addrs -> Server \cup {None}]
  BY <1>1, PeersType
<1>3. ASSUME ntpd'.peers = Unconfig(ntpd.peers, a)
      PROVE  ServersInUse' = [ServersInUse EXCEPT ![a] = None]
  <2>1. \A b \in Assocs :
          ServersInUse'[b] = IF a = b THEN None ELSE ServersInUse[b]
    BY <1>1, <1>3, PeersApart DEF ServersInUse
  <2> QED BY <2>1 DEF ServersInUse
<1>4. ASSUME ntpd'.peers = AddServer(ntpd.peers, a)
      PROVE  ServersInUse' = IF ServersInUse[a] = None
                               THEN [ServersInUse EXCEPT ![a] = g_ntpa_map[a]]
                               ELSE ServersInUse
  <2>1. \A b \in Assocs : ServersInUse'[b] =
          IF a = b /\ ServersInUse[b] = None THEN g_ntpa_map[a] ELSE ServersInUse[b]
    BY <1>1, <1>4, PeersApart DEF ServersInUse
  <2> QED BY <2>1 DEF ServersInUse
<1>5. ASSUME ntpd'.peers = AddServer(Unconfig(ntpd.peers, a), a)
      PROVE  ServersInUse' = [ServersInUse EXCEPT ![a] = g_ntpa_map[a]]
  <2>1. \A b \in Assocs : Unconfig(ntpd.peers, a)[AddrOf[b]] =
          IF a = b THEN None ELSE ntpd.peers[AddrOf[b]]
    BY <1>1, PeersApart
  <2>2. \A b \in Assocs : ServersInUse'[b] =
          IF a = b THEN g_ntpa_map[a] ELSE ServersInUse[b]
    BY <1>2, <1>5, <2>1, PeersApart DEF ServersInUse
  <2> QED BY <2>2 DEF ServersInUse
<1> QED BY <1>3, <1>4, <1>5

\* A command of ntpq is a step of one server, or none.
LEMMA ReplicaCommands ==
    ASSUME TypeOK, ConfigInv, NoFaultYet, DistinctAddresses, Ntpq, faults' = 0
    PROVE  [Replica!Next]_Replica!vars
<1>1. /\ pc = "ntpq"
      /\ UNCHANGED <<db, configured, idl>>
      /\ g_ntpa_map = WantedServers(idl)
  BY DEF Ntpq, NtpqDone, NtpqRevise, NtpqUnconfig, NtpqServer, NtpqUntrust, NtpqTrust,
         NtpqStep, ConfigInv, CachesRead
<1>2. UNCHANGED ServersWanted /\ g_ntpa_map = ServersSeen
  BY <1>1 DEF ServersWanted, ServersSeen
<1>3. ASSUME pc' = "ntpq"
      PROVE  UNCHANGED ServersSeen /\ UNCHANGED (pc \notin {"boot", "loop"})
  BY <1>1, <1>3 DEF ServersSeen
<1>4. ASSUME NEW a \in Assocs, NEW ok1 \in BOOLEAN, NEW ok2 \in BOOLEAN,
             NtpqRevise(a, ok1, ok2)
      PROVE  Replica!Install(a)
  <2>1. pc' = "ntpq" /\ Outcome(ok1 /\ ok2) /\ (ok1 /\ ok2) \in BOOLEAN
    BY <1>1, <1>4 DEF NtpqRevise, NtpqStep
  <2>2. ok1 /\ ok2
    BY <1>1, <2>1, OutcomeFault
  <2>3. ntpd'.peers = AddServer(Unconfig(ntpd.peers, a), a)
    BY <1>4, <2>2 DEF NtpqRevise, TypeOK, Ntpd
  <2>4. ServersInUse' = [ServersInUse EXCEPT ![a] = ServersSeen[a]]
    BY <1>2, <2>3, InUse
  <2> QED BY <1>1, <1>2, <1>3, <2>1, <2>4 DEF Replica!Install
<1>5. ASSUME NEW a \in Assocs, NEW ok \in BOOLEAN, NtpqUnconfig(a, ok)
      PROVE  Replica!Remove(a)
  <2>1. pc' = "ntpq" /\ Outcome(ok)
    BY <1>1, <1>5 DEF NtpqUnconfig, NtpqStep
  <2>2. ok
    BY <1>1, <2>1, OutcomeFault
  <2>3. ntpd'.peers = Unconfig(ntpd.peers, a)
    BY <1>5, <2>2 DEF NtpqUnconfig, TypeOK, Ntpd
  <2>4. ServersInUse' = [ServersInUse EXCEPT ![a] = None]
    BY <2>3, InUse
  <2> QED BY <1>1, <1>2, <1>3, <2>1, <2>4 DEF Replica!Remove
<1>6. ASSUME NEW a \in Assocs, NEW ok \in BOOLEAN, NtpqServer(a, ok)
      PROVE  Replica!Install(a) \/ UNCHANGED Replica!vars
  <2>1. pc' = "ntpq" /\ Outcome(ok)
    BY <1>1, <1>6 DEF NtpqServer, NtpqStep
  <2>2. ok
    BY <1>1, <2>1, OutcomeFault
  <2>3. ntpd'.peers = AddServer(ntpd.peers, a)
    BY <1>6, <2>2 DEF NtpqServer, TypeOK, Ntpd
  <2>4. \/ ServersInUse' = [ServersInUse EXCEPT ![a] = ServersSeen[a]]
        \/ ServersInUse' = ServersInUse
    BY <1>2, <2>3, InUse
  <2> QED BY <1>1, <1>2, <1>3, <2>1, <2>4 DEF Replica!Install, Replica!vars
<1>7. ASSUME NEW ok \in BOOLEAN, NtpqUntrust(ok) \/ NtpqTrust(ok)
      PROVE  UNCHANGED Replica!vars
  <2>1. pc' = "ntpq" /\ ntpd'.peers = ntpd.peers
    BY <1>1, <1>7 DEF NtpqUntrust, NtpqTrust, NtpqStep, TypeOK, Ntpd
  <2>2. UNCHANGED ServersInUse
    BY <2>1 DEF ServersInUse
  <2> QED BY <1>2, <1>3, <2>1, <2>2 DEF Replica!vars
<1>8. CASE NtpqDone
  <2>1. todo = NoCommands /\ pc' = "loop" /\ UNCHANGED ntpd
    BY <1>8 DEF NtpqDone
  <2>2. ServersOwed
    <3>1. faults = 0
      BY <1>8 DEF NtpqDone
    <3> QED BY <1>1, <3>1 DEF NoFaultYet, ConfigInv, NtpdFollows
  <2>3. ServersInUse = ServersSeen
    BY <1>2, <2>1, <2>2, ReplicaTypes DEF ServersOwed, NoCommands, ServersInUse
  <2>4. UNCHANGED ServersSeen /\ UNCHANGED ServersInUse
    BY <1>1, <2>1 DEF ServersSeen, ServersInUse
  <2> QED BY <1>1, <1>2, <2>1, <2>3, <2>4 DEF Replica!Finish, Replica!Next
<1> QED BY <1>4, <1>5, <1>6, <1>7, <1>8 DEF Ntpq, Replica!Next

\* idl.run() fetches the whole configuration; the first one fetched goes with an
\* ntpd that has no servers.
LEMMA ReplicaFetches ==
    ASSUME TypeOK, NoFaultYet, GoneIsEmpty, RunIdl \/ Provision, faults' = 0
    PROVE  Replica!Fetch
<1>1. /\ pc \in {"boot", "loop"} /\ pc' = "check" /\ configured /\ faults = 0
      /\ idl' = db /\ UNCHANGED <<db, configured>>
  BY DEF RunIdl, Provision, NoFaultYet
<1>2. ServersSeen' = ServersWanted /\ UNCHANGED ServersWanted
  BY <1>1 DEF ServersSeen, ServersWanted
<1>3. ntpd'.peers = ntpd.peers
  BY <1>1 DEF RunIdl, Provision, NoFaultYet, GoneIsEmpty, FreshNtpd
<1>4. UNCHANGED ServersInUse
  BY <1>3 DEF ServersInUse
<1> QED BY <1>1, <1>2, <1>4 DEF Replica!Fetch

\* An operator changes what is configured and nothing else.
LEMMA ReplicaChanges ==
    ASSUME TypeOK', Operator
    PROVE  Replica!Change
<1>1. UNCHANGED <<idl, pc, ntpd>>
  BY DEF Operator, SetAuthentication, SetKey, DeleteKey, SetServer, DeleteServer, Edit,
         Configure
<1>2. UNCHANGED ServersSeen /\ UNCHANGED ServersInUse
  BY <1>1 DEF ServersSeen, ServersInUse
<1>3. ServersWanted' \in [Assocs -> Server \cup {None}]
  BY WantedType, EmptyTypes DEF TypeOK, ServersWanted
<1> QED BY <1>1, <1>2, <1>3 DEF Replica!Change, Replica!Contents

\* With one address per row, and up to the first fault, every step of the
\* operator, the daemon and ntpd is a step of NtpReplica or none.
THEOREM ReplicaSteps ==
    ASSUME DistinctAddresses
    PROVE  Spec => Replica!Init /\ [][faults' = 0 => Replica!Next]_Replica!vars
<1>1. Init => Replica!Init
  <2> SUFFICES ASSUME Init PROVE Replica!Init
    OBVIOUS
  <2>1. pc = "boot" /\ ServersSeen = NoServers
    BY DEF Init, ServersSeen
  <2>2. ServersInUse = NoServers
    BY DEF Init, ServersInUse, DeadNtpd, FreshNtpd, NoServers, Addrs
  <2>3. ServersWanted \in [Assocs -> Server \cup {None}]
    BY TypeInit, ReplicaTypes
  <2> QED BY <2>1, <2>2, <2>3
      DEF Replica!Init, Replica!Contents, Replica!Nothing, NoServers
<1>2. ASSUME TypeOK, TypeOK', ConfigInv, GoneIsEmpty, NoFaultYet, [Next]_vars
      PROVE  [faults' = 0 => Replica!Next]_Replica!vars
  <2> SUFFICES ASSUME faults' = 0 PROVE [Replica!Next]_Replica!vars
    OBVIOUS
  <2>1. CASE UNCHANGED <<db, configured, idl, ntpd>> /\ UNCHANGED pc
    BY <2>1 DEF Replica!vars, ServersWanted, ServersSeen, ServersInUse
  <2>2. CASE AwaitConfig
    BY <2>2 DEF AwaitConfig, Replica!vars, ServersWanted, ServersSeen, ServersInUse
  <2>3. CASE CheckUpdates
    BY <2>3 DEF CheckUpdates, Replica!vars, ServersWanted, ServersSeen, ServersInUse
  <2>4. ASSUME NEW ok \in BOOLEAN, ReadKeys(ok) PROVE UNCHANGED Replica!vars
    <3>1. /\ ntpd'.peers = ntpd.peers /\ pc = "readkeys" /\ pc' = "ntpq"
          /\ UNCHANGED <<db, configured, idl>>
      BY <2>4 DEF ReadKeys, TypeOK, Ntpd
    <3> QED BY <3>1 DEF Replica!vars, ServersWanted, ServersSeen, ServersInUse
  <2>5. CASE Operator
    BY <1>2, <2>5, ReplicaChanges DEF Replica!Next
  <2>6. CASE RunIdl \/ Provision
    BY <1>2, <2>6, ReplicaFetches DEF Replica!Next
  <2>7. CASE Ntpq
    BY <1>2, <2>7, ReplicaCommands
  <2>8. ~NtpdDies /\ ~DaemonRestarts
    BY <1>2 DEF NtpdDies, DaemonRestarts, Fault, TypeOK
  <2>9. CASE UNCHANGED vars
    BY <2>1, <2>9 DEF vars
  <2> QED BY <1>2, <2>2, <2>3, <2>4, <2>5, <2>6, <2>7, <2>8, <2>9 DEF Next, Daemon
<1>3. Spec => []GoneIsEmpty
  BY GoneInit, GoneNext, TypeCorrect, PTL DEF Spec
<1>4. Spec => []NoFaultYet
  BY NoFaultInit, NoFaultNext, TypeCorrect, PTL DEF Spec
<1>5. Spec => []ConfigInv
  BY Invariance
<1> QED BY <1>1, <1>2, <1>3, <1>4, <1>5, TypeCorrect, PTL DEF Spec

\* Where no fault can happen the daemon and ntpd implement NtpReplica.
THEOREM ReplicaImplemented ==
    ASSUME DistinctAddresses, MaxFaults = 0 PROVE Spec => ImplementsReplica
<1>1. Spec => Replica!Init /\ [][faults' = 0 => Replica!Next]_Replica!vars
  BY ReplicaSteps
<1>2. TypeOK' => faults' = 0
  BY DEF TypeOK
<1> QED BY <1>1, <1>2, TypeCorrect, PTL DEF ImplementsReplica, Replica!Spec

=============================================================================
