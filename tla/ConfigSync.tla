----------------------------- MODULE ConfigSync -----------------------------
(***************************************************************************)
(* How ops-ntpd carries the configuration in OVSDB to ntpd.                *)
(*                                                                         *)
(* The actors: the operator (CLI or REST) who edits the tables, the daemon *)
(* ops_ntpd.py, which is one sequential process, and ntpd, which is not in *)
(* this repository and is modelled by how ops_ntpd.py uses it.  The daemon *)
(* reads the tables into its IDL replica, computes what to tell ntpd,      *)
(* rewrites the keys file, has ntpd read it (ntpdc readkeys) and sends one *)
(* ntpq command after the other.  The results of ntpdc and ntpq are        *)
(* dropped, and the daemon's maps are already those of the new             *)
(* configuration when the first of them runs.                              *)
(***************************************************************************)
EXTENDS NtpConfig, Naturals

CONSTANTS
    MaxEdits,   \* bound: transactions of the operator
    MaxFaults,  \* bound: faults
    FaultKinds  \* the faults that may happen

ASSUME BoundsAssumption ==
    /\ MaxEdits \in Nat /\ MaxFaults \in Nat
    /\ FaultKinds \subseteq {"command", "ntpd", "restart"}

VARIABLES
    db,         \* the configuration in OVSDB
    configured, \* System:cur_cfg > 0: the startup configuration is restored
    idl,        \* the daemon's replica, as of its last idl.run()
    changed,    \* idl.change_seqno will differ from seqno after idl.run()
    pc,         \* where the daemon is
    g_ntpa_map, \* the servers the daemon takes ntpd to have
    g_ntpk_db,  \* the trusted keys it takes ntpd to have
    auth_state, \* the authentication state of its last pass
    keysFile,   \* the user keys in /etc/ntp/ops_ntp.keys
    todo,       \* the commands of this pass that ntpq has not run yet
    ntpd,       \* the process ntpd
    lost,       \* auxiliary: a command, or ntpd itself, failed the daemon
    edits,      \* edits so far, at most MaxEdits
    faults      \* faults so far, at most MaxFaults

daemonVars == <<g_ntpa_map, g_ntpk_db, auth_state>>
vars == <<db, configured, idl, changed, pc, g_ntpa_map, g_ntpk_db, auth_state,
          keysFile, todo, ntpd, lost, edits, faults>>

Pcs == {"boot", "check", "readkeys", "ntpq", "loop"}

Ntpd == [ up         : BOOLEAN,
          authorised : BOOLEAN,  \* knows the daemon's control key answer
          peers      : [Addrs -> Server \cup {None}],
          keys       : [KeyIds -> Passwords \cup {None}],
          trusted    : SUBSET KeyIds ]

\* ntpd just started with the default configuration and keys file: it has the
\* control key and nothing else.
FreshNtpd ==
    [up |-> TRUE, authorised |-> TRUE, peers |-> [x \in Addrs |-> None],
     keys |-> NoKeys, trusted |-> {}]

DeadNtpd == [FreshNtpd EXCEPT !.up = FALSE, !.authorised = FALSE]

TypeOK ==
    /\ db \in Config
    /\ configured \in BOOLEAN
    /\ idl \in Config
    /\ changed \in BOOLEAN
    /\ pc \in Pcs
    /\ g_ntpa_map \in [Assocs -> Server \cup {None}]
    /\ g_ntpk_db \in [KeyIds -> Passwords \cup {None}]
    /\ auth_state \in BOOLEAN
    /\ keysFile \in [KeyIds -> Passwords \cup {None}]
    /\ todo \in Batch
    /\ ntpd \in Ntpd
    /\ lost \in BOOLEAN
    /\ edits \in 0..MaxEdits
    /\ faults \in 0..MaxFaults

\* The daemon starts while the system boots; the stored configuration may
\* be restored already or later.
Init ==
    /\ db \in {c \in Config : References(c)}
    /\ configured \in BOOLEAN
    /\ idl = NoConfig
    /\ changed = TRUE
    /\ pc = "boot"
    /\ g_ntpa_map = NoServers
    /\ g_ntpk_db = NoKeys
    /\ auth_state = FALSE
    /\ keysFile = NoKeys
    /\ todo = NoCommands
    /\ ntpd = DeadNtpd
    /\ lost = FALSE
    /\ edits = 0
    /\ faults = 0

-----------------------------------------------------------------------------
(* The operator.  Every transaction changes a monitored column, so the     *)
(* daemon's change_seqno moves even when a later one undoes it.            *)

Edit(c) ==
    /\ edits < MaxEdits
    /\ edits' = edits + 1
    /\ db' = c
    /\ changed' = TRUE
    /\ UNCHANGED <<configured, idl, pc, daemonVars, keysFile, todo, ntpd, lost,
                   faults>>

SetAuthentication == Edit(AuthToggled(db))

SetKey(k, row) == Edit(KeySet(db, k, row))

DeleteKey(k) == Edit(KeyDeleted(db, k))

SetServer(a, s) == MayRefer(db, s) /\ Edit(ServerSet(db, a, s))

DeleteServer(a) == Edit(ServerDeleted(db, a))

\* cfgd sets System:cur_cfg when the startup configuration is restored.
Configure ==
    /\ ~configured
    /\ configured' = TRUE
    /\ changed' = TRUE
    /\ UNCHANGED <<db, idl, pc, daemonVars, keysFile, todo, ntpd, lost, edits,
                   faults>>

Operator ==
    \/ SetAuthentication
    \/ \E k \in KeyIds : DeleteKey(k) \/ \E row \in KeyRow : SetKey(k, row)
    \/ \E a \in Assocs : DeleteServer(a) \/ \E s \in Server : SetServer(a, s)
    \/ Configure

-----------------------------------------------------------------------------
(* The daemon: provisioning.                                               *)

\* idl.run() of the provisioning loop, the system not being configured yet.
AwaitConfig ==
    /\ pc = "boot"
    /\ changed
    /\ ~configured
    /\ idl' = db
    /\ changed' = FALSE
    /\ UNCHANGED <<db, configured, pc, daemonVars, keysFile, todo, ntpd, lost,
                   edits, faults>>

\* The system is configured: a new control key answer, new files, and ntpd is
\* started.  The clean-up before looks for 'ntpd -c' in the list of processes
\* and does not find an ntpd that ops-ntpd started ('ntpd -I eth0 -c ...'), so
\* such an ntpd goes on, with the old answer, and the new one cannot bind.
Provision ==
    /\ pc = "boot"
    /\ changed
    /\ configured
    /\ idl' = db
    /\ changed' = FALSE
    /\ keysFile' = NoKeys
    /\ ntpd' = IF ntpd.up THEN [ntpd EXCEPT !.authorised = FALSE] ELSE FreshNtpd
    /\ lost' = ntpd.up
    /\ pc' = "check"
    /\ UNCHANGED <<db, configured, daemonVars, todo, edits, faults>>

-----------------------------------------------------------------------------
(* The daemon: a pass over the tables.                                     *)

\* idl.run() of the main loop, something having changed.
RunIdl ==
    /\ pc = "loop"
    /\ changed
    /\ idl' = db
    /\ changed' = FALSE
    /\ pc' = "check"
    /\ UNCHANGED <<db, configured, daemonVars, keysFile, todo, ntpd, lost, edits,
                   faults>>

\* ops_ntpd_check_updates_from_ovsdb up to the first command.
CheckUpdates ==
    LET servers == WantedServers(idl)
        keys    == WantedKeys(idl)
    IN  /\ pc = "check"
        /\ auth_state' = idl.auth
        /\ g_ntpa_map' = servers
        /\ g_ntpk_db' = keys
        /\ keysFile' = keys
        /\ todo' = [ revise   |-> Revised(servers, auth_state # idl.auth),
                     unconfig |-> Unconfigured(g_ntpa_map, servers),
                     server   |-> Added(g_ntpa_map, servers),
                     untrust  |-> Untrusted(g_ntpk_db, keys),
                     trust    |-> Trusted(keys) ]
        /\ pc' = "readkeys"
        /\ UNCHANGED <<db, configured, idl, changed, ntpd, lost, edits, faults>>

-----------------------------------------------------------------------------
(* The daemon: ntpdc and ntpq.  A command has its effect or it has not; if *)
(* ntpd is not there, or does not know the control key, it never has.      *)

Fault(kind) ==
    /\ kind \in FaultKinds
    /\ faults < MaxFaults
    /\ faults' = faults + 1

Reachable == ntpd.up /\ ntpd.authorised

Outcome(ok) ==
    IF ok
      THEN /\ Reachable
           /\ UNCHANGED <<lost, faults>>
      ELSE /\ lost' = TRUE
           /\ IF Reachable THEN Fault("command") ELSE UNCHANGED faults

\* ntpd: `unconfig addr' and `server addr ...'.  A server ntpd has already is
\* left as it is, which is why the daemon removes one before it changes it.
Unconfig(peers, a) == [peers EXCEPT ![AddrOf[a]] = None]

AddServer(peers, a) ==
    [peers EXCEPT ![AddrOf[a]] = IF @ = None THEN g_ntpa_map[a] ELSE @]

\* Seeded fault: ntpd is not made to read the file.
ReadKeysBug(ok) ==
    /\ pc = "readkeys"
    /\ Outcome(ok)
    /\ pc' = "ntpq"
    /\ UNCHANGED <<db, configured, idl, changed, daemonVars, keysFile, todo, ntpd,
                   edits>>

\* ntpdc readkeys: the keys of the file replace those ntpd has.
ReadKeys(ok) ==
    /\ pc = "readkeys"
    /\ Outcome(ok)
    /\ ntpd' = IF ok THEN [ntpd EXCEPT !.keys = keysFile] ELSE ntpd
    /\ pc' = "ntpq"
    /\ UNCHANGED <<db, configured, idl, changed, daemonVars, keysFile, todo,
                   edits>>

NtpqStep(ok) ==
    /\ pc = "ntpq"
    /\ Outcome(ok)
    /\ UNCHANGED <<db, configured, idl, changed, pc, daemonVars, keysFile, edits>>

\* The two commands for a server with a key, authentication having been
\* enabled or disabled; ok1 and ok2 are their outcomes.
NtpqRevise(a, ok1, ok2) ==
    LET removed == IF ok1 THEN Unconfig(ntpd.peers, a) ELSE ntpd.peers
    IN  /\ a \in todo.revise
        /\ NtpqStep(ok1 /\ ok2)
        /\ Reachable \/ (~ok1 /\ ~ok2)
        /\ todo' = [todo EXCEPT !.revise = @ \ {a}]
        /\ ntpd' = [ntpd EXCEPT
                      !.peers = IF ok2 THEN AddServer(removed, a) ELSE removed]

NtpqUnconfig(a, ok) ==
    /\ todo.revise = {}
    /\ a \in todo.unconfig
    /\ NtpqStep(ok)
    /\ todo' = [todo EXCEPT !.unconfig = @ \ {a}]
    /\ ntpd' = IF ok THEN [ntpd EXCEPT !.peers = Unconfig(@, a)] ELSE ntpd

\* Seeded fault: add_configs before delete_configs.
NtpqServerBug(a, ok) ==
    /\ todo.revise = {}
    /\ a \in todo.server
    /\ NtpqStep(ok)
    /\ todo' = [todo EXCEPT !.server = @ \ {a}]
    /\ ntpd' = IF ok THEN [ntpd EXCEPT !.peers = AddServer(@, a)] ELSE ntpd

NtpqServer(a, ok) ==
    /\ todo.revise = {} /\ todo.unconfig = {}
    /\ a \in todo.server
    /\ NtpqStep(ok)
    /\ todo' = [todo EXCEPT !.server = @ \ {a}]
    /\ ntpd' = IF ok THEN [ntpd EXCEPT !.peers = AddServer(@, a)] ELSE ntpd

ServersDone == todo.revise = {} /\ todo.unconfig = {} /\ todo.server = {}

NtpqUntrust(ok) ==
    /\ ServersDone
    /\ todo.untrust # {}
    /\ NtpqStep(ok)
    /\ todo' = [todo EXCEPT !.untrust = {}]
    /\ ntpd' = IF ok THEN [ntpd EXCEPT !.trusted = @ \ todo.untrust] ELSE ntpd

NtpqTrust(ok) ==
    /\ ServersDone
    /\ todo.untrust = {}
    /\ todo.trust # {}
    /\ NtpqStep(ok)
    /\ todo' = [todo EXCEPT !.trust = {}]
    /\ ntpd' = IF ok THEN [ntpd EXCEPT !.trusted = @ \cup todo.trust] ELSE ntpd

\* Seeded fault: seqno is set from a replica that has run again meanwhile, so
\* the edits of the pass count as seen.
NtpqDoneBug ==
    /\ pc = "ntpq"
    /\ todo = NoCommands
    /\ pc' = "loop"
    /\ changed' = FALSE
    /\ UNCHANGED <<db, configured, idl, daemonVars, keysFile, todo, ntpd, lost,
                   edits, faults>>

\* ntpq ends; the main loop goes on.
NtpqDone ==
    /\ pc = "ntpq"
    /\ todo = NoCommands
    /\ pc' = "loop"
    /\ UNCHANGED <<db, configured, idl, changed, daemonVars, keysFile, todo, ntpd,
                   lost, edits, faults>>

Ntpq ==
    \/ \E a \in Assocs, ok \in BOOLEAN :
          \/ NtpqUnconfig(a, ok)
          \/ NtpqServer(a, ok)
          \/ \E ok2 \in BOOLEAN : NtpqRevise(a, ok, ok2)
    \/ \E ok \in BOOLEAN : NtpqUntrust(ok) \/ NtpqTrust(ok)
    \/ NtpqDone

Daemon ==
    \/ AwaitConfig
    \/ Provision
    \/ RunIdl
    \/ CheckUpdates
    \/ \E ok \in BOOLEAN : ReadKeys(ok)
    \/ Ntpq

-----------------------------------------------------------------------------
(* Faults.                                                                 *)

\* ntpd ends; nothing in the daemon notices or starts it again.
NtpdDies ==
    /\ Fault("ntpd")
    /\ ntpd.up
    /\ ntpd' = DeadNtpd
    /\ lost' = TRUE
    /\ UNCHANGED <<db, configured, idl, changed, pc, daemonVars, keysFile, todo,
                   edits>>

\* ops-ntpd ends, at the exit command or of an exception, and is started again;
\* ntpd survives it.  A new replica always starts with a change.
DaemonRestarts ==
    /\ Fault("restart")
    /\ pc # "boot"
    /\ pc' = "boot"
    /\ idl' = NoConfig
    /\ changed' = TRUE
    /\ g_ntpa_map' = NoServers
    /\ g_ntpk_db' = NoKeys
    /\ auth_state' = FALSE
    /\ todo' = NoCommands
    /\ UNCHANGED <<db, configured, keysFile, ntpd, lost, edits>>

-----------------------------------------------------------------------------

Next == Operator \/ Daemon \/ NtpdDies \/ DaemonRestarts

\* The daemon's loop always goes on: nothing in it waits for another process
\* but for the commands, which end.  The operator and the faults owe nothing.
Fairness == WF_vars(Daemon)

Spec == Init /\ [][Next]_vars

FairSpec == Spec /\ Fairness

-----------------------------------------------------------------------------
(* Properties.                                                             *)

ServersInUse == [a \in Assocs |-> ntpd.peers[AddrOf[a]]]

\* ntpd has the servers, passwords and trusted keys that c asks for.
NtpdAgrees(c) ==
    /\ ServersInUse = WantedServers(c)
    /\ ntpd.keys = WantedKeys(c)
    /\ ntpd.trusted = Present(WantedKeys(c))

\* The daemon has nothing left to do for the configuration in OVSDB.
Settled == pc = "loop" /\ ~changed

\* When the daemon rests (ops_ntpd_init finds seqno = change_seqno) and no
\* command failed it, ntpd has exactly the configuration in OVSDB: no pass
\* drops, duplicates or misorders the unconfig, server, trustedkey commands.
InSync == Settled /\ ~lost => NtpdAgrees(db)

\* ntpd is told to trust a key only when it has the key's password: readkeys
\* comes before ntpq in ops_ntpd_sync_updates_to_ntpd, and a key that leaves
\* the file is untrusted in the same pass.
TrustedKeysLoaded ==
    pc \in {"ntpq", "loop"} /\ ~lost =>
        \A k \in ntpd.trusted : ntpd.keys[k] # None \/ k \in todo.untrust

\* ntpq never takes a server from ntpd that is still wanted, unless it is to
\* add it again later in the same pass (:config unconfig before :config server).
RemovedOnlyToReplace ==
    [][\A a \in Assocs :
          /\ ntpd.peers[AddrOf[a]] # None
          /\ ntpd'.up
          /\ ntpd'.peers[AddrOf[a]] = None
          => g_ntpa_map[a] = None \/ a \in todo'.server \/ lost']_vars

\* Comment ops_ntpd.py:848: `Kill zombie ntpd process and Start a new ntpd
\* daemon'.  After it, ntpd is one that takes this daemon's commands.
ProvisionedNtpdObeys == [][pc = "boot" /\ pc' = "check" => ntpd'.authorised]_vars

\* DESIGN.md:41: with authentication enabled ntpd `uses only those servers'
\* that have a trusted key.  ntpd uses a server without a key as it is.
OnlyAuthenticatedServers ==
    Settled /\ ~lost /\ db.auth =>
        \A a \in Present(ServersInUse) : ServersInUse[a].key \in ntpd.trusted

-----------------------------------------------------------------------------
(* The servers as an NtpReplica, when no command fails and every row has    *)
(* an address of its own.                                                   *)

ServersWanted == IF configured THEN WantedServers(db) ELSE NoServers

ServersSeen == IF pc = "boot" THEN NoServers ELSE WantedServers(idl)

Replica == INSTANCE NtpReplica WITH
    Items <- Assocs, Values <- Server,
    want <- ServersWanted, seen <- ServersSeen, have <- ServersInUse,
    busy <- pc \notin {"boot", "loop"}

\* The passes of ops_ntpd_check_updates_from_ovsdb and the commands of
\* ops_ntpd_sync_updates_to_ntpd move ntpd's servers as NtpReplica allows:
\* through nothing but absence and the fetched value, one configuration at a
\* time.
ImplementsReplica == Replica!Spec

\* A server row that stays as it is reaches ntpd, and one that stays deleted
\* leaves it, whatever else is edited (ops_ntpd_init's loop never rests on a
\* change, even one that arrives while ntpq runs).
ServersDelivered == Replica!Delivered

\* In the end ntpd has the servers, the passwords and the trusted keys of the
\* configuration in OVSDB, if the system is configured and the edits stop.
EventuallyInSync == <>[](~configured \/ NtpdAgrees(db))

-----------------------------------------------------------------------------
(* The inductive invariant behind InSync (ConfigSync_proofs).  It needs     *)
(* that every row has an address of its own.                               *)

\* Without a pending change the replica is the database.
ReplicaFresh == ~changed => idl = db

\* Before a pass of a new daemon its maps are empty; after the computation of
\* a pass they are the configuration that was read.
CachesRead ==
    /\ pc = "boot" => g_ntpa_map = NoServers /\ g_ntpk_db = NoKeys
    /\ pc \in {"readkeys", "ntpq", "loop"} =>
          /\ g_ntpa_map = WantedServers(idl)
          /\ g_ntpk_db = WantedKeys(idl)
          /\ keysFile = g_ntpk_db

\* The commands of a pass lead to the daemon's maps: what is added is wanted,
\* a wanted server that is removed is added again, no wanted key is untrusted.
BatchSound ==
    /\ pc \in {"boot", "check", "loop"} => todo = NoCommands
    /\ todo.revise \cup todo.server \subseteq Present(g_ntpa_map)
    /\ todo.unconfig \cap Present(g_ntpa_map) \subseteq todo.server
    /\ todo.untrust \cap Present(g_ntpk_db) = {}
    /\ todo.trust \subseteq Present(g_ntpk_db)

\* A server of ntpd differs from the daemon's map only while a command that
\* mends it is waiting.
ServersOwed ==
    \A a \in Assocs :
        \/ ServersInUse[a] = g_ntpa_map[a]
        \/ a \in todo.server /\ ServersInUse[a] = None
        \/ a \in todo.unconfig \cup todo.revise

KeysOwed ==
    /\ pc # "readkeys" => ntpd.keys = g_ntpk_db
    /\ ntpd.trusted \ todo.untrust \subseteq Present(g_ntpk_db)
    /\ Present(g_ntpk_db) \subseteq ntpd.trusted \cup todo.trust

NtpdFollows == ~lost /\ pc # "boot" => Reachable /\ ServersOwed /\ KeysOwed

\* At every step ntpd is what the daemon takes it to be, up to the commands of
\* the pass that are still to run, unless a command failed.
ConfigInv == ReplicaFresh /\ CachesRead /\ BatchSound /\ NtpdFollows

=============================================================================
