------------------------------- MODULE NtpCli -------------------------------
(***************************************************************************)
(* The commands of ntp_vty.c, those that configure and those that show     *)
(* what is configured.                                                     *)
(*                                                                         *)
(* Every vtysh session has a replica of OVSDB of its own.  A command is    *)
(* checked against the replica and becomes one transaction; OVSDB applies  *)
(* the transactions of all sessions one after the other, and by then a row *)
(* the command found may have gone, or have been inserted by another.      *)
(*                                                                         *)
(* A row is a function of its columns; `id' is its _uuid, here the number  *)
(* of the transaction that inserted it.  A command writes at most one row. *)
(***************************************************************************)
EXTENDS Naturals, Sequences, FiniteSets, Functions

CONSTANTS
    Sessions,
    InputKeys,      \* key ids that users type
    InputPwLens,    \* lengths of the passwords they type; a password is its length
    Names,          \* server names they type
    NameLen,        \* the length of each name
    Numeric,        \* the names of digits and punctuation only
    HostAddresses,  \* those of them that are IPv4 addresses of a host
    InputVersions,  \* versions they type
    MaxServers,     \* NTP_ASSOC_MAX_SERVERS
    None,           \* no row, no transaction
    Unset,          \* an option that is not given
    NoKey,          \* a server without a key
    MaxCommands     \* bound: commands issued

KeyIdMin == 1       \* NTP_KEY_KEY_ID_MIN
KeyIdMax == 65534   \* NTP_KEY_KEY_ID_MAX
PwLenMin == 8       \* NTP_KEY_KEY_PASSWORD_LEN_MIN
PwLenMax == 16      \* NTP_KEY_KEY_PASSWORD_LEN_MAX
MaxNameLen == 57    \* MAX_CHARS_IN_NTP_SERVER_NAME
VersionDefault == 3 \* NTP_ASSOC_ATTRIB_VERSION_DEFAULT
VersionMax == 4     \* NTP_ASSOC_ATTRIB_VERSION_4

ASSUME CliAssumption ==
    /\ InputKeys \subseteq Nat /\ InputPwLens \subseteq Nat
    /\ NameLen \in [Names -> Nat \ {0}]
    /\ HostAddresses \subseteq Numeric /\ Numeric \subseteq Names
    /\ MaxServers \in Nat \ {0} /\ MaxCommands \in Nat
    /\ IsFiniteSet(Sessions) /\ IsFiniteSet(Names) /\ IsFiniteSet(InputKeys)
    /\ VersionDefault \in InputVersions /\ InputVersions \subseteq Nat
    /\ Unset \notin InputVersions \cup InputKeys /\ None \notin InputPwLens

VARIABLES
    db,         \* OVSDB: the tables System, NTP_Key and NTP_Association
    replica,    \* each session's copy of it
    pending,    \* each session's transaction on its way to OVSDB
    commands    \* commands issued so far, at most MaxCommands

vars == <<db, replica, pending, commands>>

-----------------------------------------------------------------------------
(* Tables and transactions.                                                *)

Ids == 0..MaxCommands

KeyRef == [key : InputKeys, id : Ids] \cup {NoKey}

KeyRow == [id : Ids, pw : InputPwLens, trust : BOOLEAN]
ServerRow == [id : Ids, key : KeyRef, prefer : BOOLEAN, version : InputVersions]

Tables == [ system : [{"system"} -> [id : {0}, auth : BOOLEAN]],
            key    : [InputKeys -> KeyRow \cup {None}],
            server : [Names -> ServerRow \cup {None}] ]

EmptyDb == [ system |-> [x \in {"system"} |-> [id |-> 0, auth |-> FALSE]],
             key    |-> [k \in InputKeys |-> None],
             server |-> [n \in Names |-> None] ]

\* The columns written of a new and of an old row of NTP_Key and NTP_Association.
NewKeyCols == [pw : InputPwLens, trust : BOOLEAN]
KeyCols == [pw : InputPwLens] \cup [trust : BOOLEAN]

NewServerCols == [prefer : BOOLEAN, version : InputVersions, key : KeyRef]
ServerCols == NewServerCols \cup [prefer : BOOLEAN, version : InputVersions]

\* What a transaction writes: the columns cols of the row with _uuid id at place
\* `at' of a table.  There is no id for a row to insert, no cols for one to delete.
Write(table, at, id, cols) == [table |-> table, at |-> at, id |-> id, cols |-> cols]

Insert(table, at, cols) == Write(table, at, None, cols)

Delete(table, at, row) == Write(table, at, row.id, None)

Update(table, at, row, cols) == Write(table, at, row.id, cols)

RowWrites(table, places, newCols, cols) ==
    [table : {table}, at : places, id : {None}, cols : newCols]
    \cup [table : {table}, at : places, id : Ids, cols : cols \cup {None}]

Writes ==
    [table : {"system"}, at : {"system"}, id : {0}, cols : [auth : BOOLEAN]]
    \cup RowWrites("key", InputKeys, NewKeyCols, KeyCols)
    \cup RowWrites("server", Names, NewServerCols, ServerCols)

ASSUME NoneAssumption ==
    /\ None \notin Ids
    /\ None \notin KeyRow /\ None \notin ServerRow
    /\ None \notin [auth : BOOLEAN] /\ None \notin NewKeyCols /\ None \notin KeyCols
    /\ None \notin ServerCols
    /\ None \notin Writes

ASSUME NoKeyAssumption == NoKey \notin [key : InputKeys, id : Ids]

\* f, and g where f says nothing (the @@ of TLC, as a definition to prove with).
Over(f, g) ==
    [x \in DOMAIN f \cup DOMAIN g |-> IF x \in DOMAIN f THEN f[x] ELSE g[x]]

Refers(r, k) == r # None /\ r.key # NoKey /\ r.key.key = k

WithoutRefs(servers, k) ==
    [n \in Names |-> IF Refers(servers[n], k) THEN [servers[n] EXCEPT !.key = NoKey]
                                              ELSE servers[n]]

\* Row w.at of the table after w, new being the _uuid for a row to insert.  An
\* insert fails if the row is there: this takes the schema to have key_id, and
\* address with vrf, for indexes of their tables.  A row that is gone is not
\* written.
Hits(row, w) == w.id # None /\ row # None /\ row.id = w.id

RowAfter(row, w, new) ==
    CASE w.id = None /\ row = None -> Over([id |-> new], w.cols)
      [] Hits(row, w) -> (IF w.cols = None THEN None ELSE Over(w.cols, row))
      [] OTHER -> row

Applied(c, w, new) ==
    LET after == RowAfter(c[w.table][w.at], w, new)
        written == [c EXCEPT ![w.table][w.at] = after]
    IN  IF w.table = "key" /\ after = None
          THEN [written EXCEPT !.server = WithoutRefs(@, w.at)]
          ELSE written

\* A reference of w to a row of NTP_Key that is gone.
Dangling(c, w) ==
    /\ w.table = "server" /\ w.cols # None
    /\ "key" \in DOMAIN w.cols
    /\ w.cols.key # NoKey
    /\ \/ c.key[w.cols.key.key] = None
       \/ c.key[w.cols.key.key].id # w.cols.key.id

-----------------------------------------------------------------------------
(* The commands: what each writes, given the session's replica r; None if  *)
(* it is refused or finds nothing to do.                                   *)

\* Seeded fault: one too many, the daemon's own key.
ValidKeyIdBug(k) == KeyIdMin <= k /\ k <= KeyIdMax + 1

\* Seeded fault: only the daemon's own key is excluded.
ValidKeyIdZero(k) == k <= KeyIdMax

ValidKeyId(k) == KeyIdMin <= k /\ k <= KeyIdMax

ValidPassword(p) == PwLenMin <= p /\ p <= PwLenMax

ValidName(n) ==
    /\ NameLen[n] <= MaxNameLen
    /\ n \in Numeric => n \in HostAddresses

\* ntp_ovsrec_get_auth_key and ntp_ovsrec_get_assoc: the row of that id or name,
\* or None.  There is one VRF.
GetAuthKey(r, k) == r.key[k]

GetAssoc(r, n) == r.server[n]

\* vtysh_ovsdb_ntp_auth_enable_set
AuthEnable(r, no) ==
    Update("system", "system", r.system["system"], [auth |-> ~no])

\* vtysh_ovsdb_ntp_auth_key_set
AuthKey(r, k, p) ==
    IF ~ValidKeyId(k) \/ ~ValidPassword(p) THEN None
    ELSE IF GetAuthKey(r, k) = None
      THEN Insert("key", k, [pw |-> p, trust |-> FALSE])
      ELSE Update("key", k, GetAuthKey(r, k), [pw |-> p])

NoAuthKey(r, k) ==
    IF ValidKeyId(k) /\ GetAuthKey(r, k) # None
      THEN Delete("key", k, GetAuthKey(r, k))
      ELSE None

\* vtysh_ovsdb_ntp_trusted_key_set
TrustedKey(r, k, no) ==
    IF ValidKeyId(k) /\ GetAuthKey(r, k) # None
      THEN Update("key", k, GetAuthKey(r, k), [trust |-> ~no])
      ELSE None

ServerCount(r) == Cardinality({n \in Names : r.server[n] # None})

\* Seeded fault: off by one.
FullBug(r) == ServerCount(r) > MaxServers

\* ntp_server_check_max_number_of_servers
Full(r) == ServerCount(r) >= MaxServers

\* ntp_server_sanitize_parameters; an option is Unset when it is not given.
Sane(r, n, version, k) ==
    /\ ValidName(n)
    /\ k # Unset => ValidKeyId(k) /\ GetAuthKey(r, k) # None
    /\ version # Unset => VersionDefault <= version /\ version <= VersionMax

\* ntp_server_replace_parameters: the attributes of the row, or the defaults of
\* a new one, with the options given; the key is written only if it is given.
Columns(r, old, prefer, version, k) ==
    LET attributes == [ prefer  |-> prefer \/ old.prefer,
                        version |-> IF version # Unset THEN version ELSE old.version ]
    IN  IF k = Unset THEN attributes
        ELSE Over([key |-> [key |-> k, id |-> GetAuthKey(r, k).id]], attributes)

\* Seeded fault: a new row has no default version.
NewServerBug == [key |-> NoKey, prefer |-> FALSE, version |-> Unset]

NewServer == [key |-> NoKey, prefer |-> FALSE, version |-> VersionDefault]

\* vtysh_ovsdb_ntp_server_set
Server(r, n, prefer, version, k) ==
    IF ~Sane(r, n, version, k) THEN None
    ELSE IF GetAssoc(r, n) # None
      THEN Update("server", n, GetAssoc(r, n),
                  Columns(r, GetAssoc(r, n), prefer, version, k))
    ELSE IF Full(r) THEN None
    ELSE Insert("server", n, Over(Columns(r, NewServer, prefer, version, k), NewServer))

NoServer(r, n) ==
    IF ValidName(n) /\ GetAssoc(r, n) # None
      THEN Delete("server", n, GetAssoc(r, n))
      ELSE None

-----------------------------------------------------------------------------
(* The system.                                                             *)

TypeOK ==
    /\ db \in Tables
    /\ replica \in [Sessions -> Tables]
    /\ pending \in [Sessions -> Writes \cup {None}]
    /\ commands \in 0..MaxCommands

Init ==
    /\ db = EmptyDb
    /\ replica = [s \in Sessions |-> EmptyDb]
    /\ pending = [s \in Sessions |-> None]
    /\ commands = 0

\* The session is at its prompt.
Ready(s) == pending[s] = None /\ commands < MaxCommands

\* A session issues a command; one that is refused changes nothing.
Issue(s, w) ==
    /\ w # None
    /\ commands' = commands + 1
    /\ pending' = [pending EXCEPT ![s] = w]
    /\ UNCHANGED <<db, replica>>

IssueAuth(s) ==
    /\ Ready(s)
    /\ \E no \in BOOLEAN : Issue(s, AuthEnable(replica[s], no))

IssueKey(s) ==
    /\ Ready(s)
    /\ \E k \in InputKeys :
          \/ \E p \in InputPwLens : Issue(s, AuthKey(replica[s], k, p))
          \/ Issue(s, NoAuthKey(replica[s], k))
          \/ \E no \in BOOLEAN : Issue(s, TrustedKey(replica[s], k, no))

IssueServer(s) ==
    /\ Ready(s)
    /\ \E n \in Names :
          \/ \E prefer \in BOOLEAN, version \in InputVersions \cup {Unset},
                k \in InputKeys \cup {Unset} :
                  Issue(s, Server(replica[s], n, prefer, version, k))
          \/ Issue(s, NoServer(replica[s], n))

\* Seeded fault: a dangling reference is stored.
CommitBug(s) ==
    /\ pending[s] # None
    /\ db' = Applied(db, pending[s], commands)
    /\ replica' = [replica EXCEPT ![s] = db']
    /\ pending' = [pending EXCEPT ![s] = None]
    /\ UNCHANGED commands

\* OVSDB applies the transaction, and the session's replica is up to date when
\* cli_do_config_finish returns.  A transaction with a dangling reference fails
\* or loses the reference, as the schema has it.
Commit(s) ==
    /\ pending[s] # None
    /\ LET w == pending[s]
       IN  IF Dangling(db, w)
             THEN \/ db' = db
                  \/ db' = Applied(db, [w EXCEPT !.cols.key = NoKey], commands)
             ELSE db' = Applied(db, w, commands)
    /\ replica' = [replica EXCEPT ![s] = db']
    /\ pending' = [pending EXCEPT ![s] = None]
    /\ UNCHANGED commands

\* The replica catches up between two commands.
Refresh(s) ==
    /\ pending[s] = None
    /\ replica' = [replica EXCEPT ![s] = db]
    /\ UNCHANGED <<db, pending, commands>>

Next ==
    \E s \in Sessions :
        IssueAuth(s) \/ IssueKey(s) \/ IssueServer(s) \/ Commit(s) \/ Refresh(s)

Spec == Init /\ [][Next]_vars

-----------------------------------------------------------------------------
(* Loops over the rows of a table.                                         *)

Present(f) == {x \in DOMAIN f : f[x] # None}

\* The orders in which a loop may come to the rows of table f: any.
Orders(f) == Bijection(1..Cardinality(Present(f)), Present(f))

\* What the rounds of a loop make of st, one for each row.
Loop(round(_, _), st, order) ==
    LET after[i \in 0..Len(order)] ==
            IF i = 0 THEN st ELSE round(after[i - 1], order[i])
    IN  after[Len(order)]

-----------------------------------------------------------------------------
(* show running-config (vtysh_config_context_ntp_clientcallback) and what  *)
(* a session makes of it when it is typed in again.                        *)

Do(c, w) == IF w = None THEN c ELSE Applied(c, w, 0)

RestoreKey(c, row, k) ==
    LET keyed == Do(c, AuthKey(c, k, row.pw))
    IN  IF row.trust THEN Do(keyed, TrustedKey(keyed, k, FALSE)) ELSE keyed

RestoreServer(c, row, n) ==
    Do(c, Server(c, n, row.prefer,
                 IF row.version # VersionDefault THEN row.version ELSE Unset,
                 IF row.key # NoKey THEN row.key.key ELSE Unset))

\* The lines of the keys and of the servers of c, typed in on the tables d.
RestoreKeys(c, d, order) ==
    Loop(LAMBDA e, k : RestoreKey(e, c.key[k], k), d, order)

RestoreServers(c, d, order) ==
    Loop(LAMBDA e, n : RestoreServer(e, c.server[n], n), d, order)

\* Seeded fault: the servers are printed before the keys.
RestoredBug(c, keys, servers) ==
    RestoreKeys(c, RestoreServers(c, EmptyDb, servers), keys)

\* OVSDB after the lines of the running configuration of c, on a new system; the
\* two loops print the rows in the orders given.
Restored(c, keys, servers) ==
    RestoreServers(c, RestoreKeys(c, EmptyDb, keys), servers)

-----------------------------------------------------------------------------
(* The stored configuration, as NtpConfig and ConfigSync see it.           *)

Opts == [prefer : BOOLEAN, version : InputVersions]

C == INSTANCE NtpConfig WITH
        Assocs <- Names, AddrOf <- [n \in Names |-> n], KeyIds <- InputKeys,
        Passwords <- InputPwLens

ASSUME ConfigAssumption ==
    NoKey \notin InputKeys /\ None \notin C!Server /\ None \notin C!KeyRow

Config(c) ==
    [ auth   |-> c.system["system"].auth,
      keys   |-> [k \in InputKeys |->
                    IF c.key[k] = None THEN None
                    ELSE [pw |-> c.key[k].pw, trust |-> c.key[k].trust]],
      assocs |-> [n \in Names |->
                    IF c.server[n] = None THEN None
                    ELSE [ key  |-> IF c.server[n].key = NoKey THEN NoKey
                                    ELSE c.server[n].key.key,
                           opts |-> [prefer  |-> c.server[n].prefer,
                                     version |-> c.server[n].version] ]] ]

-----------------------------------------------------------------------------
(* What the daemon makes of the rows (ops_ntpd_check_updates_from_ovsdb).  *)
(* Its loops take them in any order; a column that is 0 or empty counts as *)
(* absent, and a variable that is not set then keeps its value of the row  *)
(* before.                                                                 *)

Put(map, x, v) == [y \in {x} \cup DOMAIN map |-> IF y = x THEN v ELSE map[y]]

\* A variable of the loops that no row has set.
Unbound == None

ReadKey(c, st, k) ==
    LET id == IF k # 0 THEN k ELSE st.id
        pw == IF c.key[k].pw # 0 THEN c.key[k].pw ELSE st.pw
    IN  [ id |-> id, pw |-> pw,
          map |-> IF c.key[k].trust /\ c.system["system"].auth
                    THEN Put(st.map, id, pw)
                    ELSE st.map ]

\* The map of passwords it takes from the rows of NTP_Key.
ReadKeys(c, order) ==
    Loop(LAMBDA st, k : ReadKey(c, st, k),
         [id |-> Unbound, pw |-> Unbound, map |-> <<>>], order).map

\* The key and the attributes have defaults of their own for every row.
ReadServer(c, st, n) ==
    LET row == c.server[n]
        address == IF NameLen[n] # 0 THEN n ELSE st.address
    IN  [ address |-> address,
          map |-> Put(st.map, address,
                      [ key  |-> IF row.key = NoKey THEN NoKey ELSE row.key.key,
                        opts |-> [ prefer  |-> row.prefer,
                                   version |-> IF row.version = Unset
                                                 THEN VersionDefault
                                                 ELSE row.version ]]) ]

\* The map of servers it takes from the rows of NTP_Association.
ReadServers(c, order) ==
    Loop(LAMBDA st, n : ReadServer(c, st, n),
         [address |-> Unbound, map |-> <<>>], order).map

-----------------------------------------------------------------------------
(* The show commands about what is configured.                             *)

\* vtysh_ovsdb_show_ntp_status
ShowAuthentication(c) == c.system["system"].auth

\* vtysh_ovsdb_show_ntp_trusted_keys
ShowTrustedKeys(c) == {k \in Present(c.key) : c.key[k].trust}

\* vtysh_ovsdb_show_ntp_authentication_keys
ShowAuthenticationKeys(c) == [k \in Present(c.key) |-> c.key[k].pw]

\* vtysh_ovsdb_show_ntp_associations: columns NAME, VER and KEYID.
ShowAssociations(c) ==
    [n \in Present(c.server) |->
        [ version |-> c.server[n].version,
          key     |-> IF c.server[n].key = NoKey THEN NoKey ELSE c.server[n].key.key ]]

-----------------------------------------------------------------------------
(* Properties.                                                             *)

SaneKeys(c) ==
    \A k \in InputKeys : c.key[k] # None =>
        1 <= k /\ k < 65535 /\ 8 <= c.key[k].pw /\ c.key[k].pw <= 16

SaneName(n) == NameLen[n] < 58 /\ (n \in Numeric => n \in HostAddresses)

SaneServers(c) ==
    \A n \in Names : c.server[n] # None => SaneName(n) /\ c.server[n].version \in {3, 4}

\* What commands store is what the rest of the system counts on: key ids that
\* cannot be the daemon's control key 65535 (ops_ntpd.py:68), passwords of 8 to
\* 16 characters, valid names and versions, and keys that exist.
StoredIsSane ==
    SaneKeys(db) /\ SaneServers(db) /\ C!References(Config(db))

\* What the rows hold is what the daemon takes from them, in whatever order it
\* meets them: no stored value is one its loops take for absent, so that the row
\* would get the value of another (ops_ntpd.py:674-716).
DaemonReadsWhatIsStored ==
    /\ \A order \in Orders(db.key) :
          LET map == ReadKeys(db, order)
          IN  /\ DOMAIN map = Present(C!WantedKeys(Config(db)))
              /\ \A k \in DOMAIN map : map[k] = C!WantedKeys(Config(db))[k]
    /\ \A order \in Orders(db.server) :
          LET map == ReadServers(db, order)
          IN  /\ DOMAIN map = Present(db.server)
              /\ \A n \in DOMAIN map : map[n] = C!WantedServers(Config(db))[n]

\* The show commands tell of the configuration the daemon works with: with
\* authentication shown as enabled the trusted keys, their passwords, and the
\* version and key of each server are those the daemon gives to ntpd; the
\* defaults of the two programs agree.
ShownIsUsed ==
    /\ \A order \in Orders(db.key) :
          LET map == ReadKeys(db, order)
          IN  /\ DOMAIN map = IF ShowAuthentication(db) THEN ShowTrustedKeys(db) ELSE {}
              /\ \A k \in DOMAIN map : map[k] = ShowAuthenticationKeys(db)[k]
    /\ \A order \in Orders(db.server) :
          LET map == ReadServers(db, order)
          IN  ShowAssociations(db)
                = [n \in DOMAIN map |->
                     [version |-> map[n].opts.version, key |-> map[n].key]]

\* ntp_client_test.md, `Test addition of more than eight NTP servers': the user
\* can not add more than the maximum (ntp_server_check_max_number_of_servers).
AtMostMaxServers == ServerCount(db) <= MaxServers

\* One of the edits of NtpConfig leads from c to d, or they are the same.
EditOf(c, d) ==
    \/ d = c
    \/ d = C!AuthToggled(c)
    \/ \E k \in InputKeys : d = C!KeyDeleted(c, k)
    \/ \E k \in InputKeys :
          d.keys[k] \in C!KeyRow /\ d = C!KeySet(c, k, d.keys[k])
    \/ \E n \in Names : d = C!ServerDeleted(c, n)
    \/ \E n \in Names :
          d.assocs[n] # None /\ C!MayRefer(c, d.assocs[n])
          /\ d = C!ServerSet(c, n, d.assocs[n])

\* Every transaction, of however many sessions and however stale the replica it
\* was made from, is one of the edits that ConfigSync takes the operator to make.
EditsAsModelled == [][db' # db => EditOf(Config(db), Config(db'))]_db

\* Each session checks the limit against its own replica, so sessions that race
\* exceed it, but by one server each at the most: a session that has inserted
\* sees the others' servers, and is refused until there are fewer.
OvershootBounded == ServerCount(db) < MaxServers + Cardinality(Sessions)

\* The running configuration, typed in on a new system, gives back every key and
\* every server with its options (the order of its lines, and what it leaves out
\* as default, lose nothing), if there are no more servers than may be.
RunningConfigRestores ==
    \A keys \in Orders(db.key), servers \in Orders(db.server) :
        LET old == Config(db)
            new == Config(Restored(db, keys, servers))
        IN  /\ new.keys = old.keys
            /\ ServerCount(db) <= MaxServers => new.assocs = old.assocs

\* test_ct_ntp_config.py:46-52 expects `ntp authentication enable' in the running
\* configuration when authentication is enabled.
RunningConfigKeepsAuth ==
    \A keys \in Orders(db.key), servers \in Orders(db.server) :
        Config(Restored(db, keys, servers)).auth = Config(db).auth

-----------------------------------------------------------------------------
(* The inductive invariants behind StoredIsSane and OvershootBounded        *)
(* (NtpCli_proofs).                                                        *)

\* A transaction writes what its command has checked.
SaneWrite(w) ==
    w.cols # None =>
        /\ w.table = "key" =>
              /\ 1 <= w.at /\ w.at < 65535
              /\ "pw" \in DOMAIN w.cols => 8 <= w.cols.pw /\ w.cols.pw <= 16
        /\ w.table = "server" => SaneName(w.at) /\ w.cols.version \in {3, 4}

\* Nothing insane is stored, on its way, or in a replica a command starts from.
AllSane ==
    /\ StoredIsSane
    /\ \A s \in Sessions : SaneServers(replica[s])
    /\ \A s \in Sessions : pending[s] # None => SaneWrite(pending[s])

AddsServer(w) == w # None /\ w.table = "server" /\ w.id = None

\* The sessions that may insert a server before they next learn of the others'.
Armed ==
    {s \in Sessions :
        \/ AddsServer(pending[s])
        \/ pending[s] = None /\ ServerCount(replica[s]) < MaxServers}

\* Every server beyond the limit is the deed of a session that is not armed now.
ArmedFitIn ==
    ServerCount(db) + Cardinality(Armed) < MaxServers + Cardinality(Sessions)

CliInv == AllSane /\ ArmedFitIn

=============================================================================
