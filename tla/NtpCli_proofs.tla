---------------------------- MODULE NtpCli_proofs ----------------------------
(***************************************************************************)
(* Proofs about NtpCli, for any number of sessions, any ids, passwords,    *)
(* names and versions that users type, and any limit.                      *)
(***************************************************************************)
EXTENDS NtpCli, FiniteSetTheorems, TLAPS

USE NoneAssumption

-----------------------------------------------------------------------------
(* Lemmas about rows and tables.                                           *)

\* The transactions on NTP_Key: one that inserts, and one on a row it found.
LEMMA KeyWrites ==
    ASSUME NEW w \in Writes, w.table = "key"
    PROVE  /\ w.at \in InputKeys
           /\ \/ w.id = None /\ w.cols \in NewKeyCols
              \/ w.id \in Ids /\ w.cols \in KeyCols \cup {None}
BY DEF Writes, RowWrites

\* The same of NTP_Association.
LEMMA ServerWrites ==
    ASSUME NEW w \in Writes, w.table = "server"
    PROVE  /\ w.at \in Names
           /\ \/ w.id = None /\ w.cols \in NewServerCols
              \/ w.id \in Ids /\ w.cols \in ServerCols \cup {None}
BY DEF Writes, RowWrites

\* System has the one row, which stays.
LEMMA SystemWrites ==
    ASSUME NEW w \in Writes, w.table = "system"
    PROVE  w.at = "system" /\ w.id = 0 /\ w.cols \in [auth : BOOLEAN]
BY DEF Writes, RowWrites

\* There are no other tables.
LEMMA TablesWritten ==
    ASSUME NEW w \in Writes
    PROVE  w.table = "system" \/ w.table = "key" \/ w.table = "server"
BY DEF Writes, RowWrites

\* What becomes of a row: inserted, written, deleted, or left as it is.
LEMMA RowFates ==
    ASSUME NEW w, NEW row, NEW new
    PROVE  \/ /\ w.id = None /\ row = None
              /\ RowAfter(row, w, new) = Over([id |-> new], w.cols)
           \/ /\ w.id # None /\ row # None /\ row.id = w.id /\ w.cols # None
              /\ RowAfter(row, w, new) = Over(w.cols, row)
           \/ w.id # None /\ w.cols = None /\ RowAfter(row, w, new) = None
           \/ RowAfter(row, w, new) = row
<1>1. CASE w.id = None /\ row = None
  BY <1>1 DEF RowAfter, Hits
<1>2. CASE Hits(row, w)
  BY <1>2 DEF RowAfter, Hits
<1>3. CASE ~(w.id = None /\ row = None) /\ ~Hits(row, w)
  BY <1>3 DEF RowAfter
<1> QED BY <1>1, <1>2, <1>3

\* A row of NTP_Key after a transaction is none, as it was, or has the password
\* that is written, if one is.
LEMMA KeyAfter ==
    ASSUME NEW w \in Writes, w.table = "key", NEW new \in Ids,
           NEW row \in KeyRow \cup {None},
           NEW after, after = RowAfter(row, w, new)
    PROVE  /\ after \in KeyRow \cup {None}
           /\ after # None =>
                \/ after = row
                \/ /\ w.cols # None
                   /\ \/ "pw" \in DOMAIN w.cols /\ after.pw = w.cols.pw
                      \/ row # None /\ after.pw = row.pw
<1>1. ASSUME w.id = None, after = Over([id |-> new], w.cols)
      PROVE  /\ after \in KeyRow /\ w.cols # None
             /\ "pw" \in DOMAIN w.cols /\ after.pw = w.cols.pw
  <2>1. w.cols \in NewKeyCols
    BY <1>1, KeyWrites
  <2> QED BY <1>1, <2>1 DEF Over, NewKeyCols, KeyRow
<1>2. ASSUME row # None, w.id # None, w.cols # None, after = Over(w.cols, row)
      PROVE  /\ after \in KeyRow
             /\ \/ "pw" \in DOMAIN w.cols /\ after.pw = w.cols.pw
                \/ after.pw = row.pw
  <2>1. CASE w.cols \in [pw : InputPwLens]
    BY <1>2, <2>1 DEF Over, KeyRow
  <2>2. CASE w.cols \in [trust : BOOLEAN]
    BY <1>2, <2>2 DEF Over, KeyRow
  <2> QED BY <1>2, <2>1, <2>2, KeyWrites DEF KeyCols
<1> QED BY <1>1, <1>2, RowFates

\* The same of NTP_Association: a row that is written has the version and the
\* key that is written, or the key it had.
LEMMA ServerAfter ==
    ASSUME NEW w \in Writes, w.table = "server", NEW new \in Ids,
           NEW row \in ServerRow \cup {None},
           NEW after, after = RowAfter(row, w, new)
    PROVE  /\ after \in ServerRow \cup {None}
           /\ after # None =>
                \/ after = row
                \/ /\ w.cols # None /\ after.version = w.cols.version
                   /\ \/ "key" \in DOMAIN w.cols /\ after.key = w.cols.key
                      \/ row # None /\ after.key = row.key
           /\ after # None => row # None \/ AddsServer(w)
<1>1. ASSUME w.id = None, after = Over([id |-> new], w.cols)
      PROVE  /\ after \in ServerRow /\ w.cols # None /\ after.version = w.cols.version
             /\ "key" \in DOMAIN w.cols /\ after.key = w.cols.key
             /\ AddsServer(w)
  <2>1. w.cols \in NewServerCols /\ w # None
    BY <1>1, ServerWrites
  <2> QED BY <1>1, <2>1 DEF Over, NewServerCols, ServerCols, ServerRow, AddsServer
<1>2. ASSUME row # None, w.id # None, w.cols # None, after = Over(w.cols, row)
      PROVE  /\ after \in ServerRow /\ after.version = w.cols.version
             /\ \/ "key" \in DOMAIN w.cols /\ after.key = w.cols.key
                \/ after.key = row.key
  <2>1. CASE w.cols \in NewServerCols
    BY <1>2, <2>1 DEF Over, NewServerCols, ServerRow
  <2>2. CASE w.cols \in [prefer : BOOLEAN, version : InputVersions]
    BY <1>2, <2>2 DEF Over, ServerRow
  <2> QED BY <1>2, <2>1, <2>2, ServerWrites DEF ServerCols
<1> QED BY <1>1, <1>2, RowFates

-----------------------------------------------------------------------------
(* What a transaction makes of the tables.                                 *)

\* Deleting a key leaves a table of servers, and takes none away.
LEMMA WithoutRefsType ==
    ASSUME NEW f \in [Names -> ServerRow \cup {None}], NEW k
    PROVE  /\ WithoutRefs(f, k) \in [Names -> ServerRow \cup {None}]
           /\ \A n \in Names : WithoutRefs(f, k)[n] = None <=> f[n] = None
           /\ \A n \in Names : f[n] # None =>
                /\ WithoutRefs(f, k)[n].version = f[n].version
                /\ WithoutRefs(f, k)[n].prefer = f[n].prefer
                /\ WithoutRefs(f, k)[n].key =
                     IF f[n].key # NoKey /\ f[n].key.key = k THEN NoKey ELSE f[n].key
<1> DEFINE g == WithoutRefs(f, k)
<1>1. ASSUME NEW n \in Names
      PROVE  /\ g[n] \in ServerRow \cup {None}
             /\ g[n] = None <=> f[n] = None
             /\ f[n] # None =>
                  /\ g[n].version = f[n].version
                  /\ g[n].prefer = f[n].prefer
                  /\ g[n].key =
                       IF f[n].key # NoKey /\ f[n].key.key = k THEN NoKey ELSE f[n].key
  <2>1. CASE f[n] = None
    BY <2>1 DEF WithoutRefs, Refers
  <2>2. CASE f[n] # None
    <3>1. f[n] \in ServerRow
      BY <2>2
    <3>2. g[n] = IF f[n].key # NoKey /\ f[n].key.key = k
                   THEN [f[n] EXCEPT !.key = NoKey] ELSE f[n]
      BY <2>2 DEF WithoutRefs, Refers
    <3>3. PICK r \in ServerRow : r = f[n]
      BY <3>1
    <3>4. [r EXCEPT !.key = NoKey] \in ServerRow
      BY DEF ServerRow, KeyRef
    <3>5. /\ [r EXCEPT !.key = NoKey].version = r.version
          /\ [r EXCEPT !.key = NoKey].prefer = r.prefer
          /\ [r EXCEPT !.key = NoKey].key = NoKey
      BY DEF ServerRow
    <3> HIDE DEF g
    <3> QED BY <2>2, <3>1, <3>2, <3>3, <3>4, <3>5
  <2> QED BY <2>1, <2>2
<1>2. g = [n \in Names |-> g[n]]
  BY DEF WithoutRefs
<1> HIDE DEF g
<1>3. g \in [Names -> ServerRow \cup {None}]
  BY <1>1, <1>2
<1> QED BY <1>1, <1>3 DEF g

\* A transaction on System changes the authentication mode alone.
LEMMA AppliedSystem ==
    ASSUME NEW c \in Tables, NEW w \in Writes, w.table = "system", NEW new \in Ids
    PROVE  /\ Applied(c, w, new) \in Tables
           /\ Applied(c, w, new).key = c.key
           /\ Applied(c, w, new).server = c.server
<1> DEFINE after == RowAfter(c.system["system"], w, new)
<1>1. w.at = "system" /\ w.id = 0 /\ w.cols \in [auth : BOOLEAN]
  BY SystemWrites
<1>2. c.system["system"] \in [id : {0}, auth : BOOLEAN]
  BY DEF Tables
<1>3. after \in [id : {0}, auth : BOOLEAN]
  <2>1. CASE after = Over(w.cols, c.system["system"])
    BY <1>1, <1>2, <2>1 DEF Over
  <2>2. 0 \in Ids
    BY CliAssumption DEF Ids
  <2> QED BY <1>1, <1>2, <2>1, <2>2, RowFates
<1> HIDE DEF after
<1>4. Applied(c, w, new) = [c EXCEPT !["system"]["system"] = after]
  BY <1>1 DEF Applied, after
<1> QED BY <1>3, <1>4 DEF Tables

\* A transaction on NTP_Key writes its row, and the references go with the row.
LEMMA AppliedKey ==
    ASSUME NEW c \in Tables, NEW w \in Writes, w.table = "key", NEW new \in Ids,
           NEW d, d = Applied(c, w, new),
           NEW after, after = RowAfter(c.key[w.at], w, new)
    PROVE  /\ d \in Tables
           /\ d.system = c.system
           /\ d.key = [c.key EXCEPT ![w.at] = after]
           /\ d.server = IF after = None THEN WithoutRefs(c.server, w.at) ELSE c.server
<1>1. w.at \in InputKeys
  BY KeyWrites
<1>2. c.key[w.at] \in KeyRow \cup {None}
  BY <1>1 DEF Tables
<1>3. after \in KeyRow \cup {None}
  BY <1>2, KeyAfter
<1>4. WithoutRefs(c.server, w.at) \in [Names -> ServerRow \cup {None}]
  BY WithoutRefsType DEF Tables
<1> DEFINE written == [c EXCEPT !["key"][w.at] = after]
<1>5. d = IF after = None
            THEN [written EXCEPT !.server = WithoutRefs(@, w.at)] ELSE written
  BY DEF Applied
<1>6. /\ written \in Tables /\ written.server = c.server
      /\ written.system = c.system
      /\ written.key = [c.key EXCEPT ![w.at] = after]
  BY <1>1, <1>3 DEF Tables
<1> HIDE DEF written
<1> QED BY <1>4, <1>5, <1>6 DEF Tables

\* A transaction on NTP_Association writes its row.
LEMMA AppliedServer ==
    ASSUME NEW c \in Tables, NEW w \in Writes, w.table = "server", NEW new \in Ids,
           NEW d, d = Applied(c, w, new),
           NEW after, after = RowAfter(c.server[w.at], w, new)
    PROVE  /\ d \in Tables
           /\ d.system = c.system
           /\ d.key = c.key
           /\ d.server = [c.server EXCEPT ![w.at] = after]
<1>1. w.at \in Names
  BY ServerWrites
<1>2. c.server[w.at] \in ServerRow \cup {None}
  BY <1>1 DEF Tables
<1>3. after \in ServerRow \cup {None}
  BY <1>2, ServerAfter
<1>4. d = [c EXCEPT !["server"][w.at] = after]
  BY DEF Applied
<1> QED BY <1>1, <1>3, <1>4 DEF Tables

\* So every transaction makes tables of tables.
LEMMA AppliedType ==
    ASSUME NEW c \in Tables, NEW w \in Writes, NEW new \in Ids
    PROVE  Applied(c, w, new) \in Tables
BY TablesWritten, AppliedSystem, AppliedKey, AppliedServer

-----------------------------------------------------------------------------
(* What the commands write.                                                *)

\* The columns of a row, new or found, make a transaction.
LEMMA Written ==
    /\ \A k \in InputKeys, cols \in NewKeyCols : Write("key", k, None, cols) \in Writes
    /\ \A k \in InputKeys, id \in Ids, cols \in KeyCols \cup {None} :
          Write("key", k, id, cols) \in Writes
    /\ \A n \in Names, cols \in NewServerCols :
          Write("server", n, None, cols) \in Writes
    /\ \A n \in Names, id \in Ids, cols \in ServerCols \cup {None} :
          Write("server", n, id, cols) \in Writes
BY DEF Writes, RowWrites, Write

\* ntp authentication enable
LEMMA AuthCommand ==
    ASSUME NEW r \in Tables, NEW no \in BOOLEAN, NEW w, w = AuthEnable(r, no)
    PROVE  w \in Writes /\ SaneWrite(w) /\ ~AddsServer(w)
<1>1. r.system["system"].id = 0
  BY DEF Tables
<1>2. w = [table |-> "system", at |-> "system", id |-> 0, cols |-> [auth |-> ~no]]
  BY <1>1 DEF AuthEnable, Update, Write
<1> QED BY <1>2 DEF Writes, SaneWrite, AddsServer

\* The commands for keys write what they have checked, to the row they found or
\* to a new one.
LEMMA KeyCommands ==
    ASSUME NEW r \in Tables, NEW k \in InputKeys, NEW w, w # None,
           \/ \E p \in InputPwLens : w = AuthKey(r, k, p)
           \/ w = NoAuthKey(r, k)
           \/ \E no \in BOOLEAN : w = TrustedKey(r, k, no)
    PROVE  w \in Writes /\ SaneWrite(w) /\ ~AddsServer(w)
<1>1. GetAuthKey(r, k) # None => GetAuthKey(r, k).id \in Ids
  BY DEF Tables, KeyRow, GetAuthKey
<1>2. ValidKeyId(k)
  BY DEF AuthKey, NoAuthKey, TrustedKey
<1>3. 1 <= k /\ k < 65535
  BY <1>2, CliAssumption DEF ValidKeyId, KeyIdMin, KeyIdMax
<1>4. ASSUME NEW p \in InputPwLens, w = AuthKey(r, k, p)
      PROVE  w \in Writes /\ SaneWrite(w) /\ ~AddsServer(w)
  <2>1. ValidPassword(p)
    BY <1>4 DEF AuthKey
  <2>2. 8 <= p /\ p <= 16
    BY <2>1 DEF ValidPassword, PwLenMin, PwLenMax
  <2>3. CASE GetAuthKey(r, k) = None
    <3>1. w = Insert("key", k, [pw |-> p, trust |-> FALSE])
      BY <1>2, <1>4, <2>1, <2>3 DEF AuthKey
    <3> DEFINE cols == [pw |-> p, trust |-> FALSE]
    <3>2. cols \in NewKeyCols /\ cols.pw = p
      BY DEF NewKeyCols
    <3>3. w = Write("key", k, None, cols)
      BY <3>1 DEF Insert
    <3> HIDE DEF cols
    <3>4. w \in Writes
      BY <3>2, <3>3, Written
    <3> QED BY <1>3, <2>2, <3>2, <3>3, <3>4 DEF Write, SaneWrite, AddsServer
  <2>4. CASE GetAuthKey(r, k) # None
    <3>1. w = Update("key", k, GetAuthKey(r, k), [pw |-> p])
      BY <1>2, <1>4, <2>1, <2>4 DEF AuthKey
    <3> DEFINE cols == [pw |-> p]
    <3>2. cols \in KeyCols /\ cols.pw = p
      BY DEF KeyCols
    <3>3. w = Write("key", k, GetAuthKey(r, k).id, cols)
      BY <3>1 DEF Update
    <3> HIDE DEF cols
    <3>4. w \in Writes
      BY <1>1, <2>4, <3>2, <3>3, Written
    <3> QED BY <1>3, <2>2, <3>2, <3>3, <3>4 DEF Write, SaneWrite, AddsServer
  <2> QED BY <2>3, <2>4
<1>5. CASE w = NoAuthKey(r, k)
  <2>1. GetAuthKey(r, k) # None /\ w = Delete("key", k, GetAuthKey(r, k))
    BY <1>5 DEF NoAuthKey
  <2>2. w = Write("key", k, GetAuthKey(r, k).id, None)
    BY <2>1 DEF Delete
  <2>3. w \in Writes
    BY <1>1, <2>1, <2>2, Written
  <2> QED BY <2>2, <2>3 DEF Write, SaneWrite, AddsServer
<1>6. ASSUME NEW no \in BOOLEAN, w = TrustedKey(r, k, no)
      PROVE  w \in Writes /\ SaneWrite(w) /\ ~AddsServer(w)
  <2>1. /\ GetAuthKey(r, k) # None
        /\ w = Update("key", k, GetAuthKey(r, k), [trust |-> ~no])
    BY <1>6 DEF TrustedKey
  <2> DEFINE cols == [trust |-> ~no]
  <2>2. cols \in KeyCols /\ DOMAIN cols = {"trust"}
    BY DEF KeyCols
  <2>3. w = Write("key", k, GetAuthKey(r, k).id, cols)
    BY <2>1 DEF Update
  <2> HIDE DEF cols
  <2>4. w \in Writes
    BY <1>1, <2>1, <2>2, <2>3, Written
  <2> QED BY <1>3, <2>2, <2>3, <2>4 DEF Write, SaneWrite, AddsServer
<1> QED BY <1>4, <1>5, <1>6

\* The attributes of a server, from a row or the defaults, are valid.
LEMMA ColumnsType ==
    ASSUME NEW r \in Tables, NEW old, old.prefer \in BOOLEAN,
           old.version \in InputVersions \cap {3, 4},
           NEW n \in Names, NEW prefer \in BOOLEAN,
           NEW version \in InputVersions \cup {Unset},
           NEW k \in InputKeys \cup {Unset}, Sane(r, n, version, k),
           NEW cols, cols = Columns(r, old, prefer, version, k)
    PROVE  cols \in ServerCols /\ cols.version \in {3, 4}
<1> DEFINE attributes == [ prefer  |-> prefer \/ old.prefer,
                           version |-> IF version # Unset THEN version ELSE old.version ]
<1>1. /\ attributes \in [prefer : BOOLEAN, version : InputVersions]
      /\ attributes.version \in {3, 4}
  <2>1. version # Unset => version \in Nat /\ 3 <= version /\ version <= 4
    BY CliAssumption DEF Sane, VersionDefault, VersionMax
  <2>2. version # Unset => version \in {3, 4}
    BY <2>1
  <2> QED BY <2>2
<1>2. CASE k = Unset
  BY <1>1, <1>2 DEF Columns, ServerCols
<1>3. CASE k # Unset
  <2> DEFINE ref == [key |-> k, id |-> GetAuthKey(r, k).id]
  <2>1. k \in InputKeys /\ r.key[k] # None
    BY <1>3 DEF Sane, GetAuthKey
  <2>2. ref \in KeyRef
    BY <2>1 DEF GetAuthKey, Tables, KeyRow, KeyRef
  <2>3. cols = Over([key |-> ref], attributes)
    BY <1>3 DEF Columns
  <2> HIDE DEF ref, attributes
  <2>4. cols \in NewServerCols /\ cols.version = attributes.version
    BY <1>1, <2>2, <2>3 DEF Over, NewServerCols
  <2> QED BY <1>1, <2>4 DEF ServerCols
<1> QED BY <1>2, <1>3

\* The commands for servers: the same, and a new server only below the limit.
LEMMA ServerCommands ==
    ASSUME NEW r \in Tables, SaneServers(r), NEW n \in Names, NEW prefer \in BOOLEAN,
           NEW version \in InputVersions \cup {Unset},
           NEW k \in InputKeys \cup {Unset}, NEW w, w # None,
           w = Server(r, n, prefer, version, k) \/ w = NoServer(r, n)
    PROVE  w \in Writes /\ SaneWrite(w) /\ (AddsServer(w) => ~Full(r))
<1> USE DEF Write, GetAssoc
<1>1. r.server[n] # None =>
        r.server[n] \in ServerRow /\ r.server[n].version \in {3, 4}
  BY DEF Tables, SaneServers
<1>2. CASE w = NoServer(r, n)
  <2>1. /\ r.server[n] # None
        /\ w = [table |-> "server", at |-> n, id |-> r.server[n].id, cols |-> None]
    BY <1>2 DEF NoServer, Delete
  <2>2. r.server[n].id \in Ids
    BY <1>1, <2>1 DEF ServerRow
  <2> QED BY <2>1, <2>2 DEF Writes, RowWrites, SaneWrite, AddsServer
<1>3. CASE w = Server(r, n, prefer, version, k)
  <2>1. Sane(r, n, version, k)
    BY <1>3 DEF Server
  <2>2. SaneName(n)
    BY <2>1, CliAssumption DEF Sane, ValidName, SaneName, MaxNameLen
  <2>3. CASE r.server[n] # None
    <3> DEFINE cols == Columns(r, r.server[n], prefer, version, k)
    <3>1. w = [table |-> "server", at |-> n, id |-> r.server[n].id, cols |-> cols]
      BY <1>3, <2>1, <2>3 DEF Server, Update
    <3>2. /\ r.server[n].id \in Ids /\ r.server[n].prefer \in BOOLEAN
          /\ r.server[n].version \in InputVersions \cap {3, 4}
      BY <1>1, <2>3 DEF ServerRow
    <3>3. cols \in ServerCols /\ cols.version \in {3, 4}
      BY <2>1, <3>2, ColumnsType
    <3> HIDE DEF cols
    <3> QED BY <2>2, <3>1, <3>2, <3>3 DEF Writes, RowWrites, SaneWrite, AddsServer
  <2>4. CASE r.server[n] = None
    <3> DEFINE given == Columns(r, NewServer, prefer, version, k)
               cols == Over(given, NewServer)
    <3>1. /\ ~Full(r)
          /\ w = [table |-> "server", at |-> n, id |-> None, cols |-> cols]
      BY <1>3, <2>1, <2>4 DEF Server, Insert
    <3>2. /\ NewServer \in NewServerCols
          /\ NewServer.version \in InputVersions \cap {3, 4}
          /\ NewServer.prefer \in BOOLEAN
      BY CliAssumption DEF NewServer, NewServerCols, VersionDefault, KeyRef
    <3>3. given \in ServerCols /\ given.version \in {3, 4}
      BY <2>1, <3>2, ColumnsType
    <3> HIDE DEF given
    <3>4. cols \in NewServerCols /\ cols.version = given.version
      <4>1. CASE given \in NewServerCols
        BY <3>2, <4>1 DEF Over, NewServerCols
      <4>2. CASE given \in [prefer : BOOLEAN, version : InputVersions]
        BY <3>2, <4>2 DEF Over, NewServerCols
      <4> QED BY <3>3, <4>1, <4>2 DEF ServerCols
    <3> HIDE DEF cols
    <3> QED BY <2>2, <3>1, <3>3, <3>4 DEF Writes, RowWrites, SaneWrite, ServerCols
  <2> QED BY <2>3, <2>4
<1> QED BY <1>2, <1>3

-----------------------------------------------------------------------------
(* What is stored stays sane.                                              *)

\* Every server's key is there.
RefsExist(c) ==
    \A n \in Names :
        c.server[n] # None /\ c.server[n].key # NoKey => c.key[c.server[n].key.key] # None

\* The rows as NtpConfig sees them are there when they are here.
LEMMA ConfigRows ==
    ASSUME NEW c \in Tables
    PROVE  /\ \A k \in InputKeys :
                Config(c).keys[k] =
                  IF c.key[k] = None THEN None
                  ELSE [pw |-> c.key[k].pw, trust |-> c.key[k].trust]
           /\ \A k \in InputKeys : Config(c).keys[k] = None <=> c.key[k] = None
           /\ \A n \in Names : Config(c).assocs[n] = None <=> c.server[n] = None
           /\ \A n \in Names : c.server[n] # None =>
                /\ c.server[n].key # NoKey =>
                      /\ Config(c).assocs[n].key = c.server[n].key.key
                      /\ c.server[n].key.key \in InputKeys
                /\ c.server[n].key = NoKey => Config(c).assocs[n].key = NoKey
<1>1. ASSUME NEW k \in InputKeys
      PROVE  /\ Config(c).keys[k] = IF c.key[k] = None THEN None
                  ELSE [pw |-> c.key[k].pw, trust |-> c.key[k].trust]
             /\ c.key[k] # None =>
                  [pw |-> c.key[k].pw, trust |-> c.key[k].trust] \in NewKeyCols
  BY DEF Config, Tables, KeyRow, NewKeyCols
<1>2. ASSUME NEW n \in Names, c.server[n] # None
      PROVE  /\ c.server[n].key # NoKey => c.server[n].key.key \in InputKeys
             /\ Config(c).assocs[n] \in C!Server
             /\ Config(c).assocs[n].key =
                  IF c.server[n].key = NoKey THEN NoKey ELSE c.server[n].key.key
  <2>1. c.server[n] \in ServerRow
    BY <1>2 DEF Tables
  <2>2. Config(c).assocs[n] =
          [ key  |-> IF c.server[n].key = NoKey THEN NoKey ELSE c.server[n].key.key,
            opts |-> [prefer |-> c.server[n].prefer, version |-> c.server[n].version] ]
    BY <1>2 DEF Config
  <2> QED BY <2>1, <2>2 DEF ServerRow, KeyRef, C!Server, Opts
<1>3. ASSUME NEW n \in Names, c.server[n] = None PROVE Config(c).assocs[n] = None
  BY <1>3 DEF Config
<1> QED BY <1>1, <1>2, <1>3, ConfigAssumption

\* References of NtpConfig, said of the tables.
LEMMA References ==
    ASSUME NEW c \in Tables
    PROVE  C!References(Config(c)) <=> RefsExist(c)
BY ConfigRows, ConfigAssumption DEF C!References, RefsExist

\* A sane transaction on keys leaves keys and servers sane, and no reference to
\* a key that goes.
LEMMA KeySane ==
    ASSUME NEW c \in Tables, SaneKeys(c), SaneServers(c), RefsExist(c),
           NEW w \in Writes, w.table = "key", SaneWrite(w), NEW new \in Ids,
           NEW d, d = Applied(c, w, new)
    PROVE  SaneKeys(d) /\ SaneServers(d) /\ RefsExist(d)
<1> DEFINE after == RowAfter(c.key[w.at], w, new)
<1>1. /\ d.key = [c.key EXCEPT ![w.at] = after]
      /\ d.server = IF after = None THEN WithoutRefs(c.server, w.at) ELSE c.server
  BY AppliedKey
<1>2. w.at \in InputKeys /\ c.key[w.at] \in KeyRow \cup {None}
  BY KeyWrites DEF Tables
<1>3. /\ c.key \in [InputKeys -> KeyRow \cup {None}]
      /\ c.server \in [Names -> ServerRow \cup {None}]
  BY DEF Tables
<1>4. after # None =>
        \/ after = c.key[w.at]
        \/ /\ w.cols # None
           /\ \/ "pw" \in DOMAIN w.cols /\ after.pw = w.cols.pw
              \/ c.key[w.at] # None /\ after.pw = c.key[w.at].pw
  BY <1>2, KeyAfter
<1> HIDE DEF after
<1>5. /\ d.key[w.at] = after
      /\ \A k \in InputKeys : k # w.at => d.key[k] = c.key[k]
  BY <1>1, <1>2, <1>3
<1>6. SaneKeys(d)
  <2>1. after # None => 1 <= w.at /\ w.at < 65535 /\ 8 <= after.pw /\ after.pw <= 16
    BY <1>2, <1>4 DEF SaneKeys, SaneWrite
  <2> QED BY <1>5, <2>1 DEF SaneKeys
<1>7. ASSUME after # None PROVE SaneServers(d) /\ RefsExist(d)
  <2>1. d.server = c.server
    BY <1>1, <1>7
  <2> QED BY <1>5, <1>7, <2>1 DEF SaneServers, RefsExist, Tables, ServerRow, KeyRef
<1>8. ASSUME after = None PROVE SaneServers(d) /\ RefsExist(d)
  <2>1. d.server = WithoutRefs(c.server, w.at)
    BY <1>1, <1>8
  <2>2. ASSUME NEW n \in Names, d.server[n] # None
        PROVE  /\ SaneName(n) /\ d.server[n].version \in {3, 4}
               /\ d.server[n].key # NoKey => d.key[d.server[n].key.key] # None
    <3>1. /\ c.server[n] # None /\ d.server[n].version = c.server[n].version
          /\ d.server[n].key =
               IF c.server[n].key # NoKey /\ c.server[n].key.key = w.at
                 THEN NoKey ELSE c.server[n].key
      BY <1>3, <2>1, <2>2, WithoutRefsType
    <3>2. c.server[n].key # NoKey => c.server[n].key.key \in InputKeys
      BY <1>3, <3>1 DEF ServerRow, KeyRef
    <3> QED BY <1>5, <3>1, <3>2 DEF SaneServers, RefsExist
  <2> QED BY <2>2 DEF SaneServers, RefsExist
<1> QED BY <1>6, <1>7, <1>8

\* A sane transaction on servers that refers to a key that is there.
LEMMA ServerSane ==
    ASSUME NEW c \in Tables, SaneKeys(c), SaneServers(c), RefsExist(c),
           NEW w \in Writes, w.table = "server", SaneWrite(w), ~Dangling(c, w),
           NEW new \in Ids, NEW d, d = Applied(c, w, new)
    PROVE  SaneKeys(d) /\ SaneServers(d) /\ RefsExist(d)
<1> DEFINE after == RowAfter(c.server[w.at], w, new)
<1>1. d.server = [c.server EXCEPT ![w.at] = after] /\ d.key = c.key
  BY AppliedServer
<1>2. /\ w.at \in Names /\ c.server[w.at] \in ServerRow \cup {None}
      /\ c.server \in [Names -> ServerRow \cup {None}]
  BY ServerWrites DEF Tables
<1>3. after # None =>
        \/ after = c.server[w.at]
        \/ /\ w.cols # None /\ after.version = w.cols.version
           /\ \/ "key" \in DOMAIN w.cols /\ after.key = w.cols.key
              \/ c.server[w.at] # None /\ after.key = c.server[w.at].key
  BY <1>2, ServerAfter
<1> HIDE DEF after
<1>4. /\ d.server[w.at] = after
      /\ \A n \in Names : n # w.at => d.server[n] = c.server[n]
  BY <1>1, <1>2
<1>5. SaneKeys(d)
  BY <1>1 DEF SaneKeys
<1>6. after # None => SaneName(w.at) /\ after.version \in {3, 4}
  BY <1>2, <1>3 DEF SaneServers, SaneWrite
<1>7. after # None /\ after.key # NoKey => c.key[after.key.key] # None
  BY <1>2, <1>3 DEF RefsExist, Dangling
<1> QED BY <1>1, <1>4, <1>5, <1>6, <1>7 DEF SaneServers, RefsExist

\* Whatever a transaction is about, sane tables stay sane.
LEMMA AppliedSane ==
    ASSUME NEW c \in Tables, SaneKeys(c), SaneServers(c), RefsExist(c),
           NEW w \in Writes, SaneWrite(w), ~Dangling(c, w),
           NEW new \in Ids, NEW d, d = Applied(c, w, new)
    PROVE  SaneKeys(d) /\ SaneServers(d) /\ RefsExist(d)
<1>1. CASE w.table = "system"
  BY <1>1, AppliedSystem DEF SaneKeys, SaneServers, RefsExist
<1> QED BY <1>1, KeySane, ServerSane, TablesWritten

-----------------------------------------------------------------------------
(* Type correctness and the sanity of what is stored.                      *)

\* The empty tables.
LEMMA EmptyTables ==
    /\ EmptyDb \in Tables
    /\ SaneKeys(EmptyDb) /\ SaneServers(EmptyDb) /\ RefsExist(EmptyDb)
    /\ ServerCount(EmptyDb) = 0
<1>1. EmptyDb \in Tables
  BY DEF EmptyDb, Tables
<1>2. {n \in Names : EmptyDb.server[n] # None} = {}
  BY DEF EmptyDb
<1>3. ServerCount(EmptyDb) = 0
  BY <1>2, FS_EmptySet DEF ServerCount
<1> QED BY <1>1, <1>3 DEF EmptyDb, SaneKeys, SaneServers, RefsExist

\* A step of a session: it issues a command at its prompt, its transaction is
\* applied, or its replica catches up.
LEMMA Steps ==
    ASSUME TypeOK, AllSane, Next
    PROVE  \E s \in Sessions :
              \/ \E w \in Writes :
                    /\ Ready(s) /\ Issue(s, w) /\ SaneWrite(w)
                    /\ AddsServer(w) => ~Full(replica[s])
              \/ Commit(s)
              \/ Refresh(s)
<1> SUFFICES ASSUME NEW s \in Sessions, IssueAuth(s) \/ IssueKey(s) \/ IssueServer(s)
             PROVE  \E w \in Writes :
                      /\ Ready(s) /\ Issue(s, w) /\ SaneWrite(w)
                      /\ AddsServer(w) => ~Full(replica[s])
  BY DEF Next
<1>1. replica[s] \in Tables /\ SaneServers(replica[s])
  BY DEF TypeOK, AllSane
<1>2. CASE IssueAuth(s)
  <2>1. PICK no \in BOOLEAN : Ready(s) /\ Issue(s, AuthEnable(replica[s], no))
    BY <1>2 DEF IssueAuth
  <2> QED BY <1>1, <2>1, AuthCommand
<1>3. CASE IssueKey(s)
  <2>1. PICK k \in InputKeys :
           \/ \E p \in InputPwLens : Issue(s, AuthKey(replica[s], k, p))
           \/ Issue(s, NoAuthKey(replica[s], k))
           \/ \E no \in BOOLEAN : Issue(s, TrustedKey(replica[s], k, no))
    BY <1>3 DEF IssueKey
  <2>2. ASSUME NEW w, Issue(s, w), w # None,
               \/ \E p \in InputPwLens : w = AuthKey(replica[s], k, p)
               \/ w = NoAuthKey(replica[s], k)
               \/ \E no \in BOOLEAN : w = TrustedKey(replica[s], k, no)
        PROVE  w \in Writes /\ SaneWrite(w) /\ ~AddsServer(w)
    BY <1>1, <2>2, KeyCommands
  <2>3. ASSUME NEW w, Issue(s, w) PROVE w # None
    BY <2>3 DEF Issue
  <2>4. Ready(s)
    BY <1>3 DEF IssueKey
  <2> QED BY <2>1, <2>2, <2>3, <2>4
<1>4. CASE IssueServer(s)
  <2>1. PICK n \in Names :
           \/ \E prefer \in BOOLEAN, version \in InputVersions \cup {Unset},
                 k \in InputKeys \cup {Unset} :
                   Issue(s, Server(replica[s], n, prefer, version, k))
           \/ Issue(s, NoServer(replica[s], n))
    BY <1>4 DEF IssueServer
  <2>2. ASSUME NEW w, Issue(s, w), w # None,
               \/ \E prefer \in BOOLEAN, version \in InputVersions \cup {Unset},
                     k \in InputKeys \cup {Unset} :
                       w = Server(replica[s], n, prefer, version, k)
               \/ w = NoServer(replica[s], n)
        PROVE  w \in Writes /\ SaneWrite(w) /\ (AddsServer(w) => ~Full(replica[s]))
    BY <1>1, <2>2, ServerCommands
  <2>3. ASSUME NEW w, Issue(s, w) PROVE w # None
    BY <2>3 DEF Issue
  <2>4. Ready(s)
    BY <1>4 DEF IssueServer
  <2> QED BY <2>1, <2>2, <2>3, <2>4
<1> QED BY <1>2, <1>3, <1>4

\* What a commit applies: the transaction, or it without a reference that dangles.
LEMMA Commits ==
    ASSUME TypeOK, AllSane, NEW s \in Sessions, Commit(s)
    PROVE  \E w \in Writes :
              /\ SaneWrite(w) /\ ~Dangling(db, w)
              /\ AddsServer(w) => AddsServer(pending[s])
              /\ db' = db \/ db' = Applied(db, w, commands)
<1> DEFINE w == pending[s]
           without == [w EXCEPT !.cols.key = NoKey]
<1>1. w \in Writes /\ SaneWrite(w)
  BY DEF TypeOK, AllSane, Commit
<1>2. CASE ~Dangling(db, w)
  <2>1. db' = Applied(db, w, commands)
    BY <1>2 DEF Commit
  <2> QED BY <1>1, <1>2, <2>1
<1>3. CASE Dangling(db, w)
  <2>1. db' = db \/ db' = Applied(db, without, commands)
    BY <1>3 DEF Commit
  <2>2. /\ w.table = "server" /\ w.cols # None /\ "key" \in DOMAIN w.cols
        /\ w.at \in Names
        /\ (w.id = None \/ w.id \in Ids)
    BY <1>1, <1>3, ServerWrites DEF Dangling
  <2>3. w.cols \in NewServerCols
    BY <1>1, <2>2, ServerWrites DEF NewServerCols, ServerCols
  <2> DEFINE cols == [w.cols EXCEPT !.key = NoKey]
  <2>4. cols \in NewServerCols /\ cols.key = NoKey /\ cols.version = w.cols.version
    BY <2>3 DEF NewServerCols, KeyRef
  <2>5. w = [table |-> w.table, at |-> w.at, id |-> w.id, cols |-> w.cols]
    BY <1>1 DEF Writes, RowWrites
  <2>6. without = [table |-> w.table, at |-> w.at, id |-> w.id, cols |-> cols]
    BY <2>5
  <2> HIDE DEF cols
  <2>7. without = Write("server", w.at, w.id, cols)
    BY <2>2, <2>6 DEF Write
  <2>8. without \in Writes
    BY <2>2, <2>4, <2>7, Written DEF ServerCols
  <2>9. /\ without.table = "server" /\ without.at = w.at /\ without.id = w.id
        /\ without.cols = cols
    BY <2>7 DEF Write
  <2>10. SaneWrite(without) /\ ~Dangling(db, without)
    BY <1>1, <2>2, <2>4, <2>9 DEF SaneWrite, Dangling
  <2>11. AddsServer(without) => AddsServer(w)
    BY <1>1, <2>2, <2>9 DEF AddsServer
  <2> HIDE DEF without
  <2> QED BY <2>1, <2>8, <2>10, <2>11
<1> QED BY <1>2, <1>3

\* The tables, the replicas and the transactions stay what they are.
LEMMA TypeNext == TypeOK /\ AllSane /\ [Next]_vars => TypeOK'
<1> SUFFICES ASSUME TypeOK, AllSane, Next PROVE TypeOK'
  BY DEF TypeOK, vars
<1>1. PICK s \in Sessions :
        \/ \E w \in Writes :
              /\ Ready(s) /\ Issue(s, w) /\ SaneWrite(w)
              /\ AddsServer(w) => ~Full(replica[s])
        \/ Commit(s)
        \/ Refresh(s)
  BY Steps
<1>2. ASSUME NEW w \in Writes, Ready(s), Issue(s, w) PROVE TypeOK'
  BY <1>2, CliAssumption DEF Ready, Issue, TypeOK
<1>3. CASE Commit(s)
  <2>1. db' \in Tables
    <3>1. commands \in Ids
      BY DEF TypeOK, Ids
    <3> QED BY <1>3, <3>1, Commits, AppliedType DEF TypeOK
  <2> QED BY <1>3, <2>1 DEF Commit, TypeOK
<1>4. CASE Refresh(s)
  BY <1>4 DEF Refresh, TypeOK
<1> QED BY <1>1, <1>2, <1>3, <1>4

\* Nothing insane is typed in, sent or stored.
LEMMA SaneNext == TypeOK /\ AllSane /\ [Next]_vars => AllSane'
<1> SUFFICES ASSUME TypeOK, AllSane, [Next]_vars PROVE AllSane'
  OBVIOUS
<1>1. db \in Tables /\ db' \in Tables
  BY TypeNext DEF TypeOK
<1>2. SaneKeys(db) /\ SaneServers(db) /\ RefsExist(db)
  BY <1>1, References DEF AllSane, StoredIsSane
<1>3. ASSUME SaneKeys(db'), SaneServers(db'), RefsExist(db') PROVE StoredIsSane'
  <2>1. C!References(Config(db'))
    BY <1>1, <1>3, References
  <2> QED BY <1>3, <2>1 DEF StoredIsSane
<1>4. CASE UNCHANGED vars
  BY <1>4 DEF vars, AllSane, StoredIsSane
<1>5. CASE Next
  <2>1. PICK s \in Sessions :
          \/ \E w \in Writes :
                /\ Ready(s) /\ Issue(s, w) /\ SaneWrite(w)
                /\ AddsServer(w) => ~Full(replica[s])
          \/ Commit(s)
          \/ Refresh(s)
    BY <1>5, Steps
  <2>2. ASSUME NEW w \in Writes, Issue(s, w), SaneWrite(w) PROVE AllSane'
    <3>1. UNCHANGED <<db, replica>> /\ pending' = [pending EXCEPT ![s] = w]
      BY <2>2 DEF Issue
    <3>2. StoredIsSane'
      BY <1>2, <1>3, <3>1
    <3> QED BY <2>2, <3>1, <3>2 DEF AllSane, TypeOK
  <2>3. CASE Commit(s)
    <3>1. PICK w \in Writes :
            /\ SaneWrite(w) /\ ~Dangling(db, w)
            /\ db' = db \/ db' = Applied(db, w, commands)
      BY <2>3, Commits
    <3>2. commands \in Ids
      BY DEF TypeOK, Ids
    <3>3. SaneKeys(db') /\ SaneServers(db') /\ RefsExist(db')
      BY <1>1, <1>2, <3>1, <3>2, AppliedSane
    <3>4. /\ replica' = [replica EXCEPT ![s] = db']
          /\ pending' = [pending EXCEPT ![s] = None]
      BY <2>3 DEF Commit
    <3> QED BY <1>3, <3>3, <3>4 DEF AllSane, TypeOK
  <2>4. CASE Refresh(s)
    <3>1. /\ UNCHANGED <<db, pending>> /\ replica' = [replica EXCEPT ![s] = db]
      BY <2>4 DEF Refresh
    <3>2. StoredIsSane'
      BY <1>2, <1>3, <3>1
    <3> QED BY <1>2, <3>1, <3>2 DEF AllSane, TypeOK
  <2> QED BY <2>1, <2>2, <2>3, <2>4
<1> QED BY <1>4, <1>5

\* The first state.
LEMMA SaneInit == Init => TypeOK /\ AllSane
<1> SUFFICES ASSUME Init PROVE TypeOK /\ AllSane
  OBVIOUS
<1>1. TypeOK
  BY EmptyTables, CliAssumption DEF Init, TypeOK
<1>2. C!References(Config(EmptyDb))
  BY EmptyTables, References
<1> QED BY <1>1, <1>2, EmptyTables DEF Init, AllSane, StoredIsSane

\* Every variable keeps its type, whatever the sessions do, and nothing insane
\* is stored, on its way or in a replica.
LEMMA SaneAlways == Spec => [](TypeOK /\ AllSane)
BY SaneInit, TypeNext, SaneNext, PTL DEF Spec

\* OVSDB holds tables, the replicas are tables, what is on its way to OVSDB is a
\* transaction on them.
THEOREM TypeCorrect == Spec => []TypeOK
BY SaneAlways, PTL

\* What is stored is what the rest of the system counts on, however the commands
\* of the sessions interleave: keys, passwords, names and versions in their
\* ranges, and keys that exist for the servers that refer to them.
THEOREM StoredSane == Spec => []StoredIsSane
<1>1. AllSane => StoredIsSane
  BY DEF AllSane
<1> QED BY <1>1, SaneAlways, PTL

-----------------------------------------------------------------------------
(* The sessions and the limit.                                             *)

\* The number of servers is one, and fewer rows are not more servers.
LEMMA Counts ==
    ASSUME NEW c
    PROVE  /\ ServerCount(c) \in Nat
           /\ \A d : (\A n \in Names : d.server[n] # None => c.server[n] # None) =>
                ServerCount(d) <= ServerCount(c)
           /\ \A d : \A m \in Names :
                (\A n \in Names \ {m} : d.server[n] # None => c.server[n] # None) =>
                ServerCount(d) <= ServerCount(c) + 1
<1> DEFINE Rows(x) == {n \in Names : x.server[n] # None}
<1>1. \A x : IsFiniteSet(Rows(x)) /\ ServerCount(x) = Cardinality(Rows(x))
  BY FS_Subset, CliAssumption DEF ServerCount
<1>2. ServerCount(c) \in Nat
  BY <1>1, FS_CardinalityType
<1>3. ASSUME NEW d, \A n \in Names : d.server[n] # None => c.server[n] # None
      PROVE  ServerCount(d) <= ServerCount(c)
  <2>1. Rows(d) \subseteq Rows(c)
    BY <1>3
  <2> QED BY <1>1, <2>1, FS_Subset
<1>4. ASSUME NEW d, NEW m \in Names,
             \A n \in Names \ {m} : d.server[n] # None => c.server[n] # None
      PROVE  ServerCount(d) <= ServerCount(c) + 1
  <2>1. Rows(d) \subseteq Rows(c) \cup {m}
    BY <1>4
  <2> HIDE DEF Rows
  <2>2. /\ IsFiniteSet(Rows(c) \cup {m})
        /\ Cardinality(Rows(c) \cup {m}) = Cardinality(Rows(c))
           \/ Cardinality(Rows(c) \cup {m}) = Cardinality(Rows(c)) + 1
    BY <1>1, FS_AddElement
  <2>3. /\ Cardinality(Rows(d)) <= Cardinality(Rows(c) \cup {m})
        /\ Cardinality(Rows(d)) \in Nat /\ Cardinality(Rows(c)) \in Nat
    BY <1>1, <2>1, <2>2, FS_Subset, FS_CardinalityType
  <2> QED BY <1>1, <2>2, <2>3
<1> QED BY <1>2, <1>3, <1>4

\* A transaction adds one server at most, and only one that inserts does.
LEMMA AppliedCount ==
    ASSUME NEW c \in Tables, NEW w \in Writes, NEW new \in Ids,
           NEW d, d = Applied(c, w, new)
    PROVE  /\ ServerCount(d) <= ServerCount(c) + 1
           /\ ~AddsServer(w) => ServerCount(d) <= ServerCount(c)
<1>1. c.server \in [Names -> ServerRow \cup {None}]
  BY DEF Tables
<1>2. ASSUME \A n \in Names : d.server[n] # None => c.server[n] # None
      PROVE  ServerCount(d) <= ServerCount(c) /\ ServerCount(d) <= ServerCount(c) + 1
  BY <1>2, Counts
<1>3. CASE w.table = "system"
  BY <1>2, <1>3, AppliedSystem
<1>4. CASE w.table = "key"
  <2> DEFINE after == RowAfter(c.key[w.at], w, new)
  <2>1. /\ d.system = c.system
        /\ d.key = [c.key EXCEPT ![w.at] = after]
        /\ d.server = IF after = None THEN WithoutRefs(c.server, w.at) ELSE c.server
    BY <1>4, AppliedKey
  <2> HIDE DEF after
  <2>2. \A n \in Names : WithoutRefs(c.server, w.at)[n] # None => c.server[n] # None
    BY <1>1, WithoutRefsType
  <2> QED BY <1>2, <2>1, <2>2
<1>5. CASE w.table = "server"
  <2> DEFINE after == RowAfter(c.server[w.at], w, new)
  <2>1. w.at \in Names
    BY <1>5, ServerWrites
  <2>2. d.server = [c.server EXCEPT ![w.at] = after]
    BY <1>5, AppliedServer
  <2>3. after # None => c.server[w.at] # None \/ AddsServer(w)
    BY <1>1, <1>5, <2>1, ServerAfter
  <2> HIDE DEF after
  <2>4. /\ d.server[w.at] = after
        /\ \A n \in Names \ {w.at} : d.server[n] = c.server[n]
    BY <1>1, <2>1, <2>2
  <2> QED BY <1>2, <2>1, <2>3, <2>4, Counts
<1> QED BY <1>3, <1>4, <1>5, TablesWritten

\* The armed sessions are some of the sessions.
LEMMA ArmedType ==
    /\ IsFiniteSet(Armed) /\ Cardinality(Armed) \in Nat
    /\ Cardinality(Armed) <= Cardinality(Sessions) /\ Cardinality(Sessions) \in Nat
<1>1. Armed \subseteq Sessions
  BY DEF Armed
<1> QED BY <1>1, FS_Subset, FS_CardinalityType, CliAssumption

\* Below the limit the armed sessions fit in, however many they are.
LEMMA FitBelowLimit == ServerCount(db) < MaxServers => ArmedFitIn
BY ArmedType, Counts, CliAssumption DEF ArmedFitIn

\* At the limit a session that commits or refreshes is armed no longer, and one
\* that issues a command for a new server was armed already.
LEMMA FitNext == TypeOK /\ AllSane /\ ArmedFitIn /\ [Next]_vars => ArmedFitIn'
<1> SUFFICES ASSUME TypeOK, AllSane, ArmedFitIn, [Next]_vars PROVE ArmedFitIn'
  OBVIOUS
<1>1. /\ ServerCount(db) \in Nat /\ ServerCount(db') \in Nat
      /\ Cardinality(Armed) \in Nat /\ IsFiniteSet(Armed)
      /\ Cardinality(Sessions) \in Nat /\ MaxServers \in Nat
  BY Counts, ArmedType, CliAssumption
<1>2. ASSUME Armed' \subseteq Armed, ServerCount(db') <= ServerCount(db)
      PROVE  ArmedFitIn'
  <2>1. Cardinality(Armed') <= Cardinality(Armed) /\ Cardinality(Armed') \in Nat
    BY <1>1, <1>2, FS_Subset, FS_CardinalityType
  <2> QED BY <1>1, <1>2, <2>1 DEF ArmedFitIn
<1>3. CASE UNCHANGED vars
  BY <1>3 DEF vars, ArmedFitIn, Armed
<1>4. CASE ServerCount(db') < MaxServers
  <2>1. (ServerCount(db) < MaxServers => ArmedFitIn)'
    BY FitBelowLimit, PTL
  <2> QED BY <1>4, <2>1
<1>5. CASE Next /\ ~(ServerCount(db') < MaxServers)
  <2>1. PICK s \in Sessions :
          \/ \E w \in Writes :
                /\ Ready(s) /\ Issue(s, w) /\ SaneWrite(w)
                /\ AddsServer(w) => ~Full(replica[s])
          \/ Commit(s)
          \/ Refresh(s)
    BY <1>5, Steps
  <2>2. ASSUME NEW w \in Writes, Ready(s), Issue(s, w), AddsServer(w) => ~Full(replica[s])
        PROVE  ArmedFitIn'
    <3>1. /\ UNCHANGED <<db, replica>> /\ pending' = [pending EXCEPT ![s] = w]
          /\ pending[s] = None /\ w # None
      BY <2>2 DEF Issue, Ready
    <3>2. AddsServer(w) => ServerCount(replica[s]) < MaxServers
      BY <1>1, <2>2, Counts DEF Full
    <3>3. Armed' \subseteq Armed
      BY <3>1, <3>2 DEF Armed, TypeOK
    <3> QED BY <1>1, <1>2, <3>1, <3>3
  <2>3. CASE Commit(s)
    <3>1. PICK w \in Writes :
            /\ AddsServer(w) => AddsServer(pending[s])
            /\ db' = db \/ db' = Applied(db, w, commands)
      BY <2>3, Commits
    <3>2. /\ replica' = [replica EXCEPT ![s] = db']
          /\ pending' = [pending EXCEPT ![s] = None]
          /\ db \in Tables /\ commands \in Ids
      BY <2>3 DEF Commit, TypeOK, Ids
    <3>3. /\ ServerCount(db') <= ServerCount(db) + 1
          /\ ~AddsServer(w) => ServerCount(db') <= ServerCount(db)
      BY <1>1, <3>1, <3>2, AppliedCount
    <3>4. Armed' \subseteq Armed \ {s}
      BY <1>5, <3>2 DEF Armed, AddsServer, TypeOK
    <3>5. CASE AddsServer(w)
      <4>1. s \in Armed
        BY <3>1, <3>5 DEF Armed
      <4>2. /\ IsFiniteSet(Armed \ {s})
            /\ Cardinality(Armed \ {s}) = Cardinality(Armed) - 1
        BY <1>1, <4>1, FS_RemoveElement
      <4>3. Cardinality(Armed') <= Cardinality(Armed) - 1 /\ Cardinality(Armed') \in Nat
        BY <3>4, <4>2, FS_Subset, FS_CardinalityType
      <4> QED BY <1>1, <3>3, <4>3 DEF ArmedFitIn
    <3>6. CASE ~AddsServer(w)
      BY <1>2, <3>3, <3>4, <3>6
    <3> QED BY <3>5, <3>6
  <2>4. CASE Refresh(s)
    <3>1. /\ UNCHANGED <<db, pending>> /\ replica' = [replica EXCEPT ![s] = db]
          /\ pending[s] = None
      BY <2>4 DEF Refresh
    <3>2. Armed' \subseteq Armed
      BY <1>5, <3>1 DEF Armed, AddsServer, TypeOK
    <3> QED BY <1>1, <1>2, <3>1, <3>2
  <2> QED BY <2>1, <2>2, <2>3, <2>4
<1> QED BY <1>3, <1>4, <1>5

\* In every behaviour the sane stays sane, and the servers and the sessions that
\* may still add one make less than the limit and the sessions.
THEOREM Invariance == Spec => []CliInv
<1>1. Init => ArmedFitIn
  <2>1. Init => ServerCount(db) < MaxServers
    BY EmptyTables, CliAssumption DEF Init
  <2> QED BY <2>1, FitBelowLimit
<1> QED BY <1>1, SaneAlways, FitNext, PTL DEF Spec, CliInv

\* Sessions that race exceed the limit by fewer servers than there are sessions.
THEOREM Overshoot == Spec => []OvershootBounded
<1>1. CliInv => OvershootBounded
  BY ArmedType, Counts, CliAssumption DEF CliInv, ArmedFitIn, OvershootBounded
<1> QED BY <1>1, Invariance, PTL

-----------------------------------------------------------------------------
(* Every transaction is an edit of ConfigSync.                             *)

\* What NtpConfig makes of a row of NTP_Key and of one of NTP_Association.
KeyOf(row) == IF row = None THEN None ELSE [pw |-> row.pw, trust |-> row.trust]

AssocOf(row) ==
    IF row = None THEN None
    ELSE [ key  |-> IF row.key = NoKey THEN NoKey ELSE row.key.key,
           opts |-> [prefer |-> row.prefer, version |-> row.version] ]

\* A configuration is its parts, each of one table.
LEMMA ConfigParts ==
    ASSUME NEW c
    PROVE  Config(c) = [ auth   |-> c.system["system"].auth,
                         keys   |-> [k \in InputKeys |-> KeyOf(c.key[k])],
                         assocs |-> [n \in Names |-> AssocOf(c.server[n])] ]
BY DEF Config, KeyOf, AssocOf

\* The edits, part by part.
LEMMA AuthParts ==
    ASSUME NEW auth \in BOOLEAN, NEW keys, NEW assocs
    PROVE  C!AuthToggled([auth |-> auth, keys |-> keys, assocs |-> assocs])
             = [auth |-> ~auth, keys |-> keys, assocs |-> assocs]
BY DEF C!AuthToggled

LEMMA KeySetParts ==
    ASSUME NEW auth, NEW keys, NEW assocs, NEW k, NEW row
    PROVE  C!KeySet([auth |-> auth, keys |-> keys, assocs |-> assocs], k, row)
             = [auth |-> auth, keys |-> [keys EXCEPT ![k] = row], assocs |-> assocs]
BY DEF C!KeySet

LEMMA KeyDeletedParts ==
    ASSUME NEW auth, NEW keys, NEW assocs, NEW k
    PROVE  C!KeyDeleted([auth |-> auth, keys |-> keys, assocs |-> assocs], k)
             = [ auth |-> auth, keys |-> [keys EXCEPT ![k] = None],
                 assocs |-> C!WithoutKey(assocs, k) ]
<1>1. PICK c : c = [auth |-> auth, keys |-> keys, assocs |-> assocs]
  OBVIOUS
<1>2. PICK t : t = C!WithoutKey(c.assocs, k)
  OBVIOUS
<1>3. t = C!WithoutKey(assocs, k)
  <2>1. c.assocs = assocs
    BY <1>1
  <2> QED BY <1>2, <2>1
<1>4. C!KeyDeleted(c, k) = [c EXCEPT !.keys[k] = None, !.assocs = t]
  BY <1>2, SMT DEF C!KeyDeleted
<1>5. [c EXCEPT !.keys[k] = None, !.assocs = t]
        = [[c EXCEPT !.keys[k] = None] EXCEPT !.assocs = t]
  OBVIOUS
<1>6. [c EXCEPT !.keys[k] = None]
        = [auth |-> auth, keys |-> [keys EXCEPT ![k] = None], assocs |-> assocs]
  BY <1>1, KeySetParts DEF C!KeySet
<1> QED BY <1>1, <1>3, <1>4, <1>5, <1>6

LEMMA ServerSetParts ==
    ASSUME NEW auth, NEW keys, NEW assocs, NEW n, NEW s
    PROVE  C!ServerSet([auth |-> auth, keys |-> keys, assocs |-> assocs], n, s)
             = [auth |-> auth, keys |-> keys, assocs |-> [assocs EXCEPT ![n] = s]]
BY DEF C!ServerSet

LEMMA ServerDeletedParts ==
    ASSUME NEW auth, NEW keys, NEW assocs, NEW n
    PROVE  C!ServerDeleted([auth |-> auth, keys |-> keys, assocs |-> assocs], n)
             = [auth |-> auth, keys |-> keys, assocs |-> [assocs EXCEPT ![n] = None]]
BY DEF C!ServerDeleted

\* The authentication mode is as it was or the other one.
LEMMA SystemEdits ==
    ASSUME NEW c \in Tables, NEW d \in Tables, d.key = c.key, d.server = c.server
    PROVE  EditOf(Config(c), Config(d))
<1>1. c.system["system"].auth \in BOOLEAN /\ d.system["system"].auth \in BOOLEAN
  BY DEF Tables
<1>2. CASE d.system["system"].auth = c.system["system"].auth
  <2>1. Config(d) = Config(c)
    BY <1>2, ConfigParts
  <2> QED BY <2>1 DEF EditOf
<1>3. CASE d.system["system"].auth = ~c.system["system"].auth
  <2> DEFINE keys == [k \in InputKeys |-> KeyOf(c.key[k])]
             assocs == [n \in Names |-> AssocOf(c.server[n])]
             auth == c.system["system"].auth
  <2>2. Config(d) = [auth |-> ~auth, keys |-> keys, assocs |-> assocs]
    BY <1>3, ConfigParts
  <2>3. Config(c) = [auth |-> auth, keys |-> keys, assocs |-> assocs]
    BY ConfigParts
  <2> HIDE DEF keys, assocs
  <2>1. Config(d) = C!AuthToggled(Config(c))
    BY <1>1, <2>2, <2>3, AuthParts
  <2> QED BY <2>1 DEF EditOf
<1> QED BY <1>1, <1>2, <1>3

\* A key is set, or it is deleted and the servers refer to it no longer.
LEMMA KeyEdits ==
    ASSUME NEW c \in Tables, NEW w \in Writes, w.table = "key", NEW new \in Ids,
           NEW d, d = Applied(c, w, new)
    PROVE  EditOf(Config(c), Config(d))
<1> DEFINE after == RowAfter(c.key[w.at], w, new)
<1>1. /\ d.system = c.system
      /\ d.key = [c.key EXCEPT ![w.at] = after]
      /\ d.server = IF after = None THEN WithoutRefs(c.server, w.at) ELSE c.server
  BY AppliedKey
<1>2. /\ w.at \in InputKeys
      /\ c.key \in [InputKeys -> KeyRow \cup {None}]
      /\ c.server \in [Names -> ServerRow \cup {None}]
  BY KeyWrites DEF Tables
<1>3. after \in KeyRow \cup {None}
  BY <1>2, KeyAfter
<1> HIDE DEF after
<1> DEFINE auth == c.system["system"].auth
           keys == [k \in InputKeys |-> KeyOf(c.key[k])]
           assocs == [n \in Names |-> AssocOf(c.server[n])]
<1>4. [k \in InputKeys |-> KeyOf(d.key[k])] = [keys EXCEPT ![w.at] = KeyOf(after)]
  BY <1>1, <1>2
<1>7. Config(c) = [auth |-> auth, keys |-> keys, assocs |-> assocs]
  BY ConfigParts
<1>5. CASE after # None
  <2>1. KeyOf(after) \in C!KeyRow
    BY <1>3, <1>5 DEF KeyOf, KeyRow, C!KeyRow
  <2>3. Config(d) = [ auth |-> auth, keys |-> [keys EXCEPT ![w.at] = KeyOf(after)],
                      assocs |-> assocs ]
    BY <1>1, <1>4, <1>5, ConfigParts
  <2> HIDE DEF auth, keys, assocs
  <2>2. Config(d) = C!KeySet(Config(c), w.at, KeyOf(after))
    BY <1>7, <2>3, KeySetParts
  <2>4. Config(d).keys[w.at] = KeyOf(after)
    BY <1>1, <1>2, ConfigParts
  <2> QED BY <1>2, <2>1, <2>2, <2>4 DEF EditOf
<1>6. CASE after = None
  <2>1. ASSUME NEW n \in Names
        PROVE  AssocOf(WithoutRefs(c.server, w.at)[n]) =
                 IF AssocOf(c.server[n]) # None /\ AssocOf(c.server[n]).key = w.at
                   THEN [AssocOf(c.server[n]) EXCEPT !.key = NoKey]
                   ELSE AssocOf(c.server[n])
    <3>1. CASE c.server[n] = None
      BY <1>2, <3>1, WithoutRefsType DEF AssocOf
    <3>2. CASE c.server[n] # None
      <4>1. PICK r \in ServerRow : r = c.server[n]
        BY <1>2, <3>2
      <4>2. PICK t : t = WithoutRefs(c.server, w.at)[n]
        OBVIOUS
      <4>3. /\ t # None /\ t.version = r.version /\ t.prefer = r.prefer
            /\ t.key = IF r.key # NoKey /\ r.key.key = w.at THEN NoKey ELSE r.key
        BY <1>2, <3>2, <4>1, <4>2, WithoutRefsType
      <4>4. AssocOf(t) =
              [ key  |-> IF r.key = NoKey \/ r.key.key = w.at THEN NoKey ELSE r.key.key,
                opts |-> [prefer |-> r.prefer, version |-> r.version] ]
        BY <4>3 DEF AssocOf
      <4>5. /\ AssocOf(r) =
                 [ key  |-> IF r.key = NoKey THEN NoKey ELSE r.key.key,
                   opts |-> [prefer |-> r.prefer, version |-> r.version] ]
            /\ AssocOf(r) \in C!Server
        BY <4>1, ConfigRows DEF AssocOf, ServerRow, KeyRef, C!Server, Opts
      <4>6. AssocOf(r) # None
        BY <4>5, ConfigAssumption
      <4>7. NoKey # w.at
        BY <1>2, ConfigAssumption
      <4>8. AssocOf(t) = IF AssocOf(r).key = w.at
                           THEN [AssocOf(r) EXCEPT !.key = NoKey] ELSE AssocOf(r)
        BY <4>4, <4>5, <4>7
      <4> QED BY <4>1, <4>2, <4>6, <4>8
    <3> QED BY <3>1, <3>2
  <2>2. [n \in Names |-> AssocOf(d.server[n])]
          = C!WithoutKey(assocs, w.at)
    BY <1>1, <1>6, <2>1 DEF C!WithoutKey
  <2>4. Config(d) = [ auth |-> auth, keys |-> [keys EXCEPT ![w.at] = None],
                      assocs |-> C!WithoutKey(assocs, w.at) ]
    <3>1. KeyOf(after) = None
      BY <1>6 DEF KeyOf
    <3>2. d.system["system"].auth = auth
      BY <1>1
    <3> QED BY <1>4, <2>2, <3>1, <3>2, ConfigParts
  <2> HIDE DEF auth, keys, assocs
  <2>3. Config(d) = C!KeyDeleted(Config(c), w.at)
    BY <1>7, <2>4, KeyDeletedParts
  <2> QED BY <1>2, <2>3 DEF EditOf
<1> QED BY <1>5, <1>6

\* A server is deleted, or set with a key that exists.
LEMMA ServerEdits ==
    ASSUME NEW c \in Tables, NEW w \in Writes, w.table = "server", NEW new \in Ids,
           NEW d, d = Applied(c, w, new), RefsExist(d)
    PROVE  EditOf(Config(c), Config(d))
<1> DEFINE after == RowAfter(c.server[w.at], w, new)
<1>1. /\ d \in Tables /\ d.system = c.system /\ d.key = c.key
      /\ d.server = [c.server EXCEPT ![w.at] = after]
  BY AppliedServer
<1>2. /\ w.at \in Names
      /\ c.server \in [Names -> ServerRow \cup {None}]
  BY ServerWrites DEF Tables
<1> HIDE DEF after
<1> DEFINE auth == c.system["system"].auth
           keys == [k \in InputKeys |-> KeyOf(c.key[k])]
           assocs == [n \in Names |-> AssocOf(c.server[n])]
<1>3. [n \in Names |-> AssocOf(d.server[n])] = [assocs EXCEPT ![w.at] = AssocOf(after)]
  BY <1>1, <1>2
<1>7. Config(c) = [auth |-> auth, keys |-> keys, assocs |-> assocs]
  BY ConfigParts
<1>8. Config(d) = [ auth |-> auth, keys |-> keys,
                    assocs |-> [assocs EXCEPT ![w.at] = AssocOf(after)] ]
  BY <1>1, <1>3, ConfigParts
<1> HIDE DEF auth, keys, assocs
<1>4. d.server[w.at] = after
  BY <1>1, <1>2
<1>5. CASE after = None
  <2>1. Config(d) = C!ServerDeleted(Config(c), w.at)
    <3>1. AssocOf(after) = None
      BY <1>5 DEF AssocOf
    <3> QED BY <1>7, <1>8, <3>1, ServerDeletedParts
  <2> QED BY <1>2, <2>1 DEF EditOf
<1>6. CASE after # None
  <2>1. Config(d).assocs[w.at] = AssocOf(after)
    BY <1>2, <1>4, ConfigParts
  <2>2. Config(d) = C!ServerSet(Config(c), w.at, Config(d).assocs[w.at])
    BY <1>7, <1>8, <2>1, ServerSetParts
  <2>3. Config(d).assocs[w.at] # None
    BY <1>1, <1>2, <1>4, <1>6, ConfigRows
  <2>4. Config(d).keys = Config(c).keys
    BY <1>1, ConfigParts
  <2>5. C!MayRefer(Config(c), Config(d).assocs[w.at])
    BY <1>1, <1>2, <1>4, <1>6, <2>4, ConfigRows DEF RefsExist, C!MayRefer
  <2> QED BY <1>2, <2>2, <2>3, <2>5 DEF EditOf
<1> QED BY <1>5, <1>6

\* However stale the replica was, a transaction of a session is one of the edits
\* that ConfigSync takes the operator to make.
THEOREM SessionsEdit == Spec => EditsAsModelled
<1>1. ASSUME TypeOK, AllSane, TypeOK', AllSane', [Next]_vars, db' # db
      PROVE  EditOf(Config(db), Config(db'))
  <2>1. PICK s \in Sessions : Commit(s)
    BY <1>1, Steps DEF vars, Issue, Refresh
  <2>2. PICK w \in Writes : db' = Applied(db, w, commands)
    BY <1>1, <2>1, Commits
  <2>3. db \in Tables /\ db' \in Tables /\ commands \in Ids
    BY <1>1 DEF TypeOK, Ids
  <2>4. RefsExist(db')
    BY <1>1, <2>3, References DEF AllSane, StoredIsSane
  <2>5. CASE w.table = "system"
    BY <2>2, <2>3, <2>5, AppliedSystem, SystemEdits
  <2> QED BY <2>2, <2>3, <2>4, <2>5, KeyEdits, ServerEdits, TablesWritten
<1>2. TypeOK /\ AllSane /\ TypeOK' /\ AllSane' /\ [Next]_vars
        => [db' # db => EditOf(Config(db), Config(db'))]_db
  BY <1>1
<1> QED BY <1>2, SaneAlways, PTL DEF Spec, EditsAsModelled

=============================================================================
