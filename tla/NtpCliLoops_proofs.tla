-------------------------- MODULE NtpCliLoops_proofs --------------------------
(***************************************************************************)
(* Proofs about the loops of NtpCli over the rows of a table: those of the *)
(* daemon, and those of the running configuration when it is typed in      *)
(* again.  First what one round does, then what all of them do, in         *)
(* whatever order they come to the rows.                                   *)
(***************************************************************************)
EXTENDS NtpCli_proofs, LoopTheorems, SequenceTheorems

USE NoneAssumption

\* An order of finitely many rows has each of them at one place.
LEMMA OrderOfRows ==
    ASSUME NEW f, IsFiniteSet(Present(f)), NEW order \in Orders(f)
    PROVE  /\ Len(order) \in Nat
           /\ order \in [1..Len(order) -> Present(f)]
           /\ \A i, j \in 1..Len(order) : order[i] = order[j] => i = j
           /\ \A x \in Present(f) : \E i \in 1..Len(order) : order[i] = x
<1> DEFINE n == Cardinality(Present(f))
<1>1. n \in Nat
  BY FS_CardinalityType
<1>2. /\ order \in [1..n -> Present(f)]
      /\ \A i, j \in 1..n : order[i] = order[j] => i = j
      /\ \A x \in Present(f) : \E i \in 1..n : order[i] = x
  BY DEF Orders, Bijection, Injection, Surjection, IsInjective
<1>3. order \in Seq(Present(f))
  BY <1>1, <1>2, SeqDef
<1> HIDE DEF n
<1>4. Len(order) = n
  BY <1>1, <1>2, <1>3, LenProperties
<1> QED BY <1>1, <1>2, <1>4

-----------------------------------------------------------------------------
(* The loops of the daemon over the rows.                                  *)

\* Whatever the variables of the loops hold when they come to a row, they take
\* from it what NtpConfig says the daemon wants, and nothing else.
RowsReadAlone(c) ==
    /\ \A st : \A k \in Present(c.key) :
          ReadKey(c, st, k).map =
            IF C!WantedKeys(Config(c))[k] = None
              THEN st.map
              ELSE Put(st.map, k, C!WantedKeys(Config(c))[k])
    /\ \A st : \A n \in Present(c.server) :
          ReadServer(c, st, n).map = Put(st.map, n, C!WantedServers(Config(c))[n])

\* No value that a command can store is one the loops take for absent, so that no
\* row is read as having the key id, the password or the address of the row
\* before it (ops_ntpd.py:674-716).
THEOREM RowsDoNotLeak == Spec => []RowsReadAlone(db)
<1>1. TypeOK /\ StoredIsSane => RowsReadAlone(db)
  <2> SUFFICES ASSUME TypeOK, StoredIsSane PROVE RowsReadAlone(db)
    OBVIOUS
  <2>1. /\ db.key \in [InputKeys -> KeyRow \cup {None}]
        /\ db.server \in [Names -> ServerRow \cup {None}]
    BY DEF TypeOK, Tables
  <2>2. ASSUME NEW st, NEW k \in Present(db.key)
        PROVE  ReadKey(db, st, k).map =
                 IF C!WantedKeys(Config(db))[k] = None
                   THEN st.map
                   ELSE Put(st.map, k, C!WantedKeys(Config(db))[k])
    <3>1. k \in InputKeys /\ db.key[k] # None
      BY <2>1, <2>2 DEF Present
    <3>2. k # 0 /\ db.key[k].pw # 0 /\ db.key[k].pw # None
      BY <2>1, <3>1, CliAssumption DEF StoredIsSane, SaneKeys, KeyRow
    <3>3. C!WantedKeys(Config(db))[k]
            = IF db.system["system"].auth /\ db.key[k].trust THEN db.key[k].pw ELSE None
      <4>1. db \in Tables
        BY DEF TypeOK
      <4>2. PICK row : row = Config(db).keys[k]
        OBVIOUS
      <4>3. row # None /\ row.pw = db.key[k].pw /\ row.trust = db.key[k].trust
        <5>1. row = [pw |-> db.key[k].pw, trust |-> db.key[k].trust]
          BY <3>1, <4>1, <4>2, ConfigRows
        <5>2. row # None
          BY <3>1, <4>1, <4>2, ConfigRows
        <5> QED BY <5>1, <5>2
      <4>4. Config(db).auth = db.system["system"].auth
        BY ConfigParts
      <4> QED BY <3>1, <4>2, <4>3, <4>4 DEF C!WantedKeys
    <3>4. ReadKey(db, st, k).map
            = IF db.key[k].trust /\ db.system["system"].auth
                THEN Put(st.map, k, db.key[k].pw) ELSE st.map
      BY <3>2 DEF ReadKey
    <3> QED BY <3>2, <3>3, <3>4
  <2>3. ASSUME NEW st, NEW n \in Present(db.server)
        PROVE  ReadServer(db, st, n).map
                 = Put(st.map, n, C!WantedServers(Config(db))[n])
    <3>1. n \in Names /\ db.server[n] # None
      BY <2>1, <2>3 DEF Present
    <3>2. NameLen[n] # 0 /\ db.server[n].version # Unset
      BY <2>1, <3>1, CliAssumption DEF ServerRow
    <3>3. C!WantedServers(Config(db))[n]
            = [ key  |-> IF db.server[n].key = NoKey THEN NoKey ELSE db.server[n].key.key,
                opts |-> [ prefer  |-> db.server[n].prefer,
                           version |-> db.server[n].version ] ]
      BY <3>1, ConfigParts DEF C!WantedServers, AssocOf
    <3> QED BY <3>2, <3>3 DEF ReadServer
  <2> QED BY <2>2, <2>3 DEF RowsReadAlone
<1> QED BY <1>1, SaneAlways, PTL DEF AllSane

-----------------------------------------------------------------------------
(* What the loops of the daemon make of all rows.                          *)

\* Maps of some of K to V.
Maps(K, V) == UNION {[S -> V] : S \in SUBSET K}

\* An assignment to a map: the one more pair.
LEMMA PutProperties ==
    ASSUME NEW K, NEW V, NEW map \in Maps(K, V), NEW x \in K, NEW v \in V
    PROVE  Put(map, x, v) \in Maps(K, V)
<1>1. PICK S \in SUBSET K : map \in [S -> V]
  BY DEF Maps
<1>2. Put(map, x, v) \in [{x} \cup S -> V] /\ {x} \cup S \in SUBSET K
  BY <1>1 DEF Put
<1> QED BY <1>2 DEF Maps

\* The empty map.
LEMMA EmptyMap == \A K, V : <<>> \in Maps(K, V) /\ DOMAIN <<>> = {}
<1>1. \A V : <<>> \in [{} -> V] /\ DOMAIN <<>> = {}
  OBVIOUS
<1> QED BY <1>1 DEF Maps

\* The maps after each of n rounds that put what is wanted of their row, if anything.
PutsWanted(maps, order, wanted, n) ==
    /\ maps[0] = <<>>
    /\ \A i \in 1..n :
          maps[i] = IF wanted[order[i]] = None THEN maps[i - 1]
                    ELSE Put(maps[i - 1], order[i], wanted[order[i]])

\* Such rounds end with all that is wanted of the rows.
LEMMA AllPut ==
    ASSUME NEW f, IsFiniteSet(Present(f)), NEW order \in Orders(f),
           NEW n, n = Len(order), NEW wanted,
           NEW maps, PutsWanted(maps, order, wanted, n)
    PROVE  /\ DOMAIN maps[n] = {x \in Present(f) : wanted[x] # None}
           /\ \A x \in DOMAIN maps[n] : maps[n][x] = wanted[x]
<1> DEFINE Read(i) == {x \in Present(f) :
                        wanted[x] # None /\ \E j \in 1..i : order[j] = x}
           S == {i \in Nat : i <= n => /\ DOMAIN maps[i] = Read(i)
                                      /\ \A x \in Read(i) : maps[i][x] = wanted[x]}
<1>0. n \in Nat
  BY OrderOfRows
<1>1. /\ order \in [1..n -> Present(f)]
      /\ \A x \in Present(f) : \E i \in 1..n : order[i] = x
  BY OrderOfRows
<1>2. 0 \in S
  BY EmptyMap DEF PutsWanted
<1>3. ASSUME NEW i \in Nat, i \in S PROVE i + 1 \in S
  <2> SUFFICES ASSUME i + 1 <= n
               PROVE  /\ DOMAIN maps[i + 1] = Read(i + 1)
                      /\ \A x \in Read(i + 1) : maps[i + 1][x] = wanted[x]
    OBVIOUS
  <2>1. /\ DOMAIN maps[i] = Read(i)
        /\ \A x \in Read(i) : maps[i][x] = wanted[x]
    BY <1>0, <1>3
  <2>2. i + 1 \in 1..n /\ (i + 1) - 1 = i
    BY <1>0
  <2> DEFINE y == order[i + 1]
  <2>3. y \in Present(f)
    BY <1>1, <2>2
  <2>4. Read(i + 1) = IF wanted[y] = None THEN Read(i) ELSE {y} \cup Read(i)
    <3>1. \A x : (\E j \in 1..(i + 1) : order[j] = x)
                  <=> x = y \/ \E j \in 1..i : order[j] = x
      <4>1. \A j : j \in 1..(i + 1) <=> j = i + 1 \/ j \in 1..i
        OBVIOUS
      <4> QED BY <4>1
    <3> QED BY <2>3, <3>1
  <2>5. maps[i + 1] = IF wanted[y] = None THEN maps[i] ELSE Put(maps[i], y, wanted[y])
    BY <2>2 DEF PutsWanted
  <2> HIDE DEF Read, y
  <2>6. CASE wanted[y] = None
    BY <2>1, <2>4, <2>5, <2>6
  <2>7. CASE wanted[y] # None
    <3>2. /\ DOMAIN maps[i + 1] = {y} \cup DOMAIN maps[i]
          /\ \A x \in {y} \cup DOMAIN maps[i] :
                maps[i + 1][x] = IF x = y THEN wanted[y] ELSE maps[i][x]
      BY <2>5, <2>7 DEF Put
    <3> QED BY <2>1, <2>4, <2>7, <3>2
  <2> QED BY <2>6, <2>7
<1> HIDE DEF S
<1>4. Nat \subseteq S
  BY <1>2, <1>3, Induction
<1>5. /\ DOMAIN maps[n] = Read(n)
      /\ \A x \in Read(n) : maps[n][x] = wanted[x]
  BY <1>0, <1>4 DEF S
<1> QED BY <1>0, <1>1, <1>5

\* The keys that are wanted, and their passwords, said of the rows.
LEMMA KeysWanted ==
    ASSUME NEW c \in Tables, NEW wanted, wanted = C!WantedKeys(Config(c))
    PROVE  /\ Present(wanted)
                = {k \in Present(c.key) : c.system["system"].auth /\ c.key[k].trust}
           /\ Present(wanted) = {k \in Present(c.key) : wanted[k] # None}
           /\ \A k \in Present(wanted) : wanted[k] = c.key[k].pw
<1> DEFINE auth == c.system["system"].auth
<1>1. Config(c).auth = auth
  BY ConfigParts
<1>2. DOMAIN c.key = InputKeys /\ DOMAIN wanted = InputKeys
  BY DEF Tables, C!WantedKeys
<1>3. ASSUME NEW k \in InputKeys
      PROVE  /\ wanted[k] # None <=> c.key[k] # None /\ auth /\ c.key[k].trust
             /\ wanted[k] # None => wanted[k] = c.key[k].pw
  <2>1. PICK row : row = Config(c).keys[k]
    OBVIOUS
  <2>2. wanted[k] = IF auth /\ row # None /\ row.trust THEN row.pw ELSE None
    BY <1>1, <2>1 DEF C!WantedKeys
  <2>3. CASE c.key[k] = None
    BY <2>1, <2>2, <2>3, ConfigRows
  <2>4. CASE c.key[k] # None
    <3>1. row = [pw |-> c.key[k].pw, trust |-> c.key[k].trust]
      BY <2>1, <2>4, ConfigRows
    <3>2. row # None
      BY <2>1, <2>4, ConfigRows
    <3>3. c.key[k] \in KeyRow
      BY <2>4 DEF Tables
    <3>4. c.key[k].pw # None
      BY <3>3, CliAssumption DEF KeyRow
    <3> QED BY <2>2, <2>4, <3>1, <3>2, <3>4
  <2> QED BY <2>3, <2>4
<1> HIDE DEF auth
<1>4. Present(wanted) = {k \in Present(c.key) : auth /\ c.key[k].trust}
  BY <1>2, <1>3 DEF Present
<1>5. Present(wanted) = {k \in Present(c.key) : wanted[k] # None}
  BY <1>2, <1>3 DEF Present
<1>6. \A k \in Present(wanted) : wanted[k] = c.key[k].pw
  BY <1>2, <1>3 DEF Present
<1> QED BY <1>4, <1>5, <1>6 DEF auth

\* The loop over the keys gives the map of passwords that is wanted.
LEMMA KeysRead ==
    ASSUME NEW c \in Tables, RowsReadAlone(c), NEW order \in Orders(c.key),
           NEW map, map = ReadKeys(c, order)
    PROVE  /\ DOMAIN map = Present(C!WantedKeys(Config(c)))
           /\ \A k \in DOMAIN map : map[k] = C!WantedKeys(Config(c))[k]
<1> DEFINE wanted == C!WantedKeys(Config(c))
           ids == InputKeys \cup {Unbound}
           pws == InputPwLens \cup {Unbound}
           D == [id : ids, pw : pws, map : Maps(ids, pws)]
           st == [id |-> Unbound, pw |-> Unbound, map |-> <<>>]
<1>1. PICK n : n = Len(order)
  OBVIOUS
<1>2. /\ c.key \in [InputKeys -> KeyRow \cup {None}]
      /\ Present(c.key) \subseteq InputKeys
      /\ \A k \in Present(c.key) : c.key[k] \in KeyRow
  BY DEF Tables, Present
<1>3. IsFiniteSet(Present(c.key))
  BY <1>2, FS_Subset, CliAssumption
<1>4. n \in Nat /\ order \in [1..n -> Present(c.key)]
  BY <1>1, <1>3, OrderOfRows
<1>5. ASSUME NEW s \in D, NEW k \in Present(c.key) PROVE ReadKey(c, s, k) \in D
  <2> DEFINE id == IF k # 0 THEN k ELSE s.id
             pw == IF c.key[k].pw # 0 THEN c.key[k].pw ELSE s.pw
             put == Put(s.map, id, pw)
  <2>1. id \in ids /\ pw \in pws
    BY <1>2, <1>5 DEF KeyRow
  <2>2. s.map \in Maps(ids, pws)
    BY <1>5
  <2>3. ReadKey(c, s, k)
          = [ id |-> id, pw |-> pw,
              map |-> IF c.key[k].trust /\ c.system["system"].auth THEN put ELSE s.map ]
    BY DEF ReadKey
  <2> HIDE DEF ids, pws, id, pw
  <2>4. put \in Maps(ids, pws)
    BY <2>1, <2>2, PutProperties
  <2> HIDE DEF put
  <2> QED BY <2>1, <2>2, <2>3, <2>4
<1>6. st \in D
  BY EmptyMap
<1> HIDE DEF D, st
<1>7. PICK g \in [0..n -> D] :
        g[0] = st /\ \A i \in 1..n : g[i] = ReadKey(c, g[i - 1], order[i])
  <2> DEFINE round == [i \in 1..n |-> [s \in D |-> ReadKey(c, s, order[i])]]
  <2>1. round \in [1..n -> [D -> D]]
    BY <1>4, <1>5
  <2> HIDE DEF round
  <2>2. PICK g : g \in Runs(D, st, round, n)
    BY <1>4, <1>6, <2>1, RunExists
  <2>3. ASSUME NEW i \in 1..n PROVE g[i] = ReadKey(c, g[i - 1], order[i])
    <3>1. g[i - 1] \in D
      BY <1>4, <2>2 DEF Runs
    <3> QED BY <2>2, <3>1 DEF round, Runs
  <2> QED BY <2>2, <2>3 DEF Runs
<1>8. map = g[n].map
  <2>1. g = [i \in 0..n |-> IF i = 0 THEN st ELSE ReadKey(c, g[i - 1], order[i])]
    BY <1>4, <1>7
  <2>2. PICK f : /\ f = [i \in 0..n |->
                          IF i = 0 THEN st ELSE ReadKey(c, f[i - 1], order[i])]
                 /\ map = f[n].map
    BY <1>1, <2>1 DEF ReadKeys, Loop, st
  <2>3. /\ f[0] = st
        /\ \A i \in 1..n : f[i] = ReadKey(c, f[i - 1], order[i])
    BY <1>4, <2>2
  <2>4. f[0] = g[0] /\ \A i \in 1..n : f[i - 1] = g[i - 1] => f[i] = g[i]
    BY <1>7, <2>3
  <2>5. f[n] = g[n]
    BY <1>4, <2>4, RunsAgree
  <2> QED BY <2>2, <2>5
<1>9. Present(wanted) = {k \in Present(c.key) : wanted[k] # None}
  BY KeysWanted
<1> DEFINE maps == [i \in 0..n |-> g[i].map]
<1>10. maps[0] = <<>>
  BY <1>4, <1>7 DEF st
<1>11. ASSUME NEW i \in 1..n
       PROVE  maps[i] = IF wanted[order[i]] = None THEN maps[i - 1]
                        ELSE Put(maps[i - 1], order[i], wanted[order[i]])
  <2>1. order[i] \in Present(c.key) /\ i - 1 \in 0..n
    BY <1>4
  <2>2. ReadKey(c, g[i - 1], order[i]).map
          = IF wanted[order[i]] = None THEN g[i - 1].map
            ELSE Put(g[i - 1].map, order[i], wanted[order[i]])
    BY <2>1 DEF RowsReadAlone
  <2>3. maps[i] = g[i].map /\ maps[i - 1] = g[i - 1].map
    BY <2>1
  <2> HIDE DEF maps, wanted
  <2> QED BY <1>7, <2>2, <2>3
<1>12. map = maps[n]
  BY <1>4, <1>8
<1> HIDE DEF maps, wanted
<1>13. /\ DOMAIN maps[n] = {x \in Present(c.key) : wanted[x] # None}
       /\ \A x \in DOMAIN maps[n] : maps[n][x] = wanted[x]
  <2>1. PutsWanted(maps, order, wanted, n)
    BY <1>10, <1>11 DEF PutsWanted
  <2> QED BY <1>1, <1>3, <2>1, AllPut
<1> QED BY <1>9, <1>12, <1>13 DEF wanted

\* The loop over the servers gives the map of servers that is wanted.
LEMMA ServersRead ==
    ASSUME NEW c \in Tables, RowsReadAlone(c), NEW order \in Orders(c.server),
           NEW map, map = ReadServers(c, order)
    PROVE  /\ DOMAIN map = Present(c.server)
           /\ \A n \in DOMAIN map : map[n] = C!WantedServers(Config(c))[n]
<1> DEFINE wanted == C!WantedServers(Config(c))
           addresses == Names \cup {Unbound}
           D == [address : addresses, map : Maps(addresses, C!Server)]
           st == [address |-> Unbound, map |-> <<>>]
<1>1. PICK n : n = Len(order)
  OBVIOUS
<1>2. /\ c.server \in [Names -> ServerRow \cup {None}]
      /\ Present(c.server) \subseteq Names
      /\ \A a \in Present(c.server) : c.server[a] \in ServerRow
  BY DEF Tables, Present
<1>3. IsFiniteSet(Present(c.server))
  BY <1>2, FS_Subset, CliAssumption
<1>4. n \in Nat /\ order \in [1..n -> Present(c.server)]
  BY <1>1, <1>3, OrderOfRows
<1>5. ASSUME NEW s \in D, NEW a \in Present(c.server) PROVE ReadServer(c, s, a) \in D
  <2> DEFINE row == c.server[a]
             address == IF NameLen[a] # 0 THEN a ELSE s.address
             value == [ key  |-> IF row.key = NoKey THEN NoKey ELSE row.key.key,
                        opts |-> [ prefer  |-> row.prefer,
                                   version |-> IF row.version = Unset
                                                 THEN VersionDefault
                                                 ELSE row.version ]]
             put == Put(s.map, address, value)
  <2>1. address \in addresses
    BY <1>2, <1>5
  <2>2. s.map \in Maps(addresses, C!Server)
    BY <1>5
  <2>3. value \in C!Server
    BY <1>2, <1>5, CliAssumption DEF ServerRow, KeyRef, C!Server, Opts
  <2>4. ReadServer(c, s, a) = [address |-> address, map |-> put]
    BY DEF ReadServer
  <2> HIDE DEF addresses, address, value
  <2>5. put \in Maps(addresses, C!Server)
    BY <2>1, <2>2, <2>3, PutProperties
  <2> HIDE DEF put
  <2> QED BY <2>1, <2>4, <2>5
<1>6. st \in D
  BY EmptyMap
<1> HIDE DEF D, st
<1>7. PICK g \in [0..n -> D] :
        g[0] = st /\ \A i \in 1..n : g[i] = ReadServer(c, g[i - 1], order[i])
  <2> DEFINE round == [i \in 1..n |-> [s \in D |-> ReadServer(c, s, order[i])]]
  <2>1. round \in [1..n -> [D -> D]]
    BY <1>4, <1>5
  <2> HIDE DEF round
  <2>2. PICK g : g \in Runs(D, st, round, n)
    BY <1>4, <1>6, <2>1, RunExists
  <2>3. ASSUME NEW i \in 1..n PROVE g[i] = ReadServer(c, g[i - 1], order[i])
    <3>1. g[i - 1] \in D
      BY <1>4, <2>2 DEF Runs
    <3> QED BY <2>2, <3>1 DEF round, Runs
  <2> QED BY <2>2, <2>3 DEF Runs
<1>8. map = g[n].map
  <2>1. g = [i \in 0..n |-> IF i = 0 THEN st ELSE ReadServer(c, g[i - 1], order[i])]
    BY <1>4, <1>7
  <2>2. PICK f : /\ f = [i \in 0..n |-> IF i = 0 THEN st
                                        ELSE ReadServer(c, f[i - 1], order[i])]
                 /\ map = f[n].map
    BY <1>1, <2>1 DEF ReadServers, Loop, st
  <2>3. /\ f[0] = st
        /\ \A i \in 1..n : f[i] = ReadServer(c, f[i - 1], order[i])
    BY <1>4, <2>2
  <2>4. f[0] = g[0] /\ \A i \in 1..n : f[i - 1] = g[i - 1] => f[i] = g[i]
    BY <1>7, <2>3
  <2>5. f[n] = g[n]
    BY <1>4, <2>4, RunsAgree
  <2> QED BY <2>2, <2>5
<1>9. \A a \in Present(c.server) : wanted[a] # None
  BY <1>2, ConfigRows DEF Present, C!WantedServers
<1> DEFINE maps == [i \in 0..n |-> g[i].map]
<1>10. maps[0] = <<>>
  BY <1>4, <1>7 DEF st
<1>11. ASSUME NEW i \in 1..n
       PROVE  maps[i] = IF wanted[order[i]] = None THEN maps[i - 1]
                        ELSE Put(maps[i - 1], order[i], wanted[order[i]])
  <2>1. order[i] \in Present(c.server) /\ i - 1 \in 0..n
    BY <1>4
  <2>2. ReadServer(c, g[i - 1], order[i]).map
          = Put(g[i - 1].map, order[i], wanted[order[i]])
    BY <2>1 DEF RowsReadAlone
  <2>3. maps[i] = g[i].map /\ maps[i - 1] = g[i - 1].map
    BY <2>1
  <2> HIDE DEF maps, wanted
  <2> QED BY <1>7, <1>9, <2>1, <2>2, <2>3
<1>12. map = maps[n]
  BY <1>4, <1>8
<1> HIDE DEF maps, wanted
<1>13. /\ DOMAIN maps[n] = {x \in Present(c.server) : wanted[x] # None}
       /\ \A x \in DOMAIN maps[n] : maps[n][x] = wanted[x]
  <2>1. PutsWanted(maps, order, wanted, n)
    BY <1>10, <1>11 DEF PutsWanted
  <2> QED BY <1>1, <1>3, <2>1, AllPut
<1> QED BY <1>9, <1>12, <1>13 DEF wanted

\* In whatever order the daemon meets the rows that sessions have stored, its loops
\* take from them what NtpConfig says it wants (ops_ntpd.py:674-716).
THEOREM RowsRead == Spec => []DaemonReadsWhatIsStored
<1>1. TypeOK /\ RowsReadAlone(db) => DaemonReadsWhatIsStored
  BY KeysRead, ServersRead DEF DaemonReadsWhatIsStored, TypeOK
<1> QED BY <1>1, TypeCorrect, RowsDoNotLeak, PTL

\* What the show commands print is what the daemon gives to ntpd.
THEOREM ShowTellsTheTruth == Spec => []ShownIsUsed
<1>1. TypeOK /\ DaemonReadsWhatIsStored => ShownIsUsed
  <2> SUFFICES ASSUME TypeOK, DaemonReadsWhatIsStored PROVE ShownIsUsed
    OBVIOUS
  <2>1. db \in Tables
    BY DEF TypeOK
  <2>2. ASSUME NEW order \in Orders(db.key), NEW map, map = ReadKeys(db, order)
        PROVE  /\ DOMAIN map = IF ShowAuthentication(db) THEN ShowTrustedKeys(db) ELSE {}
               /\ \A k \in DOMAIN map : map[k] = ShowAuthenticationKeys(db)[k]
    <3>1. PICK wanted : wanted = C!WantedKeys(Config(db))
      OBVIOUS
    <3>2. DOMAIN map = Present(wanted) /\ \A k \in DOMAIN map : map[k] = wanted[k]
      BY <2>2, <3>1 DEF DaemonReadsWhatIsStored
    <3>3. /\ Present(wanted)
                = {k \in Present(db.key) : db.system["system"].auth /\ db.key[k].trust}
          /\ \A k \in Present(wanted) : wanted[k] = db.key[k].pw
      BY <2>1, <3>1, KeysWanted
    <3> QED BY <3>2, <3>3
         DEF ShowAuthentication, ShowTrustedKeys, ShowAuthenticationKeys
  <2>3. ASSUME NEW order \in Orders(db.server), NEW map, map = ReadServers(db, order)
        PROVE  ShowAssociations(db)
                 = [n \in DOMAIN map |->
                      [version |-> map[n].opts.version, key |-> map[n].key]]
    <3>1. /\ DOMAIN map = Present(db.server)
          /\ \A n \in DOMAIN map : map[n] = C!WantedServers(Config(db))[n]
      BY <2>3 DEF DaemonReadsWhatIsStored
    <3>2. ASSUME NEW n \in Present(db.server)
          PROVE  /\ map[n].opts.version = db.server[n].version
                 /\ map[n].key = IF db.server[n].key = NoKey THEN NoKey
                                 ELSE db.server[n].key.key
      <4>1. n \in Names /\ db.server[n] # None
        BY <2>1, <3>2 DEF Present, Tables
      <4>2. map[n] = AssocOf(db.server[n])
        BY <3>1, <3>2, <4>1, ConfigParts DEF C!WantedServers
      <4> QED BY <4>1, <4>2 DEF AssocOf
    <3> QED BY <3>1, <3>2 DEF ShowAssociations
  <2> QED BY <2>2, <2>3 DEF ShownIsUsed
<1> QED BY <1>1, TypeCorrect, RowsRead, PTL

-----------------------------------------------------------------------------
(* The lines of the running configuration.                                 *)

\* Typed in on tables without that row, a line stores what NtpConfig sees in the
\* row it was printed from, and nothing else: a key at any time, a server once
\* the key it has is there and while there is room for it.
LinesRestore(c) ==
    \A d \in Tables :
        /\ \A k \in Present(c.key) : d.key[k] = None =>
              LET e == RestoreKey(d, c.key[k], k)
              IN  e \in Tables /\ Config(e) = C!KeySet(Config(d), k, Config(c).keys[k])
        /\ \A n \in Present(c.server) :
              d.server[n] = None /\ ~Full(d) /\ C!MayRefer(Config(d), Config(c).assocs[n])
              => LET e == RestoreServer(d, c.server[n], n)
                 IN  /\ e \in Tables
                     /\ Config(e) = C!ServerSet(Config(d), n, Config(c).assocs[n])

\* A key that is written is set.
LEMMA KeyRowSet ==
    ASSUME NEW c \in Tables, NEW d, NEW k \in InputKeys, NEW row \in KeyRow,
           d.system = c.system, d.server = c.server, d.key = [c.key EXCEPT ![k] = row]
    PROVE  Config(d) = C!KeySet(Config(c), k, KeyOf(row))
<1> DEFINE auth == c.system["system"].auth
           keys == [i \in InputKeys |-> KeyOf(c.key[i])]
           assocs == [n \in Names |-> AssocOf(c.server[n])]
<1>1. [i \in InputKeys |-> KeyOf(d.key[i])] = [keys EXCEPT ![k] = KeyOf(row)]
  BY DEF Tables
<1>2. Config(d)
        = [auth |-> auth, keys |-> [keys EXCEPT ![k] = KeyOf(row)], assocs |-> assocs]
  BY <1>1, ConfigParts
<1>3. Config(c) = [auth |-> auth, keys |-> keys, assocs |-> assocs]
  BY ConfigParts
<1> HIDE DEF auth, keys, assocs
<1> QED BY <1>2, <1>3, KeySetParts

\* A server that is written is set.
LEMMA ServerRowSet ==
    ASSUME NEW c \in Tables, NEW d, NEW n \in Names, NEW row,
           d.system = c.system, d.key = c.key, d.server = [c.server EXCEPT ![n] = row]
    PROVE  Config(d) = C!ServerSet(Config(c), n, AssocOf(row))
<1> DEFINE auth == c.system["system"].auth
           keys == [k \in InputKeys |-> KeyOf(c.key[k])]
           assocs == [i \in Names |-> AssocOf(c.server[i])]
<1>1. [i \in Names |-> AssocOf(d.server[i])] = [assocs EXCEPT ![n] = AssocOf(row)]
  BY DEF Tables
<1>2. Config(d)
        = [auth |-> auth, keys |-> keys, assocs |-> [assocs EXCEPT ![n] = AssocOf(row)]]
  BY <1>1, ConfigParts
<1>3. Config(c) = [auth |-> auth, keys |-> keys, assocs |-> assocs]
  BY ConfigParts
<1> HIDE DEF auth, keys, assocs
<1> QED BY <1>2, <1>3, ServerSetParts

\* ntp authentication-key, and ntp trusted-key if the key is trusted.
LEMMA KeyLine ==
    ASSUME NEW d \in Tables, NEW k \in InputKeys, d.key[k] = None, NEW row \in KeyRow,
           ValidKeyId(k), ValidPassword(row.pw), NEW e, e = RestoreKey(d, row, k)
    PROVE  e \in Tables /\ Config(e) = C!KeySet(Config(d), k, KeyOf(row))
<1> DEFINE cols == [pw |-> row.pw, trust |-> FALSE]
           first == [id |-> 0, pw |-> row.pw, trust |-> FALSE]
<1>1. 0 \in Ids
  BY CliAssumption DEF Ids
<1>2. row.pw \in InputPwLens /\ row.trust \in BOOLEAN /\ first \in KeyRow
  BY <1>1 DEF KeyRow
<1>13. cols \in NewKeyCols /\ Over([id |-> 0], cols) = first
  <2>1. cols \in [pw : {row.pw}, trust : {FALSE}] /\ cols \in NewKeyCols
    BY <1>2 DEF NewKeyCols
  <2> HIDE DEF cols
  <2>2. PICK r : r = Over([id |-> 0], cols)
    OBVIOUS
  <2>3. r \in [id : {0}, pw : {row.pw}, trust : {FALSE}]
    BY <2>1, <2>2 DEF Over
  <2>4. r = first
    BY <2>3
  <2> QED BY <2>1, <2>2, <2>4
<1> HIDE DEF cols, first
<1>3. PICK w : w = AuthKey(d, k, row.pw)
  OBVIOUS
<1>4. w = Write("key", k, None, cols)
  BY <1>3 DEF AuthKey, GetAuthKey, Insert, cols
<1>5. w \in Writes /\ w # None
  <2>1. w \in Writes
    BY <1>4, <1>13, Written
  <2> QED BY <2>1
<1>6. PICK keyed : keyed = Applied(d, w, 0)
  OBVIOUS
<1>7. RowAfter(d.key[k], w, 0) = first
  <2>1. w.id = None /\ w.cols = cols
    BY <1>4 DEF Write
  <2> QED BY <1>13, <2>1 DEF RowAfter, Hits
<1>8. /\ keyed \in Tables /\ keyed.system = d.system /\ keyed.server = d.server
      /\ keyed.key = [d.key EXCEPT ![k] = first]
  BY <1>1, <1>2, <1>4, <1>5, <1>6, <1>7, AppliedKey DEF Write
<1>9. keyed.key[k] = first /\ first # None
  BY <1>2, <1>8 DEF Tables
<1>10. e = IF row.trust THEN Do(keyed, TrustedKey(keyed, k, FALSE)) ELSE keyed
  BY <1>3, <1>5, <1>6 DEF RestoreKey, Do
<1>11. CASE ~row.trust
  <2>1. KeyOf(row) = KeyOf(first)
    BY <1>2, <1>9, <1>11 DEF KeyOf, first
  <2> QED BY <1>2, <1>8, <1>10, <1>11, <2>1, KeyRowSet
<1>12. CASE row.trust
  <2> DEFINE trusted == [trust |-> TRUE]
             second == [id |-> 0, pw |-> row.pw, trust |-> TRUE]
  <2>1. PICK v : v = TrustedKey(keyed, k, FALSE)
    OBVIOUS
  <2>2. v = Write("key", k, 0, trusted)
    <3>1. keyed.key[k].id = 0
      BY <1>9 DEF first
    <3> QED BY <1>9, <2>1, <3>1 DEF TrustedKey, GetAuthKey, Update
  <2>10. /\ trusted \in KeyCols /\ Over(trusted, first) = second
         /\ second \in KeyRow /\ KeyOf(row) = KeyOf(second)
    <3>1. trusted \in KeyCols
      BY DEF KeyCols
    <3>2. Over(trusted, first) = second
      <4>1. /\ trusted \in [trust : {TRUE}]
            /\ first \in [id : {0}, pw : {row.pw}, trust : {FALSE}]
        BY DEF first
      <4> HIDE DEF trusted
      <4>2. PICK r : r = Over(trusted, first)
        OBVIOUS
      <4>3. r \in [id : {0}, pw : {row.pw}, trust : {TRUE}]
        BY <4>1, <4>2 DEF Over
      <4>4. r = second
        BY <4>3
      <4> QED BY <4>2, <4>4
    <3>3. second \in KeyRow
      BY <1>1, <1>2 DEF KeyRow
    <3>4. second # None /\ row # None
      BY <3>3
    <3>5. second.pw = row.pw /\ second.trust = row.trust
      BY <1>2, <1>12
    <3> HIDE DEF second, trusted
    <3> QED BY <3>1, <3>2, <3>3, <3>4, <3>5 DEF KeyOf
  <2> HIDE DEF trusted
  <2>3. v \in Writes /\ v # None
    <3>1. v \in Writes
      BY <1>1, <2>2, <2>10, Written
    <3> QED BY <3>1
  <2>4. e = Applied(keyed, v, 0)
    BY <1>10, <1>12, <2>1, <2>3 DEF Do
  <2>5. RowAfter(first, v, 0) = second
    <3>1. v.id = 0 /\ v.cols = trusted
      BY <2>2 DEF Write
    <3>2. first.id = 0 /\ 0 # None /\ trusted # None
      BY <1>1, <2>10 DEF first
    <3>3. RowAfter(first, v, 0) = Over(trusted, first)
      BY <1>9, <3>1, <3>2 DEF RowAfter, Hits
    <3> QED BY <2>10, <3>3
  <2> HIDE DEF second
  <2>7. second # None
    BY <2>10
  <2>8. /\ e \in Tables /\ e.system = keyed.system /\ e.server = keyed.server
        /\ e.key = [keyed.key EXCEPT ![k] = second]
    BY <1>1, <1>8, <1>9, <2>2, <2>3, <2>4, <2>5, <2>7, AppliedKey DEF Write
  <2>9. e.key = [d.key EXCEPT ![k] = second]
    BY <1>8, <2>8 DEF Tables
  <2> QED BY <1>8, <2>10, <2>8, <2>9, KeyRowSet
<1> QED BY <1>11, <1>12

\* ntp server, on tables without the row: the attributes printed are those given,
\* and what is not printed is the default.
LEMMA ServerLine ==
    ASSUME NEW d \in Tables, NEW n \in Names, d.server[n] = None, ~Full(d),
           NEW row \in ServerRow, ValidName(n), row.version \in {3, 4},
           row.key # NoKey => ValidKeyId(row.key.key) /\ d.key[row.key.key] # None,
           NEW e, e = RestoreServer(d, row, n)
    PROVE  e \in Tables /\ Config(e) = C!ServerSet(Config(d), n, AssocOf(row))
<1> DEFINE version == IF row.version # VersionDefault THEN row.version ELSE Unset
           k == IF row.key # NoKey THEN row.key.key ELSE Unset
           ref == [key |-> row.key.key, id |-> d.key[row.key.key].id]
           key == IF row.key # NoKey THEN ref ELSE NoKey
           given == Columns(d, NewServer, row.prefer, version, k)
           cols == Over(given, NewServer)
           after == Over([id |-> 0], cols)
<1>1. /\ row.prefer \in BOOLEAN /\ row.version \in InputVersions
      /\ row.key # NoKey => row.key.key \in InputKeys
      /\ 0 \in Ids
  BY CliAssumption DEF ServerRow, KeyRef, Ids
<1>2. /\ (version # Unset) = (row.version # VersionDefault)
      /\ (k # Unset) = (row.key # NoKey)
  BY <1>1, CliAssumption
<1>3. Sane(d, n, version, k)
  BY <1>2 DEF Sane, GetAuthKey, VersionDefault, VersionMax
<1>4. /\ key \in KeyRef
      /\ row.key # NoKey => key # NoKey /\ key.key = row.key.key
      /\ row.key = NoKey => key = NoKey
  <2>1. row.key # NoKey => d.key[row.key.key] \in KeyRow
    BY <1>1 DEF Tables
  <2>2. row.key # NoKey => ref \in [key : InputKeys, id : Ids]
    BY <1>1, <2>1 DEF KeyRow
  <2>3. ref.key = row.key.key
    OBVIOUS
  <2> HIDE DEF ref
  <2> QED BY <2>2, <2>3, NoKeyAssumption DEF KeyRef
<1>5. cols \in [prefer : {row.prefer}, version : {row.version}, key : {key}]
  <2> DEFINE attributes == [ prefer  |-> row.prefer \/ NewServer.prefer,
                             version |-> IF version # Unset THEN version
                                                            ELSE NewServer.version ]
  <2>1. attributes \in [prefer : {row.prefer}, version : {row.version}]
    BY <1>1, <1>2 DEF NewServer
  <2>2. NewServer \in [key : {NoKey}, prefer : BOOLEAN, version : {VersionDefault}]
    BY DEF NewServer
  <2>3. given = IF k = Unset THEN attributes
                ELSE Over([key |-> [key |-> k, id |-> GetAuthKey(d, k).id]], attributes)
    BY DEF Columns
  <2>4. k # Unset => [key |-> k, id |-> GetAuthKey(d, k).id] = key
    BY <1>2 DEF GetAuthKey
  <2>5. k = Unset => key = NoKey
    BY <1>2
  <2> HIDE DEF attributes, version, k, key, given
  <2>6. CASE k = Unset
    BY <2>1, <2>2, <2>3, <2>5, <2>6 DEF Over
  <2>7. CASE k # Unset
    <3>1. given = Over([key |-> key], attributes)
      BY <2>3, <2>4, <2>7
    <3>2. given \in [prefer : {row.prefer}, version : {row.version}, key : {key}]
      BY <2>1, <3>1 DEF Over
    <3> QED BY <2>2, <3>2 DEF Over
  <2> QED BY <2>6, <2>7
<1> HIDE DEF key, given, cols
<1>6. PICK w : w = Server(d, n, row.prefer, version, k)
  OBVIOUS
<1>7. w = Write("server", n, None, cols)
  BY <1>3, <1>6 DEF Server, GetAssoc, Insert, cols, given
<1>8. w \in Writes /\ w # None
  <2>1. cols \in NewServerCols
    BY <1>1, <1>4, <1>5 DEF NewServerCols
  <2>2. w \in Writes
    BY <1>7, <2>1, Written
  <2> QED BY <2>2
<1>9. e = Applied(d, w, 0)
  BY <1>6, <1>8 DEF RestoreServer, Do
<1>10. /\ after \in [ id : {0}, prefer : {row.prefer}, version : {row.version},
                      key : {key} ]
       /\ RowAfter(d.server[n], w, 0) = after
  <2>1. w.id = None /\ w.cols = cols
    BY <1>7 DEF Write
  <2> QED BY <1>5, <2>1 DEF RowAfter, Hits, Over
<1> HIDE DEF after, version, k
<1>11. /\ e \in Tables /\ e.system = d.system /\ e.key = d.key
       /\ e.server = [d.server EXCEPT ![n] = after]
  BY <1>1, <1>7, <1>8, <1>9, <1>10, AppliedServer DEF Write
<1>12. AssocOf(after) = AssocOf(row)
  <2>1. after \in ServerRow
    BY <1>1, <1>4, <1>10 DEF ServerRow
  <2>2. after # None /\ row # None
    BY <2>1
  <2>3. /\ after.prefer = row.prefer /\ after.version = row.version
        /\ after.key = key
    BY <1>10
  <2> QED BY <1>4, <2>2, <2>3 DEF AssocOf
<1> QED BY <1>11, <1>12, ServerRowSet

\* The running configuration prints what every key and every server it prints
\* needs to be typed in again, and prints nothing the commands would refuse
\* (vtysh_config_context_ntp_clientcallback).
THEOREM EveryLineRestores == Spec => []LinesRestore(db)
<1>1. TypeOK /\ StoredIsSane => LinesRestore(db)
  <2> SUFFICES ASSUME TypeOK, StoredIsSane, NEW d \in Tables
               PROVE  /\ \A k \in Present(db.key) : d.key[k] = None =>
                            LET e == RestoreKey(d, db.key[k], k)
                            IN  /\ e \in Tables
                                /\ Config(e) = C!KeySet(Config(d), k, Config(db).keys[k])
                      /\ \A n \in Present(db.server) :
                            /\ d.server[n] = None /\ ~Full(d)
                            /\ C!MayRefer(Config(d), Config(db).assocs[n])
                            => LET e == RestoreServer(d, db.server[n], n)
                               IN  /\ e \in Tables
                                   /\ Config(e)
                                        = C!ServerSet(Config(d), n, Config(db).assocs[n])
    BY DEF LinesRestore
  <2>1. /\ db \in Tables
        /\ db.key \in [InputKeys -> KeyRow \cup {None}]
        /\ db.server \in [Names -> ServerRow \cup {None}]
    BY DEF TypeOK, Tables
  <2>2. ASSUME NEW k \in InputKeys, db.key[k] # None
        PROVE  ValidKeyId(k) /\ ValidPassword(db.key[k].pw) /\ db.key[k] \in KeyRow
    <3>1. /\ 1 <= k /\ k < 65535 /\ 8 <= db.key[k].pw /\ db.key[k].pw <= 16
          /\ db.key[k] \in KeyRow /\ k \in Nat
      BY <2>1, <2>2, CliAssumption DEF StoredIsSane, SaneKeys
    <3> QED BY <3>1 DEF ValidKeyId, ValidPassword, KeyIdMin, KeyIdMax, PwLenMin, PwLenMax
  <2>3. ASSUME NEW k \in Present(db.key), d.key[k] = None,
               NEW e, e = RestoreKey(d, db.key[k], k)
        PROVE  e \in Tables /\ Config(e) = C!KeySet(Config(d), k, Config(db).keys[k])
    <3>1. k \in InputKeys /\ db.key[k] # None
      BY <2>1, <2>3 DEF Present
    <3>2. Config(db).keys[k] = KeyOf(db.key[k])
      BY <3>1, ConfigParts
    <3> QED BY <2>2, <2>3, <3>1, <3>2, KeyLine
  <2>4. ASSUME NEW n \in Present(db.server), d.server[n] = None, ~Full(d),
               C!MayRefer(Config(d), Config(db).assocs[n]),
               NEW e, e = RestoreServer(d, db.server[n], n)
        PROVE  e \in Tables /\ Config(e) = C!ServerSet(Config(d), n, Config(db).assocs[n])
    <3>1. n \in Names /\ db.server[n] # None
      BY <2>1, <2>4 DEF Present
    <3>2. Config(db).assocs[n] = AssocOf(db.server[n])
      BY <3>1, ConfigParts
    <3>3. db.server[n] \in ServerRow /\ db.server[n].version \in {3, 4} /\ SaneName(n)
      BY <2>1, <3>1 DEF StoredIsSane, SaneServers
    <3>4. ValidName(n)
      BY <3>1, <3>3, CliAssumption DEF ValidName, SaneName, MaxNameLen
    <3>5. ASSUME db.server[n].key # NoKey
          PROVE  ValidKeyId(db.server[n].key.key) /\ d.key[db.server[n].key.key] # None
      <4>1. PICK k \in InputKeys : k = db.server[n].key.key
        BY <2>1, <3>1, <3>5, ConfigRows
      <4>2. db.key[k] # None
        BY <2>1, <3>1, <3>5, <4>1, References DEF RefsExist, StoredIsSane
      <4>3. Config(db).assocs[n].key = k /\ k # NoKey
        BY <2>1, <3>1, <3>5, <4>1, ConfigRows, ConfigAssumption
      <4>4. d.key[k] # None
        BY <2>4, <4>3, ConfigRows DEF C!MayRefer
      <4> QED BY <2>2, <4>1, <4>2, <4>4
    <3> QED BY <2>4, <3>1, <3>2, <3>3, <3>4, <3>5, ServerLine
  <2> QED BY <2>3, <2>4
<1> QED BY <1>1, SaneAlways, PTL DEF AllSane

-----------------------------------------------------------------------------
(* What all lines of the running configuration make of a new system.       *)

\* A key that is set is set, and everything else is as it was; the same of a server.
LEMMA SetOnly ==
    ASSUME NEW d, NEW e
    PROVE  /\ \A k, row : Config(e) = C!KeySet(Config(d), k, row) =>
                /\ Config(e).assocs = Config(d).assocs
                /\ \A j \in InputKeys :
                     Config(e).keys[j] = IF j = k THEN row ELSE Config(d).keys[j]
           /\ \A n, s : Config(e) = C!ServerSet(Config(d), n, s) =>
                /\ Config(e).keys = Config(d).keys
                /\ \A m \in Names :
                     Config(e).assocs[m] = IF m = n THEN s ELSE Config(d).assocs[m]
<1> DEFINE auth == d.system["system"].auth
           keys == [k \in InputKeys |-> KeyOf(d.key[k])]
           assocs == [n \in Names |-> AssocOf(d.server[n])]
<1>1. Config(d) = [auth |-> auth, keys |-> keys, assocs |-> assocs]
  BY ConfigParts
<1>2. DOMAIN keys = InputKeys /\ DOMAIN assocs = Names
  OBVIOUS
<1> HIDE DEF auth, keys, assocs
<1>3. \A k, row : C!KeySet(Config(d), k, row)
         = [auth |-> auth, keys |-> [keys EXCEPT ![k] = row], assocs |-> assocs]
  BY <1>1, KeySetParts
<1>4. \A n, s : C!ServerSet(Config(d), n, s)
         = [auth |-> auth, keys |-> keys, assocs |-> [assocs EXCEPT ![n] = s]]
  BY <1>1, ServerSetParts
<1>5. ASSUME NEW k, NEW row, Config(e) = C!KeySet(Config(d), k, row)
      PROVE  /\ Config(e).assocs = Config(d).assocs
             /\ \A j \in InputKeys :
                  Config(e).keys[j] = IF j = k THEN row ELSE Config(d).keys[j]
  <2>1. Config(e) = [auth |-> auth, keys |-> [keys EXCEPT ![k] = row], assocs |-> assocs]
    BY <1>3, <1>5
  <2>2. /\ Config(e).keys = [keys EXCEPT ![k] = row] /\ Config(e).assocs = assocs
        /\ Config(d).keys = keys /\ Config(d).assocs = assocs
    BY <1>1, <2>1
  <2> QED BY <1>2, <2>2
<1>6. ASSUME NEW n, NEW s, Config(e) = C!ServerSet(Config(d), n, s)
      PROVE  /\ Config(e).keys = Config(d).keys
             /\ \A m \in Names :
                  Config(e).assocs[m] = IF m = n THEN s ELSE Config(d).assocs[m]
  <2>1. Config(e) = [auth |-> auth, keys |-> keys, assocs |-> [assocs EXCEPT ![n] = s]]
    BY <1>4, <1>6
  <2>2. /\ Config(e).keys = keys /\ Config(e).assocs = [assocs EXCEPT ![n] = s]
        /\ Config(d).keys = keys /\ Config(d).assocs = assocs
    BY <1>1, <2>1
  <2> QED BY <1>2, <2>2
<1> QED BY <1>5, <1>6

\* The lines of the keys, in any order, give the keys, and no server.
LEMMA KeysRestored ==
    ASSUME NEW c \in Tables, LinesRestore(c), NEW order \in Orders(c.key),
           NEW e, e = RestoreKeys(c, EmptyDb, order)
    PROVE  /\ e \in Tables
           /\ \A k \in InputKeys : Config(e).keys[k] = Config(c).keys[k]
           /\ \A n \in Names : Config(e).assocs[n] = None
<1>1. PICK n : n = Len(order)
  OBVIOUS
<1>2. Present(c.key) \subseteq InputKeys
  BY DEF Tables, Present
<1>3. IsFiniteSet(Present(c.key))
  BY <1>2, FS_Subset, CliAssumption
<1>4. /\ n \in Nat
      /\ order \in [1..n -> Present(c.key)]
      /\ \A i, j \in 1..n : order[i] = order[j] => i = j
      /\ \A k \in Present(c.key) : \E i \in 1..n : order[i] = k
  BY <1>1, <1>3, OrderOfRows
<1> DEFINE Line(d, k) == RestoreKey(d, c.key[k], k)
<1>5. ASSUME NEW d \in Tables, NEW k \in Present(c.key), d.key[k] = None
      PROVE  /\ Line(d, k) \in Tables
             /\ Config(Line(d, k)) = C!KeySet(Config(d), k, Config(c).keys[k])
  BY <1>5 DEF LinesRestore
<1> DEFINE round == [i \in 1..n |-> [d \in Tables |->
                       IF d.key[order[i]] = None THEN Line(d, order[i]) ELSE d]]
<1>6. PICK g : g \in Runs(Tables, EmptyDb, round, n)
  <2>1. round \in [1..n -> [Tables -> Tables]]
    <3> HIDE DEF Line
    <3> QED BY <1>4, <1>5
  <2> HIDE DEF round
  <2> QED BY <1>4, <2>1, EmptyTables, RunExists
<1> DEFINE Printed(i, k) == \E j \in 1..i : order[j] = k
           Right(i) ==
             /\ g[i] \in Tables
             /\ \A k \in InputKeys : Config(g[i]).keys[k]
                                       = IF Printed(i, k) THEN Config(c).keys[k] ELSE None
             /\ \A m \in Names : Config(g[i]).assocs[m] = None
           S == {i \in Nat : i <= n => Right(i)}
<1>7. 0 \in S
  <2>1. g[0] = EmptyDb
    BY <1>6 DEF Runs
  <2>2. /\ \A k \in InputKeys : Config(EmptyDb).keys[k] = None
        /\ \A m \in Names : Config(EmptyDb).assocs[m] = None
    BY EmptyTables, ConfigRows DEF EmptyDb
  <2>3. \A k : ~Printed(0, k)
    OBVIOUS
  <2> HIDE DEF Printed
  <2> QED BY <2>1, <2>2, <2>3, EmptyTables
<1> HIDE DEF Line
<1>8. ASSUME NEW i \in Nat, i + 1 <= n, Right(i)
      PROVE  /\ Right(i + 1)
             /\ g[i + 1] = Line(g[i], order[i + 1])
  <2>1. PICK k : k = order[i + 1]
    OBVIOUS
  <2>2. k \in Present(c.key) /\ k \in InputKeys /\ i + 1 \in 1..n
    BY <1>2, <1>4, <1>8, <2>1
  <2>3. ~Printed(i, k)
    BY <1>4, <1>8, <2>1
  <2>4. \A j : Printed(i + 1, j) <=> j = k \/ Printed(i, j)
    <3>1. \A l : l \in 1..(i + 1) <=> l = i + 1 \/ l \in 1..i
      OBVIOUS
    <3> QED BY <2>1, <3>1
  <2> HIDE DEF Printed
  <2>5. g[i].key[k] = None
    BY <1>8, <2>2, <2>3, ConfigRows
  <2>6. g[i + 1] = Line(g[i], k)
    <3>1. g[i + 1] = round[i + 1][g[i]]
      BY <1>6, <2>2 DEF Runs
    <3> QED BY <1>8, <2>1, <2>2, <2>5, <3>1
  <2>7. /\ g[i + 1] \in Tables
        /\ Config(g[i + 1]) = C!KeySet(Config(g[i]), k, Config(c).keys[k])
    BY <1>5, <1>8, <2>2, <2>5, <2>6
  <2>8. /\ Config(g[i + 1]).assocs = Config(g[i]).assocs
        /\ \A j \in InputKeys : Config(g[i + 1]).keys[j]
              = IF j = k THEN Config(c).keys[k] ELSE Config(g[i]).keys[j]
    BY <2>7, SetOnly
  <2> QED BY <1>8, <2>1, <2>4, <2>6, <2>7, <2>8
<1>9. Nat \subseteq S
  <2>1. ASSUME NEW i \in Nat, i \in S PROVE i + 1 \in S
    <3> HIDE DEF Right
    <3> QED BY <1>4, <1>8, <2>1
  <2> HIDE DEF S
  <2> QED BY <1>7, <2>1, Induction
<1>10. \A i \in 0..n : Right(i)
  <2> HIDE DEF Right
  <2> QED BY <1>9
<1>11. \A i \in 1..n : g[i] = Line(g[i - 1], order[i])
  <2> TAKE i \in 1..n
  <2>1. i - 1 \in Nat /\ (i - 1) + 1 = i /\ i - 1 \in 0..n
    BY <1>4
  <2> HIDE DEF Right
  <2> QED BY <1>8, <1>10, <2>1
<1>12. e = g[n]
  <2>1. g = [i \in 0..n |-> IF i = 0 THEN EmptyDb ELSE Line(g[i - 1], order[i])]
    BY <1>4, <1>6, <1>11 DEF Runs
  <2>2. PICK f : /\ f = [i \in 0..n |->
                          IF i = 0 THEN EmptyDb ELSE Line(f[i - 1], order[i])]
                 /\ e = f[n]
    BY <1>1, <2>1 DEF RestoreKeys, Loop, Line
  <2>3. f[0] = EmptyDb /\ \A i \in 1..n : f[i] = Line(f[i - 1], order[i])
    BY <1>4, <2>2
  <2>4. f[0] = g[0] /\ \A i \in 1..n : f[i - 1] = g[i - 1] => f[i] = g[i]
    BY <1>6, <1>11, <2>3 DEF Runs
  <2>5. f[n] = g[n]
    BY <1>4, <2>4, RunsAgree
  <2> QED BY <2>2, <2>5
<1>13. Right(n)
  BY <1>4, <1>10
<1>14. ASSUME NEW k \in InputKeys, ~Printed(n, k)
      PROVE  Config(c).keys[k] = None
  <2>1. k \notin Present(c.key)
    BY <1>4, <1>14
  <2>2. c.key[k] = None
    BY <2>1 DEF Present, Tables
  <2> QED BY <2>2, ConfigRows
<1> QED BY <1>12, <1>13, <1>14

\* The limit refuses the line of a server, and nothing changes.
LEMMA FullLine ==
    ASSUME NEW d, NEW n, NEW row, d.server[n] = None, Full(d)
    PROVE  RestoreServer(d, row, n) = d
<1>1. \A version, k : Server(d, n, row.prefer, version, k) = None
  BY DEF Server, GetAssoc
<1> QED BY <1>1 DEF RestoreServer, Do

\* There is room for a server of c among some of the others.
LEMMA RoomLeft ==
    ASSUME NEW c, NEW d, NEW n \in Names, c.server[n] # None, d.server[n] = None,
           \A m \in Names : d.server[m] # None => c.server[m] # None,
           ServerCount(c) <= MaxServers
    PROVE  ~Full(d)
<1> DEFINE A == {m \in Names : c.server[m] # None}
           B == {m \in Names : d.server[m] # None}
<1>1. IsFiniteSet(A) /\ n \in A /\ B \subseteq A \ {n}
  BY FS_Subset, CliAssumption
<1>2. IsFiniteSet(A \ {n}) /\ Cardinality(A \ {n}) = Cardinality(A) - 1
  BY <1>1, FS_RemoveElement
<1>3. Cardinality(B) <= Cardinality(A \ {n})
  BY <1>1, <1>2, FS_Subset
<1>4. Cardinality(B) \in Nat /\ Cardinality(A) \in Nat
  BY <1>1, <1>2, FS_Subset, FS_CardinalityType
<1>5. ServerCount(c) = Cardinality(A) /\ ServerCount(d) = Cardinality(B)
  BY DEF ServerCount
<1> HIDE DEF A, B
<1> QED BY <1>2, <1>3, <1>4, <1>5, CliAssumption DEF Full

\* The lines of the servers, in any order, on tables with the keys and no server,
\* give the servers if there are not too many, and leave the keys in any case.
LEMMA ServersRestored ==
    ASSUME NEW c \in Tables, LinesRestore(c), RefsExist(c),
           NEW order \in Orders(c.server),
           NEW d \in Tables,
           \A k \in InputKeys : Config(d).keys[k] = Config(c).keys[k],
           \A m \in Names : Config(d).assocs[m] = None,
           NEW e, e = RestoreServers(c, d, order)
    PROVE  /\ Config(e).keys = Config(d).keys
           /\ ServerCount(c) <= MaxServers =>
                \A m \in Names : Config(e).assocs[m] = Config(c).assocs[m]
<1>1. PICK n : n = Len(order)
  OBVIOUS
<1>2. Present(c.server) \subseteq Names
  BY DEF Tables, Present
<1>3. IsFiniteSet(Present(c.server))
  BY <1>2, FS_Subset, CliAssumption
<1>4. /\ n \in Nat
      /\ order \in [1..n -> Present(c.server)]
      /\ \A i, j \in 1..n : order[i] = order[j] => i = j
      /\ \A m \in Present(c.server) : \E i \in 1..n : order[i] = m
  BY <1>1, <1>3, OrderOfRows
<1> DEFINE Line(s, m) == RestoreServer(s, c.server[m], m)
           Fits(s, m) == s.server[m] = None /\ C!MayRefer(Config(s), Config(c).assocs[m])
<1>5. ASSUME NEW s \in Tables, NEW m \in Present(c.server), Fits(s, m)
      PROVE  /\ Line(s, m) \in Tables
             /\ \/ Full(s) /\ Line(s, m) = s
                \/ Config(Line(s, m)) = C!ServerSet(Config(s), m, Config(c).assocs[m])
  <2>1. CASE Full(s)
    BY <1>5, <2>1, FullLine
  <2>2. CASE ~Full(s)
    BY <1>5, <2>2 DEF LinesRestore
  <2> QED BY <2>1, <2>2
<1> DEFINE round == [i \in 1..n |-> [s \in Tables |->
                       IF Fits(s, order[i]) THEN Line(s, order[i]) ELSE s]]
<1>6. PICK g : g \in Runs(Tables, d, round, n)
  <2>1. round \in [1..n -> [Tables -> Tables]]
    <3> HIDE DEF Line, Fits
    <3> QED BY <1>4, <1>5
  <2> HIDE DEF round
  <2> QED BY <1>4, <2>1, RunExists
<1> DEFINE Printed(i, m) == \E j \in 1..i : order[j] = m
           Few == ServerCount(c) <= MaxServers
           Right(i) ==
             /\ g[i] \in Tables
             /\ Config(g[i]).keys = Config(d).keys
             /\ \A m \in Names : ~Printed(i, m) => Config(g[i]).assocs[m] = None
             /\ \A m \in Names : Few /\ Printed(i, m) =>
                  Config(g[i]).assocs[m] = Config(c).assocs[m]
           S == {i \in Nat : i <= n => Right(i)}
<1>7. 0 \in S
  <2>1. g[0] = d
    BY <1>6 DEF Runs
  <2>2. \A m : ~Printed(0, m)
    OBVIOUS
  <2> HIDE DEF Printed, Few
  <2> QED BY <2>1, <2>2
<1> HIDE DEF Line, Few
<1>8. ASSUME NEW i \in Nat, i + 1 <= n, Right(i)
      PROVE  /\ Right(i + 1)
             /\ g[i + 1] = Line(g[i], order[i + 1])
  <2>1. PICK m : m = order[i + 1]
    OBVIOUS
  <2>2. m \in Present(c.server) /\ m \in Names /\ i + 1 \in 1..n /\ c.server[m] # None
    BY <1>2, <1>4, <1>8, <2>1 DEF Present
  <2>3. ~Printed(i, m)
    BY <1>4, <1>8, <2>1
  <2>4. \A l : Printed(i + 1, l) <=> l = m \/ Printed(i, l)
    <3>1. \A j : j \in 1..(i + 1) <=> j = i + 1 \/ j \in 1..i
      OBVIOUS
    <3> QED BY <2>1, <3>1
  <2>5. \A l \in Names : Printed(i, l) => c.server[l] # None
    BY <1>4, <1>8 DEF Present
  <2> HIDE DEF Printed
  <2>6. Fits(g[i], m)
    <3>1. g[i].server[m] = None
      BY <1>8, <2>2, <2>3, ConfigRows
    <3>2. C!MayRefer(Config(g[i]), Config(c).assocs[m])
      <4>1. CASE c.server[m].key = NoKey
        BY <2>2, <4>1, ConfigRows DEF C!MayRefer
      <4>2. CASE c.server[m].key # NoKey
        <5>1. PICK k \in InputKeys :
                 k = c.server[m].key.key /\ k = Config(c).assocs[m].key
          BY <2>2, <4>2, ConfigRows
        <5>2. c.key[k] # None
          BY <2>2, <4>2, <5>1 DEF RefsExist
        <5>3. Config(c).keys[k] # None
          BY <5>2, ConfigRows
        <5> QED BY <1>8, <5>1, <5>3 DEF C!MayRefer
      <4> QED BY <4>1, <4>2
    <3> QED BY <3>1, <3>2
  <2>7. g[i + 1] = Line(g[i], m)
    <3>1. g[i + 1] = round[i + 1][g[i]]
      BY <1>6, <2>2 DEF Runs
    <3> HIDE DEF Fits
    <3> QED BY <1>8, <2>1, <2>2, <2>6, <3>1
  <2>8. /\ g[i + 1] \in Tables
        /\ \/ Full(g[i]) /\ g[i + 1] = g[i]
           \/ Config(g[i + 1]) = C!ServerSet(Config(g[i]), m, Config(c).assocs[m])
    <3> HIDE DEF Fits
    <3> QED BY <1>5, <1>8, <2>2, <2>6, <2>7
  <2>9. Few => ~Full(g[i])
    <3>1. \A l \in Names : g[i].server[l] # None => c.server[l] # None
      BY <1>8, <2>5, ConfigRows
    <3>2. g[i].server[m] = None
      BY <2>6
    <3> QED BY <2>2, <3>1, <3>2, RoomLeft DEF Few
  <2>10. CASE Full(g[i]) /\ g[i + 1] = g[i]
    BY <1>8, <2>1, <2>4, <2>7, <2>9, <2>10
  <2>11. CASE Config(g[i + 1]) = C!ServerSet(Config(g[i]), m, Config(c).assocs[m])
    <3>1. /\ Config(g[i + 1]).keys = Config(g[i]).keys
          /\ \A l \in Names : Config(g[i + 1]).assocs[l]
                = IF l = m THEN Config(c).assocs[m] ELSE Config(g[i]).assocs[l]
      BY <2>11, SetOnly
    <3> QED BY <1>8, <2>1, <2>4, <2>7, <2>8, <3>1
  <2> QED BY <2>8, <2>10, <2>11
<1>9. Nat \subseteq S
  <2>1. ASSUME NEW i \in Nat, i \in S PROVE i + 1 \in S
    <3> HIDE DEF Right
    <3> QED BY <1>4, <1>8, <2>1
  <2> HIDE DEF S
  <2> QED BY <1>7, <2>1, Induction
<1>10. \A i \in 0..n : Right(i)
  <2> HIDE DEF Right
  <2> QED BY <1>9
<1>11. \A i \in 1..n : g[i] = Line(g[i - 1], order[i])
  <2> TAKE i \in 1..n
  <2>1. i - 1 \in Nat /\ (i - 1) + 1 = i /\ i - 1 \in 0..n
    BY <1>4
  <2> HIDE DEF Right
  <2> QED BY <1>8, <1>10, <2>1
<1>12. e = g[n]
  <2>1. g = [i \in 0..n |-> IF i = 0 THEN d ELSE Line(g[i - 1], order[i])]
    BY <1>4, <1>6, <1>11 DEF Runs
  <2>2. PICK f : /\ f = [i \in 0..n |-> IF i = 0 THEN d ELSE Line(f[i - 1], order[i])]
                 /\ e = f[n]
    BY <1>1, <2>1 DEF RestoreServers, Loop, Line
  <2>3. f[0] = d /\ \A i \in 1..n : f[i] = Line(f[i - 1], order[i])
    BY <1>4, <2>2
  <2>4. f[0] = g[0] /\ \A i \in 1..n : f[i - 1] = g[i - 1] => f[i] = g[i]
    BY <1>6, <1>11, <2>3 DEF Runs
  <2>5. f[n] = g[n]
    BY <1>4, <2>4, RunsAgree
  <2> QED BY <2>2, <2>5
<1>13. Right(n)
  BY <1>4, <1>10
<1>14. ASSUME NEW m \in Names, ~Printed(n, m)
      PROVE  Config(c).assocs[m] = None
  <2>1. m \notin Present(c.server)
    BY <1>4, <1>14
  <2>2. c.server[m] = None
    BY <2>1 DEF Present, Tables
  <2> QED BY <2>2, ConfigRows
<1> HIDE DEF Printed
<1> QED BY <1>12, <1>13, <1>14 DEF Few

\* Configurations with the same rows are the same.
LEMMA ConfigIsMaps ==
    ASSUME NEW c, NEW d
    PROVE  /\ (\A k \in InputKeys : Config(c).keys[k] = Config(d).keys[k])
                => Config(c).keys = Config(d).keys
           /\ (\A n \in Names : Config(c).assocs[n] = Config(d).assocs[n])
                => Config(c).assocs = Config(d).assocs
<1>1. PICK f : f = Config(c).keys
  OBVIOUS
<1>2. PICK g : g = Config(d).keys
  OBVIOUS
<1>3. f = [k \in InputKeys |-> f[k]] /\ g = [k \in InputKeys |-> g[k]]
  BY <1>1, <1>2 DEF Config
<1>4. (\A k \in InputKeys : f[k] = g[k]) => f = g
  BY ONLY <1>3
<1>5. PICK v : v = Config(c).assocs
  OBVIOUS
<1>6. PICK w : w = Config(d).assocs
  OBVIOUS
<1>7. v = [n \in Names |-> v[n]] /\ w = [n \in Names |-> w[n]]
  BY <1>5, <1>6 DEF Config
<1>8. (\A n \in Names : v[n] = w[n]) => v = w
  BY ONLY <1>7
<1> QED BY <1>1, <1>2, <1>4, <1>5, <1>6, <1>8

\* The running configuration of what sessions have stored, typed in on a new system,
\* gives back every key and, within the limit, every server, in whatever order its
\* loops have come to the rows (vtysh_config_context_ntp_clientcallback).
THEOREM RunningConfigIsFaithful == Spec => []RunningConfigRestores
<1>1. TypeOK /\ StoredIsSane /\ LinesRestore(db) => RunningConfigRestores
  <2> SUFFICES ASSUME TypeOK, StoredIsSane, LinesRestore(db),
                      NEW keys \in Orders(db.key), NEW servers \in Orders(db.server),
                      NEW new, new = Restored(db, keys, servers)
               PROVE  /\ Config(new).keys = Config(db).keys
                      /\ ServerCount(db) <= MaxServers =>
                           Config(new).assocs = Config(db).assocs
    BY DEF RunningConfigRestores
  <2>1. db \in Tables /\ RefsExist(db)
    BY References DEF TypeOK, StoredIsSane
  <2>2. PICK d : d = RestoreKeys(db, EmptyDb, keys)
    OBVIOUS
  <2>3. /\ d \in Tables
        /\ \A k \in InputKeys : Config(d).keys[k] = Config(db).keys[k]
        /\ \A n \in Names : Config(d).assocs[n] = None
    BY <2>1, <2>2, KeysRestored
  <2>4. new = RestoreServers(db, d, servers)
    BY <2>2 DEF Restored
  <2>5. /\ Config(new).keys = Config(d).keys
        /\ ServerCount(db) <= MaxServers =>
             \A n \in Names : Config(new).assocs[n] = Config(db).assocs[n]
    BY <2>1, <2>3, <2>4, ServersRestored
  <2>6. Config(new).keys = Config(db).keys
    <3>1. \A k \in InputKeys : Config(new).keys[k] = Config(db).keys[k]
      BY <2>3, <2>5
    <3> QED BY <3>1, ConfigIsMaps
  <2>7. ASSUME ServerCount(db) <= MaxServers
        PROVE  Config(new).assocs = Config(db).assocs
    <3>1. \A n \in Names : Config(new).assocs[n] = Config(db).assocs[n]
      BY <2>5, <2>7
    <3> QED BY <3>1, ConfigIsMaps
  <2> QED BY <2>6, <2>7
<1> QED BY <1>1, TypeCorrect, StoredSane, EveryLineRestores, PTL

=============================================================================
