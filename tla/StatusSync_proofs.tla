-------------------------- MODULE StatusSync_proofs --------------------------
(***************************************************************************)
(* Proofs about StatusSync, for any rows, addresses and names, any bounds  *)
(* and any faults.                                                         *)
(***************************************************************************)
EXTENDS StatusSync, SequenceTheorems, TLAPS

USE NamesAssumption, StatusBounds

-----------------------------------------------------------------------------
(* Lemmas about messages and queues.                                       *)

\* The poison pill and the results are messages.
LEMMA MessageTypes ==
    /\ Shutdown \in Message
    /\ \A i \in Readings, e \in 0..MaxEpoch : Update(i, e) \in Message
    /\ \A m \in Message : m # Shutdown =>
          m.kind = "update" /\ m.info \in Readings /\ m.epoch \in 0..MaxEpoch
BY DEF Message, Shutdown, Update

\* A result is not the pill.
LEMMA Kinds ==
    /\ \A i, e : Update(i, e) # Shutdown /\ Update(i, e).kind = "update"
    /\ Shutdown.kind = "shutdown"
    /\ \A i, e : Update(i, e).info = i /\ Update(i, e).epoch = e
BY DEF Shutdown, Update

\* queue.put at the end of a queue.
LEMMA PutProperties ==
    ASSUME NEW q \in Seq(Message), NEW m \in Message
    PROVE  /\ Append(q, m) \in Seq(Message)
           /\ Len(Append(q, m)) = Len(q) + 1
           /\ \A i \in 1..Len(q) : Append(q, m)[i] = q[i]
           /\ Append(q, m)[Len(q) + 1] = m
           /\ Append(q, m) # <<>>
BY AppendProperties

\* queue.get from its head.
LEMMA GetProperties ==
    ASSUME NEW q \in Seq(Message), q # <<>>
    PROVE  /\ Head(q) \in Message /\ Head(q) = q[1]
           /\ Tail(q) \in Seq(Message)
           /\ Len(q) \in Nat \ {0}
           /\ Len(Tail(q)) = Len(q) - 1
           /\ \A i \in 1..Len(q) - 1 : Tail(q)[i] = q[i + 1]
<1>1. Head(q) \in Message /\ Tail(q) \in Seq(Message) /\ Len(Tail(q)) = Len(q) - 1
  BY HeadTailProperties
<1>2. \A i \in 1..Len(q) - 1 : Tail(q)[i] = q[i + 1]
  BY <1>1, HeadTailProperties
<1>3. Len(q) \in Nat \ {0} /\ Head(q) = q[1]
  OBVIOUS
<1> QED BY <1>1, <1>2, <1>3

\* A queue of which only the first n messages are left.
LEMMA CutProperties ==
    ASSUME NEW q \in Seq(Message), NEW n \in 0..Len(q)
    PROVE  /\ SubSeq(q, 1, n) \in Seq(Message)
           /\ Len(SubSeq(q, 1, n)) = n
           /\ \A i \in 1..n : i \in 1..Len(q) /\ SubSeq(q, 1, n)[i] = q[i]
OBVIOUS

-----------------------------------------------------------------------------
(* Lemmas about the order of a queue.                                      *)

\* A queue in order is in order from any earlier epoch on.
LEMMA InOrderEarlier ==
    ASSUME NEW q \in Seq(Message), NEW lo \in Nat, NEW lower \in Nat, NEW hi \in Nat,
           lower <= lo, InOrder(q, lo, hi)
    PROVE  InOrder(q, lower, hi)
<1> SUFFICES ASSUME NEW i \in Updates(q)
             PROVE  lower <= q[i].epoch /\ Within(q[i].info, lower, q[i].epoch)
  BY DEF InOrder
<1>1. q[i] \in Message /\ q[i] # Shutdown
  BY DEF Updates
<1>2. q[i].epoch \in Nat /\ q[i].info \in Readings
  BY <1>1, MessageTypes
<1>3. lo <= q[i].epoch /\ Within(q[i].info, lo, q[i].epoch)
  BY DEF InOrder
<1>4. \A x \in IPs : q[i].info[x] # None => q[i].info[x].epoch \in Nat
  BY <1>2 DEF Readings, Reading
<1> QED BY <1>2, <1>3, <1>4 DEF Within
 
\* A result that was read after the last one in a queue may be put at its end.
LEMMA InOrderPut ==
    ASSUME NEW q \in Seq(Message), NEW lo \in Nat, NEW hi \in Nat, NEW i \in Readings,
           NEW e \in 0..MaxEpoch, lo <= hi, hi <= e, InOrder(q, lo, hi), Within(i, hi, e)
    PROVE  InOrder(Append(q, Update(i, e)), lo, e)
<1> DEFINE p == Append(q, Update(i, e))
           n == Len(q) + 1
<1>1. /\ Len(p) = n /\ n \in Nat
      /\ p[n] = Update(i, e)
      /\ \A k \in 1..Len(q) : p[k] = q[k]
  BY PutProperties, MessageTypes
<1>2. \A k \in Updates(p) : k = n \/ (k \in Updates(q) /\ k < n)
  BY <1>1 DEF Updates
<1>3. \A k \in Updates(q) : /\ p[k] = q[k]
                            /\ q[k].epoch \in Nat
                            /\ lo <= q[k].epoch /\ q[k].epoch <= hi
                            /\ Within(q[k].info, lo, q[k].epoch)
  BY <1>1, MessageTypes DEF Updates, InOrder
<1>4. p[n].epoch = e /\ p[n].info = i
  BY <1>1, Kinds
<1> HIDE DEF p
<1>5. \A x \in IPs : i[x] # None => i[x].epoch \in Nat
  BY DEF Readings, Reading
<1>6. \A l \in Nat : l <= hi => Within(i, l, e)
  BY <1>5 DEF Within
<1>7. \A k \in Updates(p) : /\ lo <= p[k].epoch /\ p[k].epoch <= e
                            /\ Within(p[k].info, lo, p[k].epoch)
  <2> SUFFICES ASSUME NEW k \in Updates(p)
               PROVE  /\ lo <= p[k].epoch /\ p[k].epoch <= e
                      /\ Within(p[k].info, lo, p[k].epoch)
    OBVIOUS
  <2>1. CASE k = n
    BY <2>1, <1>4, <1>6
  <2>2. CASE k \in Updates(q)
    BY <2>2, <1>3
  <2> QED BY <2>1, <2>2, <1>2
<1>8. ASSUME NEW j \in Updates(p), NEW k \in Updates(p), j < k
      PROVE  /\ p[j].epoch <= p[k].epoch
             /\ Within(p[k].info, p[j].epoch, p[k].epoch)
  <2>1. j \in Updates(q)
    BY <1>2, <1>8, <1>1 DEF Updates
  <2>2. CASE k = n
    BY <2>1, <2>2, <1>3, <1>4, <1>6
  <2>3. CASE k \in Updates(q)
    BY <2>1, <2>3, <1>3, <1>8 DEF InOrder
  <2> QED BY <2>2, <2>3, <1>2
<1>9. InOrder(p, lo, e)
  BY <1>7, <1>8 DEF InOrder
<1> QED BY <1>9 DEF p

\* The pill changes nothing about the order of the results.
LEMMA InOrderPill ==
    ASSUME NEW q \in Seq(Message), NEW lo, NEW hi, InOrder(q, lo, hi)
    PROVE  InOrder(Append(q, Shutdown), lo, hi)
<1> DEFINE p == Append(q, Shutdown)
<1>1. /\ Len(p) = Len(q) + 1 /\ Len(q) \in Nat
      /\ p[Len(q) + 1] = Shutdown
      /\ \A k \in 1..Len(q) : p[k] = q[k]
  BY PutProperties, MessageTypes
<1>2. \A k \in Updates(p) : k \in Updates(q) /\ p[k] = q[k]
  BY <1>1 DEF Updates
<1> HIDE DEF p
<1>3. InOrder(p, lo, hi)
  BY <1>2 DEF InOrder
<1> QED BY <1>3 DEF p

\* What is behind the head of a queue is in order, and is not older than a result
\* at the head.
LEMMA InOrderGet ==
    ASSUME NEW q \in Seq(Message), q # <<>>, NEW lo, NEW hi, InOrder(q, lo, hi)
    PROVE  /\ InOrder(Tail(q), lo, hi)
           /\ Head(q) # Shutdown => InOrder(Tail(q), Head(q).epoch, hi)
<1> DEFINE p == Tail(q)
<1>1. /\ Head(q) = q[1] /\ Len(q) \in Nat \ {0} /\ Len(p) = Len(q) - 1
      /\ \A k \in 1..Len(p) : p[k] = q[k + 1]
  BY GetProperties
<1>2. \A k \in Updates(p) : k + 1 \in Updates(q) /\ p[k] = q[k + 1] /\ k \in Nat \ {0}
  BY <1>1 DEF Updates
<1> HIDE DEF p
<1>3. \A j, k \in Updates(p) : j < k => j + 1 < k + 1
  BY <1>2
<1>4. InOrder(p, lo, hi)
  BY <1>2, <1>3 DEF InOrder
<1>5. ASSUME Head(q) # Shutdown PROVE InOrder(p, Head(q).epoch, hi)
  <2>1. 1 \in Updates(q)
    BY <1>1, <1>5 DEF Updates
  <2>2. \A k \in Updates(p) : 1 < k + 1
    BY <1>2
  <2>3. \A k \in Updates(p) : /\ q[1].epoch <= p[k].epoch /\ p[k].epoch <= hi
                              /\ Within(p[k].info, q[1].epoch, p[k].epoch)
    BY <2>1, <2>2, <1>2 DEF InOrder
  <2> QED BY <2>3, <1>1, <1>4 DEF InOrder
<1> QED BY <1>4, <1>5 DEF p

\* So is what is left of a queue that is cut off.
LEMMA InOrderCut ==
    ASSUME NEW q \in Seq(Message), NEW n \in 0..Len(q), NEW lo, NEW hi, InOrder(q, lo, hi)
    PROVE  InOrder(SubSeq(q, 1, n), lo, hi)
<1> DEFINE p == SubSeq(q, 1, n)
<1>1. \A k \in 1..Len(p) : k \in 1..Len(q) /\ p[k] = q[k]
  BY CutProperties
<1>2. \A k \in Updates(p) : k \in Updates(q) /\ p[k] = q[k]
  BY <1>1 DEF Updates
<1> HIDE DEF p
<1>3. InOrder(p, lo, hi)
  BY <1>2 DEF InOrder
<1> QED BY <1>3 DEF p

-----------------------------------------------------------------------------
(* Lemmas about what the processes compute.                                *)

\* Servers are configured by IP address.
LEMMA ConfiguredType == TypeOK => Configured \subseteq IPs
BY DEF TypeOK, Configured

\* What ntpd answers for one of its associations.
LEMMA ReadingType ==
    ASSUME TypeOK, NEW x \in IPs
    PROVE  [of |-> x, cond |-> Condition(x), epoch |-> epoch] \in Reading
BY DEF TypeOK, Reading, Condition, Conditions

\* find_row_by_ip_addr: the transaction made of a result sets rows as the replica
\* has them, each to what was read of its own server.
LEMMA TakenTxn ==
    ASSUME TypeOK, TakeUpdate
    PROVE  /\ Head(queue) # Shutdown
           /\ txn' \in Transaction
           /\ txn'.epoch = Head(queue).epoch
           /\ \A r \in Rows : txn'.rows[r] # 0 =>
                 /\ NameOf[r] \in IPs
                 /\ Head(queue).info[NameOf[r]] # None
                 /\ txn'.status[r] = Head(queue).info[NameOf[r]]
<1> DEFINE u == Head(queue)
           Found == {x \in IPs : u.info[x] # None /\ RowsAt(x) # {}}
<1>1. u \in Message /\ u # Shutdown
  BY GetProperties, Kinds DEF TypeOK, TakeUpdate
<1>2. u.info \in Readings /\ u.epoch \in 0..MaxEpoch
  BY <1>1, MessageTypes
<1>3. PICK row \in [Found -> Rows] :
         /\ \A x \in Found : row[x] \in RowsAt(x)
         /\ LET For(r) == {x \in Found : row[x] = r}
            IN  txn' = [ rows   |-> [r \in Rows |-> IF For(r) = {} THEN 0 ELSE view[r]],
                         status |-> [r \in Rows |->
                                      IF For(r) = {} THEN None
                                      ELSE u.info[CHOOSE x \in For(r) : TRUE]],
                         epoch  |-> u.epoch ]
  BY DEF TakeUpdate
<1> DEFINE For(r) == {x \in Found : row[x] = r}
<1>4. /\ txn' = [ rows |-> txn'.rows, status |-> txn'.status, epoch |-> txn'.epoch ]
      /\ txn'.rows = [r \in Rows |-> IF For(r) = {} THEN 0 ELSE view[r]]
      /\ txn'.status = [r \in Rows |-> IF For(r) = {} THEN None
                                       ELSE u.info[CHOOSE x \in For(r) : TRUE]]
      /\ txn'.epoch = u.epoch
  BY <1>3
<1>5. ASSUME NEW r \in Rows, NEW x \in For(r)
      PROVE  x \in IPs /\ u.info[x] # None /\ NameOf[r] = x
  BY <1>3, <1>5 DEF RowsAt
<1> HIDE DEF For, u
<1>6. ASSUME NEW r \in Rows, For(r) # {}
      PROVE  /\ NameOf[r] \in IPs
             /\ u.info[NameOf[r]] # None
             /\ txn'.status[r] = u.info[NameOf[r]]
  <2>1. (CHOOSE x \in For(r) : TRUE) \in For(r)
    BY <1>6
  <2> QED BY <2>1, <1>4, <1>5, <1>6
<1>7. \A r \in Rows : For(r) = {} => txn'.rows[r] = 0 /\ txn'.status[r] = None
  BY <1>4
<1>8. txn'.rows \in [Rows -> Incarnations]
  BY <1>4 DEF TypeOK, Incarnations
<1>9. txn'.status \in Statuses
  <2>1. \A r \in Rows : txn'.status[r] \in Reading \cup {None}
    BY <1>2, <1>6, <1>7 DEF Readings
  <2> QED BY <2>1, <1>4 DEF Statuses
<1>10. txn' \in Transaction
  BY <1>2, <1>4, <1>8, <1>9 DEF Transaction
<1>11. u = Head(queue)
  BY DEF u
<1> QED BY <1>1, <1>4, <1>6, <1>7, <1>10, <1>11

\* Nothing read and no transaction.
LEMMA EmptyTypes == NoReadings \in Readings /\ NoTxn \in Transaction
BY DEF NoReadings, Readings, NoTxn, Transaction, Statuses, Incarnations

\* Applying the transaction to the rows leaves a status column.
LEMMA StatusAfterType == TypeOK => StatusAfter \in Statuses
BY DEF TypeOK, StatusAfter, Statuses, Transaction

-----------------------------------------------------------------------------
(* Type correctness.                                                       *)

\* The types rest on two more facts: no system peer before there is an ntpd, and
\* room in the queue for what is being read.
Types == TypeOK /\ NothingInBoot /\ RoomForResult

\* ops-ntpd starts with nothing.
LEMMA TypeInit == Init => Types
<1> SUFFICES ASSUME Init PROVE Types
  OBVIOUS
<1>1. NoReadings \in Readings /\ NoTxn \in Transaction
  BY EmptyTypes
<1>2. rows \in [Rows -> Incarnations] /\ view \in [Rows -> Incarnations]
  BY DEF Init, Incarnations
<1>3. status \in Statuses
  BY DEF Init, Statuses
<1>4. queue \in Seq(Message) /\ Len(queue) = 0
  BY DEF Init
<1>5. main \in MainStates /\ mgr \in ManagerStates /\ ~ntpdUp /\ ~exitAsked
  BY DEF Init, MainStates, ManagerStates
<1>6. /\ sysInfo \in 0..MaxEpoch /\ epoch \in 0..MaxEpoch /\ sent \in 0..MaxEpoch
      /\ edits \in 0..MaxEdits /\ faults \in 0..MaxFaults
      /\ Len(queue) <= MaxQueue + 1
  BY <1>4 DEF Init
<1>7. peers \in SUBSET IPs /\ sysPeer \in peers \cup {None} /\ listed \in SUBSET IPs
  BY DEF Init
<1>8. ntpdUp \in BOOLEAN /\ exitAsked \in BOOLEAN
  BY DEF Init
<1>9. TypeOK
  BY <1>1, <1>2, <1>3, <1>4, <1>5, <1>6, <1>7, <1>8 DEF Init, TypeOK
<1> QED BY <1>4, <1>9 DEF Init, Types, NothingInBoot, RoomForResult

\* Every action keeps the types.
LEMMA TypeNext == Types /\ [Next]_vars => Types'
<1> SUFFICES ASSUME Types, [Next]_vars PROVE Types'
  OBVIOUS
<1> USE DEF Types, NothingInBoot, RoomForResult, dbVars, ntpdVars, mainVars, mgrVars
<1>1. ASSUME NEW r \in Rows, AddRow(r) PROVE Types'
  BY <1>1 DEF TypeOK, AddRow, Incarnations, Statuses
<1>2. ASSUME NEW r \in Rows, DeleteRow(r) PROVE Types'
  BY <1>2 DEF TypeOK, DeleteRow, Incarnations, Statuses
<1>3. ASSUME NEW x \in peers \cup {None}, SelectPeer(x) PROVE Types'
  BY <1>3 DEF TypeOK, SelectPeer
<1>4. CASE Provision
  BY <1>4, ConfiguredType DEF TypeOK, Provision, MainStates, ManagerStates
<1>5. CASE AskExit
  BY <1>5 DEF TypeOK, AskExit
<1>6. CASE NtpdEnds
  <2>1. faults' \in 0..MaxFaults /\ ntpdUp' = FALSE
    BY <1>6 DEF TypeOK, NtpdEnds, Fault
  <2>2. UNCHANGED <<dbVars, peers, sysPeer, epoch, mainVars, queue, mgrVars>>
    BY <1>6 DEF NtpdEnds
  <2> QED BY <2>1, <2>2 DEF TypeOK
<1>7. CASE CommitFails
  BY <1>7, EmptyTypes DEF TypeOK, CommitFails, Fault, ManagerStates
<1>8. CASE ManagerDies
  BY <1>8, EmptyTypes DEF TypeOK, ManagerDies, Fault, ManagerStates
<1>9. CASE MainRaises
  BY <1>9 DEF TypeOK, MainRaises, Fault, MainStates
<1>10. CASE ConfigPass
  BY <1>10, ConfiguredType DEF TypeOK, ConfigPass, Looping
<1>11. CASE ListPeers \/ ListTimesOut
  <2>1. PICK found \in SUBSET IPs : BeginPoll(found)
    BY <1>11 DEF ListPeers, ListTimesOut, TypeOK
  <2>2. faults' \in 0..MaxFaults
    BY <1>11 DEF ListPeers, ListTimesOut, Fault, TypeOK
  <2> QED BY <2>1, <2>2 DEF TypeOK, BeginPoll, RoomToPoll, Looping, MainStates
<1>12. ASSUME NEW x \in IPs, ReadPeer(x) PROVE Types'
  BY <1>12, ReadingType DEF TypeOK, ReadPeer, Readings
<1>13. CASE SendUpdate
  <2>1. queue' \in Seq(Message) /\ Len(queue') <= MaxQueue
    BY <1>13, MessageTypes, PutProperties DEF TypeOK, SendUpdate, Put
  <2> QED BY <1>13, <2>1, EmptyTypes DEF TypeOK, SendUpdate, MainStates
<1>14. CASE DropUpdate \/ QueryFails
  <2>1. faults' \in 0..MaxFaults /\ DropSnapshot
    BY <1>14 DEF DropUpdate, QueryFails, Fault, TypeOK
  <2> QED BY <2>1, EmptyTypes DEF TypeOK, DropSnapshot, MainStates
<1>15. CASE Exit
  BY <1>15, MessageTypes, PutProperties DEF TypeOK, Exit, MainStates
<1>16. CASE JoinManager
  BY <1>16 DEF TypeOK, JoinManager, MainStates
<1>17. CASE MainEnds
  BY <1>17 DEF TypeOK, MainEnds, MainStates
<1>18. CASE Connect
  BY <1>18 DEF TypeOK, Connect, ManagerStates
<1>19. CASE TakeUpdate
  <2>1. queue' \in Seq(Message) /\ Len(queue') = Len(queue) - 1 /\ Len(queue) \in Nat
    BY <1>19, GetProperties DEF TakeUpdate, TypeOK
  <2>2. txn' \in Transaction
    BY <1>19, TakenTxn
  <2>3. mgr' \in ManagerStates /\ mgr = "get" /\ mgr' = "commit"
    BY <1>19 DEF TakeUpdate, ManagerStates
  <2>4. UNCHANGED <<dbVars, ntpdVars, mainVars, view, faults>>
    BY <1>19 DEF TakeUpdate
  <2> QED BY <2>1, <2>2, <2>3, <2>4 DEF TypeOK
<1>20. CASE Commit
  BY <1>20, EmptyTypes, StatusAfterType DEF TypeOK, Commit, Transaction, ManagerStates
<1>21. CASE TakeShutdown
  <2>1. queue' \in Seq(Message) /\ Len(queue') = Len(queue) - 1 /\ Len(queue) \in Nat
    BY <1>21, GetProperties DEF TakeShutdown, TypeOK
  <2>2. mgr' \in ManagerStates /\ mgr # "none" /\ mgr' # "none" /\ mgr # "dead"
    BY <1>21 DEF TakeShutdown, ManagerStates
  <2>3. UNCHANGED <<dbVars, ntpdVars, mainVars, view, txn, faults>>
    BY <1>21 DEF TakeShutdown
  <2> QED BY <2>1, <2>2, <2>3 DEF TypeOK
<1>22. CASE MainKilled
  <2>1. faults' \in 0..MaxFaults
    BY <1>22 DEF MainKilled, Fault, TypeOK
  <2>2. queue' \in Seq(Message) /\ Len(queue') <= MaxQueue + 1
    BY <1>22, CutProperties DEF MainKilled, TypeOK
  <2>3. /\ main' = "killed" /\ listed' = {} /\ info' = NoReadings
        /\ main # "boot"
        /\ UNCHANGED <<dbVars, ntpdVars, sent, exitAsked, mgrVars>>
    BY <1>22 DEF MainKilled
  <2> QED BY <2>1, <2>2, <2>3, EmptyTypes DEF TypeOK, MainStates
<1>23. CASE UNCHANGED vars
  BY <1>23 DEF TypeOK, vars
<1> QED
  BY <1>1, <1>2, <1>3, <1>4, <1>5, <1>6, <1>7, <1>8, <1>9, <1>10, <1>11, <1>12,
     <1>13, <1>14, <1>15, <1>16, <1>17, <1>18, <1>19, <1>20, <1>21, <1>22, <1>23
  DEF Next, Main, Manager

\* Every variable of StatusSync keeps its type, through every fault.
THEOREM TypeCorrect == Spec => []TypeOK
<1>1. Types => TypeOK
  BY DEF Types
<1> QED BY <1>1, TypeInit, TypeNext, PTL DEF Spec

-----------------------------------------------------------------------------
(* The inductive invariant.                                                *)

\* Nothing is on its way when ops-ntpd starts.
LEMMA InvInit == Init => StatusInv
<1> SUFFICES ASSUME Init PROVE StatusInv
  OBVIOUS
<1>1. Types
  BY TypeInit
<1>2. Len(queue) = 0 /\ queue = <<>> /\ Updates(queue) = {}
  BY DEF Init, Updates
<1>3. PillIsLast /\ QueueInOrder /\ TxnInOrder /\ StatusInOrder /\ LastNotLost
  BY <1>2 DEF Init, PillIsLast, QueueInOrder, InOrder, TxnInOrder, StatusInOrder,
              RowsNotAheadOfSystem, StatusIsOfItsServer, LastNotLost, Taken
<1>4. ReadingsInOrder
  BY DEF Init, ReadingsInOrder, Within, NoReadings
<1> QED BY <1>1, <1>3, <1>4 DEF Types, StatusInv

\* What each part of the invariant is about.
LEMMA Frames ==
    ASSUME StatusInv
    PROVE  /\ UNCHANGED <<queue, main, mgr, faults>> => PillIsLast'
           /\ UNCHANGED <<sent, epoch, info>> => ReadingsInOrder'
           /\ UNCHANGED <<queue, sent, Taken>> => QueueInOrder'
           /\ UNCHANGED <<mgr, sysInfo, txn, sent>> => TxnInOrder'
           /\ UNCHANGED <<sysInfo, sent, status>> => StatusInOrder'
           /\ UNCHANGED <<queue, sent, Taken, faults>> => LastNotLost'
           /\ UNCHANGED <<mgr, sysInfo, txn>> => UNCHANGED Taken
<1> USE DEF StatusInv
<1>1. UNCHANGED <<queue, main, mgr, faults>> => PillIsLast'
  BY DEF PillIsLast
<1>2. UNCHANGED <<sent, epoch, info>> => ReadingsInOrder'
  BY DEF ReadingsInOrder
<1>3. UNCHANGED <<queue, sent, Taken>> => QueueInOrder'
  BY DEF QueueInOrder
<1>4. UNCHANGED <<mgr, sysInfo, txn, sent>> => TxnInOrder'
  BY DEF TxnInOrder
<1>5. UNCHANGED <<sysInfo, sent, status>> => StatusInOrder'
  BY DEF StatusInOrder, RowsNotAheadOfSystem, StatusIsOfItsServer
<1>6. UNCHANGED <<queue, sent, Taken, faults>> => LastNotLost'
  BY DEF LastNotLost
<1>7. UNCHANGED <<mgr, sysInfo, txn>> => UNCHANGED Taken
  BY DEF Taken
<1> QED BY <1>1, <1>2, <1>3, <1>4, <1>5, <1>6, <1>7

\* A fault leaves nothing to say of the last result.
LEMMA FaultCounts ==
    ASSUME TypeOK, NEW kind, Fault(kind) PROVE faults' # 0 /\ LastNotLost'
BY DEF TypeOK, Fault, LastNotLost

\* Of what is about to be committed, or what is, all was sent.
LEMMA TakenSent ==
    ASSUME TypeOK, StatusInv
    PROVE  /\ sysInfo <= Taken /\ Taken <= sent
           /\ sysInfo \in Nat /\ Taken \in Nat /\ sent \in Nat /\ epoch \in Nat
BY DEF TypeOK, Transaction, StatusInv, Taken, TxnInOrder, StatusInOrder

\* The operator writes no status: a row that stays, stays as it is.
LEMMA EditsKeepStatus ==
    ASSUME TypeOK, NEW r \in Rows, AddRow(r) \/ DeleteRow(r)
    PROVE  /\ sysInfo' = sysInfo
           /\ \A s \in Rows : s # r => rows'[s] = rows[s] /\ status'[s] = status[s]
           /\ rows'[r] # rows[r] /\ status'[r] = None
BY DEF TypeOK, AddRow, DeleteRow, Statuses, Incarnations

\* The operator and ntpd: a new row has no status, and a selection is later than
\* all that was read.
LEMMA SurroundingsKeepStatusInv ==
    ASSUME TypeOK, StatusInv, Types',
           \/ \E r \in Rows : AddRow(r) \/ DeleteRow(r)
           \/ \E x \in peers \cup {None} : SelectPeer(x)
           \/ AskExit \/ NtpdEnds
    PROVE  StatusInv'
<1> USE DEF dbVars, ntpdVars, mainVars, mgrVars
<1>1. ASSUME NEW r \in Rows, AddRow(r) \/ DeleteRow(r) PROVE StatusInv'
  <2>1. StatusInOrder'
    <3>1. sysInfo' = sysInfo /\ sent' = sent
      BY <1>1, EditsKeepStatus DEF AddRow, DeleteRow
    <3>2. \A s \in Rows : status'[s] = status[s] \/ status'[s] = None
      BY <1>1, EditsKeepStatus
    <3> QED BY <3>1, <3>2 DEF StatusInv, StatusInOrder, RowsNotAheadOfSystem,
                               StatusIsOfItsServer
  <2> QED BY <1>1, <2>1, Frames DEF AddRow, DeleteRow, StatusInv, Types
<1>2. ASSUME NEW x \in peers \cup {None}, SelectPeer(x) PROVE StatusInv'
  <2>1. epoch <= epoch' /\ epoch' \in Nat /\ UNCHANGED <<info, sent>>
    BY <1>2, TakenSent DEF SelectPeer
  <2>2. \A y \in IPs : info[y] # None => info[y].epoch \in Nat
    BY DEF TypeOK, Readings, Reading
  <2>3. ReadingsInOrder'
    BY <2>1, <2>2, TakenSent DEF StatusInv, ReadingsInOrder, Within
  <2> QED BY <1>2, <2>3, Frames DEF SelectPeer, StatusInv, Types
<1>3. CASE AskExit
  BY <1>3, Frames DEF AskExit, StatusInv, Types
<1>4. CASE NtpdEnds
  <2>1. LastNotLost' /\ faults' # 0
    BY <1>4, FaultCounts DEF NtpdEnds
  <2>2. PillIsLast'
    BY <1>4, <2>1 DEF NtpdEnds, StatusInv, PillIsLast
  <2> QED BY <1>4, <2>1, <2>2, Frames DEF NtpdEnds, StatusInv, Types
<1> QED BY <1>1, <1>2, <1>3, <1>4

\* The beginning and the end of the main process: nothing is sent, and it ends
\* after the manager, unless it is killed, which loses the end of the queue.
LEMMA LifeKeepsStatusInv ==
    ASSUME TypeOK, StatusInv, Types',
           Provision \/ MainRaises \/ MainKilled \/ JoinManager \/ MainEnds
    PROVE  StatusInv'
<1> USE DEF dbVars, ntpdVars, mainVars, mgrVars
<1>1. CASE Provision
  <2>1. mgr = "none" /\ mgr' = "starting" /\ main' = "idle"
    BY <1>1 DEF Provision, StatusInv, NothingInBoot
  <2>2. UNCHANGED Taken /\ TxnInOrder'
    BY <1>1, <2>1 DEF Provision, Taken, TxnInOrder
  <2>3. PillIsLast'
    BY <1>1, <2>1 DEF Provision, StatusInv, PillIsLast
  <2> QED BY <1>1, <2>2, <2>3, Frames DEF Provision, StatusInv, Types
<1>2. CASE MainRaises
  <2>1. LastNotLost' /\ faults' # 0
    BY <1>2, FaultCounts DEF MainRaises
  <2>2. PillIsLast'
    BY <1>2, <2>1 DEF MainRaises, StatusInv, PillIsLast
  <2> QED BY <1>2, <2>1, <2>2, Frames DEF MainRaises, StatusInv, Types
<1>3. CASE JoinManager \/ MainEnds
  <2>1. PillIsLast'
    BY <1>3 DEF JoinManager, MainEnds, StatusInv, PillIsLast
  <2> QED BY <1>3, <2>1, Frames DEF JoinManager, MainEnds, StatusInv, Types
<1>4. CASE MainKilled
  <2>1. PICK n \in 0..Len(queue) : queue' = SubSeq(queue, 1, n)
    BY <1>4 DEF MainKilled
  <2>2. /\ main' = "killed" /\ info' = NoReadings
        /\ UNCHANGED <<dbVars, ntpdVars, sent, mgrVars>>
        /\ queue \in Seq(Message)
    BY <1>4 DEF MainKilled, TypeOK
  <2>3. LastNotLost' /\ faults' # 0
    BY <1>4, FaultCounts DEF MainKilled
  <2>4. UNCHANGED Taken
    BY <2>2, Frames
  <2>5. QueueInOrder'
    BY <2>1, <2>2, <2>4, InOrderCut DEF StatusInv, QueueInOrder
  <2>6. ReadingsInOrder'
    BY <2>2 DEF StatusInv, ReadingsInOrder, Within, NoReadings
  <2>7. PillIsLast'
    <3>1. \A i \in 1..Len(queue') : queue'[i] = Shutdown => i = Len(queue')
      <4>1. /\ Len(queue') = n /\ n \in 0..Len(queue)
            /\ \A i \in 1..n : i \in 1..Len(queue) /\ queue'[i] = queue[i]
        BY <2>1, <2>2, CutProperties
      <4>2. \A i \in 1..Len(queue) : queue[i] = Shutdown => i = Len(queue)
        BY DEF StatusInv, PillIsLast
      <4> QED BY <4>1, <4>2
    <3>2. mgr = "closed" => queue' = <<>>
      <4> SUFFICES ASSUME mgr = "closed" PROVE queue' = <<>>
        OBVIOUS
      <4>1. queue = <<>>
        BY DEF StatusInv, PillIsLast
      <4> QED BY <4>1, <2>1
    <3> QED BY <2>2, <2>3, <3>1, <3>2 DEF PillIsLast
  <2> QED BY <2>2, <2>3, <2>4, <2>5, <2>6, <2>7, Frames DEF StatusInv, Types
<1> QED BY <1>1, <1>2, <1>3, <1>4

\* A poll begins, reads one association or is dropped: what is read is read after
\* the last result was sent.
LEMMA PollKeepsStatusInv ==
    ASSUME TypeOK, StatusInv, Types',
           \/ ConfigPass \/ ListPeers \/ ListTimesOut \/ DropUpdate \/ QueryFails
           \/ \E x \in IPs : ReadPeer(x)
    PROVE  StatusInv'
<1> USE DEF dbVars, ntpdVars, mainVars, mgrVars
<1>1. CASE ConfigPass
  BY <1>1, Frames DEF ConfigPass, StatusInv, Types
<1>2. CASE ListPeers \/ ListTimesOut
  <2>1. PICK found : BeginPoll(found)
    BY <1>2 DEF ListPeers, ListTimesOut
  <2>2. LastNotLost' /\ (faults' = faults \/ faults' # 0)
    BY <1>2, <2>1, FaultCounts, Frames DEF ListPeers, ListTimesOut, BeginPoll, StatusInv
  <2>3. PillIsLast'
    BY <2>1, <2>2 DEF BeginPoll, Looping, StatusInv, PillIsLast
  <2> QED BY <2>1, <2>2, <2>3, Frames DEF BeginPoll, StatusInv, Types
<1>3. CASE DropUpdate \/ QueryFails
  <2>1. DropSnapshot
    BY <1>3 DEF DropUpdate, QueryFails
  <2>2. LastNotLost' /\ (faults' = faults \/ faults' # 0)
    BY <1>3, <2>1, FaultCounts, Frames DEF DropUpdate, QueryFails, DropSnapshot, StatusInv
  <2>3. PillIsLast'
    BY <2>1, <2>2 DEF DropSnapshot, StatusInv, PillIsLast
  <2>4. ReadingsInOrder'
    BY <2>1 DEF DropSnapshot, StatusInv, ReadingsInOrder, Within, NoReadings
  <2> QED BY <2>1, <2>2, <2>3, <2>4, Frames DEF DropSnapshot, StatusInv, Types
<1>4. ASSUME NEW x \in IPs, ReadPeer(x) PROVE StatusInv'
  <2>1. /\ info' = [info EXCEPT ![x] = [of |-> x, cond |-> Condition(x), epoch |-> epoch]]
        /\ info \in [IPs -> Reading \cup {None}]
        /\ UNCHANGED <<sent, epoch>>
    BY <1>4 DEF ReadPeer, TypeOK, Readings
  <2>2. info'[x].of = x /\ info'[x].epoch = epoch
    BY <2>1
  <2>3. \A y \in IPs : y # x => info'[y] = info[y]
    BY <2>1
  <2>4. ReadingsInOrder'
    BY <2>1, <2>2, <2>3, TakenSent DEF StatusInv, ReadingsInOrder, Within
  <2> QED BY <1>4, <2>4, Frames DEF ReadPeer, StatusInv, Types
<1> QED BY <1>1, <1>2, <1>3, <1>4

\* A result goes to the end of the queue; beyond the bound of one without a reader
\* it is left out.
LEMMA SendKeepsStatusInv ==
    ASSUME TypeOK, StatusInv, Types', SendUpdate
    PROVE  StatusInv'
<1> USE DEF dbVars, ntpdVars, mainVars, mgrVars
<1> DEFINE u == Update(info, epoch)
<1>1. /\ main = "reading" /\ main' = "idle" /\ sent' = epoch /\ info' = NoReadings
      /\ (queue' = queue /\ mgr = "dead") \/ queue' = Append(queue, u)
      /\ UNCHANGED <<dbVars, ntpdVars, mgrVars, faults>>
  BY DEF SendUpdate, Put
<1>2. /\ sent <= epoch /\ Within(info, sent, epoch) /\ InOrder(queue, Taken, sent)
      /\ queue \in Seq(Message) /\ info \in Readings /\ epoch \in 0..MaxEpoch
  BY DEF StatusInv, ReadingsInOrder, QueueInOrder, TypeOK
<1>3. UNCHANGED Taken
  BY <1>1, Frames
<1>4. u \in Message /\ u # Shutdown /\ u.epoch = epoch
  BY <1>2, MessageTypes, Kinds
<1> HIDE DEF u
<1>5. PillIsLast'
  <2>1. \A i \in 1..Len(queue) : queue[i] # Shutdown
    BY <1>1 DEF StatusInv, PillIsLast
  <2>2. \A i \in 1..Len(queue') : queue'[i] # Shutdown
    BY <1>1, <1>2, <1>4, <2>1, PutProperties
  <2> QED BY <1>1, <2>2 DEF StatusInv, PillIsLast
<1>6. ReadingsInOrder'
  BY <1>1, <1>2 DEF ReadingsInOrder, Within, NoReadings
<1>7. QueueInOrder'
  <2>1. InOrder(queue, Taken, epoch)
    BY <1>2, TakenSent DEF InOrder, Updates, Message
  <2>2. InOrder(Append(queue, u), Taken, epoch)
    BY <1>2, InOrderPut, TakenSent DEF u
  <2> QED BY <1>1, <1>3, <2>1, <2>2 DEF QueueInOrder
<1>8. TxnInOrder'
  BY <1>1, <1>2, TakenSent DEF StatusInv, TxnInOrder, TypeOK, Transaction
<1>9. StatusInOrder'
  BY <1>1, <1>2, TakenSent DEF StatusInv, StatusInOrder, RowsNotAheadOfSystem,
                               StatusIsOfItsServer
<1>10. LastNotLost'
  <2>1. CASE mgr = "dead"
    BY <1>1, <2>1 DEF StatusInv, PillIsLast, LastNotLost
  <2>2. CASE queue' = Append(queue, u)
    <3>1. Len(queue) + 1 \in Updates(queue') /\ queue'[Len(queue) + 1] = u
      BY <1>1, <1>2, <1>4, <2>2, PutProperties DEF Updates
    <3> QED BY <1>1, <1>4, <3>1 DEF LastNotLost
  <2> QED BY <1>1, <2>1, <2>2
<1> QED BY <1>5, <1>6, <1>7, <1>8, <1>9, <1>10 DEF StatusInv, Types

\* The pill goes behind the results.
LEMMA ExitKeepsStatusInv ==
    ASSUME TypeOK, StatusInv, Types', Exit
    PROVE  StatusInv'
<1> USE DEF dbVars, ntpdVars, mainVars, mgrVars
<1>1. /\ main = "idle" /\ main' = "joining" /\ queue' = Append(queue, Shutdown)
      /\ queue \in Seq(Message) /\ Shutdown \in Message
      /\ UNCHANGED <<dbVars, ntpdVars, info, sent, mgrVars, faults>>
  BY MessageTypes DEF Exit, TypeOK
<1>2. /\ Len(queue') = Len(queue) + 1 /\ queue' # <<>>
      /\ queue'[Len(queue')] = Shutdown
      /\ \A i \in 1..Len(queue) : queue'[i] = queue[i] /\ queue[i] # Shutdown
  BY <1>1, PutProperties DEF StatusInv, PillIsLast
<1>3. UNCHANGED Taken
  BY <1>1, Frames
<1>4. PillIsLast'
  BY <1>1, <1>2 DEF StatusInv, PillIsLast
<1>5. QueueInOrder'
  BY <1>1, <1>3, InOrderPill DEF StatusInv, QueueInOrder
<1>6. LastNotLost'
  <2>1. \A i \in Updates(queue) : i \in Updates(queue') /\ queue'[i] = queue[i]
    BY <1>1, <1>2 DEF Updates
  <2> QED BY <1>1, <1>3, <2>1 DEF StatusInv, LastNotLost
<1> QED BY <1>1, <1>4, <1>5, <1>6, Frames DEF StatusInv, Types

\* The manager starts, or takes the next result: that is the oldest there is, and
\* what it is about to set is of the right servers and not older than OVSDB.
LEMMA TakeKeepsStatusInv ==
    ASSUME TypeOK, StatusInv, Types', Connect \/ TakeUpdate
    PROVE  StatusInv'
<1> USE DEF dbVars, ntpdVars, mainVars, mgrVars
<1>1. CASE Connect
  <2>1. UNCHANGED Taken /\ TxnInOrder'
    BY <1>1 DEF Connect, Taken, TxnInOrder
  <2>2. PillIsLast'
    BY <1>1 DEF Connect, StatusInv, PillIsLast
  <2> QED BY <1>1, <2>1, <2>2, Frames DEF Connect, StatusInv, Types
<1>2. CASE TakeUpdate
  <2> DEFINE u == Head(queue)
  <2>1. /\ mgr = "get" /\ mgr' = "commit" /\ queue # <<>> /\ queue' = Tail(queue)
        /\ UNCHANGED <<dbVars, ntpdVars, mainVars, faults>>
        /\ queue \in Seq(Message) /\ InOrder(queue, Taken, sent)
    BY <1>2 DEF TakeUpdate, TypeOK, StatusInv, QueueInOrder
  <2>2. /\ u = queue[1] /\ u \in Message
        /\ Len(queue) \in Nat \ {0} /\ Len(queue') = Len(queue) - 1
        /\ \A i \in 1..Len(queue) - 1 : queue'[i] = queue[i + 1]
    BY <2>1, GetProperties
  <2>3. /\ u # Shutdown /\ txn'.epoch = u.epoch
        /\ \A r \in Rows : txn'.rows[r] # 0 =>
              /\ NameOf[r] \in IPs
              /\ u.info[NameOf[r]] # None
              /\ txn'.status[r] = u.info[NameOf[r]]
    BY <1>2, TakenTxn
  <2>4. Taken = sysInfo /\ Taken' = u.epoch
    BY <2>1, <2>3 DEF Taken
  <2>5. 1 \in Updates(queue)
    BY <2>2, <2>3 DEF Updates
  <2>6. /\ sysInfo <= u.epoch /\ u.epoch <= sent
        /\ Within(u.info, sysInfo, u.epoch)
    BY <2>1, <2>2, <2>4, <2>5 DEF InOrder
  <2>7. InOrder(Tail(queue), u.epoch, sent)
    BY <2>1, <2>3, InOrderGet
  <2>8. \A i \in Updates(queue) :
           i = 1 \/ (i - 1 \in Updates(queue') /\ queue'[i - 1] = queue[i])
    BY <2>2 DEF Updates
  <2> HIDE DEF u
  <2>9. QueueInOrder'
    BY <2>1, <2>4, <2>7 DEF QueueInOrder
  <2>10. TxnInOrder'
    BY <2>1, <2>3, <2>6 DEF TxnInOrder, Within
  <2>11. PillIsLast'
    <3>1. \A i \in 1..Len(queue') : queue'[i] = Shutdown =>
             i = Len(queue') /\ main \in {"joining", "exited", "killed"}
      BY <2>2 DEF StatusInv, PillIsLast
    <3>2. main = "joining" => queue' # <<>> /\ queue'[Len(queue')] = Shutdown
      <4> SUFFICES ASSUME main = "joining"
                   PROVE  queue' # <<>> /\ queue'[Len(queue')] = Shutdown
        OBVIOUS
      <4>1. queue[Len(queue)] = Shutdown
        BY <2>1 DEF StatusInv, PillIsLast
      <4>2. Len(queue) # 1
        BY <4>1, <2>2, <2>3
      <4> QED BY <4>1, <4>2, <2>2
    <3> QED BY <3>1, <3>2, <2>1 DEF StatusInv, PillIsLast
  <2>12. LastNotLost'
    <3> SUFFICES ASSUME faults = 0
                 PROVE  u.epoch = sent \/ \E i \in Updates(queue') : queue'[i].epoch = sent
      BY <2>1, <2>4 DEF LastNotLost
    <3>1. CASE Taken = sent
      BY <3>1, <2>2, <2>3, <2>4, <2>6, MessageTypes, TakenSent
    <3>2. CASE \E i \in Updates(queue) : queue[i].epoch = sent
      BY <3>2, <2>2, <2>8
    <3> QED BY <3>1, <3>2 DEF StatusInv, LastNotLost
  <2> QED BY <2>1, <2>9, <2>10, <2>11, <2>12, Frames DEF StatusInv, Types
<1> QED BY <1>1, <1>2

\* One transaction brings the rows and System forward together; the result that
\* is committed stays the newest that is taken.
LEMMA CommitKeepsStatusInv ==
    ASSUME TypeOK, StatusInv, Types', Commit
    PROVE  StatusInv'
<1> USE DEF dbVars, ntpdVars, mainVars, mgrVars
<1>1. /\ mgr = "commit" /\ mgr' = "get" /\ status' = StatusAfter /\ sysInfo' = txn.epoch
      /\ UNCHANGED <<rows, edits, ntpdVars, mainVars, queue, faults>>
  BY DEF Commit
<1>2. /\ sysInfo <= txn.epoch /\ txn.epoch <= sent
      /\ sysInfo \in Nat /\ txn.epoch \in Nat
      /\ \A r \in Rows : txn.rows[r] # 0 =>
            /\ txn.status[r] # None
            /\ txn.status[r].of = NameOf[r]
            /\ txn.status[r].epoch <= txn.epoch
  BY <1>1 DEF StatusInv, TxnInOrder, TypeOK, Transaction
<1>3. UNCHANGED Taken /\ TxnInOrder'
  BY <1>1 DEF Taken, TxnInOrder
<1>4. PillIsLast'
  BY <1>1 DEF StatusInv, PillIsLast
<1>5. StatusInOrder'
  <2>1. ASSUME NEW r \in Rows, status'[r] # None
        PROVE  status'[r].epoch <= txn.epoch /\ status'[r].of = NameOf[r]
    <3>1. CASE status'[r] = txn.status[r] /\ txn.rows[r] # 0
      BY <3>1, <1>2
    <3>2. CASE status'[r] = status[r]
      <4>1. /\ status[r].epoch <= sysInfo /\ status[r].of = NameOf[r]
            /\ status[r].epoch \in Nat
        BY <2>1, <3>2 DEF StatusInv, StatusInOrder, RowsNotAheadOfSystem,
                          StatusIsOfItsServer, TypeOK, Statuses, Reading
      <4> QED BY <4>1, <3>2, <1>2
    <3> QED BY <3>1, <3>2, <1>1 DEF StatusAfter
  <2> QED BY <2>1, <1>1, <1>2 DEF StatusInOrder, RowsNotAheadOfSystem,
                                  StatusIsOfItsServer
<1> QED BY <1>1, <1>3, <1>4, <1>5, Frames DEF StatusInv, Types

\* A transaction is given up, or the manager dies with it: what is taken goes back
\* to what is in OVSDB.
LEMMA GiveUpKeepsStatusInv ==
    ASSUME TypeOK, StatusInv, Types', CommitFails \/ ManagerDies
    PROVE  StatusInv'
<1> USE DEF dbVars, ntpdVars, mainVars, mgrVars
<1>1. /\ mgr' \in {"get", "dead"} /\ mgr # "closed"
      /\ UNCHANGED <<dbVars, ntpdVars, mainVars, queue>>
  BY DEF CommitFails, ManagerDies
<1>2. LastNotLost' /\ faults' # 0
  BY FaultCounts DEF CommitFails, ManagerDies
<1>3. PillIsLast'
  BY <1>1, <1>2 DEF CommitFails, ManagerDies, StatusInv, PillIsLast
<1>4. Taken' = sysInfo /\ TxnInOrder'
  BY <1>1 DEF Taken, TxnInOrder
<1>5. QueueInOrder'
  <2>1. InOrder(queue, Taken, sent) /\ queue \in Seq(Message)
    BY DEF StatusInv, QueueInOrder, TypeOK
  <2>2. InOrder(queue, sysInfo, sent)
    BY <2>1, TakenSent, InOrderEarlier
  <2> QED BY <2>2, <1>1, <1>4 DEF QueueInOrder
<1> QED BY <1>1, <1>2, <1>3, <1>4, <1>5, Frames DEF StatusInv, Types

\* The pill is the last there was to take.
LEMMA PillKeepsStatusInv ==
    ASSUME TypeOK, StatusInv, Types', TakeShutdown
    PROVE  StatusInv'
<1> USE DEF dbVars, ntpdVars, mainVars, mgrVars
<1>1. /\ mgr = "get" /\ mgr' = "closed" /\ queue # <<>> /\ queue' = Tail(queue)
      /\ UNCHANGED <<dbVars, ntpdVars, mainVars, txn, faults>>
      /\ queue \in Seq(Message)
  BY DEF TakeShutdown, TypeOK
<1>2. /\ Head(queue) = queue[1] /\ Head(queue) \in Message
      /\ Len(queue) \in Nat \ {0} /\ Len(queue') = Len(queue) - 1
      /\ queue' \in Seq(Message)
  BY <1>1, GetProperties
<1>3. queue[1] = Shutdown
  BY <1>2, MessageTypes DEF TakeShutdown
<1>4. Len(queue) = 1 /\ main \in {"joining", "exited", "killed"}
  BY <1>2, <1>3 DEF StatusInv, PillIsLast
<1>5. queue' = <<>> /\ Updates(queue) = {} /\ Updates(queue') = {}
  BY <1>2, <1>3, <1>4 DEF Updates
<1>6. UNCHANGED Taken /\ TxnInOrder'
  BY <1>1 DEF Taken, TxnInOrder
<1>7. PillIsLast'
  <2>1. \A i \in 1..Len(queue') : FALSE
    BY <1>2, <1>4
  <2>2. mgr' = "closed" /\ queue' = <<>> /\ main' = main /\ faults' = faults
    BY <1>1, <1>5
  <2>3. main \in {"joining", "exited", "killed"} /\ (main = "killed" => faults # 0)
    BY <1>4 DEF StatusInv, PillIsLast
  <2> QED BY <2>1, <2>2, <2>3 DEF PillIsLast
<1>8. QueueInOrder' /\ LastNotLost'
  BY <1>1, <1>5, <1>6 DEF StatusInv, QueueInOrder, InOrder, LastNotLost
<1> QED BY <1>1, <1>6, <1>7, <1>8, Frames DEF StatusInv, Types

\* So does every step.
LEMMA InvNext == TypeOK /\ StatusInv /\ [Next]_vars => StatusInv'
<1> SUFFICES ASSUME TypeOK, StatusInv, [Next]_vars PROVE StatusInv'
  OBVIOUS
<1>1. Types'
  BY TypeNext DEF Types, StatusInv
<1>2. CASE UNCHANGED vars
  BY <1>1, <1>2, Frames DEF vars, StatusInv, Types
<1> QED
  BY <1>1, <1>2, SurroundingsKeepStatusInv, LifeKeepsStatusInv, PollKeepsStatusInv,
     SendKeepsStatusInv, ExitKeepsStatusInv, TakeKeepsStatusInv, CommitKeepsStatusInv,
     GiveUpKeepsStatusInv, PillKeepsStatusInv
  DEF Next, Main, Manager

-----------------------------------------------------------------------------
(* Theorems.                                                               *)

\* From ntpd to OVSDB everything is in the order in which ntpd said it, and
\* nothing of it is lost without a fault.
THEOREM Invariance == Spec => []StatusInv
BY InvInit, InvNext, TypeCorrect, PTL DEF Spec

\* No row tells of a later ntpd than System does (update_info).
THEOREM RowsFollowSystem == Spec => []RowsNotAheadOfSystem
<1>1. StatusInv => RowsNotAheadOfSystem
  BY DEF StatusInv, StatusInOrder
<1> QED BY <1>1, Invariance, PTL

\* A row shows what ntpd said of its own server (find_row_by_ip_addr).
THEOREM RowsShowTheirServer == Spec => []StatusIsOfItsServer
<1>1. StatusInv => StatusIsOfItsServer
  BY DEF StatusInv, StatusInOrder
<1> QED BY <1>1, Invariance, PTL

\* An exit that completes has lost nothing, unless there was a fault.
THEOREM ExitLosesNothing == Spec => []ExitDrains
<1>1. TypeOK /\ StatusInv => ExitDrains
  <2> SUFFICES ASSUME TypeOK, StatusInv, main = "exited", mgr # "dead"
               PROVE  mgr = "closed" /\ queue = <<>> /\ (faults = 0 => sysInfo = sent)
    BY DEF ExitDrains
  <2>1. mgr = "closed" /\ queue = <<>>
    BY DEF StatusInv, PillIsLast
  <2>2. Updates(queue) = {}
    BY <2>1 DEF Updates
  <2> QED BY <2>1, <2>2 DEF StatusInv, LastNotLost, Taken
<1> QED BY <1>1, Invariance, TypeCorrect, PTL

\* Only the operator and a commit write what this module has of OVSDB.
LEMMA WritersOfOVSDB ==
    ASSUME [Next]_vars
    PROVE  \/ UNCHANGED <<rows, status, sysInfo>>
           \/ Commit
           \/ \E r \in Rows : AddRow(r) \/ DeleteRow(r)
<1> USE DEF dbVars
<1>1. CASE UNCHANGED vars
  BY <1>1 DEF vars
<1>2. CASE Main
  BY <1>2 DEF Main, ConfigPass, ListPeers, BeginPoll, SendUpdate, DropUpdate,
              DropSnapshot, Exit, JoinManager, MainEnds, ReadPeer
<1>3. CASE Manager
  BY <1>3 DEF Manager, Connect, TakeUpdate, TakeShutdown
<1> QED
  BY <1>1, <1>2, <1>3
  DEF Next, SelectPeer, Provision, AskExit, NtpdEnds, ListTimesOut, BeginPoll,
      QueryFails, DropSnapshot, CommitFails, ManagerDies, MainRaises, MainKilled

\* A commit brings a row forward or leaves it.
LEMMA CommitForward ==
    ASSUME TypeOK, StatusInv, Commit
    PROVE  /\ UNCHANGED rows
           /\ sysInfo <= sysInfo' /\ sysInfo' <= epoch
           /\ \A r \in Rows :
                 \/ status'[r] = status[r]
                 \/ /\ status'[r] # None
                    /\ sysInfo <= status'[r].epoch /\ status'[r].epoch <= sysInfo'
                    /\ status'[r].epoch \in 0..MaxEpoch
                    /\ status[r] # None => status[r].epoch <= status'[r].epoch
<1>1. /\ sysInfo' = txn.epoch /\ status' = StatusAfter /\ UNCHANGED rows
      /\ sysInfo <= txn.epoch /\ txn.epoch <= sent /\ sent <= epoch
      /\ sysInfo \in Nat /\ txn.epoch \in Nat /\ sent \in Nat /\ epoch \in Nat
  BY TakenSent DEF Commit, StatusInv, TxnInOrder, ReadingsInOrder, TypeOK, Transaction
<1>2. ASSUME NEW r \in Rows, txn.rows[r] # 0
      PROVE  /\ txn.status[r] # None
             /\ sysInfo <= txn.status[r].epoch /\ txn.status[r].epoch <= txn.epoch
             /\ txn.status[r].epoch \in 0..MaxEpoch
  BY <1>2 DEF Commit, StatusInv, TxnInOrder, TypeOK, Transaction, Statuses, Reading
<1>3. ASSUME NEW r \in Rows, status[r] # None
      PROVE  status[r].epoch <= sysInfo /\ status[r].epoch \in Nat
  BY <1>3 DEF StatusInv, StatusInOrder, RowsNotAheadOfSystem, TypeOK, Statuses, Reading
<1>4. \A r \in Rows : status'[r] = status[r] \/ (txn.rows[r] # 0 /\ status'[r] = txn.status[r])
  BY <1>1 DEF StatusAfter
<1>5. sysInfo <= sysInfo' /\ sysInfo' <= epoch
  BY <1>1
<1> QED BY <1>1, <1>2, <1>3, <1>4, <1>5

\* No older result overwrites a newer one, in System or in a row that stays.
THEOREM TimeGoesForward == Spec => NeverBackwards
<1> DEFINE Forward == /\ sysInfo' >= sysInfo
                      /\ \A r \in Rows :
                            rows'[r] = rows[r] /\ status[r] # None =>
                                status'[r] # None /\ status'[r].epoch >= status[r].epoch
<1>1. ASSUME TypeOK, StatusInv, [Next]_vars PROVE Forward
  <2>1. /\ sysInfo \in Nat
        /\ \A r \in Rows : status[r] # None => status[r].epoch \in Nat
    BY <1>1 DEF TypeOK, Statuses, Reading
  <2>2. CASE UNCHANGED <<rows, status, sysInfo>>
    BY <2>1, <2>2
  <2>3. CASE Commit
    <3>1. sysInfo' \in Nat
      BY <1>1, <2>3 DEF Commit, TypeOK, Transaction
    <3> QED BY <1>1, <2>1, <2>3, <3>1, CommitForward
  <2>4. ASSUME NEW r \in Rows, AddRow(r) \/ DeleteRow(r) PROVE Forward
    BY <1>1, <2>1, <2>4, EditsKeepStatus
  <2> QED BY <1>1, <2>2, <2>3, <2>4, WritersOfOVSDB
<1>2. TypeOK /\ StatusInv /\ [Next]_vars => [Forward]_vars
  BY <1>1
<1>3. Spec => [][Forward]_vars
  BY <1>2, Invariance, TypeCorrect, PTL DEF Spec
<1> QED BY <1>3 DEF NeverBackwards

-----------------------------------------------------------------------------
(* The refinement of StatusFeed.                                           *)

\* The epoch each row tells of, as StatusSync has it for StatusFeed.
Told == [r \in Rows |-> IF status[r] = None THEN None ELSE status[r].epoch]

\* Nothing of the feed changes, or its parts stop or start.
LEMMA FeedSwitches ==
    ASSUME UNCHANGED <<status, sysInfo, epoch>>
    PROVE  Feed!Switch \/ UNCHANGED Feed!vars
<1>1. Told' = Told
  BY DEF Told
<1>2. UNCHANGED <<epoch, sysInfo, Told>> /\ UNCHANGED ShowStatistics
  BY <1>1 DEF ShowStatistics
<1>3. CASE (~Stopped)' = ~Stopped
  BY <1>2, <1>3 DEF Feed!vars, Told
<1>4. CASE (~Stopped)' = ~(~Stopped)
  BY <1>2, <1>4 DEF Feed!Switch, Told
<1>5. (~Stopped)' = ~Stopped \/ (~Stopped)' = ~(~Stopped)
  OBVIOUS
<1> QED BY <1>3, <1>4, <1>5

\* ntpd's selections are the steps of its epoch.
LEMMA FeedAdvances ==
    ASSUME TypeOK, NEW x \in peers \cup {None}, SelectPeer(x)
    PROVE  Feed!Advance
<1>1. epoch' \in {e \in 0..MaxEpoch : e > epoch}
  BY DEF TypeOK, SelectPeer
<1>2. UNCHANGED <<status, sysInfo, exitAsked, main, mgr, ntpdUp>>
  BY DEF SelectPeer, dbVars, mainVars, mgrVars
<1>3. UNCHANGED Told /\ UNCHANGED ShowStatistics /\ UNCHANGED Stopped
  BY <1>2 DEF Told, ShowStatistics, Stopped
<1> QED BY <1>1, <1>3 DEF Feed!Advance, Told

\* A commit publishes the rows and System as one.
LEMMA FeedPublishes ==
    ASSUME TypeOK, TypeOK', StatusInv, Commit
    PROVE  Feed!Publish
<1>1. UNCHANGED <<epoch, exitAsked, main, ntpdUp>> /\ mgr # "dead" /\ mgr' # "dead"
  BY DEF Commit, ntpdVars, mainVars
<1>2. UNCHANGED Stopped
  BY <1>1 DEF Stopped
<1>3. ShowStatistics' \in {e \in 0..MaxEpoch : ShowStatistics <= e /\ e <= epoch}
  BY CommitForward DEF TypeOK, ShowStatistics
<1>4. Told' \in [Rows -> 0..MaxEpoch \cup {None}]
  BY DEF Told, TypeOK, Statuses, Reading
<1>5. ASSUME NEW r \in Rows, Told'[r] # Told[r]
      PROVE  /\ Told'[r] \in {e \in 0..MaxEpoch : e <= ShowStatistics'}
             /\ Told[r] # None => Told[r] <= Told'[r]
  <2>1. status'[r] # status[r]
    BY <1>5 DEF Told
  <2>2. /\ status'[r] # None
        /\ status'[r].epoch \in 0..MaxEpoch /\ status'[r].epoch <= sysInfo'
        /\ status[r] # None => status[r].epoch <= status'[r].epoch
    BY <2>1, CommitForward
  <2> QED BY <2>2 DEF Told, ShowStatistics
<1> QED BY <1>1, <1>2, <1>3, <1>4, <1>5 DEF Feed!Publish, Told

\* The row of an edit is forgotten.
LEMMA FeedForgets ==
    ASSUME TypeOK, NEW r \in Rows, AddRow(r) \/ DeleteRow(r)
    PROVE  Feed!Forget(r)
<1>1. /\ sysInfo' = sysInfo
      /\ \A s \in Rows : s # r => status'[s] = status[s]
      /\ status'[r] = None
  BY EditsKeepStatus
<1>2. Told' = [Told EXCEPT ![r] = None]
  BY <1>1 DEF Told
<1>3. UNCHANGED <<epoch, exitAsked, main, mgr, ntpdUp>>
  BY DEF AddRow, DeleteRow, ntpdVars, mainVars, mgrVars
<1>4. UNCHANGED ShowStatistics /\ UNCHANGED Stopped
  BY <1>1, <1>3 DEF ShowStatistics, Stopped
<1> QED BY <1>2, <1>3, <1>4 DEF Feed!Forget, Told

\* No other step touches what the feed is about.
LEMMA FeedBystanders ==
    ASSUME [Next]_vars
    PROVE  \/ UNCHANGED <<status, sysInfo, epoch>>
           \/ Commit
           \/ \E r \in Rows : AddRow(r) \/ DeleteRow(r)
           \/ \E x \in peers \cup {None} : SelectPeer(x)
<1> USE DEF ntpdVars
<1>1. CASE UNCHANGED vars
  BY <1>1 DEF vars
<1>2. CASE Main
  <2>1. UNCHANGED epoch
    BY <1>2 DEF Main, ConfigPass, ListPeers, BeginPoll, SendUpdate, DropUpdate,
                DropSnapshot, Exit, JoinManager, MainEnds, ReadPeer
  <2> QED BY <2>1, WritersOfOVSDB
<1>3. CASE Manager
  <2>1. UNCHANGED epoch \/ Commit
    BY <1>3 DEF Manager, Connect, TakeUpdate, TakeShutdown
  <2> QED BY <2>1, WritersOfOVSDB
<1>4. CASE \/ Provision \/ AskExit \/ NtpdEnds \/ ListTimesOut \/ QueryFails
           \/ CommitFails \/ ManagerDies \/ MainRaises \/ MainKilled
  <2>1. UNCHANGED epoch
    BY <1>4 DEF Provision, AskExit, NtpdEnds, ListTimesOut, BeginPoll, QueryFails,
                DropSnapshot, CommitFails, ManagerDies, MainRaises, MainKilled
  <2> QED BY <2>1, WritersOfOVSDB
<1> QED BY <1>1, <1>2, <1>3, <1>4 DEF Next

\* The queue, the replica and the two processes implement the feed: ops-ntpd starts
\* as one, and each of its steps is a step of the feed or none.  (That it catches
\* up is liveness, and ImplementsFeed says it to TLC.)
THEOREM FeedImplemented == Spec => Feed!Init /\ [][Feed!Next]_Feed!vars
<1>1. Init => Feed!Init
  <2> SUFFICES ASSUME Init PROVE Feed!Init
    OBVIOUS
  <2>1. epoch = 0 /\ ShowStatistics = 0 /\ Told = [r \in Rows |-> None]
    BY DEF Init, ShowStatistics, Told
  <2>2. (~Stopped) \in BOOLEAN
    OBVIOUS
  <2> QED BY <2>1, <2>2 DEF Feed!Init, Told
<1>2. ASSUME TypeOK, StatusInv, TypeOK', [Next]_vars PROVE [Feed!Next]_Feed!vars
  <2>1. CASE UNCHANGED <<status, sysInfo, epoch>>
    BY <2>1, FeedSwitches DEF Feed!Next
  <2>2. CASE Commit
    BY <1>2, <2>2, FeedPublishes DEF Feed!Next
  <2>3. ASSUME NEW r \in Rows, AddRow(r) \/ DeleteRow(r) PROVE Feed!Next
    BY <1>2, <2>3, FeedForgets DEF Feed!Next
  <2>4. ASSUME NEW x \in peers \cup {None}, SelectPeer(x) PROVE Feed!Next
    BY <1>2, <2>4, FeedAdvances DEF Feed!Next
  <2> QED BY <1>2, <2>1, <2>2, <2>3, <2>4, FeedBystanders
<1> QED BY <1>1, <1>2, Invariance, TypeCorrect, PTL DEF Spec

=============================================================================
