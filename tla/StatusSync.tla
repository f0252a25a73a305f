----------------------------- MODULE StatusSync -----------------------------
(***************************************************************************)
(* How the state of ntpd's associations comes back to OVSDB.               *)
(*                                                                         *)
(* The main process of ops-ntpd, when no configuration change is pending,  *)
(* asks ntpd for the list of its associations (ntpq apeers), then for each *)
(* of them (ntpq rv), then for the totals (ntpq sysstats), and puts the    *)
(* result on a queue.  The transaction manager, a process of its own with  *)
(* its own replica of OVSDB, takes one result after the other and commits  *)
(* it.  ntpd selects another system peer whenever it likes, also between   *)
(* two of the queries; the operator adds and deletes server rows and asks  *)
(* vtysh to show what has come back.                                       *)
(*                                                                         *)
(* Both processes are followed from the start of ops-ntpd to its end, by   *)
(* the exit command, by an exception or by a signal.  A manager whose main *)
(* process was killed goes on alone.                                       *)
(***************************************************************************)
EXTENDS Naturals, Sequences

CONSTANTS
    Rows,       \* the server rows that may be configured
    IPs,        \* IP addresses
    FQDNs,      \* names that resolve to an IP address
    NameOf,     \* the address column of a row: an IP address or an FQDN
    Resolve,    \* the IP address of a name; an IP address is its own
    None,       \* no status, no system peer
    MaxEdits,   \* bound: rows added or deleted
    MaxEpoch,   \* bound: selections of a system peer
    MaxQueue,   \* bound: results waiting in the queue
    FaultKinds, \* which faults there are: see AllFaults
    MaxFaults   \* bound: faults

ASSUME NamesAssumption ==
    /\ IPs \cap FQDNs = {}
    /\ NameOf \in [Rows -> IPs \cup FQDNs]
    /\ Resolve \in [IPs \cup FQDNs -> IPs]
    /\ \A x \in IPs : Resolve[x] = x

\* ntpd ends; ntpd does not answer a query, or not as expected; a commit does not
\* succeed; the manager dies; the main loop raises an exception; the main process
\* is killed.
AllFaults == {"ntpd", "query", "commit", "manager", "exception", "kill"}

ASSUME StatusBounds ==
    /\ FaultKinds \subseteq AllFaults
    /\ MaxEdits \in Nat /\ MaxEpoch \in Nat /\ MaxQueue \in Nat \ {0} /\ MaxFaults \in Nat

VARIABLES
    rows,       \* NTP_Association: the incarnation (_uuid) of each row, 0 if none
    status,     \* its column association_status; None before the first result
    sysInfo,    \* System:ntp_status and ntp_statistics, as the epoch they tell of
    peers,      \* the associations of ntpd, by IP address
    sysPeer,    \* the one ntpd has selected
    epoch,      \* how often ntpd has selected
    ntpdUp,     \* ntpd is running
    main,       \* where the main process is
    listed,     \* associations of apeers it has not asked about yet
    info,       \* what it has read of the others (associations_info)
    queue,      \* transaction_queue
    sent,       \* auxiliary: the epoch of the last result put on the queue
    exitAsked,  \* the exit command was given to unixctl
    mgr,        \* where the transaction manager is
    view,       \* its replica of NTP_Association
    txn,        \* the transaction it is about to commit
    edits,      \* edits so far, at most MaxEdits
    faults      \* faults so far, at most MaxFaults

vars == <<rows, status, sysInfo, peers, sysPeer, epoch, ntpdUp, main, listed, info,
          queue, sent, exitAsked, mgr, view, txn, edits, faults>>
dbVars == <<rows, status, sysInfo, edits>>
ntpdVars == <<peers, sysPeer, epoch, ntpdUp>>
mainVars == <<main, listed, info, sent, exitAsked>>
mgrVars == <<mgr, view, txn>>

Conditions == {"system_peer", "candidate"}

\* What ntpd says of the association `of': its condition, and (auxiliary) when.
Reading == [of : IPs, cond : Conditions, epoch : 0..MaxEpoch]

\* What the main process sends: readings by IP address, and the totals.
Update(i, e) == [kind |-> "update", info |-> i, epoch |-> e]
Shutdown == [kind |-> "shutdown"]

\* 0: no row; 1: a row of the startup configuration; then one for each edit.
Incarnations == 0..MaxEdits + 1

NoReadings == [x \in IPs |-> None]
NoTxn == [rows |-> [r \in Rows |-> 0], status |-> [r \in Rows |-> None], epoch |-> 0]

Readings == [IPs -> Reading \cup {None}]

Message == {Shutdown} \cup [kind : {"update"}, info : Readings, epoch : 0..MaxEpoch]

Statuses == [Rows -> Reading \cup {None}]

Transaction == [rows : [Rows -> Incarnations], status : Statuses, epoch : 0..MaxEpoch]

\* "boot": not provisioned; "failing": the process is ending on an exception;
\* "failed", "exited": it has ended; "killed": it was ended.
MainStates ==
    {"boot", "idle", "reading", "joining", "exited", "failing", "failed", "killed"}

\* "none": not started; "closed": it has ended; "dead": it was ended.
ManagerStates == {"none", "starting", "get", "commit", "closed", "dead"}

TypeOK ==
    /\ rows \in [Rows -> Incarnations]
    /\ status \in Statuses
    /\ sysInfo \in 0..MaxEpoch
    /\ peers \in SUBSET IPs
    /\ sysPeer \in peers \cup {None}
    /\ epoch \in 0..MaxEpoch
    /\ ntpdUp \in BOOLEAN
    /\ main \in MainStates
    /\ listed \in SUBSET IPs
    /\ info \in Readings
    /\ queue \in Seq(Message)
    /\ Len(queue) <= MaxQueue + 1
    /\ sent \in 0..MaxEpoch
    /\ exitAsked \in BOOLEAN
    /\ mgr \in ManagerStates
    /\ view \in [Rows -> Incarnations]
    /\ txn \in Transaction
    /\ edits \in 0..MaxEdits
    /\ faults \in 0..MaxFaults

\* ops-ntpd waits for the system to be configured.
Init ==
    /\ rows \in [Rows -> {0, 1}]
    /\ status = [r \in Rows |-> None]
    /\ sysInfo = 0
    /\ peers = {}
    /\ sysPeer = None
    /\ epoch = 0
    /\ ntpdUp = FALSE
    /\ main = "boot"
    /\ listed = {}
    /\ info = NoReadings
    /\ queue = <<>>
    /\ sent = 0
    /\ exitAsked = FALSE
    /\ mgr = "none"
    /\ view = [r \in Rows |-> 0]
    /\ txn = NoTxn
    /\ edits = 0
    /\ faults = 0

Fault(kind) ==
    /\ kind \in FaultKinds
    /\ faults < MaxFaults
    /\ faults' = faults + 1

-----------------------------------------------------------------------------
(* The operator and ntpd.                                                  *)

\* A row that is added, again or not, has an incarnation of its own and no
\* status.
AddRow(r) ==
    /\ edits < MaxEdits
    /\ rows[r] = 0
    /\ edits' = edits + 1
    /\ rows' = [rows EXCEPT ![r] = edits + 2]
    /\ status' = [status EXCEPT ![r] = None]
    /\ UNCHANGED <<sysInfo, ntpdVars, mainVars, queue, mgrVars, faults>>

DeleteRow(r) ==
    /\ edits < MaxEdits
    /\ rows[r] # 0
    /\ edits' = edits + 1
    /\ rows' = [rows EXCEPT ![r] = 0]
    /\ status' = [status EXCEPT ![r] = None]
    /\ UNCHANGED <<sysInfo, ntpdVars, mainVars, queue, mgrVars, faults>>

\* ntpd selects its system peer, or none.
SelectPeer(x) ==
    /\ ntpdUp
    /\ epoch < MaxEpoch
    /\ x # sysPeer
    /\ epoch' = epoch + 1
    /\ sysPeer' = x
    /\ UNCHANGED <<dbVars, peers, ntpdUp, mainVars, queue, mgrVars, faults>>

NtpdEnds ==
    /\ Fault("ntpd")
    /\ ntpdUp
    /\ ntpdUp' = FALSE
    /\ UNCHANGED <<dbVars, peers, sysPeer, epoch, mainVars, queue, mgrVars>>

Condition(x) == IF x = sysPeer THEN "system_peer" ELSE "candidate"

-----------------------------------------------------------------------------
(* The main process.                                                       *)

Configured == {Resolve[NameOf[r]] : r \in {s \in Rows : rows[s] # 0}}

\* System:cur_cfg is set: ntpd and the transaction manager are started, and a
\* first pass tells ntpd of the servers.
Provision ==
    /\ main = "boot"
    /\ main' = "idle"
    /\ mgr' = "starting"
    /\ ntpdUp' = TRUE
    /\ peers' = Configured
    /\ UNCHANGED <<dbVars, sysPeer, epoch, listed, info, sent, exitAsked, queue, view, txn,
                   faults>>

\* The main loop goes on while nobody has asked it to exit.
Looping == main = "idle" /\ ~exitAsked

\* Seeded fault: ntpd goes on with a system peer that was removed.
ConfigPassBug ==
    /\ Looping
    /\ peers # Configured
    /\ peers' = Configured
    /\ UNCHANGED <<dbVars, sysPeer, epoch, ntpdUp, mainVars, queue, mgrVars, faults>>

\* A change is pending, and a whole pass of ConfigSync brings ntpd up to date.
ConfigPass ==
    /\ Looping
    /\ peers # Configured
    /\ peers' = Configured
    /\ sysPeer' = IF sysPeer \in Configured THEN sysPeer ELSE None
    /\ UNCHANGED <<dbVars, epoch, ntpdUp, mainVars, queue, mgrVars, faults>>

\* Seeded fault: the queue is bounded, and put blocks when it is full.
RoomToPollBug == Len(queue) < MaxQueue

\* Bound: a poll begins while the queue has room, unless its reader is dead.  The
\* code's queue has none.
RoomToPoll == mgr = "dead" \/ Len(queue) < MaxQueue

\* ntpq apeers, which names the associations in `found'.
BeginPoll(found) ==
    /\ Looping
    /\ peers = Configured
    /\ RoomToPoll
    /\ main' = "reading"
    /\ listed' = found
    /\ UNCHANGED <<dbVars, ntpdVars, info, queue, sent, exitAsked, mgrVars>>

\* Without ntpd the list is empty.
ListPeers ==
    /\ BeginPoll(IF ntpdUp THEN peers ELSE {})
    /\ UNCHANGED faults

\* So it is if apeers gets no answer in time: only the totals will be sent.
ListTimesOut ==
    /\ Fault("query")
    /\ ntpdUp
    /\ BeginPoll({})

\* ntpq rv of one association.
ReadPeer(x) ==
    /\ main = "reading"
    /\ x \in listed
    /\ ntpdUp
    /\ listed' = listed \ {x}
    /\ info' = [info EXCEPT ![x] = [of |-> x, cond |-> Condition(x), epoch |-> epoch]]
    /\ UNCHANGED <<dbVars, ntpdVars, main, queue, sent, exitAsked, mgrVars, faults>>

\* Seeded fault: the newest result goes to the head of the queue.
PutBug(u) == IF mgr = "dead" /\ Len(queue) >= MaxQueue THEN queue ELSE <<u>> \o queue

\* transaction_queue.put.  Without a reader the queue grows: MaxQueue bounds that,
\* and what is beyond is left out.
Put(u) == IF mgr = "dead" /\ Len(queue) >= MaxQueue THEN queue ELSE Append(queue, u)

\* ntpq sysstats; the result goes to the transaction manager.
SendUpdate ==
    /\ main = "reading"
    /\ listed = {}
    /\ ntpdUp
    /\ queue' = Put(Update(info, epoch))
    /\ sent' = epoch
    /\ main' = "idle"
    /\ info' = NoReadings
    /\ UNCHANGED <<dbVars, ntpdVars, listed, exitAsked, mgrVars, faults>>

\* An exception drops all that was read: ops_ntpd_sync_updates_to_ovsdb catches
\* any, warns and goes on.
DropSnapshot ==
    /\ main = "reading"
    /\ main' = "idle"
    /\ listed' = {}
    /\ info' = NoReadings
    /\ UNCHANGED <<dbVars, ntpdVars, queue, sent, exitAsked, mgrVars>>

\* There is no ntpd to answer.
DropUpdate ==
    /\ DropSnapshot
    /\ ~ntpdUp
    /\ UNCHANGED faults

\* Seeded fault: the exception is not caught and leaves the main loop.
QueryFailsBug ==
    /\ Fault("query")
    /\ main = "reading"
    /\ ntpdUp
    /\ main' = "failing"
    /\ UNCHANGED <<dbVars, ntpdVars, listed, info, queue, sent, exitAsked, mgrVars>>

\* ntpd runs, but an rv or sysstats gets no answer in time, or an answer lacks a
\* field or has a value the translation tables do not know.
QueryFails ==
    /\ Fault("query")
    /\ DropSnapshot
    /\ ntpdUp

\* ovs-appctl exit: the request waits for the main loop, or for ever.
AskExit ==
    /\ ~exitAsked
    /\ main \notin {"exited", "failed", "killed"}
    /\ exitAsked' = TRUE
    /\ UNCHANGED <<dbVars, ntpdVars, main, listed, info, sent, queue, mgrVars, faults>>

\* Seeded fault: the pill overtakes the results.
ExitBug ==
    /\ main = "idle"
    /\ exitAsked
    /\ main' = "joining"
    /\ queue' = <<Shutdown>> \o queue
    /\ UNCHANGED <<dbVars, ntpdVars, listed, info, sent, exitAsked, mgrVars, faults>>

\* The loop ends: the poison pill goes behind the results, and the main process
\* waits for the transaction manager.
Exit ==
    /\ main = "idle"
    /\ exitAsked
    /\ main' = "joining"
    /\ queue' = Append(queue, Shutdown)
    /\ UNCHANGED <<dbVars, ntpdVars, listed, info, sent, exitAsked, mgrVars, faults>>

\* Seeded fault: the join waits for the manager's own end only.
JoinManagerBug ==
    /\ main = "joining"
    /\ mgr = "closed"
    /\ main' = "exited"
    /\ UNCHANGED <<dbVars, ntpdVars, listed, info, sent, exitAsked, queue, mgrVars, faults>>

\* The manager is joined, however it ended; the feeder thread of the queue does
\* not wait for a reader that is gone.
JoinManager ==
    /\ main = "joining"
    /\ mgr \in {"closed", "dead"}
    /\ main' = "exited"
    /\ UNCHANGED <<dbVars, ntpdVars, listed, info, sent, exitAsked, queue, mgrVars, faults>>

\* An exception leaves the main loop: the keys file cannot be written, or the
\* process that the clean-up is to kill has ended.
MainRaises ==
    /\ Fault("exception")
    /\ main = "idle"
    /\ main' = "failing"
    /\ UNCHANGED <<dbVars, ntpdVars, listed, info, sent, exitAsked, queue, mgrVars>>

\* sys.exit: before the process ends multiprocessing joins the manager, to
\* which nothing more is sent.
MainEnds ==
    /\ main = "failing"
    /\ mgr \in {"closed", "dead"}
    /\ main' = "failed"
    /\ UNCHANGED <<dbVars, ntpdVars, listed, info, sent, exitAsked, queue, mgrVars, faults>>

\* A signal ends the main process, wherever it is.  What the queue's feeder thread
\* had not written yet is lost.  The manager is a process of its own: it is not
\* told, and as it holds the writing end of the queue too it sees no end of file.
MainKilled ==
    /\ Fault("kill")
    /\ main \in {"idle", "reading", "joining", "failing"}
    /\ main' = "killed"
    /\ listed' = {}
    /\ info' = NoReadings
    /\ \E n \in 0..Len(queue) : queue' = SubSeq(queue, 1, n)
    /\ UNCHANGED <<dbVars, ntpdVars, sent, exitAsked, mgrVars>>

Main ==
    \/ ConfigPass \/ ListPeers \/ SendUpdate \/ DropUpdate
    \/ Exit \/ JoinManager \/ MainEnds
    \/ \E x \in IPs : ReadPeer(x)

-----------------------------------------------------------------------------
(* The transaction manager.                                                *)

\* NTPTransactionMgr.__init__: its replica is filled.
Connect ==
    /\ mgr = "starting"
    /\ mgr' = "get"
    /\ view' = rows
    /\ UNCHANGED <<dbVars, ntpdVars, mainVars, queue, txn, faults>>

\* Seeded fault: whether a row was found (row_found) is not looked at.
RowsAtBug(x) ==
    LET at == {r \in Rows : view[r] # 0 /\ NameOf[r] = x}
    IN  IF at # {} THEN at ELSE {r \in Rows : view[r] # 0}

\* find_row_by_ip_addr: one row with address x in the replica, if there is any.
RowsAt(x) == {r \in Rows : view[r] # 0 /\ NameOf[r] = x}

\* update_info up to the commit: the rows to set, as the replica has them.
TakeUpdate ==
    /\ mgr = "get"
    /\ queue # <<>>
    /\ Head(queue).kind = "update"
    /\ queue' = Tail(queue)
    /\ mgr' = "commit"
    /\ LET u == Head(queue)
           Found == {x \in IPs : u.info[x] # None /\ RowsAt(x) # {}}
       IN  \E row \in [Found -> Rows] :
              /\ \A x \in Found : row[x] \in RowsAt(x)
              /\ LET For(r) == {x \in Found : row[x] = r}
                 IN  txn' = [ rows   |-> [r \in Rows |-> IF For(r) = {} THEN 0 ELSE view[r]],
                              status |-> [r \in Rows |->
                                           IF For(r) = {} THEN None
                                           ELSE u.info[CHOOSE x \in For(r) : TRUE]],
                              epoch  |-> u.epoch ]
    /\ UNCHANGED <<dbVars, ntpdVars, mainVars, view, faults>>

\* The status column after the transaction: rows that are gone, or are others by
\* now, are not touched.
StatusAfter ==
    [r \in Rows |-> IF txn.rows[r] # 0 /\ txn.rows[r] = rows[r] THEN txn.status[r]
                                                               ELSE status[r]]

\* Seeded fault: System is not written with the rows.
CommitBug ==
    /\ mgr = "commit"
    /\ mgr' = "get"
    /\ status' = StatusAfter
    /\ view' = rows
    /\ txn' = NoTxn
    /\ UNCHANGED <<rows, sysInfo, edits, ntpdVars, mainVars, queue, faults>>

\* commit_block: one transaction for the rows and System; the replica catches up.
Commit ==
    /\ mgr = "commit"
    /\ mgr' = "get"
    /\ status' = StatusAfter
    /\ sysInfo' = txn.epoch
    /\ view' = rows
    /\ txn' = NoTxn
    /\ UNCHANGED <<rows, edits, ntpdVars, mainVars, queue, faults>>

\* Seeded fault: a failed transaction ends the manager.
CommitFailsBug ==
    /\ Fault("commit")
    /\ mgr = "commit"
    /\ mgr' = "closed"
    /\ view' = rows
    /\ txn' = NoTxn
    /\ UNCHANGED <<dbVars, ntpdVars, mainVars, queue>>

\* A transaction that does not succeed is logged and given up.
CommitFails ==
    /\ Fault("commit")
    /\ mgr = "commit"
    /\ mgr' = "get"
    /\ view' = rows
    /\ txn' = NoTxn
    /\ UNCHANGED <<dbVars, ntpdVars, mainVars, queue>>

TakeShutdown ==
    /\ mgr = "get"
    /\ queue # <<>>
    /\ Head(queue).kind = "shutdown"
    /\ queue' = Tail(queue)
    /\ mgr' = "closed"
    /\ UNCHANGED <<dbVars, ntpdVars, mainVars, view, txn, faults>>

\* The manager is killed or raises an exception.  Nothing watches it; what was
\* in the queue stays there.
ManagerDies ==
    /\ Fault("manager")
    /\ mgr \in {"starting", "get", "commit"}
    /\ mgr' = "dead"
    /\ txn' = NoTxn
    /\ UNCHANGED <<dbVars, ntpdVars, mainVars, queue, view>>

Manager == Connect \/ TakeUpdate \/ Commit \/ TakeShutdown

-----------------------------------------------------------------------------

Next ==
    \/ \E r \in Rows : AddRow(r) \/ DeleteRow(r)
    \/ \E x \in peers \cup {None} : SelectPeer(x)
    \/ Provision \/ AskExit
    \/ NtpdEnds \/ ListTimesOut \/ QueryFails \/ CommitFails
    \/ ManagerDies \/ MainRaises \/ MainKilled
    \/ Main \/ Manager

\* Both processes loop for ever, the manager also when it is alone; ntpq and
\* commit_block return.  The operator, whoever configures the system, ntpd's
\* choices and the faults owe nothing.
Spec == Init /\ [][Next]_vars /\ WF_vars(Main) /\ WF_vars(Manager)

-----------------------------------------------------------------------------
(* What vtysh shows of it.                                                 *)

\* vtysh_ovsdb_show_ntp_associations: the mark before a row; a row that has no
\* status has none.
Mark(cond) == CASE cond = "system_peer" -> "*" [] cond = "candidate" -> "+"

ShowMark(r) == IF status[r] = None THEN " " ELSE Mark(status[r].cond)

\* vtysh_ovsdb_show_ntp_status: the servers it says ntpd is synchronized to.
ShowSynchronized ==
    {NameOf[r] : r \in {s \in Rows : rows[s] # 0 /\ ShowMark(s) = "*"}}

\* vtysh_ovsdb_show_ntp_statistics, and the uptime.
ShowStatistics == sysInfo

-----------------------------------------------------------------------------
(* Properties.                                                             *)

\* OVSDB never goes back in time: no older result overwrites a newer one, in
\* System or in a row that stays (one queue, one consumer, one commit at a time).
NeverBackwards ==
    [][/\ sysInfo' >= sysInfo
       /\ \A r \in Rows :
             rows'[r] = rows[r] /\ status[r] # None =>
                 status'[r] # None /\ status'[r].epoch >= status[r].epoch]_vars

\* A row shows what ntpd said of its own server, never of another, though rows
\* come and go between the reading, the lookup and the commit
\* (update_row_in_ntp_association_table).
StatusIsOfItsServer == \A r \in Rows : status[r] # None => status[r].of = NameOf[r]

\* The rows and System are written by one transaction (update_info): no row
\* tells of a later ntpd than System does.
RowsNotAheadOfSystem ==
    \A r \in Rows : status[r] # None => status[r].epoch <= sysInfo

\* ops_ntpd_shutdown_transaction_mgr: when the main process has ended, the
\* manager has ended before it and all that was sent is in OVSDB, unless there
\* was a fault.
ExitDrains ==
    main = "exited" =>
        \/ mgr = "closed" /\ queue = <<>> /\ (faults = 0 => sysInfo = sent)
        \/ mgr = "dead"

\* Status comes from an ntpd that runs, by a main process that polls and a
\* manager that lives.
Stopped ==
    exitAsked \/ main \in {"boot", "failing", "killed"} \/ mgr = "dead" \/ ~ntpdUp

\* The whole of it: System and the rows are a feed of what ntpd was in, published
\* as one, in order, that gets past every epoch of ntpd.
Feed == INSTANCE StatusFeed WITH
            Epochs <- 0..MaxEpoch,
            shown <- ShowStatistics,
            told <- [r \in Rows |-> IF status[r] = None THEN None ELSE status[r].epoch],
            live <- ~Stopped

ImplementsFeed == Feed!Spec

\* The exit command, whenever it is given to a provisioned ops-ntpd, ends both
\* processes unless the main process is killed first: neither waits for the other
\* for ever, and an ntpd or a manager that is dead holds nothing up.
ExitCompletes ==
    exitAsked /\ main # "boot" ~>
        main = "killed" \/ (main = "exited" /\ mgr \in {"closed", "dead"})

\* The poll goes round until ops-ntpd is asked to exit or killed (main loop of
\* ops_ntpd_init): an ntpd that is gone or does not answer, a failed commit or a
\* dead manager does not stop it, and no configuration pass waits for it.
PollsGoOn == []<>(main \in {"reading", "boot", "killed"} \/ exitAsked)

\* sys.exit(ovs.daemon.RESTART_EXIT_CODE): an exception in the main loop ends the
\* process, for whoever watches it to start it again.
FailureEnds == main = "failing" ~> main = "failed"

\* What the show commands say of the rows in S, and of ntpd, is so.
ShowsNtpd(S) ==
    /\ \A r \in S : rows[r] # 0 => ShowMark(r) = Mark(Condition(Resolve[NameOf[r]]))
    /\ {NameOf[r] : r \in {s \in S : rows[s] # 0 /\ Resolve[NameOf[s]] = sysPeer}}
         \subseteq ShowSynchronized
    /\ ShowSynchronized \subseteq {n \in IPs \cup FQDNs : Resolve[n] = sysPeer}
    /\ ShowStatistics = epoch

\* While ops-ntpd and ntpd run and nothing changes, the show commands come to
\* tell of ntpd as it is, the rows that name their server by IP address
\* included, even when a snapshot was torn by a selection between two rv queries,
\* dropped because a query failed, or lost with a commit that failed.
EventuallyFresh ==
    <>[](Stopped \/ ShowsNtpd({r \in Rows : NameOf[r] \in IPs}))

\* DESIGN.md:118: if an FQDN is configured the status shows the IP address of
\* the server, so such a row has a status in the end.
FqdnRowsFresh ==
    <>[](Stopped \/ ShowsNtpd({r \in Rows : NameOf[r] \in FQDNs}))

-----------------------------------------------------------------------------
(* The inductive invariant.                                                *)

\* Before the system is provisioned there is no ntpd and no manager.
NothingInBoot ==
    /\ main = "boot" => ~ntpdUp /\ sysPeer = None
    /\ main = "boot" <=> mgr = "none"

\* The main process sends the poison pill last, and waits until it is taken.
PillIsLast ==
    /\ \A i \in 1..Len(queue) :
          queue[i] = Shutdown =>
              i = Len(queue) /\ main \in {"joining", "exited", "killed"}
    /\ main = "joining" =>
          mgr \in {"closed", "dead"} \/ (queue # <<>> /\ queue[Len(queue)] = Shutdown)
    /\ mgr = "closed" => queue = <<>> /\ main \in {"joining", "exited", "killed"}
    /\ main \in {"exited", "failed"} => mgr \in {"closed", "dead"}
    /\ mgr = "dead" \/ main = "killed" => faults # 0

\* The main process polls only if there is room for the result.
RoomForResult ==
    /\ main \notin {"joining", "exited", "killed"} => Len(queue) <= MaxQueue
    /\ main = "reading" /\ mgr # "dead" => Len(queue) < MaxQueue

\* What was read for x is of x and was read when ntpd was in lo..hi.
Within(i, lo, hi) ==
    \A x \in IPs : i[x] # None => i[x].of = x /\ lo <= i[x].epoch /\ i[x].epoch <= hi

\* Along the way from ntpd to OVSDB nothing is older than what is before it: the
\* readings under way came after the last result was sent,
ReadingsInOrder == sent <= epoch /\ Within(info, sent, epoch)

\* the results in the queue came one after the other,
Updates(q) == {i \in 1..Len(q) : q[i] # Shutdown}

InOrder(q, lo, hi) ==
    /\ \A i \in Updates(q) :
          /\ lo <= q[i].epoch /\ q[i].epoch <= hi
          /\ Within(q[i].info, lo, q[i].epoch)
    /\ \A i, j \in Updates(q) : i < j =>
          /\ q[i].epoch <= q[j].epoch
          /\ Within(q[j].info, q[i].epoch, q[j].epoch)

Taken == IF mgr = "commit" THEN txn.epoch ELSE sysInfo

QueueInOrder == InOrder(queue, Taken, sent)

\* and so did the transaction and what is in OVSDB.
TxnInOrder ==
    mgr = "commit" =>
        /\ sysInfo <= txn.epoch /\ txn.epoch <= sent
        /\ \A r \in Rows : txn.rows[r] # 0 =>
              /\ txn.status[r] # None
              /\ txn.status[r].of = NameOf[r]
              /\ sysInfo <= txn.status[r].epoch /\ txn.status[r].epoch <= txn.epoch

StatusInOrder ==
    /\ sysInfo <= sent
    /\ RowsNotAheadOfSystem
    /\ StatusIsOfItsServer

\* Without a fault the last result sent is in the queue, taken or in OVSDB.
LastNotLost ==
    faults = 0 => Taken = sent \/ \E i \in Updates(queue) : queue[i].epoch = sent

\* At every step what is between ntpd and OVSDB is in the order in which ntpd
\* said it, up to the pill, and nothing of it is lost without a fault.
StatusInv ==
    /\ NothingInBoot /\ PillIsLast /\ RoomForResult
    /\ ReadingsInOrder /\ QueueInOrder /\ TxnInOrder /\ StatusInOrder
    /\ LastNotLost

=============================================================================
