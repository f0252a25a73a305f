# ops-ntpd: a TLA+ verification project

ops-ntpd is the NTP client of OpenSwitch. The operator's configuration and
what the operator sees of the NTP servers both live in OVSDB; the classic
`ntpd`, a process of its own, does the work. Between the two stands
`ops_ntpd.py`, which carries configuration one way and status the other.
This directory models that program, checks the models with TLC on small
instances and proves their safety properties with TLAPS for all instances.

References of the form `file:line` are to the repository.

## 1. Inventory

| component | state it keeps | operations | talks to |
|---|---|---|---|
| main process of ops-ntpd (`ops_ntpd.py`) | IDL replica and `seqno`; `g_ntpa_map`, `g_ntpk_db`, `auth_state` (what it takes ntpd to have); keys file; control key answer | wait for `System:cur_cfg`; provision; configuration pass; status pass; exit | OVSDB (replica), ntpd (`ntpq`, `ntpdc`, keys file), manager (queue) |
| transaction manager (`ops_ntpd_sync_to_ovsdb.py`), a process | a second replica | take a result from the queue, find rows by address, commit rows and System together; end at "shutdown", or be killed | main process, OVSDB |
| ntpd (external) | associations by address, keys, trusted keys, the selected peer | `unconfig`, `server`, `trustedkey`, `unconfig trustedkey`, `readkeys`, queries | ntpq, ntpdc |
| CLI (`src/cli/ntp_vty.c`) | one replica per vtysh session | `ntp server`, `ntp authentication enable`, `ntp authentication-key`, `ntp trusted-key`, their `no` forms; `show ntp` status, associations, statistics, trusted-keys, authentication-keys | OVSDB |
| running configuration (`vtysh_ovsdb_ntp_context.c`) | none | prints the commands that give the configuration back | OVSDB |
| REST validator, packaging, diagnostics dump, event log | none | - | - |

What is hard in it:

* The daemon never asks ntpd what it has. It keeps maps of what it *should*
  have, updates them before the first command is sent, and drops the results
  of the commands. Everything rests on the maps never being wrong.
* A pass takes seconds (`time.sleep(2)` between `readkeys` and `ntpq`), in
  which the operator goes on editing.
* The commands of a pass depend on their order: ntpd leaves a server it has
  as it is, so a change is `unconfig` and then `server`; a key has to be in the
  file before it is trusted.
* ntpd's life is not tied to the daemon's: it may end before it or survive it.
* Status is read one association at a time from an ntpd that goes on, and is
  written by another process with an older view of the tables.
* A query may get no answer, or one that cannot be read, while ntpd runs: the
  exception drops the whole snapshot, and the loop has to survive it.
* The main process joins the manager, which waits on a queue, so neither may wait
  for the other for ever; but either may be killed first, and nothing watches.
* CLI sessions check their commands against replicas and race.
* The loops that read the tables keep their variables from row to row.

What makes each part correct: the configuration in ntpd is the one in OVSDB
whenever the daemon rests, and gets there if the edits stop (main process);
status never goes back in time, is its own server's, is whole and in the end
fresh, the polls go on whatever fails, and the exit neither loses results nor
hangs (status); stored rows satisfy what the daemon counts on, limits hold as
far as sessions that race allow, the running configuration is faithful, and what
is shown is what is used (CLI).

`PROJECT.json` lists the hazards one by one, each at its line, with the
properties that cover it or the reason why none does.

## 2. Modules

| module | models | EXTENDS / instantiates |
|---|---|---|
| `NtpConfig` | the tables as the daemon reads them, the transactions on them, and the pure part of a pass: which commands follow from the old and the new maps | - |
| `ConfigSync` | operator, daemon, ntpd: configuration from OVSDB to ntpd | extends `NtpConfig`, instantiates `NtpReplica` |
| `NtpReplica` | abstract: what the operator is promised of the servers | - |
| `ConfigSync_proofs` | theorems about `ConfigSync` | extends `ConfigSync`, `TLAPS` |
| `StatusSync` | ntpd, main process, queue, manager, from boot to exit: status from ntpd to OVSDB and to the show commands | instantiates `StatusFeed` |
| `StatusFeed` | abstract: what the status in OVSDB is promised to be | - |
| `StatusSync_proofs` | theorems about `StatusSync` | extends `StatusSync`, `TLAPS` |
| `NtpCli` | CLI sessions, the running configuration, the configuration shown, and how the daemon's loops read what was stored | instantiates `NtpConfig` |
| `NtpCli_proofs` | theorems about `NtpCli`: what sessions store | extends `NtpCli`, `TLAPS` |
| `LoopTheorems` | lemmas: induction on the rounds of a loop, runs of a loop | extends `TLAPS` |
| `NtpCliLoops_proofs` | theorems about the loops of `NtpCli`: what the daemon reads, what is shown, what the running configuration restores | extends `NtpCli_proofs`, `LoopTheorems` |
| `MCConfigSync`, `MCStatusSync`, `MCNtpCli` | values of the constants for TLC | extend the above |

### How ConfigSync corresponds to the code

`db` and `configured` are OVSDB, `idl` and `changed` the daemon's replica and
whether `idl.change_seqno` will differ from `seqno`. `pc` is where the daemon is:

| pc | code | actions that leave it |
|---|---|---|
| boot | `while ntpd_started is False` (`ops_ntpd.py:939`) | `AwaitConfig` (not configured: stays), `Provision` |
| check | `ops_ntpd_check_updates_from_ovsdb` up to the first command | `CheckUpdates` |
| readkeys | the keys file is written, `ntpdc readkeys` runs | `ReadKeys` |
| ntpq | `ntpq` runs the batch | `NtpqRevise`, `NtpqUnconfig`, `NtpqServer`, `NtpqUntrust`, `NtpqTrust`, `NtpqDone` |
| loop | the main loop, idle | `RunIdl` |

`CheckUpdates` is one step because it touches nothing another actor sees but
the keys file, which only `ntpdc` reads, later. Each ntpq command is a step of
its own: the operator edits and ntpd dies between any two of them. `unconfig`
and `server` of a revision are one step, as nothing but ntpd's end can come
between them, which leaves the same state either way. A list of commands is a
set of indices: the code builds it from Python dictionaries and sets, whose
order is arbitrary, so any order within a list is allowed, and the lists follow
each other in the order of the code. Options that are only copied (version,
prefer, reference clock) are one value. The control key answer is one bit: ntpd
knows the answer of the daemon now running, or not.

ntpd is external: `server` for an address ntpd has does nothing, `unconfig`
removes by address, `readkeys` replaces the keys and leaves the trusted set,
the two `trustedkey` commands add and remove. This is what the daemon's
construction of its batches presupposes.

Faults: a command that fails (`"command"`), ntpd ending (`"ntpd"`), the daemon
ending and starting again while ntpd goes on (`"restart"`). The auxiliary
variable `lost` records that ntpd or a command failed the daemon.

### How StatusSync corresponds to the code

`main` is where the main process is and `mgr` where the manager is:

| main | code | actions that leave it |
|---|---|---|
| boot | `while ntpd_started is False` | `Provision` starts ntpd and the manager and sends the first configuration |
| idle | top of the main loop | `ConfigPass`, `ListPeers`, `ListTimesOut`, `Exit`, `MainRaises` |
| reading | `ops_ntpd_sync_updates_to_ovsdb` | `ReadPeer` (one `rv`), `SendUpdate` (totals, then the queue), `DropUpdate`, `QueryFails` |
| joining | `ops_ntpd_shutdown_transaction_mgr` | `JoinManager` |
| failing | `sys.exit` after an exception, `ops_ntpd.py:982` | `MainEnds` |
| exited, failed | the process is gone | - |
| killed | a signal ended it, in any state but boot (`MainKilled`) | - |

| mgr | code | actions that leave it |
|---|---|---|
| starting | `NTPTransactionMgr.__init__` | `Connect` |
| get | `queue.get()` | `TakeUpdate` (lookup in its replica `view`), `TakeShutdown` |
| commit | before `commit_block` | `Commit`, `CommitFails` |
| closed, dead | ended by itself; killed, or by an exception (`ManagerDies`) | - |

`AskExit` is `ovs-appctl exit`, at any time; the main loop looks at it only at
its top, so a poll that has begun is finished first, and in boot nothing looks
at it. A configuration pass is one step here (`ConfigPass`): `ConfigSync` is
about its inside.

The code drops a snapshot as a whole: an exception between `ops_ntpd.py:502` and
`:510` is caught at `:511`, and what was read by then is gone (`DropSnapshot`).
It is raised if there is no ntpd (`DropUpdate`), and with an ntpd that runs if
an `rv` or `sysstats` gets no answer in time, lacks a field or has a value the
translation tables do not know (`QueryFails`, at any point of the poll). An
`apeers` without an answer raises nothing: it lists no association, and the
totals go out alone (`ListTimesOut`).

`MainRaises` is an exception that leaves the main loop (the keys file cannot be
written, the process to kill is gone). The process does not end at once:
`multiprocessing` joins its children at exit, and the manager waits for a
message that nobody will send. `ManagerDies` goes unnoticed; results pile up.
The exit is not held up by them: the main process closes its reading end of the
queue before it joins the feeder thread, which then cannot write and ends.
The queue of the code has no bound: `MaxQueue` bounds it, by holding back the
polls while the manager lives (`RoomToPoll`) and by leaving out what exceeds it
when there is no reader any more (`Put`).

`MainKilled` is a signal the main process does not survive. What its feeder
thread had not written is lost, so any first part of the queue is left. The
manager is not told, and holds the writing end of the queue itself: it commits
what has reached it and then waits in `queue.get()` for ever. That status stays in
order and is its own server's (`NeverBackwards`, `RowsNotAheadOfSystem`,
`StatusIsOfItsServer`) is checked and proved through all that.

Rows have incarnations, their `_uuid`: a row that is deleted and added again is
another row, and a commit that writes a row that is gone does nothing. A reading
is a condition and two things the code does not store, which let the properties
tell right from wrong: the association it is `of`, and the `epoch`, the number
of selections ntpd had made by then. System holds the epoch of the totals. A
status of None is a row before its first result, which vtysh shows as "-".
`ShowMark`, `ShowSynchronized` and `ShowStatistics` are what the show commands
make of these columns.

`StatusFeed` says what all of this comes to: System and the rows tell of an
epoch of ntpd each, they are published in one step, no row is ahead of System,
nothing goes back, and System gets past every epoch of ntpd while the parts
live. `ImplementsFeed` is the refinement; queue, processes and replicas are
hidden by it.

### How NtpCli corresponds to the code

An insert of a row that is there fails in OVSDB (`RowAfter`). The schema, which is
not in the repository, is taken to have the indexes this needs: the key id of
NTP_Key, the VRF and address of NTP_Association.

Each session has a replica, against which a command is checked (`AuthEnable`,
`AuthKey`, `NoAuthKey`, `TrustedKey`, `Server`, `NoServer`, each returning the
transaction or None; `GetAuthKey` and `GetAssoc` are the lookups they share),
and a transaction on its way (`pending`), which OVSDB applies later (`Commit`).
A password is its length, a name has a length and two flags (digits and
punctuation only; a host address). `Restored` runs the lines of the running
configuration as commands on an empty database: first those the loop over the
keys prints (`RestoreKeys`), then those of the servers (`RestoreServers`).
`ShowAuthentication`,
`ShowTrustedKeys`, `ShowAuthenticationKeys` and `ShowAssociations` are what the
show commands print of the configuration.

A loop over the rows of a table is a `Loop`: one round for each row, each on what
the round before has left, in an order that is one of `Orders`. The daemon's
order is that of a Python dictionary, vtysh's that of its replica, so the
properties are about all of them.

`ReadKeys` and `ReadServers` are the loops of `ops_ntpd.py:674-716` as they are
written: their local variables (`Unbound` at first) are assigned only if a
column holds something Python takes for true, and so keep the value of the row
before if it does not. `DaemonReadsWhatIsStored` says that for the tables the
CLI can store they give what `NtpConfig` takes them to give; a key with id 0
would break it, which is why key ids start at 1.

`EditsAsModelled` ties this module to `ConfigSync`: whatever sessions do, each
of their transactions is one of the edits `ConfigSync` allows the operator.

Operators whose name ends in `Bug` stand next to the definition they vary and
are used by no specification. Each is a slip one could make in that piece of
code, and each property of a passing run is violated when the one `PROJECT.json`
names for it takes the place of the original: the property is able to fail.

## 3. Runs

| run | instance | shows |
|---|---|---|
| config_safety | 2 servers, 1 key, 2 passwords, 2 edits, 2 faults of any kind | `TypeOK`; `InSync`; `TrustedKeysLoaded`; `RemovedOnlyToReplace`; the inductive invariant `ConfigInv` |
| config_delivery | the same with 1 password, no faults, fairness | `ImplementsReplica`: the servers refine `NtpReplica`; `ServersDelivered`; `EventuallyInSync` |
| config_lost_command | 1 edit, 1 failing command | finding: `EventuallyInSync` fails, a command is never sent again |
| config_zombie | 1 restart | finding: `ProvisionedNtpdObeys` fails, the old ntpd is not found by the clean-up |
| config_auth | no fault | finding: `OnlyAuthenticatedServers` fails, servers without a key are used |
| status_safety | 2 rows, 2 edits, 1 selection, queue of 2, 2 faults of any kind | `TypeOK`, `RowsNotAheadOfSystem`, `StatusIsOfItsServer`, `NeverBackwards`, `ExitDrains`; the inductive invariant `StatusInv` |
| status_live | 2 rows, 1 edit, 2 selections, queue of 1, 1 fault (ntpd ends, a query or a commit fails, the manager dies) | `EventuallyFresh`, `PollsGoOn`, `ExitCompletes`, `ImplementsFeed` |
| status_fqdn | one row with an FQDN | finding: `FqdnRowsFresh` fails |
| status_exception | 2 rows, 1 exception | finding: `FailureEnds` fails, the process hangs |
| cli_sessions | 2 sessions, 4 commands, 5 names, 4 key ids, a limit of 1 | `TypeOK`, `StoredIsSane`, `DaemonReadsWhatIsStored`, `ShownIsUsed`, `OvershootBounded`, `RunningConfigRestores`, `EditsAsModelled`; the inductive invariant `CliInv` |
| cli_limit | 2 sessions, a limit of 2 | finding: `AtMostMaxServers` fails |
| cli_running_config | 1 session | finding: `RunningConfigKeepsAuth` fails |

Why the bounds are enough. A batch's commands for one server concern its address
only; two servers are what is needed for one to be changed while another stays,
and a key that both refer to, or neither. The initial database is any
configuration, so two edits reach every pair of successive configurations that
differ in two transactions, at every point of a pass; what a third edit adds is
another pass from a state that the invariant describes. Two faults cover a
restart together with a lost command or an ntpd that ends. The proofs drop all
of these bounds for the properties they are about. In StatusSync one selection
between two queries tears a snapshot and tells an older result from a newer one,
and a second one, in status_live, follows it while the first is on its way; two
edits delete a row and add it again while a result for the old one waits. Two
faults are an exception in one process with the death of the other, or either
with a lost snapshot, commit or ntpd, at every point of both. A queue of one
still has the main process ahead of the manager by two results, one waiting and
one being committed. In NtpCli four commands allow a key to be deleted and made
again while a server that refers to it is on its way, and one server more than
the limit for each session; the inputs lie on both sides of the limits in the
code (key ids 0, 1, 65534, 65535; lengths 7, 8, 17; versions 3 and 5; names of
57 and 58 characters; an address of no host). So that two sessions with two keys
and three servers stay within TLC's reach, the only version it stores is 3, the
default; that 4 is kept, read, shown and restored like it, whatever the row
before, is in `StoredSane`, `RowsRead`, `ShowTellsTheTruth` and
`RunningConfigIsFaithful`.

CHECK_DEADLOCK is FALSE throughout: with the edits used up the daemon rests
with nothing to do, and in the other modules the bounded actors stop.

### Fairness

`ConfigSync`: weak fairness of `Daemon`, the whole process. Its loop
never blocks for another actor: `ntpq` and `ntpdc` end (they time out when ntpd
is not there, which counts as a failed command), and the loop goes round every
two seconds. Nothing is assumed of the operator, of `cfgd` (hence
`~configured` in `EventuallyInSync`) or of faults.

`StatusSync`: weak fairness of the main process and of the manager, each a
sequential loop on its own, the manager also when it has lost its parent; `Exit`
is a step of the main loop and so is fair, once asked for. This takes `ntpq` and
`commit_block` to return, which they do with an answer or an error. Without an
ntpd a poll is always dropped, so `DropUpdate` is fair; with one a query answers
but for the faults, which are bounded: `EventuallyFresh` says that each of them
is made good for. `AskExit`, `Provision`, the operator, ntpd's selections and
the faults owe nothing.

## 4. What is proved

Everything in this section holds for every value of the constants that the named
assumptions allow: any set of servers, keys, sessions and inputs, any limit, and
any value of the bounds that keep TLC's instances finite.

### Configuration (`ConfigSync_proofs`)

* `TypeCorrect`: `Spec => []TypeOK`.
* `Invariance`: if every row has an address of its own, `Spec => []ConfigInv`.
* `Synchronised`: under the same condition, `Spec => []InSync`.
* `TrustIsLoaded`: likewise `Spec => []TrustedKeysLoaded`.
* `WantedServersStay`: likewise `Spec => RemovedOnlyToReplace`, an action
  property. It needs one fact more than `ConfigInv`, `GoneIsEmpty`: an ntpd that
  ended has no servers, so that starting one takes none away.
* `ReplicaSteps`, `ReplicaImplemented`: the refinement of `NtpReplica`.

The assumptions are the named ones of `NtpConfig` and `ConfigSync` (the values
that stand for "no row" and "no key" are not rows and keys; bounds are naturals)
and `DistinctAddresses`, which is not an ASSUME because nothing in the daemon
sees to it: `unconfig` names an address and not a VRF, so two rows with one
address in two VRFs would share one server of ntpd, and taking one away would
take it from the other. The CLI stores rows of one VRF only.

`InSync` speaks of the daemon at rest and is not inductive. `ConfigInv` says what
holds in between, along the way the configuration takes:

    database --ReplicaFresh--> idl --CachesRead--> maps and file
             --ServersOwed, KeysOwed--> ntpd, up to what BatchSound owes

At rest the batch is empty, so ntpd equals the maps, the maps equal the replica,
and without a change the replica equals the database. The heart of the proof is
`ServersOwed`: a server of ntpd is the one in the map, or is absent and a
`server` command for it waits, or an `unconfig` for it waits. Computing a batch
establishes it (`CheckKeepsConfigInv`), each command keeps it
(`ReviseKeepsConfigInv`, `UnconfigKeepsConfigInv`, `ServerKeepsConfigInv`), with
`PeersApart` to say that a command for one address leaves the others alone; that
is where `DistinctAddresses` is used.

`NtpReplica` promises that ntpd only ever moves, one server at a time, towards
what the daemon last fetched. A fault breaks the promise (that is a finding,
section 5), so `ReplicaSteps` is about the behaviour up to the first one:
`Spec => Replica!Init /\ [][faults' = 0 => Replica!Next]_Replica!vars`, and
`ReplicaImplemented` draws `Spec => ImplementsReplica` from it for an instance
that allows none. The steps need `ConfigInv`, `GoneIsEmpty`, and `NoFaultYet`:
without a fault nothing is lost, and ntpd runs from the provisioning on.
`ReplicaCommands` is the case of the five ntpq commands.

### Status (`StatusSync_proofs`)

* `TypeCorrect`, `Invariance`: `Spec => []TypeOK` and `Spec => []StatusInv`.
* `RowsFollowSystem`, `RowsShowTheirServer`, `ExitLosesNothing`: the invariants
  `RowsNotAheadOfSystem`, `StatusIsOfItsServer`, `ExitDrains`.
* `TimeGoesForward`: the action property `NeverBackwards`.
* `FeedImplemented`: `Spec => Feed!Init /\ [][Feed!Next]_Feed!vars`, the safety
  part of `ImplementsFeed`.

None of the properties is inductive: a commit keeps the rows behind System only
if the transaction does, which was a message in the queue, which was made of
readings. `StatusInv` says so for each place a status can be at, and that each
place is behind the one before it:

    ntpd --ReadingsInOrder--> readings --QueueInOrder--> queue
         --TxnInOrder--> transaction --StatusInOrder--> OVSDB

Three parts concern the end. `PillIsLast`: the message that ends the manager is
the last in the queue, and the main process, once it has sent it, waits for the
manager unless it is killed. `LastNotLost`: without a fault the last result sent
is in the queue, taken or stored; with the first it gives `ExitDrains`.
`RoomForResult` is about `MaxQueue` alone. The proof has a lemma for each thing
that happens to a queue in order (`InOrderPut`, `InOrderPill`, `InOrderGet`,
`InOrderCut`, `InOrderEarlier`), and one for each group of actions. Rows that
are deleted and added again are where `TakeKeepsStatusInv` and `CommitForward`
have to be careful: a commit writes a row only if the incarnation is still the
one it looked up.

### CLI (`NtpCli_proofs`, `NtpCliLoops_proofs`)

* `TypeCorrect`, `Invariance`: `Spec => []TypeOK` and `Spec => []CliInv`.
* `StoredSane`: `Spec => []StoredIsSane`.
* `Overshoot`: `Spec => []OvershootBounded`.
* `SessionsEdit`: `Spec => EditsAsModelled`, an action property that ties the
  module to `ConfigSync`.
* `RowsDoNotLeak`: `Spec => []RowsReadAlone(db)`. Each round of the daemon's
  loops over keys and servers takes from its row what `NtpConfig` says, whatever
  the rounds before have left in the loop's variables.
* `EveryLineRestores`: `Spec => []LinesRestore(db)`. A line of the running
  configuration, typed in on whatever tables that lack its row (and, for a
  server, have its key and room for it), stores what it was printed from.
* `RowsRead`: `Spec => []DaemonReadsWhatIsStored`.
* `ShowTellsTheTruth`: `Spec => []ShownIsUsed`.
* `RunningConfigIsFaithful`: `Spec => []RunningConfigRestores`.

What is stored was checked by a command, but against a replica of any age, and
was on its way meanwhile. `AllSane` therefore speaks of the tables, of the
replicas a command starts from (an edit of a server keeps its other columns) and
of the transactions in flight. References are the exception: no replica tells of
them, OVSDB sees to them when it applies the transaction.

`OvershootBounded` needs a count. A session is armed (`Armed`) when a new server
of its is on its way, or when its replica still shows room for one; `ArmedFitIn`
says that the servers and the armed sessions together are fewer than the limit
and the sessions. A commit that inserts adds a server and disarms its session,
for its replica is then the database; below the limit there is nothing to show,
as all the sessions armed together are no more than all the sessions.

The last three are about loops of any number of rounds, so they go by induction.
A `Loop` is a recursive function on the rounds; the library's induction theorem
has an operator for a parameter, which the provers cannot instantiate, so
`LoopTheorems` has one about sets (`Induction`, from the library's `WFMin`), and
says with it that a function that does the rounds one by one exists (`RunExists`)
and is the only one (`RunsAgree`). What one round does is in the two theorems
before: `RowsDoNotLeak` for `KeysRead` and `ServersRead`, which say that after i
rounds the map holds the first i rows, each as `NtpConfig` takes it, and nothing
else (`AllPut`); `EveryLineRestores` for `KeysRestored` and `ServersRestored`,
which say that after i lines the first i rows are there and no other. An order
has each row at one place (`OrderOfRows`), so no round undoes another. A line of a
server needs its key, which all the lines of keys have put there, in whatever
order (the `RestoredBug` of section 2 prints servers first and loses them), and
room: if not more servers are stored than may be, those already typed in again
are fewer (`RoomLeft`, a count). `ShowTellsTheTruth` follows from `RowsRead` by
what the show commands print. None of this takes the limit to hold: where
sessions that raced have stored more servers than may be, the keys are restored
all the same.

The assumptions are `CliAssumption` (finitely many sessions, names and key ids, a
limit of at least one, names that are not empty), and `NoneAssumption`,
`NoKeyAssumption` and `ConfigAssumption`, which say that the values for "none"
are none of the things they are told apart from.

### What is only model-checked

Every invariant and every action property of the passing runs is a theorem, and so
is the safety part of both refinements. Liveness is out of the prover's reach and
stays with TLC: `ServersDelivered`, `EventuallyInSync`, `EventuallyFresh`,
`ExitCompletes`, `PollsGoOn`, and `CatchesUp` in `ImplementsFeed`.

## 5. Findings

Each is a run of its own with the one property it violates; `PROJECT.json`
quotes the sentence the code departs from. (1) A command that fails is never
repeated (`ops_ntpd.py:358-362`). (2) The clean-up of `ops_ntpd.py:864` looks
for `ntpd -c` in `ps -A` and finds no ntpd that `ops_ntpd.py:818` started, at
exit and at start. (3) Authentication does not restrict ntpd to servers with
a key. (4) An exception in the main loop is to end the process, so that
whoever watches it starts it again (`ops_ntpd.py:982`), but the process waits
for the manager and the manager for the queue. (5) Rows with an FQDN get no
status.
(6) Two sessions exceed the limit of servers. (7) The running configuration has
no line for `ntp authentication enable`, which the component test looks for.

Remarks without a run. `ntp_vty.c:439` says "less than 57 characters" where 57
are accepted. `return retval` at `ntp_vty.c:520` is never reached, since
`END_DB_TXN` returns: the command that adds a server too many prints its error
and succeeds. `ntp_vty.c:59` takes the first VRF for the default one. Rows of
one address in two VRFs: see section 4.

## 6. What is not modelled

* The diagnostics dump, event logging, the layout of the show commands: they
  change no state that is read again.
* The REST validator: one stateless check; what REST writes is an edit of
  `ConfigSync`.
* NTP itself: ntpd selects as it likes.
* `hwclock -w`, daemonizing, the pid file (calls of the ovs library before the
  loop starts), and the unixctl server beyond `exit`.
* An ops-ntpd that is started again after its main process was killed, beside the
  manager that is left: two managers would then write the same rows.
* Rows without an address, key id or password: `ReadKeys` and `ReadServers`
  say what the daemon would read of them, but no command stores such a row.
* Edits without end: a configuration pass goes before a poll
  (`ops_ntpd.py:964`), so an operator who never pauses would starve the polls.
  Edits are bounded here.

## 7. Plan

If it pays: a composition of `ConfigSync` and `StatusSync` on one main loop, with
a pass of many steps in place of `ConfigPass`.
