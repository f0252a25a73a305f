----------------------------- MODULE StatusFeed -----------------------------
(***************************************************************************)
(* What ops-ntpd promises of the status in OVSDB, said without its two     *)
(* processes, their queue and their replicas: ntpd moves on from epoch to  *)
(* epoch, and System and the rows of NTP_Association tell of an epoch      *)
(* each.  They are published together, never go back, and no row is ahead  *)
(* of System.  StatusSync implements this module.                          *)
(***************************************************************************)
EXTENDS Naturals

CONSTANTS
    Rows,       \* rows of NTP_Association
    Epochs,     \* those of ntpd: naturals, 0 one of them
    None        \* the row does not exist, or has no status yet

VARIABLES
    epoch,      \* the epoch ntpd is in
    shown,      \* the one System tells of
    told,       \* the one each row tells of
    live        \* ops-ntpd and ntpd are at work

vars == <<epoch, shown, told, live>>

Init ==
    /\ epoch = 0
    /\ shown = 0
    /\ told = [r \in Rows |-> None]
    /\ live \in BOOLEAN

\* ntpd goes on.
Advance ==
    /\ epoch' \in {e \in Epochs : e > epoch}
    /\ UNCHANGED <<shown, told, live>>

\* One transaction: System tells of an epoch not before the last, and any rows
\* are brought up, none beyond System.
Publish ==
    /\ shown' \in {e \in Epochs : shown <= e /\ e <= epoch}
    /\ told' \in [Rows -> Epochs \cup {None}]
    /\ \A r \in Rows :
          told'[r] # told[r] =>
              /\ told'[r] \in {e \in Epochs : e <= shown'}
              /\ told[r] # None => told[r] <= told'[r]
    /\ UNCHANGED <<epoch, live>>

\* A row goes, or another takes its place.
Forget(r) ==
    /\ told' = [told EXCEPT ![r] = None]
    /\ UNCHANGED <<epoch, shown, live>>

\* A part stops or starts.
Switch ==
    /\ live' = ~live
    /\ UNCHANGED <<epoch, shown, told>>

Next == Advance \/ Publish \/ (\E r \in Rows : Forget(r)) \/ Switch

\* However often ntpd goes on, System gets past every epoch while all is live.
CatchesUp == \A e \in Epochs : epoch >= e ~> shown >= e \/ ~live

Spec == Init /\ [][Next]_vars /\ CatchesUp

=============================================================================
