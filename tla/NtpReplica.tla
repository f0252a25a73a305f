----------------------------- MODULE NtpReplica -----------------------------
(***************************************************************************)
(* What the operator is promised of the servers, apart from how it is      *)
(* done: ntpd's servers follow those configured, by whole configurations.  *)
(* A configuration is fetched, and nothing newer is fetched before every   *)
(* server is the one fetched; until then a server is the old one, gone or  *)
(* the new one, never anything else.                                       *)
(***************************************************************************)
CONSTANTS
    Items,      \* the places of servers
    Values,     \* what a server can be
    None        \* no server, so no member of Values

VARIABLES
    want,   \* the servers configured
    seen,   \* the configuration last fetched
    have,   \* the servers in use
    busy    \* have is on its way to seen

vars == <<want, seen, have, busy>>

Contents == [Items -> Values \cup {None}]

Nothing == [i \in Items |-> None]

Init ==
    /\ want \in Contents
    /\ seen = Nothing
    /\ have = Nothing
    /\ busy = FALSE

Change ==
    /\ want' \in Contents
    /\ UNCHANGED <<seen, have, busy>>

Fetch ==
    /\ ~busy
    /\ seen' = want
    /\ busy' = TRUE
    /\ UNCHANGED <<want, have>>

Remove(i) ==
    /\ busy
    /\ have' = [have EXCEPT ![i] = None]
    /\ UNCHANGED <<want, seen, busy>>

Install(i) ==
    /\ busy
    /\ have' = [have EXCEPT ![i] = seen[i]]
    /\ UNCHANGED <<want, seen, busy>>

Finish ==
    /\ busy
    /\ have = seen
    /\ busy' = FALSE
    /\ UNCHANGED <<want, seen, have>>

Next == Change \/ Fetch \/ Finish \/ \E i \in Items : Remove(i) \/ Install(i)

Spec == Init /\ [][Next]_vars

\* A server that stays configured as it is comes to be used as it is.
Delivered ==
    \A i \in Items, v \in Values \cup {None} :
        [](want[i] = v => <>(have[i] = v \/ want[i] # v))

=============================================================================
