------------------------------ MODULE Delivery ------------------------------
(***************************************************************************)
(* What the PMU promises about a message once it has been created: it      *)
(* stays pending until the server accepted it, until a newer message takes *)
(* its place in a full file, or until a restart loses the file it is in.   *)
(* Only a message that is not critical may be given up.                    *)
(***************************************************************************)
EXTENDS Naturals

CONSTANTS Message,   \* every message the PMU may create
          Critical   \* those that must not be given up

VARIABLES
    created,   \* messages created so far
    pending,   \* messages waiting in a file
    accepted,  \* messages the server accepted
    boots      \* restarts so far, plus one

deliveryVars == <<created, pending, accepted, boots>>

Init ==
    /\ created = {}
    /\ pending = {}
    /\ accepted = {}
    /\ boots = 1

\* A new message waits, or could not be written; either way its file may have
\* been full, and then one older message made room for it.
Create(m) ==
    /\ m \notin created
    /\ created' = created \cup {m}
    /\ \E old \in SUBSET pending :
           /\ \A a, b \in old : a = b
           /\ pending' \in {(pending \ old) \cup {m}, pending \ old}
    /\ UNCHANGED <<accepted, boots>>

Accept(m) ==
    /\ m \in created
    /\ accepted' = accepted \cup {m}
    /\ pending' = pending \ {m}
    /\ boots' \in {boots, boots + 1}
    /\ UNCHANGED created

GiveUp(m) ==
    /\ m \notin Critical
    /\ pending' = pending \ {m}
    /\ UNCHANGED <<created, accepted, boots>>

Restart ==
    /\ pending' \in SUBSET pending
    /\ boots' = boots + 1
    /\ UNCHANGED <<created, accepted>>

Next ==
    \/ \E m \in Message : Create(m) \/ Accept(m) \/ GiveUp(m)
    \/ Restart

Spec == Init /\ [][Next]_deliveryVars

=============================================================================
