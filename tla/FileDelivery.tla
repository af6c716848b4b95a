------------------------------ MODULE FileDelivery ------------------------------
(***************************************************************************)
(* What the phone may count on when it sends a file in pieces: the session *)
(* gets a file once and whole or not at all, a file that was given up does *)
(* not come back, and the phone hears "queued" only of a file that the     *)
(* session has.  What the phone does not hear says nothing.                *)
(***************************************************************************)
CONSTANTS Uploads, Chunks

VARIABLES fate, have, heard

vars == <<fate, have, heard>>

Init ==
    /\ fate = [u \in Uploads |-> "new"]
    /\ have = [u \in Uploads |-> {}]
    /\ heard = {}

Begin(u) ==
    /\ fate[u] = "new"
    /\ fate' = [fate EXCEPT ![u] = "open"]
    /\ UNCHANGED <<have, heard>>

Receive(u, c) ==
    /\ fate[u] = "open"
    /\ have' = [have EXCEPT ![u] = @ \cup {c}]
    /\ UNCHANGED <<fate, heard>>

Deliver(u) ==
    /\ fate[u] = "open" /\ have[u] = Chunks
    /\ fate' = [fate EXCEPT ![u] = "delivered"]
    /\ UNCHANGED <<have, heard>>

Drop(us) ==
    /\ us # {} /\ \A u \in us : fate[u] = "open"
    /\ fate' = [u \in Uploads |-> IF u \in us THEN "dropped" ELSE fate[u]]
    /\ UNCHANGED <<have, heard>>

Hear(u) ==
    /\ fate[u] = "delivered"
    /\ heard' = heard \cup {u}
    /\ UNCHANGED <<fate, have>>

Next ==
    \/ \E u \in Uploads : Begin(u) \/ Deliver(u) \/ Hear(u) \/ \E c \in Chunks : Receive(u, c)
    \/ \E us \in SUBSET Uploads : Drop(us)

Spec == Init /\ [][Next]_vars
=============================================================================
