----------------------------- MODULE SingleServer -----------------------------
(***************************************************************************)
(* What the lock on server.lock promises to the clients of the GSAS-II     *)
(* server: one server at a time owns the state directory, and the card     *)
(* through which clients find it (server.json) is put up by the owner,     *)
(* stays up unchanged for as long as the owner is open, and is replaced    *)
(* only after it has been taken down.  An owner may vanish at any time and *)
(* leave its card behind.                                                  *)
(***************************************************************************)
CONSTANTS Server, Nobody

VARIABLES
    owner,  \* the server that owns the state directory
    phase,  \* how far the owner is: starting, open, closing, or gone
    card    \* the server that the endpoint file names

Init == owner = Nobody /\ phase = "gone" /\ card = Nobody

Claim(s) ==
    /\ phase = "gone"
    /\ owner' = s
    /\ phase' = "starting"
    /\ UNCHANGED card

Open ==
    /\ phase = "starting"
    /\ card = Nobody
    /\ card' = owner
    /\ phase' = "open"
    /\ UNCHANGED owner

Close ==
    /\ phase \in {"starting", "open"}
    /\ phase' = "closing"
    /\ UNCHANGED <<owner, card>>

(* A card goes only while nobody is behind it, or its owner opens or closes. *)
TakeDown ==
    /\ phase # "open"
    /\ card' = Nobody
    /\ UNCHANGED <<owner, phase>>

Leave ==
    /\ phase # "gone"
    /\ owner' = Nobody
    /\ phase' = "gone"
    /\ UNCHANGED card

Next == (\E s \in Server : Claim(s)) \/ Open \/ Close \/ TakeDown \/ Leave

Spec == Init /\ [][Next]_<<owner, phase, card>>
=============================================================================
