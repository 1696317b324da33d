----------------------------- MODULE PppService -----------------------------
(***************************************************************************)
(* What libGSM.h promises of the connection to the Internet: it is opened  *)
(* on user request only, and a user who has asked for its end is told so   *)
(* only when it is closed.  A lost connection may be opened again for as   *)
(* long as the request stands.                                             *)
(***************************************************************************)

VARIABLES
    wanted, \* ppposInit was called, and no ppposDisconnect carried out since
    link    \* the connection: closed, or open (from the first message that
            \* sets it up to the last that ends it)

serviceVars == <<wanted, link>>

Init == wanted = FALSE /\ link = "closed"

Request == wanted' = TRUE /\ UNCHANGED link

Open ==
    /\ wanted
    /\ link = "closed" /\ link' = "open"
    /\ UNCHANGED wanted

(* Lost, refused or closed. *)
Close ==
    /\ link = "open" /\ link' = "closed"
    /\ UNCHANGED wanted

(* The end of a ppposDisconnect. *)
Release ==
    /\ link = "closed"
    /\ wanted' = FALSE
    /\ UNCHANGED link

Next == Request \/ Open \/ Close \/ Release

Spec == Init /\ [][Next]_serviceVars
=============================================================================
