---------------------------- MODULE ClientService ---------------------------
(***************************************************************************)
(* What aws_iot_task may rely on in the MQTT client, and what it makes of  *)
(* it (src/src/main.c, lines 207 to 286): whether what is published can    *)
(* reach the broker, whether the client knows, and which codes tell the    *)
(* task.  MqttClient implements it; Delivery builds on it.                 *)
(***************************************************************************)

VARIABLES
    at,   \* the task: start (connecting and subscribing), yield, app (the
          \* rest of the main loop) or abort
    link, \* the connection: up, lost (and the client does not know) or down
          \* (and it does)
    rc    \* the code the task acts on after a call: SUCCESS (or
          \* NETWORK_RECONNECTED, treated alike) or ERROR

serviceVars == <<at, link, rc>>

Init == at = "start" /\ link = "down" /\ rc = "SUCCESS"

(* What the connection is when a call has made it: it may be gone already. *)
Made == link' \in {"up", "lost"}

Connected ==
    /\ at = "start" /\ at' = "yield"
    /\ Made
    /\ UNCHANGED rc

Lose ==
    /\ link = "up" /\ link' = "lost"
    /\ UNCHANGED <<at, rc>>

(* Only a yield finds out that the connection is gone, or takes it for     *)
(* gone, ...                                                               *)
Notice ==
    /\ at = "yield"
    /\ link # "down" /\ link' = "down"
    /\ UNCHANGED <<at, rc>>

(* ... and repairs it. *)
Repair ==
    /\ at = "yield"
    /\ link = "down" /\ Made
    /\ UNCHANGED <<at, rc>>

(* A yield that succeeds leaves a client that believes itself connected.   *)
(* While it reconnects, the task does nothing but yield again.             *)
YieldCode == rc' = "ERROR" \/ (link # "down" /\ rc' = "SUCCESS")

YieldReturns ==
    /\ at = "yield" /\ at' = "app"
    /\ YieldCode
    /\ UNCHANGED link

(* Only a client that knows it is not connected refuses. *)
PublishCode == rc' = IF link = "down" THEN "ERROR" ELSE "SUCCESS"

Publish ==
    /\ at = "app"
    /\ PublishCode
    /\ UNCHANGED <<at, link>>

(* The last publication of the round, if any, and the condition of the loop. *)
GoOn ==
    /\ at = "app"
    /\ UNCHANGED rc \/ PublishCode
    /\ at' = IF rc' = "ERROR" THEN "abort" ELSE "yield"
    /\ UNCHANGED link

Restart == at' = "start" /\ link' = "down" /\ rc' = "SUCCESS"

Next ==
    \/ Connected \/ Lose \/ Notice \/ Repair
    \/ YieldReturns \/ Publish \/ GoOn \/ Restart

Spec == Init /\ [][Next]_serviceVars
=============================================================================
