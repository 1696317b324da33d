----------------------------- MODULE MqttClient -----------------------------
(***************************************************************************)
(* aws_iot_task (src/src/main.c) over the AWS IoT MQTT client: connecting, *)
(* subscribing, the yield loop with its keep-alive, and the reconnection   *)
(* with backoff that restores the subscriptions.                           *)
(*                                                                         *)
(* One task runs the client, so its mutexes are always free, and a call    *)
(* that only computes or writes is one step.  Steps end where the network, *)
(* the broker or a timer can come between: at every read, and where a loop *)
(* looks at a timer.                                                       *)
(*                                                                         *)
(* A topic is the slot of messageHandlers it occupies, from 1.  The data   *)
(* the board publishes has QoS 0 and gets no answer, so only what makes    *)
(* the broker answer is on the wire: a slot number stands for SUBSCRIBE of *)
(* that topic.                                                             *)
(***************************************************************************)
EXTENDS Naturals, Sequences

CONSTANTS NumTopics,   \* topics the task subscribes to: 1, CONFIG_TOPIC
          MinInterval, \* AWS_IOT_MQTT_MIN_RECONNECT_WAIT_INTERVAL
          MaxInterval, \* AWS_IOT_MQTT_MAX_RECONNECT_WAIT_INTERVAL
          MaxFaults,   \* bound: what the network does wrong
          MaxUnread    \* bound: packets unread before the broker publishes another

ASSUME MqttAssumption ==
    /\ NumTopics \in Nat \ {0}
    /\ MinInterval \in Nat \ {0}
    /\ MaxInterval \in Nat /\ MinInterval <= MaxInterval
    /\ MaxFaults \in Nat
    /\ MaxUnread \in Nat

Slots    == 1 .. NumTopics
Ping     == 0                 \* PINGREQ on the wire
Packets  == {"SUBACK", "PINGRESP", "PUBLISH"}
Nothing  == "NOTHING_TO_READ"
GoOn     == {"ATTEMPTING_RECONNECT", "RECONNECTED", "SUCCESS"}

VARIABLES
    clientState,       \* clientStatus.clientState, without its prefix
    subscribed,        \* how many slots of messageHandlers are in use
    resubscribed,      \* the slots marked resubscribed
    isPingOutstanding,
    interval,          \* currentReconnectWaitInterval
    keepAliveExpired,  \* pingReqTimer and pingRespTimer, always started together
    delayExpired,      \* reconnectDelayTimer
    pc,                \* where the task stands
    rc,                \* its return code
    conn,              \* the connection: none, open, silent, broken or garbled
    inbox,             \* what has arrived and was not read
    outbox,            \* what was written and the broker has not handled
    brokerSubs,        \* topics the broker forwards in this session
    faults             \* faults so far

client  == <<clientState, subscribed, resubscribed, isPingOutstanding, interval>>
timers  == <<keepAliveExpired, delayExpired>>
task    == <<pc, rc>>
network == <<conn, inbox, outbox, brokerSubs, faults>>
vars    == <<client, timers, task, network>>

TypeOK ==
    /\ clientState \in {"INITIALIZED", "DISCONNECTED_ERROR", "PENDING_RECONNECT",
                        "CONNECTED_IDLE", "YIELD_IN_PROGRESS",
                        "SUBSCRIBE_IN_PROGRESS", "RESUBSCRIBE_IN_PROGRESS"}
    /\ subscribed \in 0 .. NumTopics
    /\ resubscribed \subseteq Slots
    /\ isPingOutstanding \in BOOLEAN
    /\ interval \in 1 .. 2 * MaxInterval
    /\ keepAliveExpired \in BOOLEAN
    /\ delayExpired \in BOOLEAN
    /\ pc \in {"connect", "subscribe", "suback", "test", "loop", "resub",
               "resuback", "check", "return", "app"}
    /\ rc \in GoOn \cup {"FAILURE", "TIMED_OUT", "DISCONNECTED", "NOT_IDLE",
                         "UNEXPECTED_STATE"}
    /\ conn \in {"none", "open", "silent", "broken", "garbled"}
    /\ inbox \in Seq(Packets)
    /\ outbox \in Seq({Ping} \cup Slots)
    /\ brokerSubs \subseteq Slots
    /\ faults \in 0 .. MaxFaults

(* What a boot starts from.  The interval and the marks of the slots are   *)
(* not initialised by the code, and not used before a disconnect sets them.*)
Init ==
    /\ clientState = "INITIALIZED"
    /\ subscribed = 0
    /\ resubscribed = {}
    /\ isPingOutstanding = FALSE
    /\ interval = MinInterval
    /\ keepAliveExpired = FALSE
    /\ delayExpired = FALSE
    /\ pc = "connect"
    /\ rc = "FAILURE"
    /\ conn = "none"
    /\ inbox = <<>>
    /\ outbox = <<>>
    /\ brokerSubs = {}
    /\ faults = 0

(* abort() *)
Restart ==
    /\ clientState' = "INITIALIZED"
    /\ subscribed' = 0
    /\ resubscribed' = {}
    /\ isPingOutstanding' = FALSE
    /\ interval' = MinInterval
    /\ keepAliveExpired' = FALSE
    /\ delayExpired' = FALSE
    /\ pc' = "connect"
    /\ rc' = "FAILURE"
    /\ conn' = "none"
    /\ inbox' = <<>>
    /\ outbox' = <<>>
    /\ brokerSubs' = {}

----------------------------------------------------------------------------
(* The transport, as the client sees it *)

Fault == faults < MaxFaults /\ faults' = faults + 1

(* aws_iot_mqtt_internal_send_packet: the result of the write is replaced  *)
(* by that of unlocking the mutex, so every caller goes on as if it had    *)
(* been sent.  Only an open connection takes it to the broker.             *)
Send(request) ==
    outbox' = IF conn = "open" THEN Append(outbox, request) ELSE outbox

(* The packets aws_iot_mqtt_internal_cycle_read may find.  What arrived    *)
(* before the connection was lost can still be read; once the stream is    *)
(* out of step anything may be taken for a packet.                         *)
Reads ==
    IF conn = "garbled" THEN Packets \cup {Nothing}
    ELSE IF inbox # <<>> THEN {Head(inbox)}
    ELSE IF conn \in {"open", "silent"} THEN {Nothing}
    ELSE {}

Rest == IF inbox = <<>> THEN inbox ELSE Tail(inbox)

(* Nothing left to read and the connection reset: NETWORK_SSL_READ_ERROR.  *)
ReadError == conn = "broken" /\ inbox = <<>>

(* A packet that comes in pieces, further apart than the caller waits, is  *)
(* an error.  If the pause is in its header, readBufIndex lets a later     *)
(* read resume; if it is in its body, iot_tls_read does not report the     *)
(* bytes it took and the stream is out of step from then on.               *)
ReadPart ==
    /\ UNCHANGED brokerSubs
    /\ \/ conn = "garbled" /\ UNCHANGED <<conn, inbox, outbox, faults>>
       \/ /\ conn \in {"open", "silent"} /\ inbox # <<>> /\ Fault
          /\ \/ UNCHANGED <<conn, inbox, outbox>>
             \/ conn' = "garbled" /\ inbox' = <<>> /\ outbox' = <<>>

(* What cycle_read does with a packet besides handing it to its caller.    *)
(* The handler of a PUBLISH returns once Queue_config has room.            *)
CycleRead(packet) ==
    /\ packet \in Reads
    /\ inbox' = Rest
    /\ isPingOutstanding' = (isPingOutstanding /\ packet # "PINGRESP")

(* An answer due within mqttCommandTimeout_ms does not come: a fault of    *)
(* the network if the connection is open.                                  *)
TimesOut == IF conn = "open" THEN Fault ELSE UNCHANGED faults

(* Mutant: the ping of the connection before is not forgotten. *)
Open_KeepsPing ==
    /\ conn' = "open"
    /\ inbox' = <<>>
    /\ outbox' = <<>>
    /\ brokerSubs' = {}
    /\ keepAliveExpired' = FALSE
    /\ UNCHANGED isPingOutstanding

(* A connection with its CONNACK, in _aws_iot_mqtt_internal_connect *)
Open ==
    /\ conn' = "open"
    /\ inbox' = <<>>
    /\ outbox' = <<>>
    /\ brokerSubs' = {}
    /\ isPingOutstanding' = FALSE
    /\ keepAliveExpired' = FALSE

----------------------------------------------------------------------------
(* aws_iot_task until its main loop *)

(* A failed attempt is repeated after a second. *)
Connect ==
    /\ pc = "connect"
    /\ \/ /\ Open
          /\ clientState' = "CONNECTED_IDLE"
          /\ rc' = "SUCCESS"
          /\ pc' = "subscribe"
       \/ /\ clientState' = "DISCONNECTED_ERROR"
          /\ rc' = "FAILURE"
          /\ UNCHANGED <<pc, conn, inbox, outbox, brokerSubs,
                         isPingOutstanding, keepAliveExpired>>
    /\ UNCHANGED <<subscribed, resubscribed, interval, delayExpired, faults>>

Subscribe ==
    /\ pc = "subscribe"
    /\ clientState' = "SUBSCRIBE_IN_PROGRESS"
    /\ Send(subscribed + 1)
    /\ pc' = "suback"
    /\ UNCHANGED <<subscribed, resubscribed, isPingOutstanding, interval, timers,
                   rc, conn, inbox, brokerSubs, faults>>

(* wait_for_read(SUBACK); the slot is taken when the answer is there.  The *)
(* packet identifier of the answer is not compared.                        *)
Subscribed ==
    /\ pc = "suback"
    /\ \E packet \in Reads :
          /\ CycleRead(packet)
          /\ IF packet = "SUBACK"
             THEN /\ subscribed' = subscribed + 1
                  /\ clientState' = "CONNECTED_IDLE"
                  /\ pc' = IF subscribed' = NumTopics THEN "test" ELSE "subscribe"
             ELSE UNCHANGED <<subscribed, clientState, pc>>
    /\ UNCHANGED <<resubscribed, interval, timers, rc, conn, outbox, brokerSubs, faults>>

SubscribeFails == pc = "suback" /\ TimesOut /\ Restart

----------------------------------------------------------------------------
(* aws_iot_mqtt_yield *)

IsConnected == clientState \in {"CONNECTED_IDLE", "YIELD_IN_PROGRESS",
                                "SUBSCRIBE_IN_PROGRESS", "RESUBSCRIBE_IN_PROGRESS"}

Reconnecting == clientState \in {"PENDING_RECONNECT", "RESUBSCRIBE_IN_PROGRESS"}

(* The head of the main loop and the checks before the yield loop *)
Yield ==
    /\ pc = "test"
    /\ rc \in GoOn
    /\ clientState' = IF clientState = "CONNECTED_IDLE" THEN "YIELD_IN_PROGRESS"
                      ELSE clientState
    /\ IF Reconnecting \/ clientState = "CONNECTED_IDLE"
       THEN pc' = "loop" /\ UNCHANGED rc
       ELSE /\ pc' = "app"
            /\ rc' = IF IsConnected THEN "NOT_IDLE" ELSE "DISCONNECTED"
    /\ UNCHANGED <<subscribed, resubscribed, isPingOutstanding, interval, timers, network>>

Abort ==
    /\ pc = "test"
    /\ rc \notin GoOn
    /\ Restart
    /\ UNCHANGED faults

(* Mutant: the slots stay marked. *)
HandleDisconnect_KeepsMarks ==
    /\ clientState' = "PENDING_RECONNECT"
    /\ conn' = "none"
    /\ inbox' = <<>>
    /\ outbox' = <<>>
    /\ interval' = MinInterval
    /\ delayExpired' = FALSE
    /\ rc' = "ATTEMPTING_RECONNECT"
    /\ UNCHANGED <<resubscribed, keepAliveExpired>>

(* _aws_iot_mqtt_handle_disconnect and what the yield loop does after it *)
HandleDisconnect ==
    /\ clientState' = "PENDING_RECONNECT"
    /\ conn' = "none"
    /\ inbox' = <<>>
    /\ outbox' = <<>>
    /\ interval' = MinInterval
    /\ delayExpired' = FALSE
    /\ resubscribed' = {}
    /\ rc' = "ATTEMPTING_RECONNECT"
    /\ UNCHANGED keepAliveExpired

(* Mutant: an answer that does not come is waited for. *)
KeepAlive_Waits(packet) ==
    LET outstanding == isPingOutstanding /\ packet # "PINGRESP" IN
    /\ rc' = "SUCCESS"
    /\ \/ /\ keepAliveExpired /\ ~ outstanding
          /\ inbox' = Rest
          /\ Send(Ping)
          /\ isPingOutstanding' = TRUE
          /\ keepAliveExpired' = FALSE
       \/ /\ ~ keepAliveExpired \/ outstanding
          /\ CycleRead(packet)
          /\ UNCHANGED <<keepAliveExpired, outbox>>
    /\ UNCHANGED <<clientState, resubscribed, interval, delayExpired, conn>>

(* _aws_iot_mqtt_keep_alive after reading the packet *)
KeepAlive(packet) ==
    LET outstanding == isPingOutstanding /\ packet # "PINGRESP" IN
    \/ /\ keepAliveExpired /\ outstanding
       /\ HandleDisconnect
       /\ UNCHANGED isPingOutstanding
    \/ /\ keepAliveExpired /\ ~ outstanding
       /\ inbox' = Rest
       /\ Send(Ping)
       /\ isPingOutstanding' = TRUE
       /\ keepAliveExpired' = FALSE
       /\ rc' = "SUCCESS"
       /\ UNCHANGED <<clientState, resubscribed, interval, delayExpired, conn>>
    \/ /\ ~ keepAliveExpired
       /\ CycleRead(packet)
       /\ rc' = "SUCCESS"
       /\ UNCHANGED <<clientState, resubscribed, interval, timers, conn, outbox>>

(* One round of the yield loop: one packet at most, then the keep-alive *)
LoopRead ==
    /\ pc = "loop"
    /\ ~ Reconnecting
    /\ \/ \E packet \in Reads : KeepAlive(packet)
       \/ ReadError /\ HandleDisconnect /\ UNCHANGED isPingOutstanding
    /\ pc' = "check"
    /\ UNCHANGED <<subscribed, brokerSubs, faults>>

(* Any other error of the read leaves the loop. *)
LoopPart ==
    /\ pc = "loop"
    /\ ~ Reconnecting
    /\ ReadPart
    /\ rc' = "FAILURE"
    /\ pc' = "return"
    /\ UNCHANGED <<client, timers>>

----------------------------------------------------------------------------
(* Reconnecting, in _aws_iot_mqtt_handle_reconnect *)

(* Mutant: the limit of the backoff is not an error. *)
GiveUp_GoesOn ==
    /\ pc = "loop"
    /\ Reconnecting
    /\ interval > MaxInterval
    /\ rc' = "ATTEMPTING_RECONNECT"
    /\ pc' = "return"
    /\ UNCHANGED <<client, timers, network>>

GiveUp ==
    /\ pc = "loop"
    /\ Reconnecting
    /\ interval > MaxInterval
    /\ rc' = "TIMED_OUT"
    /\ pc' = "return"
    /\ UNCHANGED <<client, timers, network>>

NotYet ==
    /\ pc = "loop"
    /\ Reconnecting
    /\ interval <= MaxInterval
    /\ ~ delayExpired
    /\ rc' = "ATTEMPTING_RECONNECT"
    /\ pc' = "check"
    /\ UNCHANGED <<client, timers, network>>

(* Mutant: doubled by the attempt and again by its failure. *)
BackOff_Twice ==
    /\ interval' = 4 * interval
    /\ IF interval' > MaxInterval
       THEN rc' = "TIMED_OUT" /\ UNCHANGED delayExpired
       ELSE rc' = "ATTEMPTING_RECONNECT" /\ delayExpired' = FALSE
    /\ pc' = "check"

(* Mutant: one attempt short. *)
BackOff_Early ==
    /\ interval' = 2 * interval
    /\ IF interval' >= MaxInterval
       THEN rc' = "TIMED_OUT" /\ UNCHANGED delayExpired
       ELSE rc' = "ATTEMPTING_RECONNECT" /\ delayExpired' = FALSE
    /\ pc' = "check"

(* The attempt failed: wait twice as long, or no longer. *)
BackOff ==
    /\ interval' = 2 * interval
    /\ IF interval' > MaxInterval
       THEN rc' = "TIMED_OUT" /\ UNCHANGED delayExpired
       ELSE rc' = "ATTEMPTING_RECONNECT" /\ delayExpired' = FALSE
    /\ pc' = "check"

(* aws_iot_mqtt_attempt_reconnect: connects if the client is not connected *)
(* already, and then restores the subscriptions.                           *)
Reconnect ==
    /\ pc = "loop"
    /\ Reconnecting
    /\ interval <= MaxInterval
    /\ delayExpired
    /\ IF IsConnected
       THEN /\ pc' = "resub"
            /\ UNCHANGED <<clientState, isPingOutstanding, interval, timers, rc,
                           conn, inbox, outbox, brokerSubs>>
       ELSE \/ /\ Open
               /\ clientState' = "RESUBSCRIBE_IN_PROGRESS"
               /\ pc' = "resub"
               /\ UNCHANGED <<interval, delayExpired, rc>>
            \/ /\ BackOff
               /\ UNCHANGED <<clientState, isPingOutstanding, keepAliveExpired,
                              conn, inbox, outbox, brokerSubs>>
    /\ UNCHANGED <<subscribed, resubscribed, faults>>

NextSlot(slot) ==
    /\ slot \in (1 .. subscribed) \ resubscribed
    /\ \A other \in (1 .. subscribed) \ resubscribed : slot <= other

(* _aws_iot_mqtt_internal_resubscribe: the next topic that is not marked ... *)
Resubscribe ==
    /\ pc = "resub"
    /\ \E slot \in Slots : NextSlot(slot) /\ Send(slot)
    /\ pc' = "resuback"
    /\ UNCHANGED <<client, timers, rc, conn, inbox, brokerSubs, faults>>

(* ... or none: the client is usable again, inside the yield. *)
ResubscribeDone ==
    /\ pc = "resub"
    /\ (1 .. subscribed) \subseteq resubscribed
    /\ clientState' = "YIELD_IN_PROGRESS"
    /\ rc' = "RECONNECTED"
    /\ pc' = "check"
    /\ UNCHANGED <<subscribed, resubscribed, isPingOutstanding, interval, timers, network>>

(* wait_for_read(SUBACK) *)
Resubscribed ==
    /\ pc = "resuback"
    /\ \E packet \in Reads :
          /\ CycleRead(packet)
          /\ IF packet = "SUBACK"
             THEN /\ \E slot \in Slots :
                        NextSlot(slot) /\ resubscribed' = resubscribed \cup {slot}
                  /\ pc' = "resub"
             ELSE UNCHANGED <<resubscribed, pc>>
    /\ UNCHANGED <<clientState, subscribed, interval, timers, rc, conn, outbox,
                   brokerSubs, faults>>

(* The attempt fails and leaves the client in RESUBSCRIBE_IN_PROGRESS,     *)
(* which counts as connected: the next one will not connect again.         *)
ResubscribeFails ==
    /\ pc = "resuback"
    /\ \/ TimesOut /\ UNCHANGED <<conn, inbox, outbox, brokerSubs>>
       \/ ReadPart
    /\ BackOff
    /\ UNCHANGED <<clientState, subscribed, resubscribed, isPingOutstanding, keepAliveExpired>>

----------------------------------------------------------------------------
(* The end of the yield, and the rest of the main loop *)

(* has_timer_expired(&timer), the time this yield was given *)
Check ==
    /\ pc = "check"
    /\ pc' \in {"loop", "return"}
    /\ UNCHANGED <<client, timers, rc, network>>

(* Mutant: the state goes back to idle after SUCCESS only. *)
Return_OnSuccess ==
    /\ pc = "return"
    /\ clientState' = IF rc = "SUCCESS" /\ clientState = "YIELD_IN_PROGRESS"
                      THEN "CONNECTED_IDLE" ELSE clientState
    /\ pc' = IF rc = "ATTEMPTING_RECONNECT" THEN "test" ELSE "app"
    /\ UNCHANGED <<subscribed, resubscribed, isPingOutstanding, interval, timers, rc, network>>

(* While the client reconnects the main loop skips its publishing. *)
Return ==
    /\ pc = "return"
    /\ clientState' = IF rc # "ATTEMPTING_RECONNECT" /\ clientState = "YIELD_IN_PROGRESS"
                      THEN "CONNECTED_IDLE" ELSE clientState
    /\ rc' = IF rc = "SUCCESS" /\ clientState # "YIELD_IN_PROGRESS"
             THEN "UNEXPECTED_STATE" ELSE rc
    /\ pc' = IF rc = "ATTEMPTING_RECONNECT" THEN "test" ELSE "app"
    /\ UNCHANGED <<subscribed, resubscribed, isPingOutstanding, interval, timers, network>>

(* One or two messages are published, if there are any; the code of        *)
(* aws_iot_mqtt_publish replaces that of the yield.                        *)
Publish ==
    /\ pc = "app"
    /\ \/ UNCHANGED rc
       \/ rc' = IF ~ IsConnected THEN "DISCONNECTED"
                ELSE IF clientState # "CONNECTED_IDLE" THEN "NOT_IDLE"
                ELSE "SUCCESS"
    /\ pc' = "test"
    /\ UNCHANGED <<client, timers, network>>

ClientStep ==
    \/ Connect \/ Subscribe \/ Subscribed \/ SubscribeFails
    \/ Yield \/ Abort \/ LoopRead \/ LoopPart
    \/ GiveUp \/ NotYet \/ Reconnect
    \/ Resubscribe \/ ResubscribeDone \/ Resubscribed \/ ResubscribeFails
    \/ Check \/ Return \/ Publish

----------------------------------------------------------------------------
(* External: the broker, the network and time *)

Answer(packet) == inbox' = Append(inbox, packet)

(* The broker handles what it was sent, in order. *)
Broker ==
    /\ conn = "open"
    /\ outbox # <<>>
    /\ outbox' = Tail(outbox)
    /\ IF Head(outbox) = Ping
       THEN Answer("PINGRESP") /\ UNCHANGED brokerSubs
       ELSE Answer("SUBACK") /\ brokerSubs' = brokerSubs \cup {Head(outbox)}
    /\ UNCHANGED <<client, timers, task, conn, faults>>

BrokerPublish ==
    /\ conn = "open"
    /\ brokerSubs # {}
    /\ Len(inbox) < MaxUnread
    /\ Answer("PUBLISH")
    /\ UNCHANGED <<client, timers, task, conn, outbox, brokerSubs, faults>>

(* The path is lost and nobody says so. *)
Silence ==
    /\ conn = "open"
    /\ conn' = "silent"
    /\ outbox' = <<>>
    /\ Fault
    /\ UNCHANGED <<client, timers, task, inbox, brokerSubs>>

(* The connection is reset, with or without what had arrived. *)
Break ==
    /\ conn \in {"open", "silent", "garbled"}
    /\ conn' = "broken"
    /\ inbox' \in {inbox, <<>>}
    /\ outbox' = <<>>
    /\ Fault
    /\ UNCHANGED <<client, timers, task, brokerSubs>>

(* A PINGRESP that takes a keep-alive interval over an open connection is  *)
(* a fault.                                                                *)
KeepAliveExpires ==
    /\ conn # "none"
    /\ ~ keepAliveExpired
    /\ keepAliveExpired' = TRUE
    /\ IF isPingOutstanding /\ conn = "open" THEN Fault ELSE UNCHANGED faults
    /\ UNCHANGED <<client, delayExpired, task, conn, inbox, outbox, brokerSubs>>

DelayExpires ==
    /\ Reconnecting
    /\ ~ delayExpired
    /\ delayExpired' = TRUE
    /\ UNCHANGED <<client, keepAliveExpired, task, network>>

Environment == Broker \/ BrokerPublish \/ Silence \/ Break
               \/ KeepAliveExpires \/ DelayExpires

Next == ClientStep \/ Environment

Spec == Init /\ [][Next]_vars

(* The task has the highest ready priority on its core and each of its     *)
(* waits has a limit; timers and the broker of an open connection get on;  *)
(* a yield that goes on looking at its 100 ms timer sees it expire.        *)
FairSpec ==
    /\ Spec
    /\ WF_vars(ClientStep) /\ WF_vars(Broker)
    /\ WF_vars(KeepAliveExpires) /\ WF_vars(DelayExpires)
    /\ SF_vars(Check /\ pc' = "return")

(* And the broker can be reached in the end. *)
ReachableSpec == FairSpec /\ SF_vars(Connect /\ conn' = "open")

----------------------------------------------------------------------------
(* Properties *)

(* The return codes the main loop acts on tell the client's state: it      *)
(* publishes on an idle client, and while the yield answers ATTEMPTING_    *)
(* RECONNECT the client is reconnecting.  So no call is ever refused as    *)
(* NOT_IDLE or DISCONNECTED between two outages.                           *)
CodesTellState ==
    pc \in {"app", "test"} =>
        /\ rc \in {"SUCCESS", "RECONNECTED"} => clientState = "CONNECTED_IDLE"
        /\ rc = "ATTEMPTING_RECONNECT" => Reconnecting

(* What the task relies on: a yield that succeeds leaves a client that     *)
(* believes itself connected, a publication is refused only when it does   *)
(* not, and only a yield makes or gives up a connection.                   *)
At ==
    IF pc \in {"connect", "subscribe", "suback"} THEN "start"
    ELSE IF pc = "app" THEN "app"
    ELSE IF pc = "test" /\ rc \notin GoOn THEN "abort"
    ELSE "yield"

Usable == clientState \in {"CONNECTED_IDLE", "YIELD_IN_PROGRESS"}

Link ==
    IF At = "start" \/ ~ Usable THEN "down"
    ELSE IF conn = "open" THEN "up" ELSE "lost"

Code ==
    IF At \in {"app", "abort"} /\ rc \notin {"SUCCESS", "RECONNECTED"}
    THEN "ERROR" ELSE "SUCCESS"

Service == INSTANCE ClientService WITH at <- At, link <- Link, rc <- Code

ServiceSpec == Service!Spec

(* The board restarts out of its main loop only after the whole backoff of *)
(* an outage, or on a packet that came in pieces; no sequence of losses,   *)
(* late answers and failed attempts short of that makes it give up.  (A    *)
(* packet too long for the read buffer does as well; there is none on this *)
(* wire, and it would come under FAILURE.)                                 *)
GivesUpLate ==
    pc = "test" /\ rc \notin GoOn =>
        rc = "FAILURE" \/ (Reconnecting /\ interval > MaxInterval)

(* On an open connection isPingOutstanding says exactly that a ping or its *)
(* answer is under way, and there is never more than one: a reconnection   *)
(* forgets the ping of the connection before, and an answer read while the *)
(* client waits for something else is not missed.                          *)
Pings   == {i \in DOMAIN outbox : outbox[i] = Ping}
Answers == {i \in DOMAIN inbox : inbox[i] = "PINGRESP"}

OnePing ==
    conn = "open" =>
        /\ isPingOutstanding <=> (Pings # {} \/ Answers # {})
        /\ Pings = {} \/ Answers = {}
        /\ \A i, j \in Pings : i = j
        /\ \A i, j \in Answers : i = j

(* A client usable on an open connection gets its configuration: the       *)
(* broker forwards every topic that has a handler, or is about to read     *)
(* the SUBSCRIBE.  After a reconnection this hangs on the marks of the     *)
(* slots being cleared, on answers that are not told apart and on writes   *)
(* whose failure nobody sees.                                              *)
Forwarded(slot) ==
    slot \in brokerSubs \/ \E i \in DOMAIN outbox : outbox[i] = slot

ConfigArrives ==
    conn = "open" /\ Usable =>
        \A slot \in 1 .. subscribed : Forwarded(slot)

(* A path that was lost without a word is given up in the end: by the      *)
(* keep-alive, or by the backoff when it is lost while resubscribing.      *)
SilenceNoticed == conn = "silent" ~> conn # "silent"

(* However the network fails, the board comes back to a main loop with a   *)
(* working client once the broker can be reached, unless a stream out of   *)
(* step stays so.                                                          *)
ServesAgain ==
    []<>(conn # "garbled") =>
        []<>(pc = "app" /\ rc \in {"SUCCESS", "RECONNECTED"})
=============================================================================
