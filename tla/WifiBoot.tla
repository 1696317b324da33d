------------------------------ MODULE WifiBoot ------------------------------
(***************************************************************************)
(* Boot over WiFi (src/src/main.c): wifi_init_sta starts the driver and    *)
(* waits for a bit of wifi_event_group; esp32_wifi_eventHandler, in the    *)
(* event task, answers the driver's events; app_main then creates the      *)
(* tasks, of which aws_iot_task waits for the same bit, connects to the    *)
(* broker and subscribes.                                                  *)
(*                                                                         *)
(* The driver is external: the code sees its events, in the order they     *)
(* were posted, and asks it to connect.  Station mode posts no SYSTEM_     *)
(* EVENT_AP_* event, so those cases of the handler are left out.           *)
(***************************************************************************)
EXTENDS Naturals, Sequences

VARIABLES
    link,     \* the driver: off, idle, connecting or up (associated, with an IP)
    events,   \* events posted and not yet taken by the event task
    handler,  \* where esp32_wifi_eventHandler stands
    bits,     \* wifi_event_group
    main_pc,  \* where app_main stands
    aws_pc    \* where aws_iot_task stands

vars == <<link, events, handler, bits, main_pc, aws_pc>>

(* The driver never runs ahead of the handler by more than two events. *)
TypeOK ==
    /\ link \in {"off", "idle", "connecting", "up"}
    /\ events \in Seq({"STA_START", "STA_GOT_IP", "STA_DISCONNECTED"})
    /\ Len(events) <= 2
    /\ handler \in {"wait", "clear"}
    /\ bits \subseteq {"CONNECT_BIT", "STOP_BIT"}
    /\ main_pc \in {"start", "wait", "create", "done"}
    /\ aws_pc \in {"none", "wait", "connect", "delay", "subscribe", "loop", "abort"}

Init ==
    /\ link = "off"
    /\ events = <<>>
    /\ handler = "wait"
    /\ bits = {}
    /\ main_pc = "start"
    /\ aws_pc = "none"

----------------------------------------------------------------------------
(* External: the driver *)

Post(event) == events' = Append(events, event)

(* The attempt ends with an address ... *)
Accept ==
    /\ link = "connecting"
    /\ link' = "up"
    /\ Post("STA_GOT_IP")
    /\ UNCHANGED <<handler, bits, main_pc, aws_pc>>

(* ... or without one. *)
Refuse ==
    /\ link = "connecting"
    /\ link' = "idle"
    /\ Post("STA_DISCONNECTED")
    /\ UNCHANGED <<handler, bits, main_pc, aws_pc>>

Lose ==
    /\ link = "up"
    /\ link' = "idle"
    /\ Post("STA_DISCONNECTED")
    /\ UNCHANGED <<handler, bits, main_pc, aws_pc>>

(* esp_wifi_connect(): without effect while an attempt is under way. *)
esp_wifi_connect == link' = IF link = "idle" THEN "connecting" ELSE link

----------------------------------------------------------------------------
(* esp32_wifi_eventHandler *)

Take(event) ==
    /\ handler = "wait"
    /\ events # <<>> /\ Head(events) = event
    /\ events' = Tail(events)

OnStart ==
    /\ Take("STA_START")
    /\ esp_wifi_connect
    /\ UNCHANGED <<handler, bits, main_pc, aws_pc>>

(* Mutant: the address is not announced. *)
OnGotIp_Silent ==
    /\ Take("STA_GOT_IP")
    /\ UNCHANGED <<link, handler, bits, main_pc, aws_pc>>

OnGotIp ==
    /\ Take("STA_GOT_IP")
    /\ bits' = bits \cup {"CONNECT_BIT"}
    /\ UNCHANGED <<link, handler, main_pc, aws_pc>>

(* Mutant: no new attempt. *)
OnDisconnected_GivesUp ==
    /\ Take("STA_DISCONNECTED")
    /\ handler' = "clear"
    /\ UNCHANGED <<link, bits, main_pc, aws_pc>>

(* Mutant: the event is looked at and not taken. *)
OnDisconnected_Peek ==
    /\ handler = "wait"
    /\ events # <<>> /\ Head(events) = "STA_DISCONNECTED"
    /\ esp_wifi_connect
    /\ handler' = "clear"
    /\ UNCHANGED <<events, bits, main_pc, aws_pc>>

(* The new attempt is asked for first; it may have ended by the time ... *)
OnDisconnected ==
    /\ Take("STA_DISCONNECTED")
    /\ esp_wifi_connect
    /\ handler' = "clear"
    /\ UNCHANGED <<bits, main_pc, aws_pc>>

(* ... the bit is cleared. *)
ClearBit ==
    /\ handler = "clear"
    /\ bits' = bits \ {"CONNECT_BIT"}
    /\ handler' = "wait"
    /\ UNCHANGED <<link, events, main_pc, aws_pc>>

EventStep == OnStart \/ OnGotIp \/ OnDisconnected \/ ClearBit

----------------------------------------------------------------------------
(* app_main and wifi_init_sta *)

(* esp_wifi_start(), after the handler has been registered. *)
Start ==
    /\ main_pc = "start"
    /\ link' = "idle"
    /\ Post("STA_START")
    /\ main_pc' = "wait"
    /\ UNCHANGED <<handler, bits, aws_pc>>

(* xEventGroupWaitBits( CONNECT_BIT | STOP_BIT, any of them ) *)
WaitBits ==
    /\ main_pc = "wait"
    /\ bits \cap {"CONNECT_BIT", "STOP_BIT"} # {}
    /\ main_pc' = "create"
    /\ UNCHANGED <<link, events, handler, bits, aws_pc>>

CreateTasks ==
    /\ main_pc = "create"
    /\ aws_pc' = "wait"
    /\ main_pc' = "done"
    /\ UNCHANGED <<link, events, handler, bits>>

MainStep == Start \/ WaitBits \/ CreateTasks

----------------------------------------------------------------------------
(* aws_iot_task, up to its main loop *)

AwsWait ==
    /\ aws_pc = "wait"
    /\ "CONNECT_BIT" \in bits
    /\ aws_pc' = "connect"
    /\ UNCHANGED <<link, events, handler, bits, main_pc>>

(* aws_iot_mqtt_connect may fail although the link is up.  The bit is not  *)
(* waited for again.                                                       *)
AwsConnect ==
    /\ aws_pc = "connect"
    /\ \/ link = "up" /\ aws_pc' = "subscribe"
       \/ aws_pc' = "delay"
    /\ UNCHANGED <<link, events, handler, bits, main_pc>>

AwsDelay ==
    /\ aws_pc = "delay"
    /\ aws_pc' = "connect"
    /\ UNCHANGED <<link, events, handler, bits, main_pc>>

(* aws_iot_mqtt_subscribe, whose failure aborts. *)
AwsSubscribe ==
    /\ aws_pc = "subscribe"
    /\ \/ link = "up" /\ aws_pc' = "loop"
       \/ aws_pc' = "abort"
    /\ UNCHANGED <<link, events, handler, bits, main_pc>>

(* abort() resets the board. *)
Restart ==
    /\ aws_pc = "abort"
    /\ link' = "off"
    /\ events' = <<>>
    /\ handler' = "wait"
    /\ bits' = {}
    /\ main_pc' = "start"
    /\ aws_pc' = "none"

AwsStep == AwsWait \/ AwsConnect \/ AwsDelay \/ AwsSubscribe \/ Restart

Next == Accept \/ Refuse \/ Lose \/ EventStep \/ MainStep \/ AwsStep

Spec == Init /\ [][Next]_vars

(* No task is starved and the driver ends every attempt in one way or the  *)
(* other; nothing says in which.                                           *)
FairSpec == /\ Spec
            /\ WF_vars(EventStep) /\ WF_vars(MainStep) /\ WF_vars(AwsStep)
            /\ WF_vars(Accept \/ Refuse)

(* Besides, a broker in reach: a connection tried again and again over an  *)
(* existing link is not refused for ever.                                  *)
ReachableSpec == FairSpec /\ SF_vars(AwsConnect /\ aws_pc' = "subscribe")

----------------------------------------------------------------------------
(* Properties *)

(* Once every event has been handled, CONNECT_BIT says whether there is a  *)
(* link, although the new attempt may end, and the new link be lost,       *)
(* before the handler clears the bit.                                      *)
BitTracksLink ==
    events = <<>> /\ handler = "wait" => ("CONNECT_BIT" \in bits <=> link = "up")

(* The handler always keeps the driver busy: without a link and without an *)
(* event on its way, an attempt is under way.                              *)
AttemptPending ==
    main_pc # "start" /\ events = <<>> => link \in {"connecting", "up"}

(* aws_iot_task does not give up: once there is a link for good it serves  *)
(* the queues in the end, however often the link was lost or the broker    *)
(* refused before.                                                         *)
ServesInTheEnd == <>[](link = "up") => <>(aws_pc = "loop")
=============================================================================
