------------------------------ MODULE Delivery ------------------------------
(***************************************************************************)
(* The way of a reading to the broker, from task_nvs over task_connector,  *)
(* Queue_data and aws_iot_task to AWS IoT (src/src/main.c), with outages   *)
(* of the network and resets.                                              *)
(*                                                                         *)
(* A reading is the number save_read_data gave it; what its slot holds     *)
(* when it is read is the question of StoreForward, and so are failing NVS *)
(* calls.  A step here is the part of a task between two points at which   *)
(* another task, the network or a reset makes a difference to the numbers: *)
(* only task_connector writes sent_counter, only aws_iot_task takes from   *)
(* Queue_data.                                                             *)
(*                                                                         *)
(* The MQTT client is ClientService, which module MqttClient implements:   *)
(* its calls change link and rc as the service allows.                     *)
(***************************************************************************)
EXTENDS Integers, Sequences, FiniteSets, Functions

CONSTANTS
    DataCap,   \* N_QUEUE, for Queue_data
    MaxSaves,  \* bound: readings counted
    MaxResets, \* bound: resets
    MaxFaults  \* bound: connections lost

ASSUME DeliveryAssumption ==
    /\ DataCap \in Nat \ {0}
    /\ {MaxSaves, MaxResets, MaxFaults} \subseteq Nat

VARIABLES
    saved_counter,     \* key "saved_counter", as nvs_get_i32 returns it
    flash_saved,       \* its last committed value
    sent_counter,      \* key "sent_counter", as nvs_get_i32 returns it
    flash_sent,        \* what a reset would find under it
    conn_pc,           \* where task_connector stands
    conn_saved,        \* its local data_saved_counter
    data_sent_counter, \* its local data_sent_counter
    Queue_data,        \* readings waiting for aws_iot_task
    energy,            \* external power, as task_adc_read sees it
    aws_pc,            \* where aws_iot_task stands
    read_value,        \* the reading it has taken and not yet published, or None
    rc,                \* its last return code, as in ClientService
    link,              \* the connection, as in ClientService
    received,          \* history: the readings the broker has got
    last,              \* history: the last one published in this boot, or None
    passes, dropped,   \* histories: passes that left a record out, publications
    resets, faults     \* that got nowhere, resets, connections lost

counters == <<saved_counter, flash_saved>>
connVars == <<sent_counter, conn_pc, conn_saved, data_sent_counter, passes>>
awsVars  == <<aws_pc, read_value, rc, received, last, dropped>>
vars == <<counters, flash_sent, connVars, Queue_data, energy, awsVars, link, resets, faults>>

None == 0

TypeOK ==
    /\ saved_counter \in 0 .. MaxSaves /\ flash_saved \in 0 .. MaxSaves
    /\ sent_counter \in Nat /\ flash_sent \in Nat
    /\ conn_saved \in Nat /\ data_sent_counter \in Nat
    /\ conn_pc \in {"delay", "loop", "set_sent"}
    /\ Queue_data \in Seq(Nat \ {None})
    /\ Len(Queue_data) <= DataCap
    /\ energy \in BOOLEAN
    /\ aws_pc \in {"connect", "yield", "data", "publish", "state", "abort"}
    /\ read_value \in Nat
    /\ aws_pc = "publish" <=> read_value # None
    /\ rc \in {"SUCCESS", "ERROR"}
    /\ link \in {"up", "lost", "down"}
    /\ received \subseteq Nat \ {None}
    /\ last \in Nat
    /\ passes \in Nat /\ dropped \in Nat
    /\ resets \in 0 .. MaxResets
    /\ faults \in 0 .. MaxFaults

Init ==
    /\ saved_counter = 0 /\ flash_saved = 0
    /\ sent_counter = 0 /\ flash_sent = 0
    /\ conn_pc = "delay"
    /\ conn_saved = 0
    /\ data_sent_counter = 0
    /\ Queue_data = <<>>
    /\ energy = FALSE
    /\ aws_pc = "connect"
    /\ read_value = None
    /\ rc = "SUCCESS"
    /\ link = "down"
    /\ received = {}
    /\ last = None
    /\ passes = 0 /\ dropped = 0
    /\ resets = 0 /\ faults = 0

----------------------------------------------------------------------------
(* task_nvs *)

(* save_read_data counts a reading.  The number may be one that was lost   *)
(* with a reset: what the broker has under it is an older reading.         *)
SaveCounter ==
    /\ saved_counter = flash_saved
    /\ saved_counter < MaxSaves
    /\ saved_counter' = saved_counter + 1
    /\ received' = received \ {saved_counter'}
    /\ UNCHANGED <<flash_saved, flash_sent, connVars, Queue_data, energy, aws_pc,
                   read_value, rc, last, dropped, link, resets, faults>>

(* nvs_commit, which may leave sent_counter, set on another handle, behind. *)
SaveCommit ==
    /\ saved_counter # flash_saved
    /\ flash_saved' = saved_counter
    /\ UNCHANGED <<saved_counter, flash_sent, connVars, Queue_data, energy, awsVars,
                   link, resets, faults>>

----------------------------------------------------------------------------
(* task_connector *)

(* Mutant: two added. *)
ConnBegin_Two ==
    /\ conn_pc = "delay"
    /\ conn_saved' = saved_counter
    /\ data_sent_counter' = sent_counter + 2
    /\ conn_pc' = "loop"
    /\ UNCHANGED <<counters, flash_sent, sent_counter, passes, Queue_data, energy,
                   awsVars, link, resets, faults>>

(* Both counters are read, and the second incremented. *)
ConnBegin ==
    /\ conn_pc = "delay"
    /\ conn_saved' = saved_counter
    /\ data_sent_counter' = sent_counter + 1
    /\ conn_pc' = "loop"
    /\ UNCHANGED <<counters, flash_sent, sent_counter, passes, Queue_data, energy,
                   awsVars, link, resets, faults>>

(* Mutant: no waiting for room. *)
ConnSend_NoWait ==
    /\ conn_pc = "loop"
    /\ data_sent_counter <= conn_saved
    /\ Queue_data' = Append(Queue_data, data_sent_counter)
    /\ data_sent_counter' = data_sent_counter + 1
    /\ passes' = IF sent_counter > 0 /\ data_sent_counter = sent_counter + 1
                 THEN passes + 1 ELSE passes
    /\ conn_pc' = "set_sent"
    /\ UNCHANGED <<counters, flash_sent, sent_counter, conn_saved, energy, awsVars,
                   link, resets, faults>>

(* The next record, once there is room for it.                             *)
ConnSend ==
    /\ conn_pc = "loop"
    /\ data_sent_counter <= conn_saved
    /\ Len(Queue_data) < DataCap
    /\ Queue_data' = Append(Queue_data, data_sent_counter)
    /\ data_sent_counter' = data_sent_counter + 1
    /\ passes' = IF sent_counter > 0 /\ data_sent_counter = sent_counter + 1
                 THEN passes + 1 ELSE passes
    /\ conn_pc' = "set_sent"
    /\ UNCHANGED <<counters, flash_sent, sent_counter, conn_saved, energy, awsVars,
                   link, resets, faults>>

(* Mutant: the result never reaches NVS. *)
ConnSetSent_Lost ==
    /\ conn_pc = "set_sent"
    /\ conn_pc' = "loop"
    /\ UNCHANGED <<counters, flash_sent, sent_counter, conn_saved, data_sent_counter,
                   passes, Queue_data, energy, awsVars, link, resets, faults>>

(* Mutant: the number is incremented once more. *)
ConnSetSent_TooFar ==
    /\ conn_pc = "set_sent"
    /\ sent_counter' = data_sent_counter + 1
    /\ conn_pc' = "loop"
    /\ UNCHANGED <<counters, flash_sent, conn_saved, data_sent_counter, passes,
                   Queue_data, energy, awsVars, link, resets, faults>>

(* What is stored is the record after the one just queued. *)
ConnSetSent ==
    /\ conn_pc = "set_sent"
    /\ sent_counter' = data_sent_counter
    /\ conn_pc' = "loop"
    /\ UNCHANGED <<counters, flash_sent, conn_saved, data_sent_counter, passes,
                   Queue_data, energy, awsVars, link, resets, faults>>

ConnEnd ==
    /\ conn_pc = "loop"
    /\ data_sent_counter > conn_saved
    /\ conn_pc' = "delay"
    /\ UNCHANGED <<counters, flash_sent, sent_counter, conn_saved, data_sent_counter,
                   passes, Queue_data, energy, awsVars, link, resets, faults>>

ConnStep == ConnBegin \/ ConnSend \/ ConnSetSent \/ ConnEnd

----------------------------------------------------------------------------
(* The MQTT client *)

At ==
    IF aws_pc = "connect" THEN "start"
    ELSE IF aws_pc \in {"data", "publish", "state"} THEN "app"
    ELSE aws_pc

Client == INSTANCE ClientService WITH at <- At

(* A connection that fails is a fault. *)
Counted ==
    IF \/ link' = "lost" /\ link # "lost"
       \/ link' = "down" /\ link = "up"
    THEN faults < MaxFaults /\ faults' = faults + 1
    ELSE UNCHANGED faults

(* The broker, or the network on the way to it, goes away; or a yield      *)
(* finds out, or makes a new connection.                                   *)
LinkStep ==
    /\ UNCHANGED <<counters, flash_sent, connVars, Queue_data, energy, awsVars, resets>>
    /\ Client!Lose \/ Client!Notice \/ Client!Repair
    /\ Counted

(* An error ends the main loop, and with it the boot. *)
MayFail == resets < MaxResets

----------------------------------------------------------------------------
(* aws_iot_task *)

AwsUnchanged == UNCHANGED <<counters, flash_sent, connVars, energy, resets>>

AwsConnect ==
    /\ aws_pc = "connect"
    /\ aws_pc' = "yield"
    /\ Client!Made
    /\ Counted
    /\ UNCHANGED <<Queue_data, read_value, rc, received, last, dropped>>
    /\ AwsUnchanged

(* While the client reconnects, the rest of the loop is skipped.           *)
AwsYield ==
    /\ aws_pc = "yield"
    /\ Client!YieldCode
    /\ rc' = "ERROR" => MayFail
    /\ aws_pc' = "data"
    /\ UNCHANGED <<Queue_data, read_value, link, received, last, dropped, faults>>
    /\ AwsUnchanged

AwsReceive ==
    /\ aws_pc = "data"
    /\ energy /\ Queue_data # <<>>
    /\ read_value' = Head(Queue_data)
    /\ Queue_data' = Tail(Queue_data)
    /\ aws_pc' = "publish"
    /\ UNCHANGED <<rc, link, received, last, dropped, faults>>
    /\ AwsUnchanged

AwsNoData ==
    /\ aws_pc = "data"
    /\ ~ energy \/ Queue_data = <<>>
    /\ aws_pc' = "state"
    /\ UNCHANGED <<Queue_data, read_value, rc, link, received, last, dropped, faults>>
    /\ AwsUnchanged

(* The buffer is freed whatever the code says. *)
AwsPublish ==
    /\ aws_pc = "publish"
    /\ Client!PublishCode
    /\ received' = IF link = "up" THEN received \cup {read_value} ELSE received
    /\ dropped' = IF link = "up" THEN dropped ELSE dropped + 1
    /\ last' = read_value
    /\ read_value' = None
    /\ aws_pc' = "state"
    /\ UNCHANGED <<Queue_data, link, faults>>
    /\ AwsUnchanged

(* A message of Queue_state, whose code replaces the one before, and the   *)
(* condition of the loop.                                                  *)
AwsState ==
    /\ aws_pc = "state"
    /\ UNCHANGED rc \/ Client!PublishCode
    /\ aws_pc' = IF rc' = "ERROR" THEN "abort" ELSE "yield"
    /\ UNCHANGED <<Queue_data, read_value, link, received, last, dropped, faults>>
    /\ AwsUnchanged

AwsStep ==
    \/ AwsConnect \/ AwsYield \/ AwsReceive \/ AwsNoData \/ AwsPublish \/ AwsState

----------------------------------------------------------------------------
(* The rest of the system *)

NvsStep == SaveCounter \/ SaveCommit

(* External: the pending key sent_counter reaches the flash. *)
FlashWriteSent ==
    /\ flash_sent # sent_counter
    /\ flash_sent' = sent_counter
    /\ UNCHANGED <<counters, connVars, Queue_data, energy, awsVars, link, resets, faults>>

(* task_adc_read sees the external power come or go. *)
AdcEnergy ==
    /\ energy' = ~energy
    /\ UNCHANGED <<counters, flash_sent, connVars, Queue_data, awsVars, link, resets, faults>>

(* abort() of aws_iot_task or a power cut: the queue and the tasks' locals *)
(* are gone, the keys are read back from flash.  The count in flight may   *)
(* have reached it.                                                        *)
Reset ==
    /\ resets < MaxResets
    /\ resets' = resets + 1
    /\ saved_counter' \in {saved_counter, flash_saved}
    /\ flash_saved' = saved_counter'
    /\ sent_counter' = flash_sent
    /\ conn_pc' = "delay"
    /\ conn_saved' = 0
    /\ data_sent_counter' = 0
    /\ Queue_data' = <<>>
    /\ energy' = FALSE
    /\ aws_pc' = "connect"
    /\ read_value' = None
    /\ rc' = "SUCCESS"
    /\ link' = "down"
    /\ last' = None
    /\ UNCHANGED <<flash_sent, received, passes, dropped, faults>>

Next ==
    \/ NvsStep \/ ConnStep \/ AwsStep
    \/ FlashWriteSent \/ AdcEnergy \/ LinkStep \/ Reset

Spec == Init /\ [][Next]_vars

(* The three tasks go on running as long as they are not blocked.  Nothing *)
(* is assumed of the power and the network.                                *)
FairSpec == Spec /\ WF_vars(NvsStep) /\ WF_vars(ConnStep) /\ WF_vars(AwsStep)

----------------------------------------------------------------------------
(* Properties *)

(* To task_connector all this is what module Connector says: neither the   *)
(* network nor the power changes which records it queues and what it       *)
(* stores.  Its locals mean nothing between two passes.                    *)
Idle == conn_pc = "delay"

Pass == INSTANCE Connector WITH
    Cap <- DataCap, saved <- saved_counter, sent <- sent_counter,
    at <- IF Idle THEN "idle" ELSE IF conn_pc = "set_sent" THEN "store" ELSE "pass",
    upto <- IF Idle THEN 0 ELSE conn_saved,
    next <- IF Idle THEN 0 ELSE data_sent_counter,
    waiting <- Len(Queue_data)

ConnectorSpec == Pass!Spec

(* Within a boot readings go to the broker in the order of their numbers,  *)
(* none of them twice, over any number of passes and outages: the number   *)
(* stored under sent_counter lies past every record queued.                *)
OrderKept == aws_pc = "publish" => read_value > last

(* Readings counted as sent that will never arrive. *)
Missing ==
    1 .. (sent_counter - 1) \ (received \cup {read_value} \cup Range(Queue_data))

(* What sent_counter counts as sent has arrived or is on its way, but for  *)
(* one record between two passes, those published over a connection that   *)
(* was gone, and, with each reset, those in Queue_data and the one in      *)
(* hand (or the one whose number is used again).                           *)
LossBounded ==
    Cardinality(Missing) <= passes + dropped + resets * (DataCap + 1)

(* While power stays, the client keeps coming back and nothing is lost to  *)
(* an outage or a reset, of two readings one after the other at least one  *)
(* arrives.                                                                *)
Served == <>[]energy /\ []<>(aws_pc = "data") /\ [](dropped = 0 /\ resets = 0)

OneOfTwoArrives ==
    Served => \A r \in 1 .. MaxSaves - 1 :
                  saved_counter > r ~> received \cap {r, r + 1} # {}
=============================================================================
