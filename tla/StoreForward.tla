---------------------------- MODULE StoreForward ----------------------------
(***************************************************************************)
(* Store and forward of readings (src/src/main.c): task_nvs saves readings *)
(* in the NVS ring (module Storage), task_connector copies them from the   *)
(* ring to Queue_data, aws_iot_task publishes what it finds in Queue_data  *)
(* and Queue_state.  The three tasks have one priority on two cores, so    *)
(* every library call is a step of its own.                                *)
(*                                                                         *)
(* task_adc_read appears only through what it shares with these tasks: the *)
(* flag energy and the messages it puts into Queue_state.  The MQTT client *)
(* appears through the return codes of its calls.                          *)
(***************************************************************************)
EXTENDS Storage, Sequences

CONSTANTS DataCap,      \* N_QUEUE, for Queue_data
          StateCap,     \* N_QUEUE, for Queue_state
          MaxConnErrors \* bound: NVS calls of task_connector that fail

ASSUME QueueAssumption ==
    /\ DataCap \in Nat \ {0}
    /\ StateCap \in Nat \ {0}
    /\ MaxConnErrors \in Nat

VARIABLES
    sent_counter,       \* key "sent_counter", as nvs_get_i32 returns it
    flash_sent,         \* what a reset would find under it
    conn_pc,            \* where task_connector stands
    conn_saved,         \* its local data_saved_counter
    data_sent_counter,  \* its local data_sent_counter; the loop's i is always equal to it
    size_L,             \* its local size_L: the reading it is the length of
    conn_value,         \* the buffer it read the slot into
    complaints,         \* "NVS not available" messages it has still to send
    Queue_data,         \* buffers waiting for aws_iot_task
    state_len,          \* number of messages waiting in Queue_state
    energy,             \* external power, as task_adc_read sees it
    aws_pc,             \* where aws_iot_task stands
    rc,                 \* its last return code
    forwarded,          \* history: last counter forwarded in this boot, 0 before
    conn_errors         \* history: failed NVS calls of task_connector

connVars == <<sent_counter, conn_pc, conn_saved, data_sent_counter, size_L,
              conn_value, complaints, forwarded, conn_errors>>
awsVars  == <<aws_pc, rc>>
queues   == <<Queue_data, state_len>>
vars     == <<storageVars, flash_sent, connVars, awsVars, queues, energy>>

(* A buffer is named by the reading in it; 0 is a buffer malloc returned   *)
(* and nobody filled.                                                      *)
Garbage == 0

ConnPC == {"delay", "get_saved", "complain_saved", "get_sent", "loop", "get_size",
           "get_str", "send", "set_sent", "complain"}
AwsPC  == {"connect", "yield", "data", "data_recv", "data_pub", "state",
           "state_recv", "state_pub", "check_rc"}

(* SUCCESS stands for NETWORK_RECONNECTED as well: no test tells them      *)
(* apart.                                                                  *)
Codes  == {"SUCCESS", "ATTEMPTING", "ERROR"}

TypeOK ==
    /\ StorageTypeOK
    /\ sent_counter \in Nat /\ flash_sent \in Nat
    /\ conn_saved \in Nat /\ data_sent_counter \in Nat
    /\ size_L \in Nat /\ conn_value \in Nat
    /\ forwarded \in Nat
    /\ conn_pc \in ConnPC
    /\ complaints \in 0 .. 3
    /\ conn_pc \in {"complain", "complain_saved"} => complaints > 0
    /\ Queue_data \in Seq(Nat)
    /\ Len(Queue_data) <= DataCap
    /\ state_len \in 0 .. StateCap
    /\ energy \in BOOLEAN
    /\ aws_pc \in AwsPC
    /\ rc \in Codes
    /\ conn_errors \in 0 .. MaxConnErrors

(* A boot with blank NVS counters. *)
Init ==
    /\ StorageInit
    /\ sent_counter = 0
    /\ flash_sent = 0
    /\ conn_pc = "delay"
    /\ conn_saved = 0
    /\ data_sent_counter = 0
    /\ size_L = 0
    /\ conn_value = Garbage
    /\ complaints = 0
    /\ forwarded = 0
    /\ conn_errors = 0
    /\ aws_pc = "connect"
    /\ rc = "ERROR"
    /\ Queue_data = <<>>
    /\ state_len = 0
    /\ energy = FALSE

----------------------------------------------------------------------------
(* task_connector                                                          *)

ConnUnchanged == UNCHANGED <<storageVars, flash_sent, awsVars, energy>>

(* nvs_open succeeds *)
ConnOpen ==
    /\ conn_pc = "delay"
    /\ conn_pc' = "get_saved"
    /\ UNCHANGED <<sent_counter, conn_saved, data_sent_counter, size_L, conn_value,
                   complaints, forwarded, conn_errors, queues>>
    /\ ConnUnchanged

(* nvs_open fails.  The task goes on with the invalid handle: both reads   *)
(* fail, each failure queues a message, and with a saved counter of 0      *)
(* there is nothing to send.                                               *)
ConnOpenFails ==
    /\ conn_pc = "delay"
    /\ conn_errors < MaxConnErrors
    /\ conn_errors' = conn_errors + 1
    /\ conn_saved' = 0
    /\ data_sent_counter' = 1
    /\ complaints' = 3
    /\ conn_pc' = "complain"
    /\ UNCHANGED <<sent_counter, size_L, conn_value, forwarded, queues>>
    /\ ConnUnchanged

(* xQueueSend(Queue_state, "NVS not available", portMAX_DELAY), and on to  *)
(* what follows the call that failed.                                      *)
ConnComplain ==
    /\ conn_pc \in {"complain", "complain_saved"}
    /\ state_len < StateCap
    /\ state_len' = state_len + 1
    /\ complaints' = complaints - 1
    /\ conn_pc' = IF complaints > 1 THEN conn_pc
                  ELSE IF conn_pc = "complain_saved" THEN "get_sent" ELSE "loop"
    /\ UNCHANGED <<sent_counter, conn_saved, data_sent_counter, size_L, conn_value,
                   forwarded, conn_errors, Queue_data>>
    /\ ConnUnchanged

(* nvs_get_i32(saved_counter) *)
ConnGetSaved ==
    /\ conn_pc = "get_saved"
    /\ conn_saved' = saved_counter
    /\ conn_pc' = "get_sent"
    /\ UNCHANGED <<sent_counter, data_sent_counter, size_L, conn_value, complaints,
                   forwarded, conn_errors, queues>>
    /\ ConnUnchanged

(* It fails alone: a message, and a pass with nothing to send. *)
ConnGetSavedFails ==
    /\ conn_pc = "get_saved"
    /\ conn_errors < MaxConnErrors
    /\ conn_errors' = conn_errors + 1
    /\ conn_saved' = 0
    /\ complaints' = 1
    /\ conn_pc' = "complain_saved"
    /\ UNCHANGED <<sent_counter, data_sent_counter, size_L, conn_value, forwarded,
                   queues>>
    /\ ConnUnchanged

(* nvs_get_i32(sent_counter); data_sent_counter++ *)
ConnGetSent ==
    /\ conn_pc = "get_sent"
    /\ data_sent_counter' = sent_counter + 1
    /\ conn_pc' = "loop"
    /\ UNCHANGED <<sent_counter, conn_saved, size_L, conn_value, complaints,
                   forwarded, conn_errors, queues>>
    /\ ConnUnchanged

(* It fails: a message, and the pass starts over from the first record. *)
ConnGetSentFails ==
    /\ conn_pc = "get_sent"
    /\ conn_errors < MaxConnErrors
    /\ conn_errors' = conn_errors + 1
    /\ data_sent_counter' = 1
    /\ complaints' = 1
    /\ conn_pc' = "complain"
    /\ UNCHANGED <<sent_counter, conn_saved, size_L, conn_value, forwarded, queues>>
    /\ ConnUnchanged

(* Mutant: the loop stops before the last record. *)
ConnLoop_Short ==
    /\ conn_pc = "loop"
    /\ conn_pc' = IF data_sent_counter < conn_saved THEN "get_size" ELSE "delay"
    /\ UNCHANGED <<sent_counter, conn_saved, data_sent_counter, size_L, conn_value,
                   complaints, forwarded, conn_errors, queues>>
    /\ ConnUnchanged

(* Mutant: the loop runs one record too far. *)
ConnLoop_TooFar ==
    /\ conn_pc = "loop"
    /\ conn_pc' = IF data_sent_counter <= conn_saved + 1 THEN "get_size" ELSE "delay"
    /\ UNCHANGED <<sent_counter, conn_saved, data_sent_counter, size_L, conn_value,
                   complaints, forwarded, conn_errors, queues>>
    /\ ConnUnchanged

(* The for condition, false when nothing was ever saved: next record or    *)
(* nvs_close and vTaskDelay.                                               *)
ConnLoop ==
    /\ conn_pc = "loop"
    /\ conn_pc' = IF data_sent_counter <= conn_saved THEN "get_size" ELSE "delay"
    /\ UNCHANGED <<sent_counter, conn_saved, data_sent_counter, size_L, conn_value,
                   complaints, forwarded, conn_errors, queues>>
    /\ ConnUnchanged

(* Mutant: the key of the next record. *)
TextHere_Next == ring[Slot(data_sent_counter + 1)]

(* nvs_get_str sets size_L to the length of the text it finds; a missing   *)
(* key leaves it alone.                                                    *)
TextHere == ring[Slot(data_sent_counter)]
LengthHere == IF TextHere = 0 THEN size_L ELSE TextHere

(* nvs_get_str(idx, NULL, &size_L) *)
ConnGetSize ==
    /\ conn_pc = "get_size"
    /\ size_L' = LengthHere
    /\ conn_pc' = "get_str"
    /\ UNCHANGED <<sent_counter, conn_saved, data_sent_counter, conn_value, complaints,
                   forwarded, conn_errors, queues>>
    /\ ConnUnchanged

(* malloc(size_L); nvs_get_str(idx, read_value, &size_L).  The buffer      *)
(* stays unfilled when the key is missing, and when the text no longer     *)
(* fits because another one has taken its place since its size was read.   *)
ConnGetStr ==
    /\ conn_pc = "get_str"
    /\ conn_value' \in {TextHere, Garbage}
    /\ TextHere = size_L => conn_value' = TextHere
    /\ size_L = 0 => conn_value' = Garbage
    /\ size_L' = LengthHere
    /\ conn_pc' = "send"
    /\ UNCHANGED <<sent_counter, conn_saved, data_sent_counter, complaints,
                   forwarded, conn_errors, queues>>
    /\ ConnUnchanged

(* Either of the two calls fails.  The code looks at neither result: the   *)
(* length stays that of an earlier text, the buffer stays unfilled.        *)
ConnFetchFails ==
    /\ conn_errors < MaxConnErrors
    /\ conn_errors' = conn_errors + 1
    /\ \/ /\ conn_pc = "get_size" /\ conn_pc' = "get_str"
          /\ UNCHANGED conn_value
       \/ /\ conn_pc = "get_str" /\ conn_pc' = "send"
          /\ conn_value' = Garbage
    /\ UNCHANGED <<sent_counter, conn_saved, data_sent_counter, size_L, complaints,
                   forwarded, queues>>
    /\ ConnUnchanged

(* Mutant: the send does not wait for room. *)
ConnSend_NoWait ==
    /\ conn_pc = "send"
    /\ Queue_data' = Append(Queue_data, conn_value)
    /\ forwarded' = data_sent_counter
    /\ data_sent_counter' = data_sent_counter + 1
    /\ conn_pc' = "set_sent"
    /\ UNCHANGED <<sent_counter, conn_saved, size_L, conn_value, complaints,
                   conn_errors, state_len>>
    /\ ConnUnchanged

(* xQueueSend(Queue_data, &read_value, portMAX_DELAY); data_sent_counter++ *)
ConnSend ==
    /\ conn_pc = "send"
    /\ Len(Queue_data) < DataCap
    /\ Queue_data' = Append(Queue_data, conn_value)
    /\ forwarded' = data_sent_counter
    /\ data_sent_counter' = data_sent_counter + 1
    /\ conn_pc' = "set_sent"
    /\ UNCHANGED <<sent_counter, conn_saved, size_L, conn_value, complaints,
                   conn_errors, state_len>>
    /\ ConnUnchanged

(* Mutant: the result never reaches NVS. *)
ConnSetSent_Lost ==
    /\ conn_pc = "set_sent"
    /\ conn_pc' = "loop"
    /\ UNCHANGED <<sent_counter, conn_saved, data_sent_counter, size_L, conn_value,
                   complaints, forwarded, conn_errors, queues>>
    /\ ConnUnchanged

(* Mutant: the wrong key. *)
ConnSetSent_WrongKey ==
    /\ conn_pc = "set_sent"
    /\ saved_counter' = data_sent_counter
    /\ conn_pc' = "loop"
    /\ UNCHANGED <<sent_counter, conn_saved, data_sent_counter, size_L, conn_value,
                   complaints, forwarded, conn_errors, queues, ring, flash_saved,
                   flash_ring, nvs_pc, data_saved_counter, durable, errors, resets,
                   flash_sent, awsVars, energy>>

(* nvs_set_i32(sent_counter), never followed by nvs_commit on this handle *)
ConnSetSent ==
    /\ conn_pc = "set_sent"
    /\ sent_counter' = data_sent_counter
    /\ conn_pc' = "loop"
    /\ UNCHANGED <<conn_saved, data_sent_counter, size_L, conn_value, complaints,
                   forwarded, conn_errors, queues>>
    /\ ConnUnchanged

ConnSetSentFails ==
    /\ conn_pc = "set_sent"
    /\ conn_errors < MaxConnErrors
    /\ conn_errors' = conn_errors + 1
    /\ complaints' = 1
    /\ conn_pc' = "complain"
    /\ UNCHANGED <<sent_counter, conn_saved, data_sent_counter, size_L, conn_value,
                   forwarded, queues>>
    /\ ConnUnchanged

ConnStep ==
    \/ ConnOpen \/ ConnOpenFails \/ ConnComplain
    \/ ConnGetSaved \/ ConnGetSavedFails \/ ConnGetSent \/ ConnGetSentFails
    \/ ConnLoop \/ ConnGetSize \/ ConnGetStr \/ ConnFetchFails \/ ConnSend
    \/ ConnSetSent \/ ConnSetSentFails

----------------------------------------------------------------------------
(* aws_iot_task                                                            *)

AwsUnchanged == UNCHANGED <<storageVars, flash_sent, connVars, energy>>

(* The connection loop ends, auto-reconnect is on, the subscription made. *)
AwsConnect ==
    /\ aws_pc = "connect"
    /\ aws_pc' = "yield"
    /\ rc' = "SUCCESS"
    /\ UNCHANGED queues
    /\ AwsUnchanged

(* rc = aws_iot_mqtt_yield(&client_AWS, 100).  Only an attempt to          *)
(* reconnect skips the rest of the loop; an error does not.                *)
AwsYield ==
    /\ aws_pc = "yield"
    /\ rc' \in Codes
    /\ rc' = "ERROR" => resets < MaxResets
    /\ aws_pc' = IF rc' = "ATTEMPTING" THEN "yield" ELSE "data"
    /\ UNCHANGED queues
    /\ AwsUnchanged

(* uxQueueMessagesWaiting( Queue_data ) > 0 && energy *)
AwsCheckData ==
    /\ aws_pc = "data"
    /\ aws_pc' = IF Queue_data # <<>> /\ energy THEN "data_recv" ELSE "state"
    /\ UNCHANGED <<rc, queues>>
    /\ AwsUnchanged

(* Mutant: a peek in place of the receive. *)
AwsReceiveData_Peek ==
    /\ aws_pc = "data_recv"
    /\ aws_pc' = "data_pub"
    /\ UNCHANGED <<rc, queues>>
    /\ AwsUnchanged

(* xQueueReceive( Queue_data, &read_value, 0): an empty queue would leave  *)
(* read_value at the buffer freed the last time.                           *)
AwsReceiveData ==
    /\ aws_pc = "data_recv"
    /\ Queue_data' = IF Queue_data = <<>> THEN <<>> ELSE Tail(Queue_data)
    /\ aws_pc' = "data_pub"
    /\ UNCHANGED <<rc, state_len>>
    /\ AwsUnchanged

(* rc = aws_iot_mqtt_publish(...): what the two publishes have in common *)
Publish ==
    /\ rc' \in {"SUCCESS", "ERROR"}
    /\ rc' = "ERROR" => resets < MaxResets

(* publish on DATA_TOPIC; free(read_value) *)
AwsPublishData ==
    /\ aws_pc = "data_pub"
    /\ Publish
    /\ aws_pc' = "state"
    /\ UNCHANGED queues
    /\ AwsUnchanged

(* uxQueueMessagesWaiting( Queue_state ) > 0 *)
AwsCheckState ==
    /\ aws_pc = "state"
    /\ aws_pc' = IF state_len > 0 THEN "state_recv" ELSE "check_rc"
    /\ UNCHANGED <<rc, queues>>
    /\ AwsUnchanged

(* xQueueReceive( Queue_state, status, 0) *)
AwsReceiveState ==
    /\ aws_pc = "state_recv"
    /\ state_len' = IF state_len = 0 THEN 0 ELSE state_len - 1
    /\ aws_pc' = "state_pub"
    /\ UNCHANGED <<rc, Queue_data>>
    /\ AwsUnchanged

(* publish on STATE_TOPIC; its code replaces that of the data publish *)
AwsPublishState ==
    /\ aws_pc = "state_pub"
    /\ Publish
    /\ aws_pc' = "check_rc"
    /\ UNCHANGED queues
    /\ AwsUnchanged

(* vTaskDelay and the while condition; an error leaves the loop to abort() *)
(* and is then waiting for the reset.                                      *)
AwsCheckRc ==
    /\ aws_pc = "check_rc"
    /\ rc # "ERROR"
    /\ aws_pc' = "yield"
    /\ UNCHANGED <<rc, queues>>
    /\ AwsUnchanged

AwsStep ==
    \/ AwsConnect \/ AwsYield \/ AwsCheckData \/ AwsReceiveData \/ AwsPublishData
    \/ AwsCheckState \/ AwsReceiveState \/ AwsPublishState \/ AwsCheckRc

----------------------------------------------------------------------------
(* The rest of the system *)

(* task_nvs, and NVS writing its keys to flash.  Only a reset shows what   *)
(* is in flash, so a pending key is written early only while the bound     *)
(* MaxResets lets one follow.                                              *)
NvsStep ==
    /\ SaveStep \/ (FlashWrite /\ resets < MaxResets)
    /\ UNCHANGED <<flash_sent, connVars, awsVars, queues, energy>>

(* External: the pending key sent_counter reaches the flash. *)
FlashWriteSent ==
    /\ resets < MaxResets
    /\ flash_sent # sent_counter
    /\ flash_sent' = sent_counter
    /\ UNCHANGED <<storageVars, connVars, awsVars, queues, energy>>

(* task_adc_read sees the external power come or go ... *)
AdcEnergy ==
    /\ energy' = ~energy
    /\ UNCHANGED <<storageVars, flash_sent, connVars, awsVars, queues>>

(* ... or queues an alert. *)
AdcState ==
    /\ state_len < StateCap
    /\ state_len' = state_len + 1
    /\ UNCHANGED <<storageVars, flash_sent, connVars, awsVars, Queue_data, energy>>

(* abort() of aws_iot_task or a power cut: the queues and the tasks' state *)
(* are gone, NVS is read back from flash or, if app_main erased it, blank. *)
Reset ==
    /\ \/ StorageReset /\ sent_counter' = flash_sent /\ UNCHANGED flash_sent
       \/ StorageErase /\ sent_counter' = 0 /\ flash_sent' = 0
    /\ conn_pc' = "delay"
    /\ conn_saved' = 0
    /\ data_sent_counter' = 0
    /\ size_L' = 0
    /\ conn_value' = Garbage
    /\ complaints' = 0
    /\ forwarded' = 0
    /\ aws_pc' = "connect"
    /\ rc' = "ERROR"
    /\ Queue_data' = <<>>
    /\ state_len' = 0
    /\ energy' = FALSE
    /\ UNCHANGED conn_errors

Next == \/ NvsStep \/ FlashWriteSent \/ ConnStep \/ AwsStep
        \/ AdcEnergy \/ AdcState \/ Reset

Spec == Init /\ [][Next]_vars

(* FreeRTOS time-slices ready tasks of one priority, so each of the three  *)
(* tasks goes on running as long as it is not blocked.  Nothing is assumed *)
(* of the power, the network or the ADC.                                   *)
Fairness == WF_vars(NvsStep) /\ WF_vars(ConnStep) /\ WF_vars(AwsStep)

FairSpec == Spec /\ Fairness

----------------------------------------------------------------------------
(* Properties *)

NoFault == FaultFree /\ conn_errors = 0

(* aws_iot_task looks whether a queue is empty and receives from it in two *)
(* calls, with a zero timeout and without looking at the result, so a miss *)
(* would publish and free the previous buffer again.  It never misses:     *)
(* nobody else takes from the queues between the two calls.                *)
ReceiveFindsItem ==
    /\ aws_pc = "data_recv"  => Queue_data # <<>>
    /\ aws_pc = "state_recv" => state_len > 0

(* Within a boot a pass leaves no gap, and from one pass to the next the   *)
(* connector leaves out at most the one record sent_counter names: the     *)
(* value stored already is the next one to send, and it is incremented     *)
(* again when read.  A pass that could not read sent_counter sends from    *)
(* the first record on; what it then fails to store may leave sent_counter *)
(* where it was, and only if a reset took the writer's count back before   *)
(* does that lie further ahead.  Without a failing call no record is sent  *)
(* twice.                                                                  *)
SkipsAtMostOne ==
    conn_pc = "send" /\ forwarded > 0 =>
        /\ resets = 0 \/ conn_errors < 2 => data_sent_counter <= forwarded + 2
        /\ conn_errors = 0 => data_sent_counter > forwarded

(* The connector runs at most one past the writer; a reset that lost the   *)
(* save in flight after its record had gone out, and its sent_counter had  *)
(* reached the flash, leaves it at most two past.                          *)
SentDrift ==
    errors = 0 => /\ sent_counter <= saved_counter + 2
                  /\ resets = 0 => sent_counter <= saved_counter + 1

(* The two tasks share the ring without a lock, and the length and the     *)
(* text are fetched by two calls.  Still, what a pass sends for a record   *)
(* is the record as it was saved, unless a call has failed or              *)
(*   - it is the newest one, counted but perhaps not written yet: then the *)
(*     record of the lap before or a buffer nobody filled goes out for it; *)
(*   - the writer has come round the ring meanwhile: then a later record   *)
(*     of the same slot does, or such a buffer;                            *)
(* never a record of another slot, nor any older one.                      *)
FetchExact ==
    conn_pc = "send" /\ FaultFree =>
        /\ \/ conn_value = Garbage
           \/ /\ Slot(conn_value) = Slot(data_sent_counter)
              /\ conn_value + RingSize >= data_sent_counter
              /\ data_sent_counter < conn_saved => conn_value >= data_sent_counter
        /\ data_sent_counter < conn_saved /\ saved_counter < data_sent_counter + RingSize =>
              conn_value = data_sent_counter \/ (conn_value = Garbage /\ conn_errors > 0)

(* What the connector's calls, interleaved with the other tasks', failing  *)
(* or not, come to is what module Connector says.  A pass begins when      *)
(* saved_counter is read, and one with nothing saved, or whose read or     *)
(* open failed, is none.                                                   *)
Idle == conn_pc \in {"delay", "get_saved"} \/ conn_saved = 0

Pass == INSTANCE Connector WITH
    Cap <- DataCap, saved <- saved_counter, sent <- sent_counter,
    at <- IF Idle THEN "idle" ELSE IF conn_pc = "set_sent" THEN "store" ELSE "pass",
    upto <- IF Idle THEN 0 ELSE conn_saved,
    next <- IF Idle THEN 0
            ELSE IF conn_pc = "get_sent" THEN sent_counter + 1 ELSE data_sent_counter,
    waiting <- Len(Queue_data)

ConnectorSpec == Pass!Spec

(* While the power stays, the client keeps coming out of its attempts to   *)
(* reconnect, and the alerts of task_adc_read do not take every room in    *)
(* Queue_state from a complaint that waits for one (a receive wakes the    *)
(* sender that has waited longest), no pass of the connector blocks for    *)
(* ever, on either queue.                                                  *)
LinkServed == <>[]energy /\ []<>(aws_pc = "data") /\ SF_vars(ConnComplain)

PassEnds == LinkServed => []<>(conn_pc = "delay")

(* Under the same conditions the connector keeps up with the writer: once  *)
(* another record has been saved after it, a record or a later one goes    *)
(* out.  (The last record saved may be the one the next pass leaves out.)  *)
BacklogClears ==
    LinkServed /\ [](resets = 0) =>
        \A c \in 1 .. MaxSaves - 1 : saved_counter > c ~> forwarded >= c

(* What "sent_counter" says: the records up to it are sent.  Violated.     *)
NoRecordSkipped ==
    conn_pc = "send" /\ NoFault /\ forwarded > 0 =>
        data_sent_counter = forwarded + 1
=============================================================================
