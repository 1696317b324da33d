----------------------------- MODULE Telemetry ------------------------------
(***************************************************************************)
(* task_adc_read (src/src/main.c): samples temperatures and battery every  *)
(* half second, raises and clears the temperature alert, tracks external   *)
(* power with the state machine dc_state, and reports to Queue_state,      *)
(* waiting whenever it is full.  task_config may move the thresholds and   *)
(* aws_iot_task takes messages between any two of its steps.               *)
(*                                                                         *)
(* Temperatures are uint32_t and the thresholds int, so the comparisons    *)
(* convert the threshold: Unsigned is that conversion, modulo Modulus,     *)
(* which stands for 2^32 and need only exceed every temperature.           *)
(***************************************************************************)
EXTENDS Integers, Sequences

CONSTANTS Temperatures, \* values a sensor may show
          MinValues,    \* values task_config may give threshold_min ...
          MaxValues,    \* ... and threshold_max
          Modulus,      \* 2^32
          StateCap      \* N_QUEUE, for Queue_state

ASSUME TelemetryAssumption ==
    /\ Modulus \in Nat \ {0}
    /\ Temperatures \subseteq 0 .. Modulus - 1
    /\ MinValues \subseteq Int
    /\ MaxValues \subseteq Int
    /\ StateCap \in Nat \ {0}

VARIABLES
    temperature,       \* datas.temperature_1 .. _3
    battery,           \* whether datas.battery > 0
    temperature_alert, \* datas.temperature_alert
    threshold_min,
    threshold_max,
    dc_state,
    energy,
    data,              \* the text in the task's local buffer
    Queue_state,
    adc_pc,            \* where the task stands
    aws_pc,            \* whether aws_iot_task has come to line 272, Queue_state
    power_told         \* history: the last power message queued

config == <<threshold_min, threshold_max>>
alert  == <<temperature_alert>>
power  == <<dc_state, energy, power_told>>
vars   == <<temperature, battery, alert, config, power, data, Queue_state, adc_pc, aws_pc>>

Sensors == 1 .. 3

(* "none" is the buffer before anything was printed into it. *)
Texts == {"none", "NORMAL_TEMP", "HIGH_TEMP", "LOW_TEMP", "DC_CONNECTED", "BATTERY_ONLY"}

TypeOK ==
    /\ temperature \in [Sensors -> Temperatures]
    /\ battery \in BOOLEAN
    /\ temperature_alert \in BOOLEAN
    /\ threshold_min \in MinValues
    /\ threshold_max \in MaxValues
    /\ dc_state \in {"DISCONNECTED", "CONNECTING", "CONNECTED", "DISCONNECTING"}
    /\ energy \in BOOLEAN
    /\ data \in Texts
    /\ Queue_state \in Seq(Texts)
    /\ Len(Queue_state) <= StateCap
    /\ adc_pc \in {"sample", "compare", "send_normal", "high", "send_high",
                   "low", "send_low", "dc", "send_dc"}
    /\ aws_pc \in {"busy", "state"}
    /\ power_told \in {"none", "DC_CONNECTED", "BATTERY_ONLY"}

Init ==
    /\ temperature \in [Sensors -> Temperatures]
    /\ battery = FALSE
    /\ temperature_alert = FALSE
    /\ threshold_min \in MinValues
    /\ threshold_max \in MaxValues
    /\ dc_state = "DISCONNECTED"
    /\ energy = FALSE
    /\ data = "none"
    /\ Queue_state = <<>>
    /\ adc_pc = "sample"
    /\ aws_pc = "busy"
    /\ power_told = "none"

----------------------------------------------------------------------------
(* One pass of task_adc_read *)

Unsigned(threshold) == threshold % Modulus

Above(s) == temperature[s] > Unsigned(threshold_max)
Below(s) == temperature[s] < Unsigned(threshold_min)

Sample ==
    /\ adc_pc = "sample"
    /\ temperature' \in [Sensors -> Temperatures]
    /\ battery' \in BOOLEAN
    /\ adc_pc' = "compare"
    /\ UNCHANGED <<alert, config, power, data, Queue_state>>

(* The condition of the first if.  Its last conjunct compares the third    *)
(* sensor with threshold_max again, not with threshold_min.                *)
Normal == /\ \A s \in Sensors : ~ Above(s)
          /\ ~ Below(1) /\ ~ Below(2)

(* Normal again after an alert, an alert already raised, or a new one? *)
Compare ==
    /\ adc_pc = "compare"
    /\ \/ /\ Normal /\ temperature_alert
          /\ data' = "NORMAL_TEMP"
          /\ adc_pc' = "send_normal"
       \/ /\ ~ Normal /\ ~ temperature_alert
          /\ adc_pc' = "high"
          /\ UNCHANGED data
       \/ /\ Normal # temperature_alert
          /\ adc_pc' = "dc"
          /\ UNCHANGED data
    /\ UNCHANGED <<temperature, battery, alert, config, power, Queue_state>>

(* Mutant: no waiting for room. *)
SendState_NoWait(text) == Queue_state' = Append(Queue_state, text)

(* xQueueSend( Queue_state, data, portMAX_DELAY) *)
SendState(text) ==
    /\ Len(Queue_state) < StateCap
    /\ Queue_state' = Append(Queue_state, text)

(* Mutant: the alert stays raised. *)
SendNormal_Keeps ==
    /\ adc_pc = "send_normal"
    /\ SendState(data)
    /\ adc_pc' = "dc"
    /\ UNCHANGED <<temperature, battery, alert, config, power, data>>

SendNormal ==
    /\ adc_pc = "send_normal"
    /\ SendState(data)
    /\ temperature_alert' = FALSE
    /\ adc_pc' = "dc"
    /\ UNCHANGED <<temperature, battery, config, power, data>>

(* The text is printed to the console, with the buffer as the format: the  *)
(* buffer itself does not change.                                          *)
High ==
    /\ adc_pc = "high"
    /\ adc_pc' = IF \E s \in Sensors : Above(s) THEN "send_high" ELSE "low"
    /\ UNCHANGED <<temperature, battery, alert, config, power, data, Queue_state>>

SendHigh ==
    /\ adc_pc = "send_high"
    /\ SendState(data)
    /\ temperature_alert' = TRUE
    /\ adc_pc' = "low"
    /\ UNCHANGED <<temperature, battery, config, power, data>>

Low ==
    /\ adc_pc = "low"
    /\ adc_pc' = IF \E s \in Sensors : Below(s) THEN "send_low" ELSE "dc"
    /\ UNCHANGED <<temperature, battery, alert, config, power, data, Queue_state>>

SendLow ==
    /\ adc_pc = "send_low"
    /\ SendState(data)
    /\ temperature_alert' = TRUE
    /\ adc_pc' = "dc"
    /\ UNCHANGED <<temperature, battery, config, power, data>>

(* Mutant: a good sample sends DISCONNECTING back to CONNECTING. *)
DcQuiet_Bounce ==
    /\ adc_pc = "dc"
    /\ \/ /\ dc_state = "DISCONNECTED"
          /\ energy' = FALSE
          /\ dc_state' = IF battery THEN "CONNECTING" ELSE "DISCONNECTED"
       \/ /\ dc_state = "CONNECTED"
          /\ energy' = TRUE
          /\ dc_state' = IF battery THEN "CONNECTED" ELSE "DISCONNECTING"
       \/ /\ dc_state = "CONNECTING" /\ ~ battery
          /\ UNCHANGED <<dc_state, energy>>
       \/ /\ dc_state = "DISCONNECTING" /\ battery
          /\ dc_state' = "CONNECTING"
          /\ UNCHANGED energy
    /\ adc_pc' = "sample"
    /\ UNCHANGED <<temperature, battery, alert, config, power_told, data, Queue_state>>

(* switch(dc_state), the cases without a message.  A lost sample does not  *)
(* send CONNECTING back, nor a good one DISCONNECTING.                     *)
DcQuiet ==
    /\ adc_pc = "dc"
    /\ \/ /\ dc_state = "DISCONNECTED"
          /\ energy' = FALSE
          /\ dc_state' = IF battery THEN "CONNECTING" ELSE "DISCONNECTED"
       \/ /\ dc_state = "CONNECTED"
          /\ energy' = TRUE
          /\ dc_state' = IF battery THEN "CONNECTED" ELSE "DISCONNECTING"
       \/ /\ dc_state = "CONNECTING" /\ ~ battery
          /\ UNCHANGED <<dc_state, energy>>
       \/ /\ dc_state = "DISCONNECTING" /\ battery
          /\ UNCHANGED <<dc_state, energy>>
    /\ adc_pc' = "sample"
    /\ UNCHANGED <<temperature, battery, alert, config, power_told, data, Queue_state>>

(* The two cases that print a message ... *)
DcReport ==
    /\ adc_pc = "dc"
    /\ \/ dc_state = "CONNECTING" /\ battery /\ data' = "DC_CONNECTED"
       \/ dc_state = "DISCONNECTING" /\ ~ battery /\ data' = "BATTERY_ONLY"
    /\ adc_pc' = "send_dc"
    /\ UNCHANGED <<temperature, battery, alert, config, power, Queue_state>>

(* Mutant: the state does not move on. *)
SendDc_Stays ==
    /\ adc_pc = "send_dc"
    /\ SendState(data)
    /\ power_told' = data
    /\ adc_pc' = "sample"
    /\ UNCHANGED <<temperature, battery, alert, config, dc_state, energy, data>>

(* ... and, once it is queued, move on. *)
SendDc ==
    /\ adc_pc = "send_dc"
    /\ SendState(data)
    /\ dc_state' = IF dc_state = "CONNECTING" THEN "CONNECTED" ELSE "DISCONNECTED"
    /\ power_told' = data
    /\ adc_pc' = "sample"
    /\ UNCHANGED <<temperature, battery, alert, config, energy, data>>

AdcStep ==
    /\ \/ Sample \/ Compare \/ SendNormal \/ High \/ SendHigh \/ Low \/ SendLow
       \/ DcQuiet \/ DcReport \/ SendDc
    /\ UNCHANGED aws_pc

----------------------------------------------------------------------------
(* task_config sets one threshold at a time. *)
SetThreshold ==
    /\ \/ threshold_min' \in MinValues /\ UNCHANGED threshold_max
       \/ threshold_max' \in MaxValues /\ UNCHANGED threshold_min
    /\ UNCHANGED <<temperature, battery, alert, power, data, Queue_state, adc_pc, aws_pc>>

(* aws_iot_task comes to Queue_state.  What keeps it away, for as long as  *)
(* it lasts: the loop that connects, and in the main loop every yield that *)
(* answers that it is still reconnecting.                                  *)
AwsComes ==
    /\ aws_pc = "busy"
    /\ aws_pc' = "state"
    /\ UNCHANGED <<temperature, battery, alert, config, power, data, Queue_state, adc_pc>>

(* It takes a message, if there is one, to publish it. *)
TakeState ==
    /\ aws_pc = "state"
    /\ Queue_state' = IF Queue_state = <<>> THEN <<>> ELSE Tail(Queue_state)
    /\ aws_pc' = "busy"
    /\ UNCHANGED <<temperature, battery, alert, config, power, data, adc_pc>>

Next == AdcStep \/ SetThreshold \/ AwsComes \/ TakeState

Spec == Init /\ [][Next]_vars

(* Neither task is starved.  Nothing is assumed of the network: whether    *)
(* aws_iot_task ever comes to Queue_state is a premise, StateServed.       *)
FairSpec == Spec /\ WF_vars(AdcStep) /\ WF_vars(TakeState)

----------------------------------------------------------------------------
(* Properties *)

(* Whoever follows the messages of Queue_state knows the power state: the  *)
(* last one queued says DC_CONNECTED exactly while dc_state counts the     *)
(* board as powered, however samples flicker and the queue blocks.         *)
PowerReported ==
    power_told = "DC_CONNECTED" <=> dc_state \in {"CONNECTED", "DISCONNECTING"}

(* energy, which gates the publication of readings, follows dc_state with  *)
(* one pass of delay, never more: it is off before the power is looked for *)
(* again and on before its loss is looked for.                             *)
EnergyFollows ==
    /\ dc_state = "CONNECTING" => ~ energy
    /\ dc_state = "DISCONNECTING" => energy
    /\ adc_pc = "send_dc" => (energy <=> data = "BATTERY_ONLY")

(* The client keeps coming out of connecting and reconnecting. *)
StateServed == []<>(aws_pc = "state")

(* Power that stays lets readings be published in the end, and power that  *)
(* is gone stops it, although every report may have to wait for room.  A   *)
(* client never served again would block task_adc_read at a full queue,    *)
(* and energy with it.                                                     *)
PowerSettles ==
    StateServed => /\ <>[]battery  => <>[]energy
                   /\ <>[]~battery => <>[]~energy

(* A temperature that stays too high raises the alert for good, one that   *)
(* stays too low does if it is one of the first two (line 314 does not     *)
(* look for it in the third), and temperatures the code takes for normal   *)
(* clear it, whatever the thresholds go through before, under the same     *)
(* premise.                                                                *)
AlertSettles ==
    StateServed =>
        /\ <>[](\E s \in Sensors : Above(s)) => <>[]temperature_alert
        /\ <>[](Below(1) \/ Below(2)) => <>[]temperature_alert
        /\ <>[]Normal => <>[]~temperature_alert

(* A statement of the source that does not hold. *)

(* {"tl":-10,...}: no temperature at or above the minimum counts as low. *)
LowIsLow ==
    [][ Low /\ adc_pc' = "send_low" =>
          \E s \in Sensors : temperature[s] < threshold_min ]_vars
=============================================================================
