------------------------------- MODULE Config -------------------------------
(***************************************************************************)
(* Remote configuration: the MQTT callback queues the payload, task_config *)
(* applies its numbers to the globals threshold_min, threshold_max and     *)
(* rate and stores them in NVS (src/src/main.c, src/src/storage.c); the    *)
(* next boot loads them back.                                              *)
(*                                                                         *)
(* A payload is abstracted to the sequence of numbers parserJsonIntValues  *)
(* finds in it (module ConfigParser): the parser is positional.  The       *)
(* setters and the savers are steps of their own, since ADC and NVS tasks  *)
(* read the globals and the power may go at any point.  NVS is modelled    *)
(* from its contract, as in module Storage.                                *)
(***************************************************************************)
EXTENDS Integers, Sequences

CONSTANTS Messages,    \* payloads the broker may send, as sequences of numbers
          StackValues, \* what parsedValues may hold before anything is stored in it
          ConfigCap,   \* N_QUEUE, for Queue_config
          MaxMessages, \* bound: payloads received
          MaxResets,   \* bound: resets of the board
          MaxErrors,   \* bound: NVS calls that fail
          Unset        \* a key never written

ASSUME ConfigAssumption ==
    /\ Messages \subseteq Seq(Int)
    /\ StackValues \subseteq [1 .. 3 -> Int]
    /\ StackValues # {}
    /\ ConfigCap \in Nat \ {0}
    /\ MaxMessages \in Nat
    /\ MaxResets \in Nat
    /\ MaxErrors \in Nat
    /\ Unset \notin Int

VARIABLES
    settings,      \* the globals threshold_min, threshold_max and rate
    stored,        \* their keys in NVS, as nvs_get_i32 returns them
    flash,         \* what a reset would find under the keys
    Queue_config,  \* payloads waiting for task_config
    parsedValues,  \* its local array, never initialised
    cfg_pc,        \* where task_config stands
    previous,      \* history: the settings before the last payload was applied
    messages,      \* history: payloads received
    errors,        \* history: failed NVS calls
    resets         \* history: resets

vars == <<settings, stored, flash, Queue_config, parsedValues, cfg_pc, previous,
          messages, errors, resets>>

Fields == {"threshold_min", "threshold_max", "rate"}

TEMP_MIN == -20
TEMP_MAX == 70
RATE_MIN == 10
Defaults == [threshold_min |-> 0, threshold_max |-> 50, rate |-> 60]

TypeOK ==
    /\ settings \in [Fields -> Int]
    /\ stored \in [Fields -> Int \cup {Unset}]
    /\ flash \in [Fields -> Int \cup {Unset}]
    /\ Queue_config \in Seq(Messages)
    /\ Len(Queue_config) <= ConfigCap
    /\ parsedValues \in [1 .. 3 -> Int]
    /\ cfg_pc \in {"receive", "threshold_min", "threshold_max", "rate",
                   "save_min", "save_max", "save_rate", "commit"}
    /\ previous \in [Fields -> Int]
    /\ messages \in 0 .. MaxMessages
    /\ errors \in 0 .. MaxErrors
    /\ resets \in 0 .. MaxResets

(* load_config: a missing key is no error and keeps the initial value. *)
Loaded(keys) == [f \in Fields |-> IF keys[f] = Unset THEN Defaults[f] ELSE keys[f]]

Init ==
    /\ settings = Defaults
    /\ stored = [f \in Fields |-> Unset]
    /\ flash = [f \in Fields |-> Unset]
    /\ Queue_config = <<>>
    /\ parsedValues \in StackValues
    /\ cfg_pc = "receive"
    /\ previous = Defaults
    /\ messages = 0
    /\ errors = 0
    /\ resets = 0

----------------------------------------------------------------------------
(* Mutant: the callback does not wait for room. *)
Callback_NoWait ==
    /\ messages < MaxMessages
    /\ \E m \in Messages : Queue_config' = Append(Queue_config, m)
    /\ messages' = messages + 1
    /\ UNCHANGED <<settings, stored, flash, parsedValues, cfg_pc, previous, errors, resets>>

(* iot_subscribe_callback_handler, in aws_iot_task: waits for room. *)
Callback ==
    /\ messages < MaxMessages
    /\ Len(Queue_config) < ConfigCap
    /\ \E m \in Messages : Queue_config' = Append(Queue_config, m)
    /\ messages' = messages + 1
    /\ UNCHANGED <<settings, stored, flash, parsedValues, cfg_pc, previous, errors, resets>>

(* Mutant: a peek in place of the receive. *)
Receive_Peek ==
    /\ cfg_pc = "receive"
    /\ Queue_config # <<>>
    /\ LET payload == Head(Queue_config)
       IN  parsedValues' = [i \in 1 .. 3 |-> IF i <= Len(payload) THEN payload[i]
                                                                  ELSE parsedValues[i]]
    /\ previous' = settings
    /\ cfg_pc' = "threshold_min"
    /\ UNCHANGED <<settings, stored, flash, Queue_config, messages, errors, resets>>

(* xQueueReceive; parserJsonIntValues.  The number of values found is not  *)
(* looked at: a position the payload does not have keeps what the array    *)
(* held before.                                                            *)
Receive ==
    /\ cfg_pc = "receive"
    /\ Queue_config # <<>>
    /\ LET payload == Head(Queue_config)
       IN  parsedValues' = [i \in 1 .. 3 |-> IF i <= Len(payload) THEN payload[i]
                                                                  ELSE parsedValues[i]]
    /\ Queue_config' = Tail(Queue_config)
    /\ previous' = settings
    /\ cfg_pc' = "threshold_min"
    /\ UNCHANGED <<settings, stored, flash, messages, errors, resets>>

(* Mutant: the limit is not checked. *)
Apply_Unchecked(here, next, value, ok) ==
    /\ cfg_pc = here
    /\ settings' = [settings EXCEPT ![here] = value]
    /\ cfg_pc' = next
    /\ UNCHANGED <<stored, flash, Queue_config, parsedValues, previous, messages, errors, resets>>

(* One global is set, if the value lies on the right side of its limit. *)
Apply(here, next, value, ok) ==
    /\ cfg_pc = here
    /\ settings' = IF ok THEN [settings EXCEPT ![here] = value] ELSE settings
    /\ cfg_pc' = next
    /\ UNCHANGED <<stored, flash, Queue_config, parsedValues, previous, messages, errors, resets>>

ApplyMin  == Apply("threshold_min", "threshold_max", parsedValues[1], parsedValues[1] >= TEMP_MIN)
ApplyMax  == Apply("threshold_max", "rate", parsedValues[2], parsedValues[2] <= TEMP_MAX)
ApplyRate == Apply("rate", "save_min", parsedValues[3], parsedValues[3] >= RATE_MIN)

(* Mutant: rate is saved under its old value. *)
Save_NotRate(here, field, next) ==
    /\ cfg_pc = here
    /\ stored' = IF field = "rate" THEN stored ELSE [stored EXCEPT ![field] = settings[field]]
    /\ cfg_pc' = next
    /\ UNCHANGED <<settings, flash, Queue_config, parsedValues, previous, messages, errors, resets>>

(* save_config: one nvs_set_i32 per global, in this order ... *)
Save(here, field, next) ==
    /\ cfg_pc = here
    /\ stored' = [stored EXCEPT ![field] = settings[field]]
    /\ cfg_pc' = next
    /\ UNCHANGED <<settings, flash, Queue_config, parsedValues, previous, messages, errors, resets>>

SaveMin  == Save("save_min", "threshold_min", "save_max")
SaveMax  == Save("save_max", "threshold_max", "save_rate")
SaveRate == Save("save_rate", "rate", "commit")

(* ... and one nvs_commit. *)
Commit ==
    /\ cfg_pc = "commit"
    /\ flash' = stored
    /\ cfg_pc' = "receive"
    /\ UNCHANGED <<settings, stored, Queue_config, parsedValues, previous, messages, errors, resets>>

(* A failing call ends save_config; task_config does not look at the       *)
(* result and waits for the next payload.                                  *)
SaveFails ==
    /\ cfg_pc \in {"save_min", "save_max", "save_rate", "commit"}
    /\ errors < MaxErrors
    /\ errors' = errors + 1
    /\ cfg_pc' = "receive"
    /\ UNCHANGED <<settings, stored, flash, Queue_config, parsedValues, previous, messages, resets>>

(* External: NVS may write a pending key before the commit. *)
FlashWrite ==
    \E f \in Fields :
        /\ flash[f] # stored[f]
        /\ flash' = [flash EXCEPT ![f] = stored[f]]
        /\ UNCHANGED <<settings, stored, Queue_config, parsedValues, cfg_pc, previous,
                       messages, errors, resets>>

(* A reset, then app_main: load_config from flash, or from a partition     *)
(* just erased, or failing, which sets all three to their defaults.        *)
Reboot(keys, loaded) ==
    /\ resets < MaxResets
    /\ resets' = resets + 1
    /\ flash' = keys
    /\ stored' = keys
    /\ settings' = loaded
    /\ previous' = loaded
    /\ Queue_config' = <<>>
    /\ parsedValues' \in StackValues
    /\ cfg_pc' = "receive"
    /\ UNCHANGED messages

Reset == Reboot(flash, Loaded(flash)) /\ UNCHANGED errors

Erased == [f \in Fields |-> Unset]

ResetErase == Reboot(Erased, Defaults) /\ UNCHANGED errors

ResetLoadFails ==
    /\ errors < MaxErrors
    /\ errors' = errors + 1
    /\ Reboot(flash, Defaults)

ConfigStep == Receive \/ ApplyMin \/ ApplyMax \/ ApplyRate
              \/ SaveMin \/ SaveMax \/ SaveRate \/ Commit \/ SaveFails

Next == Callback \/ ConfigStep \/ FlashWrite \/ Reset \/ ResetErase \/ ResetLoadFails

Spec == Init /\ [][Next]_vars

FairSpec == Spec /\ WF_vars(ConfigStep)

----------------------------------------------------------------------------
(* Properties *)

InRange(f, v) ==
    CASE f = "threshold_min" -> v >= TEMP_MIN
      [] f = "threshold_max" -> v <= TEMP_MAX
      [] f = "rate"          -> v >= RATE_MIN

(* The limits of task_config hold for what is in force, stored and in      *)
(* flash, although load_config checks nothing, the array parsed into is    *)
(* not initialised and a payload may lack fields.                          *)
InLimits ==
    \A f \in Fields :
        /\ InRange(f, settings[f])
        /\ stored[f] # Unset => InRange(f, stored[f])
        /\ flash[f]  # Unset => InRange(f, flash[f])

(* A reset in the middle of a change mixes at most two configurations, the *)
(* one in force and the one before the last payload, field by field; while *)
(* task_config waits it changes nothing: what flash would load is what is  *)
(* in force.                                                               *)
MixesTwo ==
    errors = 0 =>
        /\ \A f \in Fields : Loaded(flash)[f] \in {settings[f], previous[f]}
        /\ cfg_pc = "receive" => Loaded(flash) = settings

(* The callback runs inside the MQTT client and waits for room in the      *)
(* queue: a full queue never stops the client for good.                    *)
CallbackNeverStuck == Len(Queue_config) = ConfigCap ~> Len(Queue_config) < ConfigCap
=============================================================================
