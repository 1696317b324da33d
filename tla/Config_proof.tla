---------------------------- MODULE Config_proof ----------------------------
(***************************************************************************)
(* Proofs about Config: types, limits, and what a reset finds in flash.    *)
(***************************************************************************)
EXTENDS Config, SequenceTheorems, TLAPS

----------------------------------------------------------------------------
(* Types *)

(* What load_config makes of typed keys are typed settings. *)
LEMMA LoadedTyped ==
    ASSUME NEW keys \in [Fields -> Int \cup {Unset}]
    PROVE  Loaded(keys) \in [Fields -> Int]
BY DEF Loaded, Defaults, Fields

(* The defaults are settings, and an erased partition is one of keys. *)
LEMMA DefaultsTyped ==
    /\ Defaults \in [Fields -> Int]
    /\ Erased \in [Fields -> Int \cup {Unset}]
    /\ Loaded(Erased) = Defaults
BY DEF Defaults, Erased, Fields, Loaded

(* Receiving a payload leaves three numbers in parsedValues, be the        *)
(* payload as short as it may.                                             *)
LEMMA ReceiveTyped ==
    ASSUME TypeOK, Receive
    PROVE  /\ parsedValues' \in [1 .. 3 -> Int]
           /\ Queue_config' \in Seq(Messages)
           /\ Len(Queue_config') <= ConfigCap
<1> DEFINE payload == Head(Queue_config)
<1>1. Queue_config \in Seq(Messages) /\ Queue_config # <<>>
  BY DEF Receive, TypeOK
<1>2. payload \in Messages /\ Tail(Queue_config) \in Seq(Messages)
      /\ Len(Tail(Queue_config)) = Len(Queue_config) - 1
  BY <1>1, HeadTailProperties
<1>3. payload \in Seq(Int)
  BY <1>2, ConfigAssumption
<1>4. \A i \in 1 .. 3 : i <= Len(payload) => payload[i] \in Int
  BY <1>3, ElementOfSeq
<1>5. parsedValues' \in [1 .. 3 -> Int]
  BY <1>4 DEF Receive, TypeOK
<1> QED
  BY <1>1, <1>2, <1>5, LenProperties, ConfigAssumption DEF Receive, TypeOK

(* Setting one global, or one key, leaves the others typed. *)
LEMMA ChangedTyped ==
    ASSUME NEW S, NEW keys \in [Fields -> S], NEW f \in Fields, NEW value \in S
    PROVE  [keys EXCEPT ![f] = value] \in [Fields -> S]
  OBVIOUS

(* Every step keeps the types. *)
LEMMA TypeStep == TypeOK /\ [Next]_vars => TypeOK'
<1> SUFFICES ASSUME TypeOK, [Next]_vars PROVE TypeOK'
  OBVIOUS
<1> USE ConfigAssumption DEF TypeOK
<1>1. CASE Callback
  <2>1. PICK m \in Messages : Queue_config' = Append(Queue_config, m)
    BY <1>1 DEF Callback
  <2>2. Queue_config' \in Seq(Messages) /\ Len(Queue_config') = Len(Queue_config) + 1
    BY <2>1, AppendProperties
  <2> QED
    BY <1>1, <2>2, LenProperties DEF Callback
<1>2. CASE Receive
  BY <1>2, ReceiveTyped DEF Receive
<1>3. CASE ApplyMin
  <2>1. "threshold_min" \in Fields /\ parsedValues[1] \in Int
    BY DEF Fields
  <2>2. settings' \in [Fields -> Int]
    BY <1>3, <2>1, ChangedTyped DEF ApplyMin, Apply
  <2> QED
    BY <1>3, <2>2 DEF ApplyMin, Apply
<1>4. CASE ApplyMax
  <2>1. "threshold_max" \in Fields /\ parsedValues[2] \in Int
    BY DEF Fields
  <2>2. settings' \in [Fields -> Int]
    BY <1>4, <2>1, ChangedTyped DEF ApplyMax, Apply
  <2> QED
    BY <1>4, <2>2 DEF ApplyMax, Apply
<1>5. CASE ApplyRate
  <2>1. "rate" \in Fields /\ parsedValues[3] \in Int
    BY DEF Fields
  <2>2. settings' \in [Fields -> Int]
    BY <1>5, <2>1, ChangedTyped DEF ApplyRate, Apply
  <2> QED
    BY <1>5, <2>2 DEF ApplyRate, Apply
<1>6. CASE SaveMin
  <2>1. "threshold_min" \in Fields /\ settings["threshold_min"] \in Int \cup {Unset}
    BY DEF Fields
  <2>2. stored' \in [Fields -> Int \cup {Unset}]
    BY <1>6, <2>1, ChangedTyped DEF SaveMin, Save
  <2> QED
    BY <1>6, <2>2 DEF SaveMin, Save
<1>7. CASE SaveMax
  <2>1. "threshold_max" \in Fields /\ settings["threshold_max"] \in Int \cup {Unset}
    BY DEF Fields
  <2>2. stored' \in [Fields -> Int \cup {Unset}]
    BY <1>7, <2>1, ChangedTyped DEF SaveMax, Save
  <2> QED
    BY <1>7, <2>2 DEF SaveMax, Save
<1>8. CASE SaveRate
  <2>1. "rate" \in Fields /\ settings["rate"] \in Int \cup {Unset}
    BY DEF Fields
  <2>2. stored' \in [Fields -> Int \cup {Unset}]
    BY <1>8, <2>1, ChangedTyped DEF SaveRate, Save
  <2> QED
    BY <1>8, <2>2 DEF SaveRate, Save
<1>9. CASE Commit
  BY <1>9 DEF Commit
<1>10. CASE SaveFails
  BY <1>10 DEF SaveFails
<1>11. CASE FlashWrite
  BY <1>11 DEF FlashWrite
<1>12. ASSUME NEW keys \in [Fields -> Int \cup {Unset}],
              NEW loaded \in [Fields -> Int],
              Reboot(keys, loaded), errors' \in 0 .. MaxErrors
       PROVE  TypeOK'
  <2>1. <<>> \in Seq(Messages) /\ Len(<<>>) = 0
    BY EmptySeq
  <2>2. Queue_config' \in Seq(Messages) /\ Len(Queue_config') <= ConfigCap
    BY <1>12, <2>1 DEF Reboot
  <2> QED
    BY <1>12, <2>2 DEF Reboot
<1>13. CASE Reset
  BY <1>12, <1>13, LoadedTyped DEF Reset
<1>14. CASE ResetErase
  BY <1>12, <1>14, DefaultsTyped DEF ResetErase
<1>15. CASE ResetLoadFails
  <2>1. errors' \in 0 .. MaxErrors /\ Reboot(flash, Defaults)
    BY <1>15 DEF ResetLoadFails
  <2>2. flash \in [Fields -> Int \cup {Unset}]
    OBVIOUS
  <2> HIDE DEF TypeOK
  <2> QED
    BY <1>12, <2>1, <2>2, DefaultsTyped
<1>16. CASE UNCHANGED vars
  BY <1>16 DEF vars
<1> QED
  BY <1>1, <1>2, <1>3, <1>4, <1>5, <1>6, <1>7, <1>8, <1>9, <1>10, <1>11, <1>13,
     <1>14, <1>15, <1>16 DEF Next, ConfigStep

(* The state is typed whatever the broker sends and whenever the board is  *)
(* reset; Queue_config never grows past its capacity.                      *)
THEOREM ConfigTypeCorrect == Spec => []TypeOK
<1>1. Init => TypeOK
  <2>1. <<>> \in Seq(Messages) /\ Len(<<>>) = 0
    BY EmptySeq
  <2>2. Init => Queue_config \in Seq(Messages) /\ Len(Queue_config) <= ConfigCap
    BY <2>1, ConfigAssumption DEF Init
  <2> QED
    BY <2>2, DefaultsTyped, ConfigAssumption DEF Init, TypeOK
<1> QED
  BY <1>1, TypeStep, PTL DEF Spec

----------------------------------------------------------------------------
(* Limits *)

(* The initial values respect the limits, and so does what load_config     *)
(* makes of keys that do.                                                  *)
LEMMA LoadedInRange ==
    ASSUME NEW keys \in [Fields -> Int \cup {Unset}],
           \A f \in Fields : keys[f] # Unset => InRange(f, keys[f]),
           NEW f \in Fields
    PROVE  InRange(f, Defaults[f]) /\ InRange(f, Loaded(keys)[f])
<1>1. InRange(f, Defaults[f])
  <2>1. CASE f = "threshold_min"
    BY <2>1 DEF InRange, Defaults, TEMP_MIN
  <2>2. CASE f = "threshold_max"
    BY <2>2 DEF InRange, Defaults, TEMP_MAX
  <2>3. CASE f = "rate"
    BY <2>3 DEF InRange, Defaults, RATE_MIN
  <2> QED
    BY <2>1, <2>2, <2>3 DEF Fields
<1>2. Loaded(keys)[f] = IF keys[f] = Unset THEN Defaults[f] ELSE keys[f]
  BY DEF Loaded
<1> QED
  BY <1>1, <1>2

(* No step takes a value past its limit: the appliers check it, and the    *)
(* savers, NVS and load_config only copy it.                               *)
LEMMA LimitsStep == TypeOK /\ InLimits /\ [Next]_vars => InLimits'
<1> SUFFICES ASSUME TypeOK, InLimits, [Next]_vars, NEW f \in Fields
             PROVE  /\ InRange(f, settings'[f])
                    /\ stored'[f] # Unset => InRange(f, stored'[f])
                    /\ flash'[f] # Unset => InRange(f, flash'[f])
  BY DEF InLimits
<1>0. /\ InRange(f, settings[f])
      /\ stored[f] # Unset => InRange(f, stored[f])
      /\ flash[f] # Unset => InRange(f, flash[f])
  BY DEF InLimits
<1>1. CASE ApplyMin
  BY <1>0, <1>1 DEF ApplyMin, Apply, TypeOK, InRange
<1>2. CASE ApplyMax
  BY <1>0, <1>2 DEF ApplyMax, Apply, TypeOK, InRange
<1>3. CASE ApplyRate
  BY <1>0, <1>3 DEF ApplyRate, Apply, TypeOK, InRange
<1>4. CASE SaveMin \/ SaveMax \/ SaveRate
  BY <1>0, <1>4 DEF SaveMin, SaveMax, SaveRate, Save, TypeOK
<1>5. CASE Commit
  BY <1>0, <1>5 DEF Commit
<1>6. CASE FlashWrite
  BY <1>0, <1>6 DEF FlashWrite, TypeOK
<1>7. CASE Reset
  <2>1. flash \in [Fields -> Int \cup {Unset}]
    BY DEF TypeOK
  <2>2. \A g \in Fields : flash[g] # Unset => InRange(g, flash[g])
    BY DEF InLimits
  <2> QED
    BY <1>0, <1>7, <2>1, <2>2, LoadedInRange DEF Reset, Reboot
<1>8. CASE ResetErase
  <2>1. \A g \in Fields : Erased[g] = Unset
    BY DEF Erased
  <2> QED
    BY <1>8, <2>1, DefaultsTyped, LoadedInRange DEF ResetErase, Reboot
<1>9. CASE ResetLoadFails
  <2>1. flash \in [Fields -> Int \cup {Unset}]
    BY DEF TypeOK
  <2>2. \A g \in Fields : flash[g] # Unset => InRange(g, flash[g])
    BY DEF InLimits
  <2> QED
    BY <1>0, <1>9, <2>1, <2>2, LoadedInRange DEF ResetLoadFails, Reboot
<1>10. CASE Callback \/ Receive \/ SaveFails \/ UNCHANGED vars
  BY <1>0, <1>10 DEF Callback, Receive, SaveFails, vars
<1> QED
  BY <1>1, <1>2, <1>3, <1>4, <1>5, <1>6, <1>7, <1>8, <1>9, <1>10 DEF Next, ConfigStep

(* The limits hold for what is in force and for what a reset may load,     *)
(* although load_config checks nothing and parsedValues starts with        *)
(* whatever the stack holds.                                               *)
THEOREM ConfigInLimits == Spec => []InLimits
<1>1. Init => InLimits
  <2> SUFFICES ASSUME Init, NEW f \in Fields
               PROVE  InRange(f, settings[f]) /\ stored[f] = Unset /\ flash[f] = Unset
    BY DEF InLimits
  <2>1. settings = Defaults /\ stored = Erased /\ flash = Erased
    BY DEF Init, Erased
  <2>2. \A g \in Fields : Erased[g] = Unset
    BY DEF Erased
  <2> QED
    BY <2>1, <2>2, DefaultsTyped, LoadedInRange
<1> QED
  BY <1>1, LimitsStep, ConfigTypeCorrect, PTL DEF Spec

----------------------------------------------------------------------------
(* What a reset finds *)

(* Fields the current payload has not reached yet, and fields save_config  *)
(* has stored already.                                                     *)
Unapplied(f) == \/ cfg_pc = "threshold_min"
                \/ cfg_pc = "threshold_max" /\ f # "threshold_min"
                \/ cfg_pc = "rate" /\ f = "rate"

Saved(f) == \/ cfg_pc = "receive"
            \/ cfg_pc = "save_max" /\ f = "threshold_min"
            \/ cfg_pc = "save_rate" /\ f # "rate"
            \/ cfg_pc = "commit"

Saving == cfg_pc \in {"save_min", "save_max", "save_rate", "commit"}

LoadedField(keys, f) == IF keys[f] = Unset THEN Defaults[f] ELSE keys[f]

(* The inductive form of MixesTwo: as long as no call failed, a field that *)
(* save_config has not reached is stored as it was before the payload, one *)
(* that it has reached as it is in force, and flash lags only while        *)
(* save_config runs.                                                       *)
ConfigInv ==
    errors = 0 =>
        \A f \in Fields :
            /\ LoadedField(stored, f) = IF Saved(f) THEN settings[f] ELSE previous[f]
            /\ Unapplied(f) => settings[f] = previous[f]
            /\ LoadedField(flash, f) \in {LoadedField(stored, f), previous[f]}
            /\ ~ Saving => flash[f] = stored[f]

(* Every step keeps it. *)
LEMMA ConfigInvStep == TypeOK /\ ConfigInv /\ [Next]_vars => ConfigInv'
<1> SUFFICES ASSUME TypeOK, ConfigInv, [Next]_vars, errors' = 0, NEW f \in Fields
             PROVE  (/\ LoadedField(stored, f) = IF Saved(f) THEN settings[f] ELSE previous[f]
                     /\ Unapplied(f) => settings[f] = previous[f]
                     /\ LoadedField(flash, f) \in {LoadedField(stored, f), previous[f]}
                     /\ ~ Saving => flash[f] = stored[f])'
  BY DEF ConfigInv
<1>0. errors = 0
  BY DEF Next, ConfigStep, Callback, Receive, ApplyMin, ApplyMax, ApplyRate, Apply, SaveMin,
         SaveMax, SaveRate, Save, Commit, SaveFails, FlashWrite, Reset, ResetErase,
         ResetLoadFails, vars, TypeOK
<1>00. /\ LoadedField(stored, f) = IF Saved(f) THEN settings[f] ELSE previous[f]
       /\ Unapplied(f) => settings[f] = previous[f]
       /\ LoadedField(flash, f) \in {LoadedField(stored, f), previous[f]}
       /\ ~ Saving => flash[f] = stored[f]
  BY <1>0 DEF ConfigInv
<1> USE <1>00 DEF Saved, Unapplied, Saving, LoadedField
<1>1. CASE Receive
  BY <1>1 DEF Receive
<1>2. CASE ApplyMin
  BY <1>2 DEF ApplyMin, Apply, TypeOK, Fields
<1>3. CASE ApplyMax
  BY <1>3 DEF ApplyMax, Apply, TypeOK, Fields
<1>4. CASE ApplyRate
  BY <1>4 DEF ApplyRate, Apply, TypeOK, Fields
<1>5. settings[f] \in Int /\ settings[f] # Unset
  BY ConfigAssumption DEF TypeOK
<1>6. CASE SaveMin
  BY <1>5, <1>6 DEF SaveMin, Save, TypeOK, Fields
<1>7. CASE SaveMax
  BY <1>5, <1>7 DEF SaveMax, Save, TypeOK, Fields
<1>8. CASE SaveRate
  BY <1>5, <1>8 DEF SaveRate, Save, TypeOK, Fields
<1>9. CASE Commit
  BY <1>9 DEF Commit
<1>10. CASE FlashWrite
  BY <1>10 DEF FlashWrite, TypeOK
<1>11. CASE Reset
  BY <1>11 DEF Reset, Reboot, Loaded
<1>12. CASE ResetErase
  BY <1>12 DEF ResetErase, Reboot, Erased
<1>13. CASE SaveFails \/ ResetLoadFails
  BY <1>0, <1>13 DEF SaveFails, ResetLoadFails
<1>14. CASE Callback \/ UNCHANGED vars
  BY <1>14 DEF Callback, vars
<1> QED
  BY <1>1, <1>2, <1>3, <1>4, <1>6, <1>7, <1>8, <1>9, <1>10, <1>11, <1>12, <1>13, <1>14
     DEF Next, ConfigStep

(* The invariant, from the state of a board that never stored anything.    *)
LEMMA ConfigInvariant == Spec => []ConfigInv
<1>1. Init => ConfigInv
  BY DEF Init, ConfigInv, LoadedField, Saved, Unapplied, Saving
<1> QED
  BY <1>1, ConfigInvStep, ConfigTypeCorrect, PTL DEF Spec

(* A reset in the middle of a change mixes no more than the settings       *)
(* before the payload and those after it, and while task_config waits it   *)
(* changes nothing.                                                        *)
THEOREM ResetMixesTwo == Spec => []MixesTwo
<1>1. TypeOK /\ ConfigInv => MixesTwo
  <2> SUFFICES ASSUME TypeOK, ConfigInv, errors = 0
               PROVE  /\ \A f \in Fields : Loaded(flash)[f] \in {settings[f], previous[f]}
                      /\ cfg_pc = "receive" => Loaded(flash) = settings
    BY DEF MixesTwo
  <2>1. \A f \in Fields : Loaded(flash)[f] \in {settings[f], previous[f]}
    BY DEF ConfigInv, Loaded, LoadedField
  <2>2. ASSUME cfg_pc = "receive" PROVE Loaded(flash) = settings
    <3>1. \A f \in Fields : Loaded(flash)[f] = settings[f]
      BY <2>2 DEF ConfigInv, Loaded, LoadedField, Saved, Saving
    <3>2. Loaded(flash) = [f \in Fields |-> Loaded(flash)[f]]
      BY DEF Loaded
    <3> QED
      BY <3>1, <3>2 DEF TypeOK
  <2> QED
    BY <2>1, <2>2
<1> QED
  BY <1>1, ConfigInvariant, ConfigTypeCorrect, PTL
=============================================================================
