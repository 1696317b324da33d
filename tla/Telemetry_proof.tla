-------------------------- MODULE Telemetry_proof ---------------------------
(***************************************************************************)
(* Proofs about Telemetry: types, and what the power messages and the flag *)
(* energy say of dc_state.                                                 *)
(***************************************************************************)
EXTENDS Telemetry, SequenceTheorems, TLAPS

----------------------------------------------------------------------------
(* Types *)

(* Queuing a message, when there is room, keeps Queue_state within its     *)
(* capacity; so does taking one.                                           *)
LEMMA QueueTyped ==
    ASSUME Queue_state \in Seq(Texts), Len(Queue_state) <= StateCap, data \in Texts,
           SendState(data) \/ TakeState
    PROVE  Queue_state' \in Seq(Texts) /\ Len(Queue_state') <= StateCap
<1> USE TelemetryAssumption
<1>1. CASE SendState(data)
  BY <1>1 DEF SendState
<1>2. CASE TakeState
  <2>1. CASE Queue_state = <<>>
    BY <1>2, <2>1 DEF TakeState
  <2>2. CASE Queue_state # <<>>
    <3>1. Queue_state' = Tail(Queue_state)
      BY <1>2, <2>2 DEF TakeState
    <3>2. Tail(Queue_state) \in Seq(Texts) /\ Len(Tail(Queue_state)) = Len(Queue_state) - 1
      BY <2>2, HeadTailProperties
    <3> QED
      BY <3>1, <3>2, LenProperties
  <2> QED
    BY <2>1, <2>2
<1> QED
  BY <1>1, <1>2

(* While a power message waits for room it is the one dc_state calls for:  *)
(* neither the samples nor another message can change it meanwhile.        *)
MessageReady ==
    adc_pc = "send_dc" => \/ dc_state = "CONNECTING" /\ data = "DC_CONNECTED"
                          \/ dc_state = "DISCONNECTING" /\ data = "BATTERY_ONLY"

(* Every step of the task, of task_config and of aws_iot_task keeps the    *)
(* types.                                                                  *)
LEMMA TypeStep == TypeOK /\ MessageReady /\ [Next]_vars => TypeOK'
<1> SUFFICES ASSUME TypeOK, MessageReady, [Next]_vars PROVE TypeOK'
  OBVIOUS
<1> USE DEF TypeOK, Texts, config, alert, power
<1>1. CASE Sample /\ UNCHANGED aws_pc
  BY <1>1 DEF Sample
<1>2. CASE Compare /\ UNCHANGED aws_pc
  BY <1>2 DEF Compare
<1>3. CASE SendNormal /\ UNCHANGED aws_pc
  BY <1>3, QueueTyped DEF SendNormal
<1>4. CASE High /\ UNCHANGED aws_pc
  BY <1>4 DEF High
<1>5. CASE SendHigh /\ UNCHANGED aws_pc
  BY <1>5, QueueTyped DEF SendHigh
<1>6. CASE Low /\ UNCHANGED aws_pc
  BY <1>6 DEF Low
<1>7. CASE SendLow /\ UNCHANGED aws_pc
  BY <1>7, QueueTyped DEF SendLow
<1>8. CASE DcQuiet /\ UNCHANGED aws_pc
  <2>1. energy' \in BOOLEAN
    BY <1>8, Zenon DEF DcQuiet
  <2> QED
    BY <1>8, <2>1 DEF DcQuiet
<1>9. CASE DcReport /\ UNCHANGED aws_pc
  BY <1>9 DEF DcReport
<1>10. CASE SendDc /\ UNCHANGED aws_pc
  <2>1. power_told' \in {"DC_CONNECTED", "BATTERY_ONLY"}
    BY <1>10 DEF SendDc, MessageReady
  <2> QED
    BY <1>10, <2>1, QueueTyped DEF SendDc
<1>11. CASE SetThreshold
  BY <1>11 DEF SetThreshold
<1>12. CASE TakeState
  BY <1>12, QueueTyped DEF TakeState
<1>13. CASE AwsComes
  BY <1>13 DEF AwsComes
<1>14. CASE UNCHANGED vars
  BY <1>14 DEF vars
<1> QED
  BY <1>1, <1>2, <1>3, <1>4, <1>5, <1>6, <1>7, <1>8, <1>9, <1>10, <1>11, <1>12, <1>13, <1>14
     DEF Next, AdcStep

(* The step that prints a power message is the only one that reaches       *)
(* send_dc, and only its own successor leaves it.                          *)
LEMMA MessageStep == TypeOK /\ MessageReady /\ [Next]_vars => MessageReady'
<1> SUFFICES ASSUME TypeOK, MessageReady, [Next]_vars PROVE MessageReady'
  OBVIOUS
<1> USE DEF MessageReady, config, alert, power
<1>1. CASE AdcStep
  BY <1>1 DEF AdcStep, Sample, Compare, SendNormal, High, SendHigh, Low, SendLow,
              DcQuiet, DcReport, SendDc
<1>2. CASE SetThreshold \/ AwsComes \/ TakeState \/ UNCHANGED vars
  BY <1>2 DEF SetThreshold, AwsComes, TakeState, vars
<1> QED
  BY <1>1, <1>2 DEF Next

(* TypeOK needs MessageReady, since what is told of the power is the text  *)
(* in the buffer; the two are inductive together.                          *)
THEOREM TelemetryTypeCorrect == Spec => [](TypeOK /\ MessageReady)
<1>1. Init => TypeOK /\ MessageReady
  <2>1. <<>> \in Seq(Texts) /\ Len(<<>>) = 0
    BY EmptySeq
  <2>2. Init => Queue_state \in Seq(Texts) /\ Len(Queue_state) <= StateCap
    BY <2>1, TelemetryAssumption DEF Init
  <2> QED
    BY <2>2 DEF Init, TypeOK, MessageReady, Texts
<1>2. TypeOK /\ MessageReady /\ [Next]_vars => TypeOK' /\ MessageReady'
  BY TypeStep, MessageStep
<1> QED
  BY <1>1, <1>2, PTL DEF Spec

----------------------------------------------------------------------------
(* Power *)

(* dc_state, energy and what was told change only in the last steps of a   *)
(* pass.                                                                   *)
LEMMA PowerSteps ==
    ASSUME [Next]_vars
    PROVE  DcQuiet \/ DcReport \/ SendDc \/ UNCHANGED power
BY DEF Next, AdcStep, Sample, Compare, SendNormal, High, SendHigh, Low, SendLow,
       SetThreshold, AwsComes, TakeState, vars

(* The last power message queued always agrees with dc_state. *)
LEMMA ReportedStep ==
    TypeOK /\ MessageReady /\ PowerReported /\ [Next]_vars => PowerReported'
<1> SUFFICES ASSUME TypeOK, MessageReady, PowerReported, [Next]_vars PROVE PowerReported'
  OBVIOUS
<1> USE DEF PowerReported, power
<1>1. CASE DcQuiet
  BY <1>1 DEF DcQuiet
<1>2. CASE DcReport
  BY <1>2 DEF DcReport
<1>3. CASE SendDc
  BY <1>3 DEF SendDc, MessageReady
<1>4. CASE UNCHANGED power
  BY <1>4
<1> QED
  BY <1>1, <1>2, <1>3, <1>4, PowerSteps

(* Whoever follows Queue_state knows the power state: PowerReported holds  *)
(* for any number of passes, samples and delays.                           *)
THEOREM PowerAlwaysReported == Spec => []PowerReported
<1>1. Init => PowerReported
  BY DEF Init, PowerReported
<1> QED
  BY <1>1, ReportedStep, TelemetryTypeCorrect, PTL DEF Spec

(* The first two conjuncts of EnergyFollows, which imply the third while a *)
(* message is ready.                                                       *)
EnergySettled == /\ dc_state = "CONNECTING" => ~ energy
                 /\ dc_state = "DISCONNECTING" => energy

(* A pass sets energy before it looks for the change of power that the     *)
(* next one reports.                                                       *)
LEMMA EnergyStep == EnergySettled /\ [Next]_vars => EnergySettled'
<1> SUFFICES ASSUME EnergySettled, [Next]_vars PROVE EnergySettled'
  OBVIOUS
<1> USE DEF EnergySettled, power
<1>1. CASE DcQuiet
  <2>1. CASE energy' = FALSE /\ dc_state' \in {"CONNECTING", "DISCONNECTED"}
    <3>1. dc_state' # "DISCONNECTING"
      BY <2>1
    <3> QED
      BY <2>1, <3>1, Zenon
  <2>2. CASE energy' = TRUE /\ dc_state' \in {"CONNECTED", "DISCONNECTING"}
    <3>1. dc_state' # "CONNECTING"
      BY <2>2
    <3> QED
      BY <2>2, <3>1, Zenon
  <2>3. CASE UNCHANGED <<dc_state, energy>>
    BY <2>3, Zenon
  <2>4. \/ energy' = FALSE /\ dc_state' \in {"CONNECTING", "DISCONNECTED"}
        \/ energy' = TRUE /\ dc_state' \in {"CONNECTED", "DISCONNECTING"}
        \/ UNCHANGED <<dc_state, energy>>
    BY <1>1, Zenon DEF DcQuiet
  <2> QED
    BY <2>1, <2>2, <2>3, <2>4
<1>2. CASE DcReport
  BY <1>2, Zenon DEF DcReport
<1>3. CASE SendDc
  BY <1>3, Zenon DEF SendDc
<1>4. CASE UNCHANGED power
  BY <1>4, Zenon
<1> QED
  BY <1>1, <1>2, <1>3, <1>4, PowerSteps, Zenon

(* energy never lags dc_state by more than a pass.                         *)
THEOREM EnergyAlwaysFollows == Spec => []EnergyFollows
<1>1. Init => EnergySettled
  BY DEF Init, EnergySettled
<1>2. MessageReady /\ EnergySettled => EnergyFollows
  BY DEF MessageReady, EnergySettled, EnergyFollows
<1> QED
  BY <1>1, <1>2, EnergyStep, TelemetryTypeCorrect, PTL DEF Spec
=============================================================================
