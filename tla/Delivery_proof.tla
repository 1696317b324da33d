--------------------------- MODULE Delivery_proof ---------------------------
(***************************************************************************)
(* Proofs about Delivery: the types, the order in which readings are       *)
(* published, and what can be lost.                                        *)
(*                                                                         *)
(* OrderKept is not inductive: it needs that the queue is sorted, that it  *)
(* lies between what has been published and what the connector will send   *)
(* next, and that the connector never falls back between two passes, when  *)
(* all that is left of its place is sent_counter.  Nor is LossBounded: a   *)
(* record is passed when it is sent, before sent_counter says so, and what *)
(* a reset takes back must be matched with what is on its way.             *)
(***************************************************************************)
EXTENDS Delivery, SequenceTheorems, FiniteSetTheorems, TLAPS

(* What is on its way in this boot is sorted ... *)
Sorted ==
    /\ \A i, j \in 1 .. Len(Queue_data) : i < j => Queue_data[i] < Queue_data[j]
    /\ \A i \in 1 .. Len(Queue_data) : last < Queue_data[i] /\ read_value < Queue_data[i]
    /\ aws_pc = "publish" => read_value > last

(* ... and lies below b. *)
Below(b) ==
    /\ last < b
    /\ read_value < b
    /\ \A i \in 1 .. Len(Queue_data) : Queue_data[i] < b

(* The connector sends from data_sent_counter on; a new pass would start   *)
(* with sent_counter + 1.                                                  *)
Ahead ==
    /\ conn_pc # "delay" => Below(data_sent_counter)
    /\ conn_pc # "set_sent" => Below(sent_counter + 1)

Inv == TypeOK /\ Sorted /\ Ahead

(* The number of no reading. *)
LEMMA NoneIsZero == None = 0
  BY DEF None

(* The queue of a boot. *)
LEMMA Empty == /\ <<>> \in Seq(Nat \ {None})
               /\ Len(<<>>) = 0
               /\ 1 .. Len(<<>>) = {}
  BY EmptySeq

(* A queue after xQueueSend ... *)
LEMMA Appended ==
    ASSUME NEW S, NEW q \in Seq(S), NEW e \in S
    PROVE  /\ Append(q, e) \in Seq(S)
           /\ Len(Append(q, e)) = Len(q) + 1
           /\ \A i \in 1 .. Len(q) : Append(q, e)[i] = q[i]
           /\ Append(q, e)[Len(q) + 1] = e
  BY AppendProperties

(* ... and after xQueueReceive. *)
LEMMA Received ==
    ASSUME NEW S, NEW q \in Seq(S), q # <<>>
    PROVE  /\ Len(q) \in Nat \ {0}
           /\ Head(q) = q[1] /\ Head(q) \in S
           /\ Tail(q) \in Seq(S)
           /\ Len(Tail(q)) = Len(q) - 1
           /\ \A i \in 1 .. Len(Tail(q)) : Tail(q)[i] = q[i + 1]
<1>1. Len(q) \in Nat /\ Len(q) # 0
  BY EmptySeq, LenProperties
<1>2. Head(q) \in S /\ Tail(q) \in Seq(S)
  BY HeadTailProperties
<1> QED
  BY <1>1, <1>2, HeadTailProperties

(* Counting a failed connection keeps to the bound. *)
LEMMA CountedTyped ==
    ASSUME faults \in 0 .. MaxFaults, Counted PROVE faults' \in 0 .. MaxFaults
BY DeliveryAssumption DEF Counted

(* Every step keeps the types; what is queued has a number.                *)
LEMMA TypeStep == Inv /\ [Next]_vars => TypeOK'
<1> SUFFICES ASSUME Inv, [Next]_vars PROVE TypeOK'
  OBVIOUS
<1>0. TypeOK
  BY DEF Inv
<1> USE <1>0, DeliveryAssumption, NoneIsZero DEF TypeOK
<1>1. CASE SaveCounter
  BY <1>1 DEF SaveCounter, connVars
<1>2. CASE SaveCommit
  BY <1>2 DEF SaveCommit, connVars, awsVars
<1>3. CASE ConnBegin
  BY <1>3 DEF ConnBegin, counters, awsVars
<1>4. CASE ConnSend
  <2>1. data_sent_counter \in Nat \ {None}
    BY <1>4 DEF Inv, Ahead, Below, ConnSend
  <2>2. Queue_data' \in Seq(Nat \ {None}) /\ Len(Queue_data') = Len(Queue_data) + 1
    BY <1>4, <2>1, Appended DEF ConnSend
  <2>3. Len(Queue_data') <= DataCap
    <3>1. Len(Queue_data) \in Nat /\ Len(Queue_data) < DataCap
      BY <1>4, LenProperties DEF ConnSend
    <3> QED
      BY <2>2, <3>1
  <2>4. passes' \in Nat
    BY <1>4 DEF ConnSend
  <2>5. data_sent_counter' \in Nat
    BY <1>4 DEF ConnSend
  <2> QED
    BY <1>4, <2>2, <2>3, <2>4, <2>5 DEF ConnSend, counters, awsVars
<1>5. CASE ConnSetSent
  BY <1>5 DEF ConnSetSent, counters, awsVars
<1>6. CASE ConnEnd
  BY <1>6 DEF ConnEnd, counters, awsVars
<1>7. CASE AwsConnect
  <2>1. link' \in {"up", "lost", "down"} /\ faults' \in 0 .. MaxFaults
    BY <1>7, CountedTyped DEF AwsConnect, Client!Made
  <2> QED
    BY <1>7, <2>1 DEF AwsConnect, AwsUnchanged, counters, connVars
<1>8. CASE AwsYield
  BY <1>8 DEF AwsYield, AwsUnchanged, Client!YieldCode, counters, connVars
<1>9. CASE AwsReceive
  <2>1. Queue_data \in Seq(Nat \ {None}) /\ Queue_data # <<>>
    BY <1>9 DEF AwsReceive
  <2>2. /\ Len(Queue_data) \in Nat /\ Len(Queue_data') = Len(Queue_data) - 1
        /\ Queue_data' \in Seq(Nat \ {None}) /\ read_value' \in Nat \ {None}
    BY <1>9, <2>1, Received DEF AwsReceive
  <2>3. Len(Queue_data') <= DataCap
    BY <2>2
  <2> QED
    BY <1>9, <2>2, <2>3 DEF AwsReceive, AwsUnchanged, counters, connVars
<1>10. CASE AwsNoData
  BY <1>10 DEF AwsNoData, AwsUnchanged, counters, connVars
<1>11. CASE AwsPublish
  BY <1>11 DEF AwsPublish, Client!PublishCode, AwsUnchanged, counters, connVars
<1>12. CASE AwsState
  BY <1>12 DEF AwsState, Client!PublishCode, AwsUnchanged, counters, connVars
<1>13. CASE FlashWriteSent
  BY <1>13 DEF FlashWriteSent, counters, connVars, awsVars
<1>14. CASE AdcEnergy
  BY <1>14 DEF AdcEnergy, counters, connVars, awsVars
<1>15. CASE LinkStep
  <2>1. link' \in {"up", "lost", "down"} /\ faults' \in 0 .. MaxFaults
    BY <1>15, CountedTyped DEF LinkStep, Client!Lose, Client!Notice, Client!Repair, Client!Made
  <2> QED
    BY <1>15, <2>1 DEF LinkStep, counters, connVars, awsVars
<1>16. CASE Reset
  <2>1. Queue_data' \in Seq(Nat \ {None}) /\ Len(Queue_data') <= DataCap
    BY <1>16, Empty DEF Reset
  <2>2. /\ sent_counter' \in Nat /\ flash_sent' \in Nat
        /\ conn_saved' \in Nat /\ data_sent_counter' \in Nat
        /\ passes' \in Nat /\ dropped' \in Nat /\ received' \subseteq Nat \ {None}
    BY <1>16 DEF Reset
  <2>3. /\ resets' \in 0 .. MaxResets /\ saved_counter' \in 0 .. MaxSaves
        /\ flash_saved' \in 0 .. MaxSaves /\ faults' \in 0 .. MaxFaults
    BY <1>16 DEF Reset
  <2> QED
    BY <1>16, <2>1, <2>2, <2>3 DEF Reset
<1>17. CASE UNCHANGED vars
  BY <1>17 DEF vars, counters, connVars, awsVars
<1> QED
  BY <1>1, <1>2, <1>3, <1>4, <1>5, <1>6, <1>7, <1>8, <1>9, <1>10, <1>11, <1>12,
     <1>13, <1>14, <1>15, <1>16, <1>17 DEF Next, NvsStep, ConnStep, AwsStep

----------------------------------------------------------------------------
(* Order *)

(* The numbers of a queue are numbers. *)
LEMMA QueueTyped ==
    ASSUME TypeOK
    PROVE  /\ Len(Queue_data) \in Nat
           /\ \A i \in 1 .. Len(Queue_data) : Queue_data[i] \in Nat \ {None}
  BY LenProperties, ElementOfSeq DEF TypeOK

(* A step that neither sends, receives nor publishes keeps the chain. *)
LEMMA OnTheWay ==
    ASSUME Sorted, Ahead, aws_pc' = "publish" => aws_pc = "publish",
           UNCHANGED <<Queue_data, last, read_value, conn_pc, sent_counter, data_sent_counter>>
    PROVE  Sorted' /\ Ahead'
  BY DEF Sorted, Ahead, Below

(* What is below a number is below a higher one. *)
LEMMA BelowHigher ==
    ASSUME TypeOK, NEW b \in Nat, NEW c \in Nat, b <= c, Below(b)
    PROVE  Below(c)
<1>1. last \in Nat /\ read_value \in Nat
  BY DEF TypeOK
<1> QED
  BY <1>1, QueueTyped DEF Below

(* Sending appends the highest number so far. *)
LEMMA SendStep == Inv /\ ConnSend => Sorted' /\ Ahead'
<1> SUFFICES ASSUME Inv, ConnSend PROVE Sorted' /\ Ahead'
  OBVIOUS
<1> DEFINE N == Nat \ {None}
           d == data_sent_counter
<1>1. d \in N /\ Queue_data \in Seq(N)
  BY DEF Inv, TypeOK, Ahead, Below, ConnSend, None
<1>2. /\ Len(Queue_data') = Len(Queue_data) + 1
      /\ \A i \in 1 .. Len(Queue_data) : Queue_data'[i] = Queue_data[i]
      /\ Queue_data'[Len(Queue_data) + 1] = d
  BY <1>1, Appended DEF ConnSend
<1>3. /\ Len(Queue_data) \in Nat
      /\ \A i \in 1 .. Len(Queue_data) : Queue_data[i] \in Nat
  BY QueueTyped DEF Inv
<1>4. d' = d + 1 /\ conn_pc' = "set_sent" /\ UNCHANGED <<last, read_value, aws_pc>>
  BY DEF ConnSend, awsVars
<1>5. Below(d)
  BY DEF Inv, Ahead, ConnSend
<1>6. last \in Nat /\ read_value \in Nat /\ d \in Nat
  BY <1>1 DEF Inv, TypeOK
<1>7. Sorted'
  <2>1. ASSUME NEW i \in 1 .. Len(Queue_data'), NEW j \in 1 .. Len(Queue_data'), i < j
        PROVE  Queue_data'[i] < Queue_data'[j]
    <3>1. i \in 1 .. Len(Queue_data)
      BY <1>2, <1>3, <2>1
    <3>2. CASE j \in 1 .. Len(Queue_data)
      BY <1>2, <2>1, <3>1, <3>2 DEF Inv, Sorted
    <3>3. CASE j = Len(Queue_data) + 1
      BY <1>2, <1>5, <3>1, <3>3 DEF Below
    <3> QED
      BY <1>2, <1>3, <3>2, <3>3
  <2>2. ASSUME NEW i \in 1 .. Len(Queue_data')
        PROVE  last < Queue_data'[i] /\ read_value < Queue_data'[i]
    <3>1. CASE i \in 1 .. Len(Queue_data)
      BY <1>2, <3>1 DEF Inv, Sorted
    <3>2. CASE i = Len(Queue_data) + 1
      BY <1>2, <1>5, <3>2 DEF Below
    <3> QED
      BY <1>2, <1>3, <3>1, <3>2
  <2> QED
    BY <1>4, <2>1, <2>2 DEF Inv, Sorted
<1>8. Ahead'
  <2>1. last' < d + 1 /\ read_value' < d + 1
    BY <1>4, <1>5, <1>6 DEF Below
  <2>2. ASSUME NEW i \in 1 .. Len(Queue_data') PROVE Queue_data'[i] < d + 1
    <3>1. CASE i \in 1 .. Len(Queue_data)
      BY <1>2, <1>3, <1>5, <1>6, <3>1 DEF Below
    <3>2. CASE i = Len(Queue_data) + 1
      BY <1>2, <1>6, <3>2
    <3> QED
      BY <1>2, <1>3, <3>1, <3>2
  <2> QED
    BY <1>4, <2>1, <2>2 DEF Ahead, Below
<1> QED
  BY <1>7, <1>8

(* Receiving takes the lowest number of the queue, above the last one. *)
LEMMA ReceiveStep == Inv /\ AwsReceive => Sorted' /\ Ahead'
<1> SUFFICES ASSUME Inv, AwsReceive PROVE Sorted' /\ Ahead'
  OBVIOUS
<1>1. Queue_data \in Seq(Nat \ {None}) /\ Queue_data # <<>>
  BY DEF Inv, TypeOK, AwsReceive
<1>2. /\ Len(Queue_data) \in Nat \ {0}
      /\ read_value' = Queue_data[1]
      /\ Len(Queue_data') = Len(Queue_data) - 1
      /\ \A i \in 1 .. Len(Queue_data') : Queue_data'[i] = Queue_data[i + 1]
  BY <1>1, Received DEF AwsReceive
<1>3. /\ aws_pc' = "publish"
      /\ UNCHANGED <<last, conn_pc, data_sent_counter, sent_counter>>
  BY DEF AwsReceive, AwsUnchanged, connVars
<1>4. 1 \in 1 .. Len(Queue_data)
  BY <1>2
<1>5. \A i \in 1 .. Len(Queue_data') :
          i + 1 \in 1 .. Len(Queue_data) /\ 1 < i + 1
  BY <1>2
<1>6. Sorted'
  <2>1. ASSUME NEW i \in 1 .. Len(Queue_data'), NEW j \in 1 .. Len(Queue_data'), i < j
        PROVE  Queue_data'[i] < Queue_data'[j]
    <3>1. i + 1 < j + 1
      BY <2>1
    <3>2. i + 1 \in 1 .. Len(Queue_data) /\ j + 1 \in 1 .. Len(Queue_data)
      BY <1>5
    <3>3. Queue_data[i + 1] < Queue_data[j + 1]
      BY <3>1, <3>2 DEF Inv, Sorted
    <3> QED
      BY <1>2, <3>3
  <2>2. ASSUME NEW i \in 1 .. Len(Queue_data')
        PROVE  last' < Queue_data'[i] /\ read_value' < Queue_data'[i]
    <3>1. last < Queue_data[i + 1] /\ Queue_data[1] < Queue_data[i + 1]
      BY <1>4, <1>5 DEF Inv, Sorted
    <3> QED
      BY <1>2, <1>3, <3>1
  <2>3. read_value' > last'
    <3>1. last < Queue_data[1] /\ last \in Nat /\ Queue_data[1] \in Nat
      BY <1>4, QueueTyped DEF Inv, TypeOK, Sorted
    <3> QED
      BY <1>2, <1>3, <3>1
  <2> QED
    BY <2>1, <2>2, <2>3 DEF Sorted
<1>7. Ahead'
  <2>1. ASSUME NEW b, Below(b) PROVE /\ last' < b /\ read_value' < b
                                    /\ \A i \in 1 .. Len(Queue_data') : Queue_data'[i] < b
    BY <1>2, <1>3, <1>4, <1>5, <2>1 DEF Below
  <2> QED
    BY <1>3, <2>1 DEF Inv, Ahead, Below
<1> QED
  BY <1>6, <1>7

(* Publishing passes the number in hand on to last. *)
LEMMA PublishStep == Inv /\ AwsPublish => Sorted' /\ Ahead'
<1> SUFFICES ASSUME Inv, AwsPublish PROVE Sorted' /\ Ahead'
  OBVIOUS
<1>1. /\ last' = read_value /\ read_value' = 0 /\ aws_pc' = "state"
      /\ UNCHANGED <<Queue_data, conn_pc, sent_counter, data_sent_counter>>
  BY NoneIsZero DEF AwsPublish, AwsUnchanged, connVars
<1>2. read_value \in Nat /\ read_value > 0
  BY NoneIsZero DEF Inv, TypeOK, AwsPublish
<1>3. \A i \in 1 .. Len(Queue_data) : Queue_data[i] \in Nat /\ Queue_data[i] > 0
  BY QueueTyped, NoneIsZero DEF Inv
<1>4. Sorted'
  BY <1>1, <1>3 DEF Inv, Sorted
<1>5. ASSUME NEW b \in Nat, Below(b)
      PROVE  /\ last' < b /\ read_value' < b
             /\ \A i \in 1 .. Len(Queue_data') : Queue_data'[i] < b
  BY <1>1, <1>2, <1>5 DEF Below
<1>6. sent_counter + 1 \in Nat /\ data_sent_counter \in Nat
  BY DEF Inv, TypeOK
<1>7. Ahead'
  BY <1>1, <1>5, <1>6 DEF Inv, Ahead, Below
<1> QED
  BY <1>4, <1>7

(* The connector never falls back: a pass begins where the one before      *)
(* stopped, at the earliest.                                               *)
LEMMA ConnectorStep ==
    ASSUME Inv, ConnBegin \/ ConnSetSent \/ ConnEnd PROVE Sorted' /\ Ahead'
<1>1. /\ UNCHANGED <<Queue_data, last, read_value, aws_pc>>
      /\ sent_counter \in Nat /\ data_sent_counter \in Nat
  BY DEF ConnBegin, ConnSetSent, ConnEnd, awsVars, Inv, TypeOK
<1>2. Sorted'
  BY <1>1 DEF Inv, Sorted
<1>3. Below(data_sent_counter') /\ Below(sent_counter' + 1)
  <2>1. CASE ConnBegin
    BY <2>1 DEF ConnBegin, Inv, Ahead
  <2>2. CASE ConnSetSent
    <3>1. Below(data_sent_counter) /\ UNCHANGED data_sent_counter
          /\ sent_counter' = data_sent_counter
      BY <2>2 DEF ConnSetSent, Inv, Ahead
    <3> QED
      BY <1>1, <3>1, BelowHigher DEF Inv
  <2>3. CASE ConnEnd
    BY <2>3 DEF ConnEnd, Inv, Ahead
  <2> QED
    BY <2>1, <2>2, <2>3
<1>4. Ahead'
  BY <1>1, <1>3 DEF Ahead, Below
<1> QED
  BY <1>2, <1>4

(* Every step keeps the chain. *)
LEMMA InvStep == Inv /\ [Next]_vars => Inv'
<1> SUFFICES ASSUME Inv, [Next]_vars PROVE Inv'
  OBVIOUS
<1>1. TypeOK'
  BY TypeStep
<1>2. CASE ConnSend
  BY <1>1, <1>2, SendStep DEF Inv
<1>3. CASE ConnBegin \/ ConnSetSent \/ ConnEnd
  BY <1>1, <1>3, ConnectorStep DEF Inv
<1>4. CASE AwsReceive
  BY <1>1, <1>4, ReceiveStep DEF Inv
<1>5. CASE AwsPublish
  BY <1>1, <1>5, PublishStep DEF Inv
<1>6. CASE AwsConnect \/ AwsYield \/ AwsNoData \/ AwsState
  <2>1. /\ aws_pc' # "publish"
        /\ UNCHANGED <<Queue_data, last, read_value, conn_pc, sent_counter, data_sent_counter>>
    BY <1>6 DEF AwsConnect, AwsYield, AwsNoData, AwsState, AwsUnchanged, connVars
  <2> QED
    BY <1>1, <2>1, OnTheWay DEF Inv
<1>7. CASE NvsStep \/ FlashWriteSent \/ AdcEnergy \/ LinkStep \/ UNCHANGED vars
  <2>1. /\ UNCHANGED aws_pc
        /\ UNCHANGED <<Queue_data, last, read_value, conn_pc, sent_counter, data_sent_counter>>
    BY <1>7 DEF NvsStep, SaveCounter, SaveCommit, FlashWriteSent, AdcEnergy, LinkStep, vars,
                connVars, awsVars
  <2> QED
    BY <1>1, <2>1, OnTheWay DEF Inv
<1>8. CASE Reset
  <2>1. /\ Queue_data' = <<>> /\ last' = 0 /\ read_value' = 0 /\ aws_pc' = "connect"
        /\ conn_pc' = "delay" /\ sent_counter' \in Nat
    BY <1>8, NoneIsZero DEF Reset, Inv, TypeOK
  <2>2. Len(Queue_data') = 0 /\ 1 .. Len(Queue_data') = {}
    BY <2>1, Empty
  <2>3. Sorted'
    BY <2>1, <2>2 DEF Sorted
  <2>4. Ahead'
    <3>1. last' < sent_counter' + 1 /\ read_value' < sent_counter' + 1
      <4>1. \A n \in Nat : 0 < n + 1
        OBVIOUS
      <4> QED
        BY <2>1, <4>1
    <3>2. conn_pc' # "set_sent" => (Below(sent_counter + 1))'
      BY <2>2, <3>1 DEF Below
    <3>3. conn_pc' = "delay"
      BY <2>1
    <3> QED
      BY <3>2, <3>3 DEF Ahead
  <2> QED
    BY <1>1, <2>3, <2>4 DEF Inv
<1> QED
  BY <1>2, <1>3, <1>4, <1>5, <1>6, <1>7, <1>8 DEF Next, ConnStep, AwsStep

(* The inductive invariant, from a board that has sent nothing yet. *)
LEMMA Invariant == Spec => []Inv
<1>1. Init => Inv
  <2> SUFFICES ASSUME Init PROVE Inv
    OBVIOUS
  <2>1. TypeOK
    <3>1. Queue_data \in Seq(Nat \ {None}) /\ Len(Queue_data) <= DataCap
      BY DeliveryAssumption, Empty DEF Init
    <3>2. 0 \in 0 .. MaxSaves /\ 0 \in 0 .. MaxResets /\ 0 \in 0 .. MaxFaults
      BY DeliveryAssumption
    <3> QED
      BY <3>1, <3>2, NoneIsZero DEF Init, TypeOK
  <2>2. Sorted /\ Ahead
    BY Empty DEF Init, Sorted, Ahead, Below, None
  <2> QED
    BY <2>1, <2>2 DEF Inv
<1> QED
  BY <1>1, InvStep, PTL DEF Spec

(* The counters and the queue are always typed, Queue_data within its      *)
(* capacity, and the publisher holds a reading exactly while it publishes. *)
THEOREM DeliveryTypeCorrect == Spec => []TypeOK
<1>1. Inv => TypeOK
  BY DEF Inv
<1> QED
  BY <1>1, Invariant, PTL

(* Within a boot readings are published in the order of their numbers and  *)
(* none twice, whatever the sizes, the outages and the resets.             *)
THEOREM OrderAlwaysKept == Spec => []OrderKept
<1>1. Inv => OrderKept
  BY DEF Inv, Sorted, OrderKept
<1> QED
  BY <1>1, Invariant, PTL

(* The task stays within what ClientService allows: the readings' way to   *)
(* the broker uses nothing of the client that MqttClient does not keep.    *)
THEOREM DeliveryUsesService == Spec => Client!Spec
<1>1. Init => Client!Init
  BY DEF Init, At, Client!Init
<1>2. [Next]_vars => [Client!Next]_<<At, link, rc>>
  <2> SUFFICES ASSUME [Next]_vars PROVE [Client!Next]_<<At, link, rc>>
    OBVIOUS
  <2>1. ASSUME UNCHANGED <<aws_pc, link, rc>> PROVE UNCHANGED <<At, link, rc>>
    BY <2>1 DEF At
  <2>2. CASE NvsStep \/ ConnStep \/ FlashWriteSent \/ AdcEnergy \/ UNCHANGED vars
    <3>1. UNCHANGED <<aws_pc, link, rc>>
      BY <2>2 DEF NvsStep, SaveCounter, SaveCommit, ConnStep, ConnBegin, ConnSend, ConnSetSent,
                  ConnEnd, FlashWriteSent, AdcEnergy, vars, awsVars
    <3> QED
      BY <2>1, <3>1
  <2>3. CASE LinkStep
    BY <2>3 DEF LinkStep, Client!Next
  <2>4. CASE AwsConnect
    BY <2>4 DEF AwsConnect, At, Client!Connected, Client!Next
  <2>5. CASE AwsYield
    BY <2>5 DEF AwsYield, At, Client!YieldReturns, Client!Next
  <2>6. CASE AwsReceive \/ AwsNoData
    BY <2>6 DEF AwsReceive, AwsNoData, At
  <2>7. CASE AwsPublish
    BY <2>7 DEF AwsPublish, At, Client!Publish, Client!Next
  <2>8. CASE AwsState
    BY <2>8 DEF AwsState, At, Client!GoOn, Client!Next
  <2>9. CASE Reset
    BY <2>9 DEF Reset, At, Client!Restart, Client!Next
  <2> QED
    BY <2>2, <2>3, <2>4, <2>5, <2>6, <2>7, <2>8, <2>9 DEF Next, AwsStep
<1> QED
  BY <1>1, <1>2, PTL DEF Spec, Client!Spec, Client!serviceVars

----------------------------------------------------------------------------
(* Losses *)

(* The first record the connector still counts as unsent: the number it    *)
(* will store next is already decided while it waits for NVS.              *)
Reached == IF conn_pc = "set_sent" THEN data_sent_counter ELSE sent_counter

(* Readings that have arrived or are on their way. *)
Covered == (received \cap 1 .. saved_counter) \cup {read_value} \cup Range(Queue_data)

(* What has been passed and will never arrive. *)
Lost == 1 .. (Reached - 1) \ Covered

Budget == passes + dropped + resets * (DataCap + 1)

(* How the counters follow each other: flash at most one reading behind    *)
(* NVS, the connector at most one record past its own counter, nothing on  *)
(* its way that was not counted.  A count that a reset may take back is of *)
(* no reading the broker has got, or of the last one.                      *)
SavedOrder ==
    /\ flash_saved <= saved_counter /\ saved_counter <= flash_saved + 1
    /\ saved_counter # flash_saved /\ saved_counter \in received => last = saved_counter

SentOrder ==
    /\ flash_sent <= sent_counter
    /\ conn_pc # "delay" => conn_saved <= saved_counter
    /\ conn_pc = "loop" => data_sent_counter \in {sent_counter, sent_counter + 1}
    /\ conn_pc = "set_sent" => sent_counter < data_sent_counter

WayOrder ==
    /\ read_value <= saved_counter /\ last <= saved_counter
    /\ \A i \in 1 .. Len(Queue_data) : Queue_data[i] <= saved_counter

Accounted == SavedOrder /\ SentOrder /\ WayOrder

(* Without resets and dropped publications no two losses are neighbours,   *)
(* and the record before the next one is not lost.                         *)
Single ==
    dropped = 0 /\ resets = 0 =>
        /\ Reached > 0 => Reached - 1 \notin Lost
        /\ \A r \in Lost : r + 1 \notin Lost

LossInv == Accounted /\ Cardinality(Lost) <= Budget /\ Single

(* The set of what waits in a queue, after xQueueSend ... *)
LEMMA RangeAppended ==
    ASSUME NEW S, NEW q \in Seq(S), NEW e \in S
    PROVE  Range(Append(q, e)) = Range(q) \cup {e}
<1> DEFINE a == Append(q, e)
<1>1. Len(q) \in Nat /\ DOMAIN q = 1 .. Len(q)
  BY LenProperties
<1>2. /\ a \in Seq(S) /\ Len(a) = Len(q) + 1
      /\ \A i \in 1 .. Len(q) : a[i] = q[i]
      /\ a[Len(q) + 1] = e
  BY Appended
<1>3. DOMAIN a = 1 .. Len(q) + 1
  BY <1>2, LenProperties
<1>4. 1 .. Len(q) + 1 = (1 .. Len(q)) \cup {Len(q) + 1}
  BY <1>1
<1> HIDE DEF a
<1> QED
  BY <1>1, <1>2, <1>3, <1>4 DEF Range, a

(* ... and before xQueueReceive. *)
LEMMA RangeReceived ==
    ASSUME NEW S, NEW q \in Seq(S), q # <<>>
    PROVE  Range(q) = Range(Tail(q)) \cup {Head(q)}
<1> DEFINE t == Tail(q)
<1>1. /\ Len(q) \in Nat \ {0} /\ Head(q) = q[1] /\ t \in Seq(S)
      /\ Len(t) = Len(q) - 1
      /\ \A i \in 1 .. Len(t) : t[i] = q[i + 1]
  BY Received
<1>2. DOMAIN q = 1 .. Len(q) /\ DOMAIN t = 1 .. Len(q) - 1
  BY <1>1, LenProperties
<1> HIDE DEF t
<1>3. ASSUME NEW i \in 1 .. Len(q)
      PROVE  i = 1 \/ (i - 1 \in 1 .. Len(q) - 1 /\ (i - 1) + 1 = i)
  BY <1>1
<1>4. 1 \in 1 .. Len(q) /\ \A i \in 1 .. Len(q) - 1 : i + 1 \in 1 .. Len(q)
  BY <1>1
<1>5. ASSUME NEW x \in Range(q) PROVE x \in Range(t) \cup {Head(q)}
  <2>1. PICK i \in 1 .. Len(q) : x = q[i]
    BY <1>2, <1>5 DEF Range
  <2>2. CASE i = 1
    BY <2>1, <2>2, <1>1
  <2>3. CASE i - 1 \in 1 .. Len(q) - 1 /\ (i - 1) + 1 = i
    <3>1. t[i - 1] = x
      BY <2>1, <2>3, <1>1
    <3> QED
      BY <3>1, <2>3, <1>2 DEF Range
  <2> QED
    BY <1>3, <2>2, <2>3
<1>6. ASSUME NEW x \in Range(t) PROVE x \in Range(q)
  <2>1. PICK i \in 1 .. Len(q) - 1 : x = t[i]
    BY <1>2, <1>6 DEF Range
  <2>2. x = q[i + 1] /\ i + 1 \in 1 .. Len(q)
    BY <2>1, <1>1, <1>4
  <2> QED
    BY <2>2, <1>2 DEF Range
<1>7. Head(q) \in Range(q)
  BY <1>1, <1>2, <1>4 DEF Range
<1> QED
  BY <1>5, <1>6, <1>7 DEF t

(* A queue holds no more readings than it is long. *)
LEMMA RangeBounded ==
    ASSUME NEW S, NEW q \in Seq(S)
    PROVE  IsFiniteSet(Range(q)) /\ Cardinality(Range(q)) <= Len(q)
<1>1. Len(q) \in Nat /\ DOMAIN q = 1 .. Len(q) /\ q \in [1 .. Len(q) -> S]
  BY LenProperties
<1>2. q \in Surjection(1 .. Len(q), Range(q))
  <2>1. \A x \in Range(q) : \E i \in 1 .. Len(q) : q[i] = x
    BY <1>1 DEF Range
  <2>2. q \in [1 .. Len(q) -> Range(q)]
    BY <1>1 DEF Range
  <2> QED
    BY <2>1, <2>2 DEF Surjection
<1>3. IsFiniteSet(1 .. Len(q)) /\ Cardinality(1 .. Len(q)) = Len(q)
  <2>1. /\ IsFiniteSet(1 .. Len(q))
        /\ Cardinality(1 .. Len(q)) = IF 1 > Len(q) THEN 0 ELSE Len(q) - 1 + 1
    <3>1. 1 \in Int /\ Len(q) \in Int
      BY <1>1
    <3> QED
      BY <3>1, FS_Interval
  <2> QED
    BY <1>1, <2>1
<1> QED
  BY <1>2, <1>3, FS_Surjection

(* The counters are numbers, and what was lost can be counted. *)
LEMMA Counts ==
    ASSUME TypeOK
    PROVE  /\ saved_counter \in Nat /\ flash_saved \in Nat
           /\ sent_counter \in Nat /\ flash_sent \in Nat
           /\ conn_saved \in Nat /\ data_sent_counter \in Nat
           /\ read_value \in Nat /\ last \in Nat
           /\ passes \in Nat /\ dropped \in Nat /\ resets \in Nat
           /\ DataCap \in Nat /\ Reached \in Nat
           /\ conn_pc \in {"delay", "loop", "set_sent"}
  BY DeliveryAssumption DEF TypeOK, Reached

(* A budget is a number, and a reset adds a queue and a reading in hand. *)
LEMMA BudgetCounts ==
    ASSUME NEW p \in Nat, NEW d \in Nat, NEW r \in Nat, NEW c \in Nat
    PROVE  /\ p + d + r * (c + 1) \in Nat
           /\ (r + 1) * (c + 1) = r * (c + 1) + (c + 1)
  OBVIOUS

(* One more on either count is one more in all. *)
LEMMA OneOfTwo ==
    ASSUME NEW p \in Nat, NEW d \in Nat
    PROVE  /\ p + 1 \in Nat /\ d + 1 \in Nat
           /\ (p + 1) + d = p + d + 1 /\ p + (d + 1) = p + d + 1
  OBVIOUS

(* A finite set that grows by no more than another one. *)
LEMMA Grows ==
    ASSUME NEW A, IsFiniteSet(A), NEW E, IsFiniteSet(E), NEW B, B \subseteq A \cup E
    PROVE  /\ IsFiniteSet(B)
           /\ Cardinality(A) \in Nat /\ Cardinality(E) \in Nat /\ Cardinality(B) \in Nat
           /\ Cardinality(B) <= Cardinality(A) + Cardinality(E)
<1>1. /\ IsFiniteSet(A \cup E)
      /\ Cardinality(A \cup E) = Cardinality(A) + Cardinality(E) - Cardinality(A \cap E)
  BY FS_Union
<1>2. IsFiniteSet(A \cap E)
  BY FS_Subset, A \cap E \subseteq A
<1>3. /\ Cardinality(A) \in Nat /\ Cardinality(E) \in Nat
      /\ Cardinality(A \cap E) \in Nat
  BY <1>2, FS_CardinalityType
<1>4. IsFiniteSet(B) /\ Cardinality(B) <= Cardinality(A \cup E)
  BY <1>1, FS_Subset
<1>5. Cardinality(B) \in Nat
  BY <1>4, FS_CardinalityType
<1> QED
  BY <1>1, <1>3, <1>4, <1>5

(* A step that loses nothing more ... *)
LEMMA KeepsBudget ==
    ASSUME TypeOK, IsFiniteSet(Lost), Cardinality(Lost) <= Budget, Lost' \subseteq Lost,
           UNCHANGED <<passes, dropped, resets>>
    PROVE  Cardinality(Lost') <= Budget'
<1>1. Cardinality(Lost') <= Cardinality(Lost)
  BY FS_Subset
<1>2. IsFiniteSet(Lost')
  BY FS_Subset
<1>3. Cardinality(Lost') \in Nat /\ Cardinality(Lost) \in Nat
  BY <1>2, FS_CardinalityType
<1>4. Budget' = Budget /\ Budget \in Nat
  BY Counts, BudgetCounts DEF Budget
<1> QED
  BY <1>1, <1>3, <1>4

(* ... one that loses one reading, and counts it ... *)
LEMMA BudgetOfOne ==
    ASSUME TypeOK, passes' \in Nat, dropped' \in Nat, UNCHANGED resets,
           passes' + dropped' = passes + dropped + 1
    PROVE  Budget \in Nat /\ Budget' = Budget + 1
<1> DEFINE held == resets * (DataCap + 1)
<1>1. held \in Nat /\ passes \in Nat /\ dropped \in Nat
  BY Counts, BudgetCounts
<1>2. Budget = passes + dropped + held /\ Budget' = passes' + dropped' + held
  BY DEF Budget
<1> HIDE DEF held
<1>3. Budget' = (passes + dropped + 1) + held
  BY <1>2
<1>4. (passes + dropped + 1) + held = (passes + dropped + held) + 1
  BY <1>1
<1>5. passes + dropped + held \in Nat
  BY <1>1
<1> QED
  BY <1>2, <1>3, <1>4, <1>5

LEMMA OneMore ==
    ASSUME TypeOK, IsFiniteSet(Lost), Cardinality(Lost) <= Budget,
           NEW x, Lost' \subseteq Lost \cup {x},
           passes' \in Nat, dropped' \in Nat, UNCHANGED resets,
           passes' + dropped' = passes + dropped + 1
    PROVE  Cardinality(Lost') <= Budget'
<1>1. IsFiniteSet({x}) /\ Cardinality({x}) = 1
  BY FS_Singleton
<1>2. /\ Cardinality(Lost) \in Nat /\ Cardinality(Lost') \in Nat
      /\ Cardinality(Lost') <= Cardinality(Lost) + 1
  BY <1>1, Grows
<1>3. Budget \in Nat /\ Budget' = Budget + 1
  BY BudgetOfOne
<1> QED
  BY <1>2, <1>3

(* ... and a reset, which loses a queue and a reading in hand. *)
LEMMA OneReset ==
    ASSUME TypeOK, IsFiniteSet(Lost), Cardinality(Lost) <= Budget,
           NEW E, IsFiniteSet(E), Cardinality(E) <= DataCap + 1, Lost' \subseteq Lost \cup E,
           resets' = resets + 1, UNCHANGED <<passes, dropped>>
    PROVE  Cardinality(Lost') <= Budget'
<1>1. /\ Cardinality(Lost) \in Nat /\ Cardinality(E) \in Nat /\ Cardinality(Lost') \in Nat
      /\ Cardinality(Lost') <= Cardinality(Lost) + Cardinality(E)
  BY Grows
<1> DEFINE held == resets * (DataCap + 1)
<1>2. held \in Nat /\ (resets + 1) * (DataCap + 1) = held + (DataCap + 1)
  BY Counts, BudgetCounts
<1>3. Budget = passes + dropped + held /\ Budget' = passes + dropped + (held + (DataCap + 1))
  BY <1>2 DEF Budget
<1> HIDE DEF held
<1>4. passes \in Nat /\ dropped \in Nat /\ DataCap \in Nat
  BY Counts
<1> QED
  BY <1>1, <1>2, <1>3, <1>4

LEMMA LostFinite == ASSUME TypeOK PROVE IsFiniteSet(Lost)
<1>0. 1 \in Int /\ Reached - 1 \in Int
  BY Counts
<1>1. IsFiniteSet(1 .. (Reached - 1))
  BY <1>0, FS_Interval
<1> QED
  BY <1>1, FS_Subset DEF Lost

(* A step that leaves the connector where it is and takes nothing from     *)
(* what is covered loses nothing. *)
LEMMA KeepsLoss ==
    ASSUME TypeOK, Cardinality(Lost) <= Budget, Single,
           Reached' = Reached, Covered \subseteq Covered' \cup {None},
           UNCHANGED <<passes, dropped, resets>>
    PROVE  Cardinality(Lost') <= Budget' /\ Single'
<1>1. Lost' \subseteq Lost
  BY NoneIsZero DEF Lost
<1>2. Cardinality(Lost') <= Budget'
  BY <1>1, LostFinite, KeepsBudget
<1>3. Single'
  BY <1>1 DEF Single
<1> QED
  BY <1>2, <1>3

(* Most steps touch nothing of it, or only what is in flash. *)
LEMMA LossIdle ==
    ASSUME TypeOK, LossInv,
           UNCHANGED <<saved_counter, sent_counter, conn_pc, conn_saved, data_sent_counter,
                       Queue_data, read_value, received, last, passes, dropped, resets>>,
           flash_saved' \in {flash_saved, saved_counter},
           flash_sent' \in {flash_sent, sent_counter}
    PROVE  LossInv'
<1>1. Reached' = Reached /\ Covered' = Covered
  BY DEF Reached, Covered
<1>2. Cardinality(Lost') <= Budget' /\ Single'
  BY <1>1, KeepsLoss DEF LossInv
<1>3. SavedOrder' /\ SentOrder'
  BY Counts DEF LossInv, Accounted, SavedOrder, SentOrder
<1>4. WayOrder'
  BY DEF LossInv, Accounted, WayOrder
<1> QED
  BY <1>2, <1>3, <1>4 DEF LossInv, Accounted

(* A reading is counted: what the broker has under its number goes. *)
LEMMA LossSave == ASSUME Inv, LossInv, SaveCounter PROVE LossInv'
<1> USE DEF Inv
<1>1. /\ saved_counter' = saved_counter + 1 /\ saved_counter = flash_saved
      /\ received' = received \ {saved_counter'}
      /\ UNCHANGED <<flash_saved, flash_sent, sent_counter, conn_pc, conn_saved, read_value,
                     data_sent_counter, Queue_data, last, passes, dropped, resets>>
  BY DEF SaveCounter, connVars
<1>2. Reached' = Reached
  BY <1>1 DEF Reached
<1>3. received \cap 1 .. saved_counter \subseteq received' \cap 1 .. saved_counter'
  BY <1>1, Counts
<1>4. Covered \subseteq Covered'
  BY <1>1, <1>3 DEF Covered
<1>5. Cardinality(Lost') <= Budget' /\ Single'
  BY <1>1, <1>2, <1>4, KeepsLoss DEF LossInv
<1>6. SavedOrder' /\ SentOrder'
  BY <1>1, Counts DEF LossInv, Accounted, SavedOrder, SentOrder
<1>7. WayOrder'
  <2>1. \A n \in Nat : n <= saved_counter => n <= saved_counter'
    BY <1>1, Counts
  <2>2. last <= saved_counter' /\ read_value <= saved_counter'
    BY <2>1, Counts DEF LossInv, Accounted, WayOrder
  <2>3. \A i \in 1 .. Len(Queue_data) : Queue_data[i] <= saved_counter'
    BY <2>1, QueueTyped DEF LossInv, Accounted, WayOrder
  <2> QED
    BY <1>1, <2>2, <2>3 DEF WayOrder
<1> QED
  BY <1>5, <1>6, <1>7 DEF LossInv, Accounted

(* Between two sends the connector moves without passing a record. *)
LEMMA LossConnector ==
    ASSUME Inv, LossInv, ConnBegin \/ ConnSetSent \/ ConnEnd PROVE LossInv'
<1> USE DEF Inv
<1>1. UNCHANGED <<saved_counter, flash_saved, flash_sent, Queue_data, read_value, received,
                  last, passes, dropped, resets>>
  BY DEF ConnBegin, ConnSetSent, ConnEnd, counters, awsVars
<1>2. Reached' = Reached /\ SentOrder'
  <2>1. CASE ConnBegin
    BY <2>1, Counts DEF ConnBegin, counters, Reached, LossInv, Accounted, SentOrder
  <2>2. CASE ConnSetSent
    BY <2>2, Counts DEF ConnSetSent, counters, Reached, LossInv, Accounted, SentOrder
  <2>3. CASE ConnEnd
    BY <2>3, Counts DEF ConnEnd, counters, Reached, LossInv, Accounted, SentOrder
  <2> QED
    BY <2>1, <2>2, <2>3
<1>3. Covered' = Covered
  BY <1>1 DEF Covered
<1>4. Cardinality(Lost') <= Budget' /\ Single'
  BY <1>1, <1>2, <1>3, KeepsLoss DEF LossInv
<1>5. SavedOrder' /\ WayOrder'
  BY <1>1 DEF LossInv, Accounted, SavedOrder, WayOrder
<1> QED
  BY <1>2, <1>4, <1>5 DEF LossInv, Accounted

(* What is received was on its way before. *)
LEMMA LossReceive == ASSUME Inv, LossInv, AwsReceive PROVE LossInv'
<1> USE DEF Inv
<1>1. /\ read_value' = Head(Queue_data) /\ Queue_data' = Tail(Queue_data)
      /\ Queue_data # <<>> /\ read_value = None
      /\ UNCHANGED <<saved_counter, flash_saved, flash_sent, sent_counter, conn_pc, conn_saved,
                     data_sent_counter, received, last, passes, dropped, resets>>
  BY DEF AwsReceive, AwsUnchanged, counters, connVars, TypeOK
<1>2. Queue_data \in Seq(Nat \ {None})
  BY DEF TypeOK
<1>3. Range(Queue_data) = Range(Queue_data') \cup {read_value'}
  BY <1>1, <1>2, RangeReceived
<1>4. Covered \subseteq Covered' \cup {None}
  BY <1>1, <1>3 DEF Covered
<1>5. Reached' = Reached /\ SavedOrder' /\ SentOrder'
  BY <1>1 DEF Reached, LossInv, Accounted, SavedOrder, SentOrder
<1>6. Cardinality(Lost') <= Budget' /\ Single'
  BY <1>1, <1>4, <1>5, KeepsLoss DEF LossInv
<1>7. WayOrder'
  <2>1. /\ Len(Queue_data) \in Nat \ {0} /\ read_value' = Queue_data[1]
        /\ Len(Queue_data') = Len(Queue_data) - 1
        /\ \A i \in 1 .. Len(Queue_data') : Queue_data'[i] = Queue_data[i + 1]
    BY <1>1, <1>2, Received
  <2>2. /\ 1 \in 1 .. Len(Queue_data)
        /\ \A i \in 1 .. Len(Queue_data') : i + 1 \in 1 .. Len(Queue_data)
    BY <2>1
  <2> QED
    BY <1>1, <2>1, <2>2 DEF LossInv, Accounted, WayOrder
<1> QED
  BY <1>5, <1>6, <1>7 DEF LossInv, Accounted

(* A publication arrives, or is lost and counted. *)
LEMMA LossPublish == ASSUME Inv, LossInv, AwsPublish PROVE LossInv'
<1> USE DEF Inv
<1>1. /\ last' = read_value /\ read_value' = None
      /\ UNCHANGED <<saved_counter, flash_saved, flash_sent, sent_counter, conn_pc, conn_saved,
                     data_sent_counter, Queue_data, passes, resets>>
  BY DEF AwsPublish, AwsUnchanged, counters, connVars
<1>2. read_value \in 1 .. saved_counter /\ last < read_value
  BY Counts, NoneIsZero
     DEF AwsPublish, TypeOK, Sorted, LossInv, Accounted, WayOrder
<1>3. Reached' = Reached /\ SentOrder'
  BY <1>1 DEF Reached, LossInv, Accounted, SentOrder
<1>4. SavedOrder'
  <2>1. ASSUME saved_counter # flash_saved, saved_counter \in received'
        PROVE  read_value = saved_counter
    <3>1. CASE saved_counter \in received
      BY <1>2, <2>1, <3>1, Counts DEF LossInv, Accounted, SavedOrder
    <3>2. CASE saved_counter \notin received
      BY <2>1, <3>2 DEF AwsPublish
    <3> QED
      BY <3>1, <3>2
  <2> QED
    BY <1>1, <2>1 DEF LossInv, Accounted, SavedOrder
<1>5. WayOrder'
  BY <1>1, <1>2, NoneIsZero, Counts DEF LossInv, Accounted, WayOrder
<1>6. CASE link = "up"
  <2>1. received' = received \cup {read_value} /\ UNCHANGED dropped
    BY <1>6 DEF AwsPublish
  <2>2. Covered \subseteq Covered'
    BY <1>1, <1>2, <2>1 DEF Covered
  <2>3. Cardinality(Lost') <= Budget' /\ Single'
    BY <1>1, <1>3, <2>1, <2>2, KeepsLoss DEF LossInv
  <2> QED
    BY <1>3, <1>4, <1>5, <2>3 DEF LossInv, Accounted
<1>7. CASE link # "up"
  <2>1. received' = received /\ dropped' = dropped + 1
    BY <1>7 DEF AwsPublish
  <2>2. Covered \subseteq Covered' \cup {read_value}
    BY <1>1, <2>1 DEF Covered
  <2>3. Lost' \subseteq Lost \cup {read_value}
    BY <1>3, <2>2 DEF Lost
  <2>4. passes' \in Nat /\ dropped' \in Nat /\ passes' + dropped' = passes + dropped + 1
    BY <1>1, <2>1, Counts, OneOfTwo
  <2>5. Cardinality(Lost') <= Budget'
    BY <1>1, <2>3, <2>4, LostFinite, OneMore DEF LossInv
  <2>6. Single'
    BY <2>1, Counts DEF Single
  <2> QED
    BY <1>3, <1>4, <1>5, <2>5, <2>6 DEF LossInv, Accounted
<1> QED
  BY <1>6, <1>7

(* The connector passes the record it sends, which is on its way then, and *)
(* may leave out the one before; a first pass leaves out none.             *)
LEMMA LossSend == ASSUME Inv, LossInv, ConnSend PROVE LossInv'
<1> USE DEF Inv
<1> DEFINE d == data_sent_counter
<1>1. /\ conn_pc = "loop" /\ conn_pc' = "set_sent" /\ d <= conn_saved
      /\ Queue_data' = Append(Queue_data, d) /\ d' = d + 1
      /\ UNCHANGED <<saved_counter, flash_saved, flash_sent, sent_counter, conn_saved, read_value,
                     received, last, dropped, resets>>
  BY DEF ConnSend, counters, awsVars
<1>2. d \in {sent_counter, sent_counter + 1} /\ d <= saved_counter
  BY <1>1, Counts DEF LossInv, Accounted, SentOrder
<1>3. d \in Nat \ {None} /\ Queue_data \in Seq(Nat \ {None}) /\ sent_counter \in Nat
  BY <1>1, Counts, NoneIsZero DEF TypeOK, Ahead, Below
<1>4. Reached = sent_counter /\ Reached' = d + 1
  BY <1>1 DEF Reached
<1>5. Covered' = Covered \cup {d}
  BY <1>1, <1>3, RangeAppended DEF Covered
<1>6. Accounted'
  <2>1. SavedOrder'
    BY <1>1 DEF LossInv, Accounted, SavedOrder
  <2>2. SentOrder'
    BY <1>1, <1>2, <1>3 DEF LossInv, Accounted, SentOrder
  <2>3. ASSUME NEW i \in 1 .. Len(Queue_data') PROVE Queue_data'[i] <= saved_counter
    <3>1. /\ Len(Queue_data') = Len(Queue_data) + 1 /\ Len(Queue_data) \in Nat
          /\ \A j \in 1 .. Len(Queue_data) : Queue_data'[j] = Queue_data[j]
          /\ Queue_data'[Len(Queue_data) + 1] = d
      BY <1>1, <1>3, Appended, QueueTyped
    <3>2. CASE i \in 1 .. Len(Queue_data)
      BY <3>1, <3>2 DEF LossInv, Accounted, WayOrder
    <3>3. CASE i = Len(Queue_data) + 1
      BY <1>2, <3>1, <3>3
    <3> QED
      BY <3>1, <3>2, <3>3
  <2>4. WayOrder'
    BY <1>1, <2>3 DEF LossInv, Accounted, WayOrder
  <2> QED
    BY <2>1, <2>2, <2>4 DEF Accounted
<1>7. 1 .. d = 1 .. (d - 1) \cup {d} /\ (d + 1) - 1 = d
  BY <1>3, NoneIsZero
<1>8. Lost' = 1 .. (d - 1) \ Covered'
  BY <1>4, <1>5, <1>7 DEF Lost
<1>9. CASE sent_counter > 0 /\ d = sent_counter + 1
  <2>1. 1 .. (d - 1) = 1 .. (sent_counter - 1) \cup {sent_counter}
    BY <1>9, <1>3
  <2>2. Lost' \subseteq Lost \cup {sent_counter}
    BY <1>4, <1>5, <1>8, <2>1 DEF Lost
  <2>3. passes' = passes + 1
    BY <1>9 DEF ConnSend
  <2>4. passes' \in Nat /\ dropped' \in Nat /\ passes' + dropped' = passes + dropped + 1
    BY <1>1, <2>3, Counts, OneOfTwo
  <2>5. Cardinality(Lost') <= Budget'
    BY <1>1, <2>2, <2>4, LostFinite, OneMore DEF LossInv
  <2>6. Single'
    <3>1. SUFFICES ASSUME dropped = 0, resets = 0
                   PROVE  d \notin Lost' /\ \A r \in Lost' : r + 1 \notin Lost'
      BY <1>1, <1>4, <1>7 DEF Single
    <3>2. d \notin Lost'
      BY <1>5 DEF Lost
    <3>3. sent_counter - 1 \notin Lost /\ \A r \in Lost : r + 1 \notin Lost
      BY <1>4, <1>9, <3>1 DEF LossInv, Single
    <3>4. ASSUME NEW r \in Lost', r + 1 \in Lost' PROVE FALSE
      <4>1. r \in Nat /\ r + 1 <= d - 1
        BY <1>3, <1>8, <3>4
      <4>2. r # sent_counter
        BY <1>9, <1>3, <4>1
      <4>3. r \in Lost
        BY <2>2, <4>2
      <4>4. CASE r + 1 = sent_counter
        BY <3>3, <4>1, <4>3, <4>4
      <4>5. CASE r + 1 # sent_counter
        BY <2>2, <3>3, <3>4, <4>3, <4>5
      <4> QED
        BY <4>4, <4>5
    <3> QED
      BY <3>2, <3>4
  <2> QED
    BY <1>6, <2>5, <2>6 DEF LossInv
<1>10. CASE ~ (sent_counter > 0 /\ d = sent_counter + 1)
  <2>1. passes' = passes
    BY <1>10 DEF ConnSend
  <2>2. 1 .. (d - 1) \subseteq 1 .. (sent_counter - 1)
    BY <1>2, <1>3, <1>10
  <2>3. Lost' \subseteq Lost
    BY <1>4, <1>5, <1>8, <2>2 DEF Lost
  <2>4. Cardinality(Lost') <= Budget'
    BY <1>1, <2>1, <2>3, LostFinite, KeepsBudget DEF LossInv
  <2>5. d \notin Lost'
    BY <1>5 DEF Lost
  <2>6. Single'
    BY <1>1, <1>4, <1>7, <2>3, <2>5 DEF LossInv, Single
  <2> QED
    BY <1>6, <2>4, <2>6 DEF LossInv
<1> QED
  BY <1>9, <1>10

(* A reset takes the queue and the reading in hand.  When it takes back a  *)
(* count as well, either the broker had nothing under that number, or that *)
(* reading was the last one and nothing was on its way.                    *)
LEMMA LossReset == ASSUME Inv, LossInv, Reset PROVE LossInv'
<1> USE DEF Inv
<1> DEFINE Way == Range(Queue_data) \cup {read_value}
<1>1. /\ resets' = resets + 1 /\ UNCHANGED <<flash_sent, received, passes, dropped>>
      /\ saved_counter' \in {saved_counter, flash_saved} /\ flash_saved' = saved_counter'
      /\ sent_counter' = flash_sent /\ conn_pc' = "delay" /\ Queue_data' = <<>>
      /\ read_value' = None /\ last' = None
  BY DEF Reset
<1>2. Accounted'
  <2>1. saved_counter' \in Nat
    BY <1>1, Counts
  <2>2. SavedOrder'
    <3>1. flash_saved' = saved_counter'
      BY <1>1
    <3>2. \A n \in Nat : n <= n /\ n <= n + 1
      OBVIOUS
    <3> QED
      BY <2>1, <3>1, <3>2 DEF SavedOrder
  <2>3. SentOrder'
    BY <1>1, Counts DEF SentOrder
  <2>4. WayOrder'
    BY <1>1, <2>1, NoneIsZero, Empty DEF WayOrder
  <2> QED
    BY <2>2, <2>3, <2>4 DEF Accounted
<1>3. Single'
  BY <1>1, Counts DEF Single
<1>4. Lost' \subseteq 1 .. (Reached - 1)
  <2>1. Reached' = flash_sent
    BY <1>1 DEF Reached
  <2>2. flash_sent <= Reached
    BY Counts DEF Reached, LossInv, Accounted, SentOrder
  <2>3. 1 .. (flash_sent - 1) \subseteq 1 .. (Reached - 1)
    BY <2>2, Counts
  <2> QED
    BY <2>1, <2>3 DEF Lost
<1>5. Lost' \cap (received \cap 1 .. saved_counter') = {}
  BY <1>1 DEF Lost, Covered
<1>6. CASE received \cap 1 .. saved_counter \subseteq 1 .. saved_counter'
  <2>1. Lost' \subseteq Lost \cup Way
    BY <1>4, <1>5, <1>6 DEF Lost, Covered
  <2>2. /\ Queue_data \in Seq(Nat \ {None}) /\ Len(Queue_data) \in Nat
        /\ Len(Queue_data) <= DataCap /\ DataCap \in Nat
    BY QueueTyped, Counts DEF TypeOK
  <2>3. /\ IsFiniteSet(Range(Queue_data)) /\ Cardinality(Range(Queue_data)) <= Len(Queue_data)
    BY <2>2, RangeBounded
  <2>4. IsFiniteSet({read_value}) /\ Cardinality({read_value}) = 1
    BY FS_Singleton
  <2>5. /\ IsFiniteSet(Way)
        /\ Cardinality(Way) \in Nat /\ Cardinality(Range(Queue_data)) \in Nat
        /\ Cardinality(Way) <= Cardinality(Range(Queue_data)) + 1
    BY <2>3, <2>4, Grows
  <2>6. Cardinality(Way) <= DataCap + 1
    BY <2>2, <2>3, <2>5
  <2> HIDE DEF Way
  <2>7. Cardinality(Lost') <= Budget'
    BY <1>1, <2>1, <2>5, <2>6, LostFinite, OneReset DEF LossInv
  <2> QED
    BY <1>2, <1>3, <2>7 DEF LossInv
<1>7. CASE ~ (received \cap 1 .. saved_counter \subseteq 1 .. saved_counter')
  <2>1. PICK x \in received : x \in 1 .. saved_counter /\ x \notin 1 .. saved_counter'
    BY <1>7
  <2>2. saved_counter' = flash_saved /\ saved_counter # flash_saved
    BY <1>1, <2>1
  <2>3. saved_counter = flash_saved + 1
    BY <2>2, Counts DEF LossInv, Accounted, SavedOrder
  <2>4. x = saved_counter
    BY <2>1, <2>2, <2>3, Counts
  <2>5. last = saved_counter
    BY <2>1, <2>2, <2>4 DEF LossInv, Accounted, SavedOrder
  <2>6. ASSUME NEW i \in 1 .. Len(Queue_data) PROVE FALSE
    <3>1. Queue_data[i] \in Nat /\ saved_counter \in Nat
      BY QueueTyped, Counts
    <3>2. saved_counter < Queue_data[i] /\ Queue_data[i] <= saved_counter
      BY <2>5 DEF Sorted, LossInv, Accounted, WayOrder
    <3> QED
      BY <3>1, <3>2
  <2>7. Range(Queue_data) = {}
    <3>1. DOMAIN Queue_data = 1 .. Len(Queue_data)
      BY LenProperties DEF TypeOK
    <3> QED
      BY <2>6, <3>1 DEF Range
  <2>8. read_value = None
    BY <2>5, Counts DEF Sorted, TypeOK, LossInv, Accounted, WayOrder
  <2>9. 1 .. saved_counter = 1 .. saved_counter' \cup {saved_counter}
    BY <2>2, <2>3, Counts
  <2>10. Lost' \subseteq Lost \cup {saved_counter}
    BY <1>4, <1>5, <2>7, <2>8, <2>9, NoneIsZero DEF Lost, Covered
  <2>11. IsFiniteSet({saved_counter}) /\ Cardinality({saved_counter}) <= DataCap + 1
    <3>1. 1 <= DataCap + 1
      BY Counts
    <3> QED
      BY <3>1, FS_Singleton
  <2>12. Cardinality(Lost') <= Budget'
    BY <1>1, <2>10, <2>11, LostFinite, OneReset DEF LossInv
  <2> QED
    BY <1>2, <1>3, <2>12 DEF LossInv
<1> QED
  BY <1>6, <1>7

(* Every step keeps the account. *)
LEMMA LossStep == Inv /\ LossInv /\ [Next]_vars => LossInv'
<1> SUFFICES ASSUME Inv, LossInv, [Next]_vars PROVE LossInv'
  OBVIOUS
<1>1. CASE ConnStep
  BY <1>1, LossConnector, LossSend DEF ConnStep
<1>2. CASE SaveCounter
  BY <1>2, LossSave
<1>3. CASE AwsReceive
  BY <1>3, LossReceive
<1>4. CASE AwsPublish
  BY <1>4, LossPublish
<1>5. CASE Reset
  BY <1>5, LossReset
<1>6. CASE \/ AwsConnect \/ AwsYield \/ AwsNoData \/ AwsState \/ SaveCommit
           \/ FlashWriteSent \/ AdcEnergy \/ LinkStep \/ UNCHANGED vars
  <2>1. /\ UNCHANGED <<saved_counter, sent_counter, conn_pc, conn_saved, data_sent_counter,
                       Queue_data, read_value, received, last, passes, dropped, resets>>
        /\ flash_saved' \in {flash_saved, saved_counter}
        /\ flash_sent' \in {flash_sent, sent_counter}
    <3>1. CASE AwsConnect \/ AwsYield \/ AwsNoData \/ AwsState
      BY <3>1 DEF AwsConnect, AwsYield, AwsNoData, AwsState, AwsUnchanged, counters, connVars
    <3>2. CASE SaveCommit \/ FlashWriteSent \/ AdcEnergy
      BY <3>2 DEF SaveCommit, FlashWriteSent, AdcEnergy, counters, connVars, awsVars
    <3>3. CASE LinkStep \/ UNCHANGED vars
      BY <3>3 DEF LinkStep, vars, counters, connVars, awsVars
    <3> QED
      BY <1>6, <3>1, <3>2, <3>3
  <2> QED
    BY <2>1, LossIdle DEF Inv
<1> QED
  BY <1>1, <1>2, <1>3, <1>4, <1>5, <1>6 DEF Next, NvsStep, AwsStep

LEMMA LossInvariant == Spec => []LossInv
<1>1. Init => LossInv
  <2> SUFFICES ASSUME Init PROVE LossInv
    OBVIOUS
  <2>1. Reached = 0
    BY DEF Init, Reached
  <2>2. Lost = {}
    BY <2>1 DEF Lost
  <2>3. Cardinality(Lost) = 0
    BY <2>2, FS_EmptySet
  <2>4. DataCap \in Nat
    BY DeliveryAssumption
  <2>5. Budget = 0
    BY <2>4 DEF Init, Budget
  <2>6. Single
    BY <2>1, <2>2 DEF Single
  <2>7. Accounted
    BY Empty, NoneIsZero DEF Init, Accounted, SavedOrder, SentOrder, WayOrder
  <2> QED
    BY <2>3, <2>5, <2>6, <2>7 DEF LossInv
<1> QED
  BY <1>1, LossStep, Invariant, PTL DEF Spec

(* What is missing at the broker is among the losses. *)
LEMMA MissingLost ==
    ASSUME Inv, LossInv
    PROVE  Missing \subseteq Lost
<1>1. sent_counter <= Reached
  BY Counts DEF Inv, Reached, LossInv, Accounted, SentOrder
<1>2. 1 .. (sent_counter - 1) \subseteq 1 .. (Reached - 1)
  BY <1>1, Counts DEF Inv
<1> QED
  BY <1>2 DEF Missing, Lost, Covered

(* Counted as sent but lost is at most one reading for each pass of the    *)
(* connector that leaves one out, for each publication over a connection   *)
(* that was gone, and Queue_data and the reading in hand for each reset.   *)
THEOREM LossAlwaysBounded == Spec => []LossBounded
<1>1. Inv /\ LossInv => LossBounded
  <2> SUFFICES ASSUME Inv, LossInv PROVE LossBounded
    OBVIOUS
  <2>1. Missing \subseteq Lost /\ IsFiniteSet(Lost)
    BY MissingLost, LostFinite DEF Inv
  <2>2. IsFiniteSet(Missing) /\ Cardinality(Missing) <= Cardinality(Lost)
    BY <2>1, FS_Subset
  <2>3. Cardinality(Missing) \in Nat /\ Cardinality(Lost) \in Nat
    BY <2>1, <2>2, FS_CardinalityType
  <2>4. Cardinality(Lost) <= Budget /\ Budget \in Nat
    BY Counts, BudgetCounts DEF Inv, LossInv, Budget
  <2>5. Cardinality(Missing) <= Budget
    BY <2>2, <2>3, <2>4
  <2> QED
    BY <2>5 DEF LossBounded, Budget
<1> QED
  BY <1>1, Invariant, LossInvariant, PTL

(* Of two readings one after the other at least one is there or on its way *)
(* as long as nothing was lost to an outage or a reset.                    *)
NoTwoMissing ==
    dropped = 0 /\ resets = 0 => \A r \in Missing : r + 1 \notin Missing

(* The connector's passes leave gaps of one reading only, however many     *)
(* there are and whatever was queued when (main.c:489-503).                *)
THEOREM GapsAreSingle == Spec => []NoTwoMissing
<1>1. Inv /\ LossInv => NoTwoMissing
  <2> SUFFICES ASSUME Inv, LossInv PROVE NoTwoMissing
    OBVIOUS
  <2>1. Missing \subseteq Lost
    BY MissingLost
  <2> QED
    BY <2>1 DEF NoTwoMissing, LossInv, Single
<1> QED
  BY <1>1, Invariant, LossInvariant, PTL

----------------------------------------------------------------------------
(* The connector *)

(* What a step that is no step of the connector leaves alone. *)
LEMMA PassKept ==
    ASSUME UNCHANGED connVars
    PROVE  UNCHANGED Pass!pass
  BY DEF connVars, Pass!pass, Idle

(* A reset takes back no more than the count not yet in flash. *)
LEMMA PassRestart == ASSUME TypeOK, Accounted, Reset PROVE Pass!Restart
<1>1. saved_counter' \in 0 .. saved_counter
  BY DEF TypeOK, Accounted, SavedOrder, Reset
<1>2. Len(Queue_data') = 0 /\ Pass!NoPass'
  BY Empty DEF Reset, Pass!NoPass, Idle
<1> QED
  BY <1>1, <1>2 DEF Reset, Pass!Restart

(* Each step is one of the connector as module Connector has it, or none.  *)
LEMMA PassStep == Inv /\ LossInv /\ [Next]_vars => [Pass!Next]_(Pass!connectorVars)
<1> SUFFICES ASSUME Inv, LossInv, [Next]_vars
             PROVE  [Pass!Next]_(Pass!connectorVars)
  OBVIOUS
<1>0. TypeOK /\ Accounted
  BY DEF Inv, LossInv
<1>1. CASE SaveCounter
  <2>1. UNCHANGED Pass!pass
    BY <1>1, PassKept DEF SaveCounter
  <2>2. Pass!Count
    BY <1>1, <2>1 DEF SaveCounter, connVars, Pass!Count
  <2> QED
    BY <2>2 DEF Pass!Next
<1>2. CASE ConnBegin
  <2>1. Pass!Begin
    BY <1>2 DEF ConnBegin, counters, Idle, Pass!Begin
  <2> QED
    BY <2>1 DEF Pass!Next
<1>3. CASE ConnSend
  <2>1. data_sent_counter \in Nat \ {None}
    BY <1>3, <1>0, NoneIsZero DEF Inv, Ahead, Below, ConnSend, TypeOK
  <2>2. Len(Queue_data') = Len(Queue_data) + 1
    BY <1>3, <1>0, <2>1, Appended DEF ConnSend, TypeOK
  <2>3. Pass!Queue
    BY <1>3, <2>2 DEF ConnSend, counters, Idle, Pass!Queue
  <2> QED
    BY <2>3 DEF Pass!Next
<1>4. CASE ConnSetSent
  <2>1. Pass!Store
    BY <1>4 DEF ConnSetSent, counters, Idle, Pass!Store
  <2> QED
    BY <2>1 DEF Pass!Next
<1>5. CASE ConnEnd
  <2>1. Pass!End
    BY <1>5 DEF ConnEnd, counters, Idle, Pass!End, Pass!NoPass
  <2> QED
    BY <2>1 DEF Pass!Next
<1>6. CASE AwsReceive
  <2>1. Len(Queue_data) \in Nat \ {0} /\ Len(Queue_data') = Len(Queue_data) - 1
    BY <1>6, <1>0, Received DEF AwsReceive, TypeOK
  <2>2. UNCHANGED Pass!pass
    BY <1>6, PassKept DEF AwsReceive, AwsUnchanged
  <2>3. Pass!Take
    BY <1>6, <2>1, <2>2 DEF AwsReceive, AwsUnchanged, counters, connVars, Pass!Take
  <2> QED
    BY <2>3 DEF Pass!Next
<1>7. CASE FlashWriteSent
  <2>1. UNCHANGED Pass!pass
    BY <1>7, PassKept DEF FlashWriteSent
  <2>2. Pass!Flush
    BY <1>7, <2>1 DEF FlashWriteSent, counters, connVars, Pass!Flush
  <2> QED
    BY <2>2 DEF Pass!Next
<1>8. CASE Reset
  BY <1>8, <1>0, PassRestart DEF Pass!Next
<1>9. ASSUME UNCHANGED <<saved_counter, flash_sent, connVars, Queue_data>>
      PROVE  UNCHANGED Pass!connectorVars
  <2>1. UNCHANGED Pass!pass
    BY <1>9, PassKept
  <2> QED
    BY <1>9, <2>1 DEF connVars, Pass!connectorVars
<1>10. CASE SaveCommit \/ AdcEnergy \/ LinkStep \/ UNCHANGED vars
  <2>1. UNCHANGED <<saved_counter, flash_sent, connVars, Queue_data>>
    BY <1>10 DEF SaveCommit, AdcEnergy, LinkStep, counters, vars
  <2> QED
    BY <1>9, <2>1
<1>11. CASE AwsConnect \/ AwsYield \/ AwsNoData \/ AwsPublish \/ AwsState
  <2>1. UNCHANGED <<saved_counter, flash_sent, connVars, Queue_data>>
    BY <1>11 DEF AwsConnect, AwsYield, AwsNoData, AwsPublish, AwsState,
                 AwsUnchanged, counters
  <2> QED
    BY <1>9, <2>1
<1> QED
  BY <1>1, <1>2, <1>3, <1>4, <1>5, <1>6, <1>7, <1>8, <1>10, <1>11
     DEF Next, NvsStep, ConnStep, AwsStep

(* Seen from the numbers, the connector does here what module Connector    *)
(* says (main.c:471-515), and so what StoreForward has it do call by call. *)
THEOREM DeliveryImplementsConnector == Spec => ConnectorSpec
<1>1. Init => Pass!Init
  BY Empty DEF Init, Idle, Pass!Init, Pass!NoPass
<1> QED
  BY <1>1, PassStep, Invariant, LossInvariant, PTL DEF Spec, ConnectorSpec, Pass!Spec
=============================================================================
