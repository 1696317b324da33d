------------------------- MODULE StoreForward_proof -------------------------
(***************************************************************************)
(* Proofs about Storage and StoreForward, for every ring size and every    *)
(* number of saves, resets and failed calls.  The store's invariant comes  *)
(* first.  StoreForward implements Storage, so that invariant holds for    *)
(* the writer's side of it; the connector's and the publisher's invariants *)
(* are added to it.                                                        *)
(***************************************************************************)
EXTENDS StoreForward, Integers, TLAPS

----------------------------------------------------------------------------
(* Arithmetic of the ring *)

(* A multiple of a number is not below it. *)
LEMMA ScaledUp ==
    ASSUME NEW n \in Nat \ {0}, NEW k \in Nat \ {0}
    PROVE  n <= n * k
  OBVIOUS

(* The key computed from a counter (storage.c:33) is one of the ring's. *)
LEMMA SlotInRange ==
    ASSUME NEW c \in Nat
    PROVE  Slot(c) \in Slots
  BY StorageAssumption DEF Slot, Slots

(* Two counters less than a lap apart have different keys. *)
LEMMA SlotDistinct ==
    ASSUME NEW a \in Nat, NEW b \in Nat, a < b, b < a + RingSize
    PROVE  Slot(a) # Slot(b)
<1> DEFINE qa == a \div RingSize
           qb == b \div RingSize
<1>1. RingSize \in Nat \ {0}
  BY StorageAssumption
<1>2. /\ qa \in Nat /\ qb \in Nat
      /\ a = RingSize * qa + (a % RingSize)
      /\ b = RingSize * qb + (b % RingSize)
  BY <1>1
<1>3. SUFFICES ASSUME a % RingSize = b % RingSize PROVE FALSE
  BY DEF Slot
<1>4. b - a = RingSize * qb - RingSize * qa
  BY <1>1, <1>2, <1>3
<1>5. CASE qb <= qa
  <2>1. RingSize * qb <= RingSize * qa
    BY <1>1, <1>2, <1>5
  <2> QED BY <2>1, <1>4, <1>1, <1>2
<1>6. CASE qb > qa
  <2>1. RingSize <= RingSize * (qb - qa)
    BY <1>1, <1>2, <1>6, ScaledUp
  <2>2. RingSize * (qb - qa) = RingSize * qb - RingSize * qa
    BY <1>1, <1>2
  <2> QED BY <2>1, <2>2, <1>4, <1>1, <1>2
<1> QED BY <1>5, <1>6, <1>2

----------------------------------------------------------------------------
(* Types *)

(* Every step keeps the variables of save_read_data and of NVS typed. *)
LEMMA StorageTypeStep == StorageTypeOK /\ [StorageNext]_storageVars => StorageTypeOK'
<1> SUFFICES ASSUME StorageTypeOK, [StorageNext]_storageVars
             PROVE  StorageTypeOK'
  OBVIOUS
<1> USE StorageAssumption DEF StorageTypeOK, nvsVars
<1>1. CASE SaveBegin
  BY <1>1 DEF SaveBegin
<1>2. CASE SaveCounter
  BY <1>2 DEF SaveCounter
<1>3. CASE SaveString
  BY <1>3 DEF SaveString
<1>4. CASE SaveCommit
  BY <1>4 DEF SaveCommit
<1>5. CASE SaveFails
  BY <1>5 DEF SaveFails
<1>6. CASE FlashWrite
  BY <1>6 DEF FlashWrite
<1>7. CASE StorageReset
  BY <1>7 DEF StorageReset
<1>8. CASE StorageErase
  BY <1>8 DEF StorageErase
<1>9. CASE UNCHANGED storageVars
  BY <1>9 DEF storageVars
<1> QED
  BY <1>1, <1>2, <1>3, <1>4, <1>5, <1>6, <1>7, <1>8, <1>9 DEF StorageNext, SaveStep

(* The state of save_read_data and of NVS is always well typed. *)
THEOREM StorageTypeCorrect == StorageSpec => []StorageTypeOK
<1>1. StorageInit => StorageTypeOK
  BY StorageAssumption DEF StorageInit, StorageTypeOK, Slots
<1> QED
  BY <1>1, StorageTypeStep, PTL DEF StorageSpec

----------------------------------------------------------------------------
(* The inductive invariant *)

(* Where task_nvs stands fixes how its local counter and the key relate;   *)
(* nothing else writes the key.                                            *)
CounterInv ==
    /\ nvs_pc = "set_counter" => data_saved_counter = saved_counter + 1
    /\ nvs_pc \in {"set_str", "commit"} => data_saved_counter = saved_counter
    /\ nvs_pc = "set_str" => saved_counter > 0
    /\ flash_saved <= saved_counter

(* DurableSurvives also in the current view of the counter. *)
DurableInv == DurableSurvives /\ \A c \in durable : c <= saved_counter

(* Without failed calls at most one save is not durable, so no slot is     *)
(* more than one ahead of the counter a reset would find.                  *)
AheadInv ==
    errors = 0 =>
        /\ saved_counter <= flash_saved + 1
        /\ nvs_pc \in {"delay", "set_counter"} => saved_counter = flash_saved
        /\ \A s \in Slots : ring[s] <= flash_saved + 1 /\ flash_ring[s] <= flash_saved + 1

(* Without faults a slot never holds a reading older than the last one     *)
(* written there.                                                          *)
FreshInv == FaultFree => \A c \in 1 .. Written : c <= ring[Slot(c)]

StorageInv ==
    /\ StorageTypeOK /\ CounterInv /\ DurableInv /\ SlotCongruent /\ AheadInv
    /\ RingComplete /\ FreshInv

(* The first boot satisfies the invariant. *)
LEMMA StorageInvInit == StorageInit => StorageInv
<1> SUFFICES ASSUME StorageInit PROVE StorageInv
  OBVIOUS
<1> USE StorageAssumption DEF StorageInit
<1>1. StorageTypeOK
  BY DEF StorageTypeOK, Slots
<1>2. CounterInv
  BY DEF CounterInv
<1>3. DurableInv
  BY DEF DurableInv, DurableSurvives
<1>4. SlotCongruent
  BY DEF SlotCongruent
<1>5. AheadInv
  BY DEF AheadInv
<1>6. RingComplete
  BY DEF RingComplete, Written
<1>7. FreshInv
  BY DEF FreshInv, Written
<1> QED BY <1>1, <1>2, <1>3, <1>4, <1>5, <1>6, <1>7 DEF StorageInv

(* The counter of a save in progress stays one that was counted.           *)
LEMMA CounterStep == StorageInv /\ [StorageNext]_storageVars => CounterInv'
<1> SUFFICES ASSUME StorageInv, [StorageNext]_storageVars PROVE CounterInv'
  OBVIOUS
<1> USE DEF StorageInv, StorageTypeOK, CounterInv, nvsVars
<1>1. CASE SaveBegin
  BY <1>1 DEF SaveBegin
<1>2. CASE SaveCounter
  BY <1>2 DEF SaveCounter
<1>3. CASE SaveString
  BY <1>3 DEF SaveString
<1>4. CASE SaveCommit
  BY <1>4 DEF SaveCommit
<1>5. CASE SaveFails
  BY <1>5 DEF SaveFails
<1>6. CASE FlashWrite
  BY <1>6 DEF FlashWrite
<1>7. CASE StorageReset
  BY <1>7 DEF StorageReset
<1>8. CASE StorageErase
  BY <1>8 DEF StorageErase
<1>9. CASE UNCHANGED storageVars
  BY <1>9 DEF storageVars
<1> QED
  BY <1>1, <1>2, <1>3, <1>4, <1>5, <1>6, <1>7, <1>8, <1>9 DEF StorageNext, SaveStep

(* No step loses a reading that was committed.                             *)
LEMMA DurableStep == StorageInv /\ [StorageNext]_storageVars => DurableInv'
<1> SUFFICES ASSUME StorageInv, [StorageNext]_storageVars PROVE DurableInv'
  OBVIOUS
<1> USE DEF StorageInv, StorageTypeOK, DurableInv, DurableSurvives, nvsVars
<1>0. \A c \in Nat : Slot(c) \in Slots
  BY SlotInRange
<1>1. CASE SaveBegin
  BY <1>1 DEF SaveBegin
<1>2. CASE SaveCounter
  BY <1>2 DEF SaveCounter, CounterInv
<1>3. CASE SaveString
  <2>1. \A c \in durable : c <= ring'[Slot(c)]
    BY <1>0, <1>3 DEF SaveString, CounterInv
  <2> QED BY <1>3, <2>1 DEF SaveString
<1>4. CASE SaveCommit
  <2>1. \A c \in durable' : c <= saved_counter /\ c <= ring[Slot(c)]
    BY <1>4 DEF SaveCommit, CounterInv
  <2> QED BY <1>4, <2>1 DEF SaveCommit
<1>5. CASE SaveFails
  BY <1>5 DEF SaveFails
<1>6. CASE FlashWrite
  <2>1. \A c \in durable : c <= flash_ring'[Slot(c)]
    BY <1>0, <1>6 DEF FlashWrite
  <2> QED BY <1>6, <2>1 DEF FlashWrite
<1>7. CASE StorageReset
  BY <1>7 DEF StorageReset
<1>8. CASE StorageErase
  BY <1>8 DEF StorageErase
<1>9. CASE UNCHANGED storageVars
  BY <1>9 DEF storageVars
<1> QED
  BY <1>1, <1>2, <1>3, <1>4, <1>5, <1>6, <1>7, <1>8, <1>9 DEF StorageNext, SaveStep

(* No step puts a reading in a slot of another.                            *)
LEMMA CongruentStep == StorageInv /\ [StorageNext]_storageVars => SlotCongruent'
<1> SUFFICES ASSUME StorageInv, [StorageNext]_storageVars PROVE SlotCongruent'
  OBVIOUS
<1> USE DEF StorageInv, StorageTypeOK, SlotCongruent, nvsVars
<1>1. CASE SaveBegin
  BY <1>1 DEF SaveBegin
<1>2. CASE SaveCounter
  BY <1>2 DEF SaveCounter
<1>3. CASE SaveString
  BY <1>3 DEF SaveString
<1>4. CASE SaveCommit
  BY <1>4 DEF SaveCommit
<1>5. CASE SaveFails
  BY <1>5 DEF SaveFails
<1>6. CASE FlashWrite
  BY <1>6 DEF FlashWrite
<1>7. CASE StorageReset
  BY <1>7 DEF StorageReset
<1>8. CASE StorageErase
  BY <1>8 DEF StorageErase
<1>9. CASE UNCHANGED storageVars
  BY <1>9 DEF storageVars
<1> QED
  BY <1>1, <1>2, <1>3, <1>4, <1>5, <1>6, <1>7, <1>8, <1>9 DEF StorageNext, SaveStep

(* Every step keeps what a slot may hold ahead of the counter.             *)
LEMMA AheadStep == StorageInv /\ [StorageNext]_storageVars => AheadInv'
<1> SUFFICES ASSUME StorageInv, [StorageNext]_storageVars PROVE AheadInv'
  OBVIOUS
<1> USE DEF StorageInv, StorageTypeOK, AheadInv, nvsVars
<1>1. CASE SaveBegin
  BY <1>1 DEF SaveBegin
<1>2. CASE SaveCounter
  BY <1>2 DEF SaveCounter, CounterInv
<1>3. CASE SaveString
  BY <1>3 DEF SaveString, CounterInv
<1>4. CASE SaveCommit
  BY <1>4 DEF SaveCommit, CounterInv
<1>5. CASE SaveFails
  BY <1>5 DEF SaveFails
<1>6. CASE FlashWrite
  BY <1>6 DEF FlashWrite, CounterInv
<1>7. CASE StorageReset
  BY <1>7 DEF StorageReset
<1>8. CASE StorageErase
  BY <1>8 DEF StorageErase
<1>9. CASE UNCHANGED storageVars
  BY <1>9 DEF storageVars
<1> QED
  BY <1>1, <1>2, <1>3, <1>4, <1>5, <1>6, <1>7, <1>8, <1>9 DEF StorageNext, SaveStep

(* Without faults no step loses a reading of the last lap.                 *)
LEMMA CompleteStep == StorageInv /\ [StorageNext]_storageVars => RingComplete'
<1> SUFFICES ASSUME StorageInv, [StorageNext]_storageVars PROVE RingComplete'
  OBVIOUS
<1> USE DEF StorageInv, StorageTypeOK, CounterInv, RingComplete, FaultFree, nvsVars
<1>1. CASE SaveBegin
  BY <1>1 DEF SaveBegin, Written
<1>2. CASE SaveCounter
  <2>1. Written' = Written
    BY <1>2 DEF SaveCounter, Written
  <2> QED BY <1>2, <2>1 DEF SaveCounter
<1>3. CASE SaveString
  <2> SUFFICES ASSUME FaultFree, NEW c \in 1 .. saved_counter, saved_counter < c + RingSize
               PROVE  ring'[Slot(c)] = c
    BY <1>3 DEF SaveString, Written
  <2>1. CASE c = saved_counter
    BY <1>3, <2>1, SlotInRange DEF SaveString
  <2>2. CASE c # saved_counter
    <3>1. c \in 1 .. Written /\ Written < c + RingSize
      BY <1>3, <2>2, StorageAssumption DEF SaveString, Written
    <3>2. ring[Slot(c)] = c
      BY <3>1
    <3>3. Slot(c) # Slot(saved_counter)
      BY <2>2, SlotDistinct
    <3> QED BY <1>3, <3>2, <3>3, SlotInRange DEF SaveString
  <2> QED BY <2>1, <2>2
<1>4. CASE SaveCommit
  BY <1>4 DEF SaveCommit, Written
<1>5. CASE SaveFails
  BY <1>5 DEF SaveFails
<1>6. CASE FlashWrite
  BY <1>6 DEF FlashWrite, Written
<1>7. CASE StorageReset
  BY <1>7 DEF StorageReset
<1>8. CASE StorageErase
  BY <1>8 DEF StorageErase
<1>9. CASE UNCHANGED storageVars
  BY <1>9 DEF storageVars, Written
<1> QED
  BY <1>1, <1>2, <1>3, <1>4, <1>5, <1>6, <1>7, <1>8, <1>9 DEF StorageNext, SaveStep

(* Without faults no step puts a reading over a later one. *)
LEMMA FreshStep == StorageInv /\ [StorageNext]_storageVars => FreshInv'
<1> SUFFICES ASSUME StorageInv, [StorageNext]_storageVars PROVE FreshInv'
  OBVIOUS
<1> USE DEF StorageInv, StorageTypeOK, CounterInv, FreshInv, FaultFree, nvsVars
<1>1. CASE SaveBegin
  BY <1>1 DEF SaveBegin, Written
<1>2. CASE SaveCounter
  <2>1. Written' = Written
    BY <1>2 DEF SaveCounter, Written
  <2> QED BY <1>2, <2>1 DEF SaveCounter
<1>3. CASE SaveString
  <2> SUFFICES ASSUME FaultFree, NEW c \in 1 .. saved_counter
               PROVE  c <= ring'[Slot(c)]
    BY <1>3 DEF SaveString, Written
  <2>1. CASE Slot(c) = Slot(saved_counter)
    BY <1>3, <2>1, SlotInRange DEF SaveString
  <2>2. CASE Slot(c) # Slot(saved_counter)
    <3>1. c \in 1 .. Written
      BY <1>3, <2>2 DEF SaveString, Written
    <3>2. c <= ring[Slot(c)]
      BY <3>1
    <3> QED BY <1>3, <2>2, <3>2, SlotInRange DEF SaveString
  <2> QED BY <2>1, <2>2
<1>4. CASE SaveCommit
  BY <1>4 DEF SaveCommit, Written
<1>5. CASE SaveFails
  BY <1>5 DEF SaveFails
<1>6. CASE FlashWrite
  BY <1>6 DEF FlashWrite, Written
<1>7. CASE StorageReset
  BY <1>7 DEF StorageReset
<1>8. CASE StorageErase
  BY <1>8 DEF StorageErase
<1>9. CASE UNCHANGED storageVars
  BY <1>9 DEF storageVars, Written
<1> QED
  BY <1>1, <1>2, <1>3, <1>4, <1>5, <1>6, <1>7, <1>8, <1>9 DEF StorageNext, SaveStep

(* The conjunction is inductive. *)
THEOREM StorageInvariant == StorageSpec => []StorageInv
<1>1. StorageInv /\ [StorageNext]_storageVars => StorageInv'
  BY StorageTypeStep, CounterStep, DurableStep, CongruentStep, AheadStep, CompleteStep,
     FreshStep DEF StorageInv
<1> QED
  BY <1>1, StorageInvInit, PTL DEF StorageSpec

----------------------------------------------------------------------------
(* The properties *)

(* No crash, failed call or later save undoes a committed reading. *)
THEOREM StorageDurable == StorageSpec => []DurableSurvives
<1>1. StorageInv => DurableSurvives
  BY DEF StorageInv, DurableInv
<1> QED BY <1>1, StorageInvariant, PTL

(* Every slot holds a reading whose counter maps to it. *)
THEOREM StorageCongruent == StorageSpec => []SlotCongruent
<1>1. StorageInv => SlotCongruent
  BY DEF StorageInv
<1> QED BY <1>1, StorageInvariant, PTL

(* Without faults the last RingSize readings are readable. *)
THEOREM StorageComplete == StorageSpec => []RingComplete
<1>1. StorageInv => RingComplete
  BY DEF StorageInv
<1> QED BY <1>1, StorageInvariant, PTL

(* Committed readings of the last lap are readable after any resets. *)
THEOREM StorageRecent == StorageSpec => []RecentReadable
<1>1. StorageInv => RecentReadable
  <2> SUFFICES ASSUME StorageInv, errors = 0, NEW c \in durable,
                      saved_counter + 1 < c + RingSize
               PROVE  ring[Slot(c)] = c
    BY DEF RecentReadable
  <2> DEFINE x == ring[Slot(c)]
  <2>1. c \in Nat /\ Slot(c) \in Slots /\ x \in Nat
    BY SlotInRange DEF StorageInv, StorageTypeOK
  <2>2. c <= x
    BY DEF StorageInv, DurableInv, DurableSurvives
  <2>3. x < c + RingSize
    BY <2>1, StorageAssumption DEF StorageInv, AheadInv, CounterInv, StorageTypeOK
  <2>4. x = 0 \/ Slot(x) = Slot(c)
    BY <2>1 DEF StorageInv, SlotCongruent
  <2>5. ~ (c < x)
    BY <2>1, <2>3, <2>4, SlotDistinct
  <2> QED BY <2>1, <2>2, <2>5
<1> QED BY <1>1, StorageInvariant, PTL

----------------------------------------------------------------------------
(* Refinement *)

(* A step of the composed system is a step of save_read_data, of NVS or a  *)
(* reset, or leaves the writer's state alone.                              *)
LEMMA StorageStep == [Next]_vars => [StorageNext]_storageVars
<1> SUFFICES ASSUME [Next]_vars PROVE [StorageNext]_storageVars
  OBVIOUS
<1>1. CASE NvsStep
  BY <1>1 DEF NvsStep, StorageNext
<1>2. CASE FlashWriteSent
  BY <1>2 DEF FlashWriteSent
<1>3. CASE ConnStep
  BY <1>3 DEF ConnStep, ConnUnchanged, ConnOpen, ConnOpenFails, ConnComplain,
     ConnGetSaved, ConnGetSavedFails, ConnGetSent, ConnGetSentFails, ConnLoop,
     ConnGetSize, ConnGetStr, ConnFetchFails, ConnSend, ConnSetSent, ConnSetSentFails
<1>4. CASE AwsStep
  BY <1>4 DEF AwsStep, AwsUnchanged, AwsConnect, AwsYield, AwsCheckData,
     AwsReceiveData, AwsPublishData, AwsCheckState, AwsReceiveState,
     AwsPublishState, AwsCheckRc
<1>5. CASE AdcEnergy
  BY <1>5 DEF AdcEnergy
<1>6. CASE AdcState
  BY <1>6 DEF AdcState
<1>7. CASE Reset
  BY <1>7 DEF Reset, StorageNext
<1>8. CASE UNCHANGED vars
  BY <1>8 DEF vars
<1> QED
  BY <1>1, <1>2, <1>3, <1>4, <1>5, <1>6, <1>7, <1>8 DEF Next

(* The connector and the publisher do not disturb the store: the composed  *)
(* system implements the specification of storage.c.                       *)
LEMMA StoreForwardImplementsStorage == Spec => StorageSpec
<1>1. Init => StorageInit
  BY DEF Init
<1> QED
  BY <1>1, StorageStep, PTL DEF Spec, StorageSpec

----------------------------------------------------------------------------
(* Types *)

(* Every step keeps the connector's and the publisher's state typed. *)
LEMMA TypeStep == TypeOK /\ [Next]_vars => TypeOK'
<1> SUFFICES ASSUME TypeOK, [Next]_vars PROVE TypeOK'
  OBVIOUS
<1>0. StorageTypeOK'
  BY StorageStep, StorageTypeStep DEF TypeOK
<1> USE <1>0, QueueAssumption
    DEF TypeOK, ConnPC, AwsPC, Codes, Garbage, queues, connVars, awsVars,
        ConnUnchanged, AwsUnchanged
<1>1. CASE NvsStep
  BY <1>1 DEF NvsStep
<1>2. CASE FlashWriteSent
  BY <1>2 DEF FlashWriteSent
<1>3. CASE ConnStep
  <2>1. CASE ConnOpen
    BY <2>1 DEF ConnOpen
  <2>2. CASE ConnOpenFails
    BY <2>2 DEF ConnOpenFails
  <2>3. CASE ConnComplain
    BY <2>3 DEF ConnComplain
  <2>4. CASE ConnGetSaved
    BY <2>4 DEF ConnGetSaved, StorageTypeOK
  <2>5. CASE ConnGetSent
    BY <2>5 DEF ConnGetSent
  <2>6. CASE ConnLoop
    BY <2>6 DEF ConnLoop
  <2>7. TextHere \in Nat
    BY SlotInRange DEF TextHere, StorageTypeOK
  <2>8. CASE ConnGetSize
    BY <2>7, <2>8 DEF ConnGetSize, LengthHere
  <2>9. CASE ConnGetStr
    BY <2>7, <2>9 DEF ConnGetStr, LengthHere
  <2>10. CASE ConnSend
    BY <2>10 DEF ConnSend
  <2>11. CASE ConnSetSent
    BY <2>11 DEF ConnSetSent
  <2>12. CASE ConnSetSentFails
    BY <2>12 DEF ConnSetSentFails
  <2>13. CASE ConnGetSavedFails
    BY <2>13 DEF ConnGetSavedFails
  <2>14. CASE ConnGetSentFails
    BY <2>14 DEF ConnGetSentFails
  <2>15. CASE ConnFetchFails
    BY <2>15 DEF ConnFetchFails
  <2> QED
    BY <1>3, <2>1, <2>2, <2>3, <2>4, <2>5, <2>6, <2>8, <2>9, <2>10, <2>11, <2>12,
       <2>13, <2>14, <2>15 DEF ConnStep
<1>4. CASE AwsStep
  <2>1. CASE AwsConnect
    BY <2>1 DEF AwsConnect
  <2>2. CASE AwsYield
    BY <2>2 DEF AwsYield
  <2>3. CASE AwsCheckData
    BY <2>3 DEF AwsCheckData
  <2>4. CASE AwsReceiveData
    BY <2>4 DEF AwsReceiveData
  <2>5. CASE AwsPublishData
    BY <2>5 DEF AwsPublishData, Publish
  <2>6. CASE AwsCheckState
    BY <2>6 DEF AwsCheckState
  <2>7. CASE AwsReceiveState
    BY <2>7 DEF AwsReceiveState
  <2>8. CASE AwsPublishState
    BY <2>8 DEF AwsPublishState, Publish
  <2>9. CASE AwsCheckRc
    BY <2>9 DEF AwsCheckRc
  <2> QED
    BY <1>4, <2>1, <2>2, <2>3, <2>4, <2>5, <2>6, <2>7, <2>8, <2>9 DEF AwsStep
<1>5. CASE AdcEnergy
  <2>1. energy' \in BOOLEAN
    BY <1>5, Zenon DEF AdcEnergy
  <2>2. UNCHANGED <<storageVars, flash_sent, connVars, awsVars, queues>>
    BY <1>5 DEF AdcEnergy
  <2> QED BY <2>1, <2>2
<1>6. CASE AdcState
  BY <1>6 DEF AdcState
<1>7. CASE Reset
  <2>1. sent_counter' \in Nat /\ flash_sent' \in Nat
    BY <1>7 DEF Reset
  <2>2. Queue_data' \in Seq(Nat) /\ Len(Queue_data') <= DataCap /\ state_len' \in 0 .. StateCap
    BY <1>7 DEF Reset
  <2>3. energy' \in BOOLEAN
    BY <1>7 DEF Reset
  <2>4. aws_pc' \in AwsPC /\ rc' \in Codes
    BY <1>7 DEF Reset
  <2>5. /\ conn_pc' = "delay" /\ complaints' = 0 /\ conn_errors' = conn_errors
        /\ conn_saved' = 0 /\ data_sent_counter' = 0 /\ size_L' = 0
        /\ conn_value' = 0 /\ forwarded' = 0
    BY <1>7 DEF Reset
  <2> QED BY <2>1, <2>2, <2>3, <2>4, <2>5
<1>8. CASE UNCHANGED vars
  BY <1>8 DEF vars
<1> QED
  BY <1>1, <1>2, <1>3, <1>4, <1>5, <1>6, <1>7, <1>8 DEF Next

(* The state of the three tasks is always well typed and the queues stay   *)
(* within their capacity.                                                  *)
THEOREM TypeCorrect == Spec => []TypeOK
<1>1. Init => TypeOK
  BY StorageAssumption, QueueAssumption
     DEF Init, TypeOK, StorageInit, StorageTypeOK, Slots, ConnPC, AwsPC, Codes, Garbage
<1> QED
  BY <1>1, TypeStep, PTL DEF Spec

----------------------------------------------------------------------------
(* The publisher finds what it looked for *)

(* Only the publisher takes from the queues, so what it saw waiting stays. *)
LEMMA ReceiveStep == TypeOK /\ ReceiveFindsItem /\ [Next]_vars => ReceiveFindsItem'
<1> SUFFICES ASSUME TypeOK, ReceiveFindsItem, [Next]_vars PROVE ReceiveFindsItem'
  OBVIOUS
<1> USE DEF TypeOK, ReceiveFindsItem, queues, awsVars, ConnUnchanged, AwsUnchanged
<1>1. CASE NvsStep
  BY <1>1 DEF NvsStep
<1>2. CASE FlashWriteSent
  BY <1>2 DEF FlashWriteSent
<1>3. CASE ConnStep
  <2>1. CASE ConnSend
    BY <2>1 DEF ConnSend
  <2>2. CASE ConnComplain
    BY <2>2 DEF ConnComplain
  <2> QED
    BY <1>3, <2>1, <2>2 DEF ConnStep, ConnOpen, ConnOpenFails, ConnGetSaved,
       ConnGetSavedFails, ConnGetSent, ConnGetSentFails, ConnLoop, ConnGetSize,
       ConnGetStr, ConnFetchFails, ConnSetSent, ConnSetSentFails
<1>4. CASE AwsStep
  BY <1>4 DEF AwsStep, AwsConnect, AwsYield, AwsCheckData, AwsReceiveData,
     AwsPublishData, AwsCheckState, AwsReceiveState, AwsPublishState, AwsCheckRc
<1>5. CASE AdcEnergy
  BY <1>5 DEF AdcEnergy
<1>6. CASE AdcState
  BY <1>6 DEF AdcState
<1>7. CASE Reset
  BY <1>7 DEF Reset
<1>8. CASE UNCHANGED vars
  BY <1>8 DEF vars
<1> QED
  BY <1>1, <1>2, <1>3, <1>4, <1>5, <1>6, <1>7, <1>8 DEF Next

(* aws_iot_task never receives from a queue that is empty. *)
THEOREM ReceiveAlwaysFinds == Spec => []ReceiveFindsItem
<1>1. Init => ReceiveFindsItem
  BY DEF Init, ReceiveFindsItem
<1> QED
  BY <1>1, TypeCorrect, ReceiveStep, PTL DEF Spec

----------------------------------------------------------------------------
(* The connector *)

(* A pass in which there is something to send, and where it stands. *)
InPass == conn_saved > 0 /\ conn_pc \in {"loop", "complain", "get_size", "get_str", "send"}

(* Inside a pass the connector stays within what was saved when it began,  *)
(* and what was saved only grows.                                          *)
PassInv ==
    /\ conn_saved <= saved_counter
    /\ conn_pc \in {"get_size", "get_str", "send"} => data_sent_counter <= conn_saved
    /\ conn_pc \in {"loop", "complain", "get_size", "get_str", "send"} => data_sent_counter > 0
    /\ conn_pc = "set_sent" => /\ data_sent_counter <= conn_saved + 1
                               /\ data_sent_counter = forwarded + 1
                               /\ conn_saved > 0
    /\ conn_pc = "complain_saved" => conn_saved = 0
    /\ conn_errors = 0 => conn_pc \notin {"complain", "complain_saved"}

(* SentDrift for the copy in flash as well, relative to what a reset keeps *)
(* of the writer's counter.                                                *)
DriftInv ==
    /\ errors = 0 => sent_counter <= flash_saved + 2 /\ flash_sent <= flash_saved + 2
    /\ resets = 0 => sent_counter <= saved_counter + 1

(* How far sent_counter may lie ahead of a pass: not past what the pass    *)
(* ends with, or only as long as one failed call explains it.              *)
LeadInv ==
    /\ resets = 0 /\ conn_saved > 0 /\ conn_pc \notin {"delay", "get_saved"} =>
          sent_counter <= conn_saved + 1
    /\ conn_errors < 2 /\ (InPass \/ conn_pc = "set_sent") =>
          \/ sent_counter <= data_sent_counter
          \/ conn_errors = 1 /\ (conn_pc = "set_sent" \/ data_sent_counter <= conn_saved)

(* How the counter of the pass and the one in NVS follow the last record   *)
(* forwarded.                                                              *)
SkipInv ==
    forwarded > 0 =>
        /\ resets = 0 \/ conn_errors < 2 =>
              /\ ~ InPass /\ conn_pc # "set_sent" => sent_counter <= forwarded + 1
              /\ InPass => /\ data_sent_counter <= forwarded + 2
                           /\ \/ sent_counter <= forwarded + 1
                              \/ data_sent_counter = forwarded + 1
        /\ conn_errors = 0 /\ conn_pc # "set_sent" => sent_counter = forwarded + 1
        /\ conn_errors = 0 /\ conn_pc \in {"loop", "get_size", "get_str", "send"} =>
              data_sent_counter > forwarded

(* What may go out for the record of the pass, besides an unfilled buffer. *)
InPlaceOf(value) ==
    /\ Slot(value) = Slot(data_sent_counter)
    /\ value + RingSize >= data_sent_counter
    /\ data_sent_counter < conn_saved => value >= data_sent_counter

(* What the two reads of a slot return. *)
FetchInv ==
    FaultFree =>
        /\ conn_pc = "send" => conn_value = Garbage \/ InPlaceOf(conn_value)
        /\ data_sent_counter < conn_saved /\ saved_counter < data_sent_counter + RingSize =>
              /\ conn_pc = "get_str" => size_L = data_sent_counter \/ conn_errors > 0
              /\ conn_pc = "send" =>
                    conn_value = data_sent_counter \/ (conn_value = Garbage /\ conn_errors > 0)

ConnInv == PassInv /\ DriftInv /\ LeadInv /\ SkipInv /\ FetchInv

(* What a step of the writer or of NVS can do to the connector: nothing    *)
(* but let the saved counters grow.                                        *)
LEMMA NvsEffect ==
    ASSUME StorageInv, NvsStep
    PROVE  /\ saved_counter' \in Nat /\ flash_saved' \in Nat
           /\ saved_counter <= saved_counter'
           /\ flash_saved <= flash_saved'
           /\ errors' = 0 => errors = 0
           /\ resets' = resets
           /\ UNCHANGED <<flash_sent, connVars>>
<1> USE DEF NvsStep, StorageInv, StorageTypeOK, CounterInv, nvsVars
<1>1. CASE SaveBegin
  BY <1>1 DEF SaveBegin
<1>2. CASE SaveCounter
  BY <1>2 DEF SaveCounter
<1>3. CASE SaveString
  BY <1>3 DEF SaveString
<1>4. CASE SaveCommit
  BY <1>4 DEF SaveCommit
<1>5. CASE SaveFails
  BY <1>5 DEF SaveFails
<1>6. CASE FlashWrite
  BY <1>6 DEF FlashWrite
<1> QED
  BY <1>1, <1>2, <1>3, <1>4, <1>5, <1>6 DEF SaveStep

(* The connector only reads what the writer wrote. *)
LEMMA ConnEffect == ConnStep => UNCHANGED <<storageVars, flash_sent>>
  BY DEF ConnStep, ConnUnchanged, ConnOpen, ConnOpenFails, ConnComplain,
     ConnGetSaved, ConnGetSavedFails, ConnGetSent, ConnGetSentFails, ConnLoop,
     ConnGetSize, ConnGetStr, ConnFetchFails, ConnSend, ConnSetSent, ConnSetSentFails

(* The other tasks leave both of them alone. *)
LEMMA OtherSteps ==
    ASSUME [Next]_vars
    PROVE  NvsStep \/ FlashWriteSent \/ ConnStep \/ Reset
           \/ UNCHANGED <<storageVars, flash_sent, connVars>>
<1>1. CASE AwsStep
  BY <1>1 DEF AwsStep, AwsUnchanged, AwsConnect, AwsYield, AwsCheckData,
     AwsReceiveData, AwsPublishData, AwsCheckState, AwsReceiveState,
     AwsPublishState, AwsCheckRc
<1>2. CASE AdcEnergy
  BY <1>2 DEF AdcEnergy
<1>3. CASE AdcState
  BY <1>3 DEF AdcState
<1>4. CASE UNCHANGED vars
  BY <1>4 DEF vars
<1> QED
  BY <1>1, <1>2, <1>3, <1>4 DEF Next

(* The counters are numbers. *)
Numbers ==
    /\ saved_counter \in Nat /\ flash_saved \in Nat
    /\ sent_counter \in Nat /\ flash_sent \in Nat
    /\ conn_saved \in Nat /\ data_sent_counter \in Nat
    /\ forwarded \in Nat /\ complaints \in Nat /\ conn_errors \in Nat
    /\ errors \in Nat /\ resets \in Nat

LEMMA Numbered == TypeOK => Numbers
  BY DEF TypeOK, StorageTypeOK, Numbers

(* The connector keeps within the records saved. *)
LEMMA PassStep == TypeOK /\ StorageInv /\ ConnInv /\ [Next]_vars => PassInv'
<1> SUFFICES ASSUME TypeOK, StorageInv, ConnInv, [Next]_vars PROVE PassInv'
  OBVIOUS
<1> USE Numbered DEF Numbers, ConnInv, PassInv, connVars
<1>1. CASE NvsStep
  BY <1>1, NvsEffect
<1>2. CASE FlashWriteSent
  BY <1>2 DEF FlashWriteSent, storageVars, nvsVars
<1>3. CASE ConnStep
  <2>0. UNCHANGED <<storageVars, flash_sent>>
    BY <1>3, ConnEffect
  <2> USE <2>0 DEF storageVars, nvsVars
  <2>1. CASE ConnOpen
    BY <2>1 DEF ConnOpen
  <2>2. CASE ConnOpenFails
    BY <2>2 DEF ConnOpenFails
  <2>3. CASE ConnComplain
    BY <2>3 DEF ConnComplain
  <2>4. CASE ConnGetSaved
    BY <2>4 DEF ConnGetSaved
  <2>5. CASE ConnGetSent
    BY <2>5 DEF ConnGetSent
  <2>6. CASE ConnLoop
    BY <2>6 DEF ConnLoop
  <2>7. CASE ConnGetSize
    BY <2>7 DEF ConnGetSize
  <2>8. CASE ConnGetStr
    BY <2>8 DEF ConnGetStr
  <2>9. CASE ConnSend
    <3>1. /\ conn_pc' = "set_sent" /\ forwarded' = data_sent_counter
          /\ data_sent_counter' = data_sent_counter + 1
          /\ UNCHANGED <<sent_counter, conn_saved, saved_counter>>
      BY <2>9 DEF ConnSend
    <3>2. data_sent_counter <= conn_saved /\ data_sent_counter > 0
      BY <2>9 DEF ConnSend
    <3>3. data_sent_counter' <= conn_saved + 1 /\ conn_saved > 0
      BY <3>1, <3>2
    <3> QED
      BY <3>1, <3>3
  <2>10. CASE ConnSetSent
    BY <2>10 DEF ConnSetSent
  <2>11. CASE ConnSetSentFails
    BY <2>11 DEF ConnSetSentFails
  <2>12. CASE ConnGetSavedFails
    BY <2>12 DEF ConnGetSavedFails
  <2>13. CASE ConnGetSentFails
    BY <2>13 DEF ConnGetSentFails
  <2>14. CASE ConnFetchFails
    BY <2>14 DEF ConnFetchFails
  <2> QED
    BY <1>3, <2>1, <2>2, <2>3, <2>4, <2>5, <2>6, <2>7, <2>8, <2>9, <2>10, <2>11,
       <2>12, <2>13, <2>14 DEF ConnStep
<1>4. CASE Reset
  <2>1. conn_saved' = 0 /\ conn_pc' = "delay"
    BY <1>4 DEF Reset
  <2>2. saved_counter' = flash_saved \/ saved_counter' = 0
    BY <1>4 DEF Reset, StorageReset, StorageErase
  <2> QED
    BY <2>1, <2>2
<1>5. CASE UNCHANGED <<storageVars, flash_sent, connVars>>
  BY <1>5 DEF storageVars, nvsVars
<1> QED
  BY <1>1, <1>2, <1>3, <1>4, <1>5, OtherSteps

(* Neither counter runs away from the other. *)
LEMMA DriftStep == TypeOK /\ StorageInv /\ ConnInv /\ [Next]_vars => DriftInv'
<1> SUFFICES ASSUME TypeOK, StorageInv, ConnInv, [Next]_vars PROVE DriftInv'
  OBVIOUS
<1> USE Numbered DEF Numbers, ConnInv, DriftInv, connVars, PassInv
<1>1. CASE NvsStep
  BY <1>1, NvsEffect
<1>2. CASE FlashWriteSent
  BY <1>2 DEF FlashWriteSent, storageVars, nvsVars
<1>3. CASE ConnStep
  <2>0. UNCHANGED <<storageVars, flash_sent>>
    BY <1>3, ConnEffect
  <2> USE <2>0 DEF storageVars, nvsVars
  <2>1. CASE ConnOpen
    BY <2>1 DEF ConnOpen
  <2>2. CASE ConnOpenFails
    BY <2>2 DEF ConnOpenFails
  <2>3. CASE ConnComplain
    BY <2>3 DEF ConnComplain
  <2>4. CASE ConnGetSaved
    BY <2>4 DEF ConnGetSaved
  <2>5. CASE ConnGetSent
    BY <2>5 DEF ConnGetSent
  <2>6. CASE ConnLoop
    BY <2>6 DEF ConnLoop
  <2>7. CASE ConnGetSize
    BY <2>7 DEF ConnGetSize
  <2>8. CASE ConnGetStr
    BY <2>8 DEF ConnGetStr
  <2>9. CASE ConnSend
    BY <2>9 DEF ConnSend
  <2>10. CASE ConnSetSent
    BY <2>10 DEF ConnSetSent, StorageInv, AheadInv, CounterInv
  <2>11. CASE ConnSetSentFails
    BY <2>11 DEF ConnSetSentFails
  <2>12. CASE ConnGetSavedFails
    BY <2>12 DEF ConnGetSavedFails
  <2>13. CASE ConnGetSentFails
    BY <2>13 DEF ConnGetSentFails
  <2>14. CASE ConnFetchFails
    BY <2>14 DEF ConnFetchFails
  <2> QED
    BY <1>3, <2>1, <2>2, <2>3, <2>4, <2>5, <2>6, <2>7, <2>8, <2>9, <2>10, <2>11,
       <2>12, <2>13, <2>14 DEF ConnStep
<1>4. CASE Reset
  <2>1. /\ resets' = resets + 1 /\ errors' = errors
        /\ \/ sent_counter' = flash_sent /\ UNCHANGED <<flash_sent, flash_saved>>
           \/ sent_counter' = 0 /\ flash_sent' = 0 /\ flash_saved' = 0
    BY <1>4 DEF Reset, StorageReset, StorageErase
  <2>2. resets' # 0
    BY <2>1
  <2> QED
    BY <2>1, <2>2
<1>5. CASE UNCHANGED <<storageVars, flash_sent, connVars>>
  BY <1>5 DEF storageVars, nvsVars
<1> QED
  BY <1>1, <1>2, <1>3, <1>4, <1>5, OtherSteps

(* sent_counter leads a pass by no more than a failed call explains.       *)
LEMMA LeadStep == TypeOK /\ StorageInv /\ ConnInv /\ [Next]_vars => LeadInv'
<1> SUFFICES ASSUME TypeOK, StorageInv, ConnInv, [Next]_vars PROVE LeadInv'
  OBVIOUS
<1> USE Numbered DEF Numbers, ConnInv, LeadInv, DriftInv, InPass, connVars, PassInv
<1>1. CASE NvsStep
  BY <1>1, NvsEffect
<1>2. CASE FlashWriteSent
  BY <1>2 DEF FlashWriteSent, storageVars, nvsVars
<1>3. CASE ConnStep
  <2>0. UNCHANGED <<storageVars, flash_sent>>
    BY <1>3, ConnEffect
  <2> USE <2>0 DEF storageVars, nvsVars
  <2>1. CASE ConnOpen
    BY <2>1 DEF ConnOpen
  <2>2. CASE ConnOpenFails
    BY <2>2 DEF ConnOpenFails
  <2>3. CASE ConnComplain
    BY <2>3 DEF ConnComplain
  <2>4. CASE ConnGetSaved
    BY <2>4 DEF ConnGetSaved
  <2>5. CASE ConnGetSent
    BY <2>5 DEF ConnGetSent
  <2>6. CASE ConnLoop
    BY <2>6 DEF ConnLoop
  <2>7. CASE ConnGetSize
    BY <2>7 DEF ConnGetSize
  <2>8. CASE ConnGetStr
    BY <2>8 DEF ConnGetStr
  <2>9. CASE ConnSend
    <3>1. /\ conn_pc = "send" /\ conn_pc' = "set_sent" /\ conn_errors' = conn_errors
          /\ data_sent_counter' = data_sent_counter + 1
          /\ UNCHANGED <<sent_counter, conn_saved>>
      BY <2>9 DEF ConnSend
    <3>2. conn_saved > 0
      BY <3>1
    <3>3. conn_errors < 2 => sent_counter <= data_sent_counter \/ conn_errors = 1
      BY <3>1, <3>2
    <3>4. conn_errors < 2 => sent_counter <= data_sent_counter + 1 \/ conn_errors = 1
      BY <3>3
    <3> QED
      BY <3>1, <3>2, <3>4
  <2>10. CASE ConnSetSent
    BY <2>10 DEF ConnSetSent
  <2>11. CASE ConnSetSentFails
    BY <2>11 DEF ConnSetSentFails
  <2>12. CASE ConnGetSavedFails
    BY <2>12 DEF ConnGetSavedFails
  <2>13. CASE ConnGetSentFails
    BY <2>13 DEF ConnGetSentFails
  <2>14. CASE ConnFetchFails
    BY <2>14 DEF ConnFetchFails
  <2> QED
    BY <1>3, <2>1, <2>2, <2>3, <2>4, <2>5, <2>6, <2>7, <2>8, <2>9, <2>10, <2>11,
       <2>12, <2>13, <2>14 DEF ConnStep
<1>4. CASE Reset
  BY <1>4 DEF Reset, StorageReset, StorageErase
<1>5. CASE UNCHANGED <<storageVars, flash_sent, connVars>>
  BY <1>5 DEF storageVars, nvsVars
<1> QED
  BY <1>1, <1>2, <1>3, <1>4, <1>5, OtherSteps

(* The forwarded counters keep their distance. *)
LEMMA SkipStep == TypeOK /\ StorageInv /\ ConnInv /\ [Next]_vars => SkipInv'
<1> SUFFICES ASSUME TypeOK, StorageInv, ConnInv, [Next]_vars PROVE SkipInv'
  OBVIOUS
<1> USE Numbered DEF Numbers, ConnInv, SkipInv, LeadInv, InPass, connVars, PassInv
<1>1. CASE NvsStep
  BY <1>1, NvsEffect
<1>2. CASE FlashWriteSent
  BY <1>2 DEF FlashWriteSent, storageVars, nvsVars
<1>3. CASE ConnStep
  <2>0. UNCHANGED <<storageVars, flash_sent>>
    BY <1>3, ConnEffect
  <2> USE <2>0 DEF storageVars, nvsVars
  <2>1. CASE ConnOpen
    BY <2>1 DEF ConnOpen
  <2>2. CASE ConnOpenFails
    BY <2>2 DEF ConnOpenFails
  <2>3. CASE ConnComplain
    BY <2>3 DEF ConnComplain
  <2>4. CASE ConnGetSaved
    BY <2>4 DEF ConnGetSaved
  <2>5. CASE ConnGetSent
    BY <2>5 DEF ConnGetSent
  <2>6. CASE ConnLoop
    BY <2>6 DEF ConnLoop
  <2>7. CASE ConnGetSize
    BY <2>7 DEF ConnGetSize
  <2>8. CASE ConnGetStr
    BY <2>8 DEF ConnGetStr
  <2>9. CASE ConnSend
    BY <2>9 DEF ConnSend
  <2>10. CASE ConnSetSent
    BY <2>10 DEF ConnSetSent
  <2>11. CASE ConnSetSentFails
    BY <2>11 DEF ConnSetSentFails
  <2>12. CASE ConnGetSavedFails
    BY <2>12 DEF ConnGetSavedFails
  <2>13. CASE ConnGetSentFails
    BY <2>13 DEF ConnGetSentFails
  <2>14. CASE ConnFetchFails
    BY <2>14 DEF ConnFetchFails
  <2> QED
    BY <1>3, <2>1, <2>2, <2>3, <2>4, <2>5, <2>6, <2>7, <2>8, <2>9, <2>10, <2>11,
       <2>12, <2>13, <2>14 DEF ConnStep
<1>4. CASE Reset
  BY <1>4 DEF Reset, StorageReset, StorageErase
<1>5. CASE UNCHANGED <<storageVars, flash_sent, connVars>>
  BY <1>5 DEF storageVars, nvsVars
<1> QED
  BY <1>1, <1>2, <1>3, <1>4, <1>5, OtherSteps

(* A record of the pass that is not its newest one can be read as saved:   *)
(* the writer is past it and not yet a lap ahead.                          *)
LEMMA ReadableHere ==
    ASSUME TypeOK, StorageInv, ConnInv, conn_pc \in {"get_size", "get_str"}, FaultFree,
           data_sent_counter < conn_saved, saved_counter < data_sent_counter + RingSize
    PROVE  ring[Slot(data_sent_counter)] = data_sent_counter
<1>1. data_sent_counter > 0 /\ conn_saved <= saved_counter
  BY DEF ConnInv, PassInv
<1>2. data_sent_counter \in 1 .. Written /\ Written < data_sent_counter + RingSize
  BY <1>1, StorageAssumption DEF TypeOK, StorageTypeOK, Written
<1> QED BY <1>2 DEF StorageInv, RingComplete

(* A lap back lies the same key. *)
LEMMA SlotLap ==
    ASSUME NEW c \in Nat, c >= RingSize
    PROVE  Slot(c - RingSize) = Slot(c)
<1> DEFINE n == RingSize
           q == c \div n
           p == (c - n) \div n
           r == c % n
           u == (c - n) % n
<1>1. n \in Nat \ {0} /\ c - n \in Nat
  BY StorageAssumption
<1>2. /\ q \in Nat /\ r \in 0 .. n - 1 /\ c = n * q + r
      /\ p \in Nat /\ u \in 0 .. n - 1 /\ c - n = n * p + u
  BY <1>1
<1> HIDE DEF n, q, p, r, u
<1>3. n * q - n * p - n = u - r
  BY <1>1, <1>2
<1>4. n * (q - p - 1) = n * q - n * p - n
  BY <1>1, <1>2
<1>5. CASE q - p - 1 > 0
  <2>1. n <= n * (q - p - 1)
    BY <1>1, <1>2, <1>5, ScaledUp
  <2> QED BY <2>1, <1>1, <1>2, <1>3, <1>4
<1>6. CASE q - p - 1 < 0
  <2>1. n <= n * (p + 1 - q)
    BY <1>1, <1>2, <1>6, ScaledUp
  <2>2. n * (p + 1 - q) = n * p + n - n * q
    BY <1>1, <1>2
  <2> QED BY <2>1, <2>2, <1>1, <1>2, <1>3
<1>7. CASE q - p - 1 = 0
  <2>1. n * (q - p - 1) = 0
    BY <1>1, <1>7
  <2>2. u = r
    BY <2>1, <1>2, <1>3, <1>4
  <2> QED BY <2>2 DEF Slot, u, r, n
<1> QED BY <1>2, <1>5, <1>6, <1>7

(* Whatever the writer does, the slot holds no record older than the one   *)
(* of the lap before, which only the newest record may still find there.   *)
LEMMA SlotHere ==
    ASSUME TypeOK, StorageInv, ConnInv, conn_pc = "get_str", FaultFree
    PROVE  /\ TextHere \in Nat
           /\ TextHere = 0 \/ Slot(TextHere) = Slot(data_sent_counter)
           /\ TextHere + RingSize >= data_sent_counter
           /\ data_sent_counter < conn_saved => TextHere >= data_sent_counter
<1> DEFINE d == data_sent_counter
<1>1. d > 0 /\ d <= conn_saved /\ conn_saved <= saved_counter
  BY DEF ConnInv, PassInv
<1>2. d \in Nat /\ conn_saved \in Nat /\ saved_counter \in Nat /\ RingSize \in Nat \ {0}
  BY StorageAssumption DEF TypeOK, StorageTypeOK
<1>3. Slot(d) \in Slots
  BY <1>2, SlotInRange
<1>4. TextHere \in Nat
  BY <1>3 DEF TextHere, TypeOK, StorageTypeOK
<1>5. TextHere = 0 \/ Slot(TextHere) = Slot(d)
  BY <1>3, <1>4 DEF StorageInv, SlotCongruent, TextHere
<1>6. ASSUME d < conn_saved PROVE TextHere >= d
  <2>1. d \in 1 .. Written
    BY <1>1, <1>2, <1>6 DEF Written
  <2> QED BY <2>1 DEF StorageInv, FreshInv, TextHere
<1>7. TextHere + RingSize >= d
  <2>1. CASE d <= RingSize
    BY <1>2, <1>4, <2>1
  <2>2. CASE d > RingSize
    <3>1. d - RingSize \in 1 .. Written
      BY <1>1, <1>2, <2>2 DEF Written
    <3>2. ring[Slot(d - RingSize)] >= d - RingSize
      BY <3>1 DEF StorageInv, FreshInv
    <3>3. TextHere >= d - RingSize
      BY <1>2, <2>2, <3>2, SlotLap DEF TextHere
    <3> QED BY <1>2, <1>4, <3>3
  <2> QED BY <1>2, <2>1, <2>2
<1> QED BY <1>4, <1>5, <1>6, <1>7

(* What was read is what was asked for. *)
LEMMA FetchStep == TypeOK /\ StorageInv /\ ConnInv /\ [Next]_vars => FetchInv'
<1> SUFFICES ASSUME TypeOK, StorageInv, ConnInv, [Next]_vars PROVE FetchInv'
  OBVIOUS
<1> USE Numbered DEF Numbers, ConnInv, FetchInv, InPlaceOf, connVars, FaultFree
<1>1. CASE NvsStep
  BY <1>1, NvsEffect, StorageAssumption
<1>2. CASE FlashWriteSent
  BY <1>2 DEF FlashWriteSent, storageVars, nvsVars
<1>3. CASE ConnStep
  <2>0. UNCHANGED <<storageVars, flash_sent>>
    BY <1>3, ConnEffect
  <2> USE <2>0 DEF storageVars, nvsVars
  <2>1. CASE ConnOpen
    BY <2>1 DEF ConnOpen
  <2>2. CASE ConnOpenFails
    BY <2>2 DEF ConnOpenFails
  <2>3. CASE ConnComplain
    BY <2>3 DEF ConnComplain
  <2>4. CASE ConnGetSaved
    BY <2>4 DEF ConnGetSaved
  <2>5. CASE ConnGetSent
    BY <2>5 DEF ConnGetSent
  <2>6. CASE ConnLoop
    BY <2>6 DEF ConnLoop
  <2>7. CASE ConnGetSize
    <3>1. SUFFICES ASSUME FaultFree, data_sent_counter < conn_saved,
                          saved_counter < data_sent_counter + RingSize
                   PROVE  size_L' = data_sent_counter
      BY <2>7 DEF ConnGetSize
    <3>2. ring[Slot(data_sent_counter)] = data_sent_counter
      BY <2>7, <3>1, ReadableHere DEF ConnGetSize
    <3> QED BY <2>7, <3>1, <3>2 DEF ConnGetSize, LengthHere, TextHere, PassInv
  <2>8. CASE ConnGetStr
    <3>0. /\ conn_pc = "get_str" /\ conn_pc' = "send" /\ conn_value' \in {TextHere, Garbage}
          /\ TextHere = size_L => conn_value' = TextHere
          /\ UNCHANGED <<conn_saved, data_sent_counter, conn_errors, saved_counter, errors, resets>>
      BY <2>8 DEF ConnGetStr
    <3>1. SUFFICES ASSUME FaultFree
                   PROVE  /\ conn_value' = Garbage \/ InPlaceOf(conn_value')
                          /\ /\ data_sent_counter < conn_saved
                             /\ saved_counter < data_sent_counter + RingSize
                             => \/ conn_value' = data_sent_counter
                                \/ conn_value' = Garbage /\ conn_errors > 0
      BY <3>0 DEF InPlaceOf
    <3>2. conn_value' = Garbage \/ InPlaceOf(conn_value')
      BY <3>0, <3>1, SlotHere DEF InPlaceOf, Garbage
    <3>3. ASSUME data_sent_counter < conn_saved, saved_counter < data_sent_counter + RingSize
          PROVE  conn_value' = data_sent_counter \/ (conn_value' = Garbage /\ conn_errors > 0)
      <4>1. TextHere = data_sent_counter
        BY <3>0, <3>1, <3>3, ReadableHere DEF TextHere
      <4>2. size_L = data_sent_counter \/ conn_errors > 0
        BY <3>0, <3>1, <3>3
      <4> QED BY <3>0, <4>1, <4>2
    <3> QED BY <3>2, <3>3
  <2>9. CASE ConnSend
    BY <2>9 DEF ConnSend
  <2>10. CASE ConnSetSent
    BY <2>10 DEF ConnSetSent
  <2>11. CASE ConnSetSentFails
    BY <2>11 DEF ConnSetSentFails
  <2>12. CASE ConnGetSavedFails
    BY <2>12 DEF ConnGetSavedFails
  <2>13. CASE ConnGetSentFails
    BY <2>13 DEF ConnGetSentFails
  <2>14. CASE ConnFetchFails
    BY <2>14 DEF ConnFetchFails, Garbage
  <2> QED
    BY <1>3, <2>1, <2>2, <2>3, <2>4, <2>5, <2>6, <2>7, <2>8, <2>9, <2>10, <2>11,
       <2>12, <2>13, <2>14 DEF ConnStep
<1>4. CASE Reset
  BY <1>4 DEF Reset, StorageReset, StorageErase
<1>5. CASE UNCHANGED <<storageVars, flash_sent, connVars>>
  BY <1>5 DEF storageVars, nvsVars
<1> QED
  BY <1>1, <1>2, <1>3, <1>4, <1>5, OtherSteps

(* The connector's invariant, on top of the writer's. *)
THEOREM ConnInvariant == Spec => []ConnInv
<1>1. Init => ConnInv
  BY DEF Init, StorageInit, ConnInv, PassInv, DriftInv, LeadInv, SkipInv, FetchInv,
         InPass
<1>2. TypeOK /\ StorageInv /\ ConnInv /\ [Next]_vars => ConnInv'
  BY PassStep, DriftStep, LeadStep, SkipStep, FetchStep DEF ConnInv
<1> QED
  BY <1>1, <1>2, TypeCorrect, StorageInvariant, StoreForwardImplementsStorage, PTL
     DEF Spec

(* The connector is never more than one record past the writer, nor more   *)
(* than two after resets (main.c:483 and 503).                             *)
THEOREM DriftBounded == Spec => []SentDrift
<1>1. StorageInv /\ TypeOK /\ ConnInv => SentDrift
  BY DEF SentDrift, ConnInv, DriftInv, StorageInv, CounterInv, TypeOK, StorageTypeOK
<1> QED
  BY <1>1, ConnInvariant, TypeCorrect, StorageInvariant, StoreForwardImplementsStorage, PTL

(* It skips at most one record between two it forwards, whatever calls     *)
(* fail before the first reset and with one that fails after it, and       *)
(* without a failed call sends none twice in a boot (main.c:464-509).      *)
THEOREM SkipBounded == Spec => []SkipsAtMostOne
<1>1. TypeOK /\ ConnInv => SkipsAtMostOne
  <2> SUFFICES ASSUME TypeOK, ConnInv, conn_pc = "send", forwarded > 0
               PROVE  /\ resets = 0 \/ conn_errors < 2 => data_sent_counter <= forwarded + 2
                      /\ conn_errors = 0 => data_sent_counter > forwarded
    BY DEF SkipsAtMostOne
  <2>1. InPass
    BY Numbered DEF Numbers, ConnInv, PassInv, InPass
  <2> QED
    BY <2>1 DEF ConnInv, SkipInv
<1> QED BY <1>1, TypeCorrect, ConnInvariant, PTL

(* What goes out for a record of a pass is the record as saved, or, where  *)
(* a call failed, the newest was not written yet or the ring was overrun,  *)
(* nothing worse than FetchExact says, although the ring is shared without *)
(* a lock (main.c:494-496).                                                *)
THEOREM FetchIsExact == Spec => []FetchExact
<1>1. ConnInv => FetchExact
  BY DEF FetchExact, ConnInv, FetchInv, InPlaceOf
<1> QED BY <1>1, ConnInvariant, PTL

----------------------------------------------------------------------------
(* The connector's specification *)

(* What a step that is no step of the connector leaves alone. *)
LEMMA PassKept ==
    ASSUME UNCHANGED connVars
    PROVE  UNCHANGED Pass!pass
  BY DEF connVars, Pass!pass, Idle

LEMMA PassStutters ==
    ASSUME UNCHANGED <<saved_counter, flash_sent, connVars, Queue_data>>
    PROVE  UNCHANGED Pass!connectorVars
<1>1. UNCHANGED Pass!pass
  BY PassKept
<1> QED
  BY <1>1 DEF connVars, Pass!connectorVars

(* The writer counts one reading at a time. *)
LEMMA NvsCounts ==
    ASSUME StorageInv, NvsStep
    PROVE  saved_counter' \in {saved_counter, saved_counter + 1}
<1> USE DEF nvsVars
<1>1. CASE SaveBegin \/ SaveString \/ SaveCommit \/ SaveFails
  BY <1>1 DEF SaveBegin, SaveString, SaveCommit, SaveFails
<1>2. CASE SaveCounter
  BY <1>2 DEF SaveCounter, StorageInv, CounterInv
<1>3. CASE FlashWrite
  BY <1>3 DEF FlashWrite
<1> QED
  BY <1>1, <1>2, <1>3 DEF NvsStep, SaveStep

LEMMA PassCount ==
    ASSUME StorageInv, NvsStep
    PROVE  Pass!Count \/ UNCHANGED Pass!connectorVars
<1>1. UNCHANGED <<flash_sent, connVars, Queue_data>>
  BY DEF NvsStep, queues
<1>2. UNCHANGED Pass!pass
  BY <1>1, PassKept
<1>3. CASE saved_counter' = saved_counter + 1
  BY <1>1, <1>2, <1>3 DEF connVars, Pass!Count
<1>4. CASE saved_counter' = saved_counter
  BY <1>1, <1>4, PassStutters
<1> QED
  BY <1>3, <1>4, NvsCounts

(* The calls of task_connector, those that fail included. *)
LEMMA PassConn ==
    ASSUME TypeOK, PassInv, ConnStep
    PROVE  Pass!Next \/ UNCHANGED Pass!connectorVars
<1>0. UNCHANGED <<saved_counter, flash_sent>>
  BY ConnEffect DEF storageVars, nvsVars
<1> USE Numbered DEF Numbers, Pass!connectorVars, Pass!pass, Idle
<1>1. CASE ConnOpen
  BY <1>0, <1>1 DEF ConnOpen, queues
<1>2. CASE ConnOpenFails
  BY <1>0, <1>2 DEF ConnOpenFails, queues
<1>3. CASE ConnComplain
  BY <1>0, <1>3 DEF ConnComplain, PassInv
<1>4. CASE ConnGetSaved
  <2>1. CASE saved_counter = 0
    BY <1>0, <1>4, <2>1 DEF ConnGetSaved, queues
  <2>2. CASE saved_counter # 0
    <3>1. Pass!Begin
      BY <1>0, <1>4, <2>2 DEF ConnGetSaved, queues, Pass!Begin
    <3> QED
      BY <3>1 DEF Pass!Next
  <2> QED
    BY <2>1, <2>2
<1>12. CASE ConnGetSavedFails
  BY <1>0, <1>12 DEF ConnGetSavedFails, queues
<1>13. CASE ConnGetSentFails
  <2>1. CASE conn_saved = 0
    BY <1>0, <1>13, <2>1 DEF ConnGetSentFails, queues
  <2>2. CASE conn_saved # 0
    <3>1. Pass!StartOver
      BY <1>0, <1>13, <2>2 DEF ConnGetSentFails, queues, Pass!StartOver
    <3> QED
      BY <3>1 DEF Pass!Next
  <2> QED
    BY <2>1, <2>2
<1>14. CASE ConnFetchFails
  BY <1>0, <1>14 DEF ConnFetchFails, queues
<1>5. CASE ConnGetSent
  BY <1>0, <1>5 DEF ConnGetSent, queues
<1>6. CASE ConnLoop
  <2>1. CASE data_sent_counter <= conn_saved \/ conn_saved = 0
    BY <1>0, <1>6, <2>1 DEF ConnLoop, queues
  <2>2. CASE data_sent_counter > conn_saved /\ conn_saved # 0
    <3>1. Pass!End
      BY <1>0, <1>6, <2>2 DEF ConnLoop, queues, Pass!End, Pass!NoPass
    <3> QED
      BY <3>1 DEF Pass!Next
  <2> QED
    BY <2>1, <2>2
<1>7. CASE ConnGetSize
  BY <1>0, <1>7 DEF ConnGetSize, queues
<1>8. CASE ConnGetStr
  BY <1>0, <1>8 DEF ConnGetStr, queues
<1>9. CASE ConnSend
  <2>1. data_sent_counter <= conn_saved /\ conn_saved # 0
    <3>1. conn_pc = "send"
      BY <1>9 DEF ConnSend
    <3>2. data_sent_counter <= conn_saved /\ data_sent_counter > 0
      BY <3>1 DEF PassInv
    <3> QED
      BY <3>2
  <2>2. Len(Queue_data') = Len(Queue_data) + 1
    <3>1. Queue_data \in Seq(Nat) /\ conn_value \in Nat
      BY DEF TypeOK
    <3>2. Queue_data' = Append(Queue_data, conn_value)
      BY <1>9 DEF ConnSend
    <3> QED
      BY <3>1, <3>2
  <2>3. Pass!Queue
    BY <1>0, <1>9, <2>1, <2>2 DEF ConnSend, Pass!Queue
  <2> QED
    BY <2>3 DEF Pass!Next
<1>10. CASE ConnSetSent
  <2>1. conn_saved # 0
    BY <1>10 DEF ConnSetSent, PassInv
  <2>2. Pass!Store
    BY <1>0, <1>10, <2>1 DEF ConnSetSent, queues, Pass!Store
  <2> QED
    BY <2>2 DEF Pass!Next
<1>11. CASE ConnSetSentFails
  <2>1. conn_saved # 0
    BY <1>11 DEF ConnSetSentFails, PassInv
  <2>2. Pass!Store
    BY <1>0, <1>11, <2>1 DEF ConnSetSentFails, queues, Pass!Store
  <2> QED
    BY <2>2 DEF Pass!Next
<1> QED
  BY <1>1, <1>2, <1>3, <1>4, <1>5, <1>6, <1>7, <1>8, <1>9, <1>10, <1>11,
     <1>12, <1>13, <1>14 DEF ConnStep

(* The calls of aws_iot_task: of all that it does, only a receive matters. *)
LEMMA PassAws ==
    ASSUME TypeOK, AwsStep
    PROVE  Pass!Take \/ UNCHANGED Pass!connectorVars
<1>1. UNCHANGED <<saved_counter, flash_sent, connVars>>
  BY DEF AwsStep, AwsUnchanged, AwsConnect, AwsYield, AwsCheckData, AwsReceiveData,
     AwsPublishData, AwsCheckState, AwsReceiveState, AwsPublishState, AwsCheckRc,
     storageVars, nvsVars
<1>2. UNCHANGED Pass!pass
  BY <1>1, PassKept
<1>3. CASE AwsReceiveData /\ Queue_data # <<>>
  <2>1. Len(Queue_data) \in Nat /\ Len(Queue_data) > 0
    BY <1>3 DEF TypeOK
  <2>2. Len(Queue_data') = Len(Queue_data) - 1
    BY <1>3, <2>1 DEF AwsReceiveData, TypeOK
  <2> QED
    BY <1>1, <1>2, <2>1, <2>2 DEF connVars, Pass!Take
<1>4. CASE AwsReceiveData /\ Queue_data = <<>>
  BY <1>1, <1>4, PassStutters DEF AwsReceiveData
<1>5. CASE ~ AwsReceiveData
  <2>1. UNCHANGED Queue_data
    BY <1>5 DEF AwsStep, AwsConnect, AwsYield, AwsCheckData, AwsPublishData, AwsCheckState,
       AwsReceiveState, AwsPublishState, AwsCheckRc, queues
  <2> QED
    BY <1>1, <2>1, PassStutters
<1> QED
  BY <1>3, <1>4, <1>5

(* A reset takes back the counts not yet in flash, or all of them. *)
LEMMA PassRestart == ASSUME TypeOK, StorageInv, Reset PROVE Pass!Restart
<1>1. Pass!NoPass' /\ Len(Queue_data') = 0
  BY DEF Reset, Pass!NoPass, Idle
<1>2. CASE StorageReset
  <2>1. saved_counter' \in 0 .. saved_counter
    BY <1>2, Numbered DEF Numbers, StorageReset, StorageInv, CounterInv
  <2>2. \/ sent_counter' = flash_sent /\ UNCHANGED flash_sent
        \/ sent_counter' = 0 /\ flash_sent' = 0 /\ saved_counter' = 0
    BY DEF Reset, StorageErase
  <2> QED
    BY <1>1, <2>1, <2>2 DEF Pass!Restart
<1>3. CASE ~ StorageReset
  BY <1>1, <1>3 DEF Reset, StorageErase, Pass!Restart
<1> QED
  BY <1>2, <1>3

(* Call by call, with failing calls, resets and an erased partition, the   *)
(* tasks do to the numbers of the readings what module Connector says      *)
(* (main.c:442-515), as does Delivery with the network in the picture.     *)
THEOREM StoreForwardImplementsConnector == Spec => ConnectorSpec
<1>1. Init => Pass!Init
  BY DEF Init, StorageInit, Idle, Pass!Init, Pass!NoPass
<1>2. TypeOK /\ StorageInv /\ ConnInv /\ [Next]_vars => [Pass!Next]_(Pass!connectorVars)
  <2> SUFFICES ASSUME TypeOK, StorageInv, ConnInv, [Next]_vars
               PROVE  [Pass!Next]_(Pass!connectorVars)
    OBVIOUS
  <2>1. CASE NvsStep
    BY <2>1, PassCount DEF Pass!Next
  <2>2. CASE ConnStep
    BY <2>2, PassConn DEF ConnInv
  <2>3. CASE AwsStep
    BY <2>3, PassAws DEF Pass!Next
  <2>4. CASE FlashWriteSent
    <3>1. UNCHANGED Pass!pass
      BY <2>4, PassKept DEF FlashWriteSent
    <3>2. Pass!Flush
      BY <2>4, <3>1 DEF FlashWriteSent, storageVars, nvsVars, connVars, queues, Pass!Flush
    <3> QED
      BY <3>2 DEF Pass!Next
  <2>5. CASE AdcEnergy \/ AdcState \/ UNCHANGED vars
    <3>1. UNCHANGED <<saved_counter, flash_sent, connVars, Queue_data>>
      BY <2>5 DEF AdcEnergy, AdcState, vars, storageVars, nvsVars, queues
    <3> QED
      BY <3>1, PassStutters
  <2>6. CASE Reset
    BY <2>6, PassRestart DEF Pass!Next
  <2> QED
    BY <2>1, <2>2, <2>3, <2>4, <2>5, <2>6 DEF Next
<1> QED
  BY <1>1, <1>2, TypeCorrect, ConnInvariant, StorageInvariant,
     StoreForwardImplementsStorage, PTL DEF Spec, ConnectorSpec, Pass!Spec
=============================================================================
