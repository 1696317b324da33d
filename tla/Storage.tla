------------------------------ MODULE Storage ------------------------------
(***************************************************************************)
(* The ring of readings kept in non-volatile storage (src/src/storage.c).  *)
(*                                                                         *)
(* task_nvs calls save_read_data once per period.  It increments the NVS   *)
(* key "saved_counter" FIRST, then writes the reading under the key        *)
(* "i_<counter % MAX_BUFFER_RING>", then commits.  The three calls are     *)
(* three steps here, because task_connector reads the same keys from the   *)
(* other core and because the power may go between any two of them.        *)
(*                                                                         *)
(* The text of a reading is abstracted to the counter it was saved under,  *)
(* 0 standing for a key that does not exist.                               *)
(*                                                                         *)
(* NVS itself is an ESP-IDF library, modelled from its contract: a set is  *)
(* visible to every handle at once, becomes durable at nvs_commit, and may *)
(* become durable earlier (FlashWrite).  A reset goes back to what is      *)
(* durable.                                                                *)
(***************************************************************************)
EXTENDS Naturals

CONSTANTS RingSize,    \* MAX_BUFFER_RING
          MaxSaves,    \* bound: saves started with a counter below this
          MaxResets,   \* bound: resets of the board
          MaxErrors    \* bound: NVS calls of save_read_data that fail

ASSUME StorageAssumption ==
    /\ RingSize \in Nat \ {0}
    /\ MaxSaves \in Nat
    /\ MaxResets \in Nat
    /\ MaxErrors \in Nat

VARIABLES
    saved_counter,       \* key "saved_counter", as nvs_get_i32 returns it
    ring,                \* keys "i_0" .. "i_<RingSize-1>", as nvs_get_str sees them
    flash_saved,         \* what a reset would find under "saved_counter"
    flash_ring,          \* what a reset would find under the ring's keys
    nvs_pc,              \* where task_nvs stands in save_read_data
    data_saved_counter,  \* its local variable
    durable,             \* history: counters of the records committed whole
    errors,              \* history: failed NVS calls of save_read_data
    resets               \* history: resets so far

nvsVars     == <<saved_counter, ring, flash_saved, flash_ring>>
storageVars == <<nvsVars, nvs_pc, data_saved_counter, durable, errors, resets>>

Slots == 0 .. RingSize - 1

(* Mutant: a ring one slot too small. *)
Slot_Short(counter) == counter % (RingSize - 1)

(* The ring key a counter value is stored under. *)
Slot(counter) == counter % RingSize

StorageTypeOK ==
    /\ saved_counter \in Nat
    /\ ring \in [Slots -> Nat]
    /\ flash_saved \in Nat
    /\ flash_ring \in [Slots -> Nat]
    /\ nvs_pc \in {"delay", "set_counter", "set_str", "commit"}
    /\ data_saved_counter \in Nat
    /\ durable \subseteq Nat
    /\ errors \in 0 .. MaxErrors
    /\ resets \in 0 .. MaxResets

(* A blank NVS partition: every counter reads as its default, 0. *)
StorageInit ==
    /\ saved_counter = 0
    /\ ring = [s \in Slots |-> 0]
    /\ flash_saved = 0
    /\ flash_ring = [s \in Slots |-> 0]
    /\ nvs_pc = "delay"
    /\ data_saved_counter = 0
    /\ durable = {}
    /\ errors = 0
    /\ resets = 0

----------------------------------------------------------------------------
(* save_read_data.  A failing nvs_open or nvs_get_i32 returns before any   *)
(* state has changed, so it is a stuttering step.                          *)

(* nvs_open; nvs_get_i32 with default 0; data_saved_counter++ *)
SaveBegin ==
    /\ nvs_pc = "delay"
    /\ saved_counter < MaxSaves
    /\ data_saved_counter' = saved_counter + 1
    /\ nvs_pc' = "set_counter"
    /\ UNCHANGED <<nvsVars, durable, errors, resets>>

(* nvs_set_i32(saved_counter) *)
SaveCounter ==
    /\ nvs_pc = "set_counter"
    /\ saved_counter' = data_saved_counter
    /\ nvs_pc' = "set_str"
    /\ UNCHANGED <<ring, flash_saved, flash_ring, data_saved_counter, durable, errors, resets>>

(* nvs_set_str of the reading, into the slot of the new counter *)
SaveString ==
    /\ nvs_pc = "set_str"
    /\ ring' = [ring EXCEPT ![Slot(data_saved_counter)] = data_saved_counter]
    /\ nvs_pc' = "commit"
    /\ UNCHANGED <<saved_counter, flash_saved, flash_ring, data_saved_counter, durable, errors, resets>>

(* Mutant: no nvs_commit. *)
SaveCommit_None ==
    /\ nvs_pc = "commit"
    /\ durable' = IF ring[Slot(data_saved_counter)] = data_saved_counter
                  THEN durable \cup {data_saved_counter} ELSE durable
    /\ nvs_pc' = "delay"
    /\ UNCHANGED <<nvsVars, data_saved_counter, errors, resets>>

(* nvs_commit: what was set is durable from here on. *)
SaveCommit ==
    /\ nvs_pc = "commit"
    /\ flash_saved' = saved_counter
    /\ flash_ring' = ring
    /\ durable' = IF ring[Slot(data_saved_counter)] = data_saved_counter
                  THEN durable \cup {data_saved_counter} ELSE durable
    /\ nvs_pc' = "delay"
    /\ UNCHANGED <<saved_counter, ring, data_saved_counter, errors, resets>>

(* One NVS call fails.  nvs_set_i32 and nvs_commit return their error to   *)
(* task_nvs, which ignores it; the result of nvs_set_str is not looked at, *)
(* so the save goes on to the commit without a reading in the slot.        *)
SaveFails ==
    /\ nvs_pc # "delay"
    /\ errors < MaxErrors
    /\ errors' = errors + 1
    /\ nvs_pc' = IF nvs_pc = "set_str" THEN "commit" ELSE "delay"
    /\ UNCHANGED <<nvsVars, data_saved_counter, durable, resets>>

----------------------------------------------------------------------------
(* External: NVS may write a pending key at any time before the commit. *)
FlashWrite ==
    /\ \/ /\ flash_saved # saved_counter
          /\ flash_saved' = saved_counter
          /\ UNCHANGED flash_ring
       \/ \E s \in Slots :
             /\ flash_ring[s] # ring[s]
             /\ flash_ring' = [flash_ring EXCEPT ![s] = ring[s]]
             /\ UNCHANGED flash_saved
    /\ UNCHANGED <<saved_counter, ring, nvs_pc, data_saved_counter, durable, errors, resets>>

(* A power cut or an abort(): the board starts again from flash. *)
StorageReset ==
    /\ resets < MaxResets
    /\ resets' = resets + 1
    /\ saved_counter' = flash_saved
    /\ ring' = flash_ring
    /\ nvs_pc' = "delay"
    /\ UNCHANGED <<flash_saved, flash_ring, data_saved_counter, durable, errors>>

(* app_main finds the partition full or of another NVS version, erases it  *)
(* and starts from a blank one.                                            *)
StorageErase ==
    /\ resets < MaxResets
    /\ resets' = resets + 1
    /\ saved_counter' = 0
    /\ ring' = [s \in Slots |-> 0]
    /\ flash_saved' = 0
    /\ flash_ring' = [s \in Slots |-> 0]
    /\ nvs_pc' = "delay"
    /\ durable' = {}
    /\ UNCHANGED <<data_saved_counter, errors>>

SaveStep == SaveBegin \/ SaveCounter \/ SaveString \/ SaveCommit \/ SaveFails

StorageNext == SaveStep \/ FlashWrite \/ StorageReset \/ StorageErase

StorageSpec == StorageInit /\ [][StorageNext]_storageVars

----------------------------------------------------------------------------
(* Properties *)

FaultFree == errors = 0 /\ resets = 0

(* The counter up to which every reading has been written: while task_nvs  *)
(* stands between the two writes it is one behind saved_counter.           *)
Written == IF nvs_pc = "set_str" THEN saved_counter - 1 ELSE saved_counter

(* A reading whose nvs_commit returned ESP_OK is in flash, and its counter *)
(* is, whatever was interrupted or failed afterwards: its slot holds that  *)
(* reading or one saved later under the same key, and a reboot cannot      *)
(* count below it.  Two writes, an early flush and a reset must conspire   *)
(* to break it.                                                            *)
DurableSurvives ==
    \A c \in durable :
        /\ c <= flash_saved
        /\ c <= flash_ring[Slot(c)]
        /\ c <= ring[Slot(c)]

(* A slot only ever holds a reading saved under a counter that maps to it, *)
(* in the current view and in flash, through every reset and every reuse   *)
(* of a counter after one.                                                 *)
SlotCongruent ==
    \A s \in Slots : /\ ring[s] = 0 \/ Slot(ring[s]) = s
                     /\ flash_ring[s] = 0 \/ Slot(flash_ring[s]) = s

(* As long as no NVS call failed, a committed reading less than one lap    *)
(* behind the counter can be read back exactly, after any number of        *)
(* resets.  The lap is one short: the save in flight may have replaced the *)
(* oldest reading before its counter reached the flash.                    *)
RecentReadable ==
    errors = 0 => \A c \in durable :
        saved_counter + 1 < c + RingSize => ring[Slot(c)] = c

(* With no fault at all, the last RingSize readings written are all there. *)
RingComplete ==
    FaultFree => \A c \in 1 .. Written :
        Written < c + RingSize => ring[Slot(c)] = c
=============================================================================
