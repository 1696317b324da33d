----------------------------- MODULE Connector -----------------------------
(***************************************************************************)
(* What task_connector (src/src/main.c, lines 434 to 524) does to the      *)
(* numbers of the readings: in one pass it queues, one after the other,    *)
(* those from the record after the stored one up to the last one counted   *)
(* when the pass began, and stores after each the number of the next.      *)
(*                                                                         *)
(* StoreForward implements it call by call, with failing calls and an      *)
(* erased partition; Delivery implements it with the network in the        *)
(* picture; so the two models agree about the connector.                   *)
(***************************************************************************)
EXTENDS Naturals

CONSTANT Cap \* N_QUEUE

VARIABLES
    saved,      \* readings counted
    sent,       \* the number stored: the record to send next
    flash_sent, \* the number a reset goes back to
    at,         \* no pass under way, in a pass, or about to store a number
    upto,       \* the last record of this pass, 0 between passes
    next,       \* the record to queue next, 0 between passes
    waiting     \* records in the queue

pass == <<at, upto, next>>
connectorVars == <<saved, sent, flash_sent, pass, waiting>>

NoPass == at = "idle" /\ upto = 0 /\ next = 0

Init ==
    /\ saved = 0 /\ sent = 0 /\ flash_sent = 0
    /\ NoPass
    /\ waiting = 0

(* task_nvs counts a reading. *)
Count ==
    /\ saved' = saved + 1
    /\ UNCHANGED <<sent, flash_sent, pass, waiting>>

(* The stored number is incremented once more when it is read ... *)
Begin ==
    /\ at = "idle" /\ at' = "pass"
    /\ upto' = saved
    /\ next' = sent + 1
    /\ UNCHANGED <<saved, sent, flash_sent, waiting>>

(* ... or the read fails, and the pass starts over from the first record.  *)
StartOver ==
    /\ at = "pass"
    /\ next = sent + 1
    /\ next' = 1
    /\ UNCHANGED <<saved, sent, flash_sent, at, upto, waiting>>

Queue ==
    /\ at = "pass" /\ at' = "store"
    /\ next <= upto
    /\ waiting < Cap
    /\ waiting' = waiting + 1
    /\ next' = next + 1
    /\ UNCHANGED <<saved, sent, flash_sent, upto>>

(* The pass goes on whether or not the number could be stored. *)
Store ==
    /\ at = "store" /\ at' = "pass"
    /\ sent' \in {sent, next}
    /\ UNCHANGED <<saved, flash_sent, upto, next, waiting>>

End ==
    /\ at = "pass" /\ next > upto
    /\ NoPass'
    /\ UNCHANGED <<saved, sent, flash_sent, waiting>>

(* aws_iot_task takes a record. *)
Take ==
    /\ waiting > 0
    /\ waiting' = waiting - 1
    /\ UNCHANGED <<saved, sent, flash_sent, pass>>

(* The stored number reaches the flash. *)
Flush ==
    /\ flash_sent' = sent
    /\ UNCHANGED <<saved, sent, pass, waiting>>

(* The queue is lost and so are counts not yet in flash, or both counters  *)
(* with the partition.                                                     *)
Restart ==
    /\ \/ saved' \in 0 .. saved /\ sent' = flash_sent /\ UNCHANGED flash_sent
       \/ saved' = 0 /\ sent' = 0 /\ flash_sent' = 0
    /\ NoPass'
    /\ waiting' = 0

Next ==
    \/ Count \/ Begin \/ StartOver \/ Queue \/ Store \/ End
    \/ Take \/ Flush \/ Restart

Spec == Init /\ [][Next]_connectorVars
=============================================================================
