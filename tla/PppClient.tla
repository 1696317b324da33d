----------------------------- MODULE PppClient ------------------------------
(***************************************************************************)
(* The cellular connection (src/components/pppos/libGSM.c): the task       *)
(* pppos_client_task, which brings the modem online, runs PPP over it and  *)
(* carries out requests; ppp_status_cb, called by the TCP/IP thread; and   *)
(* the callers of ppposInit and ppposDisconnect, which talk to the task    *)
(* through shared variables that they poll.                                *)
(*                                                                         *)
(* A section between xSemaphoreTake and xSemaphoreGive is one step: the    *)
(* sections are short, the wait of a second for the mutex never ends       *)
(* without it.  The accesses the code leaves unguarded (the test of line   *)
(* 624, the assignment of line 684) are steps of their own.  There is at   *)
(* most one call of each function at a time.                               *)
(*                                                                         *)
(* External: the modem, which answers AT commands in command mode only,    *)
(* and PPP, whose pppapi_ functions run in the TCP/IP thread and return    *)
(* when they are done.  Left out: byte counters, the radio switch (an AT   *)
(* command nothing reads back), text messages.                             *)
(***************************************************************************)
EXTENDS Naturals, Integers

CONSTANTS
    GSM_InitCmdsSize, \* commands of GSM_Init, the last of which dials
    MaxFails,         \* unanswered commands an initialisation tolerates
    MaxFaults         \* bound of the faults of a behaviour

ASSUME PppAssumption ==
    /\ GSM_InitCmdsSize \in Nat \ {0}
    /\ MaxFails \in Nat
    /\ MaxFaults \in Nat

VARIABLES
    gsm_status,         \* as ppposStatus reports it
    do_pppos_connect,   \* 1: connect, 0: disconnect, -1: disconnect and end
    pppos_task_started,
    pppos_mutex,        \* whether the mutex exists
    ppp,                \* the control block: none, its phase, or freed
    modem,              \* command or data mode
    task,               \* where pppos_client_task stands
    end_task,           \* its local variable: the request it took was -1
    nfail,              \* its local variable
    skipped,            \* the first so many commands of GSM_Init have skip set
    init,               \* where the caller of ppposInit stands
    disc,               \* where the caller of ppposDisconnect stands
    released,           \* history: a ppposDisconnect was carried out after the
                        \* last call of ppposInit
    faults              \* faults so far, at most MaxFaults

shared == <<gsm_status, do_pppos_connect, pppos_task_started, pppos_mutex>>
local == <<end_task, nfail, skipped>>
callers == <<init, disc, released>>
vars == <<shared, ppp, modem, task, local, callers, faults>>

Live == {"up", "running", "closing"}

TypeOK ==
    /\ gsm_status \in {"DISCONNECTED", "CONNECTED", "IDLE", "FIRSTINIT"}
    /\ do_pppos_connect \in {-1, 0, 1}
    /\ pppos_task_started \in BOOLEAN
    /\ pppos_mutex \in BOOLEAN
    /\ ppp \in {"none", "dead", "freed"} \cup Live
    /\ modem \in {"command", "data"}
    /\ task \in {"none", "created", "setup", "init", "idle", "connect", "serve",
                 "taken", "closing", "wait", "lost", "again", "exit"}
    /\ end_task \in BOOLEAN
    /\ nfail \in 0 .. MaxFails + 1
    /\ skipped \in 0 .. GSM_InitCmdsSize
    /\ init \in {"out", "announce", "status"}
    /\ disc \in {"out", "delay", "taken", "done"}
    /\ released \in BOOLEAN
    /\ faults \in 0 .. MaxFaults

Init ==
    /\ gsm_status = "FIRSTINIT"
    /\ do_pppos_connect = 1
    /\ pppos_task_started = FALSE
    /\ pppos_mutex = FALSE
    /\ ppp = "none"
    /\ modem \in {"command", "data"}
    /\ task = "none"
    /\ end_task = FALSE
    /\ nfail = 0
    /\ skipped = 0
    /\ init = "out"
    /\ disc = "out"
    /\ released = TRUE
    /\ faults = 0

Fault == faults < MaxFaults /\ faults' = faults + 1

----------------------------------------------------------------------------
(* External: PPP and its calls of ppp_status_cb *)

(* PPPERR_NONE *)
LinkUp ==
    /\ ppp = "up"
    /\ ppp' = "running"
    /\ gsm_status' = "CONNECTED"
    /\ UNCHANGED <<do_pppos_connect, pppos_task_started, pppos_mutex, modem, task,
                   local, callers, faults>>

(* Lost or never up.  PPPERR_CONNECT is passed on to the task; the other   *)
(* errors (no answer to echoes, authentication, protocol) are dropped.     *)
(* The modem may leave data mode by itself.                                *)
LinkDown(reported) ==
    /\ ppp \in {"up", "running"}
    /\ Fault
    /\ ppp' = "dead"
    /\ modem' \in {modem, "command"}
    /\ gsm_status' = IF reported THEN "DISCONNECTED" ELSE gsm_status
    /\ UNCHANGED <<do_pppos_connect, pppos_task_started, pppos_mutex, task, local,
                   callers>>

(* PPPERR_USER: the end of a close that had to wait for the other side. *)
LinkClosed ==
    /\ ppp = "closing"
    /\ ppp' = "dead"
    /\ gsm_status' = "DISCONNECTED"
    /\ UNCHANGED <<do_pppos_connect, pppos_task_started, pppos_mutex, modem, task,
                   local, callers, faults>>

(* pppapi_close: a link that is down already is reported at once, one that *)
(* is coming up may be, an established one is reported later.              *)
pppapi_close ==
    \/ /\ ppp \in {"dead", "up"}
       /\ ppp' = "dead"
       /\ gsm_status' = "DISCONNECTED"
    \/ /\ ppp \in Live
       /\ ppp' = "closing"
       /\ UNCHANGED gsm_status

(* pppapi_connect: refused unless the link is down. *)
pppapi_connect == ppp' = IF ppp = "dead" THEN "up" ELSE ppp

(* ppp_free: refused unless the link is down. *)
ppp_free == ppp' = IF ppp = "dead" THEN "freed" ELSE ppp

----------------------------------------------------------------------------
(* pppos_client_task *)

TaskStart ==
    /\ task = "created"
    /\ task' = "setup"
    /\ pppos_task_started' = TRUE
    /\ UNCHANGED <<gsm_status, do_pppos_connect, pppos_mutex, ppp, modem, local,
                   callers, faults>>

(* No memory, or an error of the pins or of the UART. *)
TaskSetupFails ==
    /\ task = "setup"
    /\ Fault
    /\ task' = "exit"
    /\ UNCHANGED <<shared, ppp, modem, local, callers>>

(* The first _disconnect takes longer than the 10 ms between two looks of  *)
(* a caller that waits for pppos_task_started.                             *)
TaskSetup ==
    /\ task = "setup"
    /\ init # "announce"
    /\ task' = "init"
    /\ modem' = "command"
    /\ gsm_status' = "FIRSTINIT"
    /\ skipped' = 0
    /\ nfail' = 0
    /\ UNCHANGED <<do_pppos_connect, pppos_task_started, pppos_mutex, ppp, end_task,
                   callers, faults>>

(* The next command of GSM_Init without its skip flag is answered ... *)
TaskCommand ==
    /\ task = "init" /\ skipped < GSM_InitCmdsSize
    /\ modem = "command"
    /\ skipped' = skipped + 1
    /\ modem' = IF skipped' = GSM_InitCmdsSize THEN "data" ELSE "command"
    /\ UNCHANGED <<shared, ppp, task, end_task, nfail, callers, faults>>

(* Mutant: the failures are not counted. *)
TaskCommandFails_Forever ==
    /\ task = "init" /\ skipped < GSM_InitCmdsSize
    /\ UNCHANGED vars

(* Mutant: the limit is compared with the count before. *)
TaskCommandFails_Late ==
    /\ task = "init" /\ skipped < GSM_InitCmdsSize
    /\ nfail' = nfail + 1
    /\ task' = IF nfail > MaxFails THEN "exit" ELSE "init"
    /\ UNCHANGED <<shared, ppp, modem, end_task, skipped, callers, faults>>

(* ... or not, and the round starts again behind the skip flags. *)
TaskCommandFails ==
    /\ task = "init" /\ skipped < GSM_InitCmdsSize
    /\ nfail' = nfail + 1
    /\ task' = IF nfail' > MaxFails THEN "exit" ELSE "init"
    /\ UNCHANGED <<shared, ppp, modem, end_task, skipped, callers, faults>>

(* The first time after its start the task creates the control block. *)
TaskInitialized ==
    /\ task = "init" /\ skipped = GSM_InitCmdsSize
    /\ \/ /\ gsm_status = "FIRSTINIT"
          /\ ppp' = "dead" /\ task' = "idle"
          /\ UNCHANGED faults
       \/ /\ gsm_status = "FIRSTINIT"
          /\ Fault
          /\ ppp' = "none" /\ task' = "exit"
       \/ /\ gsm_status # "FIRSTINIT"
          /\ task' = "idle"
          /\ UNCHANGED <<ppp, faults>>
    /\ UNCHANGED <<shared, modem, local, callers>>

(* Mutant: the state is left as it was. *)
TaskIdle_None ==
    /\ task = "idle"
    /\ task' = "connect"
    /\ UNCHANGED <<shared, ppp, modem, local, callers, faults>>

(* The state is IDLE before the connection is attempted. *)
TaskIdle ==
    /\ task = "idle"
    /\ task' = "connect"
    /\ gsm_status' = "IDLE"
    /\ UNCHANGED <<do_pppos_connect, pppos_task_started, pppos_mutex, ppp, modem,
                   local, callers, faults>>

TaskConnect ==
    /\ task = "connect"
    /\ task' = "serve"
    /\ pppapi_connect
    /\ UNCHANGED <<shared, modem, local, callers, faults>>

(* Mutant: the request is not acknowledged. *)
TaskTake_Keeps ==
    /\ task = "serve"
    /\ do_pppos_connect <= 0
    /\ task' = "taken"
    /\ end_task' = (do_pppos_connect < 0)
    /\ UNCHANGED <<shared, ppp, modem, nfail, skipped, callers, faults>>

TaskTake ==
    /\ task = "serve"
    /\ do_pppos_connect <= 0
    /\ task' = "taken"
    /\ end_task' = (do_pppos_connect < 0)
    /\ do_pppos_connect' = 1
    /\ UNCHANGED <<gsm_status, pppos_task_started, pppos_mutex, ppp, modem, nfail,
                   skipped, callers, faults>>

TaskClose ==
    /\ task = "taken"
    /\ task' = "closing"
    /\ pppapi_close
    /\ UNCHANGED <<do_pppos_connect, pppos_task_started, pppos_mutex, modem, local,
                   callers, faults>>

(* Once gsm_status is DISCONNECTED, a second's delay, _disconnect (which   *)
(* repeats its commands until the modem answers), then the state and the   *)
(* request in one section.  A caller waiting for the request to be taken   *)
(* looks every 10 ms and has seen it by then.                              *)
TaskOffline_From(down) ==
    /\ task = "closing"
    /\ down
    /\ disc # "taken"
    /\ modem' = "command"
    /\ skipped' = 0
    /\ gsm_status' = "IDLE"
    /\ do_pppos_connect' = 0
    /\ task' = IF end_task THEN "exit" ELSE "wait"
    /\ UNCHANGED <<pppos_task_started, pppos_mutex, ppp, end_task, nfail, callers,
                   faults>>
(* Mutant: the end of the connection is not awaited. *)
TaskOffline_Early == TaskOffline_From(TRUE)

TaskOffline == TaskOffline_From(gsm_status = "DISCONNECTED")

(* Mutant: the request is not awaited. *)
TaskReconnect_AtOnce ==
    /\ task = "wait"
    /\ task' = "init"
    /\ nfail' = 0
    /\ UNCHANGED <<shared, ppp, modem, end_task, skipped, callers, faults>>

TaskReconnect ==
    /\ task = "wait"
    /\ do_pppos_connect # 0
    /\ task' = "init"
    /\ nfail' = 0
    /\ UNCHANGED <<shared, ppp, modem, end_task, skipped, callers, faults>>

(* Without a request, a reported loss is repaired. *)
TaskLost ==
    /\ task = "serve"
    /\ do_pppos_connect > 0
    /\ gsm_status = "DISCONNECTED"
    /\ task' = "lost"
    /\ pppapi_close
    /\ UNCHANGED <<do_pppos_connect, pppos_task_started, pppos_mutex, modem, local,
                   callers, faults>>

(* Mutant: the skip flags are kept. *)
TaskAgain_Skips ==
    /\ task = "lost"
    /\ task' = "again"
    /\ gsm_status' = "IDLE"
    /\ UNCHANGED <<do_pppos_connect, pppos_task_started, pppos_mutex, ppp, modem,
                   local, callers, faults>>

(* The assignment without the mutex. *)
TaskAgain ==
    /\ task = "lost"
    /\ task' = "again"
    /\ skipped' = 0
    /\ gsm_status' = "IDLE"
    /\ UNCHANGED <<do_pppos_connect, pppos_task_started, pppos_mutex, ppp, modem,
                   end_task, nfail, callers, faults>>

(* Ten seconds later. *)
TaskRetry ==
    /\ task = "again"
    /\ task' = "init"
    /\ nfail' = 0
    /\ UNCHANGED <<shared, ppp, modem, end_task, skipped, callers, faults>>

TaskExit ==
    /\ task = "exit"
    /\ task' = "none"
    /\ ppp_free
    /\ pppos_task_started' = FALSE
    /\ gsm_status' = "FIRSTINIT"
    /\ UNCHANGED <<do_pppos_connect, pppos_mutex, modem, local, callers,
                   faults>>

TaskStep ==
    \/ TaskStart \/ TaskSetup \/ TaskSetupFails
    \/ TaskCommand \/ TaskCommandFails \/ TaskInitialized
    \/ TaskIdle \/ TaskConnect
    \/ TaskTake \/ TaskClose \/ TaskOffline \/ TaskReconnect
    \/ TaskLost \/ TaskAgain \/ TaskRetry
    \/ TaskExit

----------------------------------------------------------------------------
(* ppposInit *)

(* Without a task it creates one (xTaskCreate's result is not looked at)   *)
(* and waits until the task announces itself.                              *)
InitCall ==
    /\ init = "out"
    /\ pppos_mutex' = TRUE
    /\ do_pppos_connect' = 1
    /\ released' = FALSE
    /\ \/ /\ pppos_task_started
          /\ init' = "status"
          /\ UNCHANGED <<task, faults>>
       \/ /\ ~pppos_task_started
          /\ init' = "announce"
          /\ task' = "created"
          /\ UNCHANGED faults
       \/ /\ ~pppos_task_started
          /\ init' = "announce"
          /\ Fault
          /\ UNCHANGED task
    /\ UNCHANGED <<gsm_status, pppos_task_started, ppp, modem, local, disc>>

InitSeesTask ==
    /\ init = "announce"
    /\ pppos_task_started
    /\ init' = "status"
    /\ UNCHANGED <<shared, ppp, modem, task, local, disc, released, faults>>

(* Mutant: only the state ends the wait. *)
InitReturns_NotEnded ==
    /\ init = "status"
    /\ gsm_status = "CONNECTED"
    /\ init' = "out"
    /\ UNCHANGED <<shared, ppp, modem, task, local, disc, released, faults>>

(* With 0 if the task has ended, with 1 if it is connected. *)
InitReturns ==
    /\ init = "status"
    /\ ~pppos_task_started \/ gsm_status = "CONNECTED"
    /\ init' = "out"
    /\ UNCHANGED <<shared, ppp, modem, task, local, disc, released, faults>>

----------------------------------------------------------------------------
(* ppposDisconnect *)

(* In state IDLE it returns at once: nothing changes. *)
DiscCall ==
    /\ disc = "out"
    /\ pppos_mutex
    /\ gsm_status # "IDLE"
    /\ disc' = "delay"
    /\ UNCHANGED <<shared, ppp, modem, task, local, init, released, faults>>

(* Two seconds later. *)
DiscAsk ==
    /\ disc = "delay"
    /\ do_pppos_connect' \in {-1, 0}
    /\ disc' = "taken"
    /\ UNCHANGED <<gsm_status, pppos_task_started, pppos_mutex, ppp, modem, task,
                   local, init, released, faults>>

(* It waits until the request is no longer 0, ... *)
DiscTaken ==
    /\ disc = "taken"
    /\ do_pppos_connect # 0
    /\ disc' = "done"
    /\ UNCHANGED <<shared, ppp, modem, task, local, init, released, faults>>

(* ... then until it is 0 again. *)
DiscDone ==
    /\ disc = "done"
    /\ do_pppos_connect = 0
    /\ disc' = "out"
    /\ released' = TRUE
    /\ UNCHANGED <<shared, ppp, modem, task, local, init, faults>>

----------------------------------------------------------------------------

CallerStep == InitSeesTask \/ InitReturns \/ DiscAsk \/ DiscTaken \/ DiscDone

Next ==
    \/ LinkUp \/ LinkClosed
    \/ \E reported \in BOOLEAN : LinkDown(reported)
    \/ TaskStep
    \/ InitCall \/ DiscCall \/ CallerStep

Spec == Init /\ [][Next]_vars

(* The scheduler runs the task and the callers; a link that comes up or is *)
(* closed gets there unless it fails; the modem answers in the end when it *)
(* is asked to hang up (TaskOffline).                                      *)
FairSpec ==
    /\ Spec
    /\ WF_vars(TaskStep)
    /\ WF_vars(LinkUp) /\ WF_vars(LinkClosed)
    /\ WF_vars(InitSeesTask \/ InitReturns)
    /\ WF_vars(DiscAsk \/ DiscTaken \/ DiscDone)

----------------------------------------------------------------------------
(* Properties *)

(* What gsm_status says and what PPP does, between the TCP/IP thread and   *)
(* the task: DISCONNECTED is never left over from an earlier connection    *)
(* when a new one is under way, a running link is never reported as idle,  *)
(* the control block is replaced (FIRSTINIT) only when it is down, and a   *)
(* task that ends leaves none behind.                                      *)
StatusTellsLink ==
    /\ gsm_status = "DISCONNECTED" => ppp = "dead"
    /\ gsm_status = "FIRSTINIT" => ppp \notin Live
    /\ ppp = "up" => gsm_status = "IDLE"
    /\ ppp = "running" => gsm_status = "CONNECTED"
    /\ task = "none" => ppp \in {"none", "freed"}

(* PPP is started only on a control block that is down, and over a modem   *)
(* that has dialled since it last hung up or lost the line: the skip flags *)
(* of one initialisation never serve the next.                             *)
ConnectsDialled == task = "connect" => ppp = "dead" /\ modem = "data"

(* The service of libGSM.h: no connection is opened that was not asked     *)
(* for, and ppposDisconnect, when it had to do something, returns only     *)
(* with the connection closed.                                             *)
Service == INSTANCE PppService WITH
    wanted <- ~released,
    link <- IF ppp \in Live THEN "open" ELSE "closed"

ServiceSpec == Service!Spec

(* PPP ended with an error that ppp_status_cb drops: the task goes on as   *)
(* if nothing had happened.                                                *)
SilentLoss == task = "serve" /\ ppp = "dead" /\ gsm_status # "DISCONNECTED"

(* The request of ppposInit came while the task carried out a disconnect,  *)
(* whose end put 0 in its place.                                           *)
RequestLost == task = "wait" /\ do_pppos_connect = 0

(* There is no task to announce itself: it ended before the caller looked, *)
(* or was not created.                                                     *)
Missed == init = "announce" /\ task = "none"

(* Otherwise ppposInit returns, connected or because the task has ended.   *)
InitEnds == init # "out" ~> init = "out" \/ SilentLoss \/ RequestLost \/ Missed

(* ppposInit has put 1 in the place of a request not taken yet, or of the  *)
(* 0 that tells the caller of its end.                                     *)
Overtaken == disc = "done" /\ do_pppos_connect = 1 /\ task \notin {"taken", "closing"}

(* ppposDisconnect returns, unless ppposInit was called meanwhile or there *)
(* is no task to take the request.                                         *)
DisconnectEnds ==
    disc \in {"taken", "done"} ~> disc = "out" \/ Overtaken \/ task = "none"

(* A loss reported to the task is repaired, unless the modem stops         *)
(* answering (the task ends), a disconnect is asked for or the new attempt *)
(* fails without a report.                                                 *)
LossRepaired ==
    task = "lost" ~> ppp = "running" \/ task \in {"none", "taken"} \/ SilentLoss

=============================================================================
