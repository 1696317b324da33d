-------------------------- MODULE PppClient_proof ---------------------------
(***************************************************************************)
(* Proofs about PppClient: for any number of commands, tolerated failures  *)
(* and faults, the service of libGSM.h is kept and the control block, the  *)
(* state and the modem agree.                                              *)
(***************************************************************************)
EXTENDS PppClient, TLAPS

Down == {"none", "dead", "freed"}

(* Where the task stands, what the control block, the state and the modem  *)
(* are like.                                                               *)
TaskLink ==
    /\ task \in {"none", "created", "setup"} =>
           ppp \in {"none", "freed"} /\ gsm_status = "FIRSTINIT"
    /\ task \in {"init", "idle"} =>
           \/ gsm_status = "FIRSTINIT" /\ (task = "init" => ppp \in {"none", "freed"})
           \/ gsm_status = "IDLE" /\ ppp = "dead"
    /\ task \in {"idle", "connect", "wait", "lost", "again"} => ppp = "dead"
    /\ task \in {"connect", "wait", "again"} => gsm_status = "IDLE"
    /\ task \in {"serve", "taken"} =>
           \/ ppp = "up" /\ gsm_status = "IDLE"
           \/ ppp = "running" /\ gsm_status = "CONNECTED"
           \/ ppp = "dead" /\ gsm_status \in {"IDLE", "CONNECTED", "DISCONNECTED"}
    /\ task = "closing" =>
           \/ ppp = "closing" /\ gsm_status \in {"IDLE", "CONNECTED"}
           \/ ppp = "dead" /\ gsm_status = "DISCONNECTED"
    /\ task = "exit" => ppp \in Down /\ gsm_status \in {"FIRSTINIT", "IDLE"}
    /\ task = "lost" => gsm_status = "DISCONNECTED"
    /\ task = "init" /\ skipped = GSM_InitCmdsSize => modem = "data"
    /\ task \in {"idle", "connect"} => modem = "data"
    /\ task \in {"wait", "again"} => skipped = 0
    /\ task = "init" => nfail <= MaxFails

(* Who waits for whom: the task runs once it has announced itself, and a   *)
(* request that is not 1 belongs to a call of ppposDisconnect that waits,  *)
(* or is the 0 the task has left at its end.                               *)
TaskCallers ==
    /\ pppos_task_started <=> task \notin {"none", "created"}
    /\ task = "created" => init = "announce"
    /\ task \in {"taken", "closing"} =>
           do_pppos_connect = 1 /\ disc \in {"taken", "done"}
    /\ task = "wait" => do_pppos_connect \in {0, 1} /\ disc \in {"out", "done"}
    /\ disc \in {"out", "delay"} => do_pppos_connect \in {0, 1}
    /\ disc \in {"out", "delay", "done"} /\ do_pppos_connect = 0 =>
           task \in {"wait", "exit", "none"}
    /\ released =>
           /\ task \in {"wait", "exit", "none"}
           /\ task = "wait" => do_pppos_connect = 0 /\ disc \in {"out"}

IInv == TypeOK /\ TaskLink /\ TaskCallers

(* One step for each action; no step disturbs the agreement. *)
LEMMA IInvStep == IInv /\ [Next]_vars => IInv'
<1> SUFFICES ASSUME IInv, [Next]_vars PROVE IInv'
  OBVIOUS
<1> USE PppAssumption DEF IInv, TypeOK, TaskLink, TaskCallers, Down, Live, shared, local, callers
<1>1. CASE LinkUp
  BY <1>1 DEF LinkUp
<1>2. CASE LinkClosed
  BY <1>2 DEF LinkClosed
<1>3. CASE \E reported \in BOOLEAN : LinkDown(reported)
  BY <1>3 DEF LinkDown, Fault
<1>4. CASE TaskStart
  BY <1>4 DEF TaskStart
<1>5. CASE TaskSetup
  BY <1>5 DEF TaskSetup
<1>6. CASE TaskSetupFails
  BY <1>6 DEF TaskSetupFails, Fault
<1>7. CASE TaskCommand
  BY <1>7 DEF TaskCommand
<1>8. CASE TaskCommandFails
  BY <1>8 DEF TaskCommandFails
<1>9. CASE TaskInitialized
  BY <1>9 DEF TaskInitialized, Fault
<1>10. CASE TaskIdle
  BY <1>10 DEF TaskIdle
<1>11. CASE TaskConnect
  BY <1>11 DEF TaskConnect, pppapi_connect
<1>12. CASE TaskTake
  BY <1>12 DEF TaskTake
<1>13. CASE TaskClose
  BY <1>13 DEF TaskClose, pppapi_close
<1>14. CASE TaskOffline
  BY <1>14 DEF TaskOffline, TaskOffline_From
<1>15. CASE TaskReconnect
  BY <1>15 DEF TaskReconnect
<1>16. CASE TaskLost
  BY <1>16 DEF TaskLost, pppapi_close
<1>17. CASE TaskAgain
  BY <1>17 DEF TaskAgain
<1>18. CASE TaskRetry
  BY <1>18 DEF TaskRetry
<1>19. CASE TaskExit
  <2>1. TypeOK'
    <3>1. ppp' \in {"none", "dead", "freed"} \cup Live
      BY <1>19 DEF TaskExit, ppp_free
    <3>2. /\ gsm_status' = "FIRSTINIT" /\ task' = "none" /\ pppos_task_started' \in BOOLEAN
          /\ UNCHANGED <<do_pppos_connect, pppos_mutex, modem, local, callers, faults>>
      BY <1>19 DEF TaskExit
    <3> QED
      BY <3>1, <3>2
  <2>2. TaskLink'
    BY <1>19 DEF TaskExit, ppp_free
  <2>3. TaskCallers'
    BY <1>19 DEF TaskExit, ppp_free
  <2> QED
    BY <2>1, <2>2, <2>3
<1>20. CASE InitCall
  <2>1. TypeOK'
    <3>1. pppos_task_started' \in BOOLEAN /\ pppos_mutex' \in BOOLEAN /\ released' \in BOOLEAN
      BY <1>20, Zenon DEF InitCall, Fault
    <3>2. faults' \in 0 .. MaxFaults
      BY <1>20 DEF InitCall, Fault
    <3> QED
      BY <3>1, <3>2, <1>20 DEF InitCall, Fault
  <2>2. TaskLink'
    BY <1>20 DEF InitCall, Fault
  <2>3. TaskCallers'
    BY <1>20 DEF InitCall, Fault
  <2> QED
    BY <2>1, <2>2, <2>3
<1>21. CASE DiscCall
  BY <1>21 DEF DiscCall
<1>22. CASE CallerStep
  <2>1. TypeOK'
    <3>1. pppos_task_started' \in BOOLEAN /\ pppos_mutex' \in BOOLEAN /\ released' \in BOOLEAN
      BY <1>22, Zenon DEF CallerStep, InitSeesTask, InitReturns, DiscAsk, DiscTaken, DiscDone
    <3>2. faults' \in 0 .. MaxFaults
      BY <1>22 DEF CallerStep, InitSeesTask, InitReturns, DiscAsk, DiscTaken, DiscDone
    <3> QED
      BY <3>1, <3>2, <1>22 DEF CallerStep, InitSeesTask, InitReturns, DiscAsk, DiscTaken, DiscDone
  <2>2. TaskLink'
    BY <1>22 DEF CallerStep, InitSeesTask, InitReturns, DiscAsk, DiscTaken, DiscDone
  <2>3. TaskCallers'
    BY <1>22 DEF CallerStep, InitSeesTask, InitReturns, DiscAsk, DiscTaken, DiscDone
  <2> QED
    BY <2>1, <2>2, <2>3
<1>23. CASE UNCHANGED vars
  BY <1>23 DEF vars
<1> QED
  BY <1>1, <1>2, <1>3, <1>4, <1>5, <1>6, <1>7, <1>8, <1>9, <1>10, <1>11, <1>12,
     <1>13, <1>14, <1>15, <1>16, <1>17, <1>18, <1>19, <1>20, <1>21, <1>22, <1>23 DEF Next, TaskStep

(* The inductive invariant of the task and its callers. *)
LEMMA IInvariant == Spec => []IInv
<1>1. Init => IInv
  <2> SUFFICES ASSUME Init PROVE IInv
    OBVIOUS
  <2> USE PppAssumption DEF Init, TypeOK, TaskLink, TaskCallers, Down, Live
  <2>1. TypeOK
    <3>1. pppos_task_started \in BOOLEAN /\ pppos_mutex \in BOOLEAN
          /\ released \in BOOLEAN /\ end_task \in BOOLEAN
      BY Zenon
    <3> QED
      BY <3>1
  <2>2. TaskLink
    OBVIOUS
  <2>3. TaskCallers
    OBVIOUS
  <2> QED
    BY <2>1, <2>2, <2>3 DEF IInv
<1> QED
  BY <1>1, IInvStep, PTL DEF Spec

(* The state is always typed: no request but the three of the code, no     *)
(* more failures than an initialisation tolerates and one.                 *)
THEOREM PppTypeCorrect == Spec => []TypeOK
<1>1. IInv => TypeOK
  BY DEF IInv
<1> QED
  BY <1>1, IInvariant, PTL

(* gsm_status is never behind the link in a way that matters to the task,  *)
(* and however a task ends, its control block has been freed.              *)
THEOREM StatusAlwaysTells == Spec => []StatusTellsLink
<1>1. IInv => StatusTellsLink
  BY DEF IInv, TypeOK, TaskLink, Down, Live, StatusTellsLink
<1> QED
  BY <1>1, IInvariant, PTL

(* Every connection is preceded by a whole initialisation of the modem. *)
THEOREM AlwaysDialled == Spec => []ConnectsDialled
<1>1. IInv => ConnectsDialled
  BY DEF IInv, TaskLink, ConnectsDialled
<1> QED
  BY <1>1, IInvariant, PTL

LinkNow == IF ppp \in Live THEN "open" ELSE "closed"

(* Every step of the client is a step of the service or leaves it as it    *)
(* is: only TaskConnect opens, and then a request stands.                  *)
LEMMA ServiceStep == IInv /\ [Next]_vars => [Service!Next]_<<~released, LinkNow>>
<1> SUFFICES ASSUME IInv, [Next]_vars
             PROVE  [Service!Next]_<<~released, LinkNow>>
  OBVIOUS
<1> USE DEF IInv, TypeOK, TaskLink, TaskCallers, Down, Live, shared, local, callers, LinkNow,
            Service!Next, Service!Request, Service!Open, Service!Close, Service!Release
<1>1. CASE LinkUp
  BY <1>1 DEF LinkUp
<1>2. CASE LinkClosed
  BY <1>2 DEF LinkClosed
<1>3. CASE \E reported \in BOOLEAN : LinkDown(reported)
  BY <1>3 DEF LinkDown, Fault
<1>4. CASE TaskStart
  BY <1>4 DEF TaskStart
<1>5. CASE TaskSetup
  BY <1>5 DEF TaskSetup
<1>6. CASE TaskSetupFails
  BY <1>6 DEF TaskSetupFails, Fault
<1>7. CASE TaskCommand
  BY <1>7 DEF TaskCommand
<1>8. CASE TaskCommandFails
  BY <1>8 DEF TaskCommandFails
<1>9. CASE TaskInitialized
  BY <1>9 DEF TaskInitialized, Fault
<1>10. CASE TaskIdle
  BY <1>10 DEF TaskIdle
<1>11. CASE TaskConnect
  BY <1>11 DEF TaskConnect, pppapi_connect
<1>12. CASE TaskTake
  BY <1>12 DEF TaskTake
<1>13. CASE TaskClose
  BY <1>13 DEF TaskClose, pppapi_close
<1>14. CASE TaskOffline
  BY <1>14 DEF TaskOffline, TaskOffline_From
<1>15. CASE TaskReconnect
  BY <1>15 DEF TaskReconnect
<1>16. CASE TaskLost
  BY <1>16 DEF TaskLost, pppapi_close
<1>17. CASE TaskAgain
  BY <1>17 DEF TaskAgain
<1>18. CASE TaskRetry
  BY <1>18 DEF TaskRetry
<1>19. CASE TaskExit
  BY <1>19 DEF TaskExit, ppp_free
<1>20. CASE InitCall
  BY <1>20 DEF InitCall, Fault
<1>21. CASE DiscCall
  BY <1>21 DEF DiscCall
<1>22. CASE CallerStep
  BY <1>22 DEF CallerStep, InitSeesTask, InitReturns, DiscAsk, DiscTaken, DiscDone
<1>23. CASE UNCHANGED vars
  BY <1>23 DEF vars
<1> QED
  BY <1>1, <1>2, <1>3, <1>4, <1>5, <1>6, <1>7, <1>8, <1>9, <1>10, <1>11, <1>12,
     <1>13, <1>14, <1>15, <1>16, <1>17, <1>18, <1>19, <1>20, <1>21, <1>22, <1>23 DEF Next, TaskStep

(* The client implements the service promised by libGSM.h: no connection   *)
(* without a request, and none left when a disconnect has been carried out.*)
THEOREM PppImplementsService == Spec => ServiceSpec
<1>1. Init => Service!Init
  BY DEF Init, Service!Init, Live
<1>2. IInv /\ [Next]_vars => [Service!Next]_(Service!serviceVars)
  BY ServiceStep DEF Service!serviceVars, LinkNow
<1> QED
  BY <1>1, <1>2, IInvariant, PTL DEF Spec, ServiceSpec, Service!Spec
=============================================================================
