--------------------------- MODULE WifiBoot_proof ---------------------------
(***************************************************************************)
(* Proofs about WifiBoot: the few states the driver, its queue of events   *)
(* and the handler can be in together.                                     *)
(***************************************************************************)
EXTENDS WifiBoot, SequenceTheorems, TLAPS

GotIp == <<"STA_GOT_IP">>
Lost  == <<"STA_DISCONNECTED">>
Both  == <<"STA_GOT_IP", "STA_DISCONNECTED">>
Fresh == <<"STA_START">>

(* Posting to the queues that occur, and taking from them. *)
LEMMA Queues ==
    /\ Append(<<>>, "STA_START") = Fresh
    /\ Append(<<>>, "STA_GOT_IP") = GotIp
    /\ Append(<<>>, "STA_DISCONNECTED") = Lost
    /\ Append(GotIp, "STA_DISCONNECTED") = Both
    /\ Tail(Fresh) = <<>> /\ Tail(GotIp) = <<>> /\ Tail(Lost) = <<>> /\ Tail(Both) = Lost
    /\ Head(Fresh) = "STA_START" /\ Head(GotIp) = "STA_GOT_IP"
    /\ Head(Lost) = "STA_DISCONNECTED" /\ Head(Both) = "STA_GOT_IP"
    /\ Fresh # <<>> /\ GotIp # <<>> /\ Lost # <<>> /\ Both # <<>>
<1> USE DEF Fresh, GotIp, Lost, Both
<1>1. Append(<<>>, "STA_START") = Fresh
  OBVIOUS
<1>2. Append(<<>>, "STA_GOT_IP") = GotIp
  OBVIOUS
<1>3. Append(<<>>, "STA_DISCONNECTED") = Lost
  OBVIOUS
<1>4. Append(GotIp, "STA_DISCONNECTED") = Both
  <2> DEFINE E == {"STA_GOT_IP", "STA_DISCONNECTED"}
             s == Append(GotIp, "STA_DISCONNECTED")
  <2>1. GotIp \in Seq(E) /\ Len(GotIp) = 1 /\ GotIp[1] = "STA_GOT_IP"
    OBVIOUS
  <2>2. s \in Seq(E) /\ Len(s) = 2 /\ s[1] = "STA_GOT_IP" /\ s[2] = "STA_DISCONNECTED"
    BY <2>1, AppendProperties
  <2>3. Both \in Seq(E) /\ Len(Both) = 2
        /\ Both[1] = "STA_GOT_IP" /\ Both[2] = "STA_DISCONNECTED"
    OBVIOUS
  <2> HIDE DEF s, Both
  <2> QED
    BY <2>2, <2>3, SeqEqual
<1>5. Tail(Fresh) = <<>> /\ Tail(GotIp) = <<>> /\ Tail(Lost) = <<>>
  OBVIOUS
<1>6. Tail(Both) = Lost
  OBVIOUS
<1>7. Head(Fresh) = "STA_START" /\ Head(GotIp) = "STA_GOT_IP"
      /\ Head(Lost) = "STA_DISCONNECTED" /\ Head(Both) = "STA_GOT_IP"
  OBVIOUS
<1>8. Fresh # <<>> /\ GotIp # <<>> /\ Lost # <<>> /\ Both # <<>>
  OBVIOUS
<1> QED
  BY <1>1, <1>2, <1>3, <1>4, <1>5, <1>6, <1>7, <1>8

(* The driver posts only from the states it is asked into, so that five    *)
(* combinations remain once it is started.                                 *)
Shape ==
    \/ /\ main_pc = "start"
       /\ link = "off" /\ events = <<>> /\ handler = "wait" /\ bits = {}
    \/ /\ main_pc \in {"wait", "create", "done"}
       /\ \/ link = "idle" /\ events = Fresh /\ handler = "wait" /\ bits = {}
          \/ link = "idle" /\ events \in {Lost, Both}
          \/ link = "connecting" /\ events = <<>> /\ (handler = "wait" => bits = {})
          \/ link = "up" /\ events = GotIp
          \/ link = "up" /\ events = <<>> /\ handler = "wait" /\ bits = {"CONNECT_BIT"}

WifiInv ==
    /\ Shape
    /\ handler \in {"wait", "clear"}
    /\ bits \in {{}, {"CONNECT_BIT"}}
    /\ main_pc = "start" => aws_pc = "none"
    /\ aws_pc \in {"none", "wait", "connect", "delay", "subscribe", "loop", "abort"}

(* Every step keeps the combination one of these. *)
LEMMA WifiInvStep == WifiInv /\ [Next]_vars => WifiInv'
<1> SUFFICES ASSUME WifiInv, [Next]_vars PROVE WifiInv'
  OBVIOUS
<1> USE Queues DEF WifiInv, Shape
<1>1. CASE Accept
  BY <1>1 DEF Accept, Post
<1>2. CASE Refuse
  BY <1>2 DEF Refuse, Post
<1>3. CASE Lose
  BY <1>3 DEF Lose, Post
<1>4. CASE OnStart
  BY <1>4 DEF OnStart, Take, esp_wifi_connect
<1>5. CASE OnGotIp
  BY <1>5 DEF OnGotIp, Take
<1>6. CASE OnDisconnected
  BY <1>6 DEF OnDisconnected, Take, esp_wifi_connect
<1>7. CASE ClearBit
  BY <1>7 DEF ClearBit
<1>8. CASE Start
  BY <1>8 DEF Start, Post
<1>9. CASE WaitBits
  BY <1>9 DEF WaitBits
<1>10. CASE CreateTasks
  BY <1>10 DEF CreateTasks
<1>11. CASE AwsStep
  BY <1>11 DEF AwsStep, AwsWait, AwsConnect, AwsDelay, AwsSubscribe, Restart
<1>12. CASE UNCHANGED vars
  BY <1>12 DEF vars
<1> QED
  BY <1>1, <1>2, <1>3, <1>4, <1>5, <1>6, <1>7, <1>8, <1>9, <1>10, <1>11, <1>12
     DEF Next, EventStep, MainStep

(* The inductive invariant of boot. *)
LEMMA WifiInvariant == Spec => []WifiInv
<1>1. Init => WifiInv
  BY DEF Init, WifiInv, Shape
<1> QED
  BY <1>1, WifiInvStep, PTL DEF Spec

(* The types, and the bound of two events on what the handler has still to *)
(* see.                                                                    *)
THEOREM WifiTypeCorrect == Spec => []TypeOK
<1>1. WifiInv => TypeOK
  <2> SUFFICES ASSUME WifiInv PROVE TypeOK
    OBVIOUS
  <2> DEFINE E == {"STA_START", "STA_GOT_IP", "STA_DISCONNECTED"}
  <2>1. events \in {<<>>, Fresh, GotIp, Lost, Both}
    BY DEF WifiInv, Shape
  <2>2. events \in Seq(E) /\ Len(events) <= 2
    <3>1. Fresh \in Seq(E) /\ GotIp \in Seq(E) /\ Lost \in Seq(E)
      BY DEF Fresh, GotIp, Lost
    <3>2. Both \in Seq(E) /\ <<>> \in Seq(E)
      BY DEF Both
    <3>3. Len(Fresh) <= 2 /\ Len(GotIp) <= 2 /\ Len(Lost) <= 2 /\ Len(Both) <= 2 /\ Len(<<>>) <= 2
      BY DEF Fresh, GotIp, Lost, Both
    <3> QED
      BY <2>1, <3>1, <3>2, <3>3, Zenon
  <2> QED
    BY <2>2 DEF WifiInv, Shape, TypeOK
<1> QED
  BY <1>1, WifiInvariant, PTL

(* When all events are handled the bit tells the link. *)
THEOREM BitAlwaysTracksLink == Spec => []BitTracksLink
<1>1. WifiInv => BitTracksLink
  BY Queues DEF WifiInv, Shape, BitTracksLink
<1> QED
  BY <1>1, WifiInvariant, PTL

(* Without a link there is an attempt under way or an event on its way. *)
THEOREM AttemptAlwaysPending == Spec => []AttemptPending
<1>1. WifiInv => AttemptPending
  BY Queues DEF WifiInv, Shape, AttemptPending
<1> QED
  BY <1>1, WifiInvariant, PTL

(* Nothing ever sets STOP_BIT: the only way past the wait of wifi_init_sta *)
(* is a connection.                                                        *)
THEOREM StopBitNeverSet == Spec => []("STOP_BIT" \notin bits)
<1>1. WifiInv => "STOP_BIT" \notin bits
  BY DEF WifiInv
<1> QED
  BY <1>1, WifiInvariant, PTL
=============================================================================
