-------------------------- MODULE MqttClient_proof --------------------------
(***************************************************************************)
(* Proofs about MqttClient: types, what the return codes tell, when the    *)
(* board gives up, the one ping under way and the subscriptions after a    *)
(* reconnection, for any number of topics, faults and any backoff.         *)
(***************************************************************************)
EXTENDS MqttClient, SequenceTheorems, TLAPS

----------------------------------------------------------------------------
(* The two directions of the connection as queues *)

Has(q, x)  == \E i \in DOMAIN q : q[i] = x
Once(q, x) == \A i, j \in DOMAIN q : q[i] = x /\ q[j] = x => i = j

(* What is in a queue after another element was put at its end. *)
LEMMA AppendHas ==
    ASSUME NEW S, NEW q \in Seq(S), NEW e \in S
    PROVE  /\ Append(q, e) \in Seq(S)
           /\ \A x : Has(Append(q, e), x) <=> Has(q, x) \/ e = x
           /\ \A x : Once(q, x) /\ (e = x => ~ Has(q, x)) => Once(Append(q, e), x)
<1> DEFINE a == Append(q, e)
<1>1. a \in Seq(S) /\ Len(a) = Len(q) + 1 /\ a[Len(q) + 1] = e
      /\ \A i \in 1 .. Len(q) : a[i] = q[i]
  BY AppendProperties
<1>2. DOMAIN a = 1 .. (Len(q) + 1) /\ DOMAIN q = 1 .. Len(q) /\ Len(q) \in Nat
  BY <1>1, LenProperties
<1>3. DOMAIN a = DOMAIN q \cup {Len(q) + 1} /\ Len(q) + 1 \notin DOMAIN q
  BY <1>2
<1>4. \A i \in DOMAIN q : a[i] = q[i]
  BY <1>1, <1>2
<1> HIDE DEF a
<1>5. ASSUME NEW x PROVE Has(a, x) <=> Has(q, x) \/ e = x
  BY <1>1, <1>3, <1>4 DEF Has
<1>6. ASSUME NEW x, Once(q, x), e = x => ~ Has(q, x) PROVE Once(a, x)
  BY <1>1, <1>3, <1>4, <1>6 DEF Has, Once
<1> QED
  BY <1>1, <1>5, <1>6 DEF a

(* What is left in a queue after its first element was taken. *)
LEMMA TailHas ==
    ASSUME NEW S, NEW q \in Seq(S), q # <<>>
    PROVE  /\ Tail(q) \in Seq(S) /\ Head(q) \in S /\ Has(q, Head(q))
           /\ \A x : Has(q, x) => Head(q) = x \/ Has(Tail(q), x)
           /\ \A x : Has(Tail(q), x) => Has(q, x)
           /\ \A x : Once(q, x) => Once(Tail(q), x)
           /\ \A x : Once(q, x) /\ Head(q) = x => ~ Has(Tail(q), x)
<1> DEFINE t == Tail(q)
<1>1. /\ t \in Seq(S) /\ Head(q) \in S /\ Head(q) = q[1]
      /\ Len(t) = Len(q) - 1 /\ \A i \in 1 .. Len(t) : t[i] = q[i + 1]
  BY HeadTailProperties
<1>2. DOMAIN q = 1 .. Len(q) /\ DOMAIN t = 1 .. Len(t) /\ Len(q) \in Nat /\ Len(q) > 0
  BY <1>1, LenProperties, EmptySeq
<1>3. \A i \in DOMAIN t : i + 1 \in DOMAIN q /\ t[i] = q[i + 1] /\ i + 1 # 1
  BY <1>1, <1>2
<1>4. \A i \in DOMAIN q : i = 1 \/ (i - 1 \in DOMAIN t /\ t[i - 1] = q[i])
  BY <1>1, <1>2
<1>5. 1 \in DOMAIN q
  BY <1>2
<1> HIDE DEF t
<1>6. ASSUME NEW x, Has(q, x) PROVE Head(q) = x \/ Has(t, x)
  BY <1>1, <1>4, <1>6 DEF Has
<1>7. ASSUME NEW x, Has(t, x) PROVE Has(q, x)
  BY <1>3, <1>7 DEF Has
<1>8. ASSUME NEW x, Once(q, x) PROVE Once(t, x)
  <2> SUFFICES ASSUME NEW i \in DOMAIN t, NEW j \in DOMAIN t, t[i] = x, t[j] = x
               PROVE  i = j
    BY DEF Once
  <2>1. i + 1 = j + 1
    BY <1>3, <1>8 DEF Once
  <2> QED
    BY <2>1, <1>2
<1>9. ASSUME NEW x, Once(q, x), Head(q) = x PROVE ~ Has(t, x)
  BY <1>1, <1>3, <1>5, <1>9 DEF Has, Once
<1>10. Has(q, Head(q))
  BY <1>1, <1>5 DEF Has
<1> QED
  BY <1>1, <1>6, <1>7, <1>8, <1>9, <1>10 DEF t

(* Nothing is in an empty queue. *)
LEMMA EmptyHas == \A x : ~ Has(<<>>, x) /\ Once(<<>>, x)
<1>1. DOMAIN <<>> = {}
  OBVIOUS
<1> QED
  BY <1>1 DEF Has, Once

----------------------------------------------------------------------------
(* Types and control *)

(* What the state of the client and the code are wherever the task stands. *)
Backoff == Reconnecting /\ interval > MaxInterval

Control ==
    /\ pc = "connect" => subscribed = 0
    /\ pc = "subscribe" => clientState = "CONNECTED_IDLE"
    /\ pc = "suback" => clientState = "SUBSCRIBE_IN_PROGRESS"
    /\ pc \in {"subscribe", "suback"} => rc = "SUCCESS" /\ subscribed < NumTopics
    /\ pc \in {"resub", "resuback"} =>
          clientState = "RESUBSCRIBE_IN_PROGRESS" /\ interval <= MaxInterval
    /\ pc = "loop" => clientState = "YIELD_IN_PROGRESS" \/ Reconnecting
    /\ pc \in {"check", "return"} =>
          \/ clientState = "YIELD_IN_PROGRESS" /\ rc \in {"SUCCESS", "RECONNECTED"}
          \/ Reconnecting /\ rc = "ATTEMPTING_RECONNECT"
          \/ Backoff /\ rc = "TIMED_OUT"
          \/ pc = "return" /\ clientState = "YIELD_IN_PROGRESS" /\ rc = "FAILURE"
    /\ pc \in {"app", "test"} =>
          \/ clientState = "CONNECTED_IDLE" /\ rc \in {"SUCCESS", "RECONNECTED", "FAILURE"}
          \/ pc = "test" /\ Reconnecting /\ rc = "ATTEMPTING_RECONNECT"
          \/ Backoff /\ rc \in {"TIMED_OUT", "DISCONNECTED", "NOT_IDLE"}

(* The types of everything but the queues. *)
Scalars ==
    /\ clientState \in {"INITIALIZED", "DISCONNECTED_ERROR", "PENDING_RECONNECT",
                        "CONNECTED_IDLE", "YIELD_IN_PROGRESS",
                        "SUBSCRIBE_IN_PROGRESS", "RESUBSCRIBE_IN_PROGRESS"}
    /\ subscribed \in 0 .. NumTopics
    /\ interval \in 1 .. 2 * MaxInterval
    /\ pc \in {"connect", "subscribe", "suback", "test", "loop", "resub",
               "resuback", "check", "return", "app"}
    /\ rc \in GoOn \cup {"FAILURE", "TIMED_OUT", "DISCONNECTED", "NOT_IDLE",
                         "UNEXPECTED_STATE"}

(* Every step keeps them. *)
LEMMA ControlStep == Scalars /\ Control /\ [Next]_vars => Scalars' /\ Control'
<1> SUFFICES ASSUME Scalars, Control, [Next]_vars
             PROVE  Scalars' /\ Control'
  OBVIOUS
<1> USE MqttAssumption DEF Scalars, Control, Backoff, Reconnecting, GoOn
<1>1. CASE Connect
  BY <1>1 DEF Connect
<1>2. CASE Subscribe
  BY <1>2 DEF Subscribe, timers
<1>3. CASE Subscribed
  BY <1>3 DEF Subscribed, timers
<1>4. CASE SubscribeFails
  BY <1>4 DEF SubscribeFails, Restart
<1>5. CASE Yield
  BY <1>5 DEF Yield, IsConnected
<1>6. CASE Abort
  BY <1>6 DEF Abort, Restart
<1>7. CASE LoopRead
  <2>1. CASE \E packet \in Reads : KeepAlive(packet)
    BY <1>7, <2>1 DEF LoopRead, KeepAlive, HandleDisconnect
  <2>2. CASE HandleDisconnect
    BY <1>7, <2>2 DEF LoopRead, HandleDisconnect
  <2> QED
    BY <1>7, <2>1, <2>2 DEF LoopRead
<1>8. CASE LoopPart
  BY <1>8 DEF LoopPart, client
<1>9. CASE GiveUp
  BY <1>9 DEF GiveUp, client
<1>10. CASE NotYet
  BY <1>10 DEF NotYet, client
<1>11. CASE Reconnect
  <2>0. pc = "loop" /\ Reconnecting /\ interval <= MaxInterval /\ subscribed' = subscribed
    BY <1>11 DEF Reconnect
  <2>1. CASE clientState = "RESUBSCRIBE_IN_PROGRESS"
    BY <1>11, <2>0, <2>1 DEF Reconnect, IsConnected
  <2>2. CASE clientState = "PENDING_RECONNECT"
    <3>1. CASE clientState' = "RESUBSCRIBE_IN_PROGRESS" /\ pc' = "resub"
               /\ interval' = interval /\ rc' = rc
      BY <2>0, <3>1
    <3>2. CASE BackOff /\ clientState' = clientState
      <4>1. interval' = 2 * interval /\ interval' \in 1 .. 2 * MaxInterval
        BY <2>0, <3>2 DEF BackOff
      <4> QED
        BY <2>0, <3>2, <4>1, <2>2 DEF BackOff
    <3> QED
      BY <1>11, <2>0, <2>2, <3>1, <3>2 DEF Reconnect, IsConnected
  <2> QED
    BY <2>0, <2>1, <2>2
<1>12. CASE Resubscribe
  BY <1>12 DEF Resubscribe, client
<1>13. CASE ResubscribeDone
  BY <1>13 DEF ResubscribeDone
<1>14. CASE Resubscribed
  BY <1>14 DEF Resubscribed
<1>15. CASE ResubscribeFails
  BY <1>15 DEF ResubscribeFails, BackOff
<1>16. CASE Check
  BY <1>16 DEF Check, client
<1>17. CASE Return
  BY <1>17 DEF Return
<1>18. CASE Publish
  BY <1>18 DEF Publish, client, IsConnected
<1>19. CASE Environment
  BY <1>19 DEF Environment, Broker, BrokerPublish, Silence, Break, KeepAliveExpires,
         DelayExpires, client, task
<1>20. CASE UNCHANGED vars
  BY <1>20 DEF vars, client, task
<1> QED
  BY <1>1, <1>2, <1>3, <1>4, <1>5, <1>6, <1>7, <1>8, <1>9, <1>10, <1>11, <1>12,
     <1>13, <1>14, <1>15, <1>16, <1>17, <1>18, <1>19, <1>20 DEF Next, ClientStep

----------------------------------------------------------------------------
(* What a step does to the connection *)

Conns  == {"none", "open", "silent", "broken", "garbled"}

Queues ==
    /\ inbox \in Seq(Packets)
    /\ outbox \in Seq({Ping} \cup Slots)
    /\ brokerSubs \subseteq Slots
    /\ isPingOutstanding \in BOOLEAN
    /\ conn \in Conns

Quiet == UNCHANGED <<conn, inbox, outbox, brokerSubs, isPingOutstanding>>

Fresh ==
    /\ conn' = "open"
    /\ inbox' = <<>> /\ outbox' = <<>> /\ brokerSubs' = {}
    /\ isPingOutstanding' = FALSE

Lost ==
    /\ conn' \in Conns \ {"open"}
    /\ inbox' \in {inbox, <<>>} /\ outbox' \in {outbox, <<>>}
    /\ brokerSubs' \in {brokerSubs, {}}
    /\ isPingOutstanding' \in {isPingOutstanding, FALSE}

Sending(slot) ==
    slot \in Slots /\ Send(slot) /\ UNCHANGED <<conn, inbox, brokerSubs, isPingOutstanding>>

Reading(packet) ==
    packet \in Reads /\ CycleRead(packet) /\ UNCHANGED <<conn, outbox, brokerSubs>>

Pinging(packet) ==
    /\ packet \in Reads
    /\ ~ (isPingOutstanding /\ packet # "PINGRESP")
    /\ inbox' = Rest /\ Send(Ping) /\ isPingOutstanding' = TRUE
    /\ UNCHANGED <<conn, brokerSubs>>

(* A connection is only opened by Connect and Reconnect. *)
Steady ==
    \/ Quiet \/ Lost
    \/ \E slot \in Slots : Sending(slot)
    \/ \E packet \in Reads : Reading(packet) \/ Pinging(packet)
    \/ Broker \/ BrokerPublish

Wire == Steady \/ (Fresh /\ (Connect \/ Reconnect))

(* There is nothing else. *)
LEMMA WireStep ==
    ASSUME Scalars, Control, conn \in Conns, [Next]_vars
    PROVE  Wire
<1> USE DEF Conns
<1>1. CASE Connect
  BY <1>1 DEF Connect, Wire, Steady, Fresh, Open, Quiet
<1>2. CASE Subscribe
  <2>1. subscribed + 1 \in Slots
    BY <1>2, MqttAssumption DEF Subscribe, Scalars, Control, Slots
  <2> QED
    BY <1>2, <2>1 DEF Subscribe, Wire, Steady, Sending
<1>3. CASE Subscribed
  BY <1>3 DEF Subscribed, Wire, Steady, Reading
<1>4. CASE SubscribeFails
  BY <1>4 DEF SubscribeFails, Restart, Wire, Steady, Lost
<1>5. CASE Yield
  BY <1>5 DEF Yield, network, Wire, Steady, Quiet
<1>6. CASE Abort
  BY <1>6 DEF Abort, Restart, Wire, Steady, Lost
<1>7. CASE LoopRead
  <2>1. ASSUME NEW packet \in Reads, KeepAlive(packet) PROVE Wire
    <3>1. CASE HandleDisconnect /\ UNCHANGED isPingOutstanding
      BY <1>7, <3>1 DEF LoopRead, HandleDisconnect, Wire, Steady, Lost
    <3>2. CASE /\ ~ (isPingOutstanding /\ packet # "PINGRESP")
               /\ inbox' = Rest /\ Send(Ping) /\ isPingOutstanding' = TRUE
               /\ UNCHANGED conn
      BY <1>7, <3>2 DEF LoopRead, Wire, Steady, Pinging
    <3>3. CASE CycleRead(packet) /\ UNCHANGED <<conn, outbox>>
      BY <1>7, <3>3 DEF LoopRead, Wire, Steady, Reading
    <3> QED
      BY <2>1, <3>1, <3>2, <3>3 DEF KeepAlive
  <2>2. CASE HandleDisconnect /\ UNCHANGED isPingOutstanding
    BY <1>7, <2>2 DEF LoopRead, HandleDisconnect, Wire, Steady, Lost
  <2> QED
    BY <1>7, <2>1, <2>2 DEF LoopRead
<1>8. CASE LoopPart
  BY <1>8 DEF LoopPart, ReadPart, client, Wire, Steady, Quiet, Lost
<1>9. CASE GiveUp
  BY <1>9 DEF GiveUp, client, network, Wire, Steady, Quiet
<1>10. CASE NotYet
  BY <1>10 DEF NotYet, client, network, Wire, Steady, Quiet
<1>11. CASE Reconnect
  <2>1. CASE Open
    BY <1>11, <2>1 DEF Open, Wire, Steady, Fresh
  <2>2. CASE ~ Open
    BY <1>11, <2>2 DEF Reconnect, Wire, Steady, Quiet
  <2> QED
    BY <2>1, <2>2
<1>12. CASE Resubscribe
  BY <1>12 DEF Resubscribe, client, Wire, Steady, Sending
<1>13. CASE ResubscribeDone
  BY <1>13 DEF ResubscribeDone, network, Wire, Steady, Quiet
<1>14. CASE Resubscribed
  BY <1>14 DEF Resubscribed, Wire, Steady, Reading
<1>15. CASE ResubscribeFails
  BY <1>15 DEF ResubscribeFails, ReadPart, Wire, Steady, Quiet, Lost
<1>16. CASE Check
  BY <1>16 DEF Check, client, network, Wire, Steady, Quiet
<1>17. CASE Return
  BY <1>17 DEF Return, network, Wire, Steady, Quiet
<1>18. CASE Publish
  BY <1>18 DEF Publish, client, network, Wire, Steady, Quiet
<1>19. CASE Silence \/ Break
  BY <1>19 DEF Silence, Break, client, Wire, Steady, Lost
<1>20. CASE KeepAliveExpires \/ DelayExpires
  BY <1>20 DEF KeepAliveExpires, DelayExpires, client, network, Wire, Steady, Quiet
<1>21. CASE UNCHANGED vars
  BY <1>21 DEF vars, client, network, Wire, Steady, Quiet
<1>22. CASE Broker \/ BrokerPublish
  BY <1>22 DEF Wire, Steady
<1> QED
  BY <1>1, <1>2, <1>3, <1>4, <1>5, <1>6, <1>7, <1>8, <1>9, <1>10, <1>11, <1>12,
     <1>13, <1>14, <1>15, <1>16, <1>17, <1>18, <1>19, <1>20, <1>21, <1>22
  DEF Next, ClientStep, Environment

(* What a write leaves in the queue of an open connection. *)
LEMMA SendHas ==
    ASSUME Queues, NEW request \in {Ping} \cup Slots, Send(request)
    PROVE  /\ outbox' \in Seq({Ping} \cup Slots)
           /\ \A x : Has(outbox, x) => Has(outbox', x)
           /\ conn = "open" =>
                /\ \A x : Has(outbox', x) <=> Has(outbox, x) \/ request = x
                /\ \A x : Once(outbox, x) /\ (request = x => ~ Has(outbox, x))
                            => Once(outbox', x)
<1>1. CASE conn = "open"
  <2>1. outbox' = Append(outbox, request)
    BY <1>1 DEF Send
  <2>2. outbox \in Seq({Ping} \cup Slots)
    BY DEF Queues
  <2> QED
    BY <2>1, <2>2, AppendHas
<1>2. CASE conn # "open"
  BY <1>2 DEF Send, Queues
<1> QED
  BY <1>1, <1>2

(* What a read finds and leaves on an open connection. *)
LEMMA ReadHas ==
    ASSUME Queues, NEW packet \in Reads, inbox' = Rest
    PROVE  /\ inbox' \in Seq(Packets)
           /\ conn = "open" =>
                \/ packet = Nothing /\ inbox' = inbox
                \/ /\ Has(inbox, packet)
                   /\ \A x : Has(inbox, x) => packet = x \/ Has(inbox', x)
                   /\ \A x : Has(inbox', x) => Has(inbox, x)
                   /\ \A x : Once(inbox, x) => Once(inbox', x)
                   /\ \A x : Once(inbox, x) /\ packet = x => ~ Has(inbox', x)
<1>1. CASE inbox = <<>>
  BY <1>1 DEF Rest, Queues, Reads
<1>2. CASE inbox # <<>>
  <2>1. inbox' = Tail(inbox)
    BY <1>2 DEF Rest
  <2>2. inbox \in Seq(Packets)
    BY DEF Queues
  <2>3. conn = "open" => packet = Head(inbox)
    BY <1>2 DEF Reads
  <2> QED
    BY <1>2, <2>1, <2>2, <2>3, TailHas
<1> QED
  BY <1>1, <1>2

(* The broker takes a request and answers it. *)
LEMMA BrokerHas ==
    ASSUME Queues, Broker
    PROVE  LET request == Head(outbox)
               answer  == IF request = Ping THEN "PINGRESP" ELSE "SUBACK"
           IN  /\ outbox' \in Seq({Ping} \cup Slots) /\ inbox' \in Seq(Packets)
               /\ request \in {Ping} \cup Slots /\ Has(outbox, request)
               /\ \A x : Has(outbox, x) => request = x \/ Has(outbox', x)
               /\ \A x : Has(outbox', x) => Has(outbox, x)
               /\ \A x : Once(outbox, x) => Once(outbox', x)
               /\ \A x : Once(outbox, x) /\ request = x => ~ Has(outbox', x)
               /\ \A x : Has(inbox', x) <=> Has(inbox, x) \/ answer = x
               /\ \A x : Once(inbox, x) /\ (answer = x => ~ Has(inbox, x)) => Once(inbox', x)
<1> DEFINE request == Head(outbox)
           answer  == IF request = Ping THEN "PINGRESP" ELSE "SUBACK"
<1>1. outbox \in Seq({Ping} \cup Slots) /\ inbox \in Seq(Packets) /\ outbox # <<>>
  BY DEF Queues, Broker
<1>2. outbox' = Tail(outbox) /\ inbox' = Append(inbox, answer) /\ answer \in Packets
  BY DEF Broker, Answer, Packets
<1> HIDE DEF answer
<1>3. outbox' \in Seq({Ping} \cup Slots) /\ request \in {Ping} \cup Slots /\ Has(outbox, request)
      /\ (\A x : Has(outbox, x) => request = x \/ Has(outbox', x))
      /\ (\A x : Has(outbox', x) => Has(outbox, x))
      /\ (\A x : Once(outbox, x) => Once(outbox', x))
      /\ (\A x : Once(outbox, x) /\ request = x => ~ Has(outbox', x))
  BY <1>1, <1>2, TailHas
<1>4. /\ inbox' \in Seq(Packets)
      /\ \A x : Has(inbox', x) <=> Has(inbox, x) \/ answer = x
      /\ \A x : Once(inbox, x) /\ (answer = x => ~ Has(inbox, x)) => Once(inbox', x)
  BY <1>1, <1>2, AppendHas
<1> QED
  BY <1>3, <1>4 DEF answer

(* So the queues stay typed. *)
LEMMA QueuesStep == ASSUME Queues, Wire PROVE Queues'
<1>1. CASE Quiet
  BY <1>1 DEF Quiet, Queues
<1>2. CASE Fresh \/ Lost
  <2>1. <<>> \in Seq(Packets) /\ <<>> \in Seq({Ping} \cup Slots)
    BY EmptySeq
  <2> QED
    BY <1>2, <2>1 DEF Fresh, Lost, Queues, Conns
<1>3. ASSUME NEW slot \in Slots, Sending(slot) PROVE Queues'
  BY <1>3, SendHas DEF Sending, Queues
<1>4. ASSUME NEW packet \in Reads, Reading(packet) PROVE Queues'
  BY <1>4, ReadHas DEF Reading, CycleRead, Queues
<1>5. ASSUME NEW packet \in Reads, Pinging(packet) PROVE Queues'
  BY <1>5, ReadHas, SendHas DEF Pinging, Queues
<1>6. CASE Broker
  <2>1. brokerSubs' \subseteq Slots
    BY <1>6, BrokerHas DEF Broker, Queues
  <2>2. UNCHANGED <<conn, isPingOutstanding>>
    BY <1>6 DEF Broker, client
  <2> QED
    BY <1>6, <2>1, <2>2, BrokerHas DEF Queues
<1>7. CASE BrokerPublish
  <2>1. inbox' \in Seq(Packets)
    BY <1>7, AppendProperties DEF BrokerPublish, Answer, Queues, Packets
  <2> QED
    BY <1>7, <2>1 DEF BrokerPublish, client, Queues
<1> QED
  BY <1>1, <1>2, <1>3, <1>4, <1>5, <1>6, <1>7 DEF Wire, Steady

----------------------------------------------------------------------------
(* The one ping under way *)

PingKnown ==
    conn = "open" =>
        /\ isPingOutstanding <=> (Has(outbox, Ping) \/ Has(inbox, "PINGRESP"))
        /\ ~ (Has(outbox, Ping) /\ Has(inbox, "PINGRESP"))
        /\ Once(outbox, Ping) /\ Once(inbox, "PINGRESP")

(* OnePing, said of the queues. *)
LEMMA PingKnownIsOnePing == PingKnown <=> OnePing
<1>1. Has(outbox, Ping) <=> Pings # {}
  BY DEF Has, Pings
<1>2. Has(inbox, "PINGRESP") <=> Answers # {}
  BY DEF Has, Answers
<1>3. Once(outbox, Ping) <=> \A i, j \in Pings : i = j
  BY DEF Once, Pings
<1>4. Once(inbox, "PINGRESP") <=> \A i, j \in Answers : i = j
  BY DEF Once, Answers
<1> QED
  BY <1>1, <1>2, <1>3, <1>4 DEF PingKnown, OnePing

(* A write of another request, an answer read, a ping sent when none is    *)
(* under way and the broker's answer keep it.                              *)
LEMMA PingStep == ASSUME Queues, PingKnown, Wire PROVE PingKnown'
<1> SUFFICES ASSUME conn' = "open"
             PROVE  /\ isPingOutstanding' <=> (Has(outbox', Ping) \/ Has(inbox', "PINGRESP"))
                    /\ ~ (Has(outbox', Ping) /\ Has(inbox', "PINGRESP"))
                    /\ Once(outbox', Ping) /\ Once(inbox', "PINGRESP")
  BY DEF PingKnown
<1>1. CASE Quiet
  BY <1>1 DEF Quiet, PingKnown
<1>2. CASE Fresh
  BY <1>2, EmptyHas DEF Fresh
<1>3. CASE Lost
  BY <1>3 DEF Lost
<1>4. ASSUME NEW slot \in Slots, Sending(slot) PROVE PingKnown'
  <2>1. slot # Ping
    BY DEF Slots, Ping
  <2> QED
    BY <1>4, <2>1, SendHas DEF Sending, PingKnown
<1>5. ASSUME NEW packet \in Reads, Reading(packet) PROVE PingKnown'
  <2>1. /\ conn = "open" /\ outbox' = outbox /\ inbox' = Rest
        /\ isPingOutstanding' = (isPingOutstanding /\ packet # "PINGRESP")
    BY <1>5 DEF Reading, CycleRead
  <2>2. CASE packet = Nothing /\ inbox' = inbox
    BY <2>1, <2>2 DEF PingKnown, Nothing
  <2>3. CASE packet = "PINGRESP" /\ inbox' # inbox
    BY <2>1, <2>3, ReadHas DEF PingKnown, Nothing
  <2>4. CASE packet # "PINGRESP" /\ inbox' # inbox
    BY <2>1, <2>4, ReadHas DEF PingKnown
  <2> QED
    BY <2>1, <2>2, <2>3, <2>4, ReadHas DEF PingKnown, Nothing
<1>6. ASSUME NEW packet \in Reads, Pinging(packet) PROVE PingKnown'
  <2>1. /\ conn = "open" /\ Send(Ping) /\ inbox' = Rest /\ isPingOutstanding' = TRUE
        /\ ~ (isPingOutstanding /\ packet # "PINGRESP")
    BY <1>6 DEF Pinging
  <2>2. ~ Has(inbox', "PINGRESP") /\ Once(inbox', "PINGRESP")
    BY <2>1, ReadHas DEF PingKnown, Nothing
  <2>3. ~ Has(outbox, Ping)
    BY <2>1, ReadHas DEF PingKnown, Nothing
  <2>4. Has(outbox', Ping) /\ Once(outbox', Ping)
    BY <2>1, <2>3, SendHas DEF PingKnown
  <2> QED
    BY <2>1, <2>2, <2>4 DEF PingKnown
<1>7. CASE Broker
  <2> DEFINE request == Head(outbox)
             answer  == IF request = Ping THEN "PINGRESP" ELSE "SUBACK"
  <2>1. isPingOutstanding' = isPingOutstanding /\ conn = "open"
    BY <1>7 DEF Broker, client
  <2>2. CASE request = Ping
    <3>1. ~ Has(outbox', Ping) /\ Has(outbox, Ping) /\ Once(outbox', Ping)
      BY <1>7, <2>1, <2>2, BrokerHas DEF PingKnown
    <3>2. Has(inbox', "PINGRESP") /\ Once(inbox', "PINGRESP")
      BY <1>7, <2>1, <2>2, <3>1, BrokerHas DEF PingKnown
    <3> QED
      BY <2>1, <3>1, <3>2 DEF PingKnown
  <2>3. CASE request # Ping
    <3>1. (Has(outbox', Ping) <=> Has(outbox, Ping)) /\ Once(outbox', Ping)
      BY <1>7, <2>1, <2>3, BrokerHas DEF PingKnown
    <3>2. (Has(inbox', "PINGRESP") <=> Has(inbox, "PINGRESP")) /\ Once(inbox', "PINGRESP")
      BY <1>7, <2>1, <2>3, BrokerHas DEF PingKnown
    <3> QED
      BY <2>1, <3>1, <3>2 DEF PingKnown
  <2> QED
    BY <2>2, <2>3
<1>8. CASE BrokerPublish
  <2>1. /\ isPingOutstanding' = isPingOutstanding /\ conn = "open" /\ outbox' = outbox
        /\ inbox' = Append(inbox, "PUBLISH") /\ inbox \in Seq(Packets) /\ "PUBLISH" \in Packets
    BY <1>8 DEF BrokerPublish, client, Answer, Queues, Packets
  <2>2. (Has(inbox', "PINGRESP") <=> Has(inbox, "PINGRESP")) /\ Once(inbox', "PINGRESP")
    BY <2>1, AppendHas DEF PingKnown
  <2> QED
    BY <2>1, <2>2 DEF PingKnown
<1> QED
  BY <1>1, <1>2, <1>3, <1>4, <1>5, <1>6, <1>7, <1>8 DEF Wire, Steady, PingKnown

----------------------------------------------------------------------------
(* The subscriptions *)

Subscriptions ==
    /\ clientState = "PENDING_RECONNECT" => resubscribed = {}
    /\ conn = "open" =>
          /\ clientState \in {"CONNECTED_IDLE", "YIELD_IN_PROGRESS", "SUBSCRIBE_IN_PROGRESS"} =>
                \A slot \in 1 .. subscribed : Forwarded(slot)
          /\ pc = "suback" => Forwarded(subscribed + 1)
          /\ clientState = "RESUBSCRIBE_IN_PROGRESS" =>
                \A slot \in resubscribed : Forwarded(slot)
          /\ pc = "resuback" => \A slot \in Slots : NextSlot(slot) => Forwarded(slot)

(* A subscription the broker has or is sent stays so while the connection  *)
(* stays open.                                                             *)
LEMMA ForwardedKept ==
    ASSUME Queues, Steady, conn' = "open"
    PROVE  conn = "open" /\ \A slot \in Slots : Forwarded(slot) => Forwarded(slot)'
<1> USE DEF Forwarded
<1>1. CASE Quiet
  BY <1>1 DEF Quiet
<1>2. CASE Lost
  BY <1>2 DEF Lost
<1>3. ASSUME NEW slot \in Slots, Sending(slot)
      PROVE  conn = "open" /\ \A s \in Slots : Forwarded(s) => Forwarded(s)'
  BY <1>3, SendHas DEF Sending, Has
<1>4. ASSUME NEW packet \in Reads, Reading(packet)
      PROVE  conn = "open" /\ \A s \in Slots : Forwarded(s) => Forwarded(s)'
  BY <1>4 DEF Reading
<1>5. ASSUME NEW packet \in Reads, Pinging(packet)
      PROVE  conn = "open" /\ \A s \in Slots : Forwarded(s) => Forwarded(s)'
  BY <1>5, SendHas DEF Pinging, Has
<1>6. CASE Broker
  <2>1. \A s \in Slots : Has(outbox, s) => Has(outbox', s) \/ Head(outbox) = s
    BY <1>6, BrokerHas
  <2>2. \A s \in Slots : Head(outbox) = s => s \in brokerSubs'
    BY <1>6 DEF Broker, Ping, Slots
  <2>3. brokerSubs \subseteq brokerSubs' /\ conn = "open"
    BY <1>6 DEF Broker
  <2> QED
    BY <2>1, <2>2, <2>3 DEF Has
<1>7. CASE BrokerPublish
  BY <1>7 DEF BrokerPublish
<1> QED
  BY <1>1, <1>2, <1>3, <1>4, <1>5, <1>6, <1>7 DEF Steady

(* There is one next slot. *)
LEMMA NextSlotUnique ==
    \A s, t \in Slots : NextSlot(s) /\ NextSlot(t) => s = t
BY MqttAssumption DEF NextSlot, Slots

UsableStates == {"CONNECTED_IDLE", "YIELD_IN_PROGRESS", "SUBSCRIBE_IN_PROGRESS"}

(* A step that leaves the slots alone keeps what was said of them.         *)
LEMMA SubscriptionsKept ==
    ASSUME Queues, Scalars, Control, Subscriptions, Steady, resubscribed \subseteq Slots,
           UNCHANGED <<subscribed, resubscribed>>,
           clientState' = clientState \/ {clientState, clientState'} \subseteq UsableStates,
           pc' = pc \/ pc' \notin {"suback", "resuback"}
    PROVE  Subscriptions'
<1>1. clientState' = "PENDING_RECONNECT" => resubscribed' = {}
  BY DEF Subscriptions, UsableStates
<1>2. ASSUME conn' = "open"
      PROVE  /\ clientState' \in UsableStates => \A slot \in 1 .. subscribed' : Forwarded(slot)'
             /\ pc' = "suback" => Forwarded(subscribed + 1)'
             /\ clientState' = "RESUBSCRIBE_IN_PROGRESS" =>
                   \A slot \in resubscribed' : Forwarded(slot)'
             /\ pc' = "resuback" => \A slot \in Slots : NextSlot(slot)' => Forwarded(slot)'
  <2>1. conn = "open" /\ \A slot \in Slots : Forwarded(slot) => Forwarded(slot)'
    BY <1>2, ForwardedKept
  <2>2. \A slot \in 1 .. subscribed : slot \in Slots
    BY MqttAssumption DEF Slots, Scalars
  <2>3. pc = "suback" => subscribed + 1 \in Slots
    BY MqttAssumption DEF Slots, Scalars, Control
  <2>4. clientState' \in UsableStates => \A slot \in 1 .. subscribed' : Forwarded(slot)'
    BY <2>1, <2>2 DEF Subscriptions, UsableStates, Forwarded
  <2>5. pc' = "suback" => Forwarded(subscribed + 1)'
    BY <2>1, <2>3 DEF Subscriptions, Forwarded
  <2>6. clientState' = "RESUBSCRIBE_IN_PROGRESS" => \A slot \in resubscribed' : Forwarded(slot)'
    BY <2>1 DEF Subscriptions, UsableStates, Forwarded
  <2>7. pc' = "resuback" => \A slot \in Slots : NextSlot(slot)' => Forwarded(slot)'
    BY <2>1 DEF Subscriptions, NextSlot, Forwarded
  <2> QED
    BY <2>4, <2>5, <2>6, <2>7
<1> QED
  BY <1>1, <1>2 DEF Subscriptions, UsableStates

(* A step that does not start where a connection is opened is steady.      *)
LEMMA SteadyStep ==
    ASSUME Wire, pc \notin {"connect", "loop"} \/ ~ Fresh
    PROVE  Steady
BY DEF Wire, Connect, Reconnect

(* A topic is written, answered or forgotten with its connection, so what  *)
(* was said of the slots stays true.                                       *)
LEMMA SubscriptionsStep ==
    ASSUME Queues, Scalars, Control, Subscriptions, resubscribed \subseteq Slots,
           Wire, [Next]_vars
    PROVE  Subscriptions' /\ (resubscribed \subseteq Slots)'
<1>1. CASE Connect
  <2>1. subscribed' = 0 /\ resubscribed' = resubscribed
        /\ clientState' \in {"CONNECTED_IDLE", "DISCONNECTED_ERROR"}
        /\ pc' \in {"connect", "subscribe"}
    BY <1>1 DEF Connect, Control
  <2> QED
    BY <2>1 DEF Subscriptions
<1>2. CASE Subscribe
  <2>1. Send(subscribed + 1) /\ subscribed' = subscribed /\ resubscribed' = resubscribed
        /\ clientState = "CONNECTED_IDLE" /\ clientState' = "SUBSCRIBE_IN_PROGRESS"
        /\ pc' = "suback" /\ conn' = conn /\ brokerSubs' = brokerSubs
    BY <1>2 DEF Subscribe, Control
  <2>2. subscribed + 1 \in Slots /\ \A slot \in 1 .. subscribed : slot \in Slots
    BY <1>2, MqttAssumption DEF Subscribe, Scalars, Control, Slots
  <2>3. conn = "open" => \A x : Has(outbox', x) <=> Has(outbox, x) \/ subscribed + 1 = x
    BY <2>1, <2>2, SendHas
  <2>4. conn = "open" => \A slot \in 1 .. subscribed' : Forwarded(slot)'
    BY <2>1, <2>3 DEF Subscriptions, Forwarded, Has
  <2>5. conn = "open" => Forwarded(subscribed + 1)'
    BY <2>1, <2>3 DEF Forwarded, Has
  <2> QED
    BY <2>1, <2>4, <2>5 DEF Subscriptions
<1>3. CASE Subscribed
  <2>1. Steady
    BY <1>3, SteadyStep DEF Subscribed
  <2>2. CASE UNCHANGED <<subscribed, clientState, pc>>
    BY <1>3, <2>1, <2>2, SubscriptionsKept DEF Subscribed
  <2>3. CASE /\ subscribed' = subscribed + 1 /\ clientState' = "CONNECTED_IDLE"
             /\ pc' \in {"test", "subscribe"}
    <3>1. clientState = "SUBSCRIBE_IN_PROGRESS" /\ pc = "suback" /\ resubscribed' = resubscribed
      BY <1>3 DEF Subscribed, Control
    <3>2. 1 .. subscribed' = 1 .. subscribed \cup {subscribed + 1}
          /\ 1 .. subscribed' \subseteq Slots
      BY <2>3, <3>1, MqttAssumption DEF Scalars, Control, Slots
    <3>3. conn' = "open" => \A slot \in 1 .. subscribed' : Forwarded(slot)'
      BY <2>1, <2>3, <3>1, <3>2, ForwardedKept DEF Subscriptions
    <3> QED
      BY <2>3, <3>1, <3>3 DEF Subscriptions
  <2> QED
    BY <1>3, <2>2, <2>3 DEF Subscribed
<1>4. CASE SubscribeFails \/ Abort
  BY <1>4 DEF SubscribeFails, Abort, Restart, Subscriptions
<1>5. CASE Yield
  <2>1. Steady
    BY <1>5, SteadyStep DEF Yield
  <2> QED
    BY <1>5, <2>1, SubscriptionsKept DEF Yield, UsableStates
<1>6. CASE LoopRead
  <2>1. CASE HandleDisconnect
    BY <1>6, <2>1 DEF LoopRead, HandleDisconnect, Subscriptions
  <2>2. CASE ~ HandleDisconnect
    <3>1. Steady
      BY <1>6, <2>2, SteadyStep DEF LoopRead, Connect, Reconnect, Wire
    <3>2. UNCHANGED <<clientState, subscribed, resubscribed>> /\ pc' = "check"
      BY <1>6, <2>2 DEF LoopRead, KeepAlive
    <3> QED
      BY <3>1, <3>2, SubscriptionsKept
  <2> QED
    BY <2>1, <2>2
<1>7. CASE LoopPart
  <2>1. Steady
    BY <1>7, WireStep DEF LoopPart, Wire, Connect, Reconnect
  <2> QED
    BY <1>7, <2>1, SubscriptionsKept DEF LoopPart, client
<1>8. CASE GiveUp \/ NotYet
  <2>1. Steady
    BY <1>8 DEF GiveUp, NotYet, client, network, Steady, Quiet
  <2> QED
    BY <1>8, <2>1, SubscriptionsKept DEF GiveUp, NotYet, client
<1>9. CASE Reconnect
  <2>1. CASE clientState = "RESUBSCRIBE_IN_PROGRESS"
    <3>1. Quiet /\ UNCHANGED <<clientState, subscribed, resubscribed>> /\ pc' = "resub"
      BY <1>9, <2>1 DEF Reconnect, IsConnected, Quiet
    <3> QED
      BY <3>1, SubscriptionsKept DEF Steady
  <2>2. CASE clientState = "PENDING_RECONNECT"
    <3>1. resubscribed' = {} /\ pc' \in {"resub", "check"}
          /\ clientState' \in {"PENDING_RECONNECT", "RESUBSCRIBE_IN_PROGRESS"}
      BY <1>9, <2>2 DEF Reconnect, IsConnected, BackOff, Subscriptions
    <3> QED
      BY <3>1 DEF Subscriptions
  <2> QED
    BY <1>9, <2>1, <2>2 DEF Reconnect, Reconnecting
<1>10. CASE Resubscribe
  <2>1. PICK slot \in Slots : NextSlot(slot) /\ Send(slot)
    BY <1>10 DEF Resubscribe
  <2>2. /\ UNCHANGED <<clientState, subscribed, resubscribed, conn, brokerSubs>>
        /\ clientState = "RESUBSCRIBE_IN_PROGRESS" /\ pc' = "resuback"
    BY <1>10 DEF Resubscribe, client, Control
  <2>3. conn = "open" => \A x : Has(outbox', x) <=> Has(outbox, x) \/ slot = x
    BY <2>1, SendHas
  <2>4. conn = "open" => \A s \in resubscribed' : Forwarded(s)'
    BY <2>2, <2>3 DEF Subscriptions, Forwarded, Has
  <2>5. conn = "open" => Forwarded(slot)'
    BY <2>3 DEF Forwarded, Has
  <2>6. \A s \in Slots : NextSlot(s)' => s = slot
    BY <2>1, <2>2, NextSlotUnique DEF NextSlot
  <2> QED
    BY <2>2, <2>4, <2>5, <2>6 DEF Subscriptions
<1>11. CASE ResubscribeDone
  <2>1. /\ UNCHANGED <<subscribed, resubscribed, conn, outbox, brokerSubs>>
        /\ clientState = "RESUBSCRIBE_IN_PROGRESS" /\ clientState' = "YIELD_IN_PROGRESS"
        /\ pc' = "check" /\ 1 .. subscribed \subseteq resubscribed
    BY <1>11 DEF ResubscribeDone, network, Control
  <2>2. conn = "open" => \A slot \in 1 .. subscribed' : Forwarded(slot)'
    BY <2>1 DEF Subscriptions, Forwarded
  <2> QED
    BY <2>1, <2>2 DEF Subscriptions
<1>12. CASE Resubscribed
  <2>1. Steady
    BY <1>12, SteadyStep DEF Resubscribed
  <2>2. CASE UNCHANGED <<resubscribed, pc>>
    BY <1>12, <2>1, <2>2, SubscriptionsKept DEF Resubscribed
  <2>3. ASSUME NEW slot \in Slots, NextSlot(slot), resubscribed' = resubscribed \cup {slot},
               pc' = "resub"
        PROVE  Subscriptions' /\ (resubscribed \subseteq Slots)'
    <3>1. clientState = "RESUBSCRIBE_IN_PROGRESS" /\ clientState' = clientState
          /\ pc = "resuback"
      BY <1>12 DEF Resubscribed, Control
    <3>2. conn' = "open" => \A s \in resubscribed' : Forwarded(s)'
      BY <2>1, <2>3, <3>1, ForwardedKept DEF Subscriptions
    <3> QED
      BY <2>3, <3>1, <3>2 DEF Subscriptions
  <2> QED
    BY <1>12, <2>2, <2>3 DEF Resubscribed
<1>13. CASE ResubscribeFails
  <2>1. Steady
    BY <1>13, SteadyStep DEF ResubscribeFails
  <2> QED
    BY <1>13, <2>1, SubscriptionsKept DEF ResubscribeFails, BackOff
<1>14. CASE Check \/ Publish
  <2>1. Steady
    BY <1>14 DEF Check, Publish, client, network, Steady, Quiet
  <2> QED
    BY <1>14, <2>1, SubscriptionsKept DEF Check, Publish, client
<1>15. CASE Return
  <2>1. Steady
    BY <1>15, SteadyStep DEF Return
  <2> QED
    BY <1>15, <2>1, SubscriptionsKept DEF Return, UsableStates
<1>16. CASE Environment
  <2>1. Steady
    BY <1>16 DEF Environment, Silence, Break, KeepAliveExpires, DelayExpires, client,
           network, Steady, Quiet, Lost, Conns
  <2>2. UNCHANGED <<clientState, subscribed, resubscribed, pc>>
    BY <1>16 DEF Environment, Broker, BrokerPublish, Silence, Break, KeepAliveExpires,
           DelayExpires, client, task
  <2> QED
    BY <2>1, <2>2, SubscriptionsKept
<1>17. CASE UNCHANGED vars
  <2>1. Steady
    BY <1>17 DEF vars, client, network, Steady, Quiet
  <2> QED
    BY <1>17, <2>1, SubscriptionsKept DEF vars, client, task
<1> QED
  BY <1>1, <1>2, <1>3, <1>4, <1>5, <1>6, <1>7, <1>8, <1>9, <1>10, <1>11, <1>12,
     <1>13, <1>14, <1>15, <1>16, <1>17 DEF Next, ClientStep

----------------------------------------------------------------------------
(* Together *)

(* The types the other parts do not have. *)
Flags ==
    /\ resubscribed \subseteq Slots
    /\ keepAliveExpired \in BOOLEAN
    /\ delayExpired \in BOOLEAN
    /\ faults \in 0 .. MaxFaults

Inv == Scalars /\ Control /\ Queues /\ PingKnown /\ Subscriptions /\ Flags

(* Timers are started or expire, and a fault is counted below its bound.   *)
LEMMA FlagsStep ==
    ASSUME Flags, [Next]_vars
    PROVE  /\ keepAliveExpired' \in BOOLEAN /\ delayExpired' \in BOOLEAN
           /\ faults' \in 0 .. MaxFaults
<1>1. faults' = faults \/ Fault
  BY DEF Next, ClientStep, Connect, Subscribe, Subscribed, SubscribeFails, TimesOut, Yield,
     Abort, LoopRead, LoopPart, ReadPart, GiveUp, NotYet, Reconnect, Resubscribe,
     ResubscribeDone, Resubscribed, ResubscribeFails, Check, Return, Publish, Environment,
     Broker, BrokerPublish, Silence, Break, KeepAliveExpires, DelayExpires, network, vars
<1>2. faults' \in 0 .. MaxFaults
  BY <1>1, MqttAssumption DEF Flags, Fault
<1>3. keepAliveExpired' = keepAliveExpired \/ keepAliveExpired' = TRUE \/ keepAliveExpired' = FALSE
  BY Zenon DEF Next, ClientStep, Connect, Open, Subscribe, Subscribed, SubscribeFails,
     Restart, Yield, Abort, LoopRead, KeepAlive, HandleDisconnect, LoopPart, GiveUp, NotYet,
     Reconnect, Resubscribe, ResubscribeDone, Resubscribed, ResubscribeFails, Check, Return,
     Publish, Environment, Broker, BrokerPublish, Silence, Break, KeepAliveExpires,
     DelayExpires, timers, vars
<1>4. delayExpired' = delayExpired \/ delayExpired' = TRUE \/ delayExpired' = FALSE
  BY Zenon DEF Next, ClientStep, Connect, Subscribe, Subscribed, SubscribeFails, Restart,
     Yield, Abort, LoopRead, KeepAlive, HandleDisconnect, LoopPart, GiveUp, NotYet, BackOff,
     Reconnect, Resubscribe, ResubscribeDone, Resubscribed, ResubscribeFails, Check, Return,
     Publish, Environment, Broker, BrokerPublish, Silence, Break, KeepAliveExpires,
     DelayExpires, timers, vars
<1> QED
  BY <1>2, <1>3, <1>4, Zenon DEF Flags

(* A boot satisfies the invariant. *)
LEMMA InvInit == Init => Inv
<1> SUFFICES ASSUME Init PROVE Inv
  OBVIOUS
<1>1. <<>> \in Seq(Packets) /\ <<>> \in Seq({Ping} \cup Slots)
  BY EmptySeq
<1>2. Scalars /\ Control
  BY MqttAssumption DEF Init, Scalars, Control, GoOn
<1>3. Queues
  BY <1>1 DEF Init, Queues, Conns
<1>4. PingKnown /\ Subscriptions
  BY DEF Init, PingKnown, Subscriptions
<1>5. Flags
  <2>1. 0 \in 0 .. MaxFaults
    BY MqttAssumption
  <2> QED
    BY <2>1, Zenon DEF Init, Flags
<1> QED
  BY <1>2, <1>3, <1>4, <1>5 DEF Inv

(* Every step keeps it. *)
LEMMA InvStep == Inv /\ [Next]_vars => Inv'
<1> SUFFICES ASSUME Inv, [Next]_vars PROVE Inv'
  OBVIOUS
<1>1. Scalars' /\ Control'
  BY ControlStep DEF Inv
<1>2. Wire
  BY WireStep DEF Inv, Queues
<1>3. Queues' /\ PingKnown'
  BY <1>2, QueuesStep, PingStep DEF Inv
<1>4. Subscriptions' /\ (resubscribed \subseteq Slots)'
  BY <1>2, SubscriptionsStep DEF Inv, Flags
<1>5. Flags'
  BY <1>4, FlagsStep DEF Inv, Flags
<1> QED
  BY <1>1, <1>3, <1>4, <1>5 DEF Inv

(* So it always holds. *)
LEMMA InvAlways == Spec => []Inv
BY InvInit, InvStep, PTL DEF Spec

(* Client, timers, task and network only take the values they are meant    *)
(* to; the reconnect interval stays at twice its maximum at most, so that  *)
(* doubling it never overflows.                                            *)
THEOREM MqttTypeCorrect == Spec => []TypeOK
<1>1. Inv => TypeOK
  BY DEF Inv, Scalars, Queues, Flags, Conns, TypeOK
<1> QED
  BY <1>1, InvAlways, PTL

(* What aws_iot_mqtt_yield and aws_iot_mqtt_publish return to the main     *)
(* loop tells the state of the client, for every sequence of outages.      *)
THEOREM CodesAlwaysTellState == Spec => []CodesTellState
<1>1. Inv => CodesTellState
  BY DEF Inv, Control, Backoff, CodesTellState
<1> QED
  BY <1>1, InvAlways, PTL

(* The main loop aborts after a whole backoff or a packet in pieces only.  *)
THEOREM GivesUpOnlyLate == Spec => []GivesUpLate
<1>1. Inv => GivesUpLate
  BY DEF Inv, Control, Backoff, GoOn, GivesUpLate
<1> QED
  BY <1>1, InvAlways, PTL

(* On an open connection there is one ping under way when                  *)
(* isPingOutstanding is set and none when it is not.                       *)
THEOREM OnePingUnderWay == Spec => []OnePing
<1>1. Inv => OnePing
  BY PingKnownIsOnePing DEF Inv
<1> QED
  BY <1>1, InvAlways, PTL

(* A usable client on an open connection has every topic forwarded to it,  *)
(* or the request for it is on its way.                                    *)
THEOREM ConfigAlwaysArrives == Spec => []ConfigArrives
<1>1. Inv => ConfigArrives
  BY DEF Inv, Subscriptions, ConfigArrives, Usable
<1> QED
  BY <1>1, InvAlways, PTL

----------------------------------------------------------------------------
(* MqttClient implements ClientService *)

Abstract == <<At, Link, Code>>

(* A step that leaves the position, the state of the client, its code and  *)
(* the connection alone is invisible.                                      *)
LEMMA ServiceStutter ==
    ASSUME UNCHANGED <<pc, rc, clientState, conn>> PROVE UNCHANGED Abstract
<1>1. At' = At /\ Usable' = Usable
  BY DEF At, Usable, GoOn
<1>2. Link' = Link /\ Code' = Code
  BY <1>1 DEF Link, Code
<1> QED
  BY <1>2, <1>1 DEF Abstract

(* Inside a yield a reconnecting client is down, whatever it does.         *)
LEMMA ServiceDown ==
    ASSUME pc \in {"loop", "resub", "resuback", "check", "return"}, ~ Usable, ~ Usable',
           pc' \in {"loop", "resub", "resuback", "check", "return"}
    PROVE  UNCHANGED Abstract
<1>1. At = "yield" /\ At' = "yield"
  BY DEF At
<1> QED
  BY <1>1 DEF Abstract, Link, Code

(* Every step of the client is a step of the service, or invisible.        *)
LEMMA ServiceStep ==
    ASSUME Scalars, Control, [Next]_vars
    PROVE  [Service!Next]_Abstract
<1> USE DEF Abstract
<1>1. ASSUME Connect \/ Subscribe \/ SubscribeFails PROVE UNCHANGED Abstract
  BY <1>1 DEF Connect, Subscribe, SubscribeFails, Restart, At, Link, Code
<1>2. ASSUME Subscribed PROVE UNCHANGED Abstract \/ Service!Connected
  BY <1>2 DEF Subscribed, Control, GoOn, At, Link, Code, Usable, Service!Connected,
              Service!Made
<1>3. ASSUME Yield PROVE UNCHANGED Abstract
  BY <1>3 DEF Yield, network, Control, Backoff, Reconnecting, GoOn, At, Link, Code, Usable
<1>4. ASSUME Abort PROVE Service!Restart
  BY <1>4 DEF Abort, Restart, At, Link, Code, Usable, Service!Restart
<1>5. ASSUME LoopRead PROVE UNCHANGED Abstract \/ Service!Notice
  <2>1. CASE HandleDisconnect
    BY <1>5, <2>1 DEF LoopRead, HandleDisconnect, Control, Reconnecting, At, Link, Code,
                      Usable, Service!Notice
  <2>2. CASE ~ HandleDisconnect
    <3>1. UNCHANGED <<clientState, conn>>
      BY <1>5, <2>2 DEF LoopRead, KeepAlive
    <3> QED
      BY <1>5, <3>1 DEF LoopRead, At, Link, Code, Usable
  <2> QED
    BY <2>1, <2>2
<1>6. ASSUME LoopPart PROVE UNCHANGED Abstract \/ Service!Lose
  BY <1>6 DEF LoopPart, ReadPart, client, At, Link, Code, Usable, Service!Lose
<1>7. ASSUME GiveUp \/ NotYet PROVE UNCHANGED Abstract
  BY <1>7 DEF GiveUp, NotYet, client, network, At, Link, Code, Usable
<1>8. ASSUME Reconnect PROVE UNCHANGED Abstract
  <2>1. ~ Usable /\ ~ Usable'
    BY <1>8 DEF Reconnect, Reconnecting, Usable
  <2>2. pc = "loop" /\ pc' \in {"resub", "check"}
    BY <1>8 DEF Reconnect, BackOff
  <2> QED
    BY <2>1, <2>2, ServiceDown
<1>9. ASSUME Resubscribe \/ Resubscribed \/ ResubscribeFails PROVE UNCHANGED Abstract
  <2>1. ~ Usable /\ ~ Usable'
    BY <1>9 DEF Resubscribe, Resubscribed, ResubscribeFails, client, Control, Usable
  <2>2. pc \in {"resub", "resuback"} /\ pc' \in {"resub", "resuback", "check"}
    BY <1>9 DEF Resubscribe, Resubscribed, ResubscribeFails, BackOff
  <2> QED
    BY <2>1, <2>2, ServiceDown
<1>10. ASSUME ResubscribeDone PROVE Service!Repair
  BY <1>10 DEF ResubscribeDone, network, Control, At, Link, Code, Usable, Service!Repair,
               Service!Made
<1>11. ASSUME Check PROVE UNCHANGED Abstract
  BY <1>11 DEF Check, client, network, At, Link, Code, Usable
<1>12. ASSUME Return PROVE UNCHANGED Abstract \/ Service!YieldReturns
  BY <1>12 DEF Return, network, Control, Backoff, Reconnecting, GoOn, At, Link, Code,
               Usable, Service!YieldReturns, Service!YieldCode
<1>13. ASSUME Publish PROVE Service!GoOn
  BY <1>13 DEF Publish, client, network, Control, Backoff, Reconnecting, IsConnected, GoOn,
               At, Link, Code, Usable, Service!GoOn, Service!PublishCode
<1>14. ASSUME Broker \/ BrokerPublish \/ KeepAliveExpires \/ DelayExpires
       PROVE  UNCHANGED Abstract
  BY <1>14, ServiceStutter DEF Broker, BrokerPublish, KeepAliveExpires, DelayExpires,
                               client, task, network
<1>15. ASSUME Silence \/ Break PROVE UNCHANGED Abstract \/ Service!Lose
  BY <1>15 DEF Silence, Break, client, task, At, Link, Code, Usable, Service!Lose
<1>16. ASSUME UNCHANGED vars PROVE UNCHANGED Abstract
  BY <1>16, ServiceStutter DEF vars, client, task, network
<1> QED
  BY <1>1, <1>2, <1>3, <1>4, <1>5, <1>6, <1>7, <1>8, <1>9, <1>10, <1>11, <1>12, <1>13,
     <1>14, <1>15, <1>16 DEF Next, ClientStep, Environment, Service!Next

(* The client keeps what ClientService promises its task, over every       *)
(* sequence of outages: a yield that succeeds leaves a connected client,   *)
(* and a publication is refused only when the client knows it is not.      *)
THEOREM MqttImplementsService == Spec => ServiceSpec
<1>1. Init => Service!Init
  BY DEF Init, At, Link, Code, Service!Init
<1>2. Inv /\ [Next]_vars => [Service!Next]_Abstract
  BY ServiceStep DEF Inv
<1> QED
  BY <1>1, <1>2, InvAlways, PTL DEF Spec, ServiceSpec, Service!Spec, Service!serviceVars, Abstract
=============================================================================
