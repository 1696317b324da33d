# ESP32_LTE_MQTT in TLA+

Models, model checking and proofs of the firmware in this repository: a board
that samples temperatures and its power, keeps the readings in a ring in flash,
forwards them to AWS IoT over MQTT, reports alerts and power changes, and takes
its configuration from a topic.

Every definition is translated from the source; `PROJECT.json` (`map`) names the
lines each one stands for. Paths below are relative to the repository; `main.c`
and `storage.c` are in `src/`, the SDK is
`components/esp-aws-iot/aws-iot-device-sdk-embedded-C`.

## 1. The system

Six FreeRTOS tasks of one priority on two cores, the event task of the WiFi
driver, and what they share:

| Part | Code | State it keeps | Operations | Talks to |
|---|---|---|---|---|
| telemetry | `task_adc_read`, main.c:300-395 | `datas`, `temperature_alert`, `dc_state`, `energy` | sample, compare, report | Queue_state, globals read by the others |
| reading store | `task_nvs`, `save_read_data` (storage.c:11-46) | key `saved_counter`, ring of `MAX_BUFFER_RING` strings | save | NVS |
| connector | `task_connector`, main.c:443-517 | key `sent_counter` | read the ring, forward | NVS, Queue_data, Queue_state |
| publisher | `aws_iot_task`, main.c:174-287 | return code, buffers | connect, subscribe, yield, publish, abort | the MQTT client, both queues, `energy` |
| remote configuration | callback main.c:29-42, `task_config` 407-441, `save_config`/`load_config` | thresholds and rate, three keys | receive, apply, store, load | Queue_config, NVS |
| payload parser | `parserJsonIntValues`, storage.c:110-144 | - | scan | - |
| WiFi boot | handler main.c:65-103, `wifi_init_sta` 105-158, `app_main` | event group | start, connect, set and clear the bit, wait | WiFi driver |
| MQTT client | SDK `src/aws_iot_mqtt_client_*.c` | `clientState`, handler slots, ping flag, timers, backoff | connect, subscribe, yield, keep-alive, reconnect, resubscribe, publish | TLS transport, broker |
| transport, timers, mutexes | `components/esp-aws-iot/port` | - | read, write, expire | mbedTLS |
| modem and PPP | `pppos_client_task`, `ppp_status_cb`, `ppposInit`, `ppposDisconnect` of `components/pppos/libGSM.c` | `gsm_status`, `do_pppos_connect`, `pppos_task_started`, the control block | initialise the modem, connect, repair, disconnect, end; radio on/off, SMS | UART, lwIP |
| LED, LTE | `task_led`, `task_lte` | - | blink, log | - |
| shadow, jobs | SDK `aws_iot_shadow*.c`, `aws_iot_jobs*.c` | - | - | not used by the firmware |

What is hard here: two cores run tasks of one priority, so any two library calls
of different tasks interleave; two tasks use the same flash ring without a lock;
counter and reading are two keys, each of which may or may not have reached the
flash when the board resets; full queues block their writers, one of them
inside the MQTT client; connections end with or without a word; retries have a
limit whose end is `abort()`.

What makes each part correct:

- reading store: what was committed can be read again, whatever happens later.
- connector and publisher: records are fetched as saved, in order, not twice,
  with no gap but the known one, and the backlog is worked off.
- configuration: what is in force and what is stored stays within the limits,
  and a reset mixes as little as possible.
- telemetry: whoever reads the messages knows the power state; alerts and
  `energy` follow the samples.
- WiFi boot: the bit tells the link, and something always tries to connect.
- MQTT client: return codes tell the state, a lost connection is noticed, its
  leftovers do not spoil the next one, and subscriptions are restored.
- delivery, which is all of the above together: readings reach the broker in
  order, and what does not reach it can be accounted for.
- modem and PPP: the state tells the link, a connection is open only while
  somebody asked for it, calls return, a loss is repaired.

## 2. Modules

| Module | Models | Checked by | Proofs |
|---|---|---|---|
| `Storage` | reading store over the NVS contract | `storage` | `StoreForward_proof` |
| `StoreForward` | EXTENDS `Storage`: three tasks and two queues | `forward`, `forward_live`, `forward_skip` | `StoreForward_proof` |
| `Config` | callback, Queue_config, `task_config`, boot | `config` | `Config_proof` |
| `ConfigParser` | the scanner, with a reference definition | `config_parser` | `ConfigParser_proof` |
| `Telemetry` | `task_adc_read` | `telemetry`, `telemetry_low` | `Telemetry_proof` |
| `WifiBoot` | driver events, handler, boot, start of the publisher | `wifi` | `WifiBoot_proof` |
| `MqttClient` | `aws_iot_task` over the SDK's client | `mqtt` | `MqttClient_proof` |
| `ClientService` | what the client promises its task | as a property of `mqtt`, used by `Delivery` | refinement in `MqttClient_proof`, use in `Delivery_proof` |
| `Delivery` | a reading's way through store, connector, publisher and client | `delivery` | `Delivery_proof` |
| `Connector` | what `task_connector` does to the numbers | as a property of `forward` | refinements in `StoreForward_proof` and `Delivery_proof` |
| `PppClient` | the PPP task, its callback and its callers | `pppos` | `PppClient_proof` |
| `PppService` | what libGSM.h promises of the connection | as a property of `pppos` | refinement in `PppClient_proof` |

Definitions whose name has an underscore and a suffix (`BackOff_Early`) are
altered copies of the definition before the underscore, the way a plausible
mistake would alter it. They are not part of any specification; substituting one
for its original makes the property it is listed with fail, which shows that the
property depends on that code.

### Storage

One step per NVS call of `save_read_data`. `saved_counter` and `ring` are what
the NVS functions return; `flash_saved` and `flash_ring` are what a reset would
find. NVS promises only that `nvs_commit` makes earlier writes durable; before
that, a key may reach the flash at any time (`FlashWrite`). `StorageReset` goes
back to the flash view and `StorageErase` is the erase of `app_main`
(main.c:549-552). Any call may fail (`SaveFails`); the code ignores the result of
`nvs_set_str`, so does the model. A reading is its number.

### StoreForward

Every call of `task_connector` and `aws_iot_task` that touches the store or a
queue is a step. `forwarded` and `conn_errors` are histories. Buffers are named
by the reading in them, 0 for one nobody filled; `TextHere` and `LengthHere`
return what the slot holds at that moment, as the length and the text are fetched
by two calls. The MQTT client appears through its return codes. `energy` and the
messages for Queue_state come from outside, as in Telemetry.

Every NVS call of `task_connector` may fail, up to `MaxConnErrors` of them in a
run: `nvs_open` (both reads fail after it, three messages are queued and nothing
is sent), `nvs_get_i32` of `saved_counter` alone (nothing is sent) or of
`sent_counter` alone (the pass starts over from the first record), `nvs_set_i32`
(the pass goes on) and either `nvs_get_str`, whose results the code does not look
at. What a reset finds in flash matters only if there is another reset, so keys
are written early only while `MaxResets` allows one.

`SkipsAtMostOne` needs its premise. A pass that started over and failed to
store its numbers leaves `sent_counter` where it was, and only when a reset has
taken the writer's count back in between can that be further ahead than one past
the record forwarded last. `FetchExact` says what goes out when a fetch is not
exact: an unfilled buffer, for the newest record the one of a lap before, for a
record the writer has overrun a later one of its slot. `BacklogClears` speaks of
`forwarded`, not of `sent_counter`, which names the next record and may count one
that is never sent.

### Config and ConfigParser

Payloads are sequences of numbers, shorter than three when fields are missing;
what `parsedValues` held before is `StackValues`, a nondeterministic choice, since
the array is not initialised and later rounds find what earlier ones left.
`save_config` is four steps that can each fail or be interrupted. `ConfigParser`
is the scanner itself, one character per step, over every payload of up to six
characters of a small alphabet, against a definition by positions (`Ends`, `Kept`,
`IsText`).
Payloads are assumed to fit the parser's arrays (ten values of nine characters).

### Telemetry

Three temperatures, the thresholds (which `task_config` may change at any step),
the alert, the power states and Queue_state. `Unsigned` is the conversion of the
signed thresholds to the type of the readings. The texts of alerts are kept as
the code produces them: lines 332 and 341 call `printf` where 319 calls
`sprintf`, so a HIGH or LOW alert sends whatever the buffer held before, and
line 314 compares the third temperature with the maximum where the minimum is
meant. Both are visible in the model (`High`, `Low`, `Normal`) and read off the
code; `AlertSettles` says what is left: a lasting low temperature is noticed if it
is one of the first two.

`aws_iot_task` appears as far as this task depends on it: it comes to
Queue_state (`AwsComes`) unless it is connecting (main.c:219-225) or the yield
answers that it is still reconnecting (252-255), and then takes at most one
message (`TakeState`). If it never comes again, a full queue blocks
`task_adc_read` for ever and `energy` and the alert stay what they were, so both
liveness properties have the premise `StateServed`.

### WifiBoot

The driver posts events, the handler takes them one by one; `esp_wifi_connect`
and the clearing of the bit (main.c:75-76) are two steps. `app_main` waits in
`wifi_init_sta` and then creates the tasks; `aws_iot_task` waits for the bit,
connects and subscribes.

### MqttClient

The client's control is followed call by call inside `aws_iot_task`: connecting,
subscribing, the yield loop, `_aws_iot_mqtt_keep_alive`, disconnect, the
reconnect with backoff, the resubscription with its marks, return codes up to the
main loop and `abort()`. A connection is two queues, `outbox` and `inbox`, and a
condition: open, silent (the path is lost and nobody says so), broken (reset, with
or without what had arrived) or garbled (the stream is out of step because
`iot_tls_read` did not report bytes it had taken). The broker answers in order
and publishes what it forwards.

- `aws_iot_mqtt_internal_send_packet` replaces the result of a failed write by
  that of unlocking the mutex (`_ENABLE_THREAD_SUPPORT_` is defined), so `Send`
  always succeeds and only an open connection takes it anywhere.
- A slot is marked, answered and forwarded by number; the SUBACK's packet
  identifier is not compared, as in the code.
- The main loop waits 5 s between two yields and the keep-alive is 10 s; the
  timers are free to expire at any point between two steps. A SUBACK or PINGRESP
  that comes too late over an open connection counts as a fault.
- A packet too long for the read buffer
  (aws_iot_mqtt_client_common_internal.c:450-476) is not on the modelled wire. It
  ends the main loop as a packet in pieces does (`FAILURE`), also over a healthy
  connection.
- QoS 0 publications get no answer and are not on the modelled wire. One
  `Publish` stands for the one or two of a round.
- The callback returns once Queue_config has room; that it has is `Config`.
- One task runs the client, so its mutexes are free.

### ClientService

The abstract specification of the client, from its task's point of view: the
connection is up, lost without the client knowing, or down and known to be; only
a yield makes or gives up a connection; a yield that succeeds leaves a client that
believes itself connected; a publication is refused only when it does not.
`MqttClient` implements it (`ServiceSpec`): the refinement mapping takes the
position of the task (`At`), the state of the client together with the
connection (`Link`), and the code at the points where the task looks at it
(`Code`). A garbled connection counts as lost.

### Delivery

The composition of the parts above, at the grain at which the numbers of the
readings tell them apart. A reading is the number `save_read_data` gave it; the
text its slot holds when it is read, and failing NVS calls, are the subject of
`StoreForward`. What `StoreForward` and `MqttClient` each leave to the other meets
here: `Queue_data` and `sent_counter` on one side, `ClientService`, instantiated
for the client, on the other (`DeliveryUsesService`). Publishing over a lost
connection succeeds (`aws_iot_mqtt_publish`), the buffer is freed
whatever the code says (main.c:265-269), the code of a state message replaces it
(278), and an error ends the boot with whatever is queued. `sent_counter` reaches
the flash on its own (`FlashWriteSent`), since it is set on a handle that is
never committed.

Steps that only one task can see are merged: `ConnBegin` reads both counters,
because only the connector writes the second. `received`, `last`, `passes`,
`dropped` and `resets` are histories; a number that is used again after a reset
leaves `received`, as it then stands for another reading.

### Connector

The abstract specification of `task_connector`: a pass queues the records from
the one after the stored number, or from the first if that number could not be
read (`StartOver`), up to the last one counted when it began, stores
after each the number of the next (or fails to), and forgets where it was at its end
or at a reset. `StoreForward` implements it over the NVS calls (a pass begins
where `saved_counter` is read; a pass with nothing saved, or whose open or first
read failed, is none), `Delivery` over its merged steps. The counters and `Queue_data` are where
the two models overlap, so `Delivery` rests on behaviour that `StoreForward` also
obeys. It allows more than `Delivery` takes: a failing `nvs_get_i32` or
`nvs_set_i32` of `sent_counter` and an erased partition.

### PppClient and PppService

A section of libGSM.c between `xSemaphoreTake` and `xSemaphoreGive` is one step.
What the code reads or writes outside the mutex is a step of its own: the test of
line 624 that waits for the end of a connection, and the assignment of line 684.
`ppp_status_cb` runs in the TCP/IP thread and interleaves with everything; it
passes on two of the errors PPP can end with and drops the others, so `LinkDown`
is reported or not. The modem answers commands in command mode only;
`GSM_Init[..].skip` is the number of commands already answered. Where the
code relies on time the model does too, and says so at the action: a caller that
polls every 10 ms sees a value that stays for a second or longer. At most one
call of each of `ppposInit` and `ppposDisconnect` is under way.

`PppService` is the abstract specification: a connection is opened only while it
is wanted, and the end of a `ppposDisconnect` happens on a closed connection
only. `PppClient` implements it with `wanted` as "no disconnect carried out since
the last `ppposInit`" and an open link as a control block that is coming up,
running or closing.

## 3. Runs

| Run | Bounds | What it shows |
|---|---|---|
| `storage` | ring of 3, 7 saves, 2 resets, 1 failing call | over two laps, committed readings survive and every slot holds a reading of its own |
| `forward` | ring of 2, 3 saves, 1 reset, 1 failing call of the connector, queues of 1 | what a fetch returns, counters stay together, at most one record is skipped; ConnectorSpec is implemented |
| `forward_live` | ring of 2, 3 saves, 1 failing call of the connector, queues of 1 | passes end, complaints included, and the connector keeps up when the client is served |
| `forward_skip` | 3 saves, no faults | finding 1 |
| `config` | queue of 2, 3 payloads, 1 reset, 1 failing call | limits, what a reset brings back, the callback gets through |
| `config_parser` | payloads of up to 6 characters | the scanner finds every field |
| `telemetry` | 3 temperatures, 2 values of each threshold, queue of 2 | reports, `energy` and alert follow the samples |
| `telemetry_low` | a minimum of -3 | finding 2 |
| `wifi` | none: losses and attempts without end | bit, attempts and the way to the main loop |
| `mqtt` | 2 topics, intervals 1 to 4, 5 faults, 2 unread packets | the client's properties, with liveness |
| `delivery` | queue of 2, 4 readings, 1 reset, 1 lost connection | order within a boot, a bound of what is lost, and that one of two consecutive readings arrives |
| `pppos` | 3 commands, 2 tolerated failures, 4 faults | state and link, dialling, the service, calls that return, losses repaired |

Why the bounds are enough. A ring of 2 or 3 with more saves than slots makes the
writer come round, reuse keys and overrun the reader; the key is the only thing
the ring size decides, and the proofs cover every size. One reset and one failing
call may come at any step, so every pair of adjacent calls is split; a second
reset lets a counter be reused twice. Three saves give `forward_live` a last record, which
the pass after may leave out, and two whose going out can be asked for. What two
failing calls and a reset can do to `sent_counter` together is left to the proof. Queues of one or two block after one or two
messages, the case that matters, and are emptied by the same code at any
capacity; the code's own are twice the ring (`N_QUEUE`, tasks.h:22), which makes
blocking rarer and adds no case. Intervals 1, 2, 4 give the backoff three attempts with the last at the
limit, as 1 s to 128 s do with eight. Five faults are enough to lose a
connection, fail to resubscribe, lose the next and still have a late answer.
Two topics make the order and the partial restoring of subscriptions visible
(the firmware subscribes to one). In `delivery` four readings fill the queue,
empty it and fill it again; the bound of `LossBounded` is reached there: without
the one in hand (`resets * DataCap`) TLC finds it violated. In `pppos` three
commands are one that may fail, one behind it and the one that dials, and four
faults make two tasks one after the other, each with a failure and a loss.

Fairness. Every task runs in the end: the tasks have one priority, FreeRTOS
slices time between them, and each loop contains a delay or a wait (the port's
`has_timer_expired` sleeps a tick when polled). So each task's step has weak
fairness, as do the broker and the timers. In `MqttClient` `Check` has strong
fairness for finding the 100 ms of a yield over, since a loop of reads passes it
again and again. What the world decides is a premise of the property
(`LinkServed`, `StateServed`, lasting power, a lasting link) or the part of `ReachableSpec` that
says a broker reachable again and again answers once; `ServesInTheEnd` and
`ServesAgain` are about that case only. `LinkServed` also takes for granted that
the alerts of `task_adc_read` do not get ahead of a waiting complaint of the
connector every time there is room in Queue_state: a receive wakes the sender
that has waited longest, but another task may be quicker, and FreeRTOS does not
exclude that it always is. `ServesAgain` leaves out a stream that
stays out of step for good, where any bytes may look like packets. In `Delivery`
the three tasks are fair and nothing is assumed of power and network; the premise
of `OneOfTwoArrives` (`Served`) is that power stays, the client keeps coming back
to its loop and nothing is lost to an outage or a reset. In `PppClient` the task
and the callers are scheduled, and a link that comes up or is being closed gets
there unless it fails (lwIP's timers see to it); how often the modem fails to
answer is left open. Its liveness properties name, as alternatives, the states in
which the code does wait for ever (`SilentLoss`, `RequestLost`, `Missed`,
`Overtaken`), so the properties say that there are no others.

Some runs do not check for deadlock: `storage`, `config` and `config_parser` end
when their bounds are used up or the payload is scanned, and in `pppos` callers
may wait for ever in the states just named.

## 4. Proofs

TLAPS checks the theorems of the `_proof` modules for every value of the
constants that satisfies the named assumptions (`StorageAssumption`,
`QueueAssumption`, `ConfigAssumption`, `TelemetryAssumption`, `MqttAssumption`,
`DeliveryAssumption`, `PppAssumption`, `ParserAssumption`), which TLC evaluates in the runs.

- **Storage** (`StorageInv`): committed readings survive and the slots are
  congruent. `DurableSurvives` alone is not inductive: it needs where `task_nvs`
  stands relative to the key (`CounterInv`), that nothing durable is above the
  counter, and, for `RecentReadable`, that without failed calls no slot is more
  than one ahead of the counter a reset finds (`AheadInv`). The arithmetic
  (`SlotDistinct`) is that counters less than a lap apart have different keys.
- **StoreForward**: every step is a step of the store or leaves it alone
  (lemma `StoreForwardImplementsStorage`), so the theorems of the store carry over;
  types and queue capacities, `ReceiveAlwaysFinds`, `DriftBounded`,
  `SkipBounded` and `FetchIsExact`, for any number of failing calls.
  `FetchIsExact` rests on `RingComplete`, on the connector's snapshot not passing
  what has been counted, and on a slot never going back to an older record
  (`FreshInv`). `SkipBounded` needs to know how far `sent_counter` may lie ahead of a
  pass (`LeadInv`): before the first reset not past the record after the
  snapshot, and otherwise only as long as a single failed call explains it.
- **Config**: types, limits, what a reset mixes and that between two messages
  flash holds what is in force (`MixesTwo`). The invariant says for each
  position of `save_config` which keys already hold the new values.
- **Telemetry**: types, `PowerReported` and `EnergyFollows`; the strengthening
  is that a pass waiting for room has its message ready (`MessageReady`).
- **WifiBoot**: types, `BitTracksLink` and `AttemptPending`, from `Shape`,
  which lists how the link, the events on their way, the handler and the bit can
  go together, for any number of losses; `StopBitNeverSet` is why boot
  cannot give up.
- **MqttClient** (`Inv`): `Control` says for each position what state and
  code the client has; from it `CodesTellState` and `GivesUpLate` follow.
  `WireStep` sorts all actions into the few things a step can do to a connection
  (nothing, lose it, write a slot, read, ping, the broker's steps, open a new
  one), and `PingStep` and `SubscriptionsStep` are proved over those. `OnePing`
  is inductive given the types of the queues; `ConfigArrives` needs
  `Subscriptions`: marks are empty while a reconnection is pending, a marked slot
  is forwarded or on its way, and so is the slot being waited for. `MqttImplementsService` follows from
  `Control` alone, action by action.
- **ConfigParser** (`ParserInv`): `ScansFields` for payloads of any length over any
  characters. The reference definition names a value by the place of its separator
  among those of the payload, so that the invariant can say of the characters
  passed what the property says of all: the values found are those of the
  separators so far (`Found`), the buffer is the value a separator here would
  end, and `saveNextChar` tells whether a colon is open. `NextPlace` is the lemma
  behind it: a new last position leaves the places of the others. It takes the
  place of an induction over the payload.
- **Delivery**, order: types and `OrderKept`. The invariant is a chain: what was
  last published is below the reading in hand, that below every reading queued, the
  queue increases (`Sorted`), and all of it is below the number the connector
  stands at or will begin from (`Ahead`). The last link is why the order
  outlives passes: `sent_counter` is stored past every record queued.
- **Delivery**, losses: `LossBounded`, and `GapsAreSingle`: as long as nothing is
  lost to an outage or a reset, no two readings one after the other are missing,
  which is the safety half of `OneOfTwoArrives`. `LossBounded` is not inductive:
  the connector passes a record when it queues it and stores that afterwards
  (main.c:500-503), so the invariant counts from the number it will store
  (`Reached`), and it leaves out arrivals above `saved_counter`, whose numbers will
  be used again (`Lost`). Every step loses nothing more (`KeepsLoss`), loses one
  reading and counts it (`OneMore`), or is a reset, which loses at most `DataCap`
  queued readings and one in hand (`OneReset`). The hard case is a reset that takes
  back the last count: either the broker had nothing under that number, or that
  reading was the last one published (`SavedOrder`), and then, by the chain above,
  nothing was on its way.
- **Connector**: `StoreForwardImplementsConnector` and
  `DeliveryImplementsConnector` (`ConnectorSpec` of each). Every action of the two models
  is an action of `Connector` under the mapping or leaves it alone. The first
  needs from `ConnInv` that a record is queued and a number stored only in a
  pass of a nonzero snapshot, and that a failed read of it leaves none, and from `StorageInv` that the writer counts by one;
  both need that flash is never ahead of the counter, for the reset.
- **PppClient**: types, `StatusTellsLink`, `ConnectsDialled` and that the client
  implements `PppService` (`PppImplementsService`). The invariant adds, for each
  position of the task, what link, modem and request can be (`TaskLink`), and how
  far the callers can be meanwhile (`TaskCallers`).

`SlotCongruent` and `RingComplete` of the ring, `EnergyFollows`,
`ReceiveAlwaysFinds`, `CodesTellState`, `NoTwoMissing` and the `ConnectorSpec` of
`Delivery` are proved and not listed with a run.

Every safety invariant and action property of the runs is proved. Only
model-checked are the liveness properties (TLAPS has no ENABLED) and the
violations.

## 5. Findings

1. `forward_skip`: `task_connector` stores the next record to send (main.c:502-503)
   and increments it again when it reads it back (483). One saved record is
   skipped between two passes that send. `SkipsAtMostOne` shows it is never more.
2. `telemetry_low`: signed minimum, unsigned temperatures (main.c:338). With a
   minimum of -10, as in the example payload at main.c:39, every temperature is
   low, alerts are raised at once and never withdrawn.

Read off the code while modelling, without a violation run of their own:

- main.c:142-143 describes a bit set after the maximum number of retries. Nothing
  sets it: boot waits without limit (`StopBitNeverSet`).
- aws_iot_mqtt_client_interface.h:287 promises `CLIENT_STATE_PENDING_RECONNECT`
  after a failed reconnect. When the failure is in the resubscription the client
  stays in RESUBSCRIBE_IN_PROGRESS, which counts as connected, and keeps writing to
  a connection that may be gone until the backoff runs out and the board aborts;
  `SilenceNoticed` and `ServesAgain` show that this restart gets it out.
- When `nvs_get_i32` fails on `sent_counter` alone, `task_connector` sends every record
  from the first on again and stores their numbers (main.c:475-504); the slots of
  those the ring has overrun hold later records, which go out in their place.
- `printf` for `sprintf` (main.c:332, 341); the third temperature compared with
  the wrong limit (main.c:314), so that a low third sensor alone does not keep an
  alert; a minimum above the maximum can be configured by two messages each within
  its limits (main.c:419-429).
- libGSM.h:72 describes `GSM_STATE_IDLE` as the task waiting for a reconnect. The
  state is IDLE also before a connection is attempted (libGSM.c:605) and during
  the ten seconds before a new attempt (684). `ppposDisconnect` returns at
  once then, having done nothing, and the connection comes up after it.
- A connection that ends with an error `ppp_status_cb` drops is never repaired
  (`SilentLoss`).
- `ppposInit` called while a disconnect is carried out is forgotten (its request is
  overwritten at libGSM.c:653) and waits for ever (`RequestLost`); called
  between a request and its being taken, or between its end and the caller's next
  look, it makes `ppposDisconnect` wait for ever (`Overtaken`).
- `ppposInit` waits for ever if the task could not be created (the result of
  `xTaskCreate` is not looked at) or ended before the first look, 10 ms later
  (`Missed`); `ppposDisconnect` waits for ever if there is no task.
- The task leaves the UART driver installed and `ppp` pointing to the freed
  control block when it ends. What a second `uart_driver_install` returns is left
  open in the model; if it is an error, the second task ends at once.

## 6. Plan

Done, in this order: Storage, StoreForward, Config, ConfigParser, Telemetry,
WifiBoot, MqttClient with ClientService, PppClient with PppService, Delivery,
each with its runs and its proofs, and Connector, which the two that send readings
implement.

Next:

1. `Delivery` shown to be implemented by `StoreForward` and the service
   together, not only in what they say of the connector.
2. The order of the message list that `smsRead` returns, as a pure algorithm.

Not modelled:

- TLS and certificates (mbedTLS), the JSON formatting of readings, the access
  point events of the WiFi handler (never posted in this configuration),
  `task_led` and `task_lte`, which share no state.
- Device shadow, jobs, unsubscribe, QoS 1, manual disconnect and calls of the
  client from several threads: vendored, and the firmware calls none of them.
- `gsm_RFOff`/`gsm_RFOn`, the byte counters and the SMS functions of libGSM.c: texts
  exchanged with the modem and parsed, about which no other part asks. Nothing
  calls libGSM.c in this build (`LTE_READY` is false); its connection is modelled
  because it is the one part of the library with several threads.
- What `parserJsonIntValues` does with payloads longer than its arrays
  (storage.c:138), and a reading that mixes two samples (main.c:401): the first
  depends on the layout of the stack, the second on the copy of a struct, and no
  other state depends on either.
- Everything under `.pio` and the SDK's platform ports, samples and
  tests: code of other projects that the firmware downloads and mostly does not
  build. It is most of the lines of the repository; the models cover the
  firmware's own sources and the part of the SDK it runs.
