# Verification of the W600 demo firmware

W600Demo is a firmware for the W600 Wi-Fi chip: FreeRTOS and lwIP 2.0.3 from the vendor's SDK
(`src/WM_SDK_60X`, 1126 of the 1172 files), and on top of them an MQTT gateway of its own
(`src/*.c`, `src/appstack`, `src/lib/MQTT`, `src/rc`). These modules model the firmware's own
logic and the parts of the SDK its correctness rests on: the socket table and the DHCP client of lwIP,
the system task, the NTP client, the parameter store and the timers of FreeRTOS.

The hard part is not in any one function. Three tasks share sockets and a client structure, `recv()`
blocks for ever whatever timeout its caller has, a driver, a protocol thread and a task pass each other
messages about an interface, the power may go at any moment, and counters wrap.

## Inventory

| Component | State | Operations | Interacts with | What makes it correct |
|---|---|---|---|---|
| MQTT session: `appstack/MQTT.cpp`, `lib/MQTT/MQTTClient.c`, `MQTTFreeRTOS_LWIP.c` | `mqttclient` (isconnected, ping_outstanding, next_packetid, handlers, timers), `mqttserver.my_socket` | receive task: NetworkConnect, MQTTConnect, MQTTSubscribe, MQTTYield, closesocket; ping task: mqtt_ping; callbacks that publish | lwIP, the broker, the SMGS adapter | `isconnected` tells the truth about the connection; requests come after CONNACK; a dead connection is left |
| Descriptors: `lib/MQTT/MQTTFreeRTOS_LWIP.c`, `ntp_client.c` over lwIP's `sockets.c` | the table of eight sockets, `my_socket`, `s[3]` of `open_connect` | socket, connect, send, recvfrom, select, closesocket | the three tasks through reused numbers | nobody closes or reads another's socket; no descriptor is lost |
| NTP clock check: `ntp.c` | `last_check_tick`, the real-time clock | ntp_loop, check_time | tick counter, `tls_ntp_client`, `tls_set_rtc` | checks are on time though ticks wrap; the clock is set to a valid time |
| NTP server list: `ntp.c`, `ntp_client.c` | three parameters | ntp_init, tls_ntp_set_server | parameter store | the configured servers are the stored ones |
| Parameter store: `wm_param.c` | two flash partitions, the cache `flash_param`, `sram_param` | tls_param_init, _get, _set, _to_flash, _to_default | flash, every task | a save is atomic, whenever the power goes; the newest image is loaded |
| Packet reader: `readPacket`, `decodePacket` of `MQTTClient.c`, `FreeRTOS_read` | readbuf, the length read so far, three timers | MQTTYield's loop | lwIP's byte stream, tick counter | no overrun; packets are read from their first byte; none is given up too early |
| Timers: `tasks.c`, `MQTTFreeRTOS_LWIP.c` | tick count, overflow count, `TimeOut_t` | vTaskSetTimeOutState, xTaskCheckForTimeOut, TimerLeftMS | every task | a timer has run out exactly when its time is over, across a wrap |
| Wi-Fi network manager: `wifinetwork.c`, `wm_ethernet.c` | `wifinet_status`, registered callbacks | init, deinit, status events | Wi-Fi driver, DHCP client, system task | the status agrees with the link |
| System task: `tls_sys.c` | a queue of 20 messages, flags of the interfaces, DHCP and DNS servers of the access point | the message of the boot, sys_net_up, sys_net_down, sys_net2_up, sys_net2_down, tls_auto_reconnect | driver and lwIP through its callback | the interface follows the link although messages are late or lost |
| DHCP client: `dhcp.c`, changed by the SDK | `struct dhcp`: state, tries, four counters of 16 bits, request_timeout; `dhcp_timeout_flag` | start, stop, offers, acks, naks, two timers | system task, servers, status callbacks | an address goes with its lease; nobody waits without a timer |
| SMGS adapter: `appstack/MQTT_SMGS.cpp` | `gateway_context`, the configuration | init, connect, message, disconnect callbacks | MQTT session | publishes only in a session |
| Main task: `main.c`, `appstack/app.cpp` | none | start-up, then app_loop and ntp_loop for ever | all | never stops |
| Resource files: `rc/RC.c`, `fsgen.cpp` | a constant table | lookup by name; generator | main, SMGS | every file is found under its name, with its bytes |

Behaviours that are hard here, and the hazards they lead to (all are listed with their lines in
`PROJECT.json`):

* *Concurrency behind a lock that does not separate.* `MQTT_TASK` is defined (`CMakeLists.txt:120`), so
  MQTTConnect, MQTTSubscribe and MQTTPublish take `client->mutex`; but MQTTYield and the ping task do
  not, so the mutex keeps nobody out except a callback of the task that holds it: it is not recursive. The
  ping task reads `isconnected` and writes the socket some steps later.
* *Blocking.* `LWIP_SO_RCVTIMEO` is off and the `setsockopt()` calls are commented out, so a
  timeout of the library is looked at only between two `recv()`.
* *Late and lost messages.* The system task handles a message when the state it tells of may have changed. A
  message needs memory and a place in the queue, and nobody hears of it when one of them is missing
  (`tls_sys.c:414-421`).
* *Reused numbers.* lwIP gives a freed descriptor to whoever asks next; `open_connect()` closes its
  descriptors twice.
* *Power cuts and failing flash* in the middle of a save, of a restore and of a reset.
* *Numeric edges*: the 32-bit tick counter, the 16-bit modify count, leases of 32 bits in counters of 16,
  packet ids, the 7-bit year.
* *Partial failure*: a second query that fails after the first one, a callback's publish whose result
  is ignored, a closesocket() that is refused, a body that comes in pieces.

## Modules

| Module | Models | Composed with |
|---|---|---|
| `GatewaySession` | abstract: what the rest of the firmware may rely on | |
| `MqttSession` | receive task, ping task, client library, one connection, broker | implements `GatewaySession` |
| `MqttSession_proofs` | proofs about `MqttSession` | |
| `SocketTable` | lwIP's descriptors, and the three tasks that use them | |
| `SocketTable_proofs` | proofs about `SocketTable` | |
| `ParamRegister` | abstract: a register with atomic saves, and resets that may be cut | |
| `ParamStore` | parameter store over two flash partitions | implements `ParamRegister` |
| `ParamStore_proofs` | proofs about `ParamStore` | |
| `NtpClock` | the clock check of the main task | |
| `NtpClock_proofs` | proofs about `NtpClock` | |
| `NtpServers` | the server list over boots and updates | uses a call of `ParamStore` as one step |
| `NtpServers_proofs` | proofs about `NtpServers` | |
| `TickTimer` | tick counter and timers, as operators | |
| `PacketReader` | reading packets from a stream of bytes | extends `TickTimer` |
| `PacketReader_proofs` | proofs about `PacketReader` and `TickTimer` | |
| `AddressLease` | abstract: what the DHCP client promises the system task | |
| `DhcpClient` | the DHCP client | implements `AddressLease` |
| `DhcpClient_proofs` | proofs about `DhcpClient` | |
| `WifiNetwork` | driver, callbacks, system task and status, station and access point | composes `AddressLease`, action by action |
| `WifiNetwork_proofs` | proofs about `WifiNetwork` | |

Definitions whose comment begins with "mutated form" are faulty variants of the definition after
them. No specification uses them; each shows that some property notices such a fault.

### MqttSession

`stage` is the place of `mqtt_receive_task` in its loop: *config*, *netconnect*, *connect*,
*subscribe*, *online* (the connect callback), *yield*, *close*. `calls` is the stack of library calls
it is in, outermost first: a message callback runs inside `cycle()` and may publish, which runs
another `cycle()`, and so on. A call is at *lock* (it waits for `client->mutex`), *send* (`sendPacket`), *cycle*
(`readPacket`), *ack* (the acknowledgement `cycle()` sends), *keepalive*, or *test* (the end of the
loop of `waitfor` or `MQTTYield`). A step ends where a task may lose the CPU: at a call of lwIP.

The mutex needs no variable: only the receive task takes it, and it is held by every call of `calls` but
MQTTYield (`MutexHeld`). A callback that publishes while it is held (`Nested`) stays at *lock* for ever.
As a publish of QoS 0 waits for nothing, and a publish of QoS 1 or 2 holds the mutex while it waits for its
acknowledgement and may meet another message there, calls nest three deep and no deeper (`AtMostThreeCalls`, proved
for every QoS and any number of messages): the stack of the task has 8 KB (`MQTT.cpp:276`).

A connection is `link` (closed, open, dead, reset), `eof`, and the packets under way in each
direction, `up` and `down`. `PeerVanishes` loses packets of both directions, `ConnectionReset` and
`BrokerCloses` end the connection in the two other ways TCP knows. `send()` on a full buffer waits;
while one task waits in `send()` the other's fails (`ERR_INPROGRESS`), hence the argument of
`WriteFails`.

Timers are the moments at which they run out: `CallTimeout` for the timer of a call, `KeepaliveTimeout`
for `last_sent` and `last_received`, `PingTimeout` for keepalive/2 in the ping task. They may run out at
any time, with one exception: between arming a command's timer (3 s) and sending its packet no task is
starved that long.

The broker answers, refuses, publishes, ends the connection, or does nothing; before CONNECT it does
nothing but close. Packets are a type, one argument (QoS or return code) and an id.

What the model leaves out: the bytes of packets and their reading in pieces, which is `PacketReader`'s;
topics, and with them `isTopicMatched` (one subscription, one handler); the will and the credentials;
`closesocket()` always succeeds here (`SocketTable` has the refusal).

| Run | Bounds | Distinct states |
|---|---|---|
| `session` | replies and subscription of QoS 0, 2 packets up, 1 down; `FairSpec` | 100,728 |
| `session_qos` | QoS 2, session kept, unknown packet types, 1 up, 1 down | 2,508,572 |

Both directions hold at least one packet while another is being written, so a ping and a request, or an
answer and a message, can cross. Packet ids run to 2, so they wrap. Theorems, below, hold for all values of
these bounds. The first run holds its replies at QoS 0 because with more the receive task may wait for
itself, and then nothing that has to happen happens any more; the second has that, and shows that what it
checks holds all the same.

*Safety.* `SessionOnItsConnection`, `AtMostOneStalePing`, `RequestsAfterConnack`,
`PingOutstandingInFlight`, `NeverWaitsForItself` and the refinement `ImplementsGateway`. *Liveness.*
`DeadPeerNoticed`, `ResetNoticed`, `EofNoticed`. Deadlock is not checked: with no packet, no timer and no
peer, every task may wait in `recv()`, which is what the code does.

*Fairness* (`FairSpec`): the two tasks have the same priority and FreeRTOS runs equal ones in turn, so
each is weakly fair; ticks advance, so timers run out; TCP, after its retransmissions, reports a
connection on which it has unacknowledged data. Nothing is assumed of the broker.

### SocketTable

`sockets` is lwIP's table: to each descriptor, whose netconn it is and what it is doing (idle,
connecting, up, inside a `send()` that waits). `old` and `dropped` are history variables. The other
variables are the places and locals of the three tasks; `s` is the array of `open_connect`, with its stale
numbers. Every call of lwIP is one step, which is sound because the TCP/IP thread runs one message at a
time, and necessary because the caller waits for it.

Run `sockets`: 4 descriptors, 2 servers, 3 tries, sends that may block; 1,304,179 states, no deadlock. Four
descriptors are one for MQTT, one lost to a refused close (the receive task closes the socket in whose `send()`
the ping task waits), and two for the query, so that every number can be handed on and the table be full; three
tries give two closings in a row and a use of what they left. The code has 8, 3 and 4: `Held` and
`EstablishedSurvives` are proved for all.

### ParamStore

`flash` is an image per partition: whole or not, count, parameters. `flash_param` is the cache, which
`param_to_flash()` changes *before* it writes; `sram_param` is memory. `pc` runs through *ready*, *write*,
*erased*, *verify*: `tls_fls_write` (`wm_internal_fls.c:613-741`) erases first, or skips that for a blank sector, and
then programs; it may fail before, or at any step. `PowerLoss` may come at every one. `todo` and `fresh`
are what `tls_param_init` and `tls_param_to_default` have still to write. One call runs at a time, because
all take `sys_param_lock`; `tls_param_to_default` does not, and its overlap with other calls is left out.
Also left out: `updp_mode` (the factory's tool), images of another length, the erase of the restore sector
before the second reading (it only makes reading be tried again), and `tls_param_init` after a reset.

| Run | Question | Switches | Distinct states |
|---|---|---|---|
| `params` | is a save atomic, and what may a cut reset leave? | resets, no failure, no wrap | 10,517 |
| `params_fails` | does a failed write spoil later saves, or take what was saved? | writes fail, no reset, no wrap | 72,476 |

`ParamRegister` says what callers may rely on: `Set` changes memory, `Save` changes what the next power-on
loads, `Restart` loses memory and nothing else. A reset is not one step: `Reset`, `Resetting`, `ResetEnds`.
It writes a count of one over the first partition, then over the second, so a power cut between the two
may bring back the image that was there *besides* the newest one (`previous`). When it ends, the
factory settings are stored.

`unverified` is a history variable: how many writes were begun since one was verified, counted to two. With it
`params_fails` asks what a failed write costs, as the next save then goes to the partition that has the last good
image (`wm_param.c:304`). `LostAfterTwo`: both images are damaged only if two writes in a row were cut off or
refused, whatever restarts and repairs lie between them. The code does lose both then; where nothing is stored yet, and
from the moment a reset gives up what was saved until its first write is verified, the property promises
nothing. `CacheIsStored`: if the last write was verified, the cache, with which a save compares memory to
see whether there is anything to write (`wm_param.c:1143`), is what the next power-on loads.

In `params_fails` the two parameters are AUTO_TRIGGER_PERIOD, whose case in `param_to_flash()` has no
`break`, and DEBUG_MODE, which is stored with it (`Copied`); in `params` they are two others.

Two parameters with two values tell an old image, a new one and a mixture apart. `CountRange` is 8, and
`MayCount` stops before the count wraps: after a reset it starts at 1, each save or restore adds one, and
seven writes in a row pass through every relation of the two counts (equal after a first boot, one
partition ahead, the other, restored by copy).

### NtpClock

The main task's loop: `AppLoop` (vTaskDelay, and what tasks that come before it take, up to `Delay`
ticks), `NtpLoop`, and for a check `FirstQuery`, `SecondQuery`, `Checked`. `elapsed` is real time since the
last check, which the code does not have: properties compare it with what the wrapping difference of ticks
decides. Of a time only the year is kept; the eight hours the SDK adds and `check_time` subtracts cancel,
and are left out. In the code `Interval` is at most 600,000 s at 500 ticks a second (`ntp.Kconfig`,
`configTICK_RATE_HZ`), far below 2^32, which is what `TickAssumption` asks for.

Run `clock`: the counter wraps at 16, interval 5, delay up to 3, a query up to 4 ticks; 4,272 states. Every
pair of ticks occurs, and so does a check that ends at tick 0, which the code takes for no check at all
(`NotEarly` names that exception). `ClockIsSet` uses weak fairness of the main task, whose priority (32) is
above that of the MQTT tasks (33).

### NtpServers

`stored` are the three parameters as memory has them, `list` the firmware's configuration. A call of
`tls_ntp_set_server` is one step, which `ParamStore` justifies. It refuses a name that is too long (`TooLong`);
an allocation or a write may fail (`SetServerFails`), of which `ntp_init` takes no notice, and what the next
restart then finds in flash may be anything (`Loaded`). `Restart` may come between two calls, `Update` changes
the list one place at a time. `failed` and `boots` are history: whether something has failed since the last
restart, and how many boots in a row have ended without that. A name of exactly 32 characters is left out: it
is let through (`ntp_client.c:228`) and its terminating zero lands in the next parameter.

Run `servers`: 5 servers, one of them too long; 70,784 states. Names are only compared, and
a chain of servers that push each other out is longest with the three names of a list in other places and one
name that is not in it: four, and one that is refused. The theorems are for any set of servers.

### TickTimer and PacketReader

`TickTimer` has a clock of two counters of fixed width, as `vTaskIncrementTick` keeps them, and a timer as
`xTaskCheckForTimeOut` sees it: how long to wait (`xTicksToWait`) and since when (`TimeOut_t`). `Checked` is
what a check leaves in it: the wait gets shorter and the start moves to now, except when the time is
over.

`PacketReader` follows the receive task through MQTTYield (`pc`): *start* and *header* (the first byte),
*length* (`decodePacket`), *body*, *test* (the loop of MQTTYield), *closed*. Three timers are armed from
each other: that of MQTTYield; `timeout`, the ticks `decodePacket` gives to each digit; and `read_timer` of
`FreeRTOS_read`, which looks at it only after a `recv()` that was too short. The stream is `wire`, not yet
here, and `received`. A byte is the set of values the reader may find in it: one value for a digit of a
length, any for another, which matters once the reader is out of step; and the number of bytes of its packet
that follow, which is history. After FIN `recv()` returns 0 again and again (`Spin`), after RST an error,
and bytes that are here are lost.

Run `packets`: digits to the base 2 instead of 128, lengths 0, 2 and 3, readbuf of 5, so that lengths have one
digit or two, and a packet fits into readbuf or is too long by one byte; MQTTYield waits for 2 ticks of a counter
that wraps at 4 and is followed for a whole turn; 8 bytes, enough for a packet and the beginning of the next;
2,008,008 states. The proofs are for all bases, lengths, buffers and widths. `InStep` says what the reader
does not: a body that was given up (`cut`) leaves it in the middle of a packet, whose rest is read as packets.
`CutTakesATick` says when that may not happen.

### AddressLease and DhcpClient

`DhcpClient` has the fields of `struct dhcp` in `client`; the handlers are operators on it, under their names in
`dhcp.c`, in the order in which the code calls them, because `dhcp_set_state` clears timer and tries only when
the state changes. `armed` is `request_timeout # 0`: how long it is does not matter, since it may run out
before or after any tick of the coarse timer. `T1` and `T2` are the two times of an acknowledgement with the
32-bit arithmetic of the code (seven eighths of a lease overflow), `Coarse` rounds and cuts to 16 bits. All of
the client runs in the thread of lwIP, so a handler is one step; the calls of the system task (`NetUpClear`,
`NetUpRaise`, `NetUpStart`, `NetDownStop`, `NetDown`) come in between.

`AddressLease` forgets states, tries and timers: `phase`, the ticks `left` of the lease, and `told`, the last
report. The refinement mapping is `Phase` and `Left`. What it says: an address is there only as long as its
lease runs, each new address is reported, and a search without an answer ends with a report. That a lease was
lost is not promised to be reported, because it is not.

Run `dhcp`: 52,860 states. Integers of 12 bits instead of 32 and counters up to 40 instead of 65,535, so that
each kind of lease is there: one shorter than two ticks (10), two that fit (200 and 360), one that is cut to 40
ticks and of which seven eighths overflow, so that it is rebound before it is renewed (600), and the infinite
one (4095); servers that give times of their own, and none. `NoMemory` is a search that `dhcp_start` could not
begin; the system task does not look at its result. `WaitsWithTimer` is about the SDK's change of
`dhcp_discover`, which returns at the eleventh try without setting a timer. `AddressNotKept` uses weak fairness
of the two timers of lwIP and nothing of servers or of the system task.

### WifiNetwork

Two callbacks are called for every report, in the thread of whoever reports: `tls_sys.c` queues a message
(`tls_sys_send_msg`) and `wifinetwork.c` changes the status. Three actors run between them: the driver (`link` of a
station, `softap` of an access point), the DHCP client, whose actions are those of `AddressLease` (`Netif!...`) with
its reports added, and the system task, in the pieces between which another thread sees its work.

A message is allocated before it is queued. `tls_sys_send_msg` may lose it at any length of the queue,
and no other thread hears of it; so may the client and the servers of the access point get no memory. `starved` is
history: the interfaces for which memory was missing since they were last taken down. The properties say what
holds of the others, which makes two claims: that missing memory is the *only* thing that leaves an interface
behind the driver, and that the next time it is taken down makes every loss good.

Station and access point exist side by side, because the firmware mixes them: at every boot `task_start`
(`wm_main.c:304`) tells the system task to connect (`AUTO_MODE_RUN`), and after a failure of either
`tls_auto_reconnect` does the same. Both look at the parameter WPROTOCOL, which nobody changes from its default, a
station; so they ask for a station with the network of the parameters, if there is one (`stored`), in access-point
mode, too. What becomes of that is reported like any other connection, and sets the same `status`.

The driver is a binary; what is assumed of it stands at the head of the module. In short: a request is answered
once, after the system task has handled what was queued before, and at boot after `wifinetwork_init()`; what was
connected is lost with one report; an access point is refused, if it is, before a station can have connected. Stations
may leave an access point that is closed already. `GiveUp` assumes that ten tries of the DHCP client, more than
a minute, take longer than the system task needs for one message. The flag of `tls_wifi_auto_connect_flag()` is taken
to be on, as the firmware never changes it. Where no network is stored, nothing asks for an access point again
after it was refused or closed, so the system may stop there and deadlock is not checked.

Run `wifi`: 2 addresses, leases up to 2, 2 stations, and a queue of 3 messages instead of 20 (`SYS_MSG_SIZE`), so
that it fills; 123,894 states. The theorems are for every length. *Safety:*
`UpAfterDown`, which is what `AddressLease` and `DhcpClient` take for granted of the system task, and which holds
whatever is lost; `InterfaceFollowsLink`, `AccessPointFollowsLink`. *Liveness:* `Reconnects`, `LossNoticed`, under weak
fairness of the system task, of the driver's answers (`Joins`) and of the end of a search (`SearchEnds`, which
`DhcpClient` justifies: ten tries at most).

## What is checked

Every run, its properties and what it shows are in `PROJECT.json`; every property has a mutant, a
plausible bug in a mapped definition, which the run finds.

Two runs end in a violation; each shows where the code does not do what a comment says:

| Run | The code |
|---|---|
| `socket_closes` | open_connect() closes its descriptors twice: it may close a connection MQTT has just made |
| `clock_valid` | a second query that fails sets the clock to 1970 |

The models show more of this kind, without a run of their own; in each case the property that is checked says
what does hold:

* MQTTConnect does not end when its time is over ("we timed out", `MQTTClient.c:402`): `recv()` in
  `MQTTFreeRTOS_LWIP.c:106` blocks, and the ping task, which would notice a dead peer, waits for `isconnected`.
  `DeadPeerNoticed` is about sessions.
* `tls_param_to_flash()` with TLS_PARAM_ID_ALL returns success without writing when memory equals the cache
  (`wm_param.c:1143`), and so it does after a failed write, which has changed the cache before. `CacheIsStored`: only
  then.
* One boot may leave a configured server out of the store: `tls_ntp_set_server()` (`ntp_client.c:246`) returns
  success when the server is stored in any place, and a later call may write over that place.
  `ThirdBootConfigures`: the third boot in a row in which no
  allocation and no write fails has them all, but those refused for their length.
* A publish with QoS 1 or 2 inside a callback does not "wait for all acks" (`MQTTClient.h:162`) if a message is
  read meanwhile whose callback publishes: that publish waits for the mutex its own task holds.
  `NeverWaitsForItself` is checked and proved for replies of QoS 0.
* "note that the rebind timer (t2) will eventually time-out if renew tries fail" (`dhcp.c:555`): not after a NAK
  that takes an infinite lease away. Its t1 and t2 run on in the next search, where t2 may run out without
  effect, and t1 may then make a renewal of the new request, which no timer ends. `AddressNotKept` is about
  clients that hold an address.
* `is_sta_ip_ok` ("whether the client has been given an address", `wifinetwork.h:34`) stays set when a lease is
  lost. `LossNoticed`: not for ever.
* "read the rest of the buffer" (`MQTTClient.c:133`): a body that comes in pieces more than MQTTYield's time apart is
  given up, and the rest of it is read as new packets. `InStep` and `CutTakesATick`.
* A message to the system task that finds no memory is dropped (`tls_sys.c:414`): after a lost NET_DOWN the
  interface stays up and nobody connects again; after a lost NET2_UP the access point runs without interface and
  servers. `InterfaceFollowsLink`, `AccessPointFollowsLink` and `Reconnects`: nothing else does that.
* In access-point mode with a network in the parameters a station connects as well, and its JOIN_SUCCESS or
  JOIN_FAILED overwrites the whole status (`wifinetwork.c:57-69`): `is_ap` and `is_ap_running` are 0 although the access
  point runs. Hence only one direction of `status.is_ap => softap = "running"` is claimed.
* After SOFTAP_FAILED `tls_auto_reconnect` asks for a station (`tls_sys.c:291`), never for the access point again.
* `is_ap_running` may be set after the access point was closed, by a NET2_UP that was still queued, and
  `softap_sta_num` goes from 0 to 255 when a station leaves after the status was set to zero (`wifinetwork.c:43`).
* From 65535 the modify count goes to 0 (`wm_param.c:283`), and the next power-on loads the older image
  (`wm_param.c:396`). The properties of the store are stated below the wrap.
* A check of the clock that ends at tick 0 is taken for none (`ntp.c:75`), and the next comes at once. `NotEarly`
  excepts it.

## What is proved

All theorems hold for every value of the constants that satisfies the named assumptions of the module
(`ASSUME`), which say no more than that the constants are of the right kind, that packet ids have at least two
values, that the queue of the system task has a place, that some server's name is not too long, that MQTTYield
waits for at least one tick and not for ever, and for `NtpClock` that `Interval + Delay` fits into the counter.

* `MqttSession_proofs`: `TypeCorrect`, `SessionCorrect`, `StalePingsBounded`, `RequestsOrdered`,
  `PingUnderWay`, `NoSelfWait` and `Refinement` (`Spec => ImplementsGateway`). None of the properties is
  inductive. `IInv` adds how the stage
  and the stack fit (`CallsFitStage`: the outermost call is that of the stage, every other a publish, and
  MQTTConnect is never nested), what each stage knows of the connection (`ConnectionFitsStage`), that
  nothing but a refusal is heard from a broker that has not accepted (`HeardBeforeSession`,
  `ReadBeforeSession`), and that stray packets and the ping task's pending write together are at most one
  before CONNECT (`PingsBeforeConnect`). `NoSelfWait` needs besides that publishes of QoS 0 are left at their
  `send()` (`PublishesAtOnce`) and that no handler is there while MQTTConnect or MQTTSubscribe holds the mutex
  (`HandlerAfterSuback`); `NestingBounded` (`AtMostThreeCalls`), that the third call stands at the mutex;
  `PingUnderWay`, that what it says holds between two calls, too (`PingFollowed`).
* `SocketTable_proofs`: `TypeCorrect`, `NoLeak` (`Held`), `QuerySparesSession` (`EstablishedSurvives`).
  `IInv` says what each place of a task knows about the slots its numbers name (`SlotsConsistent`,
  `MqttKnows`, `NtpKnows`), and `NtpNamesNothingOlder`: no number of a running query names a connection
  that is older than the query, because the numbers were free when it got them.
* `ParamStore_proofs`: `TypeCorrect`; `OneLossIsSurvived` (`LostAfterTwo`) without any assumption (`LInv`: who
  writes one partition has the other one whole, unless the write before went wrong as well, and a partition that was
  verified is whole until it is written again, `OneIsWhole`); `SavesBoot` and `SkippedSavesAreStored`
  (`CacheIsStored`) without wrap and reset, though flash fails (`FInv`: no
  image is newer than the cache, and two images of one count are equal); `StoreIsRegister` and
  `LastIsLoaded` (`LoadsLatest`) with resets, as long as no write fails and the count does not wrap, the
  former without AUTO_TRIGGER_PERIOD among the parameters. Their `IInv` says how far a reset has come
  (`ResetPhases`), that an image with a count of one has the factory settings (`CountsFromOne`), that between
  two writes flash has the cache and nothing newer (`CacheIsWritten`), and that the partition a save destroys
  is never the newest whole one (`NewestIsKept`). None of these assumptions can be dropped: from 65535 the
  count goes to 0 and the older image is loaded; a failed write leaves the cache ahead of flash;
  a reset after a failed write may leave the other partition with a greater count;
  and AUTO_TRIGGER_PERIOD takes DEBUG_MODE with it.
* `NtpClock_proofs`: `TypeCorrect`, `NeverOverdue` (`Punctual`), `NeverEarly` (`NotEarly`). The invariant:
  in the loop the difference of the ticks modulo the wrap is the real time since the last check.
* `NtpServers_proofs`: `TypeCorrect`, `ThirdBoot` (`ThirdBootConfigures`), `NoMoreWrites`
  (`BootsWithoutWriting`). `IInv`: each boot that does not find all servers stored settles one more in its own
  place, out of which no call pushes it, or finds it refused (`Settled`, `SettlesOne`); after a failure nothing is
  known until the next boot.
* `PacketReader_proofs`: `TypeCorrect`, which has that no packet overruns readbuf; `TimerExact`
  (`TimerIsExact`); `CutNotAtOnce` (`CutTakesATick`); `ReaderInStep` (`InStep`). `IInv`: what MQTTYield's timer
  had left at its last check and the ticks since then are its age (`TimerFollowsAge`, with `Leads` for ticks
  over a wrap), and the timer of a body was armed in this tick or a tick has passed (`FreshReadTimer`). `InStep`
  needs another invariant, `Aligned`, because between packets it says nothing of what is to be read: whatever is
  here and under way is whole packets one after the other behind the rest of the current one (`Framed`), the
  digits read so far are the first ones of a length that was sent (`DigitsOf`), and a body is as long as the
  reader takes it to be. The step from one digit to the next is the lemma `DigitRead`: `rem_len` is the sent
  length modulo `multiplier`, which rests on quotient and remainder being unique, and after the last digit it is
  the length.
* `DhcpClient_proofs`: `TypeCorrect`, `TimerOrReport` (`WaitsWithTimer`), `Refinement` (`ImplementsLease`).
  `IInv`: a lease that has an end has not come to it (`LeaseRuns`), which states have an address
  (`AddressFitsState`), and the client runs only on an interface that is up while the system task does something else
  (`RunsWhenUp`).
* `WifiNetwork_proofs`: `TypeCorrect`, `DownBeforeUp` (`UpAfterDown`), `CaughtUp` (`InterfaceFollowsLink`),
  `ApCaughtUp` (`AccessPointFollowsLink`), all with messages lost at any time. `IInv`: only reports of losses stand
  behind another message, so an answer of the driver is the first (`AnswersFirst`); for the station, how far its
  interface is (`StationPlace`) and that a lost connection and a client that has given up have a message under way
  that takes the interface down, unless memory was missing (`StationFits`); for the access point the same between
  its interface, the messages about it and the driver (`ApFits`). A loss has to be part of the invariant because it
  outlives the queue: the interface is wrong until it is next taken down.

Only model-checked: the liveness properties (`DeadPeerNoticed`, `ResetNoticed`, `EofNoticed`, `ClockIsSet`,
`AddressNotKept`, `Reconnects`, `LossNoticed`), which the provers do not handle. Every other
property of the passing runs has a theorem.

## Plan

1. Done: `MqttSession` with `GatewaySession`, `SocketTable`, `ParamStore` with `ParamRegister`, `NtpClock`,
   `NtpServers`, `PacketReader` with `TickTimer`, `DhcpClient` with `AddressLease`, and `WifiNetwork`, each with
   its proofs.
2. `TopicMatch`: `isTopicMatched` and the handler table, against a definition of MQTT's wildcards, over all
   short filters and topics; the message a second handler sees after a callback's publish.
3. `ResourceTable`: names, offsets and lengths as `fsgen.cpp` writes them and `RC.c` looks them up.
4. A composition of `SocketTable` with the query of `NtpClock`; the register of the clock, which is read back
   with seven bits of the year (2028 reads as 1900).
5. What the models have and no run asks yet: a publish that ends with another's acknowledgement (`Answered`
   compares no id), and a query that reads what the broker sent.

## Not modelled

The Wi-Fi stack of the SDK, a binary, but for what `WifiNetwork` assumes of it; the rest of the flash driver and
of lwIP, the drivers, the SDK's web server, OTA, AT commands and demos: vendored, and outside this firmware's
own logic. In the components that are modelled in part: static addresses, the one-shot configuration,
SYS_MSG_RMMS, the states of the auto-connect flag and the reconnection of an access point
(`tls_auto_reconnect_softap`, which needs another WPROTOCOL) of the system task; the overlap of
`tls_param_to_default`, which takes no lock, with other calls; `wifinetwork_deinit()`, which nothing calls;
`dhcp_inform`, `dhcp_decline` and the rebooting of a lease; MQTTUnsubscribe and MQTTDisconnect, which nothing
calls. The JSON and SMGS libraries are submodules whose directories are empty. The C and C++ runtime hooks
(`cpp.c`, `cpp.cpp`) keep no state. The build and its Kconfig files give the ranges the constants stand for.
