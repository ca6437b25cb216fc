# Verification of the PMU firmware

The PMU is an ESP32 board between an EV charger and its server.  The charger's
MCU sends it configuration, measurements, charging sessions and fault logs over
CAN; the PMU makes JSON messages of them, keeps every message in a file until
the server has answered it, and publishes the messages over MQTT.  This
directory holds TLA+ modules of that firmware (`src/main`, `src/components`),
TLC configurations, and proofs checked by TLAPS.

## 1. Inventory

The firmware is about 6600 lines of C in ten files.  `src/build` and the other
directories hold build products and are left aside.

| Part | Code | State | Operations | Module |
|---|---|---|---|---|
| Offline queue | `PMUFinalmain.c` 310-345, 1141-1361; `Dequeueing.c`; `SPIFFSUtils.c` | a request file and 2 + n fault logs on SPIFFS; 8-bit entry counters in RAM; names of the connector files | append with eviction, removal by answer, removal by give-up, naming and counting, counting at boot | `SpiffsQueue`, `RequestFile` |
| Main loop | `app_main` | `firstTimeBootUpFlag`, `msg`, `last_sent_message`, `retry_count`, `critical_retry_count`, `lastCheckTime` | start of mqtt_task, clock, choice of a message, publication, retry | `Uplink` |
| mqtt_task | `PMUFinalmain.c` 430-560, `MqttFunctions.c` | `publishMsgFlag`, `configDataBootUUID`, periodic and uptime counters | makes configuration, periodic, session and fault messages; flushes uptimes | `Uplink`, `ConfigReport`, `CanHealth`, `Uptime` |
| process_MQTT_msg | `MQTT.c`, `ValidateMessage.c`, `FormMessage.c` | `msg_string`, `configDataExchanged`, `valueofChangedParameter` | validates messages, opens the uplink, removes entries, answers ComponentStatus | `Answers`, `Uplink` |
| can_task: records | `PMUFinalmain.c` 863-1025, `CAN.c` 1169-1562 | `...CAN` and `...IPC` structures, toggles | reassembles sessions and fault logs, copies CAN to IPC | `Handoff` |
| can_task: configuration | `CAN.c` 286-931 | `arr`, `i`, `stringLength`, one flag per parameter, `prevSequenceNo`, `configRequestFlag` | reassembles strings, acknowledges, asks for the configuration | `ChargerConfig` |
| can_task: health | `PMUFinalmain.c` 926-1017, `CAN.c` 79-284, 1040-1166 | `CANSuccess`, `CANFailureCount`, `MCUComm`, `trackNoofFrames` | judges the silence of the MCU and of the power modules | `CanHealth` |
| Configuration changes | `PMUFinalmain.c` 563-861, 1739-1753, `MqttFunctions.c` 997-1232 | `flagConfig`, `config_data` | compares 38 parameters, flags and reports them | `ConfigReport` |
| NVS | `NVS_lib`, `PMUFinalmain.c` 463-483, 1046-1065 | four uptime totals | fetched at boot, written every 30 s, read back | `Uptime` |
| WiFi, internet, broker | `PMUFinalmain.c` 212-284, 347-371, 1578-1630 | `wifiConnected`, `internet_status`, `broker_status`, credentials | driver and client events, reconnection, probe | `Connection` |
| Clock | `ntp_init`, `PMUFinalmain.c` 1632-1660 | RTC, `isTimeSet` | set from CAN, then from NTP | `Uplink` (one step) |

Interaction.  `can_task` (core 1), `mqtt_task` (core 0, priority 6), the main
loop (core 0, priority 1) and `process_MQTT_msg` (core 1) share RAM.  `mutex`
guards the copies CAN -> IPC and IPC -> MQTT; a task that does not get it skips
the copy, except that `mqtt_task` goes on without it.  Flags and counters have
no lock, and `mutex_spiffs`, made for the files, is never taken.  The server's
messages come through `mqtt_event_handler`, which copies them to one buffer and
notifies `process_MQTT_msg`.

What is hard: the chip may restart anywhere, and only the files and NVS survive;
answers are late, doubled or lost, also across restarts; the counters are kept
apart from the files they count and recomputed in four different ways; retries
of different messages share their counters; a one-bit toggle announces a record
that other tasks copy in the middle of; a frame whose acknowledgement was lost
comes again; one buffer is written and parsed on two cores; silence is the
absence of events in tasks that run at their own pace.  The list is `hazards` in
`PROJECT.json`, each at its line.

What makes each part correct:
* queue: counters never undercount, files keep their limits, no line is
  duplicated or reordered, only the oldest entry is evicted; with two cores in
  it, a file is never repeated or disordered and its counter is repaired;
* uplink: a critical message leaves only by an answer, an eviction or a restart;
  no session and no fault is sent before this boot's configuration was accepted
  (periodic data of an earlier boot can be); queued messages drain;
* answers: the last message is handled, nothing is deleted unanswered;
* hand-off: each record becomes one whole message, in order;
* configuration: what is stored is what the MCU sent, whole and under its name;
  a change is reported or stays flagged;
* health: verdicts agree with silence, and messages say no more than was heard;
* uptime: no second twice, at most a period lost by a restart;
* connection: the flags follow the world.

## 2. Modules

Each action is one operation, handler or step of the code, and `map` in
`PROJECT.json` names its lines.  Operators with a comment "Mutant:" are faulty
variants of the definition below them, used to show that a property would
notice such a fault.  `MC...` modules hold constants for TLC.

`SpiffsQueue` - the files (`file`, sequences of entries), their counters
(`entries`) and whether the connector files have names (`named`).  One action per
operation of the code, the whole of it: `Save` is `save_payload_to_spiffs` with
its eviction, `SaveEvictsOnly` the same call failing after the eviction,
`HandleResponse`, `HandleFaultResponse` and `SearchAndDelete` the three ways an
entry is removed, `InitializeFileNames` the naming and counting in `mqtt_task`,
`Reboot` and `RebootInRewrite` a restart between two operations and one in the
gap between `remove` and `rename`.  `FaultResponseRestarts` is the fault answer
that finds no connector names and dereferences a null pointer after the rewrite.
Entries are identified by their UUID; the text of a message is not modelled.
Counters are taken modulo 256, as `uint8_t` is.

`RequestFile` - what `SpiffsQueue` takes as one step, taken apart: `mqtt_task`
opens, writes and counts (`OpenToAppend`, `WriteLine`, `CountLine`) while
`process_MQTT_msg` on the other core copies the file line by line to the
temporary file, removes, renames and sets the counter (`Begin`, `CopyLine`,
`EndOfFile`, `RemoveFile`, `RenameTemp`, `AssignCount`), with a `Restart` between
any two steps that leaves the temporary file behind.  SPIFFS is external: it does
not rename onto a name that exists, and a write to a removed file is lost.
`clash` and `disturbed` remember what overlapped, so that the properties can say
exactly which overlap costs what.

`Delivery` - the abstract promise: a created message is pending until accepted,
pushed out by a newer one, or lost in a restart; only non-critical messages may
be given up.

`Uplink` - extends `SpiffsQueue` with the three tasks that call it.  `mqtt_task`
is `CreateConfigurationData`, `CreateChargingSession`, `CreateFaultLog`,
`CreatePeriodicData`; the main loop is `StartMqttTask`, `SetRtc`,
`ReadQueuedMessage`, `SkipMessage`, `PublishFails`, `Publish` and
`ConfigurationChanges`; `process_MQTT_msg` is `Accept...` and
`AnswerPeriodicData`.  A publication that succeeded may be answered any number
of times, at any later moment, also after a restart, or never.  `PowerLoss`
restarts the chip between any two steps or inside a rewrite.  `born`, `sends`,
`accepted` and `boots` are history; no guard of the program reads them except
that an answer needs a publication.

`Answers` - a message on its way from the broker to `validate_json_string`.
`WriteHead` and `WriteTail` are the copy into `msg_string` and the notification
at its end, `ReadHead` and `ReadTail` the parse on the other core: a head with
type and UUID, and a tail with the payload, may be of different messages.  A
result, an error or a `ComponentStatus` call that was parsed is handled with all
its effects on the files and all answers to it (`Handle`, `Reply`, `Removed`).
The server rejects, repeats, sends overlong messages and `CALL_ERROR`s within
`MaxFaulty`; `paced` says whether it waits for each message to be handled.

`Handoff` - the way of a record from its frames to a message: `SessionFrame`
and `FaultFrame` are the CAN handlers, `CopyToIPC` and `Round(copy)` the two
copies, `Round` also the comparison of the toggles.  A structure is, for each
frame, the number of the record that wrote it, so a torn message is visible.
The MCU is external (`FirstFrame`, `NextFrame`, `SameFrame`).  Whether it leaves
`mqtt_task` time to see a record before it starts the next is not fixed; a
history variable keeps it.

`ChargerConfig` - `handle_charger_config`.  A character is known by the string
and the position it came from, so a mixture of strings is visible in the buffer
`arr`, which keeps its old contents as in the code.  Strings may have any length:
`stringLength` keeps one byte of it, nothing compares it with the size of `arr`,
and once characters have reached the end of `arr` (`EndFrame`, `overrun`) nothing
more is said of the PMU until it restarts.  `seen` is history: the strings of which
the PMU was sent a frame.  `Deliver` is a frame with
its acknowledgement, `DeliverUnacknowledged` one whose acknowledgement is lost,
so that it comes again; `Request` is the request in `can_task`.  The MCU
(external) sends frames 1 to 4, then each parameter in frame 5 and, for a long
string, 6, 7, ...; both sides may restart between any two frames.

`ConfigReport` - from the shared copy to the server: `Receive`, `Compare`,
`CopyCompared`, `CopySilently` (before the exchange nothing is compared),
`Prepare` (the message with its objects), `ClearConfigData`, `Answer`.  Each
parameter has the group it is reported in (`Group`) and the group its comparison
flags (`Raises`), which are not always the same.  `Told` is what the message says:
the value, `CommunicationFault` for power modules that are not heard, a literal for
the version of the PMU.  `Prepare` may come between comparison and copy, as
`mqtt_task` goes on without the mutex after 5 ticks.  `silent`, `missed` and `late`
are history: the changes the code does not report, by the way they are missed.

`CanHealth` - a `Round` of `can_task` first judges the silence by what the round
before received, then takes one frame or none, then copies if it has the mutex.
The main loop's copy, the decision which periodic messages to make and their
making are separate steps.  All three copies start with every power module failed,
the shared one because it is filled with 0xFF.  `quiet` and `pcmQuiet` measure the
real silence.

`Uptime` - a second (`Tick`), the flush in six steps (`AddUp`, four `Write`s,
`Reset`), the read-back of the totals for the periodic message, and the answer
of `process_MQTT_msg`, which reads the total from NVS and the counter later.
Opening NVS may fail at every write and read (`MaxFailures`), and the PMU may
restart between any two steps.

`Connection` - the handlers of the WiFi driver and of the MQTT client, the
credentials from the configuration to the driver, the internet check with its
five failures, and what the MCU is told.  Networks, internet and broker come and
go, and the credentials change.

`UplinkProofs` (of `SpiffsQueue` and `Uplink`), `RequestFileProofs` (of
`RequestFile` and `Answers`), `ChargerConfigProofs`, `HandoffProofs`,
`ConfigReportProofs`, `CanHealthProofs`, `UptimeProofs`, `ConnectionProofs` -
theorems (section 5).

`Uplink` composes the queue with its three callers and is shown to implement
`Delivery`.  The other modules meet at named states: `Answers` stands for the
`Accept...` actions of `Uplink`, `RequestFile` for `Save` and `HandleResponse` of
`SpiffsQueue`, `ConfigReport` for `ConfigurationChanges`, `Connection` for the
flag `online`; they are checked each against its own environment, which may do
what the neighbour does and more.

## 3. Runs

| Run | Checks | Shows |
|---|---|---|
| `spiffs_queue` | `CountersCover`, `WithinLimit`, `NoDuplicate`, `OrderKept`, `EvictsOldestOnly` | the queue keeps its counters, limits and order through every mix of operations and restarts |
| `request_file` | `InOrderOnce`, `LostOnlyInReplacement`, `CountIsRepaired` | without a lock nothing is repeated or disordered; only a save or restart inside the replacement loses a message; the next undisturbed rewrite repairs the counter |
| `uplink` | `ConfigurationFirst`, `NamedWhenExchanged`, `Delivers` | the exchange of the configuration across a restart; the refinement of `Delivery` |
| `uplink_drains` | `Drains`, `GivesUpLate` | queued messages leave under fairness; mixed retries never give a message up early |
| `uplink_known` (violated) | `ConfigurationStaysKnown` | a queued session closes the uplink for good after a restart |
| `answers` | `LastIsHandled`, `DeletedOnlyWhenAnswered`, `KeptUntilAccepted`, `AnswersOnlyExisting`, `RequestsAreDone`, `EveryCallIsAnswered` | what survives answers that overwrite each other in the buffer, and what a paced server can rely on |
| `handoff` | `EveryRecordOnce`, `NeverBackwards`, `TornAtOnePlace`, `EveryRecordReported` | one whole message per record from an MCU that leaves time; what remains true from one that does not, and that sends frames twice |
| `config` | `InsideBuffer`, `NeverPartial`, `NeverMisplaced`, `Arrives` | what becomes of strings of all lengths with lost acknowledgements and restarts: which lengths leave the buffer, up to which string what is stored is whole and under its name, and when all are there in the end |
| `report` | `WillBeReported`, `TellsFlagged` | a change is told, or is due with a message coming, with named exceptions; a flag that is set is told by the next message |
| `health` | `VerdictsAreTrue`, `PeriodicIsComplete`, `SilenceIsNoticed`, `ModulesAreNoticed` | verdicts agree with the silence; a message that calls the MCU fine is complete; silence, and the return of a power module, is noticed through copies that may be skipped |
| `connection` | `StartsInOrder`, `ComesOnline`, `OfflineIsNoticed` | the flags follow the world in the end |
| `uptime` | `LosesOnePeriod`, `TotalsAgree`, `AnswersAreClose`, `NeverOvercounts` | what restarts and NVS failures inside a flush cost |

The type invariants of `SpiffsQueue`, `Uplink`, `RequestFile`, `Handoff`,
`ConfigReport`, `CanHealth`, `Uptime` and `Connection` are theorems (section 5);
that of `ChargerConfig` is part of `InsideBuffer`, which is about the index into
`arr`.

Bounds.
* `SpiffsQueue`: one connector, limits 3 and 2, four messages, two timestamps.
  Every file can be filled and overfilled, the middle one of three lines can
  leave, the clock can go back, and the total of three files can exceed the limit
  of one.  Messages are interchangeable, hence the symmetry.
* `RequestFile`: five messages and two restarts (`MaxMessages`, `MaxRestarts`):
  a left-over temporary file, a save in each step of a rewrite, and two further
  rewrites after it.
* `Uplink`: limits 2 and 1, three or four messages, one to three boots
  (`MaxBoots`), one timestamp, no symmetry because messages have actions.  A late
  answer needs two boots, and one that restarts the chip needs three; the request
  file can be full; both fault and request retries can interleave.  `sends` is
  capped at the value the property compares with.  A new message needs an unused
  UUID, so a run ends its creations there; the properties speak of messages that
  exist, and no run's violation comes from running out of UUIDs.
* `Answers`: a critical and a periodic request, two calls of which one is made
  (all connectors, and a negative one), one faulty message, one message
  under way besides the one that is written and the one that is read
  (`MaxCalls`, `MaxFaulty`, `MaxInbox`): enough for a head and a tail of
  different messages of one type.
* `Handoff`: three frames stand for nine and two for eight, as only the first and
  the last frame act; three sessions, one of them unstarted, and two faults;
  `MaxResends` 1.
* `ChargerConfig`: eight strings of four parameters, chosen by their lengths: the
  usual one with two continuation frames (and one with commas), one with a single
  continuation frame, an address of a broker that fits its first frame and one that
  goes on, one longer than the buffer, and one whose length does not fit
  `stringLength` and is taken for 2.  Frames of 1 and 2 characters instead of 4 and
  7, a buffer of 6 instead of 100, `LenWrap` 8 and `FlagWrap` 4 instead of 256; one
  restart of each side and one change (`Breaks`, `Restarts`, `Changes`).  The MCU
  begins with any of the strings (`AtFirst`) but the two that do not fit, which
  come with a change.
* `ConfigReport`: a parameter of each kind (`pmuEnable`, a limit, a limit in a
  group, one that flags the wrong group, the versions of the power modules and of
  the PMU, one that no message has) and two changes (`MaxChanges`): one that is
  under way and one that falls into it; the failures of power modules are not bounded.
* `CanHealth`: a limit of two rounds instead of 3000, one required frame, one
  power module; rounds are not bounded.  What is said of a module is said of each
  alone, and `VerdictsAgree` is about any number.
* `Connection`: a name that fits and one that does not, one change, two boots;
  the world changes without bound.
* `Uptime`: periods of two seconds, minutes, hours and days of two, five seconds,
  one restart and one failure: two flushes and a half, with carries to days.

`CHECK_DEADLOCK FALSE` is said where the run's bounds end the work: all messages
created (`RequestFile`), the configuration sent and unchanged (`ChargerConfig`),
no changes left (`ConfigReport`), all requests answered (`Answers`).

Fairness.  FreeRTOS tasks are endless loops, each ending in a delay, so their
steps are weakly fair; what another task or the world can interrupt again and
again is strongly fair only where it must succeed now and then.
* `FairUplinkSpec`: the tasks run for ever; the link comes back often enough to
  read and publish again and again (strong fairness of `ReadQueuedMessage` and
  `Publish`, which `GoOffline` interrupts); the server accepts a message it can
  answer again and again (strong fairness of `Accept`).  Nothing is assumed of
  message creation other than the configuration, nor of restarts or of a link
  that stays up.
* `Handoff`: the configuration arrives, `can_task` copies, the mutex is got again
  and again (its holders only copy memory), and a disabled PMU is enabled again.
* `Answers`: the handler finishes a copy and the task a parse (weak); a request
  that is stored is sent again and again and a request at the server is accepted
  now and then (strong, `Send` and `Accept`).
* `ChargerConfig`: frames of the MCU are received (`Deliver`) and `can_task` asks
  when it must (`Request`); no fairness of lost acknowledgements.
* `CanHealth`: `can_task` makes a round with the mutex (`CanRound(TRUE)`, enabled
  always, so weak fairness says it gets the mutex again and again), and the main
  loop copies.
* `Connection`: the driver, the handlers, the steps of the main loop, the client
  and `can_task` run (weak).  The world owes nothing: the properties say under
  which of its behaviours they promise something.

## 4. Findings

One run is violated.  After a restart a charging session at the head of the
request file is read, put back and read again (`PMUFinalmain.c` 1672-1680) while
the configuration is not exchanged; the configuration message behind it is never
sent.  Boot code that fetches the keys "to know if Config data has been sent
once" fetches uptimes only.

Other disagreements were met on the way.  The modules have them as the code does
them, and the properties are stated so that they name what is excepted:

| Line | What the code does | Where |
|---|---|---|
| `Dequeueing.c` 477 | stores the running total over all files as the counter of each, so a fault log with room can count as full and lose an entry | `SpiffsQueue`; hence `CountersCover` and not equality |
| `Dequeueing.c` 11 | `delete_entry` is commented out, so "Deleting critical Entry" deletes nothing; `Delivery` promises just that | `Uplink` |
| `Dequeueing.c` 134-136 | a save between the last line read and `rename` loses its message, or all others when it creates the file first; the counter may be 0 with lines | `RequestFile`, `clash` and `disturbed` |
| `PMUFinalmain.c` 396 | the id of one message and the payload of another are read as one: a request is deleted although its own result was bad | `Answers`, `paced` |
| `MqttFunctions.c` 320 | an id is checked from above only, so a negative one is answered as a connector | `Answers`, `Underflows`: the exception in `AnswersOnlyExisting`, and a call of the run |
| `ValidateMessage.c` 258 | a `CALL_ERROR` of the server is answered with a `CALL_ERROR` | `Answers`, `Reply`; no property is about it |
| `CAN.c` 333-341, 793-798, 807 | the length of a string, two bytes, is cut to one and not compared with the size of `arr`: a string of 100 to 255 characters is written to the end of `arr` and past it, and one of 256 is taken for an empty one | `ChargerConfig`, `overrun` and `LenByte`; `TooLong`, the exception in `InsideBuffer` and in the other three |
| `CAN.c` 842 | the broker's address is stored when its first characters have come, the rest never (`flagPmuBroker` is commented out), and that goes for any real address | `ChargerConfig`; `NeverPartial` is about the other strings, and `Arrives` about addresses that fit |
| `CAN.c` 337-341 | the last frame of a broker's address that is longer than its first frame completes the buffer (`giveEntrytoPrint`) and no flag takes it: the next string of several frames counts as complete with its first continuation frame, and a part of it is stored | `ChargerConfig`, `LongBroker`: the exception in `NeverPartial` and `Arrives`; `NeverMisplaced` holds all the same |
| `CAN.c` 316 | after a string with one continuation frame the next string's first continuation has the same sequence number, counts as repeated and is lost; after one with none, which is not completed at all, its flag is still set | `ChargerConfig`, `Brief`: the exception in `NeverMisplaced` and `Arrives`; `NeverPartial` holds all the same |
| `PMUFinalmain.c` 892 | the requests end when some fields have come; an MCU that restarts after its second frame, or cannot read its EEPROM, is not asked again | `Arrives`, under `Unbroken` and `~mcuFailed` |
| `PMUFinalmain.c` 1741 | before the first answer the configuration is copied without comparison, and a change in that time is never reported | `ConfigReport`, `silent` |
| `PMUFinalmain.c` 459 | `config_data` is cleared after the message was made: a change noted in between stays flagged and waits for the next one | `ConfigReport`, `late`: an exception in `WillBeReported`, not in `TellsFlagged` |
| `PMUFinalmain.c` 836, 844 | a change of `serverConnectorBPower` or `serverConnectorBCurrent` flags the first connector, so it is told only when something else of the second has changed | `ConfigReport`, `Misraised`: the exception in both properties |
| `PMUFinalmain.c` 438 | `mqtt_task` makes its message without the mutex when it is not free for 5 ticks: between comparison and copy it tells the old value and clears the flag of the new one | `ConfigReport`, `missed`: the exception in both properties |
| `MqttFunctions.c` 1165 | the version of a power module that is not heard is told as `CommunicationFault` and its flag cleared; when the module is heard again with the same version, nothing tells it | `ConfigReport`, `Told`; `KnownToServer` says what counts as told |
| `PMUFinalmain.c` 1429 | the shared copy of the power modules is filled with 0xFF, which says of each that it failed | `CanHealth`, `Init` |
| `PMUFinalmain.c` 906 | a fault log is no sign of life of the MCU | `CanHealth`, `quiet` |
| `PMUFinalmain.c` 1058 | a read of NVS that fails is 0, and the next flush writes it | `Uptime`, `failures = 0` |
| `PMUFinalmain.c` 1613 | changed credentials are never given to the driver | `ComesOnline` speaks of the driver's |
| `PMUFinalmain.c` 1591 | a name of 32 or a key of 64 characters is cut by one | `Connection`, `Fitted` |
| `PMUFinalmain.c` 1580 | without WiFi the internet is not checked, so the MCU is told a stale status | `Connection`; `OfflineIsNoticed` speaks of `Online` |

## 5. Proofs

Each theorem holds for every value of the constants its module's assumption
allows.

`UplinkProofs`, the queue (`QueueAssumption`: up to three connectors,
`MaxQueueSize + 2 * MaxQueueSizeFault < 256`, which is 100 + 2 * 50 in the code).
`QueueInvariant`: `Spec => [](TypeOK /\ CountersCover /\ WithinLimit)`, and its
parts `TypeCorrect`, `CountersCoverFiles`, `FilesWithinLimit`.  The conjunction is
needed.  The limit is enforced on the counter, so a file only keeps it if the
counter covers the file; and a counter computed modulo 256 only covers its file
if the value stored was below 256, which for the running total of three files
follows from their limits.  The assumption on the limits is exactly what the
running total needs.  The argument goes action by action (`NextKeeps`); beneath
it are lemmas on what `Cut`, `Without` and `RemoveOldest` return, on the existence
of an oldest entry, and on bytes.

`MessagesAreSingle` (`NoDuplicate`) and `MessagesKeepOrder` (`OrderKept`) follow
the lines.  `SingleInv` says that each message is in one file, and there once: a
save appends a message that is new to all of them, and everything else that is
done to a file leaves lines out of it, by a strictly increasing map of the places
that remain.  `OldestGoesFirst` (`EvictsOldestOnly`): the line `RemoveOldest`
leaves out has a timestamp no other line is below.

`UplinkProofs`, the uplink.  `ExchangeComesFirst` (`ConfigurationFirst`) and `NamesAreThere`
(`NamedWhenExchanged`), for every number of messages, boots and connectors but
zero (`UplinkAssumption`).  The uplink is opened by the answer to `bootUuid` only,
so the invariant follows `bootUuid`: set once in a boot, with a message created
then and together with the names, and forgotten in a restart.  It needs one fact
on the files: what the main loop reads before the exchange is the head of the
request file, and no eviction, rewrite or restart brings a fault there.

The rest of `UplinkProofs` is the composition.  `ComposedInv` is inductive:
`QueueInv` and `SingleInv`, faults are in the fault logs and only there
(`PlacedInv`), what waits was created (`KnownInv`), and types.  From it
`QueueInComposition` (the properties of the queue under its three callers),
`UplinkTypeSafe`, and `UplinkDelivers`: `UplinkSpec => Delivers`, the refinement of
`Delivery`.  Each step of the uplink is mapped by what it does to the set of
messages that wait: creation adds one, with at most one pushed out; an answer
removes its own; giving up removes one that is not critical; a restart may lose the
file that is in the gap of a rewrite; all else is a stutter.

`GivenUpLate` (`GivesUpLate`): `retry` counts publications of the message sent
last only, because a publication of another one sets it back; so a message that is
not critical has always been published once more than it was retried
(`RetriedInv`), and reaches the limit with more publications than that.

`RequestFileProofs`.  `FileInvariant` is inductive: both files are increasing,
the temporary file is below every line that is still to be read and has nothing
that was taken out, and a message that is being saved is new to both.  From it
`FileInOrderOnce` (`InOrderOnce`); and with it `FileKeepsMessages`
(`LostOnlyInReplacement`), whose strengthening says what the temporary file has
at each step of the copy.  `FileTypeSafe`: `TypeOK`.  `CountRepaired`
(`CountIsRepaired`): a rewrite counts the lines of the temporary file as it writes
them, and while no save overlaps it the temporary file becomes the file and the
count its counter; afterwards the counter is behind by the one line a save has
written and not yet counted (`CountInv`).

`RequestFileProofs`, the answers.  `AnswersInvariant` (`AnswersInv`) follows a
message from the server to its handler.  `LastInv`: a message whose copy into the
buffer is complete is still notified, or being read, or was handled - hence
`LastHandled` (`LastIsHandled`).  `HeardInv`: whatever is under way, in either half
of the buffer or half read, is a message the server sent, so a request whose id is
read has a result, although the payload may be another's - hence `DeletedAnswered`
(`DeletedOnlyWhenAnswered`).  `AloneInv`: with a paced server both halves are of
the one message under way - hence `StoredUntilAccepted` (`KeptUntilAccepted`) and
`OnlyExistingAnswered` (`AnswersOnlyExisting`), for all calls: a negative connector
is the exception the property names (section 4).

`HandoffProofs`, for any number of records, frames and resent frames.  Two
arguments.  At any time, the frames of a record arrive in order, so the structures
of `can_task` never have a later frame that is newer than an earlier one, and each
copy is no newer than what it was made from: `TornMessages` (`TornAtOnePlace`) and
`MessagesAdvance` (`NeverBackwards`).  In calm behaviours at most one toggle is
unseen, and a copy whose toggle is unseen was made of the record that is complete
at the MCU: `CalmRecords` (`EveryRecordOnce`).  `HandoffTypeSafe`: `TypeOK`.

`ConfigReportProofs`.  `ChangesAreNotLost`: `WillBeReported`, whether `mqtt_task`
gets the mutex or not.  The strengthening is that between comparison and copy every
difference has its flag and the flag of its group, or a message made without the
mutex has just taken them (`ComparedIsFlagged`); and that a limit without a value
was never told (`BlankIsUntold`).  `FlaggedIsTold`: `TellsFlagged`, since a flag
that is set and reportable is never without the flag of the object that carries the
parameter (`FlaggedWithGroup`).

`ChargerConfigProofs`, for strings of all lengths.  `BufferStaysInside`
(`InsideBuffer`): the current length is always that of a string that was sent, so
only one that is too long takes the characters to the end of `arr`.  The other two
are about the order.  The frames left to be sent are a chain: a frame that is to be
continued is followed by its continuation, whatever was acknowledged, so their head
tells how much of its string the PMU has seen (`Seen`).  `TextInv`: in the middle of
a string, either all of that is in the buffer, character by character, or a frame
was passed over and too little is left to complete the buffer.  With `FlagInv` (a
string that is not complete has a flag, so nobody else's completion is waiting) the
text that is stored is whole: `NeverAPart` (`NeverPartial`), as long as every string
that was sent fits and is no address of a broker that goes on (`Fit`).  `OwnFlag`:
between two strings no flag is set and inside one only its own, whose characters
are all there (`Gathered`); a completion left over from an address of a broker is
used up by the first continuation frame, so what is stored is the beginning of the
right string: `NeverOfAnother` (`NeverMisplaced`), as long as every string that was
sent fits and has several continuation frames, or is an address of a broker with
none (`Regular`), and the MCU broke none off.  `Fit` and `Regular` are not hypotheses but the negations of the
exceptions in the properties; the code does not ensure them (section 4).

`CanHealthProofs`.  `VerdictsAgree` (`VerdictsAreTrue`): the counter runs exactly
one round behind the silence while the verdict is good.  `CompletePeriodic`
(`PeriodicIsComplete`): each copy of `trackNoofFrames` is contained in the one it was
made from.  `HealthTypeSafe`: `TypeOK`.

`UptimeProofs`.  `NoSecondTwice` (`NeverOvercounts`) with failures of NVS, and
`OnePeriodLost` (`LosesOnePeriod`).  Both follow the seconds of one key: those in
the total and those still to be added are the seconds ever counted but for what
restarts lost, and during a flush a written total equals the one in NVS, and an
unwritten one is ahead of it by the counter.  `UptimeTypeSafe`: `TypeOK`.
`UptimesAgree` (`TotalsAgree`) is about three keys at once: the counters always
agree, the totals in RAM differ by what flushes that were cut in two have left
apart, one period each (`AgreeInv`), and those in NVS by the order in which the
keys are written.  `AnswersStayClose` (`AnswersAreClose`) follows an answer over the
flush it may straddle (`AskedInv`).  It rests on the arithmetic of the carries, for
every length of a minute, an hour and a day: dividing into days, hours, minutes and
seconds and putting them together is the identity (`SecondsOfDuration`), and adding
counters with carries is addition (`SecondsOfIncremented`).

`ConnectionProofs`.  `ConnectionTypeSafe` (`TypeOK`) and `ConnectionOrder`
(`StartsInOrder`), from one more fact: a radio that does anything was given
credentials.

Every invariant and every action property of a passing run is the subject of a
theorem, and no theorem has a hypothesis beyond the assumptions on the constants.
Only model-checked is liveness (`Drains`, `EveryRecordReported`, `Arrives`,
`SilenceIsNoticed`, `ModulesAreNoticed`, `RequestsAreDone`, `EveryCallIsAnswered`,
`ComesOnline`, `OfflineIsNoticed`), which is out of the prover's reach, as are
`ENABLED` and induction over data.

## 6. Assumptions and what is not modelled

* In `SpiffsQueue` and `Uplink` a file operation is one step, except for the
  restart inside a rewrite.  `RequestFile` has the steps, for one task that
  appends and one that rewrites; a second rewriter (the main loop's
  `search_and_delete`) and an eviction at the same time are not in it, the
  increment of the counter is one step, and so are `fprintf` and `fclose`.
* Elsewhere `remove` and `rename` and the reading of files succeed; `fopen` for
  appending and the clock may fail.  A line is written whole or not at all.
* UUIDs are unique (`generateUUID` draws them from `rand`).
* The connectors' number does not change while the chip runs, and faults name
  configured connectors.
* `SearchAndDelete` does not write the counters of the connectors: the code
  writes past the end of their array, and what that overwrites is not modelled.
  Nor is what another core reads from an array of names that was just allocated.
* `publishMsgFlag` is written flag by flag; how the compiler makes bit fields of
  three tasks share a byte is not in the source.
* `Answers`: each half of the buffer is written and read at once, `CALL_ERROR`s
  are well-formed, and the main loop may send any stored request at any time.
* `ChargerConfig`: sizes of the fields that strings are stored in are abstracted.
* `Connection`: `esp_wifi_disconnect` followed by `esp_wifi_connect` is one step.
* `Uptime`: an answer takes no longer than a period, and NVS writes a value whole
  or not at all.
* Memory allocation succeeds.  The values in messages, JSON and logs are not
  modelled beyond which objects a message has.  NTP is part of going online.
  `fetch_keys` and `save_data_to_NVS` are called by nothing.
* Session types are 1 to 4.  What `Handoff` and `Answers` promise of an MCU that
  leaves time, or of a server that is paced, the firmware does not enforce: it is
  a demand on the other side.

## 7. Plan

1. A second rewriter in `RequestFile`: `search_and_delete` and the eviction of
   `save_payload_to_spiffs` through the same temporary file, and the refinement of
   the one-step queue for the case that `mutex_spiffs` is held.
2. Proofs: types of `Answers` and `Delivery` as properties of their own.
3. The enabling conditions behind liveness, as invariants: from every state in which
   a message waits, what must happen before it leaves.
