---------------------------- MODULE ConfigReport ----------------------------
(***************************************************************************)
(* What the server learns of the charger's configuration.  can_task copies *)
(* the configuration to the shared copy (IPC); the main loop compares that *)
(* with its own copy (MQTT), raises one flag for every parameter that      *)
(* differs (flagConfig) and copies; mqtt_task puts the parameters that are *)
(* flagged into a ConfigurationData message and clears their flags.        *)
(*                                                                         *)
(* A parameter of a connector or a version is inside an object of its      *)
(* group, which is made only when the group has been flagged as well.  The *)
(* module begins where the whole configuration has come from the MCU.  A   *)
(* number is what the message writes of it, two decimals, and the versions *)
(* of the power modules, which share one flag, are one parameter.          *)
(*                                                                         *)
(* mqtt_task waits for the mutex 5 ticks and then goes on without it, so   *)
(* it may make a message while the main loop is between its comparison and *)
(* its copy; being of higher priority on the same core, it is interrupted  *)
(* only where it waits for the file system.                                *)
(***************************************************************************)
EXTENDS Integers

CONSTANTS Param,       \* the parameters that are compared
          Enable,      \* pmuEnable, the one that is always reported
          Limits,      \* those not reported while they have no value
          Unreported,  \* those no message has: WiFi, broker, serial number
          Pcm,         \* the versions of the power modules
          Own,         \* versionInfo.PMU, which nothing writes
          Group,       \* the group whose object holds a parameter
          Misraised,   \* serverConnectorBPower and serverConnectorBCurrent,
          FirstGroup,  \* ... whose comparisons flag connector 1
          NoGroup,     \* no group
          Value,       \* values of parameters; 1 enables the PMU
          Blank,       \* no value: FLT_MAX, an empty string
          Fault,       \* "CommunicationFault"
          OwnVersion,  \* "1.1"
          MaxChanges   \* bound: parameters the MCU changes

ASSUME ReportAssumption ==
    /\ {Enable, Pcm, Own} \subseteq Param \ (Limits \union Unreported)
    /\ Enable # Pcm /\ Own \notin {Enable, Pcm}
    /\ Limits \subseteq Param
    /\ Unreported \subseteq Param
    /\ Misraised \subseteq Param \ {Enable, Pcm, Own}
    /\ Group[Enable] = NoGroup
    /\ Blank \notin Value /\ Fault \notin Value \union {Blank}
    /\ OwnVersion # Blank
    /\ MaxChanges \in Nat

Known == Value \union {Blank}

VARIABLES
    ipc,         \* chargerConfigIPC and the versions in powerModulesIPC
    mqtt,        \* chargerConfigMQTT and the versions in powerModulesMQTT
    failedIPC,   \* CANFailure of the power modules, in powerModulesIPC
    failedMQTT,  \* ... and in powerModulesMQTT
    flag,        \* flagConfig: parameters to report
    group,       \* flagConfig: numConnector1, numConnector2, versionInfoFlag
    configData,  \* publishMsgFlag.config_data
    exchanged,   \* publishMsgFlag.configDataExchanged
    app,         \* app_main: "out", or "compared" with the mutex in its hands
    task,        \* mqtt_task: "idle", or "prepared"
    reported,    \* what the last message with it said of each parameter
    masked,      \* history: the versions it said Fault for
    silent,      \* history: parameters copied without comparison since then,
    missed,      \* ... told while they were compared and not yet copied,
    late,        \* ... due when config_data was about to be cleared
    changes      \* changes made

copies == <<ipc, mqtt, failedIPC, failedMQTT>>
flags  == <<flag, group>>
hist   == <<masked, silent, missed, late>>
vars   == <<copies, flags, configData, exchanged, app, task, reported, hist,
            changes>>

-----------------------------------------------------------------------------

Differs(p) == ipc[p] # mqtt[p]
Due(p)     == p \in flag /\ (Group[p] = NoGroup \/ Group[p] \in group)
Enabled    == mqtt[Enable] = 1

\* The parameters that changed, and the groups that go with them
Changed == {p \in Param : Differs(p)}

\* Mutant: a version does not flag its group
RaisesNot(p) == IF p \in Misraised THEN FirstGroup
                ELSE IF p = Pcm THEN NoGroup ELSE Group[p]

Raises(p) == IF p \in Misraised THEN FirstGroup ELSE Group[p]
Raised    == {Raises(p) : p \in Changed} \ {NoGroup}

\* A message will be made of what is due: config_data is set, and not by the
\* message that is being finished
Coming == configData /\ task = "idle"

\* can_task, with the mutex: what the MCU has sent is in the shared copy.
\* The MCU never takes a limit back
Receive(p, v) ==
    /\ app = "out"
    /\ p # Own
    /\ changes < MaxChanges
    /\ v # ipc[p]
    /\ ipc' = [ipc EXCEPT ![p] = v]
    /\ changes' = changes + 1
    /\ UNCHANGED <<mqtt, failedIPC, failedMQTT, flags, configData, exchanged,
                   app, task, reported, hist>>

\* ... and whether the power modules are heard
ReceiveHealth ==
    /\ app = "out"
    /\ failedIPC' = ~failedIPC
    /\ UNCHANGED <<ipc, mqtt, failedMQTT, flags, configData, exchanged, app,
                   task, reported, hist, changes>>

\* check_config_data_changes, once the first message has been answered
Compare ==
    /\ app = "out"
    /\ exchanged
    /\ app' = "compared"
    /\ flag' = flag \union Changed
    /\ group' = group \union Raised
    /\ UNCHANGED <<copies, configData, exchanged, task, reported, hist, changes>>

\* The copy that follows, and config_data for isConfigurationChanged
CopyCompared ==
    /\ app = "compared"
    /\ app' = "out"
    /\ mqtt' = ipc /\ failedMQTT' = failedIPC
    /\ configData' = (configData \/ Changed # {})
    /\ late' = IF task = "prepared" /\ Changed # {}
               THEN late \union {p \in Param : Due(p)} ELSE late
    /\ UNCHANGED <<ipc, failedIPC, flags, exchanged, task, reported, masked,
                   silent, missed, changes>>

\* The same round of the main loop before the first answer: nothing is compared.
\* What will be told all the same is what is due in the first message; a PMU
\* that comes to be enabled has kept its flags, but makes no message of them
CopySilently ==
    /\ app = "out"
    /\ ~exchanged
    /\ mqtt' = ipc /\ failedMQTT' = failedIPC
    /\ silent' = silent \union {p \in Changed : ~(Due(p) /\ Coming)}
                        \union {p \in flag : ipc[Enable] = 1 /\ ~Enabled /\ ~Coming}
    /\ UNCHANGED <<ipc, failedIPC, flags, configData, exchanged, app, task,
                   reported, masked, missed, late, changes>>

\* What a message has: every if of prepare_mqtt_send_config_data
Included(p) == /\ p \in flag \ Unreported
               /\ p = Enable \/ Enabled
               /\ p \in Limits => mqtt[p] # Blank
               /\ Group[p] = NoGroup \/ Group[p] \in group

\* What it says: the version of a power module that is not heard is replaced,
\* that of the PMU is a literal
Told(p) == IF p = Own THEN OwnVersion
           ELSE IF p = Pcm /\ failedMQTT THEN Fault
           ELSE mqtt[p]

\* Mutant: every flag is cleared, those a disabled PMU does not report too
ClearedAll == flag

Cleared == {p \in flag : Included(p)}

\* prepare_mqtt_send_config_data, whether the mutex came within 5 ticks (then
\* the main loop is "out") or not
Prepare ==
    /\ configData /\ task = "idle"
    /\ task' = "prepared"
    /\ reported' = [p \in Param |->
                       IF Included(p) THEN Told(p) ELSE reported[p]]
    /\ flag' = flag \ Cleared
    /\ group' = IF Enabled THEN {} ELSE group
    /\ masked' = IF Included(Pcm) THEN mqtt[Pcm] ELSE masked
    /\ silent' = {p \in silent : ~Included(p)}
    /\ late' = {p \in late : ~Included(p)}
    /\ missed' = {p \in missed : ~Included(p)}
                     \union {p \in Changed : app = "compared" /\ ~Due(p)'}
    /\ UNCHANGED <<copies, configData, exchanged, app, changes>>

\* After the names and the counters of the connector files
ClearConfigData ==
    /\ task = "prepared"
    /\ task' = "idle"
    /\ configData' = FALSE
    /\ UNCHANGED <<copies, flags, exchanged, app, reported, hist, changes>>

\* process_configurationData_payload: the answer to the first message
Answer ==
    /\ ~exchanged
    /\ reported[Enable] # Blank
    /\ exchanged' = TRUE
    /\ UNCHANGED <<copies, flags, configData, app, task, reported, hist, changes>>

Init ==
    /\ ipc \in [Param -> Known]
    /\ \A p \in Param \ Limits : ipc[p] = Blank <=> p = Own
    /\ mqtt = ipc
    /\ failedIPC \in BOOLEAN /\ failedMQTT = failedIPC
    /\ flag = Param
    /\ group = {Group[p] : p \in Param} \ {NoGroup}
    /\ configData = TRUE /\ exchanged = FALSE
    /\ app = "out" /\ task = "idle"
    /\ reported = [p \in Param |-> Blank]
    /\ masked = Blank
    /\ silent = {} /\ missed = {} /\ late = {}
    /\ changes = 0

Next == \/ \E p \in Param, v \in Value : Receive(p, v)
        \/ ReceiveHealth
        \/ Compare \/ CopyCompared \/ CopySilently
        \/ Prepare \/ ClearConfigData \/ Answer

Spec == Init /\ [][Next]_vars

-----------------------------------------------------------------------------
(* Properties *)

\* The variables have their types.
TypeOK ==
    /\ ipc \in [Param -> Known] /\ mqtt \in [Param -> Known]
    /\ failedIPC \in BOOLEAN /\ failedMQTT \in BOOLEAN
    /\ reported \in [Param -> Known \union {Fault, OwnVersion}]
    /\ masked \in Known
    /\ flag \subseteq Param
    /\ silent \subseteq Param /\ missed \subseteq Param /\ late \subseteq Param
    /\ configData \in BOOLEAN /\ exchanged \in BOOLEAN
    /\ app \in {"out", "compared"} /\ task \in {"idle", "prepared"}
    /\ changes \in 0 .. MaxChanges

\* What the server was told of a parameter is its value; of versions it did not
\* get, that their modules were not heard
KnownToServer(p) ==
    \/ reported[p] = IF p = Own THEN OwnVersion ELSE mqtt[p]
    \/ p = Pcm /\ reported[p] = Fault /\ masked = mqtt[p]

\* It is due, its group too, and config_data will bring a message.  A PMU that is
\* disabled keeps it for when it is enabled
OnItsWay(p) == Due(p) /\ (Coming \/ (p # Enable /\ ~Enabled))

\* No change is lost: a parameter whose value differs from what the server was
\* told is flagged, and so is its group, and a message is coming, whatever
\* changes while a message is made or while the PMU is disabled, and whether
\* mqtt_task got the mutex or not.  (Of a limit without a value, Blank, nothing
\* is told.)  There are four exceptions, and no other:
\* - it was copied before the first answer, when the main loop does not compare;
\* - the message was made between its comparison and its copy, without the mutex;
\* - it was noted while that message was not yet finished, and config_data, set
\*   for it, was cleared;
\* - it is one of the two that flag the wrong connector.
WillBeReported ==
    \A p \in Param \ Unreported :
        \/ KnownToServer(p) \/ OnItsWay(p)
        \/ p \in silent \/ p \in missed \/ p \in late
        \/ p \in Misraised

\* "Flags to Detect trigger for each": a message of an enabled PMU tells the
\* value of every parameter whose change has been noted by a flag, whatever
\* object it belongs to: CommunicationFault for power modules that are not
\* heard, 1.1 for the PMU.  The exceptions are the two that flag the wrong
\* connector, and limits that got their value before the first answer, or while
\* the message before was made without the mutex.
TellsFlagged ==
    [][task = "idle" /\ task' = "prepared" /\ Enabled =>
          \A p \in flag \ (Unreported \union Misraised \union silent \union missed) :
              \/ reported'[p] = IF p = Own THEN OwnVersion ELSE mqtt[p]
              \/ p = Pcm /\ failedMQTT /\ reported'[p] = Fault]_vars

=============================================================================
