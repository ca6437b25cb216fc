------------------------------- MODULE Uplink -------------------------------
(***************************************************************************)
(* The uplink of the PMU: mqtt_task, which creates messages and saves them *)
(* in the files of SpiffsQueue; the main loop of app_main, which sends the *)
(* first message it finds until an answer removes it; and process_MQTT_msg *)
(* which handles the answers.  They share RAM flags without a lock and the *)
(* chip can restart between any two of their steps.                        *)
(*                                                                         *)
(* A file operation is one step here.  The server may answer a message     *)
(* that was published late, several times or never.                        *)
(***************************************************************************)
EXTENDS SpiffsQueue

CONSTANTS Action,    \* the OCPP-like action of each message
          None,      \* NULL, or no UUID
          MaxBoots   \* bound on restarts

ConfigurationData == "ConfigurationData"
ChargingSession   == "ChargingSession"
FaultInformation  == "FaultInformation"
PeriodicData      == "PeriodicData"    \* PCMPeriodicData, ChargerPeriodicData
Actions == {ConfigurationData, ChargingSession, FaultInformation, PeriodicData}

ASSUME UplinkAssumption ==
    /\ NumConnectors # 0
    /\ Action \in [Uuid -> Actions]
    /\ None \notin Uuid
    /\ MaxBoots \in Nat \ {0}

RetryLimit == 3

VARIABLES
    bootFlag,    \* firstTimeBootUpFlag
    configData,  \* publishMsgFlag.config_data
    exchanged,   \* publishMsgFlag.configDataExchanged
    bootUuid,    \* configDataBootUUID
    changed,     \* valueofChangedParameter # 0
    online,      \* IS_MQTT_NETWORK_ONLINE && isTimeSet
    msg,         \* the message the main loop has read, None between rounds
    lastSent,    \* last_sent_message
    retry,       \* retry_count
    critical,    \* critical_retry_count
    due,         \* RETRY_INTERVAL has passed since lastCheckTime
    born,        \* history: the boot that created each message, 0 before
    sends,       \* history: publications of each message, capped
    accepted,    \* history: messages whose valid answer was handled
    boots        \* history: number of the current boot

bootVars    == <<bootFlag, configData, bootUuid>>
senderVars  == <<msg, lastSent, retry, critical, due>>
historyVars == <<born, sends, accepted, boots>>
ramVars     == <<bootVars, exchanged, changed, online, senderVars>>
vars        == <<queueVars, ramVars, historyVars>>

-----------------------------------------------------------------------------
(* Reading the files *)

Critical   == {u \in Uuid : Action[u] # PeriodicData}
Fault(u)   == Action[u] = FaultInformation
FaultFiles == FileId \ {Request}

Fresh(u) == born[u] = 0
SendCap(u) == IF u \in Critical THEN 1 ELSE RetryLimit + 1

\* Mutant: only the log of the online charger is looked at
HasOnlineFault == file[OnlineCharger] # <<>>

\* get_queued_fault_messages: the first line of the first file that has one
HasFault == \E f \in FaultFiles : file[f] # <<>>
FirstFault ==
    LET f == CHOOSE f \in FaultFiles :
                 /\ file[f] # <<>>
                 /\ \A g \in FaultFiles : g < f => file[g] = <<>>
    IN  file[f][1].uuid

\* get_queued_request_messages, and the main loop that frees a charging
\* session as long as the configuration has not been exchanged
HasRequest == /\ file[Request] # <<>>
              /\ \/ Action[file[Request][1].uuid] # ChargingSession
                 \/ exchanged

\* get_action_from_uuid finds u: files with a zero counter are not searched
Found(u) == \E f \in FileId : /\ Usable(f)
                              /\ entries[f] > 0
                              /\ Holds(file[f], u)

-----------------------------------------------------------------------------
(* Start and restart *)

UplinkInit ==
    /\ Init
    /\ bootFlag = 1
    /\ configData = TRUE
    /\ exchanged = FALSE
    /\ bootUuid = None
    /\ changed = FALSE
    /\ online = FALSE
    /\ msg = None
    /\ lastSent = None
    /\ retry = 0
    /\ critical = 0
    /\ due = TRUE
    /\ born = [u \in Uuid |-> 0]
    /\ sends = [u \in Uuid |-> 0]
    /\ accepted = {}
    /\ boots = 1

RestartRam ==
    /\ boots < MaxBoots
    /\ boots' = boots + 1
    /\ bootFlag' = 1
    /\ configData' = TRUE
    /\ exchanged' = FALSE
    /\ bootUuid' = None
    /\ changed' = FALSE
    /\ online' = FALSE
    /\ msg' = None
    /\ lastSent' = None
    /\ retry' = 0
    /\ critical' = 0
    /\ due' = TRUE

PowerLoss ==
    /\ Reboot \/ \E f \in FileId : RebootInRewrite(f)
    /\ RestartRam
    /\ UNCHANGED <<born, sends, accepted>>

\* The main loop starts mqtt_task, which preempts it before the clock is set
StartMqttTask ==
    /\ bootFlag = 1
    /\ bootFlag' = 2
    /\ UNCHANGED <<queueVars, configData, bootUuid, exchanged, changed, online,
                   senderVars, historyVars>>

SetRtc ==
    /\ bootFlag = 2
    /\ bootFlag' = 3
    /\ UNCHANGED <<queueVars, configData, bootUuid, exchanged, changed, online,
                   senderVars, historyVars>>

GoOnline ==
    /\ ~online
    /\ bootFlag \in {0, 3}
    /\ online' = TRUE
    /\ UNCHANGED <<queueVars, bootVars, exchanged, changed, senderVars,
                   historyVars>>

GoOffline ==
    /\ online
    /\ online' = FALSE
    /\ UNCHANGED <<queueVars, bootVars, exchanged, changed, senderVars,
                   historyVars>>

-----------------------------------------------------------------------------
(* mqtt_task: creating messages *)

\* save_payload_to_spiffs, which tells its caller nothing of how it ended
TrySave(f, u) ==
    \/ \E t \in Stamp : Save(f, [uuid |-> u, time |-> t])
    \/ SaveEvictsOnly(f)
    \/ UNCHANGED queueVars

Born(u) == /\ Fresh(u)
           /\ born' = [born EXCEPT ![u] = boots]

\* The configuration message; the first one of a boot is remembered as the one
\* whose answer opens the uplink.  The files are then named and counted.
CreateConfigurationData(u) ==
    /\ configData
    /\ bootFlag \in {0, 3}
    /\ Action[u] = ConfigurationData
    /\ Born(u)
    /\ \E t \in Stamp, how \in {"saved", "evicted only", "lost"} :
           LET fl == CASE how = "saved" ->
                              Saved(Request, [uuid |-> u, time |-> t])
                       [] how = "evicted only" ->
                              [file EXCEPT ![Request] = Room(Request)]
                       [] how = "lost" -> file
               en == CASE how = "saved" -> SavedEntries(Request)
                       [] how = "evicted only" ->
                              [entries EXCEPT
                                   ![Request] = Byte(Count(Request))]
                       [] how = "lost" -> entries
           IN  /\ file' = fl
               /\ entries' = CountConnectors(fl, en)
    /\ named' = TRUE
    /\ bootUuid' = IF bootFlag = 3 THEN u ELSE bootUuid
    /\ bootFlag' = 0
    /\ configData' = FALSE
    /\ UNCHANGED <<exchanged, changed, online, senderVars, sends, accepted,
                   boots>>

CreateChargingSession(u) ==
    /\ bootFlag # 1
    /\ Action[u] = ChargingSession
    /\ Born(u)
    /\ TrySave(Request, u)
    /\ UNCHANGED <<ramVars, sends, accepted, boots>>

\* The type and the player of the fault choose the file.
CreateFaultLog(u, f) ==
    /\ bootFlag # 1
    /\ Fault(u)
    /\ Usable(f)
    /\ Born(u)
    /\ TrySave(f, u)
    /\ UNCHANGED <<ramVars, sends, accepted, boots>>

CreatePeriodicData(u) ==
    /\ bootFlag # 1
    /\ online
    /\ ~changed
    /\ exchanged
    /\ Action[u] = PeriodicData
    /\ Born(u)
    /\ TrySave(Request, u)
    /\ UNCHANGED <<ramVars, sends, accepted, boots>>

-----------------------------------------------------------------------------
(* The main loop: looking for changes, reading and sending *)

\* check_config_data_changes and the flag set from its result
ConfigurationChanges ==
    /\ msg = None
    /\ exchanged
    /\ ~(changed /\ configData)
    /\ changed' = TRUE
    /\ configData' = TRUE
    /\ UNCHANGED <<queueVars, bootFlag, bootUuid, exchanged, online,
                   senderVars, historyVars>>

ReadQueuedMessage ==
    /\ msg = None
    /\ online
    /\ \/ /\ exchanged /\ HasFault
          /\ msg' = FirstFault
       \/ /\ ~(exchanged /\ HasFault)
          /\ HasRequest
          /\ msg' = file[Request][1].uuid
    /\ UNCHANGED <<queueVars, bootVars, exchanged, changed, online, lastSent,
                   retry, critical, due, historyVars>>

TooSoon == msg = lastSent /\ ~due

SkipMessage ==
    /\ msg # None
    /\ TooSoon
    /\ msg' = None
    /\ UNCHANGED <<queueVars, bootVars, exchanged, changed, online, lastSent,
                   retry, critical, due, historyVars>>

PublishFails ==
    /\ msg # None
    /\ ~TooSoon
    /\ msg' = None
    /\ due' = FALSE
    /\ UNCHANGED <<queueVars, bootVars, exchanged, changed, online, lastSent,
                   retry, critical, historyVars>>

\* Mutant: critical messages are given up like the others
CountRetryUncritical ==
    /\ retry' = IF msg = lastSent THEN (retry + 1) % RetryLimit ELSE 0
    /\ IF msg = lastSent /\ retry + 1 >= RetryLimit THEN SearchAndDelete(msg)
       ELSE UNCHANGED queueVars
    /\ UNCHANGED critical

\* Mutant: the first retry counts for two
CountRetryTwice ==
    /\ retry' = IF msg = lastSent /\ msg \notin Critical
                THEN (retry + 1) % RetryLimit
                ELSE IF msg \notin Critical THEN 1 ELSE retry
    /\ IF /\ msg = lastSent /\ msg \notin Critical
          /\ retry + 1 >= RetryLimit
       THEN SearchAndDelete(msg)
       ELSE UNCHANGED queueVars
    /\ UNCHANGED critical

\* How a publication counts.  A critical message that was sent three times more
\* only has its counter reset: delete_entry deletes nothing.
CountRetry ==
    CASE msg = lastSent /\ msg \notin Critical ->
             /\ retry' = (retry + 1) % RetryLimit
             /\ IF retry + 1 >= RetryLimit THEN SearchAndDelete(msg)
                ELSE UNCHANGED queueVars
             /\ UNCHANGED critical
      [] msg = lastSent /\ msg \in Critical ->
             /\ critical' = (critical + 1) % RetryLimit
             /\ UNCHANGED <<queueVars, retry>>
      [] msg # lastSent ->
             /\ retry' = 0
             /\ UNCHANGED <<queueVars, critical>>

Publish ==
    /\ msg # None
    /\ ~TooSoon
    /\ CountRetry
    /\ sends' = [sends EXCEPT ![msg] = IF @ < SendCap(msg) THEN @ + 1 ELSE @]
    /\ lastSent' = msg
    /\ due' = FALSE
    /\ msg' = None
    /\ UNCHANGED <<bootVars, exchanged, changed, online, born, accepted,
                   boots>>

RetryIntervalElapses ==
    /\ ~due
    /\ due' = TRUE
    /\ UNCHANGED <<queueVars, bootVars, exchanged, changed, online, msg,
                   lastSent, retry, critical, historyVars>>

-----------------------------------------------------------------------------
(* process_MQTT_msg: the answers *)

Answerable(u) == sends[u] > 0 /\ Found(u)

\* Mutant: the answer to any configuration message opens the uplink
AcceptAnyConfigurationData(u) ==
    /\ Action[u] = ConfigurationData
    /\ Answerable(u)
    /\ exchanged' = TRUE
    /\ changed' = FALSE
    /\ HandleResponse(u)
    /\ accepted' = accepted \cup {u}
    /\ UNCHANGED <<bootVars, online, senderVars, born, sends, boots>>

AcceptConfigurationData(u) ==
    /\ Action[u] = ConfigurationData
    /\ Answerable(u)
    /\ exchanged' = (exchanged \/ bootUuid = u)
    /\ changed' = FALSE
    /\ HandleResponse(u)
    /\ accepted' = accepted \cup {u}
    /\ UNCHANGED <<bootVars, online, senderVars, born, sends, boots>>

AcceptChargingSession(u) ==
    /\ Action[u] = ChargingSession
    /\ Answerable(u)
    /\ HandleResponse(u)
    /\ accepted' = accepted \cup {u}
    /\ UNCHANGED <<ramVars, born, sends, boots>>

AcceptFaultInformation(u) ==
    /\ Fault(u)
    /\ Answerable(u)
    /\ HandleFaultResponse(u)
    /\ accepted' = accepted \cup {u}
    /\ UNCHANGED <<ramVars, born, sends, boots>>

\* A late answer for a fault of an earlier boot, before the files have names
AcceptFaultRestarts(u) ==
    /\ Fault(u)
    /\ Answerable(u)
    /\ FaultResponseRestarts(u)
    /\ accepted' = accepted \cup {u}
    /\ RestartRam
    /\ UNCHANGED <<born, sends>>

\* Any answer to periodic data removes it, a malformed one too.
AnswerPeriodicData(u, valid) ==
    /\ Action[u] = PeriodicData
    /\ Answerable(u)
    /\ HandleResponse(u)
    /\ accepted' = IF valid THEN accepted \cup {u} ELSE accepted
    /\ UNCHANGED <<ramVars, born, sends, boots>>

Accept(u) ==
    \/ AcceptConfigurationData(u)
    \/ AcceptChargingSession(u)
    \/ AcceptFaultInformation(u)
    \/ AnswerPeriodicData(u, TRUE)

-----------------------------------------------------------------------------

UplinkNext ==
    \/ PowerLoss
    \/ StartMqttTask
    \/ SetRtc
    \/ GoOnline
    \/ GoOffline
    \/ \E u \in Uuid : CreateConfigurationData(u)
    \/ \E u \in Uuid : CreateChargingSession(u)
    \/ \E u \in Uuid, f \in FaultFiles : CreateFaultLog(u, f)
    \/ \E u \in Uuid : CreatePeriodicData(u)
    \/ ConfigurationChanges
    \/ ReadQueuedMessage
    \/ SkipMessage
    \/ PublishFails
    \/ Publish
    \/ RetryIntervalElapses
    \/ \E u \in Uuid : AcceptConfigurationData(u)
    \/ \E u \in Uuid : AcceptChargingSession(u)
    \/ \E u \in Uuid : AcceptFaultInformation(u)
    \/ \E u \in Uuid : AcceptFaultRestarts(u)
    \/ \E u \in Uuid, valid \in BOOLEAN : AnswerPeriodicData(u, valid)

UplinkSpec == UplinkInit /\ [][UplinkNext]_vars

\* The tasks run for ever.  The link comes back and publications get through
\* again and again, and the server accepts what it is asked to often enough;
\* nothing is assumed of the creation of messages or of restarts.
Fairness ==
    /\ WF_vars(StartMqttTask \/ SetRtc) /\ WF_vars(GoOnline)
    /\ WF_vars(\E u \in Uuid : CreateConfigurationData(u))
    /\ SF_vars(ReadQueuedMessage)
    /\ WF_vars(SkipMessage)
    /\ SF_vars(Publish)
    /\ WF_vars(RetryIntervalElapses)
    /\ \A u \in Uuid : SF_vars(Accept(u))

FairUplinkSpec == UplinkSpec /\ Fairness

-----------------------------------------------------------------------------
(* Properties *)

\* The flags and counters of the uplink keep to their ranges.
UplinkTypeOK ==
    /\ TypeOK
    /\ bootFlag \in 0 .. 3
    /\ configData \in BOOLEAN /\ exchanged \in BOOLEAN
    /\ changed \in BOOLEAN /\ online \in BOOLEAN /\ due \in BOOLEAN
    /\ bootUuid \in Uuid \cup {None}
    /\ msg \in Uuid \cup {None}
    /\ lastSent \in Uuid \cup {None}
    /\ retry \in 0 .. (RetryLimit - 1)
    /\ critical \in 0 .. (RetryLimit - 1)
    /\ born \in [Uuid -> 0 .. MaxBoots]
    /\ sends \in [Uuid -> 0 .. (RetryLimit + 1)]
    /\ accepted \in SUBSET Uuid
    /\ boots \in 1 .. MaxBoots

\* No session and no fault is published in a boot before the server accepted
\* the configuration message created in that same boot: a late answer to the
\* configuration of an earlier boot does not open the uplink.
ConfigurationFirst ==
    lastSent # None /\ Action[lastSent] \in {ChargingSession, FaultInformation}
        => /\ bootUuid \in accepted
           /\ born[bootUuid] = boots

\* Once the main loop is allowed to look for faults, the connector files have
\* names: get_queued_fault_messages reads fileNameConnector unchecked.
NamedWhenExchanged == exchanged => named

\* The retry limit gives a message up only after it was published once and
\* RetryLimit times again.
GaveUp(u) == /\ msg = u /\ msg' = None /\ boots' = boots
             /\ Queued(u) /\ ~Queued(u)'
GivesUpLate ==
    [][\A u \in Uuid :
           GaveUp(u) => sends'[u] > RetryLimit]_vars

\* The uplink keeps the promise of Delivery: a critical message leaves the
\* files only by an accepted answer, to make room for a newer message, or in a
\* restart, whatever retries, late answers and configuration changes happen.
D == INSTANCE Delivery
         WITH Message <- Uuid,
              created <- {u \in Uuid : ~Fresh(u)},
              pending <- {u \in Uuid : Queued(u)}
Delivers == D!Spec

\* Once the configuration is exchanged, every queued message is eventually
\* answered, evicted or given up, unless the PMU restarts.
Drains == \A u \in Uuid :
              exchanged /\ Queued(u) ~> ~Queued(u) \/ ~exchanged

\* app_main, on fetching the keys at boot: "to know if Config data has been
\* sent once".  Once the server has accepted a configuration, a restart should
\* not close the uplink for good: when the configuration message of the new
\* boot waits in the request file, it is eventually exchanged.  A session that
\* waits in front of it stops both.
ConfigurationStaysKnown ==
    (/\ \E u \in accepted : Action[u] = ConfigurationData
     /\ bootUuid # None
     /\ Queued(bootUuid)) ~> exchanged

=============================================================================
