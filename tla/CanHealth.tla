----------------------------- MODULE CanHealth ------------------------------
(***************************************************************************)
(* Who is heard on the CAN bus, and what the periodic messages say of it.  *)
(* Every round of can_task first judges the silence of the MCU and of each *)
(* power module by what the round before received, then takes at most one  *)
(* frame, then copies to the shared structures.  The main loop copies on   *)
(* to the structures of mqtt_task, which every 30 s decides which messages *)
(* to make, writes that of the power modules to a file, and makes that of  *)
(* the charger after it.                                                   *)
(*                                                                         *)
(* A round stands for one millisecond.  Of a frame's values only whether   *)
(* they have come is kept, as trackNoofFrames does.                        *)
(***************************************************************************)
EXTENDS Integers

CONSTANTS Frame,      \* sequence numbers of periodic frames
          Required,   \* those a periodic message waits for: 1, 5, 9 and 10
          Module,     \* the power modules
          Limit       \* rounds of silence that are tolerated: 3000

ASSUME CanHealthAssumption ==
    /\ Required \subseteq Frame
    /\ Limit \in Nat \ {0}

VARIABLES
    success,    \* chargerPeriodicStatusCAN.CANSuccess
    count,      \* MCUCANFailureCount
    status,     \* chargerPeriodicStatusCAN: MCUComm and trackNoofFrames
    pcmSuccess, \* powerModulesCAN[k].CANSuccess
    pcmCount,   \* powerModulesCAN[k].CANFailureCount
    pcmFailed,  \* powerModulesCAN[k].CANFailure
    config,     \* chargerConfigReceived, and the pmuEnable that came with it
    ipc,        \* chargerPeriodicStatusIPC, powerModulesIPC, chargerConfigIPC
    mqtt,       \* the same three of mqtt_task
    open,       \* online, configuration exchanged and no change unanswered
    due,        \* pcm_periodic_data and charger_periodic_data
    decided,    \* MCUComm when charger_periodic_data was set
    quiet,      \* rounds since a frame of the MCU that sets CANSuccess
    pcmQuiet    \* rounds since a frame of a power module

task == <<due, decided>>
hist == <<quiet, pcmQuiet>>
vars == <<success, count, status, pcmSuccess, pcmCount, pcmFailed, config, ipc,
          mqtt, open, task, hist>>

-----------------------------------------------------------------------------

Comm    == {"FAILED", "FINE"}
Message == {"pcm", "charger"}
Never   == Limit + 2   \* longer than any silence that is told apart
Shared  == [comm : Comm, frames : SUBSET Frame, failed : SUBSET Module,
            enabled : BOOLEAN]

Longer(n) == IF n < Never THEN n + 1 ELSE n

\* Mutant: fails one round early
McuCountEarly == IF success \/ count + 1 >= Limit THEN 0 ELSE count + 1

\* MCUCANFailureCount and MCUComm, first thing in a round
McuCount == IF success \/ count + 1 > Limit THEN 0 ELSE count + 1
McuComm  == IF success THEN "FINE"
            ELSE IF count + 1 > Limit THEN "FAILED"
            ELSE status.comm

\* Mutant: a module that is heard keeps its count
PcmCountKept(k) == IF pcmCount[k] + 1 > Limit THEN 0
                   ELSE IF pcmSuccess[k] THEN pcmCount[k] ELSE pcmCount[k] + 1

\* The same for each power module
PcmCount(k)  == IF pcmSuccess[k] \/ pcmCount[k] + 1 > Limit THEN 0
                ELSE pcmCount[k] + 1
PcmFailed(k) == IF pcmSuccess[k] THEN FALSE
                ELSE pcmFailed[k] \/ pcmCount[k] + 1 > Limit

\* Mutant: the power modules are left out
CopyToIPCWithoutModules(got) ==
    ipc' = IF got /\ config'.received
           THEN [ipc EXCEPT !.comm = status'.comm, !.frames = status'.frames,
                            !.enabled = config'.enabled]
           ELSE ipc

\* Last thing in a round, if the mutex is free
CopyToIPC(got) ==
    ipc' = IF got /\ config'.received
           THEN [comm    |-> status'.comm,
                 frames  |-> status'.frames,
                 failed  |-> {k \in Module : pcmFailed'[k]},
                 enabled |-> config'.enabled]
           ELSE ipc

\* A round: frames are those of trackNoofFrames, counted says whether the frame
\* sets CANSuccess, from is the power module that sent it
Round(frames, counted, from, got) ==
    /\ success' = counted
    /\ count' = McuCount
    /\ status' = [comm |-> McuComm, frames |-> status.frames \union frames]
    /\ pcmSuccess' = [k \in Module |-> k \in from]
    /\ pcmCount' = [k \in Module |-> PcmCount(k)]
    /\ pcmFailed' = [k \in Module |-> PcmFailed(k)]
    /\ CopyToIPC(got)
    /\ quiet' = IF counted THEN 0 ELSE Longer(quiet)
    /\ pcmQuiet' = [k \in Module |->
                       IF k \in from THEN 0 ELSE Longer(pcmQuiet[k])]
    /\ UNCHANGED <<mqtt, open, task>>

\* PERIODIC_DATA_ID: handle_periodic_data
PeriodicFrame(n, got) ==
    /\ UNCHANGED config
    /\ Round({n}, TRUE, {}, got)

\* FAULT_INFO_ID and SESSION_INFO_ID: acknowledged, nothing depends on them
RecordFrame(got) ==
    /\ UNCHANGED config
    /\ Round({}, TRUE, {}, got)

\* CHARGER_CONFIG_ID: the last frame of the configuration
ConfigFrame(enable, got) ==
    /\ config' = [received |-> TRUE, enabled |-> enable]
    /\ Round({}, TRUE, {}, got)

\* FAULT_LOG: handle_fault_log, without CANSuccess
FaultLogFrame(got) ==
    /\ UNCHANGED config
    /\ Round({}, FALSE, {}, got)

\* 0x21 to 0x30: handle_pcm_message
PcmFrame(k, got) ==
    /\ UNCHANGED config
    /\ Round({}, FALSE, {k}, got)

\* twai_receive has nothing
NoFrame(got) ==
    /\ UNCHANGED config
    /\ Round({}, FALSE, {}, got)

\* The main loop, when it gets the mutex
CopyToMQTT ==
    /\ mqtt' = ipc
    /\ UNCHANGED <<success, count, status, pcmSuccess, pcmCount, pcmFailed,
                   config, ipc, open, task, hist>>

\* The exchange of the configuration needs a copy of it
Switch ==
    /\ open \/ mqtt.enabled
    /\ open' = ~open
    /\ UNCHANGED <<success, count, status, pcmSuccess, pcmCount, pcmFailed,
                   config, ipc, mqtt, task, hist>>

\* Mutant: does not wait for the frames
WantedUnheard == {"pcm", "charger"}

\* Which messages are due
Wanted == {"pcm"} \union
          {m \in {"charger"} : \/ Required \subseteq mqtt.frames
                              \/ mqtt.comm = "FAILED"}

\* counterPeriodic has reached 600
Decide ==
    /\ due = {}
    /\ open /\ mqtt.enabled
    /\ due' = Wanted
    /\ decided' = mqtt.comm
    /\ UNCHANGED <<success, count, status, pcmSuccess, pcmCount, pcmFailed,
                   config, ipc, mqtt, open, hist>>

\* create_PCM_Periodic_message: a module that failed has commStatus 0 only
MakePcm ==
    /\ "pcm" \in due
    /\ due' = due \ {"pcm"}
    /\ UNCHANGED <<success, count, status, pcmSuccess, pcmCount, pcmFailed,
                   config, ipc, mqtt, open, decided, hist>>

\* create_chargerPeriodicData_message: mcuComm, and all values if it is FINE
MakeCharger ==
    /\ due = {"charger"}
    /\ due' = {}
    /\ UNCHANGED <<success, count, status, pcmSuccess, pcmCount, pcmFailed,
                   config, ipc, mqtt, open, decided, hist>>

Init ==
    /\ success = FALSE /\ count = 0
    /\ status = [comm |-> "FAILED", frames |-> {}]
    /\ pcmSuccess = [k \in Module |-> FALSE]
    /\ pcmCount = [k \in Module |-> 0]
    /\ pcmFailed = [k \in Module |-> TRUE]
    /\ config = [received |-> FALSE, enabled |-> FALSE]
    /\ ipc = [comm   |-> "FAILED", frames  |-> {},
              failed |-> Module,   enabled |-> FALSE]
    /\ mqtt = ipc
    /\ open = FALSE
    /\ due = {} /\ decided = "FAILED"
    /\ quiet = Never
    /\ pcmQuiet = [k \in Module |-> Never]

CanRound(got) ==
    \/ \E n \in Frame : PeriodicFrame(n, got)
    \/ RecordFrame(got)
    \/ \E enable \in BOOLEAN : ConfigFrame(enable, got)
    \/ FaultLogFrame(got)
    \/ \E k \in Module : PcmFrame(k, got)
    \/ NoFrame(got)

Next == \/ \E got \in BOOLEAN : CanRound(got)
        \/ CopyToMQTT
        \/ Switch
        \/ Decide \/ MakePcm \/ MakeCharger

Spec == Init /\ [][Next]_vars

\* can_task runs every millisecond and its holders give the mutex back, so that
\* again and again it gets it; so does the main loop
FairSpec == Spec /\ WF_vars(CanRound(TRUE)) /\ WF_vars(CopyToMQTT)

-----------------------------------------------------------------------------
(* Properties *)

\* The variables have their types.
TypeOK ==
    /\ success \in BOOLEAN
    /\ count \in 0 .. Limit
    /\ status \in [comm : Comm, frames : SUBSET Frame]
    /\ pcmSuccess \in [Module -> BOOLEAN]
    /\ pcmCount \in [Module -> 0 .. Limit]
    /\ pcmFailed \in [Module -> BOOLEAN]
    /\ config \in [received : BOOLEAN, enabled : BOOLEAN]
    /\ ipc \in Shared /\ mqtt \in Shared
    /\ open \in BOOLEAN
    /\ due \subseteq Message /\ decided \in Comm
    /\ quiet \in 0 .. Never
    /\ pcmQuiet \in [Module -> 0 .. Never]

\* The verdict on the MCU and on each power module agrees with the silence that
\* was kept: FINE means that a frame came within the limit and one round,
\* FAILED that none did, or that the first one has just come.
VerdictsAreTrue ==
    /\ status.comm = "FINE"   => quiet <= Limit + 1
    /\ status.comm = "FAILED" => quiet \in {0, Never}
    /\ \A k \in Module : IF pcmFailed[k] THEN pcmQuiet[k] \in {0, Never}
                         ELSE pcmQuiet[k] <= Limit + 1

\* A periodic message with mcuComm FINE lacks none of the frames 1, 5, 9 and
\* 10, unless the MCU was counted as lost when the message was decided on and
\* came back while that of the power modules was being written.
PeriodicIsComplete ==
    [][MakeCharger /\ mqtt.comm = "FINE" =>
          Required \subseteq mqtt.frames \/ decided = "FAILED"]_vars

\* When the MCU falls silent for good, mqtt_task comes to know it for good.
SilenceIsNoticed == <>[](quiet # 0) => <>[](mqtt.comm = "FAILED")

\* The same for each power module, and its return: one that is heard again and
\* again, never later than the limit, comes to count as fine for good, although
\* every module counts as failed when the PMU starts (CANFailure is set in all
\* three copies) and the copies may be skipped for any time.  Nothing is copied
\* before the configuration has come, so until then none does.
ModulesAreNoticed ==
    \A k \in Module :
        /\ <>[](pcmQuiet[k] # 0) => <>[](k \in mqtt.failed)
        /\ <>[](pcmQuiet[k] <= Limit /\ config.received)
               => <>[](k \notin mqtt.failed)
=============================================================================
