------------------------------ MODULE Handoff ------------------------------
(***************************************************************************)
(* How a charging session or a fault log gets from the CAN bus to the task *)
(* that makes a message of it.  The MCU sends a record in several frames;  *)
(* can_task writes them one by one into sessionInfoCAN or faultLogCAN and  *)
(* flips a one-bit toggle at the last frame (the first one of a session    *)
(* that never started).  The structures are copied CAN -> IPC by can_task  *)
(* and IPC -> MQTT by mqtt_task, each under the mutex if it gets it, and   *)
(* mqtt_task makes a message when the toggle differs from the one it saw   *)
(* last.                                                                   *)
(*                                                                         *)
(* A record is its number; a structure is, for each frame, the record that *)
(* wrote it last.  The MCU is external.  In calm behaviours it leaves      *)
(* mqtt_task time to see a record before it starts the next one, and no    *)
(* acknowledgement is lost.                                                *)
(***************************************************************************)
EXTENDS Integers, Sequences

CONSTANTS Frames,      \* last frame of a record: 9 for sessions, 8 for faults
          Records,     \* number of records the MCU sends on each channel
          Unstarted,   \* sessions of type 1 or 4, complete at frame 1
          MaxResends   \* bound on frames sent again for a lost acknowledgement

Channel == {"session", "fault"}

ASSUME HandoffAssumption ==
    /\ Frames \in [Channel -> Nat \ {0, 1}]
    /\ Records \in [Channel -> Nat]
    /\ Unstarted \subseteq 1 .. Records["session"]
    /\ MaxResends \in Nat

Short(ch, r) == ch = "session" /\ r \in Unstarted

VARIABLES
    calm,      \* time between two records, and no lost acknowledgement
    mcu,       \* what the MCU sent last: record and frame
    resends,   \* frames sent again so far
    toggleAt,  \* publishMsgFlag.toggleChargingSession: 1 or 4, 2, or 0
    can, ipc, mqtt,  \* the three copies of each structure
    received,  \* chargerConfigReceived
    enabled,   \* chargerConfigMQTT.pmuEnable
    seen,      \* publishMsgFlag.charging_session and .toggleFaultLog
    created    \* the records put into messages, in order

vars == <<calm, mcu, resends, toggleAt, can, ipc, mqtt, received, enabled,
          seen, created>>

Empty(ch) == [part |-> [i \in 1 .. Frames[ch] |-> 0],
              toggle |-> IF ch = "session" THEN 1 ELSE 0]

Init ==
    /\ calm \in BOOLEAN
    /\ mcu = [ch \in Channel |-> [rec |-> 0, frame |-> Frames[ch]]]
    /\ resends = 0
    /\ toggleAt = "none"
    /\ can = [ch \in Channel |-> Empty(ch)]
    /\ ipc = can
    /\ mqtt = can
    /\ received = FALSE
    /\ enabled = FALSE
    /\ seen = [ch \in Channel |-> can[ch].toggle]
    /\ created = [ch \in Channel |-> <<>>]

-----------------------------------------------------------------------------
(* can_task *)

\* the toggleChargingSession that holds when frame i of session r is handled
ToggleAt(r, i) == IF i # 1 THEN toggleAt
                  ELSE IF Short("session", r) THEN "first" ELSE "last"

\* Mutant: every session toggles at its first frame
TogglesEarly(ch, r, i) == IF ch = "fault" THEN i = Frames[ch] ELSE i = 1
\* Mutant: a session that was started never toggles
TogglesUnstartedOnly(ch, r, i) ==
    IF ch = "fault" THEN i = Frames[ch] ELSE i = 1 /\ Short(ch, r)
Toggles(ch, r, i) ==
    \/ ch = "fault" /\ i = Frames[ch]
    \/ ch = "session" /\ i = 1 /\ ToggleAt(r, i) = "first"
    \/ ch = "session" /\ i = Frames[ch] /\ ToggleAt(r, i) = "last"

\* handle_session_info; the date of a session that never started is cleared
\* and its later frames, if any, are not part of its message
SessionFrame(r, i) ==
    /\ toggleAt' = ToggleAt(r, i)
    /\ can' = [can EXCEPT !["session"].part[i] = r,
                          !["session"].toggle =
                              IF Toggles("session", r, i) THEN 1 - @ ELSE @]

\* Mutant: the first frame is acknowledged but not stored
FaultFrameUnstored(r, i) ==
    /\ can' = [can EXCEPT !["fault"].part[i] = IF i = 1 THEN @ ELSE r,
                          !["fault"].toggle =
                              IF Toggles("fault", r, i) THEN 1 - @ ELSE @]
    /\ UNCHANGED toggleAt

\* handle_fault_log
FaultFrame(r, i) ==
    /\ can' = [can EXCEPT !["fault"].part[i] = r,
                          !["fault"].toggle =
                              IF Toggles("fault", r, i) THEN 1 - @ ELSE @]
    /\ UNCHANGED toggleAt

\* receive_can_message; the bus delivers the MCU's frames in order
HandleFrame(ch, r, i) ==
    /\ \/ ch = "session" /\ SessionFrame(r, i)
       \/ ch = "fault" /\ FaultFrame(r, i)
    /\ mcu' = [mcu EXCEPT ![ch] = [rec |-> r, frame |-> i]]
    /\ UNCHANGED <<calm, ipc, mqtt, received, enabled, seen, created>>

Complete(ch) == \/ mcu[ch].frame = Frames[ch]
                \/ Short(ch, mcu[ch].rec)

\* mqtt_task has seen the last toggle of the channel
Seen(ch) == seen[ch] = can[ch].toggle

FirstFrame(ch) ==
    /\ Complete(ch)
    /\ mcu[ch].rec < Records[ch]
    /\ calm => Seen(ch)
    /\ HandleFrame(ch, mcu[ch].rec + 1, 1)
    /\ UNCHANGED resends

NextFrame(ch) ==
    /\ mcu[ch].frame < Frames[ch]
    /\ HandleFrame(ch, mcu[ch].rec, mcu[ch].frame + 1)
    /\ UNCHANGED resends

\* The acknowledgement was lost and the MCU sends its last frame again
SameFrame(ch) ==
    /\ ~calm
    /\ mcu[ch].rec # 0
    /\ resends < MaxResends
    /\ resends' = resends + 1
    /\ HandleFrame(ch, mcu[ch].rec, mcu[ch].frame)

ConfigReceived ==
    /\ ~received
    /\ received' = TRUE
    /\ UNCHANGED <<calm, mcu, resends, toggleAt, can, ipc, mqtt, enabled, seen,
                   created>>

\* Nothing is copied before the configuration of the charger has arrived.
CopyToIPC ==
    /\ received
    /\ ipc' = can
    /\ UNCHANGED <<calm, mcu, resends, toggleAt, can, mqtt, received, enabled,
                   seen, created>>

-----------------------------------------------------------------------------
(* mqtt_task *)

SwitchPmu ==
    /\ received
    /\ enabled' = ~enabled
    /\ UNCHANGED <<calm, mcu, resends, toggleAt, can, ipc, mqtt, received,
                   seen, created>>

\* One round: the copies are refreshed if the mutex is taken in time; a toggle
\* that differs is remembered and its structure becomes a message.
New(ch) == enabled /\ mqtt'[ch].toggle # seen[ch]

\* Mutant: a round that misses the mutex starts from empty structures
RoundFromEmpty(copy) ==
    /\ received
    /\ mqtt' = IF copy THEN ipc ELSE [ch \in Channel |-> Empty(ch)]
    /\ seen' = [ch \in Channel |->
                   IF New(ch) THEN mqtt'[ch].toggle ELSE seen[ch]]
    /\ created' = [ch \in Channel |->
                   IF New(ch) THEN Append(created[ch], mqtt'[ch].part)
                   ELSE created[ch]]
    /\ UNCHANGED <<calm, mcu, resends, toggleAt, can, ipc, received, enabled>>

Round(copy) ==
    /\ received
    /\ mqtt' = IF copy THEN ipc ELSE mqtt
    /\ seen' = [ch \in Channel |->
                   IF New(ch) THEN mqtt'[ch].toggle ELSE seen[ch]]
    /\ created' = [ch \in Channel |->
                   IF New(ch) THEN Append(created[ch], mqtt'[ch].part)
                   ELSE created[ch]]
    /\ UNCHANGED <<calm, mcu, resends, toggleAt, can, ipc, received, enabled>>

Next ==
    \/ \E ch \in Channel : FirstFrame(ch) \/ NextFrame(ch) \/ SameFrame(ch)
    \/ ConfigReceived
    \/ CopyToIPC
    \/ SwitchPmu
    \/ \E copy \in BOOLEAN : Round(copy)

Spec == Init /\ [][Next]_vars

\* The configuration arrives, the tasks run for ever, each gets the mutex again
\* and again, and the PMU does not stay disabled.
FairSpec ==
    /\ Spec
    /\ WF_vars(ConfigReceived)
    /\ WF_vars(CopyToIPC)
    /\ WF_vars(~enabled /\ SwitchPmu)
    /\ SF_vars(enabled /\ Round(TRUE))

-----------------------------------------------------------------------------
(* Properties *)

Parts(ch) == [1 .. Frames[ch] -> 0 .. Records[ch]]
Info(ch)  == [part : Parts(ch), toggle : {0, 1}]

\* The copies hold parts of records the MCU sends.
TypeOK ==
    /\ calm \in BOOLEAN
    /\ toggleAt \in {"none", "first", "last"}
    /\ \A ch \in Channel :
           /\ mcu[ch].rec \in 0 .. Records[ch]
           /\ mcu[ch].frame \in 1 .. Frames[ch]
           /\ {can[ch], ipc[ch], mqtt[ch]} \subseteq Info(ch)
           /\ seen[ch] \in {0, 1}
           /\ created[ch] \in Seq(Parts(ch))

\* In calm behaviours the message of a record is made once, in order, from its
\* own frames only, however often a task fails to take the mutex and whenever
\* the PMU is switched off and on.
Whole(ch, p) == Short(ch, p[1]) \/ \A i \in 1 .. Frames[ch] : p[i] = p[1]
EveryRecordOnce ==
    calm => \A ch \in Channel : \A k \in 1 .. Len(created[ch]) :
        /\ created[ch][k][1] = k
        /\ Whole(ch, created[ch][k])

\* ... and a record that has arrived is eventually put into a message.
EveryRecordReported ==
    \A ch \in Channel : \A r \in 1 .. Records[ch] :
        calm /\ mcu[ch].rec = r /\ Complete(ch) ~> Len(created[ch]) >= r

\* Without that time, and with frames sent again, messages may miss a record or
\* tell it twice, but they never go back to an earlier record ...
NeverBackwards ==
    \A ch \in Channel : \A k \in 1 .. (Len(created[ch]) - 1) :
        created[ch][k][1] <= created[ch][k + 1][1]

\* ... and what a torn message mixes into a record is older than the record,
\* in the frames that had not arrived again: a copy never runs ahead.
TornAtOnePlace ==
    \A ch \in Channel : \A k \in 1 .. Len(created[ch]) :
        \A i, j \in 1 .. Frames[ch] :
            i < j => created[ch][k][i] >= created[ch][k][j]

=============================================================================
