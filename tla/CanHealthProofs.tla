-------------------------- MODULE CanHealthProofs ---------------------------
(***************************************************************************)
(* Proofs about CanHealth for all limits, frames and power modules.        *)
(*                                                                         *)
(* A verdict agrees with the silence because the counter of silent rounds  *)
(* runs exactly one round behind it while the verdict is good.             *)
(* A periodic message is complete because each copy of trackNoofFrames is  *)
(* contained in the one it is copied from.                                 *)
(***************************************************************************)
EXTENDS CanHealth, TLAPS

\* The counter of the MCU runs one round behind its silence.
McuInv ==
    /\ success <=> quiet = 0
    /\ status.comm = "FINE" /\ ~success => count = quiet - 1
    /\ status.comm = "FAILED" => quiet \in {0, Never}

\* So does that of each power module.
PcmInv ==
    \A k \in Module :
        /\ pcmSuccess[k] <=> pcmQuiet[k] = 0
        /\ ~pcmFailed[k] /\ ~pcmSuccess[k] => pcmCount[k] = pcmQuiet[k] - 1
        /\ pcmFailed[k] => pcmQuiet[k] \in {0, Never}

\* The rounds that differ in the frame they take are all a Round, and the rest
\* leaves what can_task keeps for itself.
Local == <<success, count, status, pcmSuccess, pcmCount, pcmFailed, config, ipc, hist>>

ARound == \E frames \in SUBSET Frame, counted \in BOOLEAN, from \in SUBSET Module,
             got \in BOOLEAN : Round(frames, counted, from, got)

LEMMA FrameIsRound ==
    ASSUME TypeOK, NEW got \in BOOLEAN, CanRound(got)
    PROVE  /\ ARound
           /\ config' \in [received : BOOLEAN, enabled : BOOLEAN]
           /\ config'.received \/ config' = config
<1>0. config \in [received : BOOLEAN, enabled : BOOLEAN]
    BY DEF TypeOK
<1>1. ASSUME NEW n \in Frame, PeriodicFrame(n, got)
      PROVE  ARound /\ config' = config
    <2>1. {n} \in SUBSET Frame /\ {} \in SUBSET Module
        OBVIOUS
    <2> QED
        BY <1>1, <2>1 DEF PeriodicFrame, ARound
<1>2. ASSUME RecordFrame(got)
      PROVE  ARound /\ config' = config
    <2>1. {} \in SUBSET Frame /\ {} \in SUBSET Module
        OBVIOUS
    <2> QED
        BY <1>2, <2>1 DEF RecordFrame, ARound
<1>3. ASSUME NEW enable \in BOOLEAN, ConfigFrame(enable, got)
      PROVE  ARound /\ config' = [received |-> TRUE, enabled |-> enable]
    <2>1. {} \in SUBSET Frame /\ {} \in SUBSET Module
        OBVIOUS
    <2> QED
        BY <1>3, <2>1 DEF ConfigFrame, ARound
<1>4. ASSUME FaultLogFrame(got)
      PROVE  ARound /\ config' = config
    <2>1. {} \in SUBSET Frame /\ {} \in SUBSET Module
        OBVIOUS
    <2> QED
        BY <1>4, <2>1 DEF FaultLogFrame, ARound
<1>5. ASSUME NEW k \in Module, PcmFrame(k, got)
      PROVE  ARound /\ config' = config
    <2>1. {} \in SUBSET Frame /\ {k} \in SUBSET Module
        OBVIOUS
    <2> QED
        BY <1>5, <2>1 DEF PcmFrame, ARound
<1>6. ASSUME NoFrame(got)
      PROVE  ARound /\ config' = config
    <2>1. {} \in SUBSET Frame /\ {} \in SUBSET Module
        OBVIOUS
    <2> QED
        BY <1>6, <2>1 DEF NoFrame, ARound
<1>7. /\ ARound
      /\ config' = config \/ \E enable \in BOOLEAN :
                                config' = [received |-> TRUE, enabled |-> enable]
    BY <1>1, <1>2, <1>3, <1>4, <1>5, <1>6, Zenon DEF CanRound
<1>8. config'.received \/ config' = config
    BY <1>7
<1>9. config' \in [received : BOOLEAN, enabled : BOOLEAN]
    <2>1. CASE config' = config
        BY <1>0, <2>1
    <2>2. ASSUME NEW enable \in BOOLEAN, config' = [received |-> TRUE, enabled |-> enable]
          PROVE  config' \in [received : BOOLEAN, enabled : BOOLEAN]
        <3>1. [received |-> TRUE, enabled |-> enable]
                  \in [received : BOOLEAN, enabled : BOOLEAN]
            OBVIOUS
        <3> QED
            BY <2>2, <3>1
    <2> QED
        BY <1>7, <2>1, <2>2
<1> QED
    BY <1>7, <1>8, <1>9

LEMMA OtherSteps ==
    ASSUME Next, \A got \in BOOLEAN : ~CanRound(got)
    PROVE  UNCHANGED Local
BY Zenon DEF Next, CopyToMQTT, Switch, Decide, MakePcm, MakeCharger, Local

-----------------------------------------------------------------------------

LEMMA HealthTypeInit == Init => TypeOK
<1> SUFFICES ASSUME Init PROVE TypeOK
    OBVIOUS
<1>1. /\ status \in [comm : Comm, frames : SUBSET Frame]
      /\ config \in [received : BOOLEAN, enabled : BOOLEAN]
      /\ ipc \in Shared
    BY DEF Init, Comm, Shared
<1>2. mqtt \in Shared
    BY <1>1 DEF Init, Shared
<1>3. /\ pcmSuccess \in [Module -> BOOLEAN] /\ pcmFailed \in [Module -> BOOLEAN]
    BY DEF Init
<1>4. /\ pcmCount \in [Module -> 0 .. Limit] /\ pcmQuiet \in [Module -> 0 .. Never]
      /\ count \in 0 .. Limit /\ quiet \in 0 .. Never
    BY CanHealthAssumption DEF Init, Never
<1> QED
    BY <1>1, <1>2, <1>3, <1>4 DEF TypeOK, Init, Comm

\* A round keeps the types.
LEMMA RoundTypes ==
    ASSUME TypeOK, NEW frames \in SUBSET Frame, NEW counted \in BOOLEAN,
           NEW from \in SUBSET Module, NEW got \in BOOLEAN,
           Round(frames, counted, from, got),
           config' \in [received : BOOLEAN, enabled : BOOLEAN]
    PROVE  TypeOK'
<1>1. count' \in 0 .. Limit /\ quiet' \in 0 .. Never
    BY CanHealthAssumption DEF TypeOK, Round, McuCount, Longer, Never
<1>2. status' \in [comm : Comm, frames : SUBSET Frame]
    BY DEF TypeOK, Round, McuComm, Comm
<1>3. /\ pcmSuccess' \in [Module -> BOOLEAN]
    BY DEF Round
<1>4. pcmFailed' \in [Module -> BOOLEAN]
    <2>1. \A k \in Module : PcmFailed(k) \in BOOLEAN
        BY DEF PcmFailed, TypeOK
    <2> QED
        BY <2>1 DEF Round
<1>5. pcmCount' \in [Module -> 0 .. Limit]
    <2>1. \A k \in Module : PcmCount(k) \in 0 .. Limit
        BY CanHealthAssumption DEF PcmCount, TypeOK
    <2> QED
        BY <2>1 DEF Round
<1>6. pcmQuiet' \in [Module -> 0 .. Never]
    <2>1. \A k \in Module : Longer(pcmQuiet[k]) \in 0 .. Never
        BY CanHealthAssumption DEF Longer, Never, TypeOK
    <2>2. 0 \in 0 .. Never
        BY CanHealthAssumption DEF Never
    <2> QED
        BY <2>1, <2>2 DEF Round
<1>7. ipc' \in Shared
    <2>1. {k \in Module : pcmFailed'[k]} \in SUBSET Module
        OBVIOUS
    <2>2. /\ status'.comm \in Comm /\ status'.frames \in SUBSET Frame
          /\ config'.enabled \in BOOLEAN
        BY <1>2
    <2>3. [comm |-> status'.comm, frames |-> status'.frames,
           failed |-> {k \in Module : pcmFailed'[k]}, enabled |-> config'.enabled]
              \in Shared
        BY <2>1, <2>2 DEF Shared
    <2>4. ipc \in Shared
        BY DEF TypeOK
    <2> QED
        BY <2>3, <2>4, Zenon DEF Round, CopyToIPC
<1>8. UNCHANGED <<mqtt, open, task>> /\ success' = counted
    BY DEF Round
<1> QED
    BY <1>1, <1>2, <1>3, <1>4, <1>5, <1>6, <1>7, <1>8 DEF TypeOK, task

LEMMA HealthTypes == ASSUME TypeOK, [Next]_vars PROVE TypeOK'
<1>1. ASSUME NEW got \in BOOLEAN, CanRound(got) PROVE TypeOK'
    <2>1. PICK frames \in SUBSET Frame, counted \in BOOLEAN, from \in SUBSET Module,
              g \in BOOLEAN : Round(frames, counted, from, g)
        BY <1>1, FrameIsRound DEF ARound
    <2> QED
        BY <1>1, <2>1, FrameIsRound, RoundTypes
<1>2. ASSUME CopyToMQTT PROVE TypeOK'
    BY <1>2 DEF TypeOK, CopyToMQTT, task, hist
<1>3. ASSUME Switch PROVE TypeOK'
    BY <1>3 DEF TypeOK, Switch, task, hist
<1>4. ASSUME Decide PROVE TypeOK'
    <2>1. Wanted \subseteq Message
        BY DEF Wanted, Message
    <2>2. mqtt.comm \in Comm
        BY DEF TypeOK, Shared
    <2> QED
        BY <1>4, <2>1, <2>2 DEF TypeOK, Decide, hist
<1>5. ASSUME MakePcm PROVE TypeOK'
    BY <1>5 DEF TypeOK, MakePcm, hist
<1>6. ASSUME MakeCharger PROVE TypeOK'
    BY <1>6 DEF TypeOK, MakeCharger, hist
<1>7. ASSUME UNCHANGED vars PROVE TypeOK'
    BY <1>7 DEF TypeOK, vars, task, hist
<1> QED
    BY <1>1, <1>2, <1>3, <1>4, <1>5, <1>6, <1>7 DEF Next

\* All variables keep their types, and no counter exceeds the limit.
THEOREM HealthTypeSafe == Spec => []TypeOK
<1>1. Init => TypeOK
    BY HealthTypeInit
<1>2. TypeOK /\ [Next]_vars => TypeOK'
    BY HealthTypes
<1> QED
    BY <1>1, <1>2, PTL DEF Spec

-----------------------------------------------------------------------------

LEMMA RoundMcu ==
    ASSUME TypeOK, McuInv, NEW frames, NEW counted \in BOOLEAN, NEW from, NEW got,
           Round(frames, counted, from, got)
    PROVE  McuInv'
<1>0. /\ Limit \in Nat \ {0} /\ Never = Limit + 2
      /\ count \in 0 .. Limit /\ quiet \in 0 .. Never /\ success \in BOOLEAN
      /\ status.comm \in {"FAILED", "FINE"}
    BY CanHealthAssumption DEF TypeOK, Comm, Never
<1>1. /\ success' = counted /\ count' = McuCount /\ status'.comm = McuComm
      /\ quiet' = IF counted THEN 0 ELSE Longer(quiet)
    BY DEF Round
<1>2. success' <=> quiet' = 0
    BY <1>0, <1>1 DEF Longer
<1>3. status'.comm = "FINE" /\ ~success' => count' = quiet' - 1
    BY <1>0, <1>1 DEF McuInv, McuCount, McuComm, Longer
<1>4. status'.comm = "FAILED" => quiet' \in {0, Never}
    BY <1>0, <1>1 DEF McuInv, McuComm, Longer
<1> QED
    BY <1>2, <1>3, <1>4 DEF McuInv, Never

LEMMA RoundPcm ==
    ASSUME TypeOK, PcmInv, NEW frames, NEW counted, NEW from, NEW got,
           Round(frames, counted, from, got)
    PROVE  PcmInv'
<1> SUFFICES ASSUME NEW k \in Module
             PROVE  /\ pcmSuccess'[k] <=> pcmQuiet'[k] = 0
                    /\ ~pcmFailed'[k] /\ ~pcmSuccess'[k]
                           => pcmCount'[k] = pcmQuiet'[k] - 1
                    /\ pcmFailed'[k] => pcmQuiet'[k] \in {0, Never}
    BY DEF PcmInv, Never
<1>0. /\ Limit \in Nat \ {0} /\ Never = Limit + 2
      /\ pcmCount[k] \in 0 .. Limit /\ pcmQuiet[k] \in 0 .. Never
      /\ pcmSuccess[k] \in BOOLEAN /\ pcmFailed[k] \in BOOLEAN
    BY CanHealthAssumption DEF TypeOK, Never
<1>1. /\ pcmSuccess'[k] <=> k \in from
      /\ pcmFailed'[k] <=> PcmFailed(k)
      /\ pcmCount'[k] = PcmCount(k)
      /\ pcmQuiet'[k] = IF k \in from THEN 0 ELSE Longer(pcmQuiet[k])
    BY DEF Round
<1>2. /\ pcmSuccess[k] <=> pcmQuiet[k] = 0
      /\ ~pcmFailed[k] /\ ~pcmSuccess[k] => pcmCount[k] = pcmQuiet[k] - 1
      /\ pcmFailed[k] => pcmQuiet[k] \in {0, Never}
    BY DEF PcmInv
<1>3. CASE pcmSuccess[k]
    BY <1>0, <1>1, <1>2, <1>3 DEF PcmCount, PcmFailed, Longer
<1>4. CASE ~pcmSuccess[k]
    BY <1>0, <1>1, <1>2, <1>4 DEF PcmCount, PcmFailed, Longer
<1> QED
    BY <1>3, <1>4

\* Whatever frames come or fail to come, FINE means that the last one is no
\* longer ago than the limit and a round, and FAILED that it is longer ago.
THEOREM VerdictsAgree == Spec => []VerdictsAreTrue
<1>1. Init => McuInv /\ PcmInv
    BY CanHealthAssumption DEF Init, McuInv, PcmInv, Never
<1>2. TypeOK /\ McuInv /\ PcmInv /\ [Next]_vars => (McuInv /\ PcmInv)'
    <2> SUFFICES ASSUME TypeOK, McuInv, PcmInv, [Next]_vars PROVE (McuInv /\ PcmInv)'
        OBVIOUS
    <2>1. ASSUME NEW got \in BOOLEAN, CanRound(got) PROVE (McuInv /\ PcmInv)'
        <3>1. PICK frames \in SUBSET Frame, counted \in BOOLEAN, from \in SUBSET Module,
                  g \in BOOLEAN : Round(frames, counted, from, g)
            BY <2>1, FrameIsRound DEF ARound
        <3> QED
            BY <3>1, RoundMcu, RoundPcm
    <2>2. ASSUME UNCHANGED Local PROVE (McuInv /\ PcmInv)'
        BY <2>2 DEF Local, hist, McuInv, PcmInv, Never
    <2>3. ASSUME UNCHANGED vars PROVE UNCHANGED Local
        BY <2>3 DEF vars, Local
    <2> QED
        BY <2>1, <2>2, <2>3, OtherSteps
<1>3. TypeOK /\ McuInv /\ PcmInv => VerdictsAreTrue
    <2> SUFFICES ASSUME TypeOK, McuInv, PcmInv PROVE VerdictsAreTrue
        OBVIOUS
    <2>1. /\ status.comm = "FINE"   => quiet <= Limit + 1
          /\ status.comm = "FAILED" => quiet \in {0, Never}
        BY CanHealthAssumption DEF TypeOK, McuInv, Never
    <2>2. ASSUME NEW k \in Module
          PROVE  IF pcmFailed[k] THEN pcmQuiet[k] \in {0, Never}
                 ELSE pcmQuiet[k] <= Limit + 1
        BY CanHealthAssumption DEF TypeOK, PcmInv, Never
    <2> QED
        BY <2>1, <2>2 DEF VerdictsAreTrue
<1> QED
    BY <1>1, <1>2, <1>3, HealthTypeSafe, PTL DEF Spec

-----------------------------------------------------------------------------

\* Frames are never forgotten, so a copy has no more of them than its source; a
\* message decided on while the MCU was fine has all it needs.
FramesInv ==
    /\ ipc.frames \subseteq status.frames
    /\ mqtt.frames \subseteq ipc.frames
    /\ "charger" \in due /\ decided = "FINE" => Required \subseteq mqtt.frames

LEMMA FramesStep == ASSUME TypeOK, FramesInv, [Next]_vars PROVE FramesInv'
<1>1. ASSUME NEW got \in BOOLEAN, CanRound(got) PROVE FramesInv'
    <2>1. PICK frames \in SUBSET Frame, counted \in BOOLEAN, from \in SUBSET Module,
              g \in BOOLEAN : Round(frames, counted, from, g)
        BY <1>1, FrameIsRound DEF ARound
    <2>2. /\ status'.frames = status.frames \union frames
          /\ UNCHANGED <<mqtt, due, decided>>
          /\ ipc' = ipc \/ ipc'.frames = status'.frames
        BY <2>1 DEF Round, CopyToIPC, task
    <2> QED
        BY <2>2 DEF FramesInv
<1>2. ASSUME CopyToMQTT PROVE FramesInv'
    BY <1>2 DEF FramesInv, CopyToMQTT, task
<1>3. ASSUME Switch PROVE FramesInv'
    BY <1>3 DEF FramesInv, Switch, task
<1>4. ASSUME Decide PROVE FramesInv'
    BY <1>4 DEF FramesInv, Decide, Wanted
<1>5. ASSUME MakePcm PROVE FramesInv'
    BY <1>5 DEF FramesInv, MakePcm
<1>6. ASSUME MakeCharger PROVE FramesInv'
    BY <1>6 DEF FramesInv, MakeCharger
<1>7. ASSUME UNCHANGED vars PROVE FramesInv'
    BY <1>7 DEF FramesInv, vars, task
<1> QED
    BY <1>1, <1>2, <1>3, <1>4, <1>5, <1>6, <1>7 DEF Next

\* A periodic message that calls the MCU fine is complete, or was decided on
\* while the MCU was lost.
THEOREM CompletePeriodic == Spec => PeriodicIsComplete
<1>1. Init => FramesInv
    BY DEF Init, FramesInv
<1>2. TypeOK /\ FramesInv /\ [Next]_vars => FramesInv'
    BY FramesStep
<1>3. TypeOK /\ FramesInv =>
          [MakeCharger /\ mqtt.comm = "FINE" =>
              Required \subseteq mqtt.frames \/ decided = "FAILED"]_vars
    BY DEF FramesInv, MakeCharger, TypeOK, Comm
<1> QED
    BY <1>1, <1>2, <1>3, HealthTypeSafe, PTL DEF Spec, PeriodicIsComplete
=============================================================================
