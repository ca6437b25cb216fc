--------------------------- MODULE HandoffProofs ---------------------------
(***************************************************************************)
(* What a message says of its record, for any number of records, frames    *)
(* and resends.                                                            *)
(*                                                                         *)
(* Two arguments.  At any time: the frames of a record arrive in order, so *)
(* the structures of can_task never have a later frame that is newer than  *)
(* an earlier one, and each copy is no newer than what it was made from.   *)
(* In calm behaviours: at most one toggle is unseen, and a copy whose      *)
(* toggle is unseen was made of the record that is complete at the MCU.    *)
(***************************************************************************)
EXTENDS Handoff, TLAPS

Frame(ch) == 1 .. Frames[ch]
PartsOf(ch) == [Frame(ch) -> Nat]
Struct(ch) == [part : PartsOf(ch), toggle : {0, 1}]
Structures == {s \in [Channel -> UNION {Struct(ch) : ch \in Channel}] :
                  \A ch \in Channel : s[ch] \in Struct(ch)}

TypeInv ==
    /\ mcu \in [Channel -> [rec : Nat, frame : Nat]]
    /\ \A ch \in Channel : mcu[ch].frame \in Frame(ch)
    /\ can \in Structures
    /\ ipc \in Structures
    /\ mqtt \in Structures
    /\ \A ch \in Channel : /\ seen[ch] \in {0, 1}
                           /\ created[ch] \in Seq(PartsOf(ch))

\* No frame is newer than one before it.
Falling(ch, p) == \A i, j \in Frame(ch) : i < j => p[i] >= p[j]

CopiesInv(ch) ==
    /\ \A i \in Frame(ch) : i <= mcu[ch].frame => can[ch].part[i] = mcu[ch].rec
    /\ Falling(ch, can[ch].part)
    /\ Falling(ch, ipc[ch].part)
    /\ Falling(ch, mqtt[ch].part)
    /\ mqtt[ch].part[1] <= ipc[ch].part[1]
    /\ ipc[ch].part[1] <= can[ch].part[1]

CreatedInv(ch) ==
    /\ \A k \in 1 .. Len(created[ch]) :
           /\ Falling(ch, created[ch][k])
           /\ created[ch][k][1] <= mqtt[ch].part[1]
    /\ \A k \in 1 .. (Len(created[ch]) - 1) :
           created[ch][k][1] <= created[ch][k + 1][1]

TornInv == \A ch \in Channel : CopiesInv(ch) /\ CreatedInv(ch)

\* A copy that is new to mqtt_task is the record complete at the MCU.
Current(ch, s) == s.toggle # seen[ch] => /\ s.part[1] = mcu[ch].rec
                                         /\ Whole(ch, s.part)

ToggleInv(ch) ==
    /\ mcu[ch].rec = 0 => mcu[ch].frame = Frames[ch] /\ Seen(ch)
    /\ ch = "session" /\ mcu[ch].rec # 0 =>
           toggleAt = IF Short(ch, mcu[ch].rec) THEN "first" ELSE "last"
    /\ ~Seen(ch) => Complete(ch)
    /\ Seen(ch) => ipc[ch].toggle = seen[ch] /\ mqtt[ch].toggle = seen[ch]
    /\ mqtt[ch].toggle # seen[ch] => ipc[ch].toggle # seen[ch]
    /\ Current(ch, ipc[ch])
    /\ Current(ch, mqtt[ch])

\* The records whose toggle was seen are the ones in the messages.
CountInv(ch) ==
    /\ Len(created[ch]) = IF Complete(ch) /\ Seen(ch) THEN mcu[ch].rec
                                                     ELSE mcu[ch].rec - 1
    /\ \A k \in 1 .. Len(created[ch]) : /\ created[ch][k][1] = k
                                        /\ Whole(ch, created[ch][k])

CalmInv == calm => \A ch \in Channel : ToggleInv(ch) /\ CountInv(ch)

-----------------------------------------------------------------------------
(* What a frame does *)

LEMMA FrameIsOne == ASSUME NEW ch \in Channel
                    PROVE  Frames[ch] \in Nat /\ Frames[ch] > 1 /\ 1 \in Frame(ch)
BY HandoffAssumption DEF Frame

LEMMA FrameEffect ==
    ASSUME TypeInv, NEW ch \in Channel, NEW r \in Nat, NEW i \in Frame(ch),
           HandleFrame(ch, r, i)
    PROVE  /\ can' \in Structures
           /\ can'[ch].part = [can[ch].part EXCEPT ![i] = r]
           /\ can'[ch].toggle = IF Toggles(ch, r, i) THEN 1 - can[ch].toggle
                                                     ELSE can[ch].toggle
           /\ \A o \in Channel : o # ch => can'[o] = can[o]
<1> DEFINE new == [part |-> [can[ch].part EXCEPT ![i] = r],
                   toggle |-> IF Toggles(ch, r, i) THEN 1 - can[ch].toggle
                                                   ELSE can[ch].toggle]
<1>1. can' = [can EXCEPT ![ch] = new]
  <2>1. CASE ch = "session"
    BY <2>1 DEF HandleFrame, SessionFrame, TypeInv, Structures, Struct
  <2>2. CASE ch = "fault"
    BY <2>2 DEF HandleFrame, FaultFrame, TypeInv, Structures, Struct
  <2> QED BY <2>1, <2>2 DEF Channel
<1>2. new \in Struct(ch)
  <2>1. can[ch] \in Struct(ch)
    BY DEF TypeInv, Structures
  <2>2. [can[ch].part EXCEPT ![i] = r] \in PartsOf(ch)
    BY <2>1 DEF Struct, PartsOf
  <2>3. can[ch].toggle \in {0, 1}
    BY <2>1 DEF Struct
  <2>4. (IF Toggles(ch, r, i) THEN 1 - can[ch].toggle ELSE can[ch].toggle) \in {0, 1}
    BY <2>3
  <2> QED BY <2>2, <2>4 DEF Struct
<1> HIDE DEF new
<1>3. can' \in Structures
  BY <1>1, <1>2 DEF TypeInv, Structures
<1>4. can'[ch] = new /\ \A o \in Channel : o # ch => can'[o] = can[o]
  BY <1>1 DEF TypeInv, Structures
<1> QED BY <1>3, <1>4 DEF new

\* A frame that starts a record, continues it, or is sent again.
InTurn(ch, r, i) == \/ i = 1 /\ r = mcu[ch].rec + 1
                    \/ r = mcu[ch].rec /\ i \in {mcu[ch].frame, mcu[ch].frame + 1}

LEMMA FrameIsInTurn ==
    ASSUME TypeInv, NEW ch \in Channel,
           FirstFrame(ch) \/ NextFrame(ch) \/ SameFrame(ch)
    PROVE  \E r \in Nat, i \in Frame(ch) :
               HandleFrame(ch, r, i) /\ InTurn(ch, r, i)
<1>1. mcu[ch].rec \in Nat /\ mcu[ch].frame \in Frame(ch)
  BY DEF TypeInv
<1>2. CASE FirstFrame(ch)
  BY <1>1, <1>2, FrameIsOne DEF FirstFrame, InTurn
<1>3. CASE NextFrame(ch)
  <2>1. mcu[ch].frame + 1 \in Frame(ch)
    BY <1>1, <1>3, FrameIsOne DEF NextFrame, Frame
  <2> QED BY <1>1, <1>3, <2>1 DEF NextFrame, InTurn
<1>4. CASE SameFrame(ch)
  BY <1>1, <1>4 DEF SameFrame, InTurn
<1> QED BY <1>2, <1>3, <1>4

LEMMA FrameTypes ==
    ASSUME TypeInv, NEW ch \in Channel, NEW r \in Nat, NEW i \in Frame(ch),
           HandleFrame(ch, r, i)
    PROVE  TypeInv'
<1>1. can' \in Structures
  BY FrameEffect
<1>2. /\ mcu' = [mcu EXCEPT ![ch] = [rec |-> r, frame |-> i]]
      /\ ipc' = ipc /\ mqtt' = mqtt /\ seen' = seen /\ created' = created
  BY DEF HandleFrame
<1>3. /\ mcu' \in [Channel -> [rec : Nat, frame : Nat]]
      /\ \A o \in Channel : mcu'[o].frame \in Frame(o)
  BY <1>2 DEF TypeInv, Frame
<1> QED BY <1>1, <1>2, <1>3 DEF TypeInv

LEMMA FrameCopies ==
    ASSUME TypeInv, TornInv, NEW ch \in Channel, NEW r \in Nat,
           NEW i \in Frame(ch), HandleFrame(ch, r, i), InTurn(ch, r, i)
    PROVE  TornInv'
<1>1. /\ mcu' = [mcu EXCEPT ![ch] = [rec |-> r, frame |-> i]]
      /\ ipc' = ipc /\ mqtt' = mqtt /\ created' = created
  BY DEF HandleFrame
<1>2. /\ can'[ch].part = [can[ch].part EXCEPT ![i] = r]
      /\ \A o \in Channel : o # ch => can'[o] = can[o]
  BY FrameEffect
<1>3. /\ mcu'[ch].rec = r /\ mcu'[ch].frame = i
      /\ \A o \in Channel : o # ch => mcu'[o] = mcu[o]
  BY <1>1 DEF TypeInv
<1>4. ASSUME NEW o \in Channel, o # ch PROVE CopiesInv(o)'
  BY <1>1, <1>2, <1>3, <1>4 DEF TornInv, CopiesInv, Falling
<1>5. CopiesInv(ch)'
  <2>1. CopiesInv(ch)
    BY DEF TornInv
  <2>2. can[ch].part \in [Frame(ch) -> Nat]
    BY DEF TypeInv, Structures, Struct, PartsOf
  <2>3. mcu[ch].rec \in Nat /\ mcu[ch].frame \in Frame(ch)
    BY DEF TypeInv
  <2>4. 1 \in Frame(ch) /\ Frame(ch) \subseteq Nat
    BY FrameIsOne DEF Frame
  <2>5. can[ch].part[1] = mcu[ch].rec
    BY <2>1, <2>3, <2>4 DEF CopiesInv, Frame
  <2>6. \A j \in Frame(ch) : can[ch].part[j] <= mcu[ch].rec
    BY <2>1, <2>2, <2>3, <2>4, <2>5 DEF CopiesInv, Falling, Frame
  <2>7. \A j \in Frame(ch) :
            j <= i => can'[ch].part[j] = r
    <3>1. CASE i = 1 /\ r = mcu[ch].rec + 1
      <4>1. \A j \in Frame(ch) : j <= i => j = i
        BY <3>1 DEF Frame
      <4> QED BY <1>2, <2>2, <4>1
    <3>2. CASE r = mcu[ch].rec /\ i \in {mcu[ch].frame, mcu[ch].frame + 1}
      <4>1. \A j \in Frame(ch) : j <= i => j = i \/ j <= mcu[ch].frame
        BY <2>3, <3>2 DEF Frame
      <4> QED BY <1>2, <2>1, <2>2, <3>2, <4>1 DEF CopiesInv
    <3> QED BY <3>1, <3>2 DEF InTurn
  <2>8. \A j \in Frame(ch) : can'[ch].part[j] <= r
    BY <1>2, <2>2, <2>3, <2>6 DEF InTurn
  <2>9. Falling(ch, can'[ch].part)
    <3> SUFFICES ASSUME NEW j \in Frame(ch), NEW k \in Frame(ch), j < k
                 PROVE  can'[ch].part[j] >= can'[ch].part[k]
      BY DEF Falling
    <3>1. CASE j <= i
      BY <2>7, <2>8, <3>1, <1>2, <2>2
    <3>2. CASE ~(j <= i)
      BY <1>2, <2>1, <2>2, <3>2 DEF CopiesInv, Falling, Frame
    <3> QED BY <3>1, <3>2
  <2>10. can[ch].part[1] <= can'[ch].part[1]
    BY <2>3, <2>4, <2>5, <2>7 DEF InTurn, Frame
  <2>11. ipc'[ch].part[1] <= can'[ch].part[1]
    <3>1. ipc[ch].part[1] \in Nat /\ can[ch].part[1] \in Nat /\ can'[ch].part[1] \in Nat
      BY <1>2, <2>2, <2>4 DEF TypeInv, Structures, Struct, PartsOf
    <3> QED BY <1>1, <2>1, <2>10, <3>1 DEF CopiesInv
  <2> QED BY <1>1, <1>3, <2>1, <2>7, <2>9, <2>11 DEF CopiesInv, Falling
<1>6. ASSUME NEW o \in Channel PROVE CreatedInv(o)'
  BY <1>1 DEF TornInv, CreatedInv, Falling
<1> QED BY <1>4, <1>5, <1>6 DEF TornInv

-----------------------------------------------------------------------------
(* What a round of mqtt_task does *)

LEMMA RoundEffect ==
    ASSUME TypeInv, NEW copy \in BOOLEAN, Round(copy), NEW ch \in Channel
    PROVE  /\ mqtt' = IF copy THEN ipc ELSE mqtt
           /\ mqtt'[ch] \in Struct(ch)
           /\ UNCHANGED <<calm, mcu, toggleAt, can, ipc>>
           /\ \/ /\ mqtt'[ch].toggle # seen[ch]
                 /\ seen'[ch] = mqtt'[ch].toggle
                 /\ created'[ch] = Append(created[ch], mqtt'[ch].part)
              \/ /\ seen'[ch] = seen[ch]
                 /\ created'[ch] = created[ch]
BY DEF Round, New, TypeInv, Structures

LEMMA RoundTypes ==
    ASSUME TypeInv, NEW copy \in BOOLEAN, Round(copy)
    PROVE  TypeInv'
<1>1. /\ mqtt' = IF copy THEN ipc ELSE mqtt
      /\ UNCHANGED <<mcu, can, ipc>>
  BY DEF Round
<1>2. ASSUME NEW ch \in Channel
      PROVE  seen'[ch] \in {0, 1} /\ created'[ch] \in Seq(PartsOf(ch))
  <2>1. mqtt'[ch].part \in PartsOf(ch) /\ mqtt'[ch].toggle \in {0, 1}
    BY RoundEffect DEF Struct
  <2>2. created[ch] \in Seq(PartsOf(ch)) /\ seen[ch] \in {0, 1}
    BY DEF TypeInv
  <2>3. Append(created[ch], mqtt'[ch].part) \in Seq(PartsOf(ch))
    BY <2>1, <2>2
  <2> QED BY <2>1, <2>2, <2>3, RoundEffect
<1> QED BY <1>1, <1>2 DEF TypeInv

LEMMA RoundCopies ==
    ASSUME TypeInv, TornInv, NEW copy \in BOOLEAN, Round(copy)
    PROVE  TornInv'
<1> SUFFICES ASSUME NEW ch \in Channel PROVE CopiesInv(ch)' /\ CreatedInv(ch)'
  BY DEF TornInv
<1>1. CopiesInv(ch) /\ CreatedInv(ch)
  BY DEF TornInv
<1>2. /\ mqtt' = IF copy THEN ipc ELSE mqtt
      /\ UNCHANGED <<mcu, can, ipc>>
  BY DEF Round
<1>3. /\ mqtt[ch].part \in [Frame(ch) -> Nat] /\ mqtt'[ch].part \in [Frame(ch) -> Nat]
      /\ 1 \in Frame(ch)
      /\ ipc[ch].part \in [Frame(ch) -> Nat]
  BY <1>2, FrameIsOne DEF TypeInv, Structures, Struct, PartsOf
<1>4. /\ mqtt[ch].part[1] <= mqtt'[ch].part[1]
      /\ mqtt'[ch].part[1] <= ipc[ch].part[1]
      /\ Falling(ch, mqtt'[ch].part)
  BY <1>1, <1>2, <1>3 DEF CopiesInv
<1>5. CopiesInv(ch)'
  BY <1>1, <1>2, <1>4 DEF CopiesInv, Falling
<1>6. created[ch] \in Seq(PartsOf(ch))
  BY DEF TypeInv
<1>7. \A k \in 1 .. Len(created[ch]) : created[ch][k][1] \in Nat
  BY <1>3, <1>6 DEF PartsOf
<1>8. \A k \in 1 .. Len(created[ch]) :
          Falling(ch, created[ch][k]) /\ created[ch][k][1] <= mqtt'[ch].part[1]
  BY <1>1, <1>3, <1>4, <1>7 DEF CreatedInv
<1>9. CASE created'[ch] = created[ch]
  BY <1>1, <1>5, <1>8, <1>9 DEF CreatedInv, Falling
<1>10. CASE created'[ch] = Append(created[ch], mqtt'[ch].part)
  <2> DEFINE n == Len(created[ch])
  <2>1. /\ n \in Nat
        /\ Len(created'[ch]) = n + 1
        /\ created'[ch][n + 1] = mqtt'[ch].part
        /\ \A k \in 1 .. n : created'[ch][k] = created[ch][k]
    BY <1>3, <1>6, <1>10 DEF PartsOf
  <2>2. \A k \in 1 .. (n + 1) :
            Falling(ch, created'[ch][k]) /\ created'[ch][k][1] <= mqtt'[ch].part[1]
    <3>1. \A k \in 1 .. (n + 1) : k = n + 1 \/ k \in 1 .. n
      BY <2>1
    <3>2. /\ Falling(ch, created'[ch][n + 1])
          /\ created'[ch][n + 1][1] <= mqtt'[ch].part[1]
      BY <1>3, <1>4, <2>1
    <3> QED BY <1>8, <2>1, <3>1, <3>2
  <2>3. \A k \in 1 .. n : created'[ch][k][1] <= created'[ch][k + 1][1]
    <3> SUFFICES ASSUME NEW k \in 1 .. n
                 PROVE  created'[ch][k][1] <= created'[ch][k + 1][1]
      OBVIOUS
    <3>1. CASE k = n
      BY <1>8, <2>1, <3>1
    <3>2. CASE k # n
      <4>1. k \in 1 .. (n - 1) /\ k + 1 \in 1 .. n
        BY <2>1, <3>2
      <4> QED BY <1>1, <2>1, <4>1 DEF CreatedInv
    <3> QED BY <3>1, <3>2
  <2>4. (n + 1) - 1 = n
    BY <2>1
  <2> HIDE DEF n
  <2> QED BY <1>5, <2>1, <2>2, <2>3, <2>4 DEF CreatedInv, Falling
<1> QED BY <1>5, <1>9, <1>10, RoundEffect

-----------------------------------------------------------------------------
(* Every step *)

LEMMA InitCopies == Init => TypeInv /\ TornInv
<1> SUFFICES ASSUME Init PROVE TypeInv /\ TornInv
  OBVIOUS
<1>1. \A ch \in Channel : /\ Empty(ch) \in Struct(ch)
                          /\ \A i \in Frame(ch) : Empty(ch).part[i] = 0
  BY DEF Empty, Struct, PartsOf, Frame
<1>2. /\ can = [ch \in Channel |-> Empty(ch)] /\ ipc = can /\ mqtt = can
      /\ mcu = [ch \in Channel |-> [rec |-> 0, frame |-> Frames[ch]]]
      /\ seen = [ch \in Channel |-> can[ch].toggle]
      /\ created = [ch \in Channel |-> <<>>]
  BY DEF Init
<1>3. can \in Structures
  BY <1>1, <1>2 DEF Structures
<1>4. \A ch \in Channel : /\ mcu[ch] \in [rec : Nat, frame : Nat]
                          /\ mcu[ch].frame \in Frame(ch)
                          /\ mcu[ch].rec = 0
  BY <1>2, FrameIsOne DEF Frame
<1>5. \A ch \in Channel : seen[ch] \in {0, 1} /\ created[ch] = <<>>
  BY <1>1, <1>2 DEF Struct
<1>6. TypeInv
  <2>1. mcu \in [Channel -> [rec : Nat, frame : Nat]]
    BY <1>2, <1>4
  <2>2. \A ch \in Channel : <<>> \in Seq(PartsOf(ch))
    OBVIOUS
  <2>3. \A ch \in Channel : /\ seen[ch] \in {0, 1}
                            /\ created[ch] \in Seq(PartsOf(ch))
    BY <1>5, <2>2
  <2> QED BY <1>2, <1>3, <1>4, <2>1, <2>3 DEF TypeInv
<1>7. ASSUME NEW ch \in Channel PROVE CopiesInv(ch) /\ CreatedInv(ch)
  <2>1. can[ch] = Empty(ch) /\ ipc[ch] = Empty(ch) /\ mqtt[ch] = Empty(ch)
    BY <1>2
  <2>2. \A i \in Frame(ch) : Empty(ch).part[i] = 0
    BY <1>1
  <2>3. 1 \in Frame(ch)
    BY FrameIsOne
  <2>4. Falling(ch, Empty(ch).part)
    BY <2>2 DEF Falling
  <2>5. CopiesInv(ch)
    BY <1>4, <2>1, <2>2, <2>3, <2>4 DEF CopiesInv
  <2>6. CreatedInv(ch)
    BY <1>5 DEF CreatedInv
  <2> QED BY <2>5, <2>6
<1> QED BY <1>6, <1>7 DEF TornInv

LEMMA NextCopies == TypeInv /\ TornInv /\ [Next]_vars => TypeInv' /\ TornInv'
<1> SUFFICES ASSUME TypeInv, TornInv, [Next]_vars PROVE TypeInv' /\ TornInv'
  OBVIOUS
<1>1. ASSUME NEW ch \in Channel, FirstFrame(ch) \/ NextFrame(ch) \/ SameFrame(ch)
      PROVE  TypeInv' /\ TornInv'
  BY <1>1, FrameIsInTurn, FrameTypes, FrameCopies
<1>2. CASE ConfigReceived
  BY <1>2 DEF ConfigReceived, TypeInv, TornInv, CopiesInv, CreatedInv, Falling
<1>3. CASE CopyToIPC
  <2>1. ipc' = can /\ UNCHANGED <<mcu, can, mqtt, seen, created>>
    BY <1>3 DEF CopyToIPC
  <2>2. TypeInv'
    BY <2>1 DEF TypeInv
  <2>3. ASSUME NEW ch \in Channel PROVE CopiesInv(ch)' /\ CreatedInv(ch)'
    <3>1. /\ mqtt[ch].part[1] \in Nat
          /\ ipc[ch].part[1] \in Nat
          /\ can[ch].part[1] \in Nat
      BY FrameIsOne DEF TypeInv, Structures, Struct, PartsOf
    <3> QED BY <2>1, <3>1 DEF TornInv, CopiesInv, CreatedInv, Falling
  <2> QED BY <2>2, <2>3 DEF TornInv
<1>4. CASE SwitchPmu
  BY <1>4 DEF SwitchPmu, TypeInv, TornInv, CopiesInv, CreatedInv, Falling
<1>5. ASSUME NEW copy \in BOOLEAN, Round(copy) PROVE TypeInv' /\ TornInv'
  BY <1>5, RoundTypes, RoundCopies
<1>6. CASE UNCHANGED vars
  BY <1>6 DEF vars, TypeInv, TornInv, CopiesInv, CreatedInv, Falling
<1> QED BY <1>1, <1>2, <1>3, <1>4, <1>5, <1>6 DEF Next

\* What a message mixes into a record is older and in later frames, whatever
\* frames come twice and whenever the structures are copied.
THEOREM TornMessages == Spec => []TornAtOnePlace
<1>1. TypeInv /\ TornInv => TornAtOnePlace
  BY DEF TornInv, CreatedInv, Falling, TornAtOnePlace, Frame
<1> QED BY <1>1, InitCopies, NextCopies, PTL DEF Spec

\* Messages never go back to an earlier record.
THEOREM MessagesAdvance == Spec => []NeverBackwards
<1>1. TypeInv /\ TornInv => NeverBackwards
  BY DEF TornInv, CreatedInv, NeverBackwards
<1> QED BY <1>1, InitCopies, NextCopies, PTL DEF Spec

-----------------------------------------------------------------------------
(* Calm behaviours *)

AllInv == TypeInv /\ TornInv /\ CalmInv

\* One of the two toggles that differ from a third is the other.
LEMMA Toggled == ASSUME NEW a \in {0, 1}, NEW b \in {0, 1}, NEW c \in {0, 1}
                 PROVE  /\ a # c /\ b # c => a = b
                        /\ (1 - a # c) <=> (a = c)
OBVIOUS

LEMMA ChannelTypes ==
    ASSUME TypeInv, NEW ch \in Channel
    PROVE  /\ mcu[ch].rec \in Nat /\ mcu[ch].frame \in Frame(ch)
           /\ can[ch].toggle \in {0, 1} /\ can[ch].part \in [Frame(ch) -> Nat]
           /\ ipc[ch].toggle \in {0, 1} /\ ipc[ch].part \in [Frame(ch) -> Nat]
           /\ mqtt[ch].toggle \in {0, 1} /\ mqtt[ch].part \in [Frame(ch) -> Nat]
           /\ seen[ch] \in {0, 1}
           /\ created[ch] \in Seq(PartsOf(ch))
BY DEF TypeInv, Structures, Struct, PartsOf

\* A frame of the other channel changes nothing for this one.
LEMMA OtherChannel ==
    ASSUME AllInv, calm, NEW ch \in Channel, NEW o \in Channel, o # ch,
           NEW r \in Nat, NEW i \in Frame(ch), HandleFrame(ch, r, i)
    PROVE  ToggleInv(o)' /\ CountInv(o)'
<1>1. ToggleInv(o) /\ CountInv(o)
  BY DEF AllInv, CalmInv
<1>2. /\ can'[o] = can[o]
      /\ ipc' = ipc /\ mqtt' = mqtt /\ seen' = seen /\ created' = created
  BY FrameEffect DEF AllInv, HandleFrame
<1>3. mcu'[o] = mcu[o]
  BY DEF AllInv, TypeInv, HandleFrame
<1>4. o = "session" => toggleAt' = toggleAt
  BY DEF HandleFrame, FaultFrame, Channel
<1> QED
  BY <1>1, <1>2, <1>3, <1>4
     DEF ToggleInv, CountInv, Current, Whole, Seen, Complete

LEMMA FirstFrameCalm ==
    ASSUME AllInv, calm, NEW ch \in Channel, FirstFrame(ch)
    PROVE  ToggleInv(ch)' /\ CountInv(ch)'
<1> DEFINE r == mcu[ch].rec + 1
<1>1. ToggleInv(ch) /\ CountInv(ch) /\ TypeInv
  BY DEF AllInv, CalmInv
<1>2. r \in Nat /\ r # 0 /\ r - 1 = mcu[ch].rec /\ 1 \in Frame(ch) /\ Frames[ch] > 1
  BY ChannelTypes, FrameIsOne, <1>1
<1>3. Complete(ch) /\ Seen(ch) /\ HandleFrame(ch, r, 1)
  BY DEF FirstFrame
<1>4. /\ can'[ch].toggle = IF Toggles(ch, r, 1) THEN 1 - can[ch].toggle
                                               ELSE can[ch].toggle
      /\ ipc' = ipc /\ mqtt' = mqtt /\ seen' = seen /\ created' = created
  BY <1>1, <1>2, <1>3, FrameEffect DEF HandleFrame
<1>5. mcu'[ch].rec = r /\ mcu'[ch].frame = 1
  BY <1>1, <1>3 DEF TypeInv, HandleFrame
<1>6. ch = "session" => toggleAt' = IF Short(ch, r) THEN "first" ELSE "last"
  BY <1>3 DEF HandleFrame, SessionFrame, ToggleAt, Channel
<1>7. Toggles(ch, r, 1) <=> Short(ch, r)
  BY <1>2 DEF Toggles, ToggleAt, Short, Channel
<1>8. Complete(ch)' <=> Short(ch, r)
  BY <1>2, <1>5 DEF Complete
<1>9. Seen(ch)' <=> ~Short(ch, r)
  BY <1>1, <1>3, <1>4, <1>7, ChannelTypes DEF Seen
<1>10. ipc[ch].toggle = seen[ch] /\ mqtt[ch].toggle = seen[ch]
  BY <1>1, <1>3 DEF ToggleInv
<1>11. Len(created[ch]) = mcu[ch].rec
  BY <1>1, <1>3 DEF CountInv
<1> HIDE DEF r
<1>12. ToggleInv(ch)'
  BY <1>2, <1>4, <1>5, <1>6, <1>8, <1>9, <1>10 DEF ToggleInv, Current
<1>13. CountInv(ch)'
  BY <1>1, <1>2, <1>4, <1>5, <1>8, <1>9, <1>11 DEF CountInv, Whole
<1> QED BY <1>12, <1>13

LEMMA NextFrameCalm ==
    ASSUME AllInv, calm, NEW ch \in Channel, NextFrame(ch)
    PROVE  ToggleInv(ch)' /\ CountInv(ch)'
<1> DEFINE r == mcu[ch].rec
           i == mcu[ch].frame + 1
<1>1. ToggleInv(ch) /\ CountInv(ch) /\ TypeInv
  BY DEF AllInv, CalmInv
<1>2. /\ r \in Nat /\ mcu[ch].frame < Frames[ch] /\ i \in Frame(ch) /\ i # 1
      /\ HandleFrame(ch, r, i)
  BY ChannelTypes, FrameIsOne, <1>1 DEF NextFrame, Frame
<1>3. r # 0
  BY <1>1, <1>2, FrameIsOne DEF ToggleInv, Frame
<1>4. /\ can'[ch].toggle = IF Toggles(ch, r, i) THEN 1 - can[ch].toggle
                                               ELSE can[ch].toggle
      /\ ipc' = ipc /\ mqtt' = mqtt /\ seen' = seen /\ created' = created
  BY <1>1, <1>2, FrameEffect DEF HandleFrame
<1>5. mcu'[ch].rec = r /\ mcu'[ch].frame = i
  BY <1>1, <1>2 DEF TypeInv, HandleFrame
<1>6. ch = "session" => toggleAt' = toggleAt
  BY <1>2 DEF HandleFrame, SessionFrame, ToggleAt, Channel
<1>7. Toggles(ch, r, i) <=> i = Frames[ch] /\ ~Short(ch, r)
  <2>1. CASE ch = "session"
    BY <1>1, <1>2, <1>3, <2>1 DEF Toggles, ToggleAt, ToggleInv
  <2>2. CASE ch = "fault"
    BY <2>2 DEF Toggles, Short
  <2> QED BY <2>1, <2>2 DEF Channel
<1>8. Complete(ch) <=> Short(ch, r)
  BY <1>2, FrameIsOne DEF Complete, Frame
<1>9. Complete(ch)' <=> Short(ch, r) \/ i = Frames[ch]
  BY <1>5 DEF Complete
<1>10. ~Short(ch, r) => Seen(ch)
  BY <1>1, <1>8 DEF ToggleInv
<1>11. Seen(ch)' <=> Seen(ch) /\ ~Toggles(ch, r, i)
  BY <1>1, <1>4, <1>7, <1>10, ChannelTypes DEF Seen
<1>12. ToggleInv(ch)'
  <2>1. mcu'[ch].rec # 0
    BY <1>3, <1>5
  <2>2. ch = "session" =>
            toggleAt' = IF Short(ch, mcu'[ch].rec) THEN "first" ELSE "last"
    BY <1>1, <1>3, <1>5, <1>6 DEF ToggleInv
  <2>3. ~Seen(ch)' => Complete(ch)'
    BY <1>7, <1>9, <1>10, <1>11
  <2>4. Seen(ch)' => ipc'[ch].toggle = seen'[ch] /\ mqtt'[ch].toggle = seen'[ch]
    BY <1>1, <1>4, <1>11 DEF ToggleInv
  <2>5. Current(ch, ipc[ch])' /\ Current(ch, mqtt[ch])'
    BY <1>1, <1>4, <1>5 DEF ToggleInv, Current, Whole
  <2>6. mqtt'[ch].toggle # seen'[ch] => ipc'[ch].toggle # seen'[ch]
    BY <1>1, <1>4 DEF ToggleInv
  <2> QED BY <2>1, <2>2, <2>3, <2>4, <2>5, <2>6 DEF ToggleInv
<1>13. (Complete(ch) /\ Seen(ch)) <=> (Complete(ch)' /\ Seen(ch)')
  BY <1>7, <1>8, <1>9, <1>11
<1>14. CountInv(ch)'
  BY <1>1, <1>4, <1>5, <1>13 DEF CountInv, Whole
<1> QED BY <1>12, <1>14

\* What has arrived and was not seen is whole.
LEMMA ArrivedIsWhole ==
    ASSUME AllInv, calm, NEW ch \in Channel, ~Seen(ch)
    PROVE  can[ch].part[1] = mcu[ch].rec /\ Whole(ch, can[ch].part)
<1>1. ToggleInv(ch) /\ CopiesInv(ch)
  BY DEF AllInv, CalmInv, TornInv
<1>2. mcu[ch].frame \in Frame(ch) /\ 1 \in Frame(ch)
  BY ChannelTypes, FrameIsOne DEF AllInv
<1>3. can[ch].part[1] = mcu[ch].rec
  BY <1>1, <1>2 DEF CopiesInv, Frame
<1>4. CASE mcu[ch].frame = Frames[ch]
  BY <1>1, <1>3, <1>4 DEF CopiesInv, Whole, Frame
<1>5. CASE Short(ch, mcu[ch].rec)
  BY <1>3, <1>5 DEF Whole
<1> QED BY <1>1, <1>3, <1>4, <1>5 DEF ToggleInv, Complete

LEMMA CopyCalm ==
    ASSUME AllInv, calm, CopyToIPC, NEW ch \in Channel
    PROVE  ToggleInv(ch)' /\ CountInv(ch)'
<1>1. ToggleInv(ch) /\ CountInv(ch)
  BY DEF AllInv, CalmInv
<1>2. /\ ipc' = can
      /\ UNCHANGED <<mcu, toggleAt, can, mqtt, seen, created>>
  BY DEF CopyToIPC
<1>3. /\ Seen(ch)' <=> Seen(ch)
      /\ Complete(ch)' <=> Complete(ch)
  BY <1>2 DEF Seen, Complete
<1>4. Current(ch, can[ch])
  BY ArrivedIsWhole DEF Current, Seen
<1>5. Current(ch, ipc[ch])' /\ Current(ch, mqtt[ch])'
  BY <1>1, <1>2, <1>4 DEF ToggleInv, Current, Whole
<1>6. Seen(ch) => ipc'[ch].toggle = seen[ch]
  BY <1>2 DEF Seen
<1>7. ToggleInv(ch)'
  <2>1. mqtt[ch].toggle # seen[ch] => can[ch].toggle # seen[ch]
    BY <1>1 DEF ToggleInv, Seen
  <2> QED BY <1>1, <1>2, <1>3, <1>5, <1>6, <2>1 DEF ToggleInv
<1>8. CountInv(ch)'
  BY <1>1, <1>2, <1>3 DEF CountInv, Whole
<1> QED BY <1>7, <1>8

LEMMA RoundCalm ==
    ASSUME AllInv, calm, NEW copy \in BOOLEAN, Round(copy), NEW ch \in Channel
    PROVE  ToggleInv(ch)' /\ CountInv(ch)'
<1>1. ToggleInv(ch) /\ CountInv(ch) /\ TypeInv
  BY DEF AllInv, CalmInv
<1>2. /\ mqtt' = IF copy THEN ipc ELSE mqtt
      /\ UNCHANGED <<mcu, toggleAt, can, ipc>>
  BY DEF Round
<1>3. Complete(ch)' <=> Complete(ch)
  BY <1>2 DEF Complete
<1>4. Current(ch, mqtt'[ch]) /\ Current(ch, ipc[ch])
  BY <1>1, <1>2 DEF ToggleInv
<1>5. mqtt'[ch].toggle # seen[ch] => ~Seen(ch) /\ ipc[ch].toggle # seen[ch]
  BY <1>1, <1>2 DEF ToggleInv
<1>6. mqtt'[ch].toggle \in {0, 1} /\ mqtt'[ch].part \in [Frame(ch) -> Nat]
  BY <1>1, <1>2, ChannelTypes
<1>7. CASE /\ mqtt'[ch].toggle # seen[ch]
           /\ seen'[ch] = mqtt'[ch].toggle
           /\ created'[ch] = Append(created[ch], mqtt'[ch].part)
  <2> DEFINE n == Len(created[ch])
  <2>1. Complete(ch) /\ ~Seen(ch) /\ n = mcu[ch].rec - 1
    BY <1>1, <1>5, <1>7 DEF ToggleInv, CountInv
  <2>2. mqtt'[ch].part[1] = mcu[ch].rec /\ Whole(ch, mqtt'[ch].part)
    BY <1>4, <1>7 DEF Current
  <2>3. seen'[ch] = can[ch].toggle /\ seen'[ch] = ipc[ch].toggle
    BY <1>1, <1>5, <1>6, <1>7, <2>1, ChannelTypes, Toggled DEF Seen
  <2>4. Seen(ch)'
    BY <1>2, <2>3 DEF Seen
  <2>5. mcu[ch].rec # 0
    BY <1>1, <2>1 DEF ToggleInv
  <2>6. Current(ch, ipc[ch])' /\ Current(ch, mqtt[ch])'
    BY <1>2, <1>7, <2>3 DEF Current
  <2>7. ToggleInv(ch)'
    BY <1>1, <1>2, <1>7, <2>3, <2>4, <2>5, <2>6 DEF ToggleInv
  <2>8. /\ n \in Nat
        /\ Len(created'[ch]) = n + 1
        /\ created'[ch][n + 1] = mqtt'[ch].part
        /\ \A k \in 1 .. n : created'[ch][k] = created[ch][k]
    BY <1>1, <1>6, <1>7, ChannelTypes DEF PartsOf
  <2>9. \A k \in 1 .. (n + 1) : k = n + 1 \/ k \in 1 .. n
    BY <2>8
  <2>10. n + 1 = mcu[ch].rec
    BY <1>1, <2>1, ChannelTypes
  <2>11. \A k \in 1 .. n : created[ch][k][1] = k /\ Whole(ch, created[ch][k])
    BY <1>1 DEF CountInv
  <2> HIDE DEF n
  <2>12. \A k \in 1 .. (n + 1) : /\ created'[ch][k][1] = k
                                  /\ Whole(ch, created'[ch][k])
    BY <2>2, <2>8, <2>9, <2>10, <2>11
  <2>13. CountInv(ch)'
    BY <1>2, <1>3, <2>1, <2>4, <2>8, <2>10, <2>12 DEF CountInv, Whole
  <2> QED BY <2>7, <2>13
<1>8. CASE seen'[ch] = seen[ch] /\ created'[ch] = created[ch]
  <2>1. Seen(ch)' <=> Seen(ch)
    BY <1>2, <1>8 DEF Seen
  <2>2. Current(ch, ipc[ch])' /\ Current(ch, mqtt[ch])'
    BY <1>2, <1>4, <1>8 DEF Current, Whole
  <2>3. Seen(ch) => mqtt'[ch].toggle = seen[ch]
    BY <1>1, <1>2 DEF ToggleInv
  <2>4. ToggleInv(ch)'
    BY <1>1, <1>2, <1>3, <1>5, <1>8, <2>1, <2>2, <2>3 DEF ToggleInv
  <2>5. CountInv(ch)'
    BY <1>1, <1>2, <1>3, <1>8, <2>1 DEF CountInv, Whole
  <2> QED BY <2>4, <2>5
<1> QED BY <1>1, <1>7, <1>8, RoundEffect

LEMMA InitCalm == Init => CalmInv
<1> SUFFICES ASSUME Init, NEW ch \in Channel PROVE ToggleInv(ch) /\ CountInv(ch)
  BY DEF CalmInv
<1>1. /\ mcu[ch].rec = 0 /\ mcu[ch].frame = Frames[ch]
      /\ ipc[ch] = can[ch] /\ mqtt[ch] = can[ch]
      /\ seen[ch] = can[ch].toggle
      /\ created[ch] = <<>>
  BY DEF Init
<1> QED BY <1>1 DEF ToggleInv, CountInv, Current, Seen, Complete

LEMMA NextCalm == AllInv /\ [Next]_vars => AllInv'
<1> SUFFICES ASSUME AllInv, [Next]_vars PROVE AllInv'
  OBVIOUS
<1>1. TypeInv' /\ TornInv'
  BY NextCopies DEF AllInv
<1>2. calm' = calm
  BY DEF Next, vars, FirstFrame, NextFrame, SameFrame, HandleFrame,
         ConfigReceived, CopyToIPC, SwitchPmu, Round
<1>3. ASSUME calm, NEW o \in Channel PROVE ToggleInv(o)' /\ CountInv(o)'
  <2>1. ASSUME NEW ch \in Channel, FirstFrame(ch) \/ NextFrame(ch)
        PROVE  ToggleInv(o)' /\ CountInv(o)'
    <3>1. CASE o = ch
      BY <1>3, <2>1, <3>1, FirstFrameCalm, NextFrameCalm
    <3>2. CASE o # ch
      <4>1. PICK r \in Nat, i \in Frame(ch) : HandleFrame(ch, r, i)
        BY <2>1, FrameIsInTurn DEF AllInv
      <4> QED BY <1>3, <3>2, <4>1, OtherChannel
    <3> QED BY <3>1, <3>2
  <2>2. ASSUME NEW ch \in Channel PROVE ~SameFrame(ch)
    BY <1>3 DEF SameFrame
  <2>3. CASE CopyToIPC
    BY <1>3, <2>3, CopyCalm
  <2>4. ASSUME NEW copy \in BOOLEAN, Round(copy)
        PROVE  ToggleInv(o)' /\ CountInv(o)'
    BY <1>3, <2>4, RoundCalm
  <2>5. CASE ConfigReceived \/ SwitchPmu \/ UNCHANGED vars
    <3>1. UNCHANGED <<mcu, toggleAt, can, ipc, mqtt, seen, created>>
      BY <2>5 DEF ConfigReceived, SwitchPmu, vars
    <3>2. ToggleInv(o) /\ CountInv(o)
      BY <1>3 DEF AllInv, CalmInv
    <3> QED
      BY <3>1, <3>2 DEF ToggleInv, CountInv, Current, Whole, Seen, Complete
  <2> QED BY <2>1, <2>2, <2>3, <2>4, <2>5 DEF Next
<1> QED BY <1>1, <1>2, <1>3 DEF AllInv, CalmInv

\* From an MCU that leaves mqtt_task time, each record becomes one whole message.
THEOREM CalmRecords == Spec => []EveryRecordOnce
<1>1. AllInv => EveryRecordOnce
  BY DEF AllInv, CalmInv, CountInv, EveryRecordOnce
<1>2. Init => AllInv
  BY InitCopies, InitCalm DEF AllInv
<1> QED BY <1>1, <1>2, NextCalm, PTL DEF Spec

-----------------------------------------------------------------------------
(* The types *)

\* What TypeInv leaves open: the records are those of the MCU.
RecordsInv == /\ \A ch \in Channel : mcu[ch].rec <= Records[ch]
              /\ calm \in BOOLEAN
              /\ toggleAt \in {"none", "first", "last"}

LEMMA NextRecords == TypeInv /\ RecordsInv /\ [Next]_vars => RecordsInv'
<1> SUFFICES ASSUME TypeInv, RecordsInv, [Next]_vars PROVE RecordsInv'
  OBVIOUS
<1>1. ASSUME NEW ch \in Channel, NEW r \in Nat, NEW i \in Frame(ch),
             HandleFrame(ch, r, i), r <= Records[ch]
      PROVE  RecordsInv'
  <2>1. mcu' = [mcu EXCEPT ![ch] = [rec |-> r, frame |-> i]] /\ calm' = calm
    BY <1>1 DEF HandleFrame
  <2>2. toggleAt' \in {toggleAt, "first", "last"}
    BY <1>1 DEF HandleFrame, SessionFrame, FaultFrame, ToggleAt
  <2> QED BY <1>1, <2>1, <2>2 DEF TypeInv, RecordsInv
<1>2. ASSUME NEW ch \in Channel, FirstFrame(ch) \/ NextFrame(ch) \/ SameFrame(ch)
      PROVE  RecordsInv'
  <2>1. mcu[ch].rec \in Nat /\ mcu[ch].frame \in Frame(ch) /\ Records[ch] \in Nat
    BY HandoffAssumption DEF TypeInv
  <2>2. CASE FirstFrame(ch)
    <3>1. HandleFrame(ch, mcu[ch].rec + 1, 1) /\ mcu[ch].rec + 1 <= Records[ch]
      BY <2>1, <2>2 DEF FirstFrame
    <3> QED BY <1>1, <2>1, <3>1, FrameIsOne
  <2>3. CASE NextFrame(ch)
    <3>1. /\ HandleFrame(ch, mcu[ch].rec, mcu[ch].frame + 1)
          /\ mcu[ch].frame + 1 \in Frame(ch)
      BY <2>1, <2>3, FrameIsOne DEF NextFrame, Frame
    <3> QED BY <1>1, <2>1, <3>1 DEF RecordsInv
  <2>4. CASE SameFrame(ch)
    BY <1>1, <2>1, <2>4 DEF SameFrame, RecordsInv
  <2> QED BY <1>2, <2>2, <2>3, <2>4
<1>3. CASE ConfigReceived \/ CopyToIPC \/ SwitchPmu \/ UNCHANGED vars
  BY <1>3 DEF ConfigReceived, CopyToIPC, SwitchPmu, vars, RecordsInv
<1>4. ASSUME NEW copy \in BOOLEAN, Round(copy) PROVE RecordsInv'
  BY <1>4 DEF Round, RecordsInv
<1> QED BY <1>2, <1>3, <1>4 DEF Next

\* A part that is at most the first is a record of the MCU.
LEMMA PartsAreRecords ==
    ASSUME NEW ch \in Channel, NEW p \in PartsOf(ch), Falling(ch, p),
           p[1] <= Records[ch]
    PROVE  p \in Parts(ch)
<1>1. Records[ch] \in Nat
  BY HandoffAssumption
<1>2. ASSUME NEW i \in Frame(ch) PROVE p[i] \in 0 .. Records[ch]
  <2>1. p[i] \in Nat /\ p[1] \in Nat
    BY FrameIsOne DEF PartsOf
  <2>2. p[i] <= p[1]
    <3>1. CASE i = 1
      BY <2>1, <3>1
    <3>2. CASE i # 1
      <4>1. 1 < i
        BY <3>2 DEF Frame
      <4> QED BY <2>1, <4>1, FrameIsOne DEF Falling
    <3> QED BY <3>1, <3>2
  <2> QED BY <1>1, <2>1, <2>2
<1> QED BY <1>2 DEF PartsOf, Parts, Frame

LEMMA TypesFollow ==
    ASSUME TypeInv, TornInv, RecordsInv PROVE TypeOK
<1> SUFFICES ASSUME NEW ch \in Channel
             PROVE  /\ mcu[ch].rec \in 0 .. Records[ch]
                    /\ mcu[ch].frame \in 1 .. Frames[ch]
                    /\ {can[ch], ipc[ch], mqtt[ch]} \subseteq Info(ch)
                    /\ seen[ch] \in {0, 1}
                    /\ created[ch] \in Seq(Parts(ch))
  BY DEF TypeOK, RecordsInv
<1>1. CopiesInv(ch) /\ CreatedInv(ch)
  BY DEF TornInv
<1>2. mcu[ch].rec \in Nat /\ mcu[ch].frame \in Frame(ch) /\ 1 \in Frame(ch)
  BY FrameIsOne DEF TypeInv
<1>3. Records[ch] \in Nat /\ mcu[ch].rec <= Records[ch]
  BY HandoffAssumption DEF RecordsInv
<1>4. can[ch] \in Struct(ch) /\ ipc[ch] \in Struct(ch) /\ mqtt[ch] \in Struct(ch)
  BY DEF TypeInv, Structures
<1>5. /\ can[ch].part \in PartsOf(ch)
      /\ ipc[ch].part \in PartsOf(ch)
      /\ mqtt[ch].part \in PartsOf(ch)
  BY <1>4 DEF Struct
<1>6. can[ch].part[1] = mcu[ch].rec
  BY <1>1, <1>2 DEF CopiesInv, Frame
<1>7. /\ can[ch].part[1] \in Nat /\ ipc[ch].part[1] \in Nat
      /\ mqtt[ch].part[1] \in Nat
  BY <1>2, <1>5 DEF PartsOf
<1>8. /\ can[ch].part[1] <= Records[ch]
      /\ ipc[ch].part[1] <= Records[ch]
      /\ mqtt[ch].part[1] <= Records[ch]
  BY <1>1, <1>2, <1>3, <1>6, <1>7 DEF CopiesInv
<1>9. /\ can[ch].part \in Parts(ch)
      /\ ipc[ch].part \in Parts(ch)
      /\ mqtt[ch].part \in Parts(ch)
  BY <1>1, <1>5, <1>8, PartsAreRecords DEF CopiesInv
<1>10. {can[ch], ipc[ch], mqtt[ch]} \subseteq Info(ch)
  BY <1>4, <1>9 DEF Struct, Info
<1>11. created[ch] \in Seq(PartsOf(ch)) /\ seen[ch] \in {0, 1}
  BY DEF TypeInv
<1>12. ASSUME NEW k \in 1 .. Len(created[ch]) PROVE created[ch][k] \in Parts(ch)
  <2>1. created[ch][k] \in PartsOf(ch)
    BY <1>11
  <2>2. created[ch][k][1] \in Nat
    BY <1>2, <2>1 DEF PartsOf
  <2>3. created[ch][k][1] <= Records[ch]
    BY <1>1, <1>3, <1>7, <1>8, <2>2 DEF CreatedInv
  <2> QED BY <1>1, <2>1, <2>3, PartsAreRecords DEF CreatedInv
<1>13. created[ch] \in Seq(Parts(ch))
  BY <1>11, <1>12
<1> QED BY <1>2, <1>3, <1>10, <1>11, <1>13 DEF Frame

\* The copies and the messages hold parts of records the MCU sends, for any
\* number of frames and records.
THEOREM HandoffTypeSafe == Spec => []TypeOK
<1>1. Init => RecordsInv
  <2> SUFFICES ASSUME Init PROVE RecordsInv
    OBVIOUS
  <2>1. ASSUME NEW ch \in Channel PROVE mcu[ch].rec <= Records[ch]
    <3>1. mcu[ch].rec = 0 /\ Records[ch] \in Nat
      BY HandoffAssumption DEF Init
    <3> QED BY <3>1
  <2>2. calm \in BOOLEAN /\ toggleAt = "none"
    BY DEF Init
  <2> QED BY <2>1, <2>2 DEF RecordsInv
<1> QED BY <1>1, InitCopies, NextCopies, NextRecords, TypesFollow, PTL DEF Spec

=============================================================================
