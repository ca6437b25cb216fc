---------------------------- MODULE ChargerConfig ----------------------------
(***************************************************************************)
(* The charger's configuration on its way from the MCU to the PMU over     *)
(* CAN: handle_charger_config, the part of receive_can_message that counts *)
(* configuration frames, and can_task's request for the configuration.     *)
(*                                                                         *)
(* The MCU sends one frame and waits for its acknowledgement.  Frames 1 to *)
(* 4 have fixed contents, frame 5 carries one parameter, and a string too  *)
(* long for frame 5 goes on in frames 6, 7, ...  The PMU assembles it in   *)
(* one buffer (arr), remembers by one flag per parameter which string it   *)
(* is waiting for, and stores the buffer when stringLength characters are  *)
(* in it.                                                                  *)
(*                                                                         *)
(* The length comes with the frame, in two bytes; one of them is kept, and *)
(* nothing compares it with the size of the buffer.  Once characters have  *)
(* reached the end of the buffer it has no NUL left, its readers and the   *)
(* next characters leave it, and what else they touch is up to the linker: *)
(* from then on, until the PMU restarts, nothing is said of the PMU.       *)
(*                                                                         *)
(* A character is known by the string and the position it comes from.  The *)
(* sizes of the fields the strings are stored in are abstracted.           *)
(***************************************************************************)
EXTENDS Integers, Sequences

CONSTANTS Str,          \* strings the MCU may have as values of parameters
          ParamOf,      \* the parameter each string is a value of
          LenOf,        \* its length
          CommaAt,      \* the positions of the commas in it
          FirstBytes,   \* characters in a frame 5 (4)
          NextBytes,    \* characters in a later frame (7)
          ArrSize,      \* size of arr (100)
          LenWrap,      \* values of stringLength, a uint8_t (256)
          FlagWrap,     \* values of configRequestFlag, a uint8_t (256)
          Value,        \* values of the numeric parameters
          Blank,        \* the value that is none (0xFFFFFF)
          AtFirst,      \* bound: strings the MCU may have in the beginning
          Breaks,       \* bound: restarts of the MCU
          Restarts,     \* bound: restarts of the PMU
          Changes       \* bound: changes of one parameter

Broker      == 7
StringParam == {4, 5, 6, 8, 10}      \* flagVersionInfo, ... , flagDateTime
Limit       == 3
Tariff      == 9
Eeprom      == 11
PmuEnable   == 13
Nul         == <<>>
Pad         == <<"pad">>

ASSUME ConfigAssumption ==
    /\ ParamOf \in [Str -> StringParam \union {Broker}]
    /\ LenOf \in [Str -> Nat]
    /\ CommaAt \in [Str -> SUBSET (0 .. ArrSize)]
    /\ {FirstBytes, NextBytes, ArrSize, LenWrap, FlagWrap} \subseteq Nat \ {0}
    /\ FirstBytes < ArrSize /\ ArrSize <= LenWrap
    /\ Value # {} /\ Blank \notin Value
    /\ AtFirst \subseteq Str
    /\ {Breaks, Restarts, Changes} \subseteq Nat

VARIABLES
    arr,           \* the buffer
    i,             \* characters of the current string in it
    stringLength,  \* characters the current string has
    flag,          \* string parameters waiting for their text
    giveEntry,     \* giveEntrytoPrint: the buffer was completed
    prevSeq,       \* prevSequenceNo
    stored,        \* text of each string parameter, <<>> until there is one
    number,        \* value of each numeric parameter
    identity,      \* numConnectors # 0 and a serial number is known
    eepromFault,   \* eepromFaultedFlag and eepromCommStatus = FAILED
    overrun,       \* characters reached the end of arr, or went past it
    requestFlag,   \* configRequestFlag
    received,      \* chargerConfigReceived
    mcuString,     \* the MCU: its strings, by parameter (external)
    mcuNumber,     \* the MCU: its numbers
    mcuFailed,     \* the MCU cannot read its configuration
    todo,          \* the MCU: frames not yet acknowledged
    seen,          \* history: strings of which the PMU was sent a frame
    budget         \* what is left of the bounds

bufVars == <<arr, i, stringLength, flag, giveEntry, prevSeq, stored, overrun>>
pmuVars == <<bufVars, number, identity, eepromFault, requestFlag, received, seen>>
mcuVars == <<mcuString, mcuNumber, mcuFailed, todo>>
vars    == <<pmuVars, mcuVars, budget>>

-----------------------------------------------------------------------------
(* The frames of the MCU (external). *)

Conts(s) == IF LenOf[s] <= FirstBytes THEN 0
            ELSE (LenOf[s] - FirstBytes + NextBytes - 1) \div NextBytes

StringFrames(s) ==
    <<[kind |-> "first", str |-> s]>>
    \o [k \in 1 .. Conts(s) |-> [kind |-> "next", str |-> s, part |-> k]]

Sent  == {ParamOf[s] : s \in Str}
Fixed == [n \in 1 .. 4 |-> [kind |-> "fixed", seq |-> n]]
NumberFrame(p, v) == [kind |-> "number", param |-> p, value |-> v]
TextFrames(p) == IF p \in Sent THEN StringFrames(mcuString[p]) ELSE <<>>

Whole == Fixed
         \o <<NumberFrame(Limit, mcuNumber[Limit]),
              NumberFrame(Tariff, mcuNumber[Tariff])>>
         \o TextFrames(4) \o TextFrames(5) \o TextFrames(6)
         \o TextFrames(Broker) \o TextFrames(8) \o TextFrames(10)
         \o <<[kind |-> "eeprom"], [kind |-> "last"]>>

\* character n of string s, as it is in a frame
Char(s, n) == IF n < LenOf[s] THEN <<s, n>> ELSE Pad

-----------------------------------------------------------------------------
(* handle_charger_config. *)

Least(a, b) == IF a <= b THEN a ELSE b

\* the characters a reader of the buffer sees: those before the first NUL
Text(a) == [n \in {k \in 1 .. ArrSize : \A m \in 0 .. (k - 1) : a[m] # Nul} |->
               a[n - 1]]

\* strtok puts a NUL on the commas of a version string
Tokenized(a) == [n \in 0 .. (ArrSize - 1) |->
                    IF a[n] \notin {Nul, Pad} /\ a[n][2] \in CommaAt[a[n][1]]
                    THEN Nul ELSE a[n]]

\* Sequence numbers 1 to 4: the number of connectors, the serial number
FixedFrame(f) ==
    /\ f.kind = "fixed"
    /\ identity' = (identity \/ (f.seq = 1 /\ ~mcuFailed))
    /\ UNCHANGED <<bufVars, number, eepromFault, received>>

\* Parameters 1, 2, 3, 9 and 12.  A limit of the charger or of a gun keeps its
\* value when the frame has none
NumericFrame(f) ==
    /\ f.kind = "number"
    /\ number' = IF f.param = Limit /\ f.value = Blank THEN number
                 ELSE [number EXCEPT ![f.param] = f.value]
    /\ UNCHANGED <<bufVars, identity, eepromFault, received>>

\* Parameter 11
EepromFrame(f) ==
    /\ f.kind = "eeprom"
    /\ eepromFault' = mcuFailed
    /\ UNCHANGED <<bufVars, number, identity, received>>

\* Parameter 13, pmuEnable: the configuration counts as received
LastFrame(f) ==
    /\ f.kind = "last"
    /\ received' = TRUE
    /\ UNCHANGED <<bufVars, number, identity, eepromFault>>

\* The length of string s as stringLength keeps it
LenByte(s) == LenOf[s] % LenWrap

\* The start of string s in the buffer
Started(s) == [n \in 0 .. (ArrSize - 1) |->
                  IF n < Least(FirstBytes, LenByte(s)) THEN <<s, n>> ELSE arr[n]]

\* Parameters 4, 5, 6, 8 and 10: a string begins
StringFrame(f) ==
    /\ f.kind = "first"
    /\ ParamOf[f.str] \in StringParam
    /\ flag' = flag \union {ParamOf[f.str]}
    /\ stringLength' = LenByte(f.str)
    /\ i' = Least(FirstBytes, stringLength')
    /\ arr' = Started(f.str)
    /\ UNCHANGED <<giveEntry, prevSeq, stored, overrun, number, identity,
                   eepromFault, received>>

\* Parameter 7: no flag is set, and what is in the buffer is stored at once
BrokerFrame(f) ==
    /\ f.kind = "first"
    /\ ParamOf[f.str] = Broker
    /\ stringLength' = LenByte(f.str)
    /\ i' = Least(FirstBytes, stringLength')
    /\ arr' = [n \in 0 .. (ArrSize - 1) |->
                   IF n > 0 /\ n = i' /\ i' = stringLength' THEN Nul
                   ELSE Started(f.str)[n]]
    /\ stored' = [stored EXCEPT ![Broker] = Text(arr')]
    /\ UNCHANGED <<flag, giveEntry, prevSeq, overrun, number, identity,
                   eepromFault, received>>

\* Mutant: a frame that comes again is handled again
NeverRepeated(f) == FALSE

\* The frame before had this sequence number: acknowledged and nothing else
Repeated(f) == f.kind = "next" /\ prevSeq = 5 + f.part

RepeatedFrame(f) ==
    /\ Repeated(f)
    /\ UNCHANGED <<bufVars, number, identity, eepromFault, received>>

\* Mutant: the length of the string does not stop the copy
UptoFrame == i + NextBytes

\* the buffer and its position after the characters of a frame f
Upto      == Least(i + NextBytes, stringLength)
From(f)   == FirstBytes + (f.part - 1) * NextBytes
Copied(f) == [n \in 0 .. (ArrSize - 1) |->
                 IF n \in i .. (Upto - 1) THEN Char(f.str, From(f) + n - i)
                 ELSE IF n = stringLength /\ i < stringLength /\ Upto = n
                 THEN Nul ELSE arr[n]]
Completed == giveEntry \/ (i < stringLength /\ Upto = stringLength)

\* the characters of a frame take the last place of the buffer or go past it
AtEnd     == i < stringLength /\ Upto >= ArrSize

\* Mutant: the first of them does not look at its flag
TakerUnflagged == 4

\* the first flag of those that are set, in the order the code looks at them
Taker     == CHOOSE p \in flag : \A q \in flag : p <= q

\* Sequence numbers above 5: the next characters of the current string
NextFrame(f) ==
    /\ f.kind = "next"
    /\ ~Repeated(f) /\ ~AtEnd
    /\ prevSeq' = 5 + f.part
    /\ i' = IF i < stringLength THEN Upto ELSE i
    /\ IF Completed /\ flag # {}
       THEN /\ stored' = [stored EXCEPT ![Taker] = Text(Copied(f))]
            /\ arr' = IF Taker = 4 THEN Tokenized(Copied(f)) ELSE Copied(f)
            /\ flag' = flag \ {Taker}
            /\ giveEntry' = FALSE
       ELSE /\ arr' = Copied(f)
            /\ giveEntry' = Completed
            /\ UNCHANGED <<stored, flag>>
    /\ UNCHANGED <<stringLength, overrun, number, identity, eepromFault, received>>

\* ... of a string that is longer than the buffer
EndFrame(f) ==
    /\ f.kind = "next"
    /\ ~Repeated(f) /\ AtEnd
    /\ overrun' = TRUE
    /\ UNCHANGED <<arr, i, stringLength, flag, giveEntry, prevSeq, stored,
                   number, identity, eepromFault, received>>

Handled(f) == \/ FixedFrame(f)  \/ NumericFrame(f) \/ EepromFrame(f)
              \/ LastFrame(f)   \/ StringFrame(f)  \/ BrokerFrame(f)
              \/ RepeatedFrame(f) \/ NextFrame(f)   \/ EndFrame(f)

StringOf(f) == IF f.kind \in {"first", "next"} THEN {f.str} ELSE {}

\* Mutant: every frame is counted
ReceiveCountsAll(f) ==
    /\ ~overrun
    /\ requestFlag' = (requestFlag + 1) % FlagWrap
    /\ Handled(f)
    /\ seen' = seen \union StringOf(f)

\* receive_can_message counts the frame by what was known before it
Receive(f) ==
    /\ ~overrun
    /\ requestFlag' = IF identity \/ eepromFault
                      THEN (requestFlag + 1) % FlagWrap ELSE requestFlag
    /\ Handled(f)
    /\ seen' = seen \union StringOf(f)

-----------------------------------------------------------------------------
(* The two ends. *)

\* A frame arrives and so does its acknowledgement
Deliver ==
    /\ todo # <<>>
    /\ Receive(Head(todo))
    /\ todo' = Tail(todo)
    /\ UNCHANGED <<mcuString, mcuNumber, mcuFailed, budget>>

\* The acknowledgement is lost: the MCU will send the frame again
DeliverUnacknowledged ==
    /\ todo # <<>>
    /\ Receive(Head(todo))
    /\ UNCHANGED <<mcuVars, budget>>

\* can_task: every 300 rounds while configRequestFlag is 0.  The MCU answers
\* with the whole configuration
Request ==
    /\ requestFlag = 0
    /\ todo = <<>>
    /\ todo' = Whole
    /\ UNCHANGED <<pmuVars, mcuString, mcuNumber, mcuFailed, budget>>

\* A parameter of the MCU changes and is sent on its own (external)
ChangeString(s) ==
    /\ budget.changes > 0
    /\ todo = <<>>
    /\ s # mcuString[ParamOf[s]]
    /\ mcuString' = [mcuString EXCEPT ![ParamOf[s]] = s]
    /\ todo' = StringFrames(s)
    /\ budget' = [budget EXCEPT !.changes = @ - 1]
    /\ UNCHANGED <<pmuVars, mcuNumber, mcuFailed>>

ChangeNumber(p, v) ==
    /\ budget.changes > 0
    /\ todo = <<>>
    /\ v # mcuNumber[p]
    /\ mcuNumber' = [mcuNumber EXCEPT ![p] = v]
    /\ todo' = <<NumberFrame(p, v)>>
    /\ budget' = [budget EXCEPT !.changes = @ - 1]
    /\ UNCHANGED <<pmuVars, mcuString, mcuFailed>>

\* The MCU restarts in the middle of its frames and waits for a request
McuRestart ==
    /\ budget.breaks > 0
    /\ todo # <<>>
    /\ todo' = <<>>
    /\ budget' = [budget EXCEPT !.breaks = @ - 1]
    /\ UNCHANGED <<pmuVars, mcuString, mcuNumber, mcuFailed>>

\* The globals when the PMU starts
EmptyArr    == [n \in 0 .. (ArrSize - 1) |-> Nul]
EmptyStored == [p \in StringParam \union {Broker} |-> <<>>]
EmptyNumber == [p \in {Limit, Tariff} |-> Blank]

PmuRestart ==
    /\ budget.restarts > 0
    /\ arr' = EmptyArr
    /\ i' = 0 /\ stringLength' = 0 /\ prevSeq' = 0 /\ requestFlag' = 0
    /\ flag' = {} /\ overrun' = FALSE /\ seen' = {}
    /\ giveEntry' = FALSE /\ identity' = FALSE
    /\ eepromFault' = FALSE /\ received' = FALSE
    /\ stored' = EmptyStored
    /\ number' = EmptyNumber
    /\ budget' = [budget EXCEPT !.restarts = @ - 1]
    /\ UNCHANGED mcuVars

\* The MCU has a string for each parameter, and numbers: nothing but equality
\* tells one value from another, so it may as well begin with any
Init == /\ arr = EmptyArr
        /\ i = 0 /\ stringLength = 0 /\ prevSeq = 0 /\ requestFlag = 0
        /\ flag = {} /\ overrun = FALSE /\ seen = {}
        /\ giveEntry = FALSE /\ identity = FALSE
        /\ eepromFault = FALSE /\ received = FALSE
        /\ stored = EmptyStored
        /\ number = EmptyNumber
        /\ mcuString \in {c \in [Sent -> AtFirst] :
                             \A p \in Sent : ParamOf[c[p]] = p}
        /\ mcuNumber = [p \in {Limit, Tariff} |-> CHOOSE v \in Value : TRUE]
        /\ mcuFailed \in BOOLEAN
        /\ todo = <<>>
        /\ budget = [breaks   |-> Breaks,
                     restarts |-> Restarts,
                     changes  |-> Changes]

Next == \/ Deliver \/ DeliverUnacknowledged \/ Request
        \/ \E s \in Str : ChangeString(s)
        \/ \E v \in Value : ChangeNumber(Tariff, v)
        \/ \E v \in Value \union {Blank} : ChangeNumber(Limit, v)
        \/ McuRestart \/ PmuRestart

Spec == Init /\ [][Next]_vars

\* The MCU repeats a frame until one acknowledgement arrives; can_task runs
FairSpec == Spec /\ WF_vars(Deliver) /\ WF_vars(Request)

-----------------------------------------------------------------------------
(* Properties *)

Written(s) == [n \in 1 .. LenOf[s] |-> <<s, n - 1>>]

\* Three kinds of string the code does not bring across as it should:
\* - longer than the buffer, or than stringLength can tell;
\* - an address of the broker that goes on after its first frame.  It has no
\*   flag, so the buffer is completed for nobody, and the next string counts as
\*   complete with its first continuation frame;
\* - a string with a single continuation frame, or with none.  Its sequence
\*   number (6) or its flag is still there when the next one comes.
TooLong(s)    == LenOf[s] >= ArrSize
LongBroker(s) == ParamOf[s] = Broker /\ LenOf[s] > FirstBytes
Brief(s)      == Conts(s) = 1 \/ (Conts(s) = 0 /\ ParamOf[s] # Broker)

\* The PMU writes inside arr, and a reader of arr finds its NUL there, unless a
\* string that is too long for it was sent: no length is taken for the
\* characters of another string, and no position carried from one to the next,
\* whatever comes again, is broken off or is left out.  (The code compares no
\* length with sizeof arr.)
InsideBuffer ==
    /\ \/ i < ArrSize /\ arr[ArrSize - 1] = Nul /\ ~overrun
       \/ overrun /\ \E s \in seen : LenByte(s) >= ArrSize
    /\ i \in 0 .. stringLength /\ stringLength \in 0 .. (LenWrap - 1)
    /\ flag \subseteq StringParam /\ requestFlag \in 0 .. (FlagWrap - 1)
    /\ {giveEntry, identity, received, eepromFault, overrun} \subseteq BOOLEAN

\* What is stored is one whole string the MCU sent, of whatever parameter:
\* frames that come again, frames passed over, a string broken off by a restart
\* of either side, strings of one frame or two never leave a mixture or a part
\* of one.  It is so until the first string that is too long, or the first
\* address of a broker of more than FirstBytes characters, has come; after that
\* the code stores parts.
Stores(p)    == stored'[p] \notin {stored[p], <<>>}
NeverPartial ==
    [][\A p \in StringParam :
           Stores(p) => \/ \E s \in Str : stored'[p] = Written(s)
                        \/ \E s \in seen' : TooLong(s) \/ LongBroker(s)]_vars

\* ... and what is stored as a parameter begins as a string of that very
\* parameter, so the flags say whose the text is.  This goes for addresses of
\* brokers of any length but those with a single continuation frame; it is so
\* until the first brief string has come, or one too long, or the MCU has broken
\* one off.
Unbroken == budget.breaks = Breaks
BeginsAs(text, s) == \A n \in 1 .. (FirstBytes + NextBytes) :
                         n \in DOMAIN text /\ text[n] = <<s, n - 1>>
NeverMisplaced ==
    [][\A p \in StringParam :
           Stores(p) => \/ \E s \in Str : ParamOf[s] = p /\ BeginsAs(stored'[p], s)
                        \/ \E s \in seen' : TooLong(s) \/ Brief(s)
                        \/ ~Unbroken]_vars

\* In the end the PMU has every string and number the MCU has, whatever was
\* lost or repeated on the way, however often either of them changed and
\* wherever the PMU restarted.  It is so as long as the MCU has no string of the
\* three kinds above and breaks none off; with one of them a string may never
\* arrive.  (When the MCU cannot read its EEPROM, its last two frames alone end
\* the requests, and a restart before them loses the others.)
Plain(s) == ~TooLong(s) /\ ~LongBroker(s) /\ ~Brief(s)
Arrives ==
    ~mcuFailed /\ []Unbroken /\ [](\A p \in Sent : Plain(mcuString[p])) =>
        <>[](/\ received
             /\ \A p \in Sent : stored[p] = Written(mcuString[p])
             /\ number[Tariff] = mcuNumber[Tariff])

=============================================================================
