------------------------- MODULE ConfigReportProofs -------------------------
(***************************************************************************)
(* Proof that no change of the configuration is lost but those the code    *)
(* loses (silent, missed, late), for all parameters, groups, values and    *)
(* numbers of changes, whether mqtt_task gets the mutex or not.            *)
(*                                                                         *)
(* WillBeReported is not inductive by itself: the copy after a comparison  *)
(* keeps it only because every difference was flagged with its group, so   *)
(* the strengthening says that for as long as the mutex is held, and for   *)
(* as much as a message made without it has left (ComparedIsFlagged).      *)
(*                                                                         *)
(* And a message tells every parameter that is flagged: whenever a flag is *)
(* set, the object that carries the parameter is due (FlaggedWithGroup).   *)
(***************************************************************************)
EXTENDS ConfigReport, TLAPS

\* Parameters of messages that flag the right group
Right == Param \ (Unreported \union Misraised)

\* While the main loop is between comparison and copy, every difference has its
\* flag and the flag of its group, unless a message has just taken them away.
ComparedIsFlagged ==
    app = "compared" => \A p \in Right : Differs(p) => Due(p) \/ p \in missed

\* A limit has its value for good once it has one, and is told only then.
BlankIsUntold ==
    \A p \in Limits : /\ ipc[p] = Blank => mqtt[p] = Blank
                      /\ mqtt[p] = Blank => reported[p] = Blank

\* WillBeReported for one parameter
Safe(p) == \/ KnownToServer(p) \/ OnItsWay(p)
           \/ p \in silent \/ p \in missed \/ p \in late
           \/ p \in Misraised

ReportInv == TypeOK /\ WillBeReported /\ ComparedIsFlagged /\ BlankIsUntold

\* What the assumption says of single parameters.
LEMMA Parameters ==
    /\ Enable \in Right /\ Pcm \in Right /\ Own \in Right
    /\ Limits \subseteq Param /\ Enable \notin Limits /\ Pcm \notin Limits /\ Own \notin Limits
    /\ Group[Enable] = NoGroup /\ Enable # Pcm /\ Enable # Own /\ Pcm # Own
    /\ Blank \notin Value /\ Fault # Blank /\ OwnVersion # Blank
BY ReportAssumption DEF Right

\* The module starts in the invariant: every flag is raised.
LEMMA ReportInit == Init => ReportInv
<1> SUFFICES ASSUME Init PROVE ReportInv
    OBVIOUS
<1>1. TypeOK
    <2>1. /\ ipc \in [Param -> Known] /\ mqtt \in [Param -> Known]
          /\ failedIPC \in BOOLEAN /\ failedMQTT \in BOOLEAN
          /\ configData \in BOOLEAN /\ exchanged \in BOOLEAN
        BY Zenon DEF Init
    <2>2. reported \in [Param -> Known \union {Fault, OwnVersion}]
        BY DEF Init, Known
    <2>3. /\ flag \subseteq Param /\ silent \subseteq Param
          /\ missed \subseteq Param /\ late \subseteq Param /\ masked \in Known
          /\ app \in {"out", "compared"} /\ task \in {"idle", "prepared"}
          /\ changes \in 0 .. MaxChanges
        BY ReportAssumption DEF Init, Known
    <2> QED
        BY <2>1, <2>2, <2>3 DEF TypeOK
<1>2. WillBeReported
    <2> SUFFICES ASSUME NEW p \in Param PROVE OnItsWay(p)
        BY DEF WillBeReported
    <2>1. Coming
        BY Zenon DEF Init, Coming
    <2>2. Due(p)
        BY DEF Init, Due
    <2> QED
        BY <2>1, <2>2 DEF OnItsWay
<1>3. ComparedIsFlagged
    BY DEF Init, ComparedIsFlagged
<1>4. BlankIsUntold
    BY Parameters DEF Init, BlankIsUntold
<1> QED
    BY <1>1, <1>2, <1>3, <1>4 DEF ReportInv

\* Every step keeps the types.
LEMMA ReportTypes == ASSUME TypeOK, [Next]_vars PROVE TypeOK'
<1>1. ASSUME NEW p \in Param, NEW v \in Value, Receive(p, v) PROVE TypeOK'
    BY <1>1, ReportAssumption DEF Receive, TypeOK, Known, flags, hist
<1>2. ASSUME ReceiveHealth PROVE TypeOK'
    BY <1>2 DEF ReceiveHealth, TypeOK, flags, hist
<1>3. ASSUME Compare PROVE TypeOK'
    BY <1>3 DEF Compare, Changed, TypeOK, copies, hist
<1>4. ASSUME CopyCompared PROVE TypeOK'
    <2>1. late' \subseteq Param
        BY <1>4 DEF CopyCompared, TypeOK
    <2>2. configData' \in BOOLEAN
        BY <1>4, Zenon DEF CopyCompared, TypeOK
    <2>3. /\ UNCHANGED <<ipc, failedIPC, flags, exchanged, task, reported, masked,
                         silent, missed, changes>>
          /\ app' = "out" /\ mqtt' = ipc /\ failedMQTT' = failedIPC
        BY <1>4, Zenon DEF CopyCompared
    <2> QED
        BY <2>1, <2>2, <2>3 DEF TypeOK, flags
<1>5. ASSUME CopySilently PROVE TypeOK'
    <2>1. silent' \subseteq Param
        BY <1>5 DEF CopySilently, Changed, TypeOK
    <2> QED
        BY <1>5, <2>1 DEF CopySilently, TypeOK, flags
<1>6. ASSUME Prepare PROVE TypeOK'
    <2>1. \A p \in Param : Told(p) \in Known \union {Fault, OwnVersion}
        BY DEF Told, TypeOK
    <2>2. reported' \in [Param -> Known \union {Fault, OwnVersion}]
        BY <1>6, <2>1 DEF Prepare, TypeOK
    <2>3. masked' \in Known
        BY <1>6, Parameters DEF Prepare, TypeOK, Right
    <2>4. /\ flag' \subseteq Param /\ silent' \subseteq Param
          /\ missed' \subseteq Param /\ late' \subseteq Param
        BY <1>6 DEF Prepare, TypeOK, Changed
    <2>5. UNCHANGED <<copies, configData, exchanged, app, changes>> /\ task' = "prepared"
        BY <1>6, Zenon DEF Prepare
    <2> QED
        BY <2>2, <2>3, <2>4, <2>5 DEF TypeOK, copies
<1>7. ASSUME ClearConfigData PROVE TypeOK'
    BY <1>7 DEF ClearConfigData, TypeOK, copies, flags, hist
<1>8. ASSUME Answer PROVE TypeOK'
    BY <1>8 DEF Answer, TypeOK, copies, flags, hist
<1>9. ASSUME UNCHANGED vars PROVE TypeOK'
    BY <1>9 DEF vars, TypeOK, copies, flags, hist
<1> QED
    BY <1>1, <1>2, <1>3, <1>4, <1>5, <1>6, <1>7, <1>8, <1>9 DEF Next

\* Limits keep their values and are not told without one.
LEMMA ReportBlank ==
    ASSUME TypeOK, BlankIsUntold, [Next]_vars PROVE BlankIsUntold'
<1> SUFFICES ASSUME NEW p \in Limits
             PROVE  /\ ipc'[p] = Blank => mqtt'[p] = Blank
                    /\ mqtt'[p] = Blank => reported'[p] = Blank
    BY DEF BlankIsUntold
<1>0. /\ ipc[p] = Blank => mqtt[p] = Blank
      /\ mqtt[p] = Blank => reported[p] = Blank
      /\ p \in Param
    BY Parameters DEF BlankIsUntold
<1>1. ASSUME NEW q \in Param, NEW v \in Value, Receive(q, v)
      PROVE  mqtt' = mqtt /\ reported' = reported /\ (ipc'[p] = Blank => ipc[p] = Blank)
    BY <1>0, <1>1, Parameters DEF Receive, TypeOK
<1>2. ASSUME CopyCompared \/ CopySilently
      PROVE  ipc' = ipc /\ mqtt' = ipc /\ reported' = reported
    BY <1>2, Zenon DEF CopyCompared, CopySilently
<1>3. ASSUME Prepare
      PROVE  ipc' = ipc /\ mqtt' = mqtt /\ (mqtt[p] = Blank => reported'[p] = reported[p])
    <2>1. UNCHANGED <<ipc, mqtt>>
        BY <1>3 DEF Prepare, copies
    <2>2. mqtt[p] = Blank => ~Included(p)
        BY DEF Included
    <2>3. reported'[p] = IF Included(p) THEN Told(p) ELSE reported[p]
        BY <1>0, <1>3 DEF Prepare
    <2> QED
        BY <2>1, <2>2, <2>3
<1>4. ASSUME ReceiveHealth \/ Compare \/ ClearConfigData \/ Answer \/ UNCHANGED vars
      PROVE  UNCHANGED <<ipc, mqtt, reported>>
    BY <1>4, Zenon DEF ReceiveHealth, Compare, ClearConfigData, Answer, vars, copies
<1> QED
    BY <1>0, <1>1, <1>2, <1>3, <1>4 DEF Next

\* A comparison flags every difference, and its group if it is right.
LEMMA ComparedDue ==
    ASSUME Compare, NEW p \in Right, Differs(p) PROVE Due(p)'
<1>1. p \in Changed /\ Raises(p) = Group[p]
    BY DEF Changed, Raises, Right
<1>2. flag' = flag \union Changed /\ group' = group \union Raised
    BY DEF Compare
<1>3. Group[p] = NoGroup \/ Group[p] \in Raised
    BY <1>1 DEF Raised
<1> QED
    BY <1>1, <1>2, <1>3 DEF Due

\* Every step keeps the differences flagged while they are being copied.
LEMMA ReportFlagged ==
    ASSUME TypeOK, ComparedIsFlagged, [Next]_vars PROVE ComparedIsFlagged'
<1> SUFFICES ASSUME app' = "compared", NEW p \in Right, Differs(p)'
             PROVE  Due(p)' \/ p \in missed'
    BY DEF ComparedIsFlagged, Right
<1>0. p \in Param
    BY DEF Right
<1>1. ASSUME UNCHANGED <<app, ipc, mqtt, flags, missed>> PROVE Due(p)' \/ p \in missed'
    BY <1>1 DEF ComparedIsFlagged, Differs, Due, flags
<1>2. ASSUME Compare PROVE Due(p)'
    <2>1. Differs(p)
        BY <1>2 DEF Compare, Differs, copies
    <2> QED
        BY <1>2, <2>1, ComparedDue
<1>3. ASSUME Prepare PROVE Due(p)' \/ p \in missed'
    <2>1. app = "compared" /\ p \in Changed
        BY <1>0, <1>3 DEF Prepare, Differs, Changed, copies
    <2> QED
        BY <1>3, <2>1 DEF Prepare
<1>4. ASSUME ReceiveHealth \/ ClearConfigData \/ Answer \/ UNCHANGED vars
      PROVE  UNCHANGED <<app, ipc, mqtt, flags, missed>>
    BY <1>4, Zenon DEF ReceiveHealth, ClearConfigData, Answer, vars, copies, hist
<1>5. ~(\E q \in Param, v \in Value : Receive(q, v)) /\ ~CopyCompared /\ ~CopySilently
    BY DEF Receive, CopyCompared, CopySilently
<1> QED
    BY <1>1, <1>2, <1>3, <1>4, <1>5 DEF Next

\* What is known to the server, and what is on its way, depends on these alone.
LEMMA SameClaim ==
    ASSUME NEW p, Safe(p), UNCHANGED <<mqtt, reported, masked, silent, missed, late>>,
           Due(p) => Due(p)', Coming => Coming'
    PROVE  Safe(p)'
<1>1. KnownToServer(p) => KnownToServer(p)'
    BY DEF KnownToServer
<1>2. OnItsWay(p) => OnItsWay(p)'
    BY DEF OnItsWay, Enabled
<1> QED
    BY <1>1, <1>2 DEF Safe

\* A copy after a comparison keeps the claim about one parameter.
LEMMA SafeCompared ==
    ASSUME TypeOK, ComparedIsFlagged, NEW p \in Param \ Unreported, Safe(p), CopyCompared
    PROVE  Safe(p)'
<1>1. /\ mqtt' = ipc /\ app = "compared"
      /\ UNCHANGED <<flags, task, reported, masked, silent, missed>>
      /\ late' = IF task = "prepared" /\ Changed # {}
                 THEN late \union {q \in Param : Due(q)} ELSE late
    BY Zenon DEF CopyCompared
<1>2. configData \/ Changed # {} => configData'
    BY Zenon DEF CopyCompared
<1>3. task \in {"idle", "prepared"}
    BY DEF TypeOK
<1>4. Due(p)' <=> Due(p)
    BY <1>1 DEF Due, flags
<1>5. ASSUME Due(p), Changed # {} PROVE Safe(p)'
    <2>1. CASE task = "prepared"
        BY <1>1, <1>5, <2>1 DEF Safe
    <2>2. CASE task = "idle"
        <3>1. Coming'
            BY <1>1, <1>2, <1>5, <2>2 DEF Coming
        <3> QED
            BY <1>4, <1>5, <3>1 DEF Safe, OnItsWay
    <2> QED
        BY <1>3, <2>1, <2>2
<1>6. CASE Differs(p)
    <2>1. Changed # {}
        BY <1>6 DEF Changed
    <2>2. p \in Misraised \/ Due(p) \/ p \in missed
        BY <1>1, <1>6 DEF ComparedIsFlagged, Right
    <2> QED
        BY <1>1, <1>5, <2>1, <2>2 DEF Safe
<1>7. CASE ~Differs(p)
    <2>1. mqtt'[p] = mqtt[p]
        BY <1>1, <1>7 DEF Differs
    <2>2. KnownToServer(p) => KnownToServer(p)'
        BY <1>1, <2>1 DEF KnownToServer
    <2>3. ASSUME OnItsWay(p) PROVE Safe(p)'
        <3>1. CASE Changed # {}
            BY <1>5, <2>3, <3>1 DEF OnItsWay
        <3>2. CASE Changed = {}
            <4>1. Enabled' <=> Enabled
                BY <1>1, <3>2, Parameters DEF Changed, Differs, Enabled, Right
            <4>2. Coming => Coming'
                BY <1>1, <1>2 DEF Coming
            <4> QED
                BY <1>4, <2>3, <4>1, <4>2 DEF OnItsWay, Safe
        <3> QED
            BY <3>1, <3>2
    <2> QED
        BY <1>1, <2>2, <2>3 DEF Safe
<1> QED
    BY <1>6, <1>7

\* So does a copy without comparison.
LEMMA SafeSilently ==
    ASSUME TypeOK, NEW p \in Param \ Unreported, Safe(p), CopySilently
    PROVE  Safe(p)'
<1>1. /\ mqtt' = ipc
      /\ UNCHANGED <<flags, configData, task, reported, masked, missed, late>>
      /\ silent' = silent \union {q \in Changed : ~(Due(q) /\ Coming)}
                          \union {q \in flag : ipc[Enable] = 1 /\ ~Enabled /\ ~Coming}
    BY Zenon DEF CopySilently
<1>2. (Due(p)' <=> Due(p)) /\ (Coming' <=> Coming)
    BY <1>1 DEF Due, Coming, flags
<1>3. CASE Differs(p)
    <2>1. p \in silent' \/ (Due(p) /\ Coming)
        BY <1>1, <1>3 DEF Changed
    <2> QED
        BY <1>2, <2>1 DEF Safe, OnItsWay
<1>4. CASE ~Differs(p)
    <2>1. mqtt'[p] = mqtt[p]
        BY <1>1, <1>4 DEF Differs
    <2>2. KnownToServer(p) => KnownToServer(p)'
        BY <1>1, <2>1 DEF KnownToServer
    <2>3. ASSUME OnItsWay(p), ~Coming PROVE OnItsWay(p)' \/ p \in silent'
        <3>1. Due(p) /\ p \in flag /\ p # Enable /\ ~Enabled
            BY <2>3 DEF OnItsWay, Due
        <3>2. CASE ipc[Enable] = 1
            BY <1>1, <2>3, <3>1, <3>2
        <3>3. CASE ipc[Enable] # 1
            BY <1>1, <1>2, <3>1, <3>3 DEF OnItsWay, Enabled
        <3> QED
            BY <3>2, <3>3
    <2>4. ASSUME OnItsWay(p), Coming PROVE OnItsWay(p)'
        BY <1>2, <2>4 DEF OnItsWay
    <2> QED
        BY <1>1, <2>2, <2>3, <2>4 DEF Safe
<1> QED
    BY <1>3, <1>4

\* A message tells what it includes and leaves the rest as it is.
LEMMA PrepareTells ==
    ASSUME Prepare, NEW p \in Param
    PROVE  /\ Included(p) => reported'[p] = Told(p)
           /\ ~Included(p) => /\ reported'[p] = reported[p]
                              /\ p \in flag' <=> p \in flag
                              /\ p \in silent => p \in silent'
                              /\ p \in missed => p \in missed'
                              /\ p \in late => p \in late'
           /\ masked' = IF Included(Pcm) THEN mqtt[Pcm] ELSE masked
           /\ ~Enabled => group' = group
           /\ task = "idle" /\ task' = "prepared" /\ UNCHANGED copies
BY DEF Prepare, Cleared

\* So does a message.
LEMMA SafePrepared ==
    ASSUME TypeOK, BlankIsUntold, NEW p \in Param \ Unreported, Safe(p), Prepare
    PROVE  Safe(p)'
<1>1. UNCHANGED <<mqtt, failedMQTT>>
    BY PrepareTells DEF copies
<1>2. CASE Included(p)
    <2>1. reported'[p] = Told(p) /\ (p = Pcm => masked' = mqtt[p])
        BY <1>2, PrepareTells
    <2>2. KnownToServer(p)'
        BY <1>1, <2>1 DEF KnownToServer, Told
    <2> QED
        BY <2>2 DEF Safe
<1>3. CASE ~Included(p)
    <2>1. /\ reported'[p] = reported[p] /\ (p = Pcm => masked' = masked)
          /\ p \in silent => p \in silent'
          /\ p \in missed => p \in missed'
          /\ p \in late => p \in late'
          /\ p \in flag' <=> p \in flag
        BY <1>3, PrepareTells
    <2>2. KnownToServer(p) => KnownToServer(p)'
        BY <1>1, <2>1 DEF KnownToServer
    <2>3. ASSUME OnItsWay(p) PROVE Safe(p)'
        <3>1. (p # Enable /\ ~Enabled) \/ (p \in Limits /\ mqtt[p] = Blank)
            BY <1>3, <2>3 DEF OnItsWay, Due, Included
        <3>2. CASE p # Enable /\ ~Enabled
            <4>1. group' = group
                BY <3>2, PrepareTells
            <4>2. Due(p)'
                BY <2>1, <2>3, <4>1 DEF OnItsWay, Due
            <4> QED
                BY <1>1, <3>2, <4>2 DEF Safe, OnItsWay, Enabled
        <3>3. CASE p \in Limits /\ mqtt[p] = Blank
            <4>1. reported'[p] = mqtt'[p] /\ p # Own
                BY <1>1, <2>1, <3>3, Parameters DEF BlankIsUntold
            <4> QED
                BY <4>1 DEF Safe, KnownToServer
        <3> QED
            BY <3>1, <3>2, <3>3
    <2> QED
        BY <2>1, <2>2, <2>3 DEF Safe
<1> QED
    BY <1>2, <1>3

\* Every step keeps the claim about one parameter.
LEMMA ReportOne ==
    ASSUME ReportInv, [Next]_vars, NEW p \in Param \ Unreported
    PROVE  Safe(p)'
<1>0. Safe(p) /\ TypeOK /\ ComparedIsFlagged /\ BlankIsUntold
    BY DEF ReportInv, WillBeReported, Safe
<1>1. ASSUME UNCHANGED <<mqtt, flags, configData, task, reported, hist>> PROVE Safe(p)'
    <2>1. Due(p) => Due(p)'
        BY <1>1 DEF Due, flags
    <2>2. Coming => Coming'
        BY <1>1 DEF Coming
    <2>3. UNCHANGED <<mqtt, reported, masked, silent, missed, late>>
        BY <1>1 DEF hist
    <2> QED
        BY <1>0, <2>1, <2>2, <2>3, SameClaim
<1>2. ASSUME (\E q \in Param, v \in Value : Receive(q, v)) \/ ReceiveHealth
             \/ Answer \/ UNCHANGED vars
      PROVE  UNCHANGED <<mqtt, flags, configData, task, reported, hist>>
    BY <1>2, Zenon DEF Receive, ReceiveHealth, Answer, vars, copies
<1>3. ASSUME Compare PROVE Safe(p)'
    <2>1. Due(p) => Due(p)'
        BY <1>3 DEF Compare, Due
    <2>2. Coming => Coming'
        BY <1>3 DEF Compare, Coming
    <2>3. UNCHANGED <<mqtt, reported, masked, silent, missed, late>>
        BY <1>3 DEF Compare, copies, hist
    <2> QED
        BY <1>0, <2>1, <2>2, <2>3, SameClaim
<1>4. ASSUME ClearConfigData PROVE Safe(p)'
    <2>1. Due(p) => Due(p)'
        BY <1>4 DEF ClearConfigData, Due, flags
    <2>2. ~Coming
        BY <1>4 DEF ClearConfigData, Coming
    <2>3. UNCHANGED <<mqtt, reported, masked, silent, missed, late>>
        BY <1>4 DEF ClearConfigData, copies, hist
    <2> QED
        BY <1>0, <2>1, <2>2, <2>3, SameClaim
<1> QED
    BY <1>0, <1>1, <1>2, <1>3, <1>4, SafeCompared, SafeSilently, SafePrepared DEF Next

LEMMA ReportStep == ASSUME ReportInv, [Next]_vars PROVE ReportInv'
<1>1. TypeOK' /\ ComparedIsFlagged' /\ BlankIsUntold'
    BY ReportTypes, ReportFlagged, ReportBlank DEF ReportInv
<1>2. WillBeReported'
    BY ReportOne DEF WillBeReported, Safe
<1> QED
    BY <1>1, <1>2 DEF ReportInv

\* Every parameter whose value the server does not know is due for a message that
\* is coming, or has been lost in one of the named ways (WillBeReported), and
\* the values keep their types; mqtt_task may make a message with the mutex or
\* without it.
THEOREM ChangesAreNotLost == Spec => [](TypeOK /\ WillBeReported)
<1>1. Init => ReportInv
    BY ReportInit
<1>2. ReportInv /\ [Next]_vars => ReportInv'
    BY ReportStep
<1>3. ReportInv => TypeOK /\ WillBeReported
    BY DEF ReportInv
<1> QED
    BY <1>1, <1>2, <1>3, PTL DEF Spec
-----------------------------------------------------------------------------

\* A parameter that is flagged without its group is a limit without a value, or
\* was copied without comparison, or lost its group to a message made without
\* the mutex.  A message of an enabled PMU clears every group, and could leave
\* other flags behind.
FlaggedWithGroup ==
    \A p \in Right :
        p \in flag /\ p \notin silent /\ p \notin missed
        /\ ~(p \in Limits /\ mqtt[p] = Blank) => Due(p)

\* Every step keeps that.
LEMMA FlaggedStep ==
    ASSUME ReportInv, FlaggedWithGroup, [Next]_vars PROVE FlaggedWithGroup'
<1> SUFFICES ASSUME NEW p \in Right, p \in flag', p \notin silent', p \notin missed',
                    ~(p \in Limits /\ mqtt'[p] = Blank)
             PROVE  Due(p)'
    BY DEF FlaggedWithGroup, Right
<1>0. /\ p \in Param /\ p \notin Unreported
      /\ p \in flag /\ p \notin silent /\ p \notin missed
         /\ ~(p \in Limits /\ mqtt[p] = Blank) => Due(p)
    BY DEF FlaggedWithGroup, Right
<1>1. ASSUME UNCHANGED <<mqtt, flags, silent, missed>> PROVE Due(p)'
    BY <1>0, <1>1 DEF Due, flags
<1>2. ASSUME (\E q \in Param, v \in Value : Receive(q, v)) \/ ReceiveHealth
             \/ ClearConfigData \/ Answer \/ UNCHANGED vars
      PROVE  UNCHANGED <<mqtt, flags, silent, missed>>
    BY <1>2, Zenon DEF Receive, ReceiveHealth, ClearConfigData, Answer, vars, copies, hist
<1>3. ASSUME Compare PROVE Due(p)'
    <2>1. CASE Differs(p)
        BY <1>3, <2>1, ComparedDue
    <2>2. CASE ~Differs(p)
        <3>1. p \in flag /\ UNCHANGED <<mqtt, silent, missed>>
            BY <1>3, <2>2 DEF Compare, Changed, copies, hist
        <3>2. Due(p) => Due(p)'
            BY <1>3 DEF Compare, Due
        <3> QED
            BY <1>0, <3>1, <3>2
    <2> QED
        BY <2>1, <2>2
<1>4. ASSUME CopyCompared PROVE Due(p)'
    <2>1. UNCHANGED <<flags, silent, missed>> /\ mqtt' = ipc /\ app = "compared"
        BY <1>4, Zenon DEF CopyCompared
    <2>2. (Due(p)' <=> Due(p)) /\ p \in flag
        BY <2>1 DEF Due, flags
    <2>3. CASE Differs(p)
        BY <2>1, <2>2, <2>3 DEF ReportInv, ComparedIsFlagged
    <2>4. CASE ~Differs(p)
        BY <1>0, <2>1, <2>2, <2>4 DEF Differs
    <2> QED
        BY <2>3, <2>4
<1>5. ASSUME CopySilently PROVE Due(p)'
    <2>1. /\ UNCHANGED <<flags, missed>> /\ mqtt' = ipc
          /\ silent' = silent \union {q \in Changed : ~(Due(q) /\ Coming)}
                              \union {q \in flag : ipc[Enable] = 1 /\ ~Enabled /\ ~Coming}
        BY <1>5, Zenon DEF CopySilently
    <2>2. (Due(p)' <=> Due(p)) /\ p \in flag
        BY <2>1 DEF Due, flags
    <2>3. CASE Differs(p)
        BY <1>0, <2>1, <2>2, <2>3 DEF Changed
    <2>4. CASE ~Differs(p)
        BY <1>0, <2>1, <2>2, <2>4 DEF Differs
    <2> QED
        BY <2>3, <2>4
<1>6. ASSUME Prepare PROVE Due(p)'
    <2>1. mqtt' = mqtt /\ (~Enabled => group' = group)
        BY <1>0, <1>6, PrepareTells DEF copies
    <2>2. ~Included(p)
        BY <1>0, <1>6 DEF Prepare, Cleared
    <2>3. p \in flag /\ p \notin silent /\ p \notin missed
        BY <1>0, <1>6, <2>2, PrepareTells
    <2>4. Due(p)
        BY <1>0, <2>1, <2>3
    <2>5. ~Enabled
        BY <1>0, <2>1, <2>2, <2>4 DEF Included, Due
    <2> QED
        BY <2>1, <2>4, <2>5 DEF Due
<1> QED
    BY <1>1, <1>2, <1>3, <1>4, <1>5, <1>6 DEF Next

\* Every message of an enabled PMU tells the value of every parameter that has
\* been flagged (TellsFlagged), the failure of power modules in place of their
\* versions and a literal for the PMU's.
THEOREM FlaggedIsTold == Spec => TellsFlagged
<1> DEFINE Tells ==
        task = "idle" /\ task' = "prepared" /\ Enabled =>
            \A p \in flag \ (Unreported \union Misraised \union silent \union missed) :
                \/ reported'[p] = IF p = Own THEN OwnVersion ELSE mqtt[p]
                \/ p = Pcm /\ failedMQTT /\ reported'[p] = Fault
<1>1. Init => ReportInv /\ FlaggedWithGroup
    BY ReportInit DEF Init, FlaggedWithGroup, Right, Due
<1>2. ReportInv /\ [Next]_vars => ReportInv'
    BY ReportStep
<1>3. ReportInv /\ FlaggedWithGroup /\ [Next]_vars => FlaggedWithGroup'
    BY FlaggedStep
<1>4. ReportInv /\ FlaggedWithGroup /\ [Next]_vars => [Tells]_vars
    <2> SUFFICES ASSUME ReportInv, FlaggedWithGroup, [Next]_vars,
                        task = "idle", task' = "prepared", Enabled,
                        NEW p \in flag \ (Unreported \union Misraised \union silent \union missed)
                 PROVE  \/ reported'[p] = IF p = Own THEN OwnVersion ELSE mqtt[p]
                        \/ p = Pcm /\ failedMQTT /\ reported'[p] = Fault
        OBVIOUS
    <2>0. p \in Right /\ p \in Param
        <3>1. flag \subseteq Param
            BY DEF ReportInv, TypeOK
        <3> QED
            BY <3>1 DEF Right
    <2>1. Prepare
        BY DEF Next, vars, Receive, ReceiveHealth, Compare, CopyCompared, CopySilently,
               ClearConfigData, Answer
    <2>2. CASE p \in Limits /\ mqtt[p] = Blank
        <3>1. ~Included(p) /\ p # Own /\ reported[p] = Blank
            BY <2>2, Parameters DEF Included, ReportInv, BlankIsUntold
        <3> QED
            BY <2>0, <2>1, <2>2, <3>1, PrepareTells
    <2>3. CASE ~(p \in Limits /\ mqtt[p] = Blank)
        <3>1. Included(p)
            BY <2>0, <2>3 DEF FlaggedWithGroup, Due, Included
        <3>2. reported'[p] = Told(p)
            BY <2>0, <2>1, <3>1, PrepareTells
        <3> QED
            BY <3>2 DEF Told
    <2> QED
        BY <2>2, <2>3
<1> QED
    BY <1>1, <1>2, <1>3, <1>4, PTL DEF Spec, TellsFlagged
=============================================================================
