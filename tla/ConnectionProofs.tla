-------------------------- MODULE ConnectionProofs --------------------------
(***************************************************************************)
(* Type correctness of Connection and the order in which the parts of the  *)
(* connection start, for every set of credentials and every number of      *)
(* changes and restarts.  StartsInOrder needs one more fact: a radio that  *)
(* does anything was given credentials.                                    *)
(***************************************************************************)
EXTENDS Connection, TLAPS

RadioInv == /\ radio # "off" => driver # None
            /\ radio \in {"trying", "up"} => initialised

ConnectionInv == TypeOK /\ StartsInOrder /\ RadioInv

LEMMA FittedType ==
    \A c \in Cred : Fitted(c) \in Cred \cup {Cut} /\ Fitted(c) # None
<1> TAKE c \in Cred
<1>1. CASE c \in Long
    BY <1>1, ConnectionAssumption, Zenon DEF Fitted
<1>2. CASE c \notin Long
    BY <1>2, ConnectionAssumption, Zenon DEF Fitted
<1>3. QED
    BY <1>1, <1>2

LEMMA InitInv == Init => ConnectionInv
<1> SUFFICES ASSUME Init PROVE ConnectionInv
    OBVIOUS
<1>1. TypeOK
    <2>1. /\ changes \in 0 .. MaxChanges
          /\ boots \in 1 .. MaxBoots
          /\ counter \in 0 .. FailureLimit - 1
        BY ConnectionAssumption DEF Init, FailureLimit
    <2>2. /\ networks \subseteq Cred
          /\ mcu \in Cred
          /\ config \in Cred \cup {None}
          /\ used \in Cred \cup {Cut, None}
          /\ driver \in Cred \cup {Cut, None}
          /\ radio \in Radio
        BY DEF Init, Radio
    <2>3. /\ internet \in BOOLEAN
          /\ brokerUp \in BOOLEAN
          /\ initialised \in BOOLEAN
          /\ connected \in BOOLEAN
          /\ internetFlag \in BOOLEAN
          /\ client \in BOOLEAN
          /\ brokerFlag \in BOOLEAN
          /\ told \in [internet : BOOLEAN, broker : BOOLEAN]
        BY DEF Init
    <2>4. QED
        BY <2>1, <2>2, <2>3, Zenon DEF TypeOK
<1>2. StartsInOrder /\ RadioInv
    BY Zenon DEF Init, StartsInOrder, RadioInv
<1>3. QED
    BY <1>1, <1>2 DEF ConnectionInv

LEMMA NextInv == ConnectionInv /\ [Next]_vars => ConnectionInv'
<1> SUFFICES ASSUME ConnectionInv, [Next]_vars
             PROVE  ConnectionInv'
    OBVIOUS
<1> USE ConnectionAssumption
        DEF ConnectionInv, TypeOK, StartsInOrder, RadioInv, Radio, FailureLimit,
            worldVars, wifiVars, netVars, mqttVars
<1>1. CASE Restart
    <2>1. boots' \in 1 .. MaxBoots
        BY <1>1 DEF Restart
    <2>2. /\ config' = None /\ used' = None /\ driver' = None /\ radio' = "off"
          /\ initialised' = FALSE /\ connected' = FALSE /\ counter' = 0
          /\ internetFlag' = FALSE /\ client' = FALSE /\ brokerFlag' = FALSE
        BY <1>1 DEF Restart, FreshRam
    <2>3. UNCHANGED <<networks, internet, brokerUp, mcu, changes, told>>
        BY <1>1 DEF Restart
    <2>4. TypeOK'
        <3>1. counter' \in 0 .. FailureLimit - 1 /\ changes' \in 0 .. MaxChanges
            BY <2>2, <2>3
        <3>2. /\ networks' \subseteq Cred
              /\ mcu' \in Cred
              /\ config' \in Cred \cup {None}
              /\ used' \in Cred \cup {Cut, None}
              /\ driver' \in Cred \cup {Cut, None}
              /\ radio' \in Radio
            BY <2>2, <2>3
        <3>3. /\ internet' \in BOOLEAN
              /\ brokerUp' \in BOOLEAN
              /\ initialised' \in BOOLEAN
              /\ connected' \in BOOLEAN
              /\ internetFlag' \in BOOLEAN
              /\ client' \in BOOLEAN
              /\ brokerFlag' \in BOOLEAN
              /\ told' \in [internet : BOOLEAN, broker : BOOLEAN]
            BY <2>2, <2>3
        <3>4. QED
            BY <2>1, <3>1, <3>2, <3>3, Zenon
    <2>5. StartsInOrder' /\ RadioInv'
        BY <2>2, Zenon
    <2>6. QED
        BY <2>4, <2>5, Zenon
<1>2. CASE ChangeNetworks
    BY <1>2 DEF ChangeNetworks
<1>3. CASE InternetComesAndGoes
    BY <1>3 DEF InternetComesAndGoes
<1>4. CASE BrokerComesAndGoes
    BY <1>4 DEF BrokerComesAndGoes
<1>5. CASE ChangeCredentials
    BY <1>5 DEF ChangeCredentials
<1>6. CASE HandleStart
    BY <1>6 DEF HandleStart
<1>7. CASE Associate
    BY <1>7 DEF Associate
<1>8. CASE HandleGotIp
    BY <1>8 DEF HandleGotIp
<1>9. CASE LoseNetwork
    BY <1>9 DEF LoseNetwork
<1>10. CASE HandleDisconnected
    BY <1>10 DEF HandleDisconnected
<1>11. CASE CopyConfig
    BY <1>11 DEF CopyConfig
<1>12. CASE TakeCredentials
    BY <1>12, FittedType DEF TakeCredentials, Different
<1>13. CASE UpdateCredentials
    BY <1>13, FittedType DEF UpdateCredentials, Different
<1>14. CASE CheckInternet
    BY <1>14 DEF CheckInternet, Reached
<1>15. CASE StartClient
    BY <1>15 DEF StartClient
<1>16. CASE HandleMqttConnected
    BY <1>16 DEF HandleMqttConnected
<1>17. CASE HandleMqttDisconnected
    <2>1. brokerFlag' = FALSE
        BY <1>17 DEF HandleMqttDisconnected
    <2>2. UNCHANGED <<worldVars, wifiVars, netVars, client, told>>
        BY <1>17 DEF HandleMqttDisconnected
    <2>3. TypeOK'
        <3>1. brokerFlag' \in BOOLEAN
            BY <2>1
        <3>2. QED
            BY <2>2, <3>1
    <2>4. StartsInOrder'
        BY <2>1, <2>2
    <2>5. RadioInv'
        BY <2>2
    <2>6. QED
        BY <2>3, <2>4, <2>5, Zenon
<1>18. CASE TellMcu
    <2>1. told' \in [internet : BOOLEAN, broker : BOOLEAN]
        BY <1>18 DEF TellMcu
    <2>2. UNCHANGED <<worldVars, wifiVars, netVars, mqttVars>>
        BY <1>18 DEF TellMcu
    <2>3. QED
        BY <2>1, <2>2
<1>19. CASE UNCHANGED vars
    BY <1>19 DEF vars
<1>20. QED
    BY <1>1, <1>2, <1>3, <1>4, <1>5, <1>6, <1>7, <1>8, <1>9, <1>10, <1>11,
       <1>12, <1>13, <1>14, <1>15, <1>16, <1>17, <1>18, <1>19 DEF Next

\* The variables have their types, and the check counter stays below its limit.
THEOREM ConnectionTypeSafe == Spec => []TypeOK
<1>1. ConnectionInv => TypeOK
    BY DEF ConnectionInv
<1>2. QED
    BY <1>1, InitInv, NextInv, PTL DEF Spec

\* Whatever the world does, nothing counts as connected before what it rests on
\* was started (the guards spread over app_main and the handlers).
THEOREM ConnectionOrder == Spec => []StartsInOrder
<1>1. ConnectionInv => StartsInOrder
    BY DEF ConnectionInv
<1>2. QED
    BY <1>1, InitInv, NextInv, PTL DEF Spec
=============================================================================
