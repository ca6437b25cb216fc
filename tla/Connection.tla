----------------------------- MODULE Connection -----------------------------
(***************************************************************************)
(* How the PMU gets and keeps its connection: the main loop of app_main    *)
(* takes the WiFi credentials of the configuration, starts WiFi once and   *)
(* checks the internet; the handlers of the WiFi driver and of the MQTT    *)
(* client note what they are told; can_task tells the MCU.  Messages are   *)
(* sent when all three flags say so (IS_MQTT_NETWORK_ONLINE).              *)
(*                                                                         *)
(* Credentials are a network and its password.  The world outside is an    *)
(* access point for some of them, an internet and a broker, all of which   *)
(* come and go.                                                            *)
(***************************************************************************)
EXTENDS Integers

CONSTANTS Cred,        \* credentials the MCU may be given
          Long,        \* those that fill wifi_ssid or wifi_password: cut
          Cut,         \* what is left of such credentials
          None,        \* no credentials: the empty strings
          MaxChanges,  \* bound on changes of the credentials
          MaxBoots     \* bound on restarts of the PMU

ASSUME ConnectionAssumption ==
    /\ Long \subseteq Cred
    /\ Cut \notin Cred
    /\ None \notin Cred \cup {Cut}
    /\ MaxChanges \in Nat
    /\ MaxBoots \in Nat \ {0}

FailureLimit == 5   \* failed checks until the internet counts as lost

VARIABLES
    networks,      \* the credentials an access point accepts
    internet,      \* the internet is there
    brokerUp,      \* the broker can be reached over it
    mcu,           \* the credentials the MCU has
    changes,       \* changes of them so far
    boots,         \* starts of the PMU so far
    config,        \* chargerConfigMQTT.wifi_ssid and .wifi_password
    used,          \* wifi_ssid and wifi_password
    driver,        \* the credentials given to esp_wifi_set_config
    radio,         \* what the driver is doing
    initialised,   \* wifiInitialised
    connected,     \* wifiConnected
    counter,       \* internet_counter
    internetFlag,  \* PMUInformation.internet_status
    client,        \* the MQTT client and mqtt_task were started
    brokerFlag,    \* PMUInformation.broker_status
    told           \* the connection status of the last PMU_INFO frame

worldVars == <<networks, internet, brokerUp, mcu, changes, boots>>
wifiVars  == <<config, used, driver, radio, initialised, connected>>
netVars   == <<counter, internetFlag>>
mqttVars  == <<client, brokerFlag>>
vars      == <<worldVars, wifiVars, netVars, mqttVars, told>>

Radio == {"off", "down", "trying", "up"}
Online == brokerFlag /\ connected /\ internetFlag

\* strncpy into the shorter strings of the main loop
Fitted(c) == IF c \in Long THEN Cut ELSE c

-----------------------------------------------------------------------------

FreshRam ==
    /\ config' = None
    /\ used' = None
    /\ driver' = None
    /\ radio' = "off"
    /\ initialised' = FALSE
    /\ connected' = FALSE
    /\ counter' = 0
    /\ internetFlag' = FALSE
    /\ client' = FALSE
    /\ brokerFlag' = FALSE

Init ==
    /\ networks \in SUBSET Cred
    /\ internet \in BOOLEAN
    /\ brokerUp \in BOOLEAN
    /\ mcu \in Cred
    /\ changes = 0
    /\ boots = 1
    /\ config = None
    /\ used = None
    /\ driver = None
    /\ radio = "off"
    /\ initialised = FALSE
    /\ connected = FALSE
    /\ counter = 0
    /\ internetFlag = FALSE
    /\ client = FALSE
    /\ brokerFlag = FALSE
    /\ told = [internet |-> FALSE, broker |-> FALSE]

Restart ==
    /\ boots < MaxBoots
    /\ boots' = boots + 1
    /\ FreshRam
    /\ UNCHANGED <<networks, internet, brokerUp, mcu, changes, told>>

-----------------------------------------------------------------------------
(* The world *)

ChangeNetworks ==
    /\ networks' \in SUBSET Cred
    /\ UNCHANGED <<internet, brokerUp, mcu, changes, boots, wifiVars, netVars,
                   mqttVars, told>>

InternetComesAndGoes ==
    /\ internet' = ~internet
    /\ UNCHANGED <<networks, brokerUp, mcu, changes, boots, wifiVars, netVars,
                   mqttVars, told>>

BrokerComesAndGoes ==
    /\ brokerUp' = ~brokerUp
    /\ UNCHANGED <<networks, internet, mcu, changes, boots, wifiVars, netVars,
                   mqttVars, told>>

ChangeCredentials ==
    /\ changes < MaxChanges
    /\ changes' = changes + 1
    /\ mcu' \in Cred \ {mcu}
    /\ UNCHANGED <<networks, internet, brokerUp, boots, wifiVars, netVars,
                   mqttVars, told>>

-----------------------------------------------------------------------------
(* The WiFi driver and wifi_event_handler *)

\* WIFI_EVENT_STA_START
HandleStart ==
    /\ radio = "down"
    /\ ~initialised
    /\ initialised' = TRUE
    /\ radio' = "trying"
    /\ UNCHANGED <<worldVars, config, used, driver, connected, netVars,
                   mqttVars, told>>

Associate ==
    /\ radio = "trying"
    /\ radio' = IF driver \in networks THEN "up" ELSE "down"
    /\ UNCHANGED <<worldVars, config, used, driver, initialised, connected,
                   netVars, mqttVars, told>>

\* IP_EVENT_STA_GOT_IP
HandleGotIp ==
    /\ radio = "up"
    /\ ~connected
    /\ connected' = TRUE
    /\ UNCHANGED <<worldVars, config, used, driver, radio, initialised,
                   netVars, mqttVars, told>>

LoseNetwork ==
    /\ radio = "up"
    /\ driver \notin networks
    /\ radio' = "down"
    /\ UNCHANGED <<worldVars, config, used, driver, initialised, connected,
                   netVars, mqttVars, told>>

\* Mutant: the loss of a connection is noted and nothing is done about it
HandleDisconnectedIdly ==
    /\ radio = "down"
    /\ initialised
    /\ connected' = FALSE
    /\ radio' = "off"
    /\ UNCHANGED <<worldVars, config, used, driver, initialised, netVars,
                   mqttVars, told>>

\* WIFI_EVENT_STA_DISCONNECTED, after a connection and after a failed attempt
HandleDisconnected ==
    /\ radio = "down"
    /\ initialised
    /\ connected' = FALSE
    /\ radio' = "trying"
    /\ UNCHANGED <<worldVars, config, used, driver, initialised, netVars,
                   mqttVars, told>>

-----------------------------------------------------------------------------
(* The main loop *)

CopyConfig ==
    /\ config # mcu
    /\ config' = mcu
    /\ UNCHANGED <<worldVars, used, driver, radio, initialised, connected,
                   netVars, mqttVars, told>>

Different == config # None /\ used # config

\* Not connected: the credentials are copied, and the driver gets them if WiFi
\* has not been started
TakeCredentials ==
    /\ Different
    /\ ~connected
    /\ used' = Fitted(config)
    /\ IF initialised THEN UNCHANGED <<driver, radio>>
       ELSE driver' = Fitted(config) /\ radio' = "down"
    /\ UNCHANGED <<worldVars, config, initialised, connected, netVars,
                   mqttVars, told>>

\* Connected: the driver disconnects and connects again, with what it has
UpdateCredentials ==
    /\ Different
    /\ connected
    /\ used' = Fitted(config)
    /\ radio' = "down"
    /\ UNCHANGED <<worldVars, config, driver, initialised, connected, netVars,
                   mqttVars, told>>

Reached == radio = "up" /\ internet

\* check_internet_status
CheckInternet ==
    /\ connected
    /\ counter' = IF Reached THEN 0 ELSE (counter + 1) % FailureLimit
    /\ internetFlag' = \/ Reached
                       \/ internetFlag /\ counter + 1 < FailureLimit
    /\ UNCHANGED <<worldVars, wifiVars, mqttVars, told>>

\* Mutant: the client does not wait for WiFi
StartClientEarly ==
    /\ ~client
    /\ config # None
    /\ client' = TRUE
    /\ UNCHANGED <<worldVars, wifiVars, netVars, brokerFlag, told>>

StartClient ==
    /\ ~client
    /\ config # None
    /\ initialised
    /\ client' = TRUE
    /\ UNCHANGED <<worldVars, wifiVars, netVars, brokerFlag, told>>

-----------------------------------------------------------------------------
(* The MQTT client and mqtt_event_handler *)

\* MQTT_EVENT_CONNECTED; the client tries by itself again and again
HandleMqttConnected ==
    /\ client
    /\ ~brokerFlag
    /\ Reached
    /\ brokerUp
    /\ brokerFlag' = TRUE
    /\ UNCHANGED <<worldVars, wifiVars, netVars, client, told>>

\* Mutant: the loss of the broker is not noted
HandleMqttDisconnectedUnnoted ==
    /\ brokerFlag
    /\ ~(Reached /\ brokerUp)
    /\ UNCHANGED vars

\* MQTT_EVENT_DISCONNECTED, at the latest when the keepalive is not answered
HandleMqttDisconnected ==
    /\ brokerFlag
    /\ ~(Reached /\ brokerUp)
    /\ brokerFlag' = FALSE
    /\ UNCHANGED <<worldVars, wifiVars, netVars, client, told>>

-----------------------------------------------------------------------------
(* can_task *)

\* The PMU_INFO frame
TellMcu ==
    /\ told' = [internet |-> internetFlag, broker |-> brokerFlag]
    /\ UNCHANGED <<worldVars, wifiVars, netVars, mqttVars>>

-----------------------------------------------------------------------------

Next ==
    \/ Restart
    \/ ChangeNetworks
    \/ InternetComesAndGoes
    \/ BrokerComesAndGoes
    \/ ChangeCredentials
    \/ HandleStart
    \/ Associate
    \/ HandleGotIp
    \/ LoseNetwork
    \/ HandleDisconnected
    \/ CopyConfig
    \/ TakeCredentials
    \/ UpdateCredentials
    \/ CheckInternet
    \/ StartClient
    \/ HandleMqttConnected
    \/ HandleMqttDisconnected
    \/ TellMcu

Spec == Init /\ [][Next]_vars

\* The tasks run for ever, and the driver and the client report what happens.
\* Nothing is assumed of the world.
FairSpec ==
    /\ Spec
    /\ WF_vars(HandleStart)
    /\ WF_vars(Associate)
    /\ WF_vars(HandleGotIp)
    /\ WF_vars(LoseNetwork)
    /\ WF_vars(HandleDisconnected)
    /\ WF_vars(CopyConfig)
    /\ WF_vars(TakeCredentials)
    /\ WF_vars(UpdateCredentials)
    /\ WF_vars(CheckInternet)
    /\ WF_vars(StartClient)
    /\ WF_vars(HandleMqttConnected)
    /\ WF_vars(HandleMqttDisconnected)
    /\ WF_vars(TellMcu)

-----------------------------------------------------------------------------
(* Properties *)

\* The variables have their types.
TypeOK ==
    /\ networks \subseteq Cred
    /\ internet \in BOOLEAN
    /\ brokerUp \in BOOLEAN
    /\ mcu \in Cred
    /\ changes \in 0 .. MaxChanges
    /\ boots \in 1 .. MaxBoots
    /\ config \in Cred \cup {None}
    /\ used \in Cred \cup {Cut, None}
    /\ driver \in Cred \cup {Cut, None}
    /\ radio \in Radio
    /\ initialised \in BOOLEAN
    /\ connected \in BOOLEAN
    /\ internetFlag \in BOOLEAN
    /\ client \in BOOLEAN
    /\ brokerFlag \in BOOLEAN
    /\ counter \in 0 .. FailureLimit - 1
    /\ told \in [internet : BOOLEAN, broker : BOOLEAN]

\* However often the PMU restarts and the connection is lost, nothing counts as
\* connected before what it rests on was started: the broker not before the
\* client, the client and the network not before WiFi, and WiFi not before it
\* was given credentials (the guards spread over app_main and the handlers).
StartsInOrder ==
    /\ brokerFlag => client
    /\ client \/ connected => initialised
    /\ initialised => driver # None
    /\ internetFlag \/ counter # 0 => initialised

WorldIsGood(c) == c \in networks /\ internet /\ brokerUp

\* If WiFi was started with credentials that are accepted, and the network, the
\* internet and the broker stay, the PMU is online in the end and stays so,
\* whatever happened before, and the MCU is told (the three handlers and
\* check_internet_status).
ComesOnline ==
    <>[](WorldIsGood(driver) /\ mcu = driver)
        => <>[](Online /\ told.internet /\ told.broker)

\* If the broker stays away, or the internet, the PMU stops taking itself for
\* online (MQTT_EVENT_DISCONNECTED).
OfflineIsNoticed == <>[](~internet \/ ~brokerUp) => <>[]~Online

=============================================================================
