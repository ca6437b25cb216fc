------------------------------ MODULE Answers ------------------------------
(***************************************************************************)
(* How a message of the server reaches process_MQTT_msg.  The MQTT client  *)
(* copies each message it receives into the one buffer msg_string and      *)
(* notifies the task, which parses the buffer and handles what it finds:   *)
(* the result or the error of a request of the PMU, or a ComponentStatus   *)
(* call, which it answers.  Nothing keeps the client from writing while    *)
(* the task reads, unless the server is paced and leaves it the time.      *)
(*                                                                         *)
(* A message has a head, with its type and its UUID, and a tail, its       *)
(* payload; each is written and read in one step.  A head and a tail of    *)
(* messages of one type parse, of different types they do not.  The main   *)
(* loop may send any stored request at any time: Uplink says which one it  *)
(* sends and when.  A file operation is one step: SpiffsQueue has its      *)
(* parts.  CALL_ERROR messages are well-formed.                            *)
(***************************************************************************)
EXTENDS Integers, Sequences, FiniteSets

CONSTANTS Requests,       \* the requests that wait in the files
          Periodic,       \* those with PCMPeriodicData or ChargerPeriodicData
          Calls,          \* the ComponentStatus calls of the server
          NumPCM,         \* chargerConfigMQTT.numPCM
          NumConnectors,  \* chargerConfigMQTT.numConnectors
          MaxCalls,       \* bound on calls made
          MaxFaulty,      \* bound on wrong, overlong and repeated messages
          MaxInbox,       \* bound on messages under way
          None            \* no message

ASSUME AnswersAssumption ==
    /\ Periodic \subseteq Requests
    /\ Calls \subseteq [component : Int, id : Int]
    /\ Requests \cap Calls = {}
    /\ NumPCM \in Nat
    /\ NumConnectors \in Nat
    /\ MaxCalls \in Nat
    /\ MaxFaulty \in Nat
    /\ MaxInbox \in Nat \ {0}

\* What is in a payload: what the code asks for, another object, no object at
\* all, or more than MSG_STRING_LEN characters
Body == {"good", "bad", "scalar", "long"}
Message == [kind : {"call"}, id : Calls, body : Body] \cup
           [kind : {"result", "error"}, id : Requests, body : Body]

ASSUME NoneAssumption == None \notin Message

VARIABLES
    files,     \* the requests that are still stored
    atServer,  \* the requests the server has not answered since they were sent
    inbox,     \* the messages on their way to the client
    asked,     \* the calls the server has made
    paced,     \* the server waits until a message was handled
    head,      \* the message the first half of msg_string belongs to
    tail,      \* the message the second half belongs to
    writing,   \* the message the client is copying, or None
    notified,  \* process_MQTT_msg has a notification
    reading,   \* the first half it has parsed, or None
    faulty,    \* faulty messages so far: rejected, wrong, overlong, repeated
    results,   \* history: the best result sent for each request
    replies,   \* history: the messages the task made
    handled    \* history: what it parsed last

serverVars == <<atServer, inbox, asked, paced, faulty, results>>
bufferVars == <<head, tail, writing, notified>>
taskVars   == <<files, reading, replies, handled>>
answersVars == <<serverVars, bufferVars, taskVars>>

-----------------------------------------------------------------------------
(* What the task makes of a message *)

\* The text in the buffer is that of one message, or of two of one type that
\* take turns at the end of the UUID.
Parses(h, t) == h.kind = t.kind /\ t.body # "long"
Parsed(h, t) == [t EXCEPT !.id = h.id]

\* create_componentStatus_response: the switch over the component
Pcm(c)        == c.component = 1 /\ c.id \in 0 .. NumPCM
EvEvse(c)     == c.component = 2 /\ (c.id = 0 \/ c.id <= NumConnectors)
OcppInfo(c)   == c.component = 3 /\ c.id = 0
GridStatus(c) == c.component = 4 /\ c.id = 0
Supported(c)  == Pcm(c) \/ EvEvse(c) \/ OcppInfo(c) \/ GridStatus(c)

\* Mutant: the loop over the connectors runs once too often
PartsOneMore(c) ==
    CASE Pcm(c)    -> IF c.id = 0 THEN 1 .. NumPCM ELSE {c.id}
      [] EvEvse(c) -> IF c.id = 0 THEN 1 .. NumConnectors + 1 ELSE {c.id}
      [] OTHER     -> {}

\* The power modules or connectors an answer has an object for
Parts(c) ==
    CASE Pcm(c)    -> IF c.id = 0 THEN 1 .. NumPCM ELSE {c.id}
      [] EvEvse(c) -> IF c.id = 0 THEN 1 .. NumConnectors ELSE {c.id}
      [] OTHER     -> {}

Result(c) == [type |-> "result", to |-> c, parts |-> Parts(c)]
Error(i)  == [type |-> "error", to |-> i, parts |-> {}]

\* process_ComponentStatus and what it calls.  The half of the payload that
\* has component and id may be another call's.
CallReply(m, t) ==
    IF m.body = "good" /\ Supported(t.id)
    THEN [Result(t.id) EXCEPT !.to = m.id] ELSE Error(m.id)

\* validate_json_string has an error to tell, and the UUID to tell it for
Reply(m, t) ==
    CASE m.kind = "call" -> {CallReply(m, t)}
      [] m.kind = "result" /\ m.id \in files /\ m.body # "good" -> {Error(m.id)}
      [] m.kind = "error" /\ m.id \in files -> {Error(m.id)}
      [] OTHER -> {}

\* Mutant: a result removes its request whatever its payload
RemovedAnyway(m) == IF m.kind = "result" THEN {m.id} ELSE {}
\* Mutant: an error removes its request too
RemovedByErrors(m) ==
    IF m.kind # "call" /\ (m.body = "good" \/ (m.body = "bad" /\ m.id \in Periodic))
    THEN {m.id} ELSE {}
\* Mutant: the sense of the condition is lost
RemovedRejected(m) ==
    IF m.kind = "result" /\ (m.body = "bad" \/ (m.body = "good" /\ m.id \in Periodic))
    THEN {m.id} ELSE {}
\* The request that leaves its file: a rejected object keeps all but the periodic
\* ones, and a payload that is no object keeps those too.
Removed(m) ==
    IF m.kind = "result" /\ (m.body = "good" \/ (m.body = "bad" /\ m.id \in Periodic))
    THEN {m.id} ELSE {}

-----------------------------------------------------------------------------

AnswersInit ==
    /\ files = Requests
    /\ atServer = {}
    /\ inbox = <<>>
    /\ asked = {}
    /\ paced \in BOOLEAN
    /\ head = None
    /\ tail = None
    /\ writing = None
    /\ notified = FALSE
    /\ reading = None
    /\ faulty = 0
    /\ results = [r \in Requests |-> "none"]
    /\ replies = {}
    /\ handled = None

-----------------------------------------------------------------------------
(* The server and the connection *)

\* The main loop publishes a stored request.
Send(r) ==
    /\ r \in files
    /\ r \notin atServer
    /\ atServer' = atServer \cup {r}
    /\ UNCHANGED <<inbox, asked, paced, faulty, results, bufferVars, taskVars>>

Idle == inbox = <<>> /\ writing = None /\ ~notified /\ reading = None

Submit(m) ==
    /\ Len(inbox) < MaxInbox
    /\ paced => Idle
    /\ inbox' = Append(inbox, m)

Faulty == faulty < MaxFaulty /\ faulty' = faulty + 1

Accept(r) ==
    /\ r \in atServer
    /\ Submit([kind |-> "result", id |-> r, body |-> "good"])
    /\ atServer' = atServer \ {r}
    /\ results' = [results EXCEPT ![r] = "good"]
    /\ UNCHANGED <<asked, paced, faulty, bufferVars, taskVars>>

\* The result lacks its timestamp, is no object, or is too long for the buffer.
AcceptBadly(r, body) ==
    /\ r \in atServer
    /\ Faulty
    /\ Submit([kind |-> "result", id |-> r, body |-> body])
    /\ atServer' = atServer \ {r}
    /\ results' = [results EXCEPT ![r] = IF @ = "good" THEN @ ELSE "bad"]
    /\ UNCHANGED <<asked, paced, bufferVars, taskVars>>

Refuse(r) ==
    /\ r \in atServer
    /\ Faulty
    /\ Submit([kind |-> "error", id |-> r, body |-> "good"])
    /\ atServer' = atServer \ {r}
    /\ UNCHANGED <<asked, paced, results, bufferVars, taskVars>>

Ask(c, body) ==
    /\ c \notin asked
    /\ Cardinality(asked) < MaxCalls
    /\ Submit([kind |-> "call", id |-> c, body |-> body])
    /\ asked' = asked \cup {c}
    /\ IF body = "bad" THEN Faulty ELSE UNCHANGED faulty
    /\ UNCHANGED <<atServer, paced, results, bufferVars, taskVars>>

-----------------------------------------------------------------------------
(* The MQTT client: MQTT_EVENT_DATA *)

\* The messages have QoS 1: one may be delivered again.
Redeliver ==
    /\ writing = None
    /\ inbox # <<>>
    /\ Faulty
    /\ writing' = Head(inbox)
    /\ head' = Head(inbox)
    /\ UNCHANGED <<atServer, inbox, asked, paced, results, tail, notified,
                   taskVars>>

WriteHead ==
    /\ writing = None
    /\ inbox # <<>>
    /\ inbox' = Tail(inbox)
    /\ writing' = Head(inbox)
    /\ head' = Head(inbox)
    /\ UNCHANGED <<atServer, asked, paced, faulty, results, tail,
                   notified, taskVars>>

\* Mutant: the task is not notified
WriteTailSilently ==
    /\ writing # None
    /\ tail' = writing
    /\ writing' = None
    /\ UNCHANGED <<serverVars, head, notified, taskVars>>

\* A message that does not fit is cut, and the task is not notified.
WriteTail ==
    /\ writing # None
    /\ tail' = writing
    /\ writing' = None
    /\ notified' = (notified \/ writing.body # "long")
    /\ UNCHANGED <<serverVars, head, taskVars>>

-----------------------------------------------------------------------------
(* process_MQTT_msg *)

ReadHead ==
    /\ reading = None
    /\ notified
    /\ notified' = FALSE
    /\ reading' = head
    /\ UNCHANGED <<serverVars, head, tail, writing, files, replies,
                   handled>>

\* The reply is published if the connection is there, and freed if it is not.
Handle(m) ==
    /\ files' = files \ Removed(m)
    /\ replies' = replies \cup Reply(m, tail)
    /\ handled' = m

\* Mutant: a notification that came during the parse is cleared with it
ReadTailClears ==
    /\ reading # None
    /\ reading' = None
    /\ IF tail # None /\ Parses(reading, tail)
       THEN Handle(Parsed(reading, tail))
       ELSE UNCHANGED <<files, replies, handled>>
    /\ notified' = FALSE
    /\ UNCHANGED <<serverVars, head, tail, writing>>

ReadTail ==
    /\ reading # None
    /\ reading' = None
    /\ IF tail # None /\ Parses(reading, tail)
       THEN Handle(Parsed(reading, tail))
       ELSE UNCHANGED <<files, replies, handled>>
    /\ UNCHANGED <<serverVars, bufferVars>>

-----------------------------------------------------------------------------

AnswersNext ==
    \/ \E r \in Requests : Send(r)
    \/ \E r \in Requests : Accept(r)
    \/ \E r \in Requests, body \in {"bad", "scalar", "long"} : AcceptBadly(r, body)
    \/ \E r \in Requests : Refuse(r)
    \/ \E c \in Calls, body \in {"good", "bad"} : Ask(c, body)
    \/ Redeliver
    \/ WriteHead
    \/ WriteTail
    \/ ReadHead
    \/ ReadTail

AnswersSpec == AnswersInit /\ [][AnswersNext]_answersVars

\* The client and the task run for ever, the main loop sends what is stored
\* again and again, and the server accepts it in the end.
FairAnswersSpec ==
    /\ AnswersSpec
    /\ WF_answersVars(WriteHead)
    /\ WF_answersVars(WriteTail)
    /\ WF_answersVars(ReadHead)
    /\ WF_answersVars(ReadTail)
    /\ \A r \in Requests : SF_answersVars(Send(r)) /\ SF_answersVars(Accept(r))

-----------------------------------------------------------------------------
(* Properties *)

\* When the client and the task have come to rest, the message that was written
\* last has been handled: only a later message can make one disappear
\* (mqtt_event_handler notifies when the copy is complete, and process_MQTT_msg
\* takes the notification before it reads).
LastIsHandled ==
    /\ writing = None /\ ~notified /\ reading = None
    /\ head # None /\ head.body # "long"
    => handled = head

\* However the halves of messages mix, a request leaves its file only after
\* the server has sent a result for it, and not for an error
\* (validate_json_string).
DeletedOnlyWhenAnswered ==
    \A r \in Requests \ files : results[r] # "none"

\* If the server waits for each message to be handled, a request other than
\* periodic data stays stored until a result with the payload the code asks for
\* was sent: what is deleted is what the response with that UUID accepted
\* (validate_json_string).  A server that does not wait can have a request
\* deleted whose own result was bad, by the payload of another one.
KeptUntilAccepted ==
    paced => \A r \in Requests \ (files \cup Periodic) : results[r] = "good"

\* Every request leaves its file in the end, although answers overwrite each
\* other in msg_string, are read half or are too long: the main loop sends it
\* again.
RequestsAreDone == <>(files = {})

\* A server that waits for each message to be handled has every call answered.
EveryCallIsAnswered ==
    paced /\ asked # {} ~> \A c \in asked : \E p \in replies : p.to = c

\* The power modules or connectors of the charger
Existing(component) == IF component = 1 THEN 1 .. NumPCM ELSE 1 .. NumConnectors

\* A connector below zero is taken for one of the charger: the id is compared
\* with their number from above only.
Underflows(c) == c.component = 2 /\ c.id < 0

\* If the server waits, an answer has objects for power modules and connectors
\* the charger has and for all of them if the id is 0, with one exception: a call
\* for a connector with a negative id is answered with an object for just that
\* one, which there is not (create_componentStatus_response).
AnswersOnlyExisting ==
    paced => \A p \in replies :
        p.type = "result" /\ p.to.component \in {1, 2} =>
            \/ Underflows(p.to) /\ p.parts = {p.to.id}
            \/ /\ ~Underflows(p.to)
               /\ p.parts \subseteq Existing(p.to.component)
               /\ p.to.id = 0 => p.parts = Existing(p.to.component)
=============================================================================
