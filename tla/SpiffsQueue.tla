----------------------------- MODULE SpiffsQueue -----------------------------
(***************************************************************************)
(* The offline queue of the PMU: text files on SPIFFS, one line            *)
(* "message|timestamp" per queued message, and the 8-bit entry counters    *)
(* kept in RAM beside them (fileInfo, fileNameConnector[i].entries).       *)
(*                                                                         *)
(* File 0 is the request file (FILEPATH), 1 and 2 are the online- and      *)
(* offline-charger fault logs and 3, 4, ... the fault log of each          *)
(* connector: the order of filepaths[] in                                  *)
(* search_and_delete_message_from_any_file.                                *)
(*                                                                         *)
(* Each operation is one action here; the tasks that call them are in      *)
(* Uplink.  A message is identified by its UUID, so the text comparisons   *)
(* of the code (strcmp of UUIDs, strstr of a whole message) are equality.  *)
(***************************************************************************)
EXTENDS Integers, Sequences

CONSTANTS NumConnectors,      \* chargerConfigMQTT.numConnectors
          MaxQueueSize,       \* MAX_QUEUE_SIZE (100), the request file
          MaxQueueSizeFault,  \* MAX_QUEUE_SIZE_Fault (50), every fault log
          Uuid,               \* identities of messages
          Stamp               \* values of the clock written after '|'

ASSUME QueueAssumption ==
    /\ NumConnectors \in 0 .. 3
    /\ MaxQueueSize \in Nat \ {0}
    /\ MaxQueueSizeFault \in Nat \ {0}
    /\ MaxQueueSize + 2 * MaxQueueSizeFault < 256
    /\ Stamp \subseteq Nat

Request        == 0
OnlineCharger  == 1
OfflineCharger == 2
Connector      == 3 .. (2 + NumConnectors)
FileId         == 0 .. (2 + NumConnectors)

Entry    == [uuid : Uuid, time : Stamp]
Limit(f) == IF f = Request THEN MaxQueueSize ELSE MaxQueueSizeFault
Byte(n)  == n % 256                        \* uint8_t

VARIABLES
    file,     \* lines of each file, oldest write first
    entries,  \* the RAM counter of each file
    named     \* fileNameConnector # NULL: connector files have names

queueVars == <<file, entries, named>>

-----------------------------------------------------------------------------
(* Rewriting a file without some line. *)

Holds(s, u) == \E i \in 1 .. Len(s) : s[i].uuid = u

\* Mutant: the last line takes the place of the one that goes
CutBySwapping(s, i) == [j \in 1 .. (Len(s) - 1) |-> IF j = i THEN s[Len(s)]
                                                    ELSE s[j]]

\* s without its i-th line
Cut(s, i) == [j \in 1 .. (Len(s) - 1) |-> IF j < i THEN s[j] ELSE s[j + 1]]

\* s without the line of message u, if there is one
Without(s, u) == IF Holds(s, u)
                 THEN Cut(s, CHOOSE i \in 1 .. Len(s) : s[i].uuid = u)
                 ELSE s

\* Mutant: the comparison of timestamps is the wrong way round
IsNewest(s, i) == /\ \A j \in 1 .. Len(s) : s[i].time >= s[j].time
                  /\ \A j \in 1 .. (i - 1) : s[i].time > s[j].time

\* position of the first line with the smallest timestamp
IsOldest(s, i) == /\ \A j \in 1 .. Len(s) : s[i].time <= s[j].time
                  /\ \A j \in 1 .. (i - 1) : s[i].time < s[j].time

\* remove_oldest_message: what is left of s
RemoveOldest(s) == IF s = <<>> THEN s
                   ELSE Cut(s, CHOOSE i \in 1 .. Len(s) : IsOldest(s, i))

-----------------------------------------------------------------------------
(* What each operation leaves in the files and in the counters. *)

\* Mutant: one entry too many before anything is evicted
FullTooLate(f) == entries[f] > Limit(f)

\* save_payload_to_spiffs: the counter, not the file, decides to evict
Full(f)     == entries[f] >= Limit(f)
Room(f)     == IF Full(f) THEN RemoveOldest(file[f]) ELSE file[f]
Count(f)    == IF Full(f) THEN Len(Room(f)) ELSE entries[f]
\* Mutant: the payload is written again
SavedTwice(f, e) == [file EXCEPT ![f] = Append(Append(Room(f), e), e)]
\* Mutant: the counter does not count the new entry
SavedUncounted(f) == [entries EXCEPT ![f] = Byte(Count(f))]
Saved(f, e) == [file EXCEPT ![f] = Append(Room(f), e)]
SavedEntries(f) == [entries EXCEPT ![f] = Byte(Count(f) + 1)]

\* handle_fault_response_message: fault logs are rewritten in order, those with
\* a zero counter skipped, until one of them held the message
Visited(f, u) == /\ f # Request
                 /\ entries[f] # 0
                 /\ \A g \in 1 .. (f - 1) :
                        entries[g] # 0 => ~Holds(file[g], u)

WithoutFault(u) == [f \in FileId |->
                       IF Visited(f, u) THEN Without(file[f], u) ELSE file[f]]

\* search_and_delete_message_from_any_file: lines left in the files up to f.
\* Each counter is set to this running total, not to its own file's share.
Left(f, u) == Len(Without(file[f], u))
TotalRemaining(f, u) ==
    CASE f = Request        -> Left(0, u)
      [] f = OnlineCharger  -> Left(0, u) + Left(1, u)
      [] f = OfflineCharger -> Left(0, u) + Left(1, u) + Left(2, u)

\* initialize_file_names and the count that follows it in mqtt_task
CountConnectors(fl, en) ==
    [f \in FileId |-> IF f \in Connector THEN Byte(Len(fl[f])) ELSE en[f]]

\* app_main counts the three static files; the connectors have no names yet
BootCount(fl) ==
    [f \in FileId |-> IF f \in Connector THEN 0 ELSE Byte(Len(fl[f]))]

-----------------------------------------------------------------------------
(* The operations. *)

Init ==
    /\ file = [f \in FileId |-> <<>>]
    /\ entries = [f \in FileId |-> 0]
    /\ named = FALSE

\* A connector file can only be written once it has a name: before that the
\* code dereferences a null pointer and the chip restarts (Reboot).
Usable(f) == f \in Connector => named

Save(f, e) ==
    /\ Usable(f)
    /\ file' = Saved(f, e)
    /\ entries' = SavedEntries(f)
    /\ UNCHANGED named

\* The old entry is evicted, then the clock or fopen(filename, "a") fails and
\* save_payload_to_spiffs returns without writing the new one.
SaveEvictsOnly(f) ==
    /\ Usable(f)
    /\ Full(f)
    /\ file' = [file EXCEPT ![f] = Room(f)]
    /\ entries' = [entries EXCEPT ![f] = Byte(Count(f))]
    /\ UNCHANGED named

\* handle_response_message and the assignment of its result by the caller
HandleResponse(u) ==
    /\ file' = [file EXCEPT ![Request] = Without(@, u)]
    /\ entries' = [entries EXCEPT ![Request] = Byte(Left(Request, u))]
    /\ UNCHANGED named

\* The loop over the connectors reads fileNameConnector[i].entries even when
\* the message was found: before the names exist that restarts the chip.
HandleFaultResponse(u) ==
    /\ named \/ Connector = {}
    /\ file' = WithoutFault(u)
    /\ entries' = [f \in FileId |->
                   IF Visited(f, u) THEN Byte(Left(f, u)) ELSE entries[f]]
    /\ UNCHANGED named

FaultResponseRestarts(u) ==
    /\ ~named
    /\ Connector # {}
    /\ file' = WithoutFault(u)
    /\ entries' = BootCount(file')
    /\ UNCHANGED named

\* The connector counters are not updated: the code writes
\* fileNameConnector[i] with i = 3 and 4, past the end of the array.  The files
\* have names by then: mqtt_task names them within 50 ms of the moment the main
\* loop may start to send, and this is called a minute of retries later.
SearchAndDelete(u) ==
    /\ named \/ Connector = {}
    /\ file' = [f \in FileId |-> Without(file[f], u)]
    /\ entries' = [f \in FileId |->
                   IF f \in Connector \/ file[f] = <<>> THEN entries[f]
                   ELSE Byte(TotalRemaining(f, u))]
    /\ UNCHANGED named

InitializeFileNames ==
    /\ named' = TRUE
    /\ entries' = CountConnectors(file, entries)
    /\ UNCHANGED file

\* A restart: the files stay, the counters are made anew
Reboot ==
    /\ entries' = BootCount(file)
    /\ named' = FALSE
    /\ UNCHANGED file

\* A restart between remove(file) and rename(temp, file) of a rewrite: the
\* temp file is never read again, so every line of the file is gone
RebootInRewrite(f) ==
    /\ file[f] # <<>>
    /\ file' = [file EXCEPT ![f] = <<>>]
    /\ entries' = BootCount(file')
    /\ named' = FALSE

Queued(u) == \E f \in FileId : Holds(file[f], u)

Next ==
    \/ \E f \in FileId, e \in Entry : ~Queued(e.uuid) /\ Save(f, e)
    \/ \E f \in FileId : SaveEvictsOnly(f)
    \/ \E u \in Uuid : HandleResponse(u)
    \/ \E u \in Uuid : HandleFaultResponse(u)
    \/ \E u \in Uuid : FaultResponseRestarts(u)
    \/ \E u \in Uuid : SearchAndDelete(u)
    \/ InitializeFileNames
    \/ Reboot
    \/ \E f \in FileId : RebootInRewrite(f)

Spec == Init /\ [][Next]_queueVars

-----------------------------------------------------------------------------
(* Properties *)

\* The files hold entries and the counters fit in their byte.
TypeOK ==
    /\ file \in [FileId -> Seq(Entry)]
    /\ entries \in [FileId -> 0 .. 255]
    /\ named \in BOOLEAN

\* A counter never says less than its file holds.  get_action_from_uuid and
\* handle_fault_response_message skip a file whose counter is zero, so a file
\* that holds more than its counter says could keep an entry that no answer of
\* the server can ever remove.
Counted(f) == f \in Connector => named
CountersCover == \A f \in FileId : Counted(f) => Len(file[f]) <= entries[f]

\* No file outgrows its limit, through every mix of saves, answers, retries,
\* restarts and recounts, although the limit is enforced on the counter only.
WithinLimit == \A f \in FileId : Len(file[f]) <= Limit(f)

\* A message is in at most one file, once: the rewrites and the eviction never
\* duplicate a line.
SameLine(f, i, g, j) == f = g /\ i = j
NoDuplicate ==
    \A f, g \in FileId : \A i \in 1 .. Len(file[f]), j \in 1 .. Len(file[g]) :
        file[f][i].uuid = file[g][j].uuid => SameLine(f, i, g, j)

\* Lines stay in the order they were written: whatever is removed, two entries
\* that both stay keep their order, so the head of a file is the oldest write.
Position(s, u) == CHOOSE i \in 1 .. Len(s) : s[i].uuid = u
Before(s, u, v) == /\ Holds(s, u) /\ Holds(s, v)
                   /\ Position(s, u) < Position(s, v)
OrderKept ==
    [][\A f \in FileId, u, v \in Uuid :
           Before(file[f], u, v) /\ Holds(file'[f], u) /\ Holds(file'[f], v)
               => Before(file'[f], u, v)]_queueVars

\* When a write to a file pushes an entry out, it is an entry with the oldest
\* timestamp of that file, and it is the only one.
Appends(f) == /\ file'[f] # <<>>
              /\ ~Holds(file[f], file'[f][Len(file'[f])].uuid)
Dropped(f) == {i \in 1 .. Len(file[f]) : ~Holds(file'[f], file[f][i].uuid)}
EvictsOldestOnly ==
    [][\A f \in FileId : Appends(f) =>
           \A i \in Dropped(f) :
               /\ \A j \in 1 .. Len(file[f]) :
                      file[f][i].time <= file[f][j].time
               /\ Dropped(f) = {i}]_queueVars

=============================================================================
