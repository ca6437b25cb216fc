---------------------------- MODULE RequestFile ----------------------------
(***************************************************************************)
(* The request file (FILEPATH) between the steps that SpiffsQueue takes at *)
(* once.  mqtt_task appends a message and then counts it, on one core;     *)
(* process_MQTT_msg on the other rewrites the file without the message     *)
(* that was answered: it copies line by line to TEMPFILEPATH, removes the  *)
(* file, renames the temporary file and sets the counter to the lines it   *)
(* copied.  mutex_spiffs is created for this and never taken.              *)
(*                                                                         *)
(* SPIFFS is external: it does not rename to a name that exists, and what  *)
(* is written to a file that has been removed is lost.  A message is its   *)
(* number, in the order of creation.  The file is not full, and the main   *)
(* loop gives no message up meanwhile.                                     *)
(***************************************************************************)
EXTENDS Integers, Sequences

CONSTANTS MaxMessages,  \* bound: messages created
          MaxRestarts   \* bound: restarts

ASSUME FileAssumption == MaxMessages \in Nat /\ MaxRestarts \in Nat

VARIABLES
    exists,     \* there is a request file
    req,        \* its lines
    temp,       \* the lines of the temporary file
    entries,    \* fileInfo.request_file_entries
    saver,      \* save_payload_to_spiffs: "idle", "opened" or "written"
    attached,   \* the file it has opened has not been removed
    rewriter,   \* handle_response_message: the step it takes next
    answered,   \* the message it removes
    lineNo,     \* lines it has read
    copied,     \* entry_count
    created,    \* history: messages created
    gone,       \* history: messages the rewrites have left out
    clash,      \* history: a save or a restart fell into a replacement
    disturbed,  \* history: a save overlapped the last rewrite
    restarts    \* history: restarts

fileVars     == <<exists, req>>
saverVars    == <<saver, attached, created>>
rewriterVars == <<temp, rewriter, answered, lineNo, copied, gone>>
vars         == <<fileVars, entries, saverVars, rewriterVars, clash, disturbed,
                  restarts>>

Lines(s) == {s[i] : i \in 1 .. Len(s)}

\* The file has been read to its end and is not yet replaced
Replacing == rewriter \in {"remove", "rename"}

Init ==
    /\ exists = FALSE /\ req = <<>> /\ temp = <<>> /\ entries = 0
    /\ saver = "idle" /\ attached = FALSE
    /\ rewriter = "idle" /\ answered = 0 /\ lineNo = 0 /\ copied = 0
    /\ created = 0 /\ gone = {}
    /\ clash = FALSE /\ disturbed = FALSE
    /\ restarts = 0

-----------------------------------------------------------------------------
(* save_payload_to_spiffs *)

\* A rewrite that is under way is disturbed
Disturb == disturbed' = (disturbed \/ rewriter # "idle")

\* fopen(filename, "a") creates the file when there is none
OpenToAppend ==
    /\ saver = "idle"
    /\ created < MaxMessages
    /\ created' = created + 1
    /\ exists' = TRUE
    /\ saver' = "opened"
    /\ attached' = TRUE
    /\ clash' = (clash \/ Replacing)
    /\ Disturb
    /\ UNCHANGED <<req, entries, rewriterVars, restarts>>

\* fprintf and fclose
WriteLine ==
    /\ saver = "opened"
    /\ saver' = "written"
    /\ req' = IF attached THEN Append(req, created) ELSE req
    /\ clash' = (clash \/ Replacing \/ ~attached)
    /\ Disturb
    /\ UNCHANGED <<exists, entries, attached, created, rewriterVars, restarts>>

CountLine ==
    /\ saver = "written"
    /\ saver' = "idle"
    /\ entries' = entries + 1
    /\ Disturb
    /\ UNCHANGED <<fileVars, attached, created, rewriterVars, clash, restarts>>

-----------------------------------------------------------------------------
(* handle_response_message *)

\* Mutant: the temporary file is opened with "a"
BeginAppending(m) ==
    /\ rewriter = "idle"
    /\ entries > 0
    /\ m \in Lines(req)
    /\ rewriter' = "copy"
    /\ answered' = m
    /\ lineNo' = 0
    /\ copied' = 0
    /\ disturbed' = (saver # "idle")
    /\ UNCHANGED <<fileVars, entries, saverVars, temp, gone, clash, restarts>>

\* An answer for message m, which get_action_from_uuid has found in a file with
\* a counter above zero.  fopen(TEMPFILEPATH, "w") empties what a rewrite that
\* came to nothing has left there
Begin(m) ==
    /\ rewriter = "idle"
    /\ entries > 0
    /\ m \in Lines(req)
    /\ rewriter' = "copy"
    /\ answered' = m
    /\ temp' = <<>>
    /\ lineNo' = 0
    /\ copied' = 0
    /\ disturbed' = (saver # "idle")
    /\ UNCHANGED <<fileVars, entries, saverVars, gone, clash, restarts>>

CopyLine ==
    /\ rewriter = "copy"
    /\ lineNo < Len(req)
    /\ lineNo' = lineNo + 1
    /\ IF req[lineNo + 1] = answered THEN UNCHANGED <<temp, copied>>
       ELSE /\ temp' = Append(temp, req[lineNo + 1])
            /\ copied' = copied + 1
    /\ UNCHANGED <<fileVars, entries, saverVars, rewriter, answered, gone,
                   clash, disturbed, restarts>>

\* Mutant: the lines there were at the start are enough
EndOfFileByCount ==
    /\ rewriter = "copy"
    /\ lineNo >= entries
    /\ rewriter' = "remove"
    /\ UNCHANGED <<fileVars, entries, saverVars, temp, answered, lineNo,
                   copied, gone, clash, disturbed, restarts>>

\* fgets returns NULL; both files are closed
EndOfFile ==
    /\ rewriter = "copy"
    /\ lineNo >= Len(req)
    /\ rewriter' = "remove"
    /\ UNCHANGED <<fileVars, entries, saverVars, temp, answered, lineNo,
                   copied, gone, clash, disturbed, restarts>>

\* remove(FILEPATH)
RemoveFile ==
    /\ rewriter = "remove"
    /\ rewriter' = "rename"
    /\ exists' = FALSE
    /\ req' = <<>>
    /\ attached' = FALSE
    /\ gone' = gone \union {answered}
    /\ clash' = (clash \/ saver = "opened")
    /\ UNCHANGED <<entries, saver, created, temp, answered, lineNo, copied,
                   disturbed, restarts>>

\* rename(TEMPFILEPATH, FILEPATH), whose result nobody looks at
RenameTemp ==
    /\ rewriter = "rename"
    /\ rewriter' = "assign"
    /\ exists' = TRUE
    /\ req' = IF exists THEN req ELSE temp
    /\ temp' = IF exists THEN temp ELSE <<>>
    /\ UNCHANGED <<entries, saverVars, answered, lineNo, copied, gone, clash,
                   disturbed, restarts>>

\* Mutant: one entry less than there were
AssignOneLess ==
    /\ rewriter = "assign"
    /\ rewriter' = "idle"
    /\ entries' = entries - 1
    /\ UNCHANGED <<fileVars, saverVars, temp, answered, lineNo, copied, gone,
                   clash, disturbed, restarts>>

\* fileInfo.request_file_entries = count
AssignCount ==
    /\ rewriter = "assign"
    /\ rewriter' = "idle"
    /\ entries' = copied
    /\ UNCHANGED <<fileVars, saverVars, temp, answered, lineNo, copied, gone,
                   clash, disturbed, restarts>>

-----------------------------------------------------------------------------

\* A restart between any two steps; app_main counts the lines there are.  The
\* temporary file stays
Restart ==
    /\ restarts < MaxRestarts
    /\ restarts' = restarts + 1
    /\ entries' = Len(req)
    /\ saver' = "idle" /\ attached' = FALSE
    /\ rewriter' = "idle" /\ answered' = 0 /\ lineNo' = 0 /\ copied' = 0
    /\ clash' = (clash \/ rewriter = "rename" \/ saver = "opened")
    /\ disturbed' = FALSE
    /\ UNCHANGED <<fileVars, temp, created, gone>>

Next ==
    \/ OpenToAppend \/ WriteLine \/ CountLine
    \/ \E m \in 1 .. created : Begin(m)
    \/ CopyLine \/ EndOfFile \/ RemoveFile \/ RenameTemp \/ AssignCount
    \/ Restart

Spec == Init /\ [][Next]_vars

-----------------------------------------------------------------------------
(* Properties *)

\* The variables have their types.
TypeOK ==
    /\ exists \in BOOLEAN /\ attached \in BOOLEAN
    /\ clash \in BOOLEAN /\ disturbed \in BOOLEAN
    /\ req \in Seq(1 .. created) /\ temp \in Seq(1 .. created)
    /\ entries \in Nat /\ copied \in Nat /\ lineNo \in Nat
    /\ created \in Nat /\ restarts \in Nat
    /\ answered \in 0 .. created /\ gone \subseteq 1 .. created
    /\ saver \in {"idle", "opened", "written"}
    /\ rewriter \in {"idle", "copy", "remove", "rename", "assign"}

\* However saves, rewrites and restarts overlap, each line of the file is there
\* once and in the order the messages were created, and a message a rewrite has
\* taken out never comes back, although temporary files are left behind.
Sorted(s) == \A i, j \in 1 .. Len(s) : i < j => s[i] < s[j]
InOrderOnce == Sorted(req) /\ Lines(req) \intersect gone = {}

\* A message that has been written is lost only to a save, or a restart, that
\* fell between the last line a rewrite read and its rename: a save while the
\* lines are being copied, or between two rewrites, loses nothing.
Saved == 1 .. (IF saver = "opened" THEN created - 1 ELSE created)
LostOnlyInReplacement ==
    ~clash => Saved \ gone \subseteq
                  Lines(IF rewriter = "rename" THEN temp ELSE req)

\* The counter can be too high, or too low, after a save that a rewrite
\* overlapped, but the next rewrite that none overlaps puts it right.  (Where
\* it says 0 and there are lines, only another save makes that possible.)
CountIsRepaired ==
    saver = "idle" /\ rewriter = "idle" /\ ~disturbed => entries = Len(req)

=============================================================================
