------------------------- MODULE RequestFileProofs -------------------------
(***************************************************************************)
(* The request file and the answers that empty it.                         *)
(*                                                                         *)
(* RequestFile: the file is never reordered, duplicated or haunted by      *)
(* messages that were taken out, and a completed rewrite repairs its       *)
(* counter, for any number of messages, saves, rewrites and restarts.      *)
(* The argument: what the temporary file has is smaller than every line    *)
(* that is still to be read, so that copying keeps the order; it never has *)
(* the message being removed, nor one removed earlier, because each        *)
(* rewrite begins with an empty one; the message being saved is new to all *)
(* of them; and a rewrite that no save overlaps counts what it copies.     *)
(*                                                                         *)
(* Answers: a request leaves its file only when a result with its id was   *)
(* sent, and the calls of a server that waits are answered with what there *)
(* is, for all requests, calls and orders of the messages.  The argument   *)
(* follows a message from the server to the handler: what is under way or  *)
(* in either half of the buffer is a message the server sent, and with a   *)
(* server that waits both halves are of one message.                       *)
(***************************************************************************)
EXTENDS RequestFile, Answers, TLAPS

-----------------------------------------------------------------------------
(* RequestFile *)

\* The rewrite may still put the temporary file in the place of the file.
Rewriting == rewriter \in {"copy", "remove", "rename"}

\* All messages in the files have been written by the save that created them.
Known == /\ Lines(req) \subseteq Saved
         /\ Lines(temp) \subseteq Saved
         /\ gone \subseteq Saved
         /\ answered \in Saved \union {0}

\* The temporary file is in order and has nothing that was taken out.
TempInv == Rewriting => /\ Sorted(temp)
                        /\ Lines(temp) \intersect (gone \union {answered}) = {}
                        /\ answered # 0

\* Copying: all that has been copied comes before all that has not been read.
CopyInv == rewriter = "copy" =>
               \A x \in Lines(temp), k \in 1 .. Len(req) :
                   k > lineNo => x < req[k]

FileType ==
    /\ req \in Seq(Nat) /\ temp \in Seq(Nat)
    /\ created \in Nat /\ lineNo \in Nat
    /\ saver \in {"idle", "opened", "written"}
    /\ saver = "opened" => created > 0

FileInv == FileType /\ Known /\ TempInv /\ CopyInv /\ InOrderOnce

-----------------------------------------------------------------------------
(* Sequences of messages. *)

LEMMA LinesOfEmpty == Lines(<<>>) = {} /\ Sorted(<<>>)
    BY DEF Lines, Sorted

LEMMA LinesOfAppend ==
    ASSUME NEW s \in Seq(Nat), NEW m \in Nat
    PROVE  Lines(Append(s, m)) = Lines(s) \union {m}
<1>1. /\ Len(Append(s, m)) = Len(s) + 1
      /\ Append(s, m)[Len(s) + 1] = m
      /\ \A i \in 1 .. Len(s) : Append(s, m)[i] = s[i]
      /\ Len(s) \in Nat
    OBVIOUS
<1>2. 1 .. (Len(s) + 1) = (1 .. Len(s)) \union {Len(s) + 1}
    BY <1>1
<1> QED
    BY <1>1, <1>2 DEF Lines

LEMMA SortedAppend ==
    ASSUME NEW s \in Seq(Nat), NEW m \in Nat, Sorted(s),
           \A x \in Lines(s) : x < m
    PROVE  Sorted(Append(s, m))
<1>1. /\ Len(Append(s, m)) = Len(s) + 1
      /\ Append(s, m)[Len(s) + 1] = m
      /\ \A i \in 1 .. Len(s) : Append(s, m)[i] = s[i] /\ s[i] \in Nat
      /\ Len(s) \in Nat
    OBVIOUS
<1>2. \A i \in 1 .. Len(s) : s[i] < m
    BY DEF Lines
<1> QED
    BY <1>1, <1>2 DEF Sorted

-----------------------------------------------------------------------------
(* The steps. *)

LEMMA SavedIs ==
    ASSUME FileType PROVE /\ \A m \in Saved : m \in Nat /\ m <= created
                          /\ 0 \notin Saved
    BY DEF Saved, FileType

LEMMA OpenKeeps ==
    ASSUME FileInv, OpenToAppend PROVE FileInv'
<1>1. Saved' = Saved
    BY DEF OpenToAppend, Saved, FileInv, FileType
<1>2. UNCHANGED <<req, temp, gone, answered, rewriter, lineNo>>
    BY DEF OpenToAppend, rewriterVars
<1>3. FileType'
    BY <1>2 DEF OpenToAppend, FileInv, FileType
<1> QED
    BY <1>1, <1>2, <1>3
       DEF FileInv, Known, TempInv, Rewriting, CopyInv, InOrderOnce

LEMMA WriteKeeps ==
    ASSUME FileInv, WriteLine PROVE FileInv'
<1>1. /\ UNCHANGED <<temp, gone, answered, rewriter, lineNo, created>>
      /\ saver = "opened" /\ saver' = "written"
      /\ req' = Append(req, created) \/ req' = req
      /\ req \in Seq(Nat) /\ created \in Nat
    BY DEF WriteLine, rewriterVars, FileInv, FileType
<1>2. Saved' = Saved \union {created} /\ created \notin Saved
    BY <1>1 DEF Saved, FileInv, FileType
<1>3. \A x \in Saved : x < created
    BY <1>1 DEF Saved
<1>4. /\ Lines(req) \subseteq Saved /\ Lines(temp) \subseteq Saved
      /\ gone \subseteq Saved
    BY DEF FileInv, Known
<1>5. CASE req' = req
    BY <1>1, <1>2, <1>5
       DEF FileInv, FileType, Known, TempInv, Rewriting, CopyInv, InOrderOnce
<1>6. CASE req' = Append(req, created)
    <2>1. Lines(req') = Lines(req) \union {created}
        BY <1>1, <1>6, LinesOfAppend
    <2>2. Sorted(req')
        BY <1>1, <1>3, <1>4, <1>6, SortedAppend DEF FileInv, InOrderOnce
    <2>3. InOrderOnce'
        BY <1>1, <1>2, <1>4, <2>1, <2>2 DEF FileInv, InOrderOnce
    <2>4. FileType' /\ Known' /\ TempInv'
        BY <1>1, <1>2, <1>4, <1>6, <2>1
           DEF FileInv, FileType, Known, TempInv, Rewriting
    <2>5. CopyInv'
        <3> SUFFICES ASSUME rewriter = "copy",
                            NEW x \in Lines(temp), NEW k \in 1 .. Len(req'),
                            k > lineNo
                     PROVE  x < req'[k]
            BY <1>1 DEF CopyInv
        <3>1. CASE k <= Len(req)
            BY <1>1, <1>6, <3>1 DEF FileInv, CopyInv
        <3>2. CASE k > Len(req)
            BY <1>1, <1>3, <1>4, <1>6, <3>2
        <3> QED
            BY <1>1, <3>1, <3>2
    <2> QED
        BY <2>3, <2>4, <2>5 DEF FileInv
<1> QED
    BY <1>1, <1>5, <1>6

LEMMA CountKeeps ==
    ASSUME FileInv, CountLine PROVE FileInv'
<1>1. Saved' = Saved
    BY DEF CountLine, Saved
<1>2. UNCHANGED <<req, temp, gone, answered, rewriter, lineNo, created>>
    BY DEF CountLine, rewriterVars, fileVars
<1> QED
    BY <1>1, <1>2 DEF CountLine, FileInv, FileType, Known, TempInv, Rewriting,
                      CopyInv, InOrderOnce

LEMMA BeginKeeps ==
    ASSUME FileInv, NEW m \in 1 .. created, Begin(m) PROVE FileInv'
<1>1. /\ UNCHANGED <<req, gone, saver, created>>
      /\ temp' = <<>> /\ answered' = m /\ lineNo' = 0 /\ m \in Lines(req)
    BY DEF Begin, fileVars, saverVars
<1>2. Saved' = Saved /\ m \in Saved /\ m # 0
    BY <1>1 DEF Saved, FileInv, Known
<1>3. Lines(temp') = {} /\ Sorted(temp')
    BY <1>1, LinesOfEmpty
<1> QED
    BY <1>1, <1>2, <1>3
       DEF FileInv, FileType, Known, TempInv, CopyInv, InOrderOnce

LEMMA CopyKeeps ==
    ASSUME FileInv, CopyLine PROVE FileInv'
<1> DEFINE line == req[lineNo + 1]
<1>1. /\ UNCHANGED <<req, gone, answered, rewriter, saver, created>>
      /\ rewriter = "copy" /\ lineNo' = lineNo + 1
      /\ lineNo \in Nat /\ lineNo < Len(req)
      /\ req \in Seq(Nat) /\ temp \in Seq(Nat)
      /\ temp' = temp \/ (line # answered /\ temp' = Append(temp, line))
    BY DEF CopyLine, fileVars, saverVars, FileInv, FileType
<1>2. Saved' = Saved
    BY <1>1 DEF Saved
<1>3. lineNo + 1 \in 1 .. Len(req) /\ line \in Lines(req) /\ line \in Nat
    BY <1>1 DEF Lines
<1>4. /\ Sorted(temp) /\ answered # 0
      /\ Lines(temp) \intersect (gone \union {answered}) = {}
    BY <1>1 DEF FileInv, TempInv, Rewriting
<1>5. \A x \in Lines(temp), k \in 1 .. Len(req) : k > lineNo => x < req[k]
    BY <1>1 DEF FileInv, CopyInv
<1>6. CASE temp' = temp
    <2>1. CopyInv'
        BY <1>1, <1>5, <1>6 DEF CopyInv
    <2> QED
        BY <1>1, <1>2, <1>6, <2>1
           DEF FileInv, FileType, Known, TempInv, Rewriting, InOrderOnce
<1>7. CASE line # answered /\ temp' = Append(temp, line)
    <2>1. Lines(temp') = Lines(temp) \union {line}
        BY <1>1, <1>3, <1>7, LinesOfAppend
    <2>2. \A x \in Lines(temp) : x < line
        BY <1>1, <1>3, <1>5
    <2>3. Sorted(temp')
        BY <1>1, <1>3, <1>4, <1>7, <2>2, SortedAppend
    <2>4. line \notin gone
        BY <1>3 DEF FileInv, InOrderOnce
    <2>5. TempInv'
        BY <1>1, <1>4, <1>7, <2>1, <2>3, <2>4 DEF TempInv
    <2>6. CopyInv'
        <3> SUFFICES ASSUME NEW x \in Lines(temp'), NEW k \in 1 .. Len(req),
                            k > lineNo + 1
                     PROVE  x < req[k]
            BY <1>1 DEF CopyInv
        <3>1. CASE x \in Lines(temp)
            BY <1>1, <1>5, <3>1
        <3>2. CASE x = line
            BY <1>1, <1>3, <3>2 DEF FileInv, InOrderOnce, Sorted
        <3> QED
            BY <2>1, <3>1, <3>2
    <2>7. FileType' /\ Known' /\ InOrderOnce'
        BY <1>1, <1>2, <1>3, <1>7, <2>1
           DEF FileInv, FileType, Known, InOrderOnce
    <2> QED
        BY <2>5, <2>6, <2>7 DEF FileInv
<1> QED
    BY <1>1, <1>6, <1>7

LEMMA EndOfFileKeeps ==
    ASSUME FileInv, EndOfFile PROVE FileInv'
<1>1. /\ UNCHANGED <<req, temp, gone, answered, lineNo, saver, created>>
      /\ rewriter = "copy" /\ rewriter' = "remove"
    BY DEF EndOfFile, fileVars, saverVars
<1> QED
    BY <1>1 DEF FileInv, FileType, Known, Saved, TempInv, Rewriting, CopyInv,
                InOrderOnce

LEMMA RemoveKeeps ==
    ASSUME FileInv, RemoveFile PROVE FileInv'
<1>1. /\ UNCHANGED <<temp, answered, lineNo, saver, created>>
      /\ rewriter = "remove" /\ rewriter' = "rename"
      /\ req' = <<>> /\ gone' = gone \union {answered}
    BY DEF RemoveFile
<1>2. Lines(req') = {} /\ Sorted(req') /\ Saved' = Saved
    BY <1>1, LinesOfEmpty DEF Saved
<1>3. answered # 0 /\ TempInv'
    BY <1>1 DEF FileInv, TempInv, Rewriting
<1> QED
    BY <1>1, <1>2, <1>3 DEF FileInv, FileType, Known, CopyInv, InOrderOnce

LEMMA RenameKeeps ==
    ASSUME FileInv, RenameTemp PROVE FileInv'
<1>1. /\ UNCHANGED <<gone, answered, lineNo, saver, created>>
      /\ rewriter = "rename" /\ rewriter' = "assign"
      /\ \/ req' = req /\ temp' = temp
         \/ req' = temp /\ temp' = <<>>
    BY DEF RenameTemp, saverVars
<1>2. Lines(<<>>) = {} /\ Saved' = Saved
    BY <1>1, LinesOfEmpty DEF Saved
<1>3. TempInv' /\ CopyInv'
    BY <1>1 DEF TempInv, Rewriting, CopyInv
<1>4. Sorted(temp) /\ Lines(temp) \intersect gone = {}
    BY <1>1 DEF FileInv, TempInv, Rewriting
<1>5. CASE req' = req /\ temp' = temp
    BY <1>1, <1>2, <1>3, <1>5 DEF FileInv, FileType, Known, InOrderOnce
<1>6. CASE req' = temp /\ temp' = <<>>
    <2>1. FileType'
        BY <1>1, <1>6 DEF FileInv, FileType
    <2>2. Known' /\ InOrderOnce'
        BY <1>1, <1>2, <1>4, <1>6 DEF FileInv, Known, InOrderOnce
    <2> QED
        BY <1>3, <2>1, <2>2 DEF FileInv
<1> QED
    BY <1>1, <1>5, <1>6

LEMMA AssignKeeps ==
    ASSUME FileInv, AssignCount PROVE FileInv'
<1>1. /\ UNCHANGED <<req, temp, gone, answered, lineNo, saver, created>>
      /\ rewriter' = "idle"
    BY DEF AssignCount, fileVars, saverVars
<1> QED
    BY <1>1 DEF FileInv, FileType, Known, Saved, TempInv, Rewriting, CopyInv,
                InOrderOnce

LEMMA RestartKeeps ==
    ASSUME FileInv, Restart PROVE FileInv'
<1>1. /\ UNCHANGED <<req, temp, gone, created>>
      /\ rewriter' = "idle" /\ saver' = "idle"
      /\ answered' = 0 /\ lineNo' = 0
    BY DEF Restart, fileVars
<1>2. Saved \subseteq Saved'
    BY <1>1 DEF Saved, FileInv, FileType
<1> QED
    BY <1>1, <1>2 DEF FileInv, FileType, Known, TempInv, Rewriting, CopyInv,
                      InOrderOnce

THEOREM FileInvariant == Spec => []FileInv
<1>1. Init => FileInv
    <2> SUFFICES ASSUME Init PROVE FileInv
        OBVIOUS
    <2>1. Lines(req) = {} /\ Lines(temp) = {} /\ Sorted(req)
        BY LinesOfEmpty DEF Init
    <2> QED
        BY <2>1 DEF Init, FileInv, FileType, Known, TempInv, Rewriting,
                    CopyInv, InOrderOnce
<1>2. FileInv /\ [Next]_vars => FileInv'
    <2> SUFFICES ASSUME FileInv, [Next]_vars PROVE FileInv'
        OBVIOUS
    <2>1. CASE UNCHANGED vars
        BY <2>1 DEF vars, fileVars, saverVars, rewriterVars, FileInv, FileType,
                    Known, Saved, TempInv, Rewriting, CopyInv, InOrderOnce
    <2> QED
        BY <2>1, OpenKeeps, WriteKeeps, CountKeeps, BeginKeeps, CopyKeeps,
           EndOfFileKeeps, RemoveKeeps, RenameKeeps, AssignKeeps, RestartKeeps
           DEF Next
<1> QED
    BY <1>1, <1>2, PTL DEF Spec

\* The file has every line once, in the order of creation, and no line that a
\* rewrite took out, whatever overlaps.
THEOREM FileInOrderOnce == Spec => []InOrderOnce
<1>1. FileInv => InOrderOnce
    BY DEF FileInv
<1> QED
    BY <1>1, FileInvariant, PTL

-----------------------------------------------------------------------------
(* What is lost. *)

\* As long as nothing fell into a replacement, the message being saved goes to
\* the file there is, and every message is in the file, or has been copied by
\* the time the file is removed.
ReadSoFar == {req[i] : i \in {j \in 1 .. Len(req) : j <= lineNo}}

KeptInv ==
    ~clash =>
        /\ saver = "opened" => attached
        /\ rewriter # "rename" => Saved \ gone \subseteq Lines(req)
        /\ rewriter = "copy" => /\ lineNo <= Len(req)
                                /\ ReadSoFar \ {answered} \subseteq Lines(temp)
        /\ rewriter = "remove" => Lines(req) \ {answered} \subseteq Lines(temp)
        /\ rewriter = "rename" => /\ Saved \ gone \subseteq Lines(temp)
                                  /\ ~exists /\ saver # "opened"

LEMMA KeptByWrite ==
    ASSUME FileInv, KeptInv, WriteLine PROVE KeptInv'
<1> SUFFICES ASSUME ~clash' PROVE KeptInv'
    BY DEF KeptInv
<1>1. /\ UNCHANGED <<temp, gone, answered, rewriter, lineNo, created, exists>>
      /\ saver = "opened" /\ saver' = "written" /\ attached /\ ~clash
      /\ ~Replacing /\ req' = Append(req, created)
      /\ req \in Seq(Nat) /\ created \in Nat
    BY DEF WriteLine, rewriterVars, FileInv, FileType
<1>2. Lines(req') = Lines(req) \union {created}
    BY <1>1, LinesOfAppend
<1>3. Saved' = Saved \union {created}
    BY <1>1 DEF Saved, FileInv, FileType
<1>4. rewriter \notin {"remove", "rename"}
    BY <1>1 DEF Replacing
<1>5. rewriter = "copy" => ReadSoFar' = ReadSoFar
    <2> SUFFICES ASSUME rewriter = "copy" PROVE ReadSoFar' = ReadSoFar
        OBVIOUS
    <2>1. lineNo <= Len(req) /\ lineNo \in Nat
        BY <1>1 DEF KeptInv, FileInv, FileType
    <2>2. {j \in 1 .. Len(req') : j <= lineNo} =
              {j \in 1 .. Len(req) : j <= lineNo}
        BY <1>1, <2>1
    <2>3. \A j \in 1 .. Len(req) : req'[j] = req[j]
        BY <1>1
    <2> QED
        BY <1>1, <2>2, <2>3 DEF ReadSoFar
<1>6. rewriter = "copy" => lineNo <= Len(req')
    BY <1>1 DEF KeptInv, FileInv, FileType
<1> QED
    BY <1>1, <1>2, <1>3, <1>4, <1>5, <1>6 DEF KeptInv

LEMMA KeptBySave ==
    ASSUME FileInv, KeptInv, OpenToAppend \/ CountLine PROVE KeptInv'
<1> SUFFICES ASSUME ~clash' PROVE KeptInv'
    BY DEF KeptInv
<1>1. UNCHANGED <<req, temp, gone, answered, rewriter, lineNo>>
    BY DEF OpenToAppend, CountLine, rewriterVars, fileVars
<1>2. ~clash
    BY Zenon DEF OpenToAppend, CountLine
<1>3. Saved' = Saved
    BY DEF OpenToAppend, CountLine, Saved, FileInv, FileType
<1>4. ReadSoFar' = ReadSoFar
    BY <1>1 DEF ReadSoFar
<1>5. CASE OpenToAppend
    <2>1. attached' /\ ~Replacing
        BY Zenon, <1>5 DEF OpenToAppend
    <2> QED
        BY <1>1, <1>2, <1>3, <1>4, <2>1 DEF KeptInv, Replacing
<1>6. CASE CountLine
    <2>1. saver' # "opened" /\ exists' = exists
        BY <1>6 DEF CountLine, fileVars
    <2> QED
        BY <1>1, <1>2, <1>3, <1>4, <2>1 DEF KeptInv
<1> QED
    BY <1>5, <1>6

LEMMA KeptByBegin ==
    ASSUME FileInv, KeptInv, NEW m \in 1 .. created, Begin(m) PROVE KeptInv'
<1>1. /\ UNCHANGED <<req, gone, saver, created, attached, clash>>
      /\ lineNo' = 0 /\ rewriter = "idle" /\ rewriter' = "copy"
      /\ req \in Seq(Nat)
    BY DEF Begin, fileVars, saverVars, FileInv, FileType
<1>2. ReadSoFar' = {} /\ Saved' = Saved /\ lineNo' <= Len(req)
    BY <1>1 DEF ReadSoFar, Saved
<1> QED
    BY <1>1, <1>2 DEF KeptInv

LEMMA KeptByCopy ==
    ASSUME FileInv, KeptInv, CopyLine PROVE KeptInv'
<1> SUFFICES ASSUME ~clash' PROVE KeptInv'
    BY DEF KeptInv
<1> DEFINE line == req[lineNo + 1]
<1>1. /\ UNCHANGED <<req, gone, answered, rewriter, saver, created, attached>>
      /\ ~clash /\ rewriter = "copy" /\ lineNo' = lineNo + 1
      /\ lineNo \in Nat /\ lineNo < Len(req)
      /\ req \in Seq(Nat) /\ temp \in Seq(Nat) /\ line \in Nat
      /\ \/ line = answered /\ temp' = temp
         \/ temp' = Append(temp, line)
    BY DEF CopyLine, fileVars, saverVars, FileInv, FileType
<1>2. ReadSoFar' = ReadSoFar \union {line}
    <2> DEFINE Read(n) == {j \in 1 .. Len(req) : j <= n}
    <2>1. Read(lineNo + 1) = Read(lineNo) \union {lineNo + 1}
        BY <1>1
    <2>2. ReadSoFar = {req[j] : j \in Read(lineNo)}
        BY DEF ReadSoFar
    <2>3. ReadSoFar' = {req[j] : j \in Read(lineNo + 1)}
        BY <1>1 DEF ReadSoFar
    <2> HIDE DEF Read
    <2> QED
        BY <2>1, <2>2, <2>3
<1>3. \/ line = answered /\ Lines(temp') = Lines(temp)
      \/ Lines(temp') = Lines(temp) \union {line}
    BY <1>1, LinesOfAppend
<1>4. Saved' = Saved
    BY <1>1 DEF Saved
<1> QED
    BY <1>1, <1>2, <1>3, <1>4 DEF KeptInv

LEMMA KeptByEnd ==
    ASSUME FileInv, KeptInv, EndOfFile PROVE KeptInv'
<1> SUFFICES ASSUME ~clash' PROVE KeptInv'
    BY DEF KeptInv
<1>1. /\ UNCHANGED <<req, temp, gone, answered, lineNo, saver, created,
                     attached>>
      /\ ~clash /\ rewriter = "copy" /\ rewriter' = "remove"
      /\ lineNo >= Len(req) /\ lineNo \in Nat /\ Len(req) \in Nat
    BY DEF EndOfFile, fileVars, saverVars, FileInv, FileType
<1>2. ReadSoFar = Lines(req)
    BY <1>1 DEF ReadSoFar, Lines
<1>3. Saved' = Saved
    BY <1>1 DEF Saved
<1> QED
    BY <1>1, <1>2, <1>3 DEF KeptInv

LEMMA KeptByReplacing ==
    ASSUME FileInv, KeptInv, RemoveFile \/ RenameTemp \/ AssignCount
    PROVE  KeptInv'
<1> SUFFICES ASSUME ~clash' PROVE KeptInv'
    BY DEF KeptInv
<1>1. Saved' = Saved
    BY DEF RemoveFile, RenameTemp, AssignCount, saverVars, Saved
<1>2. CASE RemoveFile
    <2>1. ~clash /\ saver # "opened"
        BY Zenon, <1>2 DEF RemoveFile
    <2> QED
        BY <1>1, <1>2, <2>1 DEF RemoveFile, KeptInv
<1>3. CASE RenameTemp
    BY <1>1, <1>3 DEF RenameTemp, saverVars, KeptInv
<1>4. CASE AssignCount
    BY <1>1, <1>4 DEF AssignCount, saverVars, fileVars, KeptInv
<1> QED
    BY <1>2, <1>3, <1>4

LEMMA KeptByRestart ==
    ASSUME FileInv, KeptInv, Restart PROVE KeptInv'
<1> SUFFICES ASSUME ~clash' PROVE KeptInv'
    BY DEF KeptInv
<1>1. /\ ~clash /\ rewriter # "rename" /\ saver # "opened"
      /\ saver' = "idle" /\ rewriter' = "idle"
      /\ UNCHANGED <<req, gone, created>>
    BY DEF Restart, fileVars
<1>2. Saved' = Saved
    BY <1>1 DEF Saved
<1> QED
    BY <1>1, <1>2 DEF KeptInv

\* A message that has been written is lost only to what falls into the
\* replacement of the file.
THEOREM FileKeepsMessages == Spec => []LostOnlyInReplacement
<1>1. Init => KeptInv
    BY DEF Init, KeptInv, Saved
<1>2. FileInv /\ KeptInv /\ [Next]_vars => KeptInv'
    <2> SUFFICES ASSUME FileInv, KeptInv, [Next]_vars PROVE KeptInv'
        OBVIOUS
    <2>1. CASE UNCHANGED vars
        BY <2>1 DEF vars, fileVars, saverVars, rewriterVars, KeptInv, Saved,
                    ReadSoFar
    <2> QED
        BY <2>1, KeptByWrite, KeptBySave, KeptByBegin, KeptByCopy, KeptByEnd,
           KeptByReplacing, KeptByRestart DEF Next
<1>3. KeptInv => LostOnlyInReplacement
    BY DEF KeptInv, LostOnlyInReplacement
<1> QED
    BY <1>1, <1>2, <1>3, FileInvariant, PTL DEF Spec

-----------------------------------------------------------------------------
(* Types. *)

Flags == /\ exists \in BOOLEAN /\ attached \in BOOLEAN
         /\ clash \in BOOLEAN /\ disturbed \in BOOLEAN

DataTypes ==
    /\ req \in Seq(1 .. created) /\ temp \in Seq(1 .. created)
    /\ entries \in Nat /\ copied \in Nat /\ lineNo \in Nat
    /\ created \in Nat /\ restarts \in Nat
    /\ answered \in 0 .. created /\ gone \subseteq 1 .. created
    /\ saver \in {"idle", "opened", "written"}
    /\ rewriter \in {"idle", "copy", "remove", "rename", "assign"}
    /\ Rewriting => answered # 0

LEMMA LongerRange ==
    ASSUME NEW n \in Nat, NEW s \in Seq(1 .. n)
    PROVE  s \in Seq(1 .. (n + 1))
<1>1. \A i \in 1 .. Len(s) : s[i] \in 1 .. (n + 1)
    OBVIOUS
<1> QED
    BY <1>1

LEMMA FlagsKept ==
    ASSUME Flags, [Next]_vars PROVE Flags'
<1> USE DEF Flags, fileVars, saverVars, rewriterVars, Replacing, Disturb
<1>1. CASE UNCHANGED vars
    BY <1>1 DEF vars
<1>2. CASE OpenToAppend
    BY <1>2, Zenon DEF OpenToAppend
<1>3. CASE WriteLine
    BY <1>3, Zenon DEF WriteLine
<1>4. CASE CountLine
    BY <1>4, Zenon DEF CountLine
<1>5. ASSUME NEW m \in 1 .. created, Begin(m) PROVE Flags'
    BY <1>5, Zenon DEF Begin
<1>6. CASE CopyLine \/ EndOfFile
    BY <1>6, Zenon DEF CopyLine, EndOfFile
<1>7. CASE RemoveFile
    BY <1>7, Zenon DEF RemoveFile
<1>8. CASE RenameTemp
    BY <1>8, Zenon DEF RenameTemp
<1>9. CASE AssignCount
    BY <1>9, Zenon DEF AssignCount
<1>10. CASE Restart
    BY <1>10, Zenon DEF Restart
<1> QED
    BY <1>1, <1>2, <1>3, <1>4, <1>5, <1>6, <1>7, <1>8, <1>9, <1>10 DEF Next

LEMMA DataKept ==
    ASSUME FileInv, DataTypes, [Next]_vars PROVE DataTypes'
<1> USE DEF DataTypes, Rewriting, fileVars, saverVars, rewriterVars
<1>1. CASE UNCHANGED vars
    BY <1>1 DEF vars
<1>2. CASE OpenToAppend
    <2>1. created' = created + 1 /\ req' = req /\ temp' = temp
        BY <1>2 DEF OpenToAppend
    <2>2. req' \in Seq(1 .. created') /\ temp' \in Seq(1 .. created')
        BY <2>1, LongerRange
    <2>3. answered' \in 0 .. created' /\ gone' \subseteq 1 .. created'
        BY <1>2 DEF OpenToAppend
    <2> QED
        BY <1>2, <2>2, <2>3 DEF OpenToAppend
<1>3. CASE WriteLine
    <2>1. created \in 1 .. created
        BY <1>3 DEF WriteLine, FileInv, FileType
    <2>2. Append(req, created) \in Seq(1 .. created)
        BY <2>1
    <2>3. req' = Append(req, created) \/ req' = req
        BY <1>3, Zenon DEF WriteLine
    <2>4. req' \in Seq(1 .. created)
        BY <2>2, <2>3
    <2> QED
        BY <1>3, <2>4 DEF WriteLine
<1>4. CASE CountLine
    BY <1>4 DEF CountLine
<1>5. ASSUME NEW m \in 1 .. created, Begin(m) PROVE DataTypes'
    <2>1. temp' \in Seq(1 .. created) /\ answered' \in 1 .. created
        BY <1>5 DEF Begin
    <2> QED
        BY <1>5, <2>1 DEF Begin
<1>6. CASE CopyLine
    <2>1. req[lineNo + 1] \in 1 .. created
        BY <1>6 DEF CopyLine
    <2>2. Append(temp, req[lineNo + 1]) \in Seq(1 .. created)
        BY <2>1
    <2>3. \/ temp' = temp /\ copied' = copied
          \/ temp' = Append(temp, req[lineNo + 1]) /\ copied' = copied + 1
        BY <1>6, Zenon DEF CopyLine
    <2>4. temp' \in Seq(1 .. created) /\ copied' \in Nat
        <3>1. temp \in Seq(1 .. created) /\ copied \in Nat /\ copied + 1 \in Nat
            OBVIOUS
        <3> QED
            BY <2>2, <2>3, <3>1, Zenon
    <2>5. /\ UNCHANGED <<req, entries, created, restarts, answered, gone,
                         saver, rewriter>>
          /\ lineNo' = lineNo + 1
        BY <1>6, Zenon DEF CopyLine
    <2> QED
        BY <2>4, <2>5
<1>7. CASE EndOfFile
    BY <1>7 DEF EndOfFile
<1>8. CASE RemoveFile
    BY <1>8 DEF RemoveFile
<1>9. CASE RenameTemp
    <2>1. req' \in {req, temp} /\ temp' \in {temp, <<>>}
        BY <1>9, Zenon DEF RenameTemp
    <2>2. req' \in Seq(1 .. created) /\ temp' \in Seq(1 .. created)
        <3>1. /\ req \in Seq(1 .. created) /\ temp \in Seq(1 .. created)
              /\ <<>> \in Seq(1 .. created)
            OBVIOUS
        <3> QED
            BY <2>1, <3>1, Zenon
    <2>3. /\ UNCHANGED <<entries, created, restarts, answered, gone, saver,
                         lineNo, copied>>
          /\ rewriter' = "assign"
        BY <1>9, Zenon DEF RenameTemp
    <2> QED
        BY <2>2, <2>3
<1>10. CASE AssignCount
    BY <1>10 DEF AssignCount
<1>11. CASE Restart
    BY <1>11 DEF Restart
<1> QED
    BY <1>1, <1>2, <1>3, <1>4, <1>5, <1>6, <1>7, <1>8, <1>9, <1>10, <1>11
       DEF Next

\* Both files hold messages that were created, the counters are numbers and the
\* two tasks are at one of their steps (the variables of save_payload_to_spiffs
\* and handle_response_message).
THEOREM FileTypeSafe == Spec => []TypeOK
<1>1. Init => Flags /\ DataTypes
    <2> SUFFICES ASSUME Init PROVE Flags /\ DataTypes
        OBVIOUS
    <2>1. Flags
        BY Zenon DEF Init, Flags
    <2>2. DataTypes
        BY DEF Init, DataTypes, Rewriting
    <2> QED
        BY <2>1, <2>2
<1>2. FileInv /\ Flags /\ DataTypes /\ [Next]_vars => Flags' /\ DataTypes'
    BY FlagsKept, DataKept
<1>3. Flags /\ DataTypes => TypeOK
    BY Zenon DEF Flags, DataTypes, TypeOK
<1> QED
    BY <1>1, <1>2, <1>3, FileInvariant, PTL DEF Spec

-----------------------------------------------------------------------------
(* The counter *)

\* Lines that have been written and not yet counted.
Uncounted == IF saver = "written" THEN 1 ELSE 0

\* Between two rewrites the counter is behind by the line being counted; during
\* a rewrite that no save overlaps, copied counts the temporary file, which is
\* to become the file.
CountInv ==
    /\ rewriter \in {"copy", "remove", "rename"} => copied = Len(temp)
    /\ ~disturbed /\ rewriter # "idle" => saver = "idle"
    /\ ~disturbed /\ rewriter = "rename" => ~exists
    /\ ~disturbed /\ rewriter = "assign" => copied = Len(req)
    /\ ~disturbed /\ rewriter = "idle" =>
           /\ entries + Uncounted = Len(req)
           /\ saver = "opened" => attached

LEMMA CountKeptBySave ==
    ASSUME FileInv, DataTypes, CountInv, OpenToAppend \/ WriteLine \/ CountLine
    PROVE  CountInv'
<1>1. CASE OpenToAppend
    <2>1. /\ saver = "idle" /\ saver' = "opened" /\ attached'
          /\ disturbed' = (disturbed \/ rewriter # "idle")
          /\ UNCHANGED <<req, entries, temp, rewriter, copied>>
        BY <1>1 DEF OpenToAppend, Disturb, rewriterVars
    <2>2. Uncounted = 0 /\ Uncounted' = 0
        BY <2>1 DEF Uncounted
    <2> QED BY <2>1, <2>2, Zenon DEF CountInv
<1>2. CASE WriteLine
    <2>1. /\ saver = "opened" /\ saver' = "written"
          /\ attached => req' = Append(req, created)
          /\ disturbed' = (disturbed \/ rewriter # "idle")
          /\ UNCHANGED <<entries, temp, rewriter, copied>>
        BY <1>2 DEF WriteLine, Disturb, rewriterVars
    <2>2. Uncounted = 0 /\ Uncounted' = 1
        BY <2>1 DEF Uncounted
    <2>3. Len(Append(req, created)) = Len(req) + 1
        BY DEF DataTypes
    <2>4. ASSUME ~disturbed', rewriter' = "idle" PROVE entries' + 1 = Len(req')
        <3>1. req' = Append(req, created) /\ entries + 0 = Len(req)
            BY <2>1, <2>2, <2>4, Zenon DEF CountInv
        <3> QED BY <2>1, <2>3, <3>1 DEF DataTypes
    <2>5. copied = Len(temp) \/ rewriter \notin {"copy", "remove", "rename"}
        BY DEF CountInv
    <2> QED BY <2>1, <2>2, <2>4, <2>5, Zenon DEF CountInv
<1>3. CASE CountLine
    <2>1. /\ saver = "written" /\ saver' = "idle" /\ entries' = entries + 1
          /\ disturbed' = (disturbed \/ rewriter # "idle")
          /\ UNCHANGED <<req, exists, temp, rewriter, copied>>
        BY <1>3 DEF CountLine, Disturb, rewriterVars, fileVars
    <2>2. Uncounted = 1 /\ Uncounted' = 0
        BY <2>1 DEF Uncounted
    <2>3. entries' + 0 = entries + 1
        BY <2>1 DEF DataTypes
    <2> QED BY <2>1, <2>2, <2>3, Zenon DEF CountInv
<1> QED BY <1>1, <1>2, <1>3

LEMMA CountKeptByRewrite ==
    ASSUME FileInv, DataTypes, CountInv,
           \/ \E m \in 1 .. created : Begin(m)
           \/ CopyLine \/ EndOfFile \/ RemoveFile \/ RenameTemp \/ AssignCount
    PROVE  CountInv'
<1>1. ASSUME NEW m \in 1 .. created, Begin(m) PROVE CountInv'
    <2>1. /\ rewriter' = "copy" /\ copied' = 0 /\ temp' = <<>>
          /\ disturbed' = (saver # "idle") /\ saver' = saver
        BY <1>1 DEF Begin, saverVars
    <2>2. copied' = Len(temp')
        BY <2>1
    <2> QED BY <2>1, <2>2, Zenon DEF CountInv
<1>2. CASE CopyLine
    <2>1. /\ rewriter = "copy" /\ rewriter' = "copy"
          /\ UNCHANGED <<saver, disturbed>>
        BY <1>2 DEF CopyLine, saverVars
    <2>2. \/ temp' = temp /\ copied' = copied
          \/ temp' = Append(temp, req[lineNo + 1]) /\ copied' = copied + 1
        BY <1>2, Zenon DEF CopyLine
    <2>3. Len(Append(temp, req[lineNo + 1])) = Len(temp) + 1
        BY DEF DataTypes
    <2>4. copied' = Len(temp')
        BY <2>1, <2>2, <2>3, Zenon DEF CountInv
    <2> QED BY <2>1, <2>4, Zenon DEF CountInv
<1>3. CASE EndOfFile
    BY <1>3, Zenon DEF EndOfFile, CountInv, saverVars
<1>4. CASE RemoveFile
    BY <1>4, Zenon DEF RemoveFile, CountInv
<1>5. CASE RenameTemp
    <2>1. /\ rewriter = "rename" /\ rewriter' = "assign"
          /\ ~exists => req' = temp
          /\ UNCHANGED <<saver, disturbed, copied>>
        BY <1>5 DEF RenameTemp, saverVars
    <2> QED BY <2>1, Zenon DEF CountInv
<1>6. CASE AssignCount
    <2>1. /\ rewriter = "assign" /\ rewriter' = "idle" /\ entries' = copied
          /\ UNCHANGED <<saver, disturbed, req, attached>>
        BY <1>6 DEF AssignCount, saverVars, fileVars
    <2>2. ASSUME ~disturbed PROVE entries' + Uncounted' = Len(req')
        <3>1. saver = "idle" /\ copied = Len(req)
            BY <2>1, <2>2, Zenon DEF CountInv
        <3> QED BY <2>1, <3>1 DEF Uncounted, DataTypes
    <2> QED BY <2>1, <2>2, Zenon DEF CountInv
<1> QED BY <1>1, <1>2, <1>3, <1>4, <1>5, <1>6

LEMMA CountKeptByRestart ==
    ASSUME FileInv, DataTypes, CountInv, Restart
    PROVE  CountInv'
<1>1. /\ rewriter' = "idle" /\ saver' = "idle"
      /\ entries' = Len(req) /\ req' = req
    BY DEF Restart, fileVars
<1>2. Len(req) + 0 = Len(req)
    BY DEF DataTypes
<1>3. Uncounted' = 0
    BY <1>1 DEF Uncounted
<1> QED BY <1>1, <1>2, <1>3, Zenon DEF CountInv

\* The counter fileInfo.request_file_entries is the number of lines again after
\* every rewrite, and every restart, that no save has overlapped.
THEOREM CountRepaired == Spec => []CountIsRepaired
<1> DEFINE Inv == DataTypes /\ CountInv
<1>1. Init => Inv
    <2> SUFFICES ASSUME Init PROVE Inv
        OBVIOUS
    <2>1. DataTypes
        BY DEF Init, DataTypes, Rewriting
    <2>2. Uncounted = 0 /\ Len(req) = 0 /\ entries = 0
        BY DEF Init, Uncounted
    <2>3. entries + Uncounted = Len(req)
        BY <2>2
    <2>4. rewriter = "idle" /\ saver = "idle"
        BY DEF Init
    <2> QED BY <2>1, <2>3, <2>4, Zenon DEF CountInv
<1>2. FileInv /\ Inv /\ [Next]_vars => Inv'
    <2> SUFFICES ASSUME FileInv, Inv, [Next]_vars PROVE CountInv'
        BY DataKept
    <2>1. CASE UNCHANGED vars
        BY <2>1 DEF vars, fileVars, saverVars, rewriterVars, CountInv,
                    Uncounted
    <2> QED BY <2>1, CountKeptBySave, CountKeptByRewrite, CountKeptByRestart
            DEF Next
<1>3. Inv => CountIsRepaired
    <2> SUFFICES ASSUME Inv, saver = "idle", rewriter = "idle", ~disturbed
                 PROVE  entries = Len(req)
        BY DEF CountIsRepaired
    <2>1. Uncounted = 0
        BY DEF Uncounted
    <2> QED BY <2>1 DEF CountInv, DataTypes
<1> QED BY <1>1, <1>2, <1>3, FileInvariant, PTL DEF Spec

-----------------------------------------------------------------------------
(* Messages on their way *)

Results == {"none", "bad", "good"}

AnswersType ==
    /\ files \subseteq Requests
    /\ atServer \subseteq Requests
    /\ inbox \in Seq(Message)
    /\ head \in Message \cup {None}
    /\ tail \in Message \cup {None}
    /\ writing \in Message \cup {None}
    /\ reading \in Message \cup {None}
    /\ results \in [Requests -> Results]

LEMMA MessageFields ==
    ASSUME NEW m \in Message
    PROVE  /\ m.kind \in {"call", "result", "error"} /\ m.body \in Body
           /\ m.kind = "call" => m.id \in Calls
           /\ m.kind # "call" => m.id \in Requests
           /\ m # None
BY NoneAssumption DEF Message

LEMMA ParsedIsMessage ==
    ASSUME NEW h \in Message, NEW t \in Message, Parses(h, t)
    PROVE  /\ Parsed(h, t) \in Message
           /\ Parsed(h, t).kind = h.kind
           /\ Parsed(h, t).id = h.id
           /\ Parsed(h, t).body = t.body
BY MessageFields DEF Message, Parses, Parsed

LEMMA OneIsParsed ==
    ASSUME NEW m \in Message
    PROVE  Parsed(m, m) = m
BY DEF Message, Parsed

\* What the client takes is a message.
LEMMA HeadOfInbox ==
    ASSUME inbox \in Seq(Message), inbox # <<>>
    PROVE  /\ Head(inbox) \in Message /\ Head(inbox) = inbox[1]
           /\ Tail(inbox) \in Seq(Message)
           /\ \A k \in 1 .. Len(Tail(inbox)) :
                  /\ k + 1 \in 1 .. Len(inbox)
                  /\ Tail(inbox)[k] = inbox[k + 1]
           /\ 1 \in 1 .. Len(inbox)
           /\ Len(Tail(inbox)) = Len(inbox) - 1
OBVIOUS

\* The steps in which the server puts a message into the inbox.
Submitted(m) ==
    /\ m \in Message
    /\ inbox' = Append(inbox, m)
    /\ Len(inbox) < MaxInbox
    /\ paced => Idle
    /\ results' \in [Requests -> Results]
    /\ \A r \in Requests :
           /\ results[r] # "none" => results'[r] # "none"
           /\ results[r] = "good" => results'[r] = "good"
    /\ m.kind = "result" => /\ results'[m.id] # "none"
                            /\ m.body = "good" => results'[m.id] = "good"
    /\ atServer' \subseteq Requests
    /\ UNCHANGED <<paced, bufferVars, taskVars>>

LEMMA ServerSteps ==
    ASSUME AnswersType,
           \/ \E r \in Requests : Accept(r)
           \/ \E r \in Requests, body \in {"bad", "scalar", "long"} : AcceptBadly(r, body)
           \/ \E r \in Requests : Refuse(r)
           \/ \E c \in Calls, body \in {"good", "bad"} : Ask(c, body)
    PROVE  \E m : Submitted(m)
<1>1. ASSUME NEW r \in Requests, Accept(r) PROVE \E m : Submitted(m)
    <2> DEFINE m == [kind |-> "result", id |-> r, body |-> "good"]
    <2>1. m \in Message
        BY DEF Message, Body
    <2>2. Submitted(m)
        BY <1>1, <2>1 DEF Accept, Submit, Submitted, AnswersType, Results
    <2> QED BY <2>2
<1>2. ASSUME NEW r \in Requests, NEW body \in {"bad", "scalar", "long"},
             AcceptBadly(r, body)
      PROVE \E m : Submitted(m)
    <2> DEFINE m == [kind |-> "result", id |-> r, body |-> body]
    <2>1. m \in Message
        BY DEF Message, Body
    <2>2. Submitted(m)
        BY <1>2, <2>1 DEF AcceptBadly, Submit, Submitted, AnswersType, Results
    <2> QED BY <2>2
<1>3. ASSUME NEW r \in Requests, Refuse(r) PROVE \E m : Submitted(m)
    <2> DEFINE m == [kind |-> "error", id |-> r, body |-> "good"]
    <2>1. m \in Message
        BY DEF Message, Body
    <2>2. Submitted(m)
        BY <1>3, <2>1 DEF Refuse, Submit, Submitted, AnswersType
    <2> QED BY <2>2
<1>4. ASSUME NEW c \in Calls, NEW body \in {"good", "bad"}, Ask(c, body)
      PROVE \E m : Submitted(m)
    <2> DEFINE m == [kind |-> "call", id |-> c, body |-> body]
    <2>1. m \in Message
        BY DEF Message, Body
    <2>2. Submitted(m)
        BY <1>4, <2>1 DEF Ask, Submit, Submitted, AnswersType
    <2> QED BY <2>2
<1> QED BY <1>1, <1>2, <1>3, <1>4

\* The steps in which the client takes one out, or has it again.
Taken ==
    /\ writing = None
    /\ inbox # <<>>
    /\ writing' = Head(inbox) /\ head' = Head(inbox)
    /\ inbox' \in {inbox, Tail(inbox)}
    /\ UNCHANGED <<atServer, paced, results, tail, notified, taskVars>>

LEMMA ClientSteps ==
    ASSUME Redeliver \/ WriteHead
    PROVE  Taken
BY DEF Redeliver, WriteHead, Taken, taskVars

\* The steps in which the task reads the tail.
Understood ==
    /\ tail # None
    /\ Parses(reading, tail)
    /\ Handle(Parsed(reading, tail))

NotUnderstood ==
    /\ tail = None \/ ~Parses(reading, tail)
    /\ UNCHANGED <<files, replies, handled>>

LEMMA TaskSteps ==
    ASSUME ReadTail
    PROVE  /\ reading # None /\ reading' = None
           /\ Understood \/ NotUnderstood
           /\ UNCHANGED <<atServer, inbox, asked, paced, faulty, results, head,
                          tail, writing, notified>>
<1>1. /\ reading # None /\ reading' = None
      /\ UNCHANGED <<atServer, inbox, asked, paced, faulty, results, head,
                     tail, writing, notified>>
    BY DEF ReadTail, serverVars, bufferVars
<1>2. Understood \/ NotUnderstood
    BY Zenon DEF ReadTail, Understood, NotUnderstood
<1> QED BY <1>1, <1>2

\* What a step of the specification is.
AnyStep ==
    \/ UNCHANGED answersVars
    \/ \E r \in Requests : Send(r)
    \/ \E m : Submitted(m)
    \/ Taken \/ WriteTail \/ ReadHead \/ ReadTail

LEMMA StepsAre ==
    ASSUME AnswersType, [AnswersNext]_answersVars PROVE AnyStep
BY ServerSteps, ClientSteps DEF AnswersNext, AnyStep

LEMMA TypeKept ==
    ASSUME AnswersType, AnyStep PROVE AnswersType'
<1> USE DEF AnswersType
<1>1. CASE UNCHANGED answersVars
    BY <1>1 DEF answersVars, serverVars, bufferVars, taskVars
<1>2. ASSUME NEW r \in Requests, Send(r) PROVE AnswersType'
    BY <1>2 DEF Send, bufferVars, taskVars
<1>3. ASSUME NEW m, Submitted(m) PROVE AnswersType'
    BY <1>3 DEF Submitted, bufferVars, taskVars
<1>4. CASE Taken
    BY <1>4, HeadOfInbox DEF Taken, taskVars
<1>5. CASE WriteTail
    BY <1>5 DEF WriteTail, serverVars, taskVars
<1>6. CASE ReadHead
    BY <1>6 DEF ReadHead, serverVars
<1>7. CASE ReadTail
    <2>1. files' \subseteq Requests
        BY <1>7, TaskSteps DEF Understood, NotUnderstood, Handle
    <2> QED BY <1>7, <2>1, TaskSteps
<1> QED BY <1>1, <1>2, <1>3, <1>4, <1>5, <1>6, <1>7 DEF AnyStep

-----------------------------------------------------------------------------
(* The last message is handled *)

LastInv ==
    /\ writing # None => writing = head
    /\ writing = None /\ head # None /\ head.body # "long" =>
           /\ tail = head
           /\ \/ notified
              \/ reading = head
              \/ reading = None /\ handled = head

LEMMA LastKept ==
    ASSUME AnswersType, LastInv, AnyStep PROVE LastInv'
<1> USE DEF LastInv
<1>1. CASE UNCHANGED answersVars
    BY <1>1 DEF answersVars, serverVars, bufferVars, taskVars
<1>2. ASSUME NEW r \in Requests, Send(r) PROVE LastInv'
    BY <1>2 DEF Send, bufferVars, taskVars
<1>3. ASSUME NEW m, Submitted(m) PROVE LastInv'
    BY <1>3 DEF Submitted, bufferVars, taskVars
<1>4. CASE Taken
    <2>1. Head(inbox) # None
        BY <1>4, HeadOfInbox, MessageFields DEF Taken, AnswersType
    <2> QED BY <1>4, <2>1 DEF Taken
<1>5. CASE WriteTail
    BY <1>5, Zenon DEF WriteTail, serverVars, taskVars
<1>6. CASE ReadHead
    BY <1>6 DEF ReadHead, serverVars
<1>7. CASE ReadTail
    <2>1. ASSUME writing = None, head # None, head.body # "long",
                 reading = head
          PROVE  handled' = head
        <3>1. head \in Message /\ tail = head
            BY <2>1 DEF AnswersType
        <3>2. Parses(reading, tail) /\ tail # None
            BY <2>1, <3>1 DEF Parses
        <3>3. Understood
            BY <1>7, <3>2, TaskSteps DEF NotUnderstood
        <3> QED BY <2>1, <3>1, <3>3, OneIsParsed DEF Understood, Handle
    <2>2. /\ UNCHANGED <<head, tail, writing, notified>>
          /\ reading # None /\ reading' = None
        BY <1>7, TaskSteps
    <2> QED BY <2>1, <2>2, Zenon
<1> QED BY <1>1, <1>2, <1>3, <1>4, <1>5, <1>6, <1>7 DEF AnyStep

-----------------------------------------------------------------------------
(* What leaves its file was answered *)

Heard(m, res) ==
    m.kind = "result" =>
        /\ res[m.id] # "none"
        /\ m.body = "good" => res[m.id] = "good"

HeardInv ==
    /\ \A k \in 1 .. Len(inbox) : Heard(inbox[k], results)
    /\ \A m \in {head, tail, writing, reading} \ {None} : Heard(m, results)
    /\ DeletedOnlyWhenAnswered

LEMMA StillHeard ==
    ASSUME NEW m \in Message, Heard(m, results),
           \A r \in Requests : /\ results[r] # "none" => results'[r] # "none"
                               /\ results[r] = "good" => results'[r] = "good"
    PROVE  Heard(m, results')
BY MessageFields DEF Heard

LEMMA HeardKept ==
    ASSUME AnswersType, HeardInv, AnyStep PROVE HeardInv'
<1>1. CASE UNCHANGED answersVars
    BY <1>1 DEF answersVars, serverVars, bufferVars, taskVars, HeardInv, Heard,
                DeletedOnlyWhenAnswered
<1>2. ASSUME NEW r \in Requests, Send(r) PROVE HeardInv'
    BY <1>2 DEF Send, bufferVars, taskVars, HeardInv, Heard,
                DeletedOnlyWhenAnswered
<1>3. ASSUME NEW m, Submitted(m) PROVE HeardInv'
    <2>1. Heard(m, results')
        BY <1>3 DEF Submitted, Heard
    <2>2. \A n \in Message : Heard(n, results) => Heard(n, results')
        BY <1>3, StillHeard DEF Submitted
    <2>3. \A k \in 1 .. Len(inbox') : Heard(inbox'[k], results')
        <3> SUFFICES ASSUME NEW k \in 1 .. Len(inbox')
                     PROVE  Heard(inbox'[k], results')
            OBVIOUS
        <3>1. inbox' = Append(inbox, m) /\ m \in Message
            BY <1>3 DEF Submitted
        <3>2. CASE k = Len(inbox) + 1
            <4>1. inbox'[k] = m
                BY <3>1, <3>2 DEF AnswersType
            <4> QED BY <2>1, <4>1 DEF Heard
        <3>3. CASE k # Len(inbox) + 1
            <4>1. k \in 1 .. Len(inbox) /\ inbox'[k] = inbox[k]
                  /\ inbox[k] \in Message
                BY <3>1, <3>3 DEF AnswersType
            <4>2. Heard(inbox[k], results')
                BY <2>2, <4>1 DEF HeardInv
            <4> QED BY <4>1, <4>2 DEF Heard
        <3> QED BY <3>2, <3>3
    <2>4. UNCHANGED <<head, tail, writing, reading, files>>
        BY <1>3 DEF Submitted, bufferVars, taskVars
    <2>5. \A n \in {head, tail, writing, reading} \ {None} : Heard(n, results')
        BY <2>2 DEF HeardInv, AnswersType
    <2>6. DeletedOnlyWhenAnswered'
        BY <1>3, <2>4 DEF HeardInv, DeletedOnlyWhenAnswered, Submitted
    <2> QED BY <2>3, <2>4, <2>5, <2>6 DEF HeardInv, Heard
<1>4. CASE Taken
    <2>1. UNCHANGED <<results, files>>
        BY <1>4 DEF Taken, taskVars
    <2>2. \A k \in 1 .. Len(inbox') : Heard(inbox'[k], results)
        BY <1>4, HeadOfInbox DEF Taken, HeardInv, AnswersType
    <2>3. Heard(Head(inbox), results)
        BY <1>4, HeadOfInbox DEF Taken, HeardInv, AnswersType
    <2>4. \A n \in {head', tail', writing', reading'} \ {None} : Heard(n, results)
        BY <1>4, <2>3 DEF Taken, taskVars, HeardInv
    <2> QED BY <2>1, <2>2, <2>4 DEF HeardInv, Heard, DeletedOnlyWhenAnswered
<1>5. CASE WriteTail
    BY <1>5 DEF WriteTail, serverVars, taskVars, HeardInv, Heard,
                DeletedOnlyWhenAnswered
<1>6. CASE ReadHead
    BY <1>6 DEF ReadHead, serverVars, HeardInv, Heard, DeletedOnlyWhenAnswered
<1>7. CASE ReadTail
    <2>1. DeletedOnlyWhenAnswered'
        <3>1. CASE NotUnderstood
            BY <1>7, <3>1, TaskSteps DEF NotUnderstood, HeardInv,
               DeletedOnlyWhenAnswered
        <3>2. CASE Understood
            <4>1. reading \in Message /\ tail \in Message /\ Heard(reading, results)
                BY <1>7, <3>2, TaskSteps DEF Understood, AnswersType, HeardInv
            <4>2. \A r \in Removed(Parsed(reading, tail)) : results[r] # "none"
                BY <3>2, <4>1, ParsedIsMessage DEF Understood, Removed, Heard
            <4>3. files' = files \ Removed(Parsed(reading, tail))
                BY <3>2 DEF Understood, Handle
            <4> QED BY <1>7, <4>2, <4>3, TaskSteps DEF HeardInv,
                       DeletedOnlyWhenAnswered
        <3> QED BY <1>7, <3>1, <3>2, TaskSteps
    <2> QED BY <1>7, <2>1, TaskSteps DEF HeardInv, Heard
<1> QED BY <1>1, <1>2, <1>3, <1>4, <1>5, <1>6, <1>7 DEF AnyStep

-----------------------------------------------------------------------------
(* A server that waits *)

\* All that is under way, and all that is in the buffer once the task may read
\* it, is one message.
Alone ==
    /\ writing # None => writing = head
    /\ notified => head = tail
    /\ reading # None => reading = head /\ reading = tail
    /\ Len(inbox) <= 1
    /\ inbox # <<>> /\ (writing # None \/ notified \/ reading # None)
           => inbox[1] = head

AloneInv == paced => Alone

LEMMA AloneKept ==
    ASSUME AnswersType, AloneInv, AnyStep PROVE AloneInv'
<1> USE DEF AloneInv, Alone
<1>1. CASE UNCHANGED answersVars
    BY <1>1 DEF answersVars, serverVars, bufferVars, taskVars
<1>2. ASSUME NEW r \in Requests, Send(r) PROVE AloneInv'
    BY <1>2 DEF Send, bufferVars, taskVars
<1>3. ASSUME NEW m, Submitted(m) PROVE AloneInv'
    <2> SUFFICES ASSUME paced' PROVE Alone'
        OBVIOUS
    <2>1. inbox = <<>> /\ writing = None /\ ~notified /\ reading = None
        BY <1>3 DEF Submitted, Idle
    <2>2. Len(inbox') = 1
        BY <1>3, <2>1 DEF Submitted
    <2> QED BY <1>3, <2>1, <2>2 DEF Submitted, bufferVars, taskVars
<1>4. CASE Taken
    <2> SUFFICES ASSUME paced' PROVE Alone'
        OBVIOUS
    <2>1. Len(inbox) = 1 /\ Tail(inbox) = <<>> /\ Head(inbox) = inbox[1]
        BY <1>4, HeadOfInbox DEF Taken, AnswersType
    <2>2. inbox' = inbox \/ inbox' = <<>>
        BY <1>4, <2>1 DEF Taken
    <2>3. notified \/ reading # None => Head(inbox) = head
        BY <1>4, <2>1 DEF Taken
    <2>4. UNCHANGED <<tail, notified, reading>>
          /\ writing' = Head(inbox) /\ head' = Head(inbox)
        BY <1>4 DEF Taken, taskVars
    <2>5. Len(inbox') <= 1
        BY <2>1, <2>2
    <2>6. inbox' # <<>> => inbox'[1] = head'
        BY <2>1, <2>2, <2>4
    <2>7. /\ notified' => head' = tail'
          /\ reading' # None => reading' = head' /\ reading' = tail'
        BY <1>4, <2>3, <2>4 DEF Taken
    <2> QED BY <2>4, <2>5, <2>6, <2>7
<1>5. CASE WriteTail
    <2>1. tail' = writing /\ writing' = None
          /\ UNCHANGED <<inbox, head, reading, paced>>
        BY <1>5 DEF WriteTail, serverVars, taskVars
    <2>2. writing # None
        BY <1>5 DEF WriteTail
    <2> QED BY <2>1, <2>2, Zenon
<1>6. CASE ReadHead
    BY <1>6, Zenon DEF ReadHead, serverVars
<1>7. CASE ReadTail
    BY <1>7, TaskSteps
<1> QED BY <1>1, <1>2, <1>3, <1>4, <1>5, <1>6, <1>7 DEF AnyStep

LEMMA KeptKept ==
    ASSUME AnswersType, AloneInv, HeardInv, KeptUntilAccepted, AnyStep
    PROVE  KeptUntilAccepted'
<1> SUFFICES ASSUME paced', NEW r \in Requests \ (files' \cup Periodic)
             PROVE  results'[r] = "good"
    BY DEF KeptUntilAccepted
<1>1. CASE UNCHANGED answersVars
    BY <1>1 DEF answersVars, serverVars, bufferVars, taskVars,
                KeptUntilAccepted
<1>2. ASSUME NEW q \in Requests, Send(q) PROVE results'[r] = "good"
    BY <1>2 DEF Send, bufferVars, taskVars, KeptUntilAccepted
<1>3. ASSUME NEW m, Submitted(m) PROVE results'[r] = "good"
    BY <1>3 DEF Submitted, bufferVars, taskVars, KeptUntilAccepted
<1>4. CASE Taken
    BY <1>4 DEF Taken, taskVars, KeptUntilAccepted
<1>5. CASE WriteTail
    BY <1>5 DEF WriteTail, serverVars, taskVars, KeptUntilAccepted
<1>6. CASE ReadHead
    BY <1>6 DEF ReadHead, serverVars, KeptUntilAccepted
<1>7. CASE ReadTail
    <2>1. paced /\ results' = results
        BY <1>7 DEF ReadTail, serverVars
    <2>2. CASE r \notin files
        BY <2>1, <2>2 DEF KeptUntilAccepted
    <2>3. CASE r \in files
        <3>1. Understood
            BY <1>7, <2>3, TaskSteps DEF NotUnderstood
        <3>2. reading = tail /\ reading \in Message /\ Heard(reading, results)
            BY <1>7, <2>1, <3>1, TaskSteps
               DEF AloneInv, Alone, AnswersType, HeardInv
        <3>3. r \in Removed(reading)
            BY <2>3, <3>1, <3>2, OneIsParsed DEF Understood, Handle
        <3> QED BY <2>1, <3>2, <3>3 DEF Removed, Heard
    <2> QED BY <2>2, <2>3
<1> QED BY <1>1, <1>2, <1>3, <1>4, <1>5, <1>6, <1>7 DEF AnyStep

\* AnswersOnlyExisting of one answer
Exists(p) ==
    p.type = "result" /\ p.to.component \in {1, 2} =>
        \/ Underflows(p.to) /\ p.parts = {p.to.id}
        \/ /\ ~Underflows(p.to)
           /\ p.parts \subseteq Existing(p.to.component)
           /\ p.to.id = 0 => p.parts = Existing(p.to.component)

LEMMA ReplyExists ==
    ASSUME NEW m \in Message, NEW p \in Reply(m, m)
    PROVE  Exists(p)
<1>1. CASE p.type # "result"
    BY <1>1 DEF Exists
<1>2. CASE p.type = "result"
    <2>1. ASSUME NEW x PROVE Error(x).type # "result"
        BY DEF Error
    <2>2. m.kind = "call" /\ p = CallReply(m, m)
        BY <1>2, <2>1, Zenon DEF Reply
    <2>3. Supported(m.id) /\ p = [Result(m.id) EXCEPT !.to = m.id]
        BY <1>2, <2>1, <2>2, Zenon DEF CallReply
    <2>4. m.id \in Calls /\ m.id.id \in Int
        BY <2>2, MessageFields, AnswersAssumption
    <2>5. p.to = m.id /\ p.parts = Parts(m.id)
        BY <2>3 DEF Result
    <2>6. CASE Pcm(m.id)
        <3>1. p.parts = IF m.id.id = 0 THEN 1 .. NumPCM ELSE {m.id.id}
            BY <2>5, <2>6 DEF Parts, Pcm, EvEvse
        <3>2. m.id.component = 1 /\ m.id.id \in 0 .. NumPCM
            BY <2>6 DEF Pcm
        <3> QED BY <2>4, <2>5, <3>1, <3>2, AnswersAssumption
                DEF Exists, Existing, Underflows
    <2>7. CASE EvEvse(m.id) /\ ~Pcm(m.id)
        <3>1. p.parts = IF m.id.id = 0 THEN 1 .. NumConnectors ELSE {m.id.id}
            BY <2>5, <2>7 DEF Parts
        <3>2. m.id.component = 2 /\ (m.id.id = 0 \/ m.id.id <= NumConnectors)
            BY <2>7 DEF EvEvse
        <3> QED BY <2>4, <2>5, <3>1, <3>2, AnswersAssumption
                DEF Exists, Existing, Underflows
    <2>8. CASE ~Pcm(m.id) /\ ~EvEvse(m.id)
        <3>1. m.id.component \notin {1, 2}
            BY <2>3, <2>8 DEF Supported, OcppInfo, GridStatus
        <3> QED BY <2>5, <3>1 DEF Exists
    <2> QED BY <2>6, <2>7, <2>8
<1> QED BY <1>1, <1>2

LEMMA RepliesKept ==
    ASSUME AnswersType, AloneInv, AnswersOnlyExisting, AnyStep
    PROVE  AnswersOnlyExisting'
<1> USE DEF AnswersOnlyExisting, Exists
<1>1. CASE UNCHANGED answersVars
    BY <1>1 DEF answersVars, serverVars, bufferVars, taskVars
<1>2. ASSUME NEW q \in Requests, Send(q) PROVE AnswersOnlyExisting'
    BY <1>2 DEF Send, bufferVars, taskVars
<1>3. ASSUME NEW m, Submitted(m) PROVE AnswersOnlyExisting'
    BY <1>3 DEF Submitted, bufferVars, taskVars
<1>4. CASE Taken
    BY <1>4 DEF Taken, taskVars
<1>5. CASE WriteTail
    BY <1>5 DEF WriteTail, serverVars, taskVars
<1>6. CASE ReadHead
    BY <1>6 DEF ReadHead, serverVars
<1>7. CASE ReadTail
    <2> SUFFICES ASSUME paced', NEW p \in replies' PROVE Exists(p)
        OBVIOUS
    <2>1. paced
        BY <1>7 DEF ReadTail, serverVars
    <2>2. CASE p \in replies
        BY <2>1, <2>2
    <2>3. CASE p \notin replies
        <3>1. Understood
            BY <1>7, <2>3, TaskSteps DEF NotUnderstood
        <3>2. reading = tail /\ reading \in Message
            BY <1>7, <2>1, <3>1, TaskSteps DEF AloneInv, Alone, AnswersType
        <3>3. p \in Reply(reading, reading)
            BY <2>3, <3>1, <3>2, OneIsParsed DEF Understood, Handle
        <3> QED BY <3>2, <3>3, ReplyExists
    <2> QED BY <2>2, <2>3
<1> QED BY <1>1, <1>2, <1>3, <1>4, <1>5, <1>6, <1>7 DEF AnyStep

-----------------------------------------------------------------------------
(* The theorems *)

AnswersInv == AnswersType /\ LastInv /\ HeardInv /\ AloneInv

\* The inductive invariant of the two tasks and the server.
THEOREM AnswersInvariant == AnswersSpec => []AnswersInv
<1>1. AnswersInit => AnswersInv
    BY DEF AnswersInit, AnswersInv, AnswersType, LastInv, HeardInv, AloneInv,
           Alone, DeletedOnlyWhenAnswered, Results
<1>2. AnswersInv /\ [AnswersNext]_answersVars => AnswersInv'
    BY StepsAre, TypeKept, LastKept, HeardKept, AloneKept DEF AnswersInv
<1> QED BY <1>1, <1>2, PTL DEF AnswersSpec

\* Whatever the client overwrites while the task parses, the message that was
\* written last is handled when both have come to rest (mqtt_event_handler and
\* process_MQTT_msg).
THEOREM LastHandled == AnswersSpec => []LastIsHandled
<1>1. AnswersInv => LastIsHandled
    BY DEF AnswersInv, LastInv, LastIsHandled
<1> QED BY <1>1, AnswersInvariant, PTL

\* No request leaves its file without a result the server sent for it, however
\* the halves of messages mix in msg_string (validate_json_string).
THEOREM DeletedAnswered == AnswersSpec => []DeletedOnlyWhenAnswered
<1>1. AnswersInv => DeletedOnlyWhenAnswered
    BY DEF AnswersInv, HeardInv
<1> QED BY <1>1, AnswersInvariant, PTL

\* With a server that waits, a request that is not periodic data is stored until
\* a result with the payload the code asks for (validate_json_string).
THEOREM StoredUntilAccepted == AnswersSpec => []KeptUntilAccepted
<1>1. AnswersInit => KeptUntilAccepted
    BY DEF AnswersInit, KeptUntilAccepted
<1>2. AnswersInv /\ KeptUntilAccepted /\ [AnswersNext]_answersVars
      => KeptUntilAccepted'
    BY StepsAre, KeptKept DEF AnswersInv
<1> QED BY <1>1, <1>2, AnswersInvariant, PTL DEF AnswersSpec

\* With a server that waits, whatever it asks for, an answer has objects for power
\* modules and connectors there are, and for all of them if the id is 0; only a
\* negative connector is answered as if there were one
\* (create_componentStatus_response, which checks that id from above only).
THEOREM OnlyExistingAnswered == AnswersSpec => []AnswersOnlyExisting
<1>1. AnswersInit => AnswersOnlyExisting
    BY DEF AnswersInit, AnswersOnlyExisting
<1>2. AnswersInv /\ AnswersOnlyExisting /\ [AnswersNext]_answersVars
      => AnswersOnlyExisting'
    BY StepsAre, RepliesKept DEF AnswersInv
<1> QED BY <1>1, <1>2, AnswersInvariant, PTL DEF AnswersSpec

=============================================================================
